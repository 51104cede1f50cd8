# Verification of ntfy-hermes-bridge

TLA+ models of the bridge in `src/src/ntfy_hermes_bridge`, the TLC runs that check them on small
instances, and proofs, checked by TLAPS, of what holds for every instance. `PROJECT.json` maps each
definition to the lines it models, lists the runs, the mutants that show each property can fail, the
hazards, the findings and the theorems.

## The system

A daemon reads ntfy topics, stores every message in SQLite, decides a route for each, and delivers the
decided ones to Hermes webhooks, at once or in scheduled digests. It is one asyncio process: code between
two awaits is never interrupted by another task, but a crash can come between any two transactions, and
the operator's CLI works on the same database from another process.

| Component | State | Operations | Correct when |
|---|---|---|---|
| ntfy ingestion (`daemon.subscribe`, `stream_once`, `ingest_line`) | stream, `cursors`, `quarantine`, `alerts_active` | connect and replay, take a line, reconnect | no message is skipped, a loss is alerted |
| inbox and claims (`store`, `daemon.process_loop`, `process_one`) | `events.status`, `attempts`, the worker tasks | ingest, claim, commit, quarantine, release, reset at start | every event is decided, a suppressed one stays silent |
| classification (`pipeline`, `policy`, `jev`) | `ctx`, `_inflight`, fingerprints and routes in `events` | canonical event and buckets, rules, Jev, cooldown, gate, reload, guardrail | the route is the one the documented policy gives, whatever the workers' interleaving |
| outbox (`daemon.outbox_loop`, `deliver`, `store`) | `outbox`, the batch in flight | post, settle, retry, dead-letter, fallback, `outbox retry` | at least once, bounded retries, a status never claims more than was accepted |
| digests (`digest`, `daemon.digest_loop`, `cli`) | `digest_items`, `meta` slots and window | due slot, compose parts, commit, `digest flush` | every waiting event is in one part, once |
| health alerts (`daemon.check_alert`) | `alerts_active`, `last_quarantine_count` | poll, raise, re-arm | one alert per outage, none missed |
| retention (`store.prune`) | all tables | delete old rows and events | nothing that waits is deleted |
| hot reload (`daemon.maybe_reload`) | `config_mtime`, `ctx` | poll, validate, swap | the last valid file is in force |
| labels, replay, evaluation, import (`cli`) | `labels`, replay decisions | operator commands | offline |
| normalisation, redaction, config, logs, metrics, HTTP | none that others read | string handling, views | not modelled |

The components meet in the SQLite tables. Ingestion wakes the processor, a decision wakes the outbox, a
digest becomes outbox rows, a failed critical delivery becomes a fallback row, a health alert becomes an
event of the internal topic and so passes through everything once more.

What is hard: a crash between two transactions of one handler; the CLI's transactions between a read and a
write of the daemon; rows read before an await and used after it; a lost answer to an accepted request;
one status for an event with two carriers (a reviewed event has its own row and a digest item); retention
deleting rows others point to; workers that commit out of order. `PROJECT.json` lists each hazard at its line.

## Modules

| Module | What it is |
|---|---|
| `Bridge` | the life of an event: inbox, claims, commit, outbox, fallback, digest flush, `outbox retry`, retention, crash and restart |
| `Contract` | what `Bridge` promises, as a specification of its own: phases of an event and what was heard of it |
| `BridgeInv` | the inductive invariant of `Bridge`, and of its digest parts |
| `MCBridge` | TLC instance of `Bridge` (symmetry) |
| `RowLife` | what becomes of each row of the outbox on its own; `Bridge` and `Outbox` both implement it |
| `BridgeProofs` | the invariant and what follows from it; `Bridge` implements `Contract` and `RowLife` |
| `Outbox` | the order of due rows: batches, backoff, rows that raise, `outbox retry`, the fallback at the last attempt |
| `MCOutbox`, `OutboxProofs` | TLC instance; the invariant of the line, the proof that no critical row is given up without its alert, and that `Outbox` implements `RowLife` |
| `DigestParts`, `MCDigestParts` | how a digest is composed: rows into entries, entries into units, units into parts, one turn of the loops of `enqueue_digest` and `build_parts` after the other; TLC instance over every sequence of rows |
| `DigestPartsProofs` | the invariant of the composition and what follows from it |
| `Digest` | `run_due_digest`: slots, windows, `digest flush` beside the daemon, exceptions and crashes between its transactions |
| `DigestProofs` | the invariant of `Digest` and what follows from it |
| `Ingest` | one topic: server, stream, cursor, quarantine, truncated replays |
| `IngestProofs` | the invariant of `Ingest` and what follows from it |
| `Pipeline` | workers, repeat buckets and the cooldown over identical events |
| `MCPipeline`, `PipelineProofs` | TLC instance; the invariant behind the bound on what reaches Hermes and behind the history that events are judged by |
| `Policy` | the route as a function: rules, thresholds, fallback, cooldown, gate |
| `Rollout` | decisions while the file is edited and reloaded, labels are added, the guardrail is refreshed, the daemon restarts |
| `MCRollout`, `RolloutProofs` | TLC instance; lemmas about `Policy` and the invariant of `Rollout` |
| `Evaluation` | `eval --candidate` while the daemon decides and labels change |
| `MCEvaluation`, `EvaluationProofs` | TLC instance; the proof that the exit code is right without `--reclassify` |

`Rollout` and `Evaluation` extend `Policy`. The others meet at their interfaces: the route that `Bridge` takes as any route
(`Commit`) is `Effective` of `Policy`, the tasks of `Pipeline` are the `Claim` and `Commit` of `Bridge` with time and
fingerprints, and a line that `Ingest` keeps is an `Ingest` step of `Bridge`. `Outbox` and `Digest` look closer at
two parts of `Bridge`: where `Bridge` posts any pending row and reads the unbound items at any moment, they have
the times that decide which and when. What `Digest` uses of the composition (parts partition the rows
read) is `RowsListedOnce` of `DigestParts`.

In `Bridge` a transaction of `store.py` is an action. What the daemon does between two transactions
without an await is split in two actions only where a crash or the CLI can come between
(`DeliveryFailed` then `EnqueueFallback`, `FlushRead` then `FlushCommit`); `TaskRuns` keeps the other
tasks of the process out of that gap. `working`, `posting`, `owed` and `flush` are the daemon's memory, lost
in a crash. `accepted` is Hermes and ntfy: a request may be taken and its answer lost. The decision itself
is any route (`Commit`), so `Bridge` holds whatever the policy does. A part of a digest is any partition of
the rows read (`FlushCommit`). Times are not kept: a pending row may be posted at any moment, an old row or
event may be pruned at any moment, so what holds does not depend on backoff or on `retention.days`.

In `Ingest` a message is its position in the topic. The server may drop old messages (`Expire`), forget the
cursor, start a replay later than asked (`Connect(from)`), and a message may be malformed
(`Publish(FALSE)`). A line is one step, since the bridge handles one at a time without an await.

In `Outbox` the pending rows stand in a line in the order of `next_attempt_at` and `id`; the first `ripe` of them
are due. Time passes by `RipenTo`, a retry comes back at some place behind the rows that are due (any
backoff), what is enqueued or requeued joins the rows that are due. A delivery runs from the answer to its end in
one step, since nothing in it awaits; the crash inside it is in `Bridge`. Rows in `Raising` may raise at every
attempt: they are neither counted nor delayed, so they keep their place at the head of the line.

In `Digest` each read or write of the database is a step of its own, since `digest flush` is another process and
a crash or an exception may come after any of them. Times are numbers, the schedule is a set of them, and 0
stands for a missing value of `meta`. `origin`, the first slot ever recorded, is history for the properties: an
item queued before it is not promised a window. A decision takes its time first (`Stamp`) and is committed in
a transaction that may have to wait for another process (`Queue`, or `QueueFails`); the daemon does nothing else in
between, but a flush may. `committedAt` is history: when the item became visible. In `DigestParts` an entry is the set of rows of one fingerprint,
a unit what a digest lists, a place the sort key of `build_parts`. The loops are steps: the next profile, the next unit
into the current part or into a new one, the end of a profile. Nothing else runs in between (there is no await), so
the steps are the turns of the loops and not interleavings; they are what an invariant can be stated about. Two units
with the same place may come in either order. Sizes are numbers per row; the constant 64 and the JSON around them
are part of the size. `Arrive` and `Commit` stand for what comes before and after: rows are queued one by one, a
commit binds them all.

In `Evaluation` the replay of an event is one step with the answers stored at that moment; each of the two
configurations may find an earlier event for its cooldown or not. The path without a candidate, the report and
labels on events that no longer parse are left out.

In `Pipeline` an event is its place in the order of arrival; time is a small number, and `received_at` grows
strictly from event to event and the clock never goes back (the code takes it from the wall clock). Tasks
take their first step in the order they are created, as asyncio runs them, and each runs to its first await,
which only Jev is. `path` says which of the ways through `decide` an event takes; whether `gate` then sends it
to Hermes is left open. Buckets are a function of the committed and the tracked events at the first step.
A task that ends in an exception gives its event back (`Fail`), unless `release_failed` raises too (`Strand`): the event
then keeps the status `processing`, uncounted, without a task and unknown to the others, until the next start.
`stranded` is history: the events this ever happened to. Times are counted from the first arrival.

In `Policy` probabilities and thresholds are numbers that are only compared, and the kind of an event stands
for all that rules look at (source, entity, tags, fingerprint, text, priority). Rules of a configuration are
therefore sets of kinds; echo, test, fingerprint and price-only drops are one set, since they all give DROP
before anything else is looked at. The two thresholds that only word the reason of a DIGEST are left out.

In `Rollout` the modification time counts edits, so a copy that keeps an older time is not covered (the code
compares with `==` and would reload it). `maybe_reload` is split where it awaits: `Poll` (stat, and
`config_mtime` taken), `ReadCandidate` (the thread), then `Swap`, `Reject` or `ReloadRaises`.
`compute_guardrail` awaits only `replay` with stored answers, which never suspends, so a swap and a refresh are
one step each. A thinking task holds a reference to its context: until a swap it sees a refreshed guardrail
(`held` is `Nothing` and `ContextOf` is `ctx`), afterwards its own (`held`). A label "early" is a critical label
on an event that has no stored answers yet. `MinLabels` and `MinCritical` are constants; in the code they come
with the configuration and are compared in the same way.

## Runs

| Run | Shows | Bounds |
|---|---|---|
| `bridge_two_events` | `WaitingHasCarrier`, `DeadLetterHasDeadRow`, `SuppressedIsSilent`, `DigestOnce`, `SettledWasAccepted`, `NeverResent`, the inductive invariant, and that every step is a step of `Contract` and of `RowLife` (`KeepsContract`) | two events and two parts: together in a part, apart, or over two flushes; one attempt and one try, every fault, `outbox retry`, retention |
| `bridge_live` | `EveryEventDecided`, `EveryWaitEnds` | one event with all its carriers, two attempts and two tries |
| `outbox` | `FallbackKept`, `LineIsPending`, `EveryRowEnds`, the inductive invariant | 3 rows and the alert of the critical one; batches of 2, so that a raising row leaves one place; `after_attempts` = `max_attempts` = 2, where both conditions meet |
| `digest_parts` | `RowsListedOnce`, `PartsInLimits`, `PartsOfOneProfile`, `ResolvedEndedWell`, `UsefulFirst`, the inductive invariant | every sequence of up to 5 rows over 6 kinds, at every turn of the loops; parts of at most 3 items and 5 units of size, two profiles |
| `digest` | `SlotDoneMeansSent`, `WindowReachesBack`, `EveryItemListed`, the inductive invariant | 2 items, 4 times with 3 slots, one flush at any step of the daemon, also between the stamp and the commit of an item, crashes and exceptions |
| `ingest` | nothing skipped, losses alerted, the inductive invariant; every message that was asked for kept in the end | 4 messages: one kept before, one lost, one malformed, one new; both values of `initial_since` |
| `pipeline_workers` | `SentIsBounded`, `FirstIsFirst`, `ReplayAgrees`, the inductive invariant | 3 events, 2 workers, 2 fingerprints, windows of 2 and 3 in a time of 4: inside and outside of each, crashes, exceptions and at most one stranded event (`MaxStranded`), which is enough for it to be decided after both of the others |
| `rollout` | `DropsAreGuarded`, `CriticalIsKept`, `RoutesAreMonotone`, `AskedAsConfigured`, `InForceIsUsable`, `NoEditLost`, the inductive invariant | 2 events of any of 2 kinds, 2 edits over 5 contents, 5 outcomes of Jev around the thresholds, one label that is enough for the guardrail |
| `fallback_crash` | violation, see findings | |
| `digest_race` | violation, see findings | |
| `cooldown_race` | violation, see findings | |
| `eval_reclassify` | violation, see findings | |

The types of every module with a passing run are a part of its inductive invariant (`IndInv`), as is `RetriesBounded` of `Bridge`.
The violations run one event (two for `eval_reclassify` and `cooldown_race`), the fewest that show the matter.

`CHECK_DEADLOCK FALSE` is set where nothing need happen any more: without a crash, and with every event
settled and pruned, the daemon waits for messages for ever; once all events of an instance are decided
nothing is left in `Pipeline`; and a daemon whose file is refused stays down in `Rollout`.

Liveness (`bridge_live`) assumes fairness action by action: asyncio resumes every ready task, requests and
classifications end by their timeouts, claims and due rows are taken oldest first, the digest schedule
comes round each day and the supervisor restarts the daemon. Claims, posts and digests get strong
fairness since another task, a crash or a full batch may disable them again and again. It also assumes
that from some point on the daemon stays up and no exception escapes a delivery or a digest
(`Unstable`): an exception at every attempt keeps a row due for ever, which the code does not bound. One
event is enough for the question and keeps the assumption honest: fairness per row among many rows is what
`due_outbox`'s order delivers, and `outbox` shows that it does. Stranding (`release_failed` raises) is left
out of this run: such an event waits for the next start, which nothing forces. The safety runs of `Bridge` and `Pipeline`
include it.

`outbox` assumes only that time passes, that every request ends, that `outbox_loop` comes round and that the
daemon in the end stays up; which row is served follows from the order of the line. `EveryRowEnds` holds with
fewer raising rows than `outbox.concurrency`. With as many it fails (`Concurrency = 1` in `outbox.cfg` shows
it): a batch then holds nothing but rows that raise. `digest` assumes that time passes, that `digest_loop`
comes round, that a transaction that waits for the lock gets it, and that from some point on neither a crash nor an
exception stops the daemon half-way; the CLI is promised nothing and may stop anywhere.

## Findings

- `fallback_crash`: the daemon dead-letters a critical event in one transaction and enqueues its plain ntfy
  alert in another. A crash in between loses the alert. `OnlyTheGapLosesAlerts` says that nothing else does, given
  `after_attempts` up to `max_attempts`: a crash or an exception at any other moment is harmless.
- `digest_race`: `digest flush` and the scheduled digest may read the same items before either commits; the
  event is then listed in two digests. Without `digest flush` it cannot be (`DigestedOnce`).
- `cooldown_race`: with two workers the later of two identical events may be committed while the earlier one
  waits for Jev. The cooldown only looks at earlier events, so both reach Hermes. `SentIsBounded` says how bad it
  can get, one per worker and each stranded event besides, and `OneWorkerHonoursCooldown` that a single worker
  keeps the promise as long as no event is stranded.
- `eval_reclassify`: with `--reclassify` the exit code is taken from a guardrail that replays the stored answers. A
  critical event that only the new answers drop, and that the current policy did not keep as safe either, passes
  with exit code 0. Without `--reclassify` this cannot happen (`StoredEvaluationIsSound`).

Four more were met and have no run of their own. An event whose `release_failed` raises is decided only after the
next start, when younger identical ones may have gone to Hermes; its cooldown looks at events that arrived earlier,
so it goes there too, even with one worker. `SentIsBounded` counts such events apart. A decision stamps
`queued_at` before its transaction begins: if `digest flush` runs in between, the digest that lists the item has a
`window_start` after that `queued_at`, by at most the wait for the lock (`busy_timeout`, 5 s); no document promises
otherwise, and `WindowReachesBack` promises the commit time then. Until a topic has a cursor each reconnect uses `initial_since`
again, so with the default what is published during such a disconnection is never requested
(`config.example.toml` says "first start only"); `AllIsReplayed` is `NothingSkippedSinceFirst` for `all`, and
fails for the default. And `run` loads the file before `App.__init__` takes its modification time: an edit in
between is never applied; `NoEditLost` fails when the file may change during a start, and is checked and
proved for a file that is left alone then.

## Proofs

All constants are arbitrary, under the named assumptions of the modules (bounds are positive naturals,
flags are booleans, `none` and `unbound` are not part ids).

`BridgeProofs` proves `IndInv` inductive. None of its parts is inductive alone. `SettledWasAccepted`
needs `BoundIsListed`, since a part settles what is bound to it and only a listed event was heard.
`WaitingHasCarrier` needs `PostedIsPending`, since only then does a failed post leave the row pending or
the event dead-lettered, and `SuppressedIsSilent`, since a commit inserts with OR IGNORE and would insert
nothing if an old row existed. `SuppressedIsSilent` needs `MemoryDecided`, since rows read by a flush are
committed later, and `ClaimsMarked`, since only a claimed event commits. `RetriesBounded` needs
`NewRowsUntried`. `DownIsIdle` lets `Start` keep the rest. `DigestedOnce` proves `DigestOnce` when nobody
runs `digest flush`, with `FlushInv`: what the daemon has read stays unbound until it commits.

`ContractIsKept` proves `Spec => KeepsContract`. For `Contract`, `phase` is a function of the status, `heard` the events that an
accepted row carries. A commit closes or owes an event, a batch that is accepted is heard, a delivery tells the
events it settles (they are heard by `SettledWasAccepted` in the next state), a dead letter fails them,
`outbox retry` reopens some of them, retention forgets; all else stutters. For `RowLife` the two columns of the outbox are
mapped as they are (`LifeStep`): only a pending row is ever ended, since what is in flight is pending, its attempts end with
the last one by `RetriesBounded`, and a part is a new row since its id was free. `NeverResent` follows from it, and `OnlyTheGapLosesAlerts`:
a row dies by a failed delivery only (`DeadByFailure`), and the attempt that kills it owes the alert (`AlertStep`). This
last theorem restricts the behaviours, not the faults: `GapStep` forbids a crash or an exception only while an alert
is owed.

`IngestProofs` proves `IndInv` of `Ingest` for any number of messages, with `StreamInv` as the strengthening: the
stream is ahead of the cursor and the cursor is the newest message in the inbox.

`PipelineProofs` proves `SentIsBounded` for any number of events and workers. Events that were ever stranded are
counted apart: they are decided late, after younger ones. Among the others, identical events that all went to
Hermes within one cooldown form a chain: had an earlier one been committed when a later one looked for it, the
later one would have been downgraded, so a newer one was committed while every older one was still open. The invariant says that claims go oldest
first, that the open events up to any claimed one, stranded ones left out, are at most `Workers`, and that a chain fits among them;
the order of claims is what makes it inductive (`OldestFirst`), and the mutant that takes the youngest breaks it.

The same module proves `FirstIsFirst` and `ReplayAgrees`. `HistoryInv` is what they need: when an event is taken,
an older one is in the inbox only because its processing failed (`Failed`: its tries count it, or it was stranded). A task takes its first step while no older
one is still to begin, so every older event is then decided, in flight, quarantined or failed (`BucketBegins`), and what it
computes from the committed and the tracked ones is what the whole history gives. Later arrivals are
younger and change nothing in it (`BucketKept`).

With one worker the older of two identical events is decided before the younger one is taken (`OlderIsDecided`), so the
cooldown sees it, when none can be stranded (`MaxStranded = 0`); this gives `CooldownHonoured`, which the run `cooldown_race` shows to fail with two.

`DigestProofs` proves `IndInv` of `Digest`. `WaitingInv` is the heart: whatever waits was committed after the last window
and queued after the last slot, and it was committed after the slot or window that a process is about to record, unless
that process has it among the rows it read. It is inductive because the daemon queues nothing while it is in
`run_due_digest`, and `StampInv` says that nothing but a flush moves on between the stamp of an item and its commit; so
`queued_at` takes the place of the commit time as long as no flush ran. `StartInv` says that the window start computed
before the read reaches back to what is read.
`SlotDoneMeansSent` and `WindowReachesBack` follow.

`DigestPartsProofs` proves `IndInv` of `DigestParts`, for any contents, profiles, limits and sizes and any number of
rows, without a recursive definition: the loops are steps and the invariant says what they have in hand.
`DivisionInv` says that the rows are divided among the closed parts, the current part, the units left and the profiles
to come; each turn moves one unit, and the units of a profile divide its rows, since entries are classes of a fingerprint
and a resolved record takes whole entries. At the end nothing is left or to come, which is `RowsListedOnce`.
`SizeInv` carries the running sum, as a function of the units laid so far, so that a closed part keeps the budget whenever it has a
second unit. `UnitsInv` says that each unit belongs to the profile of its part, hence `PartsOfOneProfile`, and with the definition of
a resolved record `ResolvedEndedWell`. `OpenerInv` says that the first unit laid for a profile is its most useful one: the
places are compared lexicographically and the first components decide. The first row of an entry and the last row of an
entity exist because a nonempty set of rows has a least and a greatest element, which is proved from well-foundedness.

`OutboxProofs` proves `IndInv` of `Outbox`. The heart is how the line changes: a row that ended leaves it (`LeavesLine`),
rows that are due join it behind the due ones (`JoinsLine`), and a retried row is put back behind them; in each case
the rows at the first places are known, so the line stays a permutation of the pending rows and those in flight stay among
the due ones (`LineIsPending`). It needs that a row not inserted has no attempts, since an inserted row must have attempts
left. `FallbackKept` holds for every `after_attempts` up to `max_attempts`: the attempt that gives a row
up always satisfies the condition of the alert, so it enqueues it or finds it (`GivenUpIsAlerted`). `RowsLiveInLine` shows
that `Outbox` implements the same `RowLife` as `Bridge`, so that the two agree on the rows: a delivery from the answer to its end is
one step here and may be two there, since the alert of a row is another row. (TLC checks `RowLife` on `Bridge`, as a part of
`KeepsContract`; on `Outbox` it is only proved.)
`EvaluationProofs` proves that without `--reclassify` a drop in the candidate's result is a drop by the answers
stored now (`DropIsStored`), because stored answers stay and without answers only a rule drops.

`RolloutProofs` first proves lemmas about `Policy` for every threshold: a critical category is never dropped
(`CriticalNotDropped`), and of two answers the more alarming gets no less urgent a route, before and after the
gate (`AnswersMonotone`, `GateMonotone`). The invariant of `Rollout` then has three parts that TLC's properties need:
`ReloadInv` (what was read is the file unless that changed again), `ContextInv` (who holds which context) and
`GuardInv`: a guardrail that passes still passes for the labels it was computed from. That part is inductive
because answers of decided events never change (`StepKeepsDecided`) and because a label on an undecided event
is replayed without answers. `NoEditLost` is proved when the file is left alone while the daemon starts.

Only model-checked: the liveness properties `EveryEventDecided`, `EveryWaitEnds`, `EveryRowEnds`, `EveryItemListed` and
`EveryMessageKept` (fairness and `ENABLED` are out of the prover's reach), and the violations. Every safety property of a
passing run is a theorem.

## Not modelled

- The Jev client: a retry loop of one task under one deadline, without shared state. Every way it ends is an
  outcome elsewhere (answers, none, an exception).
- The polls of `health_loop`, HTTP health and metrics: thresholds over read-only counts. The alert itself is in
  `Ingest` (`CheckAlert`). The quarantine count of the last poll is memory only: growth before a restart is not
  reported, and a prune between two polls hides growth of the same size.
- `events import`: its events are synthetic, which are recorded and never delivered. Claiming beside the daemon can
  commit one twice (`reset_processing` at a start, no status guard in the commit), which repeats the decision
  row. `replay` without evaluation only prints.
- A fallback topic or limits changed by a reload while rows are pending; a message ingested again after its event
  was pruned; configuration from the environment, which is never reloaded; which text matches which rule, and
  all string handling (normalisation, redaction, logging, entry point).
- `fallback.after_attempts` above `outbox.max_attempts`, which the configuration allows and which silently
  disables the fallback for retryable errors: `FallbackKept` of `Outbox` excludes it by name.
- Two entries of a digest are compared by times that differ; equal `received_at` values are not considered. An
  entry whose rows were given different categories is filed under the first; `ResolvedEndedWell` is stated for
  rows that agree.

Components with no module are listed in `PROJECT.json` with the reason.

## Plan

What would add most next:

1. `EveryRowEnds` with rows pruned or requeued for ever, and a digest part as a row of `Outbox`.
2. `Digest`, without its times, as the flushes of `Bridge`; `DigestParts` as the partition that `FlushCommit` takes as any.
3. `events import` beside the daemon, in `Pipeline`.
