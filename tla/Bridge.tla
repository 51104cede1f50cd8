------------------------------- MODULE Bridge -------------------------------
(***************************************************************************)
(* The life of an event in ntfy-bridge, from the inbox to a settled status: *)
(* the SQLite tables events, outbox and digest_items (store.py), the        *)
(* asyncio tasks of the daemon that move rows through them (daemon.py,      *)
(* pipeline.py, digest.py), the CLI commands that write the same database   *)
(* from another process (cli.py), and crashes of the daemon.                *)
(*                                                                         *)
(* One transaction of the store is one step.  What the code does between   *)
(* two transactions, without an await, is split in two steps only where    *)
(* another process or a crash can come in between.                         *)
(***************************************************************************)
EXTENDS Naturals, FiniteSets

CONSTANTS
    Event,                \* event ids
    Part,                 \* digest part ids; one is drawn per part enqueued
    Workers,              \* bridge.workers
    Concurrency,          \* outbox.concurrency
    MaxAttempts,          \* outbox.max_attempts
    AfterAttempts,        \* fallback.after_attempts
    MaxProcessAttempts,   \* MAX_PROCESS_ATTEMPTS
    FallbackTopic,        \* is fallback.ntfy_topic set?
    CliFlush,             \* does an operator run `digest flush`?
    Faults                \* faults considered: "crash", "raise", "strand"

ASSUME BoundsAssumption ==
    /\ Workers \in Nat \ {0}
    /\ Concurrency \in Nat \ {0}
    /\ MaxAttempts \in Nat \ {0}
    /\ AfterAttempts \in Nat \ {0}
    /\ MaxProcessAttempts \in Nat \ {0}

ASSUME FlagsAssumption ==
    /\ FallbackTopic \in BOOLEAN
    /\ CliFlush \in BOOLEAN
    /\ Faults \subseteq {"crash", "raise", "strand"}

\* "none" and "unbound" are values of an item that is in no digest part.
ASSUME PartAssumption == "none" \notin Part /\ "unbound" \notin Part

VARIABLES
    status,     \* events.status; "absent" before ingestion, "pruned" after
    tries,      \* events.attempts
    critical,   \* events whose outbox row is a compose with critical = 1
    item,       \* digest_items.digest_id; "none" no row, "unbound" NULL
    contents,   \* event ids listed in the payload of a digest part
    outbox,     \* outbox.status; "none" never inserted, "gone" deleted
    attempts,   \* outbox.attempts
    accepted,   \* external: rows whose endpoint has taken the request once
    up,         \* is the daemon running?
    working,    \* events with a process_one task
    posting,    \* rows of the gather batch whose POST has not returned
    owed,       \* events whose delivery failed, enqueue_fallback still to run
    flush       \* rows read by enqueue_digest and not committed, per process

table == <<status, tries, critical, item, contents, outbox, attempts>>
memory == <<up, working, posting, owed, flush>>
vars == <<table, accepted, memory>>

(* A definition whose comment begins with "Mutant:" is not part of the      *)
(* model: it is a wrong version of the definition below it, kept to show    *)
(* that a property notices the mistake.                                    *)

(* Terminal and pre-decision statuses, as store.py groups them.            *)
Terminal ==
    {"dropped", "delivered", "digested", "dead_letter", "shadow", "quarantined"}
Undecided == {"received", "processing"}
Status == Terminal \cup Undecided \cup {"absent", "queued", "queued_digest", "pruned"}
RowStatus == {"none", "pending", "delivered", "dead", "gone"}
Process == {"daemon", "cli"}
Route == {"SHADOW", "DROP", "DIGEST", "NOTIFY_NOW", "REVIEW"}

(* The outbox rows, named by their UNIQUE request_id: the event id for a    *)
(* compose or review row, "fallback:" and the event id, the part id.        *)
Main(e) == <<"event", e>>
Fallback(e) == <<"fallback", e>>
Digest(d) == <<"digest", d>>
Row == ({"event", "fallback"} \X Event) \cup ({"digest"} \X Part)

(* Mutant: `outbox retry` also selects delivered rows.                     *)
DeadOrDelivered == {r \in Row : outbox[r] \in {"dead", "delivered"}}

Pending == {r \in Row : outbox[r] = "pending"}
Dead == {r \in Row : outbox[r] = "dead"}
FreeParts == {d \in Part : outbox[Digest(d)] = "none"}
Unbound == {e \in Event : item[e] = "unbound"}

(* asyncio runs one task at a time: no other task starts while deliver is   *)
(* between outbox_dead and enqueue_fallback, or while enqueue_digest is     *)
(* between its read and its commit.                                        *)
TaskRuns == up /\ owed = {} /\ flush["daemon"] = {}

-----------------------------------------------------------------------------
(* Ingestion and classification                                            *)

Ingest(e) ==
    /\ TaskRuns
    /\ status[e] = "absent"
    /\ status' = [status EXCEPT ![e] = "received"]
    /\ UNCHANGED <<tries, critical, item, contents, outbox, attempts, accepted, memory>>

(* process_loop claims as many received events as it has free workers.     *)
Claim(S) ==
    LET received == {e \in Event : status[e] = "received"}
        free == Workers - Cardinality(working)
    IN  /\ TaskRuns
        /\ S # {} /\ S \subseteq received
        /\ Cardinality(S) <= free
        /\ S = received \/ Cardinality(S) = free
        /\ status' = [e \in Event |-> IF e \in S THEN "processing" ELSE status[e]]
        /\ working' = working \cup S
        /\ UNCHANGED <<tries, critical, item, contents, outbox, attempts, accepted, up, posting, owed, flush>>

StatusOf(route) ==
    CASE route = "SHADOW" -> "shadow"
      [] route = "DROP" -> "dropped"
      [] route = "DIGEST" -> "queued_digest"
      [] OTHER -> "queued"

(* Mutant: a dropped event is also queued for the digest.                  *)
DigestRoutesAndDrop == {"DIGEST", "REVIEW", "DROP"}

DigestRoutes == {"DIGEST", "REVIEW"}

(* Pipeline.commit: decision, status, outbox row and digest item in one     *)
(* transaction; both inserts are INSERT OR IGNORE.  A deterministic rule    *)
(* makes a NOTIFY_NOW compose critical.                                    *)
Commit(e, route, rule) ==
    LET sends == route \in {"NOTIFY_NOW", "REVIEW"} /\ outbox[Main(e)] = "none"
        digests == route \in DigestRoutes /\ item[e] = "none"
    IN  /\ TaskRuns /\ e \in working
        /\ status' = [status EXCEPT ![e] = StatusOf(route)]
        /\ outbox' = IF sends THEN [outbox EXCEPT ![Main(e)] = "pending"] ELSE outbox
        /\ critical' = IF sends /\ route = "NOTIFY_NOW" /\ rule
                         THEN critical \cup {e} ELSE critical
        /\ item' = IF digests THEN [item EXCEPT ![e] = "unbound"] ELSE item
        /\ working' = working \ {e}
        /\ UNCHANGED <<tries, contents, attempts, accepted, up, posting, owed, flush>>

MarkQuarantined(e) ==
    /\ TaskRuns /\ e \in working
    /\ status' = [status EXCEPT ![e] = "quarantined"]
    /\ working' = working \ {e}
    /\ UNCHANGED <<tries, critical, item, contents, outbox, attempts, accepted, up, posting, owed, flush>>

(* Mutant: one try too many.                                               *)
ReleasedOneMore(n) == IF n > MaxProcessAttempts THEN "quarantined" ELSE "received"

Released(n) == IF n >= MaxProcessAttempts THEN "quarantined" ELSE "received"

(* process raised: the event goes back to the inbox, or to quarantine.     *)
ReleaseFailed(e) ==
    /\ TaskRuns /\ e \in working
    /\ tries' = [tries EXCEPT ![e] = @ + 1]
    /\ status' = [status EXCEPT ![e] = Released(tries[e] + 1)]
    /\ working' = working \ {e}
    /\ UNCHANGED <<critical, item, contents, outbox, attempts, accepted, up, posting, owed, flush>>

(* release_failed itself raises (a locked database): the task ends and the *)
(* event keeps the status processing.                                      *)
Strand(e) ==
    /\ "strand" \in Faults
    /\ TaskRuns /\ e \in working
    /\ working' = working \ {e}
    /\ UNCHANGED <<table, accepted, up, posting, owed, flush>>

-----------------------------------------------------------------------------
(* Delivery                                                                *)

(* outbox_loop posts a batch of due rows and waits for the whole batch.     *)
StartBatch(B) ==
    /\ TaskRuns /\ posting = {}
    /\ B # {} /\ B \subseteq Pending /\ Cardinality(B) <= Concurrency
    /\ posting' = B
    /\ UNCHANGED <<table, accepted, up, working, owed, flush>>

(* External: Hermes, or ntfy for a fallback row, takes the request.  The    *)
(* response may still be lost.                                             *)
Accept(r) ==
    /\ r \in posting
    /\ accepted' = accepted \cup {r}
    /\ UNCHANGED <<table, memory>>

(* Mutant: digest rows settle nothing.                                     *)
SettlesByRow(r, e) == status[e] = "queued" /\ r = Main(e)

(* Mutant: any digest row settles every event that waits for a digest.      *)
SettlesAnyDigest(r, e) ==
    \/ status[e] = "queued" /\ r = Main(e)
    \/ status[e] = "queued_digest" /\ \E d \in Part : r = Digest(d)

(* Does the end of row r decide the status of event e?                     *)
Settles(r, e) ==
    \/ status[e] = "queued" /\ r = Main(e)
    \/ status[e] = "queued_digest" /\ \E d \in Part : r = Digest(d) /\ item[e] = d

OutboxDelivered(r) ==
    /\ TaskRuns /\ r \in posting /\ r \in accepted
    /\ outbox' = [outbox EXCEPT ![r] = "delivered"]
    /\ attempts' = [attempts EXCEPT ![r] = @ + 1]
    /\ status' = [e \in Event |->
                    IF ~Settles(r, e) THEN status[e]
                    ELSE IF r = Main(e) THEN "delivered" ELSE "digested"]
    /\ posting' = posting \ {r}
    /\ UNCHANGED <<tries, critical, item, contents, accepted, up, working, owed, flush>>

(* Events whose fallback alert must follow attempt n of row r.             *)
Owes(r, n, permanent) ==
    {e \in critical : r = Main(e) /\ FallbackTopic /\ (n >= AfterAttempts \/ permanent)}

(* A failed attempt: the row is retried later or dead-lettered, then a      *)
(* critical compose owes a fallback alert.                                 *)
DeliveryFailed(r, permanent) ==
    LET n == attempts[r] + 1
        dies == permanent \/ n >= MaxAttempts
    IN  /\ TaskRuns /\ r \in posting
        /\ outbox' = IF dies THEN [outbox EXCEPT ![r] = "dead"] ELSE outbox
        /\ attempts' = [attempts EXCEPT ![r] = n]
        /\ status' = [e \in Event |->
                        IF dies /\ Settles(r, e) THEN "dead_letter" ELSE status[e]]
        /\ owed' = Owes(r, n, permanent)
        /\ posting' = posting \ {r}
        /\ UNCHANGED <<tries, critical, item, contents, accepted, up, working, flush>>

(* deliver raises, _deliver_safely logs it: the row stays as it was.       *)
DeliveryRaises(r) ==
    /\ "raise" \in Faults
    /\ TaskRuns /\ r \in posting
    /\ posting' = posting \ {r}
    /\ UNCHANGED <<table, accepted, up, working, owed, flush>>

EnqueueFallback(e) ==
    /\ up /\ e \in owed
    /\ IF outbox[Fallback(e)] \in {"none", "gone"}
         THEN /\ outbox' = [outbox EXCEPT ![Fallback(e)] = "pending"]
              /\ attempts' = [attempts EXCEPT ![Fallback(e)] = 0]
         ELSE UNCHANGED <<outbox, attempts>>
    /\ owed' = owed \ {e}
    /\ UNCHANGED <<status, tries, critical, item, contents, accepted, up, working, posting, flush>>

FallbackRaises(e) ==
    /\ "raise" \in Faults
    /\ up /\ e \in owed
    /\ owed' = owed \ {e}
    /\ UNCHANGED <<table, accepted, up, working, posting, flush>>

-----------------------------------------------------------------------------
(* Digests: enqueue_digest reads the unbound items outside any transaction, *)
(* composes the parts and commits them.  The daemon runs it at a scheduled  *)
(* slot, `digest flush` in a process of its own.                           *)

FlushRead(p) ==
    /\ IF p = "daemon" THEN TaskRuns ELSE CliFlush
    /\ flush[p] = {} /\ Unbound # {}
    /\ flush' = [flush EXCEPT ![p] = Unbound]
    /\ UNCHANGED <<table, accepted, up, working, posting, owed>>

(* Mutant: the items stay unbound.                                         *)
NotBound(p, of, e) == item[e]

(* UPDATE digest_items SET digest_id ... AND digest_id IS NULL.            *)
Bound(p, of, e) == IF e \in flush[p] /\ item[e] = "unbound" THEN of[e] ELSE item[e]

(* of[e] is the part that carries e: any partition of the rows read, since  *)
(* profiles, grouping and the size limit decide it.  A part binds only the  *)
(* items that are still unbound, and lists all of them.                    *)
FlushCommit(p, of) ==
    LET parts == {of[e] : e \in flush[p]}
    IN  /\ flush[p] # {}
        /\ contents' = [d \in Part |->
                          IF d \in parts THEN {e \in flush[p] : of[e] = d} ELSE contents[d]]
        /\ outbox' = [r \in Row |->
                        IF \E d \in parts : r = Digest(d) THEN "pending" ELSE outbox[r]]
        /\ item' = [e \in Event |-> Bound(p, of, e)]
        /\ flush' = [flush EXCEPT ![p] = {}]
        /\ UNCHANGED <<status, tries, critical, attempts, accepted, up, working, posting, owed>>

(* digest_loop logs an exception and tries again; the CLI command exits.   *)
FlushRaises(p) ==
    /\ "raise" \in Faults
    /\ flush[p] # {}
    /\ flush' = [flush EXCEPT ![p] = {}]
    /\ UNCHANGED <<table, accepted, up, working, posting, owed>>

-----------------------------------------------------------------------------
(* `outbox retry`, retention, crash and restart                            *)

(* Mutant: the rows are requeued, their events stay dead-lettered.         *)
RequeuedRowOnly(R, digestFirst, e) == status[e]

(* requeue_dead loops over the selected rows; an event whose review row and *)
(* digest part are both selected takes the status of the first one met.    *)
Requeued(R, digestFirst, e) ==
    LET byMain == Main(e) \in R
        byPart == \E d \in Part : item[e] = d /\ Digest(d) \in R
    IN  IF status[e] # "dead_letter" THEN status[e]
        ELSE IF byPart /\ (e \in digestFirst \/ ~byMain) THEN "queued_digest"
        ELSE IF byMain THEN "queued" ELSE status[e]

AttemptsReset(R, r) == IF r \in R THEN 0 ELSE attempts[r]

RequeueDead(R, digestFirst) ==
    /\ R # {} /\ R \subseteq Dead
    /\ digestFirst \subseteq Event
    /\ outbox' = [r \in Row |-> IF r \in R THEN "pending" ELSE outbox[r]]
    /\ attempts' = [r \in Row |-> AttemptsReset(R, r)]
    /\ status' = [e \in Event |-> Requeued(R, digestFirst, e)]
    /\ UNCHANGED <<tries, critical, item, contents, accepted, memory>>

(* Mutant: old rows are deleted whatever their status.                     *)
PrunableEvenPending == {r \in Row : outbox[r] \in {"pending", "delivered", "dead"}}

(* A dead digest row that still carries an unsettled event is kept.        *)
PrunableRows ==
    {r \in Row : /\ outbox[r] \in {"delivered", "dead"}
                 /\ ~ /\ outbox[r] = "dead"
                      /\ \E e \in Event, d \in Part :
                            r = Digest(d) /\ item[e] = d /\ status[e] \notin Terminal}

(* Mutant: events that still wait for a digest are deleted.                *)
PrunableEvenWaiting ==
    {e \in Event : status[e] \in Terminal \cup {"queued_digest"} /\ item[e] # "unbound"}

PrunableEvents ==
    {e \in Event : /\ status[e] \in Terminal
                   /\ item[e] # "unbound"
                   /\ outbox[Main(e)] # "pending"
                   /\ outbox[Fallback(e)] # "pending"}

(* Age and labels choose among the prunable rows and events.               *)
Prune(R, S) ==
    /\ TaskRuns
    /\ R \cup S # {}
    /\ R \subseteq PrunableRows /\ S \subseteq PrunableEvents
    /\ outbox' = [r \in Row |-> IF r \in R THEN "gone" ELSE outbox[r]]
    /\ status' = [e \in Event |-> IF e \in S THEN "pruned" ELSE status[e]]
    /\ item' = [e \in Event |-> IF e \in S THEN "none" ELSE item[e]]
    /\ UNCHANGED <<tries, critical, contents, attempts, accepted, memory>>

Crash ==
    /\ "crash" \in Faults /\ up
    /\ up' = FALSE
    /\ working' = {} /\ posting' = {} /\ owed' = {}
    /\ flush' = [flush EXCEPT !["daemon"] = {}]
    /\ UNCHANGED <<table, accepted>>

(* Mutant: events in process at a crash keep their status.                 *)
NotReset(s) == s

Reset(s) == IF s = "processing" THEN "received" ELSE s

(* App.run begins with reset_processing.                                   *)
Start ==
    /\ ~up
    /\ up' = TRUE
    /\ status' = [e \in Event |-> Reset(status[e])]
    /\ UNCHANGED <<tries, critical, item, contents, outbox, attempts, accepted,
                   working, posting, owed, flush>>

-----------------------------------------------------------------------------
Init ==
    /\ status = [e \in Event |-> "absent"]
    /\ tries = [e \in Event |-> 0]
    /\ critical = {}
    /\ item = [e \in Event |-> "none"]
    /\ contents = [d \in Part |-> {}]
    /\ outbox = [r \in Row |-> "none"]
    /\ attempts = [r \in Row |-> 0]
    /\ accepted = {}
    /\ up = FALSE
    /\ working = {} /\ posting = {} /\ owed = {}
    /\ flush = [p \in Process |-> {}]

Finish(e) ==
    \/ \E route \in Route, rule \in BOOLEAN : Commit(e, route, rule)
    \/ MarkQuarantined(e)
    \/ ReleaseFailed(e)
    \/ Strand(e)

Respond(r) ==
    \/ OutboxDelivered(r)
    \/ \E permanent \in BOOLEAN : DeliveryFailed(r, permanent)
    \/ DeliveryRaises(r)

FlushEnds(p) ==
    \/ \E of \in [flush[p] -> FreeParts] : FlushCommit(p, of)
    \/ FlushRaises(p)

FallbackEnds(e) == EnqueueFallback(e) \/ FallbackRaises(e)

Next ==
    \/ \E e \in Event : Ingest(e)
    \/ \E S \in SUBSET Event : Claim(S)
    \/ \E e \in Event : Finish(e)
    \/ \E B \in SUBSET Pending : StartBatch(B)
    \/ \E r \in Row : Accept(r)
    \/ \E r \in Row : Respond(r)
    \/ \E e \in Event : FallbackEnds(e)
    \/ \E p \in Process : FlushRead(p)
    \/ \E p \in Process : FlushEnds(p)
    \/ \E R \in SUBSET Dead, digestFirst \in SUBSET Event : RequeueDead(R, digestFirst)
    \/ \E R \in SUBSET PrunableRows, S \in SUBSET PrunableEvents : Prune(R, S)
    \/ Crash
    \/ Start

Spec == Init /\ [][Next]_vars

(* asyncio resumes every ready task, requests and classifications time out, *)
(* the claim and the due queue are ordered by time, the digest schedule     *)
(* comes round every day, and the supervisor restarts the daemon.           *)
Fairness ==
    /\ WF_vars(Start)
    /\ \A e \in Event : SF_vars(\E S \in SUBSET Event : e \in S /\ Claim(S))
    /\ \A e \in Event : SF_vars(Finish(e))
    /\ \A r \in Row : SF_vars(\E B \in SUBSET Pending : r \in B /\ StartBatch(B))
    /\ \A r \in Row : SF_vars(Respond(r))
    /\ \A e \in Event : WF_vars(FallbackEnds(e))
    /\ SF_vars(FlushRead("daemon"))
    /\ WF_vars(FlushEnds("daemon"))

(* From some point on the daemon stays up and no database or HTTP client    *)
(* error escapes a delivery or a digest.                                   *)
Unstable ==
    \/ Crash
    \/ \E r \in Row : DeliveryRaises(r)
    \/ \E p \in Process : FlushRaises(p)

LiveSpec == Spec /\ Fairness /\ <>[][~Unstable]_vars

-----------------------------------------------------------------------------
(* The refinement mapping: the status column as the phase of the contract,  *)
(* the accepted requests as the events heard.                              *)
PhaseOf(s) ==
    CASE s = "absent" -> "unseen"
      [] s \in Undecided -> "open"
      [] s \in {"queued", "queued_digest"} -> "owed"
      [] s \in {"delivered", "digested"} -> "told"
      [] s = "dead_letter" -> "failed"
      [] s = "pruned" -> "forgotten"
      [] OTHER -> "closed"

Carries(r, e) ==
    r = Main(e) \/ \E d \in Part : r = Digest(d) /\ e \in contents[d]

phase == [e \in Event |-> PhaseOf(status[e])]
heard == {e \in Event : \E r \in accepted : Carries(r, e)}

Promise == INSTANCE Contract WITH Event <- Event, phase <- phase, heard <- heard

Life == INSTANCE RowLife WITH state <- outbox, tried <- attempts

(* The bridge keeps the contract about events, and its rows live as RowLife *)
(* says: each step of the daemon, of the CLI, of a crash or of a restart is *)
(* a step of both or leaves them alone.                                    *)
KeepsContract == Promise!CSpec /\ Life!LSpec

-----------------------------------------------------------------------------
(* Types of the tables and of the daemon's memory.                         *)
TypeOK ==
    /\ status \in [Event -> Status]
    /\ tries \in [Event -> 0 .. MaxProcessAttempts]
    /\ critical \in SUBSET Event
    /\ item \in [Event -> Part \cup {"none", "unbound"}]
    /\ contents \in [Part -> SUBSET Event]
    /\ outbox \in [Row -> RowStatus]
    /\ attempts \in [Row -> Nat]
    /\ accepted \in SUBSET Row
    /\ up \in BOOLEAN
    /\ working \in SUBSET Event
    /\ posting \in SUBSET Row
    /\ owed \in SUBSET Event
    /\ flush \in [Process -> SUBSET Event]

(* An event that waits has something that will end its wait: a queued event *)
(* has its own pending row, an event queued for the digest has an item that *)
(* is unbound or bound to a part that is pending (store.py: commit_digest,  *)
(* outbox_dead, requeue_dead and prune each touch one side of this).        *)
WaitingHasCarrier ==
    \A e \in Event :
        /\ status[e] = "queued" => outbox[Main(e)] = "pending"
        /\ status[e] = "queued_digest" =>
              \/ item[e] = "unbound"
              \/ \E d \in Part : item[e] = d /\ outbox[Digest(d)] = "pending"

(* An event in dead_letter can be brought back by `outbox retry`, unless    *)
(* retention deleted the row: its row or its digest part is dead.           *)
DeadLetterHasDeadRow ==
    \A e \in Event : status[e] = "dead_letter" =>
        \/ outbox[Main(e)] \in {"dead", "gone"}
        \/ \E d \in Part : item[e] = d /\ outbox[Digest(d)] \in {"dead", "gone"}

(* No event is reported delivered or digested unless an endpoint took a     *)
(* request that lists it, whatever retries, requeues, restarts and pruning  *)
(* happened before (outbox_delivered, commit_digest).                       *)
SettledWasAccepted ==
    \A e \in Event :
        /\ status[e] = "delivered" => Main(e) \in accepted
        /\ status[e] = "digested" =>
              \E d \in Part : item[e] = d /\ Digest(d) \in accepted /\ e \in contents[d]

(* Nothing about an undecided, dropped, shadowed or quarantined event can   *)
(* leave the bridge: it has no outbox row, no digest item, and no digest    *)
(* lists it, even after failed tries and restarts (Pipeline.commit).        *)
Suppressed == Undecided \cup {"absent", "shadow", "dropped", "quarantined"}

SuppressedIsSilent ==
    \A e \in Event :
        status[e] \in Suppressed =>
            /\ outbox[Main(e)] = "none" /\ outbox[Fallback(e)] = "none"
            /\ item[e] = "none"
            /\ \A d \in Part : e \notin contents[d]

(* A request is in flight only for a row that is pending, so a row that the *)
(* CLI or retention may touch is never being posted (outbox_loop acts on    *)
(* rows it read before its awaits).                                         *)
PostedIsPending == posting \subseteq Pending

(* A pending row has attempts left: max_attempts ends every retry sequence. *)
RetriesBounded == \A r \in Pending : attempts[r] < MaxAttempts

(* A row that was delivered is never posted again and never pending again;  *)
(* it can only be deleted (README: "delivered rows are never re-sent").     *)
NeverResent ==
    [][\A r \in Row : outbox[r] = "delivered" =>
          r \notin posting' /\ outbox'[r] \in {"delivered", "gone"}]_vars

(* No event is listed by two digest parts.                                  *)
DigestOnce ==
    \A d1, d2 \in Part : d1 # d2 => contents[d1] \cap contents[d2] = {}

(* An event that still may be processed has tries left: one whose           *)
(* processing failed MAX_PROCESS_ATTEMPTS times is out of the inbox for     *)
(* good, restarts included (release_failed, reset_processing).              *)
TriesBounded ==
    \A e \in Event : status[e] \in Undecided \cup {"absent"} => tries[e] < MaxProcessAttempts

(* A critical compose that was dead-lettered has its plain ntfy alert, or   *)
(* the daemon is about to enqueue it (deliver, enqueue_fallback).           *)
FallbackKept ==
    \A e \in critical :
        FallbackTopic /\ outbox[Main(e)] = "dead" =>
            outbox[Fallback(e)] # "none" \/ e \in owed

(* Every received event is decided or quarantined, however often its        *)
(* processing fails or the daemon crashes under it (reset_processing,       *)
(* release_failed, MAX_PROCESS_ATTEMPTS).                                   *)
EveryEventDecided ==
    \A e \in Event : status[e] \in Undecided ~> status[e] \notin Undecided

(* Every event that waits for Hermes or for a digest is settled: delivered, *)
(* digested or dead-lettered, and never left to wait forever.              *)
EveryWaitEnds ==
    \A e \in Event :
        status[e] \in {"queued", "queued_digest"} ~> status[e] \in Terminal \cup {"pruned"}
=============================================================================
