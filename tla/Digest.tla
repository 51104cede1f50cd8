------------------------------- MODULE Digest -------------------------------
(***************************************************************************)
(* The digest schedule (digest.py: run_due_digest, the digest tables of     *)
(* store.py): when the daemon's digest_loop or `ntfy-bridge digest flush`   *)
(* takes the waiting items, which window it reports, and what is left       *)
(* behind when the two overlap or one stops between two transactions.      *)
(*                                                                         *)
(* Bridge has the rest of an event's life; here times are what matters.     *)
(* DigestParts has the composition: all that is used of it is that the      *)
(* parts are a partition of the rows read (RowsListedOnce there).          *)
(***************************************************************************)
EXTENDS Naturals

CONSTANTS
    Event,           \* event ids
    Slots,           \* times of the digest schedule
    MaxTime,         \* bound on the clock
    MaxFlushes,      \* bound on the runs of `digest flush`
    Faults           \* faults considered: "crash", "raise"

(* The oldest slot is the last one before the clock starts.                *)
ASSUME ClockAssumption ==
    /\ MaxTime \in Nat \ {0} /\ MaxFlushes \in Nat
    /\ Slots \subseteq 1 .. MaxTime /\ 1 \in Slots

VARIABLES
    now,        \* the clock
    up,         \* is the daemon running?
    item,       \* digest_items: "none" no row, "unbound" digest_id NULL, "bound"
    stamp,      \* queued_at of the decision the daemon is committing; 0 if none
    queuedAt,   \* digest_items.queued_at
    committedAt,\* history variable: when the item was committed
    digest,     \* the digest committed last; rows is empty when there is none
    lastSlot,   \* meta digest_last_slot; 0 when there is none
    windowEnd,  \* meta digest_last_window_end; 0 when there is none
    origin,     \* the first slot ever recorded
    pc,         \* where each process is in run_due_digest
    run,        \* what it has computed or read so far
    flushes     \* runs of `digest flush` so far

meta == <<lastSlot, windowEnd, origin>>
items == <<stamp, item, queuedAt, committedAt>>
vars == <<now, up, items, digest, meta, pc, run, flushes>>

Process == {"daemon", "cli"}
NoRun == [begun |-> FALSE, rows |-> {}, start |-> 0, slot |-> 0]
Unbound == {e \in Event : item[e] = "unbound"}

(* What a digest of some rows can be: its parts, disjoint and none empty.   *)
Partitions(rows) ==
    {P \in SUBSET (SUBSET rows \ {{}}) :
        UNION P = rows /\ \A A, B \in P : A # B => A \cap B = {}}

-----------------------------------------------------------------------------
(* The clock, the daemon and its pipeline.  Neither run_due_digest nor the   *)
(* commit of a decision awaits: the daemon is in one of them at a time, but *)
(* a flush in another process goes on meanwhile.                           *)

Tick ==
    /\ now < MaxTime
    /\ now' = now + 1
    /\ UNCHANGED <<up, items, digest, meta, pc, run, flushes>>

DaemonIsFree == up /\ pc["daemon"] = "idle" /\ stamp = 0

(* A DIGEST or REVIEW decision takes its time before its transaction begins, *)
(* which may have to wait for another process (busy_timeout).              *)
Stamp ==
    /\ DaemonIsFree
    /\ \E e \in Event : item[e] = "none"
    /\ stamp' = now
    /\ UNCHANGED <<now, up, item, queuedAt, committedAt, digest, meta, pc, run, flushes>>

Queue(e) ==
    /\ stamp # 0 /\ item[e] = "none"
    /\ item' = [item EXCEPT ![e] = "unbound"]
    /\ queuedAt' = [queuedAt EXCEPT ![e] = stamp]
    /\ committedAt' = [committedAt EXCEPT ![e] = now]
    /\ stamp' = 0
    /\ UNCHANGED <<now, up, digest, meta, pc, run, flushes>>

(* The transaction cannot begin or is rolled back.                         *)
QueueFails ==
    /\ "raise" \in Faults /\ stamp # 0
    /\ stamp' = 0
    /\ UNCHANGED <<now, up, item, queuedAt, committedAt, digest, meta, pc, run, flushes>>

Crash ==
    /\ "crash" \in Faults /\ up
    /\ up' = FALSE
    /\ pc' = [pc EXCEPT !["daemon"] = "idle"]
    /\ run' = [run EXCEPT !["daemon"] = NoRun]
    /\ stamp' = 0
    /\ UNCHANGED <<now, item, queuedAt, committedAt, digest, meta, flushes>>

Start ==
    /\ ~up
    /\ up' = TRUE
    /\ UNCHANGED <<now, items, digest, meta, pc, run, flushes>>

-----------------------------------------------------------------------------
(* run_due_digest                                                          *)

(* last_slot: the most recent slot at or before now.                        *)
IsLatest(slot) ==
    slot \in Slots /\ slot <= now /\ \A s \in Slots : s <= now => s <= slot

(* The first start only records the current slot.                          *)
FirstStart(slot) ==
    /\ DaemonIsFree /\ lastSlot = 0
    /\ IsLatest(slot)
    /\ lastSlot' = slot /\ origin' = slot
    /\ UNCHANGED <<now, up, items, digest, windowEnd, pc, run, flushes>>

(* Mutant: a flush after the slot stands for it.                            *)
DueByWindow(slot) == lastSlot # 0 /\ IsLatest(slot) /\ windowEnd < slot

Due(slot) == lastSlot # 0 /\ IsLatest(slot) /\ lastSlot < slot

Begin(p, slot) ==
    LET start == IF windowEnd # 0 THEN windowEnd ELSE IF lastSlot # 0 THEN lastSlot ELSE slot
    IN  /\ IF p = "cli" THEN slot = now /\ flushes < MaxFlushes ELSE DaemonIsFree /\ Due(slot)
        /\ pc[p] = "idle"
        /\ run' = [run EXCEPT ![p] = [begun |-> lastSlot # 0, rows |-> {},
                                       start |-> start, slot |-> slot]]
        /\ pc' = [pc EXCEPT ![p] = "read"]
        /\ flushes' = IF p = "cli" THEN flushes + 1 ELSE flushes
        /\ UNCHANGED <<now, up, items, digest, meta>>

(* pending_digest_items                                                    *)
Read(p) ==
    /\ pc[p] = "read"
    /\ run' = [run EXCEPT ![p].rows = Unbound]
    /\ pc' = [pc EXCEPT ![p] = "commit"]
    /\ UNCHANGED <<now, up, items, digest, meta, flushes>>

(* Mutant: the loop over the parts ends after the first one.                *)
BoundByFirst(parts, e) ==
    item[e] = "unbound" /\ parts # {} /\ e \in CHOOSE part \in parts : TRUE

Binds(parts, e) ==
    item[e] = "unbound" /\ \E part \in parts : e \in part

(* commit_digest; without parts there is no transaction.                   *)
Commit(p) ==
    /\ pc[p] = "commit"
    /\ \E parts \in Partitions(run[p].rows) :
          /\ digest' = IF parts = {} THEN digest
                       ELSE [begun |-> run[p].begun, rows |-> run[p].rows, start |-> run[p].start]
          /\ item' = [e \in Event |-> IF Binds(parts, e) THEN "bound" ELSE item[e]]
    /\ pc' = [pc EXCEPT ![p] = IF p = "cli" THEN "window" ELSE "slot"]
    /\ UNCHANGED <<now, up, stamp, queuedAt, committedAt, meta, run, flushes>>

(* A forced digest does not take the place of a scheduled one.             *)
SetSlot ==
    /\ pc["daemon"] = "slot"
    /\ lastSlot' = run["daemon"].slot
    /\ pc' = [pc EXCEPT !["daemon"] = "window"]
    /\ UNCHANGED <<now, up, items, digest, windowEnd, origin, run, flushes>>

(* Mutant: the window ends when the command does.                           *)
EndsNow(p) == now

EndOf(p) == run[p].slot

SetWindow(p) ==
    /\ pc[p] = "window"
    /\ windowEnd' = EndOf(p)
    /\ pc' = [pc EXCEPT ![p] = "idle"]
    /\ run' = [run EXCEPT ![p] = NoRun]
    /\ UNCHANGED <<now, up, items, digest, lastSlot, origin, flushes>>

(* digest_loop logs an exception and tries again; the command exits.       *)
Raise(p) ==
    /\ "raise" \in Faults
    /\ pc[p] # "idle"
    /\ pc' = [pc EXCEPT ![p] = "idle"]
    /\ run' = [run EXCEPT ![p] = NoRun]
    /\ UNCHANGED <<now, up, items, digest, meta, flushes>>

-----------------------------------------------------------------------------
Init ==
    /\ now = 1 /\ up = FALSE
    /\ item = [e \in Event |-> "none"]
    /\ stamp = 0
    /\ queuedAt = [e \in Event |-> 0]
    /\ committedAt = [e \in Event |-> 0]
    /\ digest = [begun |-> FALSE, rows |-> {}, start |-> 0]
    /\ lastSlot = 0 /\ windowEnd = 0 /\ origin = 0
    /\ pc = [p \in Process |-> "idle"]
    /\ run = [p \in Process |-> NoRun]
    /\ flushes = 0

Loop == SetSlot \/ \E slot \in 1 .. MaxTime : FirstStart(slot)
Step(p) ==
    \/ \E slot \in 1 .. MaxTime : Begin(p, slot)
    \/ Read(p) \/ Commit(p) \/ SetWindow(p)

Next ==
    \/ Tick
    \/ Stamp
    \/ \E e \in Event : Queue(e)
    \/ QueueFails
    \/ Crash
    \/ Start
    \/ Loop
    \/ \E p \in Process : Step(p) \/ Raise(p)

Spec == Init /\ [][Next]_vars

(* Time passes, the supervisor restarts the daemon, a transaction that has   *)
(* begun ends, digest_loop comes round every 30 seconds, and from some point *)
(* on none of them stops half-way.                                          *)
LiveSpec ==
    /\ Spec
    /\ WF_vars(Tick) /\ WF_vars(Start)
    /\ WF_vars(\E e \in Event : Queue(e))
    /\ WF_vars(Loop \/ Step("daemon"))
    /\ <>[][~Crash /\ ~QueueFails /\ ~Raise("daemon")]_vars

-----------------------------------------------------------------------------
TypeOK ==
    /\ now \in 1 .. MaxTime
    /\ up \in BOOLEAN
    /\ item \in [Event -> {"none", "unbound", "bound"}]
    /\ stamp \in 0 .. MaxTime
    /\ queuedAt \in [Event -> 0 .. MaxTime]
    /\ committedAt \in [Event -> 0 .. MaxTime]
    /\ digest \in [begun : BOOLEAN, rows : SUBSET Event, start : 0 .. MaxTime]
    /\ lastSlot \in 0 .. MaxTime /\ windowEnd \in 0 .. MaxTime /\ origin \in 0 .. MaxTime
    /\ pc \in [Process -> {"idle", "read", "commit", "slot", "window"}]
    /\ run \in [Process -> [begun : BOOLEAN, rows : SUBSET Event,
                            start : 0 .. MaxTime, slot : 0 .. MaxTime]]
    /\ flushes \in 0 .. MaxFlushes

(* Once the digest of a slot is recorded as done, nothing that was queued   *)
(* before that slot is still waiting, whatever flushes, crashes and         *)
(* exceptions came between (run_due_digest records the slot after the       *)
(* commit).                                                                 *)
SlotDoneMeansSent ==
    [][lastSlot # 0 /\ lastSlot' # lastSlot =>
          \A e \in Event : item'[e] = "unbound" => lastSlot' <= queuedAt'[e]]_vars

(* A window that starts at limit reaches back to the commit of e, and to its *)
(* queued_at if no flush can have come in between.                          *)
Covers(limit, e) ==
    limit <= committedAt[e] /\ (flushes = 0 => limit <= queuedAt[e])

(* The window of a digest reaches back to the commit of its oldest item, for *)
(* all that was queued after the first start, though a flush and a           *)
(* scheduled digest write digest_last_window_end in any order; and as long   *)
(* as no flush ran, to its queued_at.  With a flush between the stamp and    *)
(* the commit of an item, the window of the digest that lists it starts      *)
(* after its queued_at (by at most the time its transaction had to wait).    *)
WindowReachesBack ==
    \A e \in digest.rows :
        digest.begun /\ origin <= queuedAt[e] => Covers(digest.start, e)

(* Why: nothing is recorded ahead of the clock, and only rows that exist    *)
(* are read or committed.                                                  *)
ClockInv ==
    /\ lastSlot <= now /\ windowEnd <= now /\ origin <= now
    /\ lastSlot = 0 <=> origin = 0
    /\ digest.begun => lastSlot # 0
    /\ \A e \in digest.rows : item[e] # "none"
    /\ \A e \in Event : queuedAt[e] <= committedAt[e] /\ committedAt[e] <= now
    /\ pc["daemon"] # "idle" => run["daemon"].slot # 0 /\ lastSlot # 0
    /\ flushes = 0 => pc["cli"] = "idle"
    /\ \A p \in Process :
          /\ run[p].slot <= now /\ run[p].start <= now
          /\ run[p].begun => lastSlot # 0
          /\ \A e \in run[p].rows : item[e] # "none"

(* While a decision is being committed, only a flush records anything.      *)
StampInv ==
    stamp # 0 =>
        /\ stamp <= now /\ lastSlot <= stamp
        /\ flushes = 0 => windowEnd <= stamp
        /\ pc["daemon"] = "idle"

(* Whatever waits was committed after the last window and, if it came after *)
(* the first start, queued after the last slot; and committed after the     *)
(* window or slot that a process is about to record, since it has read all  *)
(* that came before.                                                       *)
WaitingInv ==
    \A e \in Unbound :
        /\ Covers(windowEnd, e)
        /\ origin <= queuedAt[e] => lastSlot <= queuedAt[e]
        /\ pc["daemon"] \notin {"slot", "window"}
        /\ pc["daemon"] = "commit" => e \in run["daemon"].rows
        /\ \/ pc["cli"] # "commit" \/ e \in run["cli"].rows
           \/ run["cli"].slot <= committedAt[e]
        /\ pc["cli"] = "window" => run["cli"].slot <= committedAt[e]

(* The window computed first reaches back to what is read after it.         *)
StartInv ==
    \A p \in Process :
        /\ pc[p] = "slot" => p = "daemon"
        /\ run[p].begun => \A e \in Event :
              /\ origin <= queuedAt[e]
              /\ \/ pc[p] = "read" /\ item[e] = "unbound"
                 \/ pc[p] = "commit" /\ e \in run[p].rows
              => Covers(run[p].start, e)

IndInv == TypeOK /\ ClockInv /\ StampInv /\ WaitingInv /\ StartInv /\ WindowReachesBack

(* An item that waits when a slot is still to come is bound to a digest     *)
(* part in the end.                                                         *)
EveryItemListed ==
    \A e \in Event :
        item[e] = "unbound" /\ 0 < lastSlot /\ (\E s \in Slots : lastSlot < s) ~> item[e] = "bound"
=============================================================================
