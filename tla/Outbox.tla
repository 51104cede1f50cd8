------------------------------- MODULE Outbox -------------------------------
(***************************************************************************)
(* The order in which the outbox is worked off (daemon.py: outbox_loop,     *)
(* deliver, enqueue_fallback; store.py: due_outbox, outbox_retry,           *)
(* requeue_dead): which rows share a batch, where a retried or requeued row *)
(* comes back, and when a critical row leaves its plain ntfy alert.         *)
(*                                                                         *)
(* Bridge has what rows carry, retention, and the daemon dying inside       *)
(* deliver; here deliver runs from the answer to its end in one step.       *)
(***************************************************************************)
EXTENDS Naturals, Sequences, SequencesExt

CONSTANTS
    Event,          \* events with a compose row
    Critical,       \* those whose row is critical
    Raising,        \* rows whose delivery may end in an exception
    Concurrency,    \* outbox.concurrency
    MaxAttempts,    \* outbox.max_attempts
    AfterAttempts   \* fallback.after_attempts; fallback.ntfy_topic is set

Row == {"compose", "fallback"} \X Event
Compose(e) == <<"compose", e>>
Fallback(e) == <<"fallback", e>>

(* Nothing in the code relates the two limits; see FallbackKept.           *)
ASSUME OutboxAssumption ==
    /\ Critical \subseteq Event /\ Raising \subseteq Row
    /\ Concurrency \in Nat \ {0}
    /\ MaxAttempts \in Nat \ {0} /\ AfterAttempts \in Nat \ {0}

VARIABLES
    status,     \* outbox.status; "none" before the row is inserted
    attempts,   \* outbox.attempts
    line,       \* the pending rows, ordered by (next_attempt_at, id)
    ripe,       \* how many of them are due
    batch,      \* rows of the gather whose delivery has not ended
    up          \* is the daemon running?

vars == <<status, attempts, line, ripe, batch, up>>

Pending == {r \in Row : status[r] = "pending"}
Dead == {r \in Row : status[r] = "dead"}

-----------------------------------------------------------------------------
(* The rows at the first k places of a line.                               *)
Upto(s, k) == {s[i] : i \in 1 .. k}

(* Rows due now stand behind those that were due before, ahead of those     *)
(* that are not due yet; more is their number.                             *)
Join(rows, more, ripeNow, seq) ==
    /\ line' = SubSeq(seq, 1, ripeNow) \o rows \o SubSeq(seq, ripeNow + 1, Len(seq))
    /\ ripe' = ripeNow + more

Enqueue(e) ==
    /\ up /\ status[Compose(e)] = "none"
    /\ status' = [status EXCEPT ![Compose(e)] = "pending"]
    /\ Join(<<Compose(e)>>, 1, ripe, line)
    /\ UNCHANGED <<attempts, batch, up>>

(* The time of row r comes, and with it that of the rows before it.        *)
RipenTo(r) ==
    /\ \E i \in ripe + 1 .. Len(line) : line[i] = r /\ ripe' = i
    /\ UNCHANGED <<status, attempts, line, batch, up>>

(* Mutant: due_outbox takes the rows that came due last.                    *)
NewestDue(n) == {line[i] : i \in (ripe - n) + 1 .. ripe}

OldestDue(n) == Upto(line, n)

(* due_outbox with LIMIT concurrency; the next batch waits for this one.    *)
StartBatch ==
    /\ up /\ batch = {} /\ ripe > 0
    /\ batch' = OldestDue(IF ripe < Concurrency THEN ripe ELSE Concurrency)
    /\ UNCHANGED <<status, attempts, line, ripe, up>>

Delivered(r) ==
    /\ r \in batch
    /\ status' = [status EXCEPT ![r] = "delivered"]
    /\ attempts' = [attempts EXCEPT ![r] = @ + 1]
    /\ Join(<<>>, 0, ripe - 1, RemoveFirst(line, r))
    /\ batch' = batch \ {r}
    /\ up' = up

(* Mutant: the alert counts the attempts made before this one.              *)
AlertsLate(r, n, permanent) ==
    \E e \in Critical : r = Compose(e) /\ (n > AfterAttempts \/ permanent)

Alerts(r, n, permanent) ==
    \E e \in Critical : r = Compose(e) /\ (n >= AfterAttempts \/ permanent)

(* INSERT OR IGNORE: an alert is enqueued once, whatever became of it.      *)
NewAlerts(r, n, permanent) ==
    {f \in Row : /\ Alerts(r, n, permanent)
                 /\ f = Fallback(r[2]) /\ status[f] = "none"}

(* Mutant: `>` for `>=`; the row is given up one attempt late.             *)
GivesUpLate(n, permanent) == permanent \/ n > MaxAttempts

GivesUp(n, permanent) == permanent \/ n >= MaxAttempts

(* The rest of a failed delivery, once row r is out of the line: a retry    *)
(* comes back at some later time, an alert joins the rows that are due.     *)
Failed(r, permanent) ==
    LET n == attempts[r] + 1
        dies == GivesUp(n, permanent)
        alerts == NewAlerts(r, n, permanent)
        others == RemoveFirst(line, r)
    IN  /\ r \in batch
        /\ status' = [x \in Row |-> IF x \in alerts THEN "pending"
                                    ELSE IF x = r /\ dies THEN "dead" ELSE status[x]]
        /\ attempts' = [attempts EXCEPT ![r] = n]
        /\ \E i \in ripe .. Len(others) + 1 :
              Join(IF alerts = {} THEN <<>> ELSE <<Fallback(r[2])>>,
                   IF alerts = {} THEN 0 ELSE 1, ripe - 1,
                   IF dies THEN others ELSE InsertAt(others, i, r))
        /\ batch' = batch \ {r}
        /\ up' = up

(* _deliver_safely logs the exception; the row is due as before.           *)
Raises(r) ==
    /\ r \in batch \cap Raising
    /\ batch' = batch \ {r}
    /\ UNCHANGED <<status, attempts, line, ripe, up>>

(* Mutant: the attempts already made still count.                          *)
StillCounted(rows, r) == attempts[r]

Recounted(rows, r) == IF r \in ToSet(rows) THEN 0 ELSE attempts[r]

(* `outbox retry`, of some or all dead rows, each once.                    *)
RequeueDead(rows) ==
    /\ rows # <<>> /\ rows \in Seq(Dead) /\ IsInjective(rows)
    /\ status' = [r \in Row |-> IF r \in ToSet(rows) THEN "pending" ELSE status[r]]
    /\ attempts' = [r \in Row |-> Recounted(rows, r)]
    /\ Join(rows, Len(rows), ripe, line)
    /\ UNCHANGED <<batch, up>>

(* The requests under way are forgotten; their rows are due as before.      *)
Crash ==
    /\ up
    /\ up' = FALSE /\ batch' = {}
    /\ UNCHANGED <<status, attempts, line, ripe>>

Start ==
    /\ ~up
    /\ up' = TRUE
    /\ UNCHANGED <<status, attempts, line, ripe, batch>>

-----------------------------------------------------------------------------
Init ==
    /\ status = [r \in Row |-> "none"]
    /\ attempts = [r \in Row |-> 0]
    /\ line = <<>> /\ ripe = 0 /\ batch = {} /\ up = FALSE

Responds(r) == Delivered(r) \/ (\E permanent \in BOOLEAN : Failed(r, permanent)) \/ Raises(r)

Next ==
    \/ \E e \in Event : Enqueue(e)
    \/ \E r \in Row : RipenTo(r)
    \/ StartBatch
    \/ \E r \in Row : Responds(r)
    \/ \E rows \in SetToAllKPermutations(Dead) : RequeueDead(rows)
    \/ Crash
    \/ Start

Spec == Init /\ [][Next]_vars

(* Time passes, every request is answered or times out, outbox_loop comes   *)
(* round, and from some point on the daemon stays up.                       *)
LiveSpec ==
    /\ Spec
    /\ \A r \in Row : WF_vars(RipenTo(r)) /\ WF_vars(Responds(r))
    /\ WF_vars(StartBatch) /\ WF_vars(Start)
    /\ <>[][~Crash]_vars

-----------------------------------------------------------------------------
TypeOK ==
    /\ status \in [Row -> {"none", "pending", "delivered", "dead"}]
    /\ attempts \in [Row -> 0 .. MaxAttempts]
    /\ line \in Seq(Row)
    /\ ripe \in 0 .. Len(line)
    /\ batch \in SUBSET Row
    /\ up \in BOOLEAN

(* The line is a permutation of the pending rows, what is in flight is due  *)
(* and pending, and a pending row has attempts left, though batches, retries*)
(* and the CLI change the table between the read and the answer.           *)
LineIsPending ==
    /\ Upto(line, Len(line)) = Pending /\ IsInjective(line)
    /\ batch \subseteq Upto(line, ripe)
    /\ \A r \in Pending : attempts[r] < MaxAttempts

(* A critical event whose row was given up has its plain ntfy alert, unless *)
(* max_attempts ends the row before after_attempts is reached (README:      *)
(* "after fallback.after_attempts, or on a permanent error").               *)
FallbackKept ==
    AfterAttempts <= MaxAttempts =>
        \A e \in Critical : status[Compose(e)] = "dead" => status[Fallback(e)] # "none"

(* What the two need: no attempt was made for a row that was not inserted.  *)
IndInv ==
    /\ TypeOK /\ LineIsPending /\ FallbackKept
    /\ \A r \in Row : status[r] = "none" => attempts[r] = 0

(* What becomes of the rows, without their order.                          *)
Life == INSTANCE RowLife WITH state <- status, tried <- attempts

(* Every pending row is delivered or dead-lettered in the end, whatever the *)
(* operator requeues, as long as fewer rows than a batch has places raise   *)
(* for ever: those keep the oldest due times and their places.             *)
EveryRowEnds ==
    \A r \in Row \ Raising : status[r] = "pending" ~> status[r] # "pending"
=============================================================================
