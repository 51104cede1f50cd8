------------------------------ MODULE RowLife ------------------------------
(***************************************************************************)
(* What becomes of the rows of the outbox, without batches, order, crashes  *)
(* or events: each row on its own is inserted, tried at most MaxAttempts    *)
(* times, ends delivered or dead, and only a dead one may be tried anew, by *)
(* an operator.  A step of the bridge may concern many rows at once (a      *)
(* digest, `outbox retry`, retention).  Bridge and Outbox both implement    *)
(* this, each with its own view of the rest.                               *)
(***************************************************************************)
EXTENDS Naturals

CONSTANTS Row, MaxAttempts

VARIABLES
    state,      \* outbox.status of each row
    tried       \* attempts made since the row was inserted or requeued

lvars == <<state, tried>>

Turns(r, from, to) == state[r] = from /\ state'[r] = to

(* INSERT OR IGNORE: only a row that is not there, or no longer, is new.    *)
Inserted(r) == state[r] \in {"none", "gone"} /\ state'[r] = "pending" /\ tried'[r] = 0

(* A failed attempt that is not the last one.                               *)
Retried(r) ==
    /\ Turns(r, "pending", "pending")
    /\ tried'[r] = tried[r] + 1 /\ tried'[r] < MaxAttempts

(* Every end of a row is an attempt, and one that was left to it.           *)
Ended(r) ==
    /\ Turns(r, "pending", "delivered") \/ Turns(r, "pending", "dead")
    /\ tried'[r] = tried[r] + 1 /\ tried'[r] <= MaxAttempts

Requeued(r) == Turns(r, "dead", "pending") /\ tried'[r] = 0

Deleted(r) ==
    /\ Turns(r, "delivered", "gone") \/ Turns(r, "dead", "gone")
    /\ tried'[r] = tried[r]

Stays(r) == state'[r] = state[r] /\ tried'[r] = tried[r]

Lives(r) == Inserted(r) \/ Retried(r) \/ Ended(r) \/ Requeued(r) \/ Deleted(r) \/ Stays(r)

LInit ==
    /\ state = [r \in Row |-> "none"]
    /\ tried = [r \in Row |-> 0]

LNext == \A r \in Row : Lives(r)

LSpec == LInit /\ [][LNext]_lvars
=============================================================================
