------------------------------ MODULE Contract ------------------------------
(***************************************************************************)
(* What the bridge promises about events, without tables, workers, batches  *)
(* or crashes.  Every event seen is eventually decided; a decided event is  *)
(* either closed without a word or owed to the user; an owed event is told  *)
(* only after an endpoint has heard it, or it fails and an operator may     *)
(* reopen it; nothing is heard that was not owed once; only an event that   *)
(* is over may be forgotten, and a forgotten event stays forgotten.         *)
(***************************************************************************)
CONSTANT Event

VARIABLES
    phase,    \* where each event stands
    heard     \* events that an endpoint has taken in a request

cvars == <<phase, heard>>

Phase == {"unseen", "open", "closed", "owed", "told", "failed", "forgotten"}
Over == {"closed", "told", "failed"}

CInit ==
    /\ phase = [e \in Event |-> "unseen"]
    /\ heard = {}

(* The events of S, all in one of the phases of from, move to phase to.    *)
Move(S, from, to) ==
    /\ \A e \in S : phase[e] \in from
    /\ phase' = [e \in Event |-> IF e \in S THEN to ELSE phase[e]]

See(S) == Move(S, {"unseen"}, "open") /\ heard' = heard

Close(S) == Move(S, {"open"}, "closed") /\ heard' = heard

Owe(S) == Move(S, {"open"}, "owed") /\ heard' = heard

(* Undecided and suppressed events are never heard of.                     *)
Hear(S) ==
    /\ \A e \in S : phase[e] \notin {"unseen", "open", "closed"}
    /\ heard' = heard \cup S
    /\ phase' = phase

Tell(S) == S \subseteq heard /\ Move(S, {"owed"}, "told") /\ heard' = heard

Fail(S) == Move(S, {"owed"}, "failed") /\ heard' = heard

Reopen(S) == Move(S, {"failed"}, "owed") /\ heard' = heard

Forget(S) == Move(S, Over, "forgotten") /\ heard' = heard

CNext ==
    \E S \in SUBSET Event :
        \/ See(S) \/ Close(S) \/ Owe(S) \/ Hear(S)
        \/ Tell(S) \/ Fail(S) \/ Reopen(S) \/ Forget(S)

CSpec == CInit /\ [][CNext]_cvars
=============================================================================
