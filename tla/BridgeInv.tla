------------------------------ MODULE BridgeInv ------------------------------
(***************************************************************************)
(* The inductive invariant of Bridge: the safety properties it is checked   *)
(* for, strengthened by what the daemon's memory and the bindings of digest *)
(* items must satisfy for each of them to survive every step.               *)
(***************************************************************************)
EXTENDS Bridge

(* A process_one task holds an event that is marked processing.            *)
ClaimsMarked == \A e \in working : status[e] = "processing"

(* A daemon that is down holds nothing in memory.                          *)
DownIsIdle == up \/ (working \cup owed \cup flush["daemon"] = {} /\ posting = {})

(* Rows read by enqueue_digest, critical events and events that are owed a  *)
(* fallback are past their decision.                                       *)
MemoryDecided ==
    /\ \A p \in Process : \A e \in flush[p] : status[e] \notin Suppressed
    /\ \A e \in critical : status[e] \notin Suppressed
    /\ owed \subseteq critical

(* A bound item names a part that was enqueued and that lists its event.   *)
BoundIsListed ==
    \A e \in Event, d \in Part :
        item[e] = d => e \in contents[d] /\ outbox[Digest(d)] # "none"

(* Only requests of rows that exist, or existed, were ever accepted.       *)
AcceptedWasSent == \A r \in accepted : outbox[r] # "none"

(* A row starts with no attempt made.                                      *)
NewRowsUntried == \A r \in Row : outbox[r] = "none" => attempts[r] = 0

(* What the daemon holds in memory, what the rows say of each other, what   *)
(* is in flight, and what the status of an event promises.                 *)
MemoryInv == TriesBounded /\ ClaimsMarked /\ DownIsIdle /\ MemoryDecided
RowsInv == SuppressedIsSilent /\ BoundIsListed /\ AcceptedWasSent /\ NewRowsUntried
FlightInv == PostedIsPending /\ RetriesBounded
StatusInv == WaitingHasCarrier /\ DeadLetterHasDeadRow /\ SettledWasAccepted

(* Each part needs one of the others at some step, so the conjunction is    *)
(* what is proved inductive, and TLC checks it as it is.                   *)
IndInv == TypeOK /\ MemoryInv /\ RowsInv /\ FlightInv /\ StatusInv

(* What keeps digest parts apart while only the daemon flushes: the rows it *)
(* has read stay unbound until it commits, and a listed event is not        *)
(* unbound any more.                                                       *)
FlushInv ==
    /\ flush["cli"] = {}
    /\ flush["daemon"] \subseteq Unbound
    /\ \A e \in Event, d \in Part : e \in contents[d] => item[e] # "unbound"
    /\ DigestOnce
=============================================================================
