----------------------------- MODULE Evaluation -----------------------------
(***************************************************************************)
(* `ntfy-bridge eval --candidate` (cli.py: _evaluate): the labelled events  *)
(* are replayed under the current and under a candidate policy, and the     *)
(* exit code says whether the candidate may be used.  Meanwhile the daemon  *)
(* decides events and the operator labels more of them in other processes.  *)
(*                                                                         *)
(* The reports it prints are left out, except for what they say of drops.   *)
(***************************************************************************)
EXTENDS Policy

CONSTANTS
    Event,        \* event ids
    KindOf,       \* the kind of each event
    Baseline,     \* the configuration in force
    Candidate,    \* the one of --candidate
    Outcome,      \* what Jev may say: answers, or NoAnswer when it fails
    Reclassify,   \* is --reclassify given?
    Unlabelled    \* the label of an event without a row in labels

VARIABLES
    label,     \* latest label of each event
    stored,    \* answers of the latest production decision
    stage,     \* how far _evaluate is: "idle", "replaying", "done"
    labels,    \* latest_labels as read at its start
    result,    \* per event, the routes replayed: current and candidate
    exit       \* exit code, once it is done

vars == <<label, stored, stage, labels, result, exit>>

Label == [route : Route, critical : BOOLEAN]
NoResult == [base |-> "none", cand |-> "none"]
CriticalSafe == {"NOTIFY_NOW", "REVIEW"}

Labelled == {e \in Event : labels[e] # Unlabelled}
Critical(of) == {e \in Event : of[e] # Unlabelled /\ of[e].critical}

-----------------------------------------------------------------------------
(* Other processes                                                         *)

AddLabel(e, l) ==
    /\ label' = [label EXCEPT ![e] = l]
    /\ UNCHANGED <<stored, stage, labels, result, exit>>

(* The daemon decides an event; a later decision does not replace it.       *)
Decide(e, answers) ==
    /\ stored[e] = NoAnswer
    /\ stored' = [stored EXCEPT ![e] = answers]
    /\ UNCHANGED <<label, stage, labels, result, exit>>

-----------------------------------------------------------------------------
(* _evaluate                                                               *)

Begin ==
    /\ stage = "idle"
    /\ \E e \in Event : label[e] # Unlabelled
    /\ labels' = label
    /\ stage' = "replaying"
    /\ UNCHANGED <<label, stored, result, exit>>

(* Both replays of an event; fresh is what Jev says now, and the cooldown   *)
(* of either configuration may find an earlier event or not.               *)
Replay(e, fresh, repeats) ==
    LET outcome == IF Reclassify THEN fresh ELSE stored[e]
    IN  /\ stage = "replaying" /\ e \in Labelled /\ result[e] = NoResult
        /\ result' = [result EXCEPT ![e] =
               [base |-> Proposed(KindOf[e], stored[e], Baseline, repeats.base),
                cand |-> Proposed(KindOf[e], outcome, Candidate, repeats.cand)]]
        /\ UNCHANGED <<label, stored, stage, labels, exit>>

(* compute_guardrail: the labels are read again and the stored answers      *)
(* replayed, even with --reclassify.                                       *)
CriticalDropped ==
    {e \in Critical(label) : Suggested(KindOf[e], stored[e], Candidate) = "DROP"}

CriticalRegressed ==
    {e \in Critical(labels) :
        \/ result[e].base = labels[e].route /\ result[e].cand # labels[e].route
        \/ result[e].base \in CriticalSafe /\ result[e].cand \notin CriticalSafe}

Finish ==
    /\ stage = "replaying" /\ \A e \in Labelled : result[e] # NoResult
    /\ exit' = IF CriticalDropped # {} \/ CriticalRegressed # {} THEN 2 ELSE 0
    /\ stage' = "done"
    /\ UNCHANGED <<label, stored, labels, result>>

-----------------------------------------------------------------------------
Init ==
    /\ label = [e \in Event |-> Unlabelled]
    /\ stored \in [Event -> Outcome]
    /\ stage = "idle"
    /\ labels = [e \in Event |-> Unlabelled]
    /\ result = [e \in Event |-> NoResult]
    /\ exit = 0

Next ==
    \/ \E e \in Event, l \in Label : AddLabel(e, l)
    \/ \E e \in Event, answers \in Outcome : Decide(e, answers)
    \/ Begin
    \/ \E e \in Event, fresh \in Outcome, repeats \in [base : BOOLEAN, cand : BOOLEAN] :
          Replay(e, fresh, repeats)
    \/ Finish

Spec == Init /\ [][Next]_vars

-----------------------------------------------------------------------------
(* Exit code 0 means that the candidate drops none of the events that are   *)
(* labelled critical, neither in the routes it reports nor with the answers *)
(* that are stored when it ends (README: "exits with code 2 if any critical *)
(* event would be dropped").  An event relabelled meanwhile is not meant.   *)
PassedDropsNoCritical ==
    [][Finish /\ exit' = 0 =>
          \A e \in Critical(labels) \cap Critical(label) :
              /\ result[e].cand # "DROP"
              /\ Suggested(KindOf[e], stored[e], Candidate) # "DROP"]_vars

(* What makes it hold without --reclassify: an event's answers, once there, *)
(* stay, and without answers only a rule drops.                            *)
DropIsStored ==
    \A e \in Event :
        result[e].cand = "DROP" => Suggested(KindOf[e], stored[e], Candidate) = "DROP"
=============================================================================
