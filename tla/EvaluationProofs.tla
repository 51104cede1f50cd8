-------------------------- MODULE EvaluationProofs --------------------------
(* Proof that `eval --candidate` without --reclassify keeps its word, for   *)
(* every policy, label and answer, while both tables change under it.      *)
EXTENDS Evaluation, TLAPS

(* Without answers only a rule drops, and a rule looks at no answers.       *)
LEMMA NoAnswerNoDrop ==
    ASSUME NEW k, NEW c, NEW o, Suggested(k, NoAnswer, c) = "DROP"
    PROVE  Suggested(k, o, c) = "DROP"
  BY DEF Suggested, FallbackRoute, AsksJev, RuleRoute

(* The cooldown makes no drop and hides none.                              *)
LEMMA CooldownKeepsDrops ==
    ASSUME NEW k, NEW o, NEW c, NEW r
    PROVE  Proposed(k, o, c, r) = "DROP" <=> Suggested(k, o, c) = "DROP"
  BY DEF Proposed, Cooled

LEMMA InitDrops == Init => DropIsStored /\ DOMAIN stored = Event /\ DOMAIN result = Event
  BY DEF Init, DropIsStored, NoResult

(* Every step keeps it; only Decide and Replay touch what it is about.      *)
LEMMA DropsStep ==
    ASSUME ~Reclassify, DropIsStored, DOMAIN stored = Event, DOMAIN result = Event, [Next]_vars
    PROVE  (DropIsStored /\ DOMAIN stored = Event /\ DOMAIN result = Event)'
<1>1. ASSUME NEW e \in Event, NEW answers \in Outcome, Decide(e, answers)
      PROVE  (DropIsStored /\ DOMAIN stored = Event /\ DOMAIN result = Event)'
  <2>1. DOMAIN stored' = Event /\ DOMAIN result' = Event
    BY <1>1 DEF Decide
  <2>2. ASSUME NEW f \in Event, result'[f].cand = "DROP"
        PROVE  Suggested(KindOf[f], stored'[f], Candidate) = "DROP"
    <3>1. Suggested(KindOf[f], stored[f], Candidate) = "DROP"
      BY <1>1, <2>2 DEF Decide, DropIsStored
    <3>2. stored'[f] = stored[f] \/ stored[f] = NoAnswer
      BY <1>1 DEF Decide
    <3> QED
      BY <3>1, <3>2, NoAnswerNoDrop
  <2> QED
    BY <2>1, <2>2 DEF DropIsStored
<1>2. ASSUME NEW e \in Event, NEW fresh \in Outcome, NEW repeats \in [base : BOOLEAN, cand : BOOLEAN],
             Replay(e, fresh, repeats)
      PROVE  (DropIsStored /\ DOMAIN stored = Event /\ DOMAIN result = Event)'
  <2>1. DOMAIN stored' = Event /\ DOMAIN result' = Event /\ stored' = stored
    BY <1>2 DEF Replay
  <2>2. ASSUME NEW f \in Event, result'[f].cand = "DROP"
        PROVE  Suggested(KindOf[f], stored'[f], Candidate) = "DROP"
    <3>1. CASE f = e
      <4>1. result'[e].cand = Proposed(KindOf[e], stored[e], Candidate, repeats.cand)
        BY <1>2 DEF Replay
      <4> QED
        BY <2>1, <2>2, <3>1, <4>1, CooldownKeepsDrops
    <3>2. CASE f # e
      BY <1>2, <2>1, <2>2, <3>2 DEF Replay, DropIsStored
    <3> QED
      BY <3>1, <3>2
  <2> QED
    BY <2>1, <2>2 DEF DropIsStored
<1>3. UNCHANGED <<stored, result>>
        => (DropIsStored /\ DOMAIN stored = Event /\ DOMAIN result = Event)'
  BY DEF DropIsStored
<1> QED
  BY <1>1, <1>2, <1>3 DEF Next, vars, AddLabel, Begin, Finish

(* Without --reclassify exit code 0 means that no critical event is         *)
(* dropped, though labels and decisions change while it runs.              *)
THEOREM StoredEvaluationIsSound ==
    ASSUME ~Reclassify PROVE Spec => PassedDropsNoCritical
<1> DEFINE Inv == DropIsStored /\ DOMAIN stored = Event /\ DOMAIN result = Event
           Sound == Finish /\ exit' = 0 =>
              \A e \in Critical(labels) \cap Critical(label) :
                  /\ result[e].cand # "DROP"
                  /\ Suggested(KindOf[e], stored[e], Candidate) # "DROP"
<1>1. Init => Inv
  BY InitDrops
<1>2. Inv /\ [Next]_vars => Inv'
  BY DropsStep
<1>3. Inv => Sound
  BY DEF DropIsStored, Finish, CriticalDropped, Critical
<1> QED
  BY <1>1, <1>2, <1>3, PTL DEF Spec, PassedDropsNoCritical
=============================================================================
