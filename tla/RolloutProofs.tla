---------------------------- MODULE RolloutProofs ---------------------------
(* Proofs about routing and its rollout, for every configuration, every     *)
(* threshold and every number of events and edits.                         *)
EXTENDS Rollout, TLAPS

(* Routing                                                                 *)

(* An answer in a critical category is never a DROP, whatever the           *)
(* thresholds (route_from_answers).                                        *)
LEMMA CriticalNotDropped ==
    ASSUME NEW a, NEW t, a.category \in CriticalReview
    PROVE  RouteFromAnswers(a, t) \in {"NOTIFY_NOW", "REVIEW"}
  BY DEF RouteFromAnswers

(* Routes are routes.                                                      *)
LEMMA RouteTypes ==
    ASSUME NEW k, NEW o, NEW c, NEW r \in BOOLEAN, NEW ok \in BOOLEAN
    PROVE  /\ Suggested(k, o, c) \in Route /\ Proposed(k, o, c, r) \in Route
           /\ Effective(k, o, c, r, ok) \in Route \cup {"SHADOW"}
<1>1. Suggested(k, o, c) \in Route
  BY DEF Suggested, RuleRoute, RouteFromAnswers, FallbackRoute, Route
<1>2. Proposed(k, o, c, r) \in Route
  BY <1>1 DEF Proposed, Route
<1> QED
  BY <1>1, <1>2 DEF Effective, Gate, Route

(* The more alarming of two answers does not get the less urgent route,     *)
(* whatever the thresholds.                                                *)
LEMMA AnswersMonotone ==
    ASSUME NEW a \in Answers, NEW b \in Answers, NEW t \in Thresholds, AtLeastAsAlarming(b, a)
    PROVE  Urgency(RouteFromAnswers(b, t)) >= Urgency(RouteFromAnswers(a, t))
<1>1. Notifies(a, t) => Notifies(b, t)
  BY DEF Notifies, AtLeastAsAlarming, Answers, Thresholds
<1>2. ~Notifies(b, t) /\ IsNoise(b, t) => a.harm <= t.drop_max_harm
  BY DEF IsNoise, AtLeastAsAlarming, Answers, Thresholds
<1>3. IsNoise(b, t) => IsNoise(a, t)
  BY DEF IsNoise, AtLeastAsAlarming, Answers, Thresholds
<1>4. a.harm >= t.review_harm => b.harm >= t.review_harm
  BY DEF AtLeastAsAlarming, Answers, Thresholds
<1>5. b.category = a.category
  BY DEF AtLeastAsAlarming
<1> QED
  BY <1>1, <1>3, <1>4, <1>5 DEF RouteFromAnswers, Urgency

(* The gate keeps the order of two routes of a classifier.                 *)
LEMMA GateMonotone ==
    ASSUME NEW p \in Route, NEW q \in Route, Urgency(q) >= Urgency(p),
           NEW mode \in Mode, mode # "shadow", NEW ok \in BOOLEAN
    PROVE  Urgency(Gate(q, mode, FALSE, ok)) >= Urgency(Gate(p, mode, FALSE, ok))
  BY DEF Gate, Urgency, Route, Mode

-----------------------------------------------------------------------------
(* Rollout                                                                 *)

LEMMA InitInd == Init => IndInv
<1> SUFFICES ASSUME Init PROVE IndInv
  OBVIOUS
<1> USE RolloutAssumption DEF Init
<1>1. TypeOK
  BY DEF TypeOK
<1>2. ReloadInv /\ ContextInv /\ GuardInv
  BY DEF ReloadInv, ContextInv, GuardInv
<1>3. CriticalIsKept /\ AskedAsConfigured /\ InForceIsUsable /\ NoEditLost
  BY DEF CriticalIsKept, AskedAsConfigured, InForceIsUsable, NoEditLost, Judged
<1> QED
  BY <1>1, <1>2, <1>3 DEF IndInv

(* What a guardrail is built from, and what it is.                         *)
LEMMA BuiltIsContext ==
    ASSUME TypeOK, NEW content \in Content
    PROVE  /\ Built(content) \in Context /\ Built(content).content = content
           /\ Built(content) # Nothing
           /\ Sound(Built(content))
           /\ LabelsNow \in Labels
<1>1. LabelsNow \in Labels
  BY DEF LabelsNow, Labels, TypeOK
<1>2. GuardrailOK(content.config, LabelsNow) \in BOOLEAN
  BY DEF GuardrailOK
<1>3. Built(content) \in Context /\ Built(content).content = content
  BY <1>1, <1>2 DEF Built, Context
<1>4. Sound(Built(content))
  BY DEF Built, Sound, LabelsNow
<1> QED
  BY <1>1, <1>3, <1>4, RolloutAssumption

LEMMA ContextStep ==
    ASSUME IndInv, [Next]_vars
    PROVE  TypeOK' /\ ReloadInv' /\ ContextInv'
<1> USE RolloutAssumption DEF IndInv, ReloadInv, ContextInv, external, reloading, deciding
<1>c. ctx # Nothing => ctx \in Context /\ ctx.content \in Content
  BY DEF TypeOK, Context
<1>1. ASSUME NEW content \in Written, Edit(content) PROVE TypeOK' /\ ReloadInv' /\ ContextInv'
  BY <1>1 DEF Edit, TypeOK
<1>2. ASSUME NEW e \in Event, NEW l \in LabelValue, Label(e, l)
      PROVE TypeOK' /\ ReloadInv' /\ ContextInv'
  BY <1>2 DEF Label, TypeOK
<1>3. CASE Load
  <2>1. file \in Content /\ LabelsNow \in Labels
    BY BuiltIsContext DEF TypeOK
  <2>2. ctx' \in Context /\ ctx'.content = file
    BY <1>3, <2>1 DEF Load, Context
  <2>3. ctx' # Nothing
    BY <2>2
  <2> QED
    BY <1>3, <2>2, <2>3 DEF Load, TypeOK
<1>4. CASE Up
  <2>1. ctx' \in Context /\ ctx' # Nothing
    BY <1>4, <1>c, BuiltIsContext DEF Up
  <2> QED
    BY <1>4, <2>1 DEF Up, TypeOK
<1>5. CASE Crash \/ ReloadRaises
  BY <1>5 DEF Crash, ReloadRaises, Stop, TypeOK
<1>6. CASE Poll
  BY <1>6 DEF Poll, TypeOK
<1>7. CASE ReadCandidate
  BY <1>7 DEF ReadCandidate, TypeOK
<1>8. CASE Swap
  <2>1. candidate \in Content /\ ctx # Nothing /\ daemon = "up"
    BY <1>8 DEF Swap
  <2>2. ctx' \in Context /\ ctx' # Nothing
    BY <1>8, <2>1, BuiltIsContext DEF Swap
  <2>3. held' \in [Event -> Context \cup {Nothing}]
    BY <1>8, <1>c, <2>1 DEF Swap, TypeOK
  <2> QED
    BY <1>8, <2>1, <2>2, <2>3 DEF Swap, Stamp, TypeOK
<1>9. CASE Reject
  BY <1>9 DEF Reject, TypeOK
<1>10. CASE Refresh
  <2>1. ctx' \in Context /\ ctx' # Nothing
    BY <1>10, <1>c, BuiltIsContext DEF Refresh
  <2> QED
    BY <1>10, <2>1 DEF Refresh, TypeOK
<1>r. ASSUME NEW e \in Event, NEW outcome \in Outcome, NEW repeats \in BOOLEAN, NEW x \in Context
      PROVE  Record(e, outcome, repeats, x) \in Verdict
  <2>1. x.ok \in BOOLEAN
    BY DEF Context
  <2>2. Effective(kind[e], outcome, x.content.config, repeats, x.ok) \in Route \cup {"SHADOW"}
    BY <2>1, RouteTypes
  <2>3. Deterministic(kind[e], x.content.config) \in BOOLEAN
    BY DEF Deterministic
  <2> QED
    BY <2>2, <2>3 DEF Record, Verdict
<1>11. ASSUME NEW e \in Event, NEW repeats \in BOOLEAN, DecideAtOnce(e, repeats)
       PROVE  TypeOK' /\ ReloadInv' /\ ContextInv'
  <2>1. Record(e, NoAnswer, repeats, ctx) \in Verdict
    BY <1>11, <1>c, <1>r DEF DecideAtOnce
  <2> QED
    BY <1>11, <2>1 DEF DecideAtOnce, TypeOK
<1>12. ASSUME NEW e \in Event, Think(e) PROVE TypeOK' /\ ReloadInv' /\ ContextInv'
  BY <1>12 DEF Think, TypeOK
<1>13. ASSUME NEW e \in Event, NEW outcome \in Outcome, NEW repeats \in BOOLEAN,
              DecideAfterJev(e, outcome, repeats)
       PROVE  TypeOK' /\ ReloadInv' /\ ContextInv'
  <2>1. ContextOf(e) \in Context
    BY <1>13, <1>c DEF DecideAfterJev, ContextOf, TypeOK
  <2>2. Record(e, outcome, repeats, ContextOf(e)) \in Verdict
    BY <2>1, <1>r
  <2> QED
    BY <1>13, <2>2 DEF DecideAfterJev, TypeOK
<1>14. CASE UNCHANGED vars
  BY <1>14 DEF vars, TypeOK
<1> QED
  BY <1>1, <1>2, <1>3, <1>4, <1>5, <1>6, <1>7, <1>8, <1>9, <1>10, <1>11, <1>12, <1>13, <1>14
  DEF Next

(* What was decided stays, so a guardrail that passed still passes by the   *)
(* labels it was computed from.                                            *)
DecidedStays ==
    /\ kind' = kind
    /\ \A e \in Event : stage[e] = "decided" => stage'[e] = "decided" /\ verdict'[e] = verdict[e]

LEMMA StepKeepsDecided == ASSUME IndInv, [Next]_vars PROVE DecidedStays
<1> USE DEF IndInv, TypeOK, DecidedStays, external, reloading, deciding
<1>1. CASE \E content \in Written : Edit(content)
  BY <1>1 DEF Edit
<1>2. CASE \E e \in Event, l \in LabelValue : Label(e, l)
  BY <1>2 DEF Label
<1>3. CASE Load \/ Up \/ Refresh
  BY <1>3 DEF Load, Up, Refresh
<1>4. CASE Crash \/ ReloadRaises
  BY <1>4 DEF Crash, ReloadRaises, Stop
<1>5. CASE Poll \/ ReadCandidate \/ Swap \/ Reject
  BY <1>5 DEF Poll, ReadCandidate, Swap, Reject
<1>6. CASE \E e \in Event, repeats \in BOOLEAN : DecideAtOnce(e, repeats)
  BY <1>6 DEF DecideAtOnce
<1>7. CASE \E e \in Event : Think(e)
  BY <1>7 DEF Think
<1>8. CASE \E e \in Event, outcome \in Outcome, repeats \in BOOLEAN :
              DecideAfterJev(e, outcome, repeats)
  BY <1>8 DEF DecideAfterJev
<1>9. CASE UNCHANGED vars
  BY <1>9 DEF vars
<1> QED
  BY <1>1, <1>2, <1>3, <1>4, <1>5, <1>6, <1>7, <1>8, <1>9 DEF Next

LEMMA SoundStays ==
    ASSUME DecidedStays, NEW x, Sound(x)
    PROVE  Sound(x)'
<1>1. \A e \in Event : x.labels[e] = "critical" => stage'[e] = "decided"
  BY DEF Sound, DecidedStays
<1>2. ASSUME x.ok PROVE GuardrailOK(x.content.config, x.labels)'
  <2>1. GuardrailOK(x.content.config, x.labels)
    BY <1>2 DEF Sound
  <2>2. ASSUME NEW e \in Event, x.labels[e] \in {"critical", "early"}
        PROVE  ~ReplaysToDrop(e, x.labels[e], x.content.config)'
    <3>1. ~ReplaysToDrop(e, x.labels[e], x.content.config)
      BY <2>1, <2>2 DEF GuardrailOK
    <3>2. kind'[e] = kind[e] /\ (x.labels[e] # "early" => verdict'[e] = verdict[e])
      BY <2>2 DEF Sound, DecidedStays
    <3> QED
      BY <3>1, <3>2 DEF ReplaysToDrop
  <2> QED
    BY <2>1, <2>2 DEF GuardrailOK
<1> QED
  BY <1>1, <1>2 DEF Sound

LEMMA GuardStep ==
    ASSUME IndInv, [Next]_vars
    PROVE  GuardInv'
<1> USE DEF IndInv, GuardInv, external, reloading, deciding
<1>s. DecidedStays
  BY StepKeepsDecided
<1>t. TypeOK /\ TypeOK'
  BY ContextStep
<1>k. ASSUME NEW x, Sound(x) PROVE Sound(x)'
  BY <1>s, <1>k, SoundStays
<1>1. CASE UNCHANGED <<ctx, held>>
  BY <1>1, <1>k
<1>b. ASSUME NEW content \in Content, ctx' = Built(content), UNCHANGED <<stage, verdict, kind>>
      PROVE  Sound(ctx)'
  <2>1. Sound(Built(content))
    BY <1>t, BuiltIsContext
  <2> QED
    BY <1>b, <2>1 DEF Sound, GuardrailOK, ReplaysToDrop
<1>c. ctx # Nothing => ctx.content \in Content
  BY <1>t DEF TypeOK, Context
<1>2. CASE Load
  <2>1. Sound(ctx)'
    BY <1>2 DEF Load, Sound, LabelsNow
  <2> QED
    BY <1>2, <1>k, <2>1 DEF Load
<1>3. CASE Up \/ Refresh
  <2>1. ctx # Nothing /\ ctx' = Built(ctx.content) /\ UNCHANGED <<stage, verdict, kind, held>>
    BY <1>3 DEF Up, Refresh, ContextInv
  <2>2. Sound(ctx)'
    BY <1>b, <1>c, <2>1
  <2> QED
    BY <1>k, <2>1, <2>2
<1>4. CASE Crash \/ ReloadRaises
  BY <1>4 DEF Crash, ReloadRaises, Stop
<1>5. CASE Swap
  <2>1. candidate \in Content
    BY <1>5, RolloutAssumption DEF Swap, ReloadInv
  <2>2. Sound(ctx)'
    BY <1>b, <1>5, <2>1 DEF Swap
  <2>3. ASSUME NEW e \in Event, held'[e] # Nothing PROVE Sound(held[e])'
    <3>1. held'[e] = held[e] \/ (held'[e] = ctx /\ ctx # Nothing)
      BY <1>5, <2>3 DEF Swap, ReloadInv, ContextInv
    <3>2. PICK x : x = held'[e] /\ Sound(x)
      BY <2>3, <3>1
    <3> QED
      BY <3>2, <1>k
  <2> QED
    BY <2>2, <2>3
<1>6. CASE \E e \in Event, outcome \in Outcome, repeats \in BOOLEAN :
              DecideAfterJev(e, outcome, repeats)
  <2>1. PICK e \in Event : held' = [held EXCEPT ![e] = Nothing] /\ ctx' = ctx
    BY <1>6 DEF DecideAfterJev
  <2>2. ctx' # Nothing => Sound(ctx)'
    BY <2>1, <1>k
  <2>3. ASSUME NEW f \in Event, held'[f] # Nothing PROVE Sound(held[f])'
    <3>1. held'[f] = held[f]
      BY <2>1, <2>3, <1>t DEF TypeOK
    <3> QED
      BY <2>3, <3>1, <1>k
  <2> QED
    BY <2>2, <2>3
<1>7. CASE UNCHANGED vars \/ (\E content \in Written : Edit(content))
           \/ (\E e \in Event, l \in LabelValue : Label(e, l))
  BY <1>1, <1>7 DEF vars, Edit, Label
<1>8. CASE Poll \/ ReadCandidate \/ Reject
  BY <1>1, <1>8 DEF Poll, ReadCandidate, Reject
<1>9. CASE (\E e \in Event, repeats \in BOOLEAN : DecideAtOnce(e, repeats))
           \/ (\E e \in Event : Think(e))
  BY <1>1, <1>9 DEF DecideAtOnce, Think
<1> QED
  BY <1>2, <1>3, <1>4, <1>5, <1>6, <1>7, <1>8, <1>9 DEF Next

(* What a task decides once Jev has answered or failed.                    *)
LEMMA JudgedStep ==
    ASSUME IndInv, [Next]_vars, NEW e \in Judged' \ Judged
    PROVE  \E outcome \in Outcome, repeats \in BOOLEAN :
              DecideAfterJev(e, outcome, repeats) /\ outcome # NoAnswer
                  /\ verdict'[e] = Record(e, outcome, repeats, ContextOf(e))
                  /\ ~Deterministic(kind[e], ContextOf(e).content.config)
<1> USE DEF IndInv, Judged, external, reloading, deciding
<1>t. TypeOK
  OBVIOUS
<1>r. ASSUME NEW outcome, NEW repeats, NEW x, verdict'[e] = Record(e, outcome, repeats, x)
      PROVE  outcome # NoAnswer /\ ~Deterministic(kind[e], x.content.config)
  <2>1. verdict'[e].outcome = outcome
        /\ verdict'[e].rule = Deterministic(kind[e], x.content.config)
    BY <1>r DEF Record
  <2>2. ~verdict'[e].rule /\ verdict'[e].outcome # NoAnswer
    OBVIOUS
  <2>3. Deterministic(kind[e], x.content.config) \in BOOLEAN
    BY DEF Deterministic
  <2> QED
    BY <2>1, <2>2, <2>3
<1>1. CASE \E outcome \in Outcome, repeats \in BOOLEAN : DecideAfterJev(e, outcome, repeats)
  <2>1. PICK outcome \in Outcome, repeats \in BOOLEAN : DecideAfterJev(e, outcome, repeats)
    BY <1>1
  <2>2. verdict'[e] = Record(e, outcome, repeats, ContextOf(e))
    BY <2>1, <1>t DEF DecideAfterJev, TypeOK
  <2> QED
    BY <2>1, <2>2, <1>r
<1>2. CASE \E repeats \in BOOLEAN : DecideAtOnce(e, repeats)
  <2>1. PICK repeats \in BOOLEAN : DecideAtOnce(e, repeats)
    BY <1>2
  <2>2. verdict'[e] = Record(e, NoAnswer, repeats, ctx)
    BY <2>1, <1>t DEF DecideAtOnce, TypeOK
  <2> QED
    BY <2>2, <1>r
<1>4. CASE \E f \in Event \ {e}, outcome \in Outcome, repeats \in BOOLEAN :
              DecideAfterJev(f, outcome, repeats) \/ DecideAtOnce(f, repeats)
  <2>1. stage'[e] = stage[e] /\ verdict'[e] = verdict[e]
    BY <1>4, <1>t DEF DecideAfterJev, DecideAtOnce, TypeOK
  <2> QED
    BY <2>1
<1>5. CASE Crash \/ ReloadRaises
  BY <1>5 DEF Crash, ReloadRaises, Stop
<1>6. CASE \E f \in Event : Think(f)
  BY <1>6, <1>t DEF Think, TypeOK
<1>7. CASE UNCHANGED vars \/ Load \/ Up \/ Refresh \/ Poll \/ ReadCandidate \/ Swap \/ Reject
           \/ (\E content \in Written : Edit(content))
           \/ (\E f \in Event, l \in LabelValue : Label(f, l))
  <2>1. UNCHANGED <<stage, verdict>>
    BY <1>7 DEF vars, Load, Up, Refresh, Poll, ReadCandidate, Swap, Reject, Edit, Label
  <2> QED
    BY <2>1
<1>8. \/ \E outcome \in Outcome, repeats \in BOOLEAN : DecideAfterJev(e, outcome, repeats)
      \/ \E repeats \in BOOLEAN : DecideAtOnce(e, repeats)
      \/ \E f \in Event \ {e}, outcome \in Outcome, repeats \in BOOLEAN :
              DecideAfterJev(f, outcome, repeats) \/ DecideAtOnce(f, repeats)
      \/ ~\E f \in Event, outcome \in Outcome, repeats \in BOOLEAN :
              DecideAfterJev(f, outcome, repeats) \/ DecideAtOnce(f, repeats)
  OBVIOUS
<1> QED
  BY <1>1, <1>2, <1>4, <1>5, <1>6, <1>7, <1>8, RolloutAssumption DEF Next

LEMMA CriticalStep ==
    ASSUME IndInv, [Next]_vars
    PROVE  CriticalIsKept'
<1> SUFFICES ASSUME NEW e \in Judged', verdict'[e].outcome.category \in CriticalReview
             PROVE  verdict'[e].route # "DROP"
  BY DEF CriticalIsKept
<1>1. CASE e \in Judged
  BY <1>1, StepKeepsDecided DEF IndInv, CriticalIsKept, Judged, DecidedStays
<1>2. CASE e \notin Judged
  <2>1. PICK outcome \in Outcome, repeats \in BOOLEAN :
            /\ stage[e] = "thinking" /\ outcome # NoAnswer
            /\ verdict'[e] = Record(e, outcome, repeats, ContextOf(e))
    BY <1>2, JudgedStep DEF DecideAfterJev
  <2> DEFINE c == ContextOf(e).content.config
  <2>2. outcome.category \in CriticalReview
    BY <2>1 DEF Record
  <2>3. AsksJev(kind[e], c)
    BY <2>1 DEF IndInv, AskedAsConfigured, Judged
  <2>4. Suggested(kind[e], outcome, c) \in {"NOTIFY_NOW", "REVIEW"}
    BY <2>1, <2>2, <2>3, CriticalNotDropped DEF Suggested, AsksJev
  <2>5. Proposed(kind[e], outcome, c, repeats) # "DROP"
    BY <2>4 DEF Proposed
  <2>6. Effective(kind[e], outcome, c, repeats, ContextOf(e).ok) # "DROP"
    BY <2>5 DEF Effective, Gate
  <2> QED
    BY <2>1, <2>6 DEF Record
<1> QED
  BY <1>1, <1>2

LEMMA AskedStep ==
    ASSUME IndInv, [Next]_vars
    PROVE  AskedAsConfigured'
<1> USE DEF IndInv, AskedAsConfigured, external, reloading, deciding
<1>t. TypeOK /\ ContextInv
  OBVIOUS
<1> SUFFICES ASSUME NEW e \in Event, stage'[e] = "thinking"
             PROVE  AsksJev(kind'[e], ContextOf(e)'.content.config)
  OBVIOUS
<1>0. kind' = kind
  BY StepKeepsDecided DEF DecidedStays
<1>1. CASE \E f \in Event : Think(f)
  BY <1>1, <1>t DEF Think, TypeOK, ContextInv, ContextOf
<1>2. CASE Up \/ Load
  BY <1>2, <1>t DEF Up, Load, ContextInv
<1>3. CASE Refresh
  <2>1. ctx'.content = ctx.content /\ UNCHANGED <<stage, held>>
    BY <1>3, <1>t DEF Refresh, Built
  <2> QED
    BY <2>1, <1>0 DEF ContextOf
<1>4. CASE Swap
  <2>1. stage[e] = "thinking" /\ ctx # Nothing
    BY <1>4, <1>t DEF Swap, ContextInv
  <2>2. held'[e] = ContextOf(e) /\ held'[e] # Nothing
    BY <1>4, <2>1, <1>t DEF Swap, ContextOf, TypeOK
  <2> QED
    BY <2>1, <2>2, <1>0 DEF ContextOf
<1>5. CASE Crash \/ ReloadRaises
  BY <1>5, <1>t DEF Crash, ReloadRaises, Stop, TypeOK
<1>6. CASE \E f \in Event, outcome \in Outcome, repeats \in BOOLEAN :
              DecideAfterJev(f, outcome, repeats) \/ DecideAtOnce(f, repeats)
  <2>1. stage'[e] = stage[e] /\ held'[e] = held[e] /\ ctx' = ctx
    BY <1>6, <1>t DEF DecideAfterJev, DecideAtOnce, TypeOK
  <2> QED
    BY <2>1, <1>0 DEF ContextOf
<1>7. CASE UNCHANGED vars \/ Poll \/ ReadCandidate \/ Reject
           \/ (\E content \in Written : Edit(content))
           \/ (\E f \in Event, l \in LabelValue : Label(f, l))
  <2>1. UNCHANGED <<stage, held, ctx>>
    BY <1>7 DEF vars, Poll, ReadCandidate, Reject, Edit, Label
  <2> QED
    BY <2>1, <1>0 DEF ContextOf
<1> QED
  BY <1>1, <1>2, <1>3, <1>4, <1>5, <1>6, <1>7, RolloutAssumption DEF Next

(* Neither what is in force nor the file is touched by the rest.           *)
Routing ==
    \/ UNCHANGED vars
    \/ \E e \in Event, l \in LabelValue : Label(e, l)
    \/ \E e \in Event : Think(e)
    \/ \E e \in Event, outcome \in Outcome, repeats \in BOOLEAN :
          DecideAtOnce(e, repeats) \/ DecideAfterJev(e, outcome, repeats)

LEMMA RoutingKeepsFiles ==
    ASSUME Routing PROVE UNCHANGED <<external, daemon, ctx, reloading>>
  BY DEF Routing, vars, Label, Think, DecideAtOnce, DecideAfterJev

LEMMA InForceStep ==
    ASSUME IndInv, [Next]_vars
    PROVE  InForceIsUsable' /\ (EditsWhileStarting \/ NoEditLost')
<1> USE DEF IndInv, InForceIsUsable, NoEditLost, Usable, external, reloading, deciding
<1>t. TypeOK /\ ContextInv /\ ReloadInv
  OBVIOUS
<1>1. CASE Routing
  BY <1>1, RoutingKeepsFiles
<1>2. CASE \E content \in Written : Edit(content)
  BY <1>2, <1>t DEF Edit, TypeOK, ReloadInv
<1>3. CASE Load
  BY <1>3 DEF Load
<1>4. CASE Up \/ Refresh
  <2>1. ctx'.content = ctx.content
    BY <1>4 DEF Up, Refresh, Built
  <2> QED
    BY <1>4, <2>1, <1>t DEF Up, Refresh, ReloadInv
<1>5. CASE Crash \/ ReloadRaises
  BY <1>5 DEF Crash, ReloadRaises, Stop
<1>6. CASE Poll \/ ReadCandidate
  BY <1>6 DEF Poll, ReadCandidate
<1>7. CASE Swap
  <2>1. ctx'.content = candidate
    BY <1>7 DEF Swap, Built
  <2> QED
    BY <1>7, <2>1, <1>t DEF Swap, Stamp, Acceptable, ReloadInv
<1>8. CASE Reject
  BY <1>8, <1>t DEF Reject, Acceptable, ReloadInv
<1> QED
  BY <1>1, <1>2, <1>3, <1>4, <1>5, <1>6, <1>7, <1>8, RolloutAssumption DEF Next, Routing

LEMMA IndStep == ASSUME IndInv, [Next]_vars PROVE IndInv'
  BY ContextStep, GuardStep, CriticalStep, AskedStep, InForceStep DEF IndInv

-----------------------------------------------------------------------------
(* The inductive invariant of Rollout holds in every reachable state.      *)
THEOREM RolloutInvariant == Spec => []IndInv
  BY InitInd, IndStep, PTL DEF Spec

(* Nothing that Jev puts in a critical category is dropped, for every       *)
(* threshold and every sequence of edits (route_from_answers, gate).       *)
THEOREM CriticalKept == Spec => []CriticalIsKept
<1>1. IndInv => CriticalIsKept
  BY DEF IndInv
<1> QED
  BY <1>1, RolloutInvariant, PTL

(* A decision is made under a configuration that asked for it (process).   *)
THEOREM AskedByConfiguration == Spec => []AskedAsConfigured
<1>1. IndInv => AskedAsConfigured
  BY DEF IndInv
<1> QED
  BY <1>1, RolloutInvariant, PTL

(* What is in force is valid and, unless in shadow, signed (maybe_reload). *)
THEOREM InForceUsable == Spec => []InForceIsUsable
<1>1. IndInv => InForceIsUsable
  BY DEF IndInv
<1> QED
  BY <1>1, RolloutInvariant, PTL

(* No edit is lost if the file is left alone while the daemon starts        *)
(* (maybe_reload; run and App.__init__ read the file and its time apart).   *)
THEOREM NothingLost ==
    ASSUME ~EditsWhileStarting
    PROVE  Spec => []NoEditLost
<1>1. IndInv => NoEditLost
  BY DEF IndInv
<1> QED
  BY <1>1, RolloutInvariant, PTL

(* In every reachable state, whatever the configuration in force, the more  *)
(* alarming of two answers gets no less urgent a route.                    *)
THEOREM RoutesMonotone == Spec => []RoutesAreMonotone
<1>1. ASSUME IndInv PROVE RoutesAreMonotone
  <2> SUFFICES ASSUME daemon = "up", NEW k \in Kind,
                      NEW a \in Outcome \ {NoAnswer}, NEW b \in Outcome \ {NoAnswer},
                      AsksJev(k, ctx.content.config), ctx.content.config.mode # "shadow",
                      AtLeastAsAlarming(b, a)
               PROVE  Urgency(Effective(k, b, ctx.content.config, FALSE, ctx.ok))
                         >= Urgency(Effective(k, a, ctx.content.config, FALSE, ctx.ok))
    BY DEF RoutesAreMonotone
  <2> DEFINE c == ctx.content.config
  <2>1. ctx \in Context
    BY <1>1 DEF IndInv, TypeOK, ContextInv
  <2>2. c.mode \in Mode /\ c.thresholds[k] \in Thresholds /\ ctx.ok \in BOOLEAN
    BY <2>1 DEF Context, Content, Config
  <2>3. a \in Answers /\ b \in Answers
    BY RolloutAssumption
  <2>4. Urgency(RouteFromAnswers(b, c.thresholds[k])) >= Urgency(RouteFromAnswers(a, c.thresholds[k]))
    BY <2>2, <2>3, AnswersMonotone
  <2>5. \A o \in {a, b} : Proposed(k, o, c, FALSE) = RouteFromAnswers(o, c.thresholds[k])
    BY DEF Proposed, Cooled, Suggested, AsksJev
  <2>6. \A o \in {a, b} : Proposed(k, o, c, FALSE) \in Route
    BY RouteTypes
  <2>7. Urgency(Gate(Proposed(k, b, c, FALSE), c.mode, FALSE, ctx.ok))
           >= Urgency(Gate(Proposed(k, a, c, FALSE), c.mode, FALSE, ctx.ok))
    BY <2>2, <2>4, <2>5, <2>6, GateMonotone
  <2>8. ~Deterministic(k, c)
    BY DEF AsksJev
  <2>9. Deterministic(k, c) = FALSE
    BY <2>8 DEF Deterministic
  <2> HIDE DEF c
  <2> QED
    BY <2>7, <2>9 DEF Effective, c
<1> QED
  BY <1>1, RolloutInvariant, PTL

(* The classifier drops nothing but under a guardrail that passes for the   *)
(* labels it was computed from, whatever was reloaded while Jev was asked.  *)
THEOREM DropsGuarded == Spec => DropsAreGuarded
<1>1. ASSUME IndInv, [Next]_vars
      PROVE  \A e \in Judged' \ Judged :
                verdict'[e].route = "DROP" =>
                    LET x == ContextOf(e)
                    IN  x.content.config.mode = "full" /\ GuardrailOK(x.content.config, x.labels)
  <2> SUFFICES ASSUME NEW e \in Judged' \ Judged, verdict'[e].route = "DROP"
               PROVE  /\ ContextOf(e).content.config.mode = "full"
                      /\ GuardrailOK(ContextOf(e).content.config, ContextOf(e).labels)
    OBVIOUS
  <2> DEFINE x == ContextOf(e)
  <2>1. PICK outcome \in Outcome, repeats \in BOOLEAN :
            /\ stage[e] = "thinking"
            /\ verdict'[e] = Record(e, outcome, repeats, x)
            /\ ~Deterministic(kind[e], x.content.config)
    BY <1>1, JudgedStep DEF DecideAfterJev
  <2>2. x \in Context /\ Sound(x)
    <3>1. e \in Event
      BY DEF Judged
    <3>2. ctx # Nothing /\ ctx \in Context
      BY <1>1, <2>1, <3>1 DEF IndInv, TypeOK, ContextInv
    <3>3. held[e] = Nothing \/ held[e] \in Context
      BY <1>1, <3>1 DEF IndInv, TypeOK
    <3> QED
      BY <1>1, <3>1, <3>2, <3>3 DEF IndInv, GuardInv, ContextOf
  <2>3. x.content.config.mode \in Mode
    BY <2>2 DEF Context, Content, Config
  <2>4. Effective(kind[e], outcome, x.content.config, repeats, x.ok) = "DROP"
    BY <2>1 DEF Record
  <2>5. x.content.config.mode = "full" /\ x.ok
    BY <2>1, <2>3, <2>4 DEF Effective, Gate, Mode
  <2> QED
    BY <2>2, <2>5 DEF Sound
<1> QED
  BY <1>1, RolloutInvariant, PTL DEF Spec, DropsAreGuarded
=============================================================================
