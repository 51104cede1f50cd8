------------------------------- MODULE Policy -------------------------------
(***************************************************************************)
(* The route of an event as a function of what the rules and Jev say of it  *)
(* (policy.py; pipeline.py, decide).  Probabilities and thresholds are      *)
(* numbers that are only compared.  The kind of an event stands for all     *)
(* that the rules of a configuration look at: source, entity, tags,         *)
(* fingerprint, text, priority.                                            *)
(***************************************************************************)
EXTENDS Integers

CONSTANTS
    Kind,          \* kinds of event
    HighPriority,  \* kinds with ntfy priority 4 or 5
    Health,        \* kinds of the bridge's own alerts
    NoAnswer       \* Jev failed, was blocked or has no stored answer

ASSUME PolicyAssumption == HighPriority \subseteq Kind /\ Health \subseteq Kind

Category == {"security", "data_integrity", "other"}
CriticalReview == {"security", "data_integrity"}

(* Answers without those that no threshold reads, and Thresholds without    *)
(* those that only word the reason of a DIGEST.                            *)
Answers ==
    [harm : Int, noise : Int, digest : Int, relevance : Int,
     category : Category, confidence : Int]

Thresholds ==
    [notify_harm : Int, review_harm : Int,
     notify_confidence : Int, notify_categories : SUBSET Category,
     drop_noise : Int, drop_max_harm : Int, drop_max_digest : Int, drop_max_relevance : Int]

Route == {"NOTIFY_NOW", "REVIEW", "DIGEST", "DROP"}
Mode == {"shadow", "guarded", "full"}

(* What a configuration says of routing.                                   *)
Config ==
    [mode : Mode, thresholds : [Kind -> Thresholds],
     notifies : SUBSET Kind, drops : SUBSET Kind,
     local : SUBSET Kind, fallback : {"auto", "review", "digest"}]

-----------------------------------------------------------------------------
Notifies(a, t) ==
    \/ a.harm >= t.notify_harm
    \/ a.category \in t.notify_categories /\ a.confidence >= t.notify_confidence

(* Mutant: a comparison is the wrong way round.                            *)
IsNoiseFlipped(a, t) ==
    /\ a.noise >= t.drop_noise
    /\ a.harm >= t.drop_max_harm
    /\ a.digest <= t.drop_max_digest
    /\ a.relevance <= t.drop_max_relevance

IsNoise(a, t) ==
    /\ a.noise >= t.drop_noise
    /\ a.harm <= t.drop_max_harm
    /\ a.digest <= t.drop_max_digest
    /\ a.relevance <= t.drop_max_relevance

(* Mutant: noise is dropped before the category is looked at.              *)
NoiseFirst(a, t) ==
    IF Notifies(a, t) THEN "NOTIFY_NOW"
    ELSE IF IsNoise(a, t) THEN "DROP"
    ELSE IF a.category \in CriticalReview \/ a.harm >= t.review_harm THEN "REVIEW"
    ELSE "DIGEST"

RouteFromAnswers(a, t) ==
    IF Notifies(a, t) THEN "NOTIFY_NOW"
    ELSE IF a.category \in CriticalReview THEN "REVIEW"
    ELSE IF IsNoise(a, t) THEN "DROP"
    ELSE IF a.harm >= t.review_harm THEN "REVIEW"
    ELSE "DIGEST"

FallbackRoute(k, c) ==
    IF c.fallback = "review" \/ (c.fallback = "auto" /\ k \in HighPriority)
      THEN "REVIEW" ELSE "DIGEST"

(* DeterministicPolicy.evaluate: drops are checked first.                  *)
Deterministic(k, c) == k \in c.drops \/ k \in Health \/ k \in c.notifies

RuleRoute(k, c) == IF k \in c.drops THEN "DROP" ELSE "NOTIFY_NOW"

AsksJev(k, c) == ~Deterministic(k, c) /\ k \notin c.local

(* The route before cooldown and gate.                                     *)
Suggested(k, outcome, c) ==
    IF Deterministic(k, c) THEN RuleRoute(k, c)
    ELSE IF AsksJev(k, c) /\ outcome # NoAnswer
      THEN RouteFromAnswers(outcome, c.thresholds[k])
    ELSE FallbackRoute(k, c)

(* _apply_cooldown, when an identical event was sent; rule "bridge_health"  *)
(* is exempt.                                                              *)
Cooled(route, k, c, repeats) ==
    /\ repeats /\ route \in {"NOTIFY_NOW", "REVIEW"}
    /\ ~(k \in Health /\ k \notin c.drops)

Proposed(k, outcome, c, repeats) ==
    LET route == Suggested(k, outcome, c)
    IN  IF Cooled(route, k, c, repeats) THEN "DIGEST" ELSE route

Gate(proposed, mode, deterministic, dropAllowed) ==
    IF mode = "shadow" THEN "SHADOW"
    ELSE IF deterministic THEN proposed
    ELSE IF proposed = "DROP" /\ (mode = "guarded" \/ ~dropAllowed) THEN "DIGEST"
    ELSE IF proposed = "NOTIFY_NOW" /\ mode = "guarded" THEN "REVIEW"
    ELSE proposed

Effective(k, outcome, c, repeats, dropAllowed) ==
    Gate(Proposed(k, outcome, c, repeats), c.mode, Deterministic(k, c), dropAllowed)

-----------------------------------------------------------------------------
(* How much a route demands of the operator.                               *)
Urgency(route) ==
    IF route = "NOTIFY_NOW" THEN 3
    ELSE IF route = "REVIEW" THEN 2
    ELSE IF route = "DIGEST" THEN 1
    ELSE 0

(* b is at least as alarming as a: same category, no answer points less to  *)
(* the operator.                                                           *)
AtLeastAsAlarming(b, a) ==
    /\ b.category = a.category
    /\ b.harm >= a.harm /\ b.confidence >= a.confidence
    /\ b.digest >= a.digest /\ b.relevance >= a.relevance
    /\ b.noise <= a.noise
=============================================================================
