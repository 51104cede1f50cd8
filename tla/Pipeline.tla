------------------------------ MODULE Pipeline ------------------------------
(***************************************************************************)
(* What the classification of an event knows of earlier events               *)
(* (pipeline.py, the claims of store.py and the workers of daemon.py): the  *)
(* repeat bucket that is shown to the classifier, and the cooldown that     *)
(* keeps identical events from reaching Hermes again.  Both read a history  *)
(* that other workers are still writing.                                   *)
(*                                                                         *)
(* Events are numbered in the order of their arrival.  A route is reduced   *)
(* to whether it reaches Hermes (NOTIFY_NOW, REVIEW) or not.                *)
(***************************************************************************)
EXTENDS Integers, FiniteSets

CONSTANTS
    N,                    \* events that arrive
    MaxTime,              \* bound on received_at
    Fingerprint,          \* fingerprints
    Workers,              \* bridge.workers
    Cooldown,             \* policy.cooldown_seconds
    DedupeWindow,         \* policy.dedupe_window_seconds
    FlapWindow,           \* policy.flap_window_seconds
    MinTransitions,       \* policy.flap_min_transitions
    MaxProcessAttempts,   \* MAX_PROCESS_ATTEMPTS
    MaxStranded,          \* bound on the events that are stranded
    Faults                \* faults considered: "crash", "fail"

ASSUME PipelineAssumption ==
    /\ N \in Nat /\ MaxTime \in Nat
    /\ Workers \in Nat \ {0}
    /\ Cooldown \in Nat /\ DedupeWindow \in Nat /\ FlapWindow \in Nat
    /\ MinTransitions \in Nat /\ MaxStranded \in Nat
    /\ MaxProcessAttempts \in Nat \ {0}

VARIABLES
    at,        \* events.received_at; 0 before arrival
    fp,        \* fingerprint of the canonical event
    path,      \* how it is decided: "health", "local" without Jev, or "jev"
    stage,     \* one of Stage; "claimed", "thinking" and "stranded" are processing
    bucket,    \* repeat_bucket of the canonical event
    route,     \* events.route: "hermes", "other"; "none" before the decision
    tries,     \* events.attempts
    stranded   \* history variable: events that were ever stranded

vars == <<at, fp, path, stage, bucket, route, tries, stranded>>

Event == 1 .. N
Path == {"health", "local", "jev"}
Stage ==
    {"absent", "received", "claimed", "thinking", "stranded", "decided", "quarantined"}

In(s) == {e \in Event : stage[e] = s}
Busy == In("claimed") \cup In("thinking")

-----------------------------------------------------------------------------
(* History                                                                 *)

(* Events known before e that arrived at most w before it.                 *)
Earlier(known, e, w) == {p \in known : p < e /\ at[p] >= at[e] - w}

(* _oscillations: transitions back to a fingerprint seen earlier.          *)
Returns(H) ==
    {q \in H : \E r, p \in H :
        /\ r < p /\ p < q /\ \A s \in H : s <= p \/ q <= s
        /\ fp[p] # fp[q] /\ fp[r] = fp[q]}

RepeatBucket(known, e) ==
    IF FlapWindow # 0
       /\ Cardinality(Returns(Earlier(known, e, FlapWindow) \cup {e})) >= MinTransitions - 1
      THEN "flapping"
    ELSE IF DedupeWindow # 0 /\ \E p \in Earlier(known, e, DedupeWindow) : fp[p] = fp[e]
      THEN "repeated"
    ELSE "first"

(* Mutant: the events in flight are not looked at.                         *)
KnownCommitted == In("decided")

(* What the table and _inflight know: a fingerprint is stored by the        *)
(* commit, and kept in memory from the first step of the task until then.   *)
Known == In("decided") \cup In("thinking")

(* recent_hermes_event: identical events that arrived before e and whose    *)
(* committed route reaches Hermes.                                         *)
Priors(e) ==
    {p \in Earlier(In("decided"), e, Cooldown) : fp[p] = fp[e] /\ route[p] = "hermes"}

Cools(e, proposed) ==
    Cooldown # 0 /\ proposed = "hermes" /\ path[e] # "health" /\ Priors(e) # {}

-----------------------------------------------------------------------------
(* Two arrivals never have the same time: one transaction lies between.    *)
(* Times are counted from the first arrival.                               *)
Ingest(e, t) ==
    /\ stage[e] = "absent" /\ (e = 1 => t = 1)
    /\ \A p \in Event : p < e => stage[p] # "absent" /\ at[p] < t
    /\ at' = [at EXCEPT ![e] = t]
    /\ stage' = [stage EXCEPT ![e] = "received"]
    /\ UNCHANGED <<fp, path, bucket, route, tries, stranded>>

(* Mutant: the youngest received events are claimed.                       *)
YoungestFirst(S) == \A e \in S, p \in In("received") \ S : p < e

OldestFirst(S) == \A e \in S, p \in In("received") \ S : e < p

(* process_loop claims the oldest received events for its free workers; it  *)
(* comes back to its claim only after the tasks it created have begun.     *)
Claim(S) ==
    LET free == Workers - Cardinality(Busy)
    IN  /\ In("claimed") = {}
        /\ S # {} /\ S \subseteq In("received") /\ OldestFirst(S)
        /\ Cardinality(S) <= free
        /\ S = In("received") \/ Cardinality(S) = free
        /\ stage' = [e \in Event |-> IF e \in S THEN "claimed" ELSE stage[e]]
        /\ UNCHANGED <<at, fp, path, bucket, route, tries, stranded>>

(* Tasks created together take their first step in the order of creation.  *)
Begins(e) == stage[e] = "claimed" /\ \A p \in In("claimed") : e <= p

(* The canonical event cannot be built: it is quarantined at once.         *)
Malformed(e) ==
    /\ Begins(e)
    /\ stage' = [stage EXCEPT ![e] = "quarantined"]
    /\ UNCHANGED <<at, fp, path, bucket, route, tries, stranded>>

(* The first step of a task that awaits Jev.                               *)
Think(e) ==
    /\ Begins(e) /\ path[e] = "jev"
    /\ bucket' = [bucket EXCEPT ![e] = RepeatBucket(Known, e)]
    /\ stage' = [stage EXCEPT ![e] = "thinking"]
    /\ UNCHANGED <<at, fp, path, route, tries, stranded>>

(* decide after its await, and commit: no other task runs in between.       *)
Commit(e, proposed) ==
    LET effective == IF Cools(e, proposed) THEN "other" ELSE proposed
    IN  /\ route' = [route EXCEPT ![e] = effective]
        /\ stage' = [stage EXCEPT ![e] = "decided"]
        /\ UNCHANGED <<at, fp, path, tries, stranded>>

(* A rule, a local-only source or no Jev client: decided without an await.  *)
DecideAtOnce(e, proposed) ==
    /\ Begins(e) /\ path[e] # "jev"
    /\ bucket' = [bucket EXCEPT ![e] = RepeatBucket(Known, e)]
    /\ Commit(e, proposed)

DecideAfterJev(e, proposed) ==
    /\ stage[e] = "thinking"
    /\ UNCHANGED bucket
    /\ Commit(e, proposed)

Released(n) == IF n >= MaxProcessAttempts THEN "quarantined" ELSE "received"

(* The task of e is where an exception may end it.                          *)
Runs(e) == Begins(e) \/ stage[e] = "thinking"

(* Any other exception: back to the inbox, or out of it.                   *)
Fail(e) ==
    /\ "fail" \in Faults
    /\ Runs(e)
    /\ tries' = [tries EXCEPT ![e] = @ + 1]
    /\ stage' = [stage EXCEPT ![e] = Released(tries[e] + 1)]
    /\ bucket' = [bucket EXCEPT ![e] = "none"]
    /\ UNCHANGED <<at, fp, path, route, stranded>>

(* release_failed raises too: the event keeps its status processing and its *)
(* attempts, but its task is over, so it holds no worker and is unknown to  *)
(* the others until the next start.                                        *)
Strand(e) ==
    /\ Runs(e) /\ Cardinality(stranded \cup {e}) <= MaxStranded
    /\ stage' = [stage EXCEPT ![e] = "stranded"]
    /\ bucket' = [bucket EXCEPT ![e] = "none"]
    /\ stranded' = stranded \cup {e}
    /\ UNCHANGED <<at, fp, path, route, tries>>

(* The daemon crashes and starts again: reset_processing.                  *)
Restart ==
    LET processing == Busy \cup In("stranded")
    IN  /\ "crash" \in Faults
        /\ processing # {}
        /\ stage' = [e \in Event |-> IF e \in processing THEN "received" ELSE stage[e]]
        /\ bucket' = [e \in Event |-> IF e \in processing THEN "none" ELSE bucket[e]]
        /\ UNCHANGED <<at, fp, path, route, tries, stranded>>

-----------------------------------------------------------------------------
Init ==
    /\ at = [e \in Event |-> 0]
    /\ fp \in [Event -> Fingerprint]
    /\ path \in [Event -> Path]
    /\ stage = [e \in Event |-> "absent"]
    /\ bucket = [e \in Event |-> "none"]
    /\ route = [e \in Event |-> "none"]
    /\ tries = [e \in Event |-> 0]
    /\ stranded = {}

Next ==
    \/ \E e \in Event, t \in 1 .. MaxTime : Ingest(e, t)
    \/ \E S \in SUBSET Event : Claim(S)
    \/ \E e \in Event : Malformed(e) \/ Think(e) \/ Fail(e) \/ Strand(e)
    \/ \E e \in Event, proposed \in {"hermes", "other"} :
          DecideAtOnce(e, proposed) \/ DecideAfterJev(e, proposed)
    \/ Restart

Spec == Init /\ [][Next]_vars

-----------------------------------------------------------------------------
TypeOK ==
    /\ at \in [Event -> 0 .. MaxTime]
    /\ fp \in [Event -> Fingerprint]
    /\ path \in [Event -> Path]
    /\ stage \in [Event -> Stage]
    /\ bucket \in [Event -> {"none", "first", "repeated", "flapping"}]
    /\ route \in [Event -> {"none", "hermes", "other"}]
    /\ tries \in [Event -> 0 .. MaxProcessAttempts]
    /\ stranded \in SUBSET Event

(* The processing of p ended in an exception before, counted or not.       *)
Failed(p) == tries[p] > 0 \/ p \in stranded

(* Identical events, the younger not exempt, within one cooldown.          *)
Repeats(p, e) ==
    /\ p < e /\ fp[p] = fp[e] /\ at[p] >= at[e] - Cooldown
    /\ path[e] # "health"

Sent == {e \in Event : route[e] = "hermes"}

(* However the workers interleave, fail and restart, of identical events    *)
(* within one cooldown at most as many reach Hermes as there are workers,   *)
(* and besides them only events that were stranded (claim_received's order  *)
(* and _apply_cooldown together; a stranded event is decided after younger  *)
(* ones, which its cooldown does not look at).                             *)
Chain(S) == S \subseteq Sent /\ \A p, e \in S : p < e => Repeats(p, e)

SentIsBounded ==
    Cooldown # 0 => \A S \in SUBSET Event : Chain(S) => Cardinality(S \ stranded) <= Workers

(* Why: events not yet decided nor ever stranded that arrived up to b.      *)
Open(b) == {p \in (In("received") \cup Busy) \ stranded : p <= b}

(* Arrival leaves no gaps, only decided events have a route, and when an    *)
(* event is taken every older one that is still open is taken with it.      *)
WorkInv ==
    /\ \A e \in Event : stage[e] # "quarantined" => tries[e] < MaxProcessAttempts
    /\ \A p, e \in Event : p < e /\ stage[e] # "absent" => stage[p] # "absent"
    /\ \A e \in Event : route[e] # "none" => stage[e] = "decided"
    /\ In("stranded") \subseteq stranded
    /\ Cardinality(stranded) <= MaxStranded
    /\ Cardinality(Busy) <= Workers
    /\ \A m \in Busy : Cardinality(Open(m)) <= Workers

(* A chain grows from its youngest member down, and only by events that     *)
(* were open when that one was taken.                                      *)
ChainInv ==
    Cooldown # 0 =>
        \A S \in SUBSET (Event \ stranded), b \in Event :
            S # {} /\ Chain(S) /\ (\A e \in S : b <= e) => Cardinality(S \cup Open(b)) <= Workers

(* The bucket that was shown to the classifier is the one a replay computes *)
(* once the earlier events are decided (canonical: "with history as of its  *)
(* arrival"), whatever was in flight at the time, crashes included, unless  *)
(* the processing of an earlier event failed.                              *)
ReplayAgrees ==
    \A e \in In("decided") :
        (\A p \in Event : p < e => stage[p] = "decided" /\ ~Failed(p))
            => bucket[e] = RepeatBucket(In("decided"), e)

(* An event is only called first when no identical one arrived before it in *)
(* the window, except one whose own processing failed or is quarantined.   *)
FirstIsFirst ==
    \A p, e \in Event :
        /\ bucket[e] = "first" /\ DedupeWindow # 0
        /\ p \in Earlier(Event, e, DedupeWindow) /\ fp[p] = fp[e]
        => Failed(p) \/ stage[p] = "quarantined"

(* Why: when an event is taken, an older one is in the inbox only because   *)
(* its processing failed, so the history that an event is judged by is      *)
(* complete but for failures.                                              *)
HistoryInv ==
    /\ \A e \in Event : bucket[e] # "none" <=> stage[e] \in {"thinking", "decided"}
    /\ \A p, e \in Event :
          p < e /\ e \in Busy /\ stage[p] = "received" => Failed(p)
    /\ \A e \in Event :
          /\ bucket[e] # "none"
          /\ \A p \in Event : p < e => ~Failed(p) /\ stage[p] # "quarantined"
          => bucket[e] = RepeatBucket(Event, e)
    /\ FirstIsFirst

IndInv == TypeOK /\ WorkInv /\ ChainInv /\ HistoryInv

(* An identical event that was already sent to Hermes within the cooldown   *)
(* keeps the next decision from going there (README: "if an identical       *)
(* fingerprint was already sent to Hermes within cooldown_seconds, the event *)
(* goes to DIGEST instead").                                               *)
CooldownHonoured ==
    [][\A e \in Event, p \in Sent :
          (Repeats(p, e) \/ Repeats(e, p)) /\ path[e] # "health" /\ Cooldown # 0
             => e \in Sent \/ route'[e] # "hermes"]_vars
=============================================================================
