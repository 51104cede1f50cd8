--------------------------- MODULE PipelineProofs ---------------------------
(* Proofs that the cooldown lets at most as many identical events through    *)
(* as there are workers, and besides them only stranded ones, that it is     *)
(* kept with a single worker when none is stranded, and that the history    *)
(* shown to the classifier is the one a replay computes, for every number   *)
(* of events, fingerprints and workers and whatever fails or restarts in    *)
(* between.                                                                *)
EXTENDS Pipeline, FiniteSetTheorems, TLAPS

(* Sets of events are finite, and smaller ones have smaller cardinalities.  *)
LEMMA EventSets ==
    ASSUME NEW T \in SUBSET Event, NEW S \in SUBSET T
    PROVE  /\ Cardinality(S) \in Nat /\ Cardinality(T) \in Nat
           /\ Cardinality(S) <= Cardinality(T)
           /\ IsFiniteSet(S) /\ IsFiniteSet(T)
<1>1. IsFiniteSet(Event)
  BY FS_Interval, PipelineAssumption DEF Event
<1>2. IsFiniteSet(T)
  BY <1>1, FS_Subset
<1>3. IsFiniteSet(S) /\ Cardinality(S) <= Cardinality(T)
  BY <1>2, FS_Subset
<1> QED
  BY <1>2, <1>3, FS_CardinalityType

(* Init establishes the invariant.                                          *)
LEMMA InitInd == Init => IndInv
<1> SUFFICES ASSUME Init PROVE IndInv
  OBVIOUS
<1>1. TypeOK
  BY PipelineAssumption DEF Init, TypeOK, Stage
<1>2. Busy = {} /\ Sent = {}
  BY DEF Init, Busy, In, Sent
<1>3. WorkInv
  <2>1. Cardinality({}) = 0
    BY FS_EmptySet
  <2>2. In("stranded") = {} /\ stranded = {}
    BY DEF Init, In
  <2> QED
    BY <1>2, <2>1, <2>2, PipelineAssumption DEF Init, WorkInv
<1>4. ChainInv
  BY <1>2 DEF ChainInv, Chain
<1>5. HistoryInv
  BY <1>2 DEF HistoryInv, FirstIsFirst, Init
<1> QED
  BY <1>1, <1>3, <1>4, <1>5 DEF IndInv

(* Every step keeps the types.                                              *)
LEMMA TypeStep ==
    ASSUME TypeOK, WorkInv, [Next]_vars
    PROVE  TypeOK'
<1> USE PipelineAssumption DEF TypeOK, Stage
<1>1. ASSUME NEW e \in Event, NEW t \in 1 .. MaxTime, Ingest(e, t)
      PROVE  TypeOK'
  BY <1>1 DEF Ingest
<1>2. ASSUME NEW S \in SUBSET Event, Claim(S)
      PROVE  TypeOK'
  BY <1>2 DEF Claim
<1>3. ASSUME NEW e \in Event, Malformed(e) \/ Think(e)
      PROVE  TypeOK'
  BY <1>3 DEF Malformed, Think, RepeatBucket
<1>4. ASSUME NEW e \in Event, Fail(e)
      PROVE  TypeOK'
  <2>1. stage[e] \in {"claimed", "thinking"} /\ tries[e] < MaxProcessAttempts
    BY <1>4 DEF Fail, Runs, Begins, WorkInv
  <2>2. tries[e] + 1 \in 0 .. MaxProcessAttempts
    BY <2>1
  <2> QED
    BY <1>4, <2>2 DEF Fail, Released
<1>5. ASSUME NEW e \in Event, NEW proposed \in {"hermes", "other"},
             DecideAtOnce(e, proposed) \/ DecideAfterJev(e, proposed)
      PROVE  TypeOK'
  <2>1. bucket' \in [Event -> {"none", "first", "repeated", "flapping"}]
    BY <1>5 DEF DecideAtOnce, DecideAfterJev, RepeatBucket
  <2>2. Commit(e, proposed)
    BY <1>5 DEF DecideAtOnce, DecideAfterJev
  <2> QED
    BY <2>1, <2>2 DEF Commit
<1>6. ASSUME NEW e \in Event, Strand(e)
      PROVE  TypeOK'
  BY <1>6 DEF Strand
<1>7. ASSUME Restart PROVE TypeOK'
  BY <1>7 DEF Restart
<1>8. CASE UNCHANGED vars
  BY <1>8 DEF vars
<1> QED
  BY <1>1, <1>2, <1>3, <1>4, <1>5, <1>6, <1>7, <1>8 DEF Next

(* A step that takes no event, decides none for Hermes and lets none arrive *)
(* at most closes some: what bounds open events and chains stays true.      *)
LEMMA Closing ==
    ASSUME TypeOK, WorkInv, ChainInv,
           fp' = fp, at' = at, path' = path,
           Busy' \subseteq Busy,
           ((In("received") \cup Busy) \ stranded)' \subseteq (In("received") \cup Busy) \ stranded,
           stranded \subseteq stranded',
           Sent' = Sent
    PROVE  /\ Cardinality(Busy') <= Workers
           /\ \A m \in Busy' : Cardinality(Open(m)') <= Workers
           /\ ChainInv'
<1> USE PipelineAssumption
<1>1. Busy \subseteq Event /\ \A b : Open(b) \subseteq Event /\ Open(b)' \subseteq Open(b)
  BY DEF Busy, In, Open
<1>2. Cardinality(Busy') <= Workers
  <2>1. Cardinality(Busy') <= Cardinality(Busy) /\ Cardinality(Busy) \in Nat /\ Cardinality(Busy') \in Nat
    BY <1>1, EventSets
  <2> QED
    BY <2>1 DEF WorkInv
<1>3. ASSUME NEW m \in Busy' PROVE Cardinality(Open(m)') <= Workers
  <2>1. Cardinality(Open(m)') <= Cardinality(Open(m)) /\ Cardinality(Open(m)) \in Nat /\ Cardinality(Open(m)') \in Nat
    BY <1>1, EventSets
  <2>2. Cardinality(Open(m)) <= Workers
    BY DEF WorkInv
  <2> QED
    BY <2>1, <2>2
<1>4. ChainInv'
  <2> SUFFICES ASSUME Cooldown # 0, NEW S \in SUBSET (Event \ stranded'), NEW b \in Event,
                      S # {}, Chain(S)', \A e \in S : b <= e
               PROVE  Cardinality(S \cup Open(b)') <= Workers
    BY DEF ChainInv
  <2>1. Chain(S) /\ S \in SUBSET (Event \ stranded)
    BY DEF Chain, Repeats
  <2>2. Cardinality(S \cup Open(b)) <= Workers
    BY <2>1 DEF ChainInv
  <2>3. S \cup Open(b)' \subseteq S \cup Open(b) /\ S \cup Open(b) \subseteq Event
    BY <1>1
  <2>4. /\ Cardinality(S \cup Open(b)') <= Cardinality(S \cup Open(b))
        /\ Cardinality(S \cup Open(b)) \in Nat /\ Cardinality(S \cup Open(b)') \in Nat
    BY <2>3, EventSets
  <2> QED
    BY <2>2, <2>4
<1> QED
  BY <1>2, <1>3, <1>4

(* An arrival is younger than every event that was taken or decided.        *)
LEMMA IngestStep ==
    ASSUME TypeOK, WorkInv, ChainInv, NEW e \in Event, NEW t \in 1 .. MaxTime, Ingest(e, t)
    PROVE  WorkInv' /\ ChainInv'
<1> USE PipelineAssumption
<1>1. /\ stage[e] = "absent" /\ stage' = [stage EXCEPT ![e] = "received"]
      /\ UNCHANGED <<fp, path, route, tries, stranded>>
      /\ \A p \in Event : p < e => stage[p] # "absent" /\ at[p] < t
      /\ at' = [at EXCEPT ![e] = t]
  BY DEF Ingest
<1>2. Busy' = Busy /\ Sent' = Sent /\ Busy \subseteq Event
  BY <1>1 DEF Busy, In, Sent, TypeOK
<1>3. \A m \in Event : stage[m] # "absent" => m < e
  BY <1>1 DEF WorkInv, Event
<1>4. \A b \in Event : b < e => Open(b)' = Open(b)
  <2>1. In("received")' = In("received") \cup {e}
    BY <1>1 DEF In, TypeOK
  <2> SUFFICES ASSUME NEW b \in Event, b < e PROVE Open(b)' = Open(b)
    OBVIOUS
  <2>2. ~(e <= b)
    BY DEF Event
  <2>3. \A p : p \in ((In("received") \cup Busy) \ stranded)' /\ p <= b
                <=> p \in (In("received") \cup Busy) \ stranded /\ p <= b
    BY <2>1, <2>2, <1>1, <1>2
  <2> QED
    BY <2>3 DEF Open
<1>5. \A p \in Event : stage[p] # "absent" => at'[p] = at[p]
  BY <1>1 DEF TypeOK
<1>6. WorkInv'
  <2>1. ASSUME NEW m \in Busy' PROVE Cardinality(Open(m)') <= Workers
    <3>1. m \in Event /\ stage[m] # "absent" /\ m \in Busy
      BY <1>2 DEF Busy, In
    <3>2. Open(m)' = Open(m)
      BY <3>1, <1>3, <1>4
    <3> QED
      BY <3>1, <3>2 DEF WorkInv
  <2>2. Cardinality(Busy') <= Workers
    BY <1>2 DEF WorkInv
  <2>3. \A p, q \in Event : p < q /\ stage'[q] # "absent" => stage'[p] # "absent"
    BY <1>1 DEF WorkInv, TypeOK
  <2>4. /\ \A q \in Event : stage'[q] # "quarantined" => tries'[q] < MaxProcessAttempts
        /\ \A q \in Event : route'[q] # "none" => stage'[q] = "decided"
        /\ In("stranded")' \subseteq stranded' /\ Cardinality(stranded') <= MaxStranded
    BY <1>1 DEF WorkInv, TypeOK, In
  <2> QED
    BY <2>1, <2>2, <2>3, <2>4 DEF WorkInv
<1>7. ChainInv'
  <2> SUFFICES ASSUME Cooldown # 0, NEW S \in SUBSET (Event \ stranded), NEW b \in Event,
                      S # {}, Chain(S)', \A q \in S : b <= q
               PROVE  Cardinality(S \cup Open(b)') <= Workers
    BY <1>1 DEF ChainInv
  <2>1. S \subseteq Sent /\ \A q \in S : stage[q] # "absent"
    BY <1>2 DEF Chain, Sent, WorkInv
  <2>2. Chain(S)
    BY <2>1, <1>1, <1>5 DEF Chain, Repeats
  <2>3. b < e
    <3>1. PICK q \in S : b <= q /\ q < e
      BY <2>1, <1>3
    <3> QED
      BY <3>1 DEF Event
  <2> QED
    BY <2>2, <2>3, <1>4 DEF ChainInv
<1> QED
  BY <1>6, <1>7

(* A claim takes every open event up to the youngest it takes.              *)
LEMMA ClaimStep ==
    ASSUME TypeOK, WorkInv, ChainInv, NEW S \in SUBSET Event, Claim(S)
    PROVE  WorkInv' /\ ChainInv'
<1> USE PipelineAssumption
<1>1. /\ S \subseteq In("received") /\ OldestFirst(S)
      /\ Cardinality(S) <= Workers - Cardinality(Busy)
      /\ stage' = [e \in Event |-> IF e \in S THEN "claimed" ELSE stage[e]]
      /\ UNCHANGED <<at, fp, path, route, tries, stranded>>
  BY DEF Claim
<1>2. Busy' = Busy \cup S /\ Busy \subseteq Event /\ Sent' = Sent
  BY <1>1 DEF Busy, In, Sent, TypeOK
<1>3. \A b : Open(b)' = Open(b)
  BY <1>1 DEF Open, Busy, In, TypeOK
<1>4. Cardinality(Busy \cup S) <= Workers
  <2>1. IsFiniteSet(S) /\ IsFiniteSet(Busy) /\ Cardinality(S) \in Nat /\ Cardinality(Busy) \in Nat
    BY <1>2, EventSets
  <2>2. Cardinality(Busy \cup S) = Cardinality(Busy) + Cardinality(S) - Cardinality(Busy \cap S)
    BY <2>1, FS_Union
  <2>3. Cardinality(Busy \cap S) \in Nat
    BY <1>2, EventSets
  <2>4. Cardinality(Busy \cup S) \in Nat
    BY <1>2, EventSets
  <2> QED
    BY <1>1, <2>1, <2>2, <2>3, <2>4
<1>5. ASSUME NEW m \in Busy' PROVE Cardinality(Open(m)') <= Workers
  <2>1. CASE m \in Busy
    BY <2>1, <1>3 DEF WorkInv
  <2>2. CASE m \in S
    <3>1. Open(m) \subseteq Busy \cup S
      BY <1>1, <2>2 DEF Open, OldestFirst, In, Event
    <3>2. /\ Cardinality(Open(m)) <= Cardinality(Busy \cup S)
          /\ Cardinality(Open(m)) \in Nat /\ Cardinality(Busy \cup S) \in Nat
      BY <3>1, <1>2, EventSets
    <3> QED
      BY <3>2, <1>3, <1>4
  <2> QED
    BY <1>2, <2>1, <2>2
<1>6. WorkInv'
  <2>1. /\ \A q \in Event : stage'[q] # "quarantined" => tries'[q] < MaxProcessAttempts
        /\ \A p, q \in Event : p < q /\ stage'[q] # "absent" => stage'[p] # "absent"
        /\ \A q \in Event : route'[q] # "none" => stage'[q] = "decided"
        /\ In("stranded")' \subseteq stranded' /\ Cardinality(stranded') <= MaxStranded
    BY <1>1 DEF WorkInv, TypeOK, In
  <2> QED
    BY <2>1, <1>2, <1>4, <1>5 DEF WorkInv
<1>7. ChainInv'
  BY <1>1, <1>2, <1>3 DEF ChainInv, Chain, Repeats
<1> QED
  BY <1>6, <1>7

(* A decision for Hermes joins a chain only from below, and was open when   *)
(* the members of the chain were taken.                                     *)
LEMMA CommitStep ==
    ASSUME TypeOK, WorkInv, ChainInv, NEW e \in Busy, NEW proposed \in {"hermes", "other"},
           Commit(e, proposed)
    PROVE  WorkInv' /\ ChainInv'
<1> USE PipelineAssumption
<1>1. /\ stage' = [stage EXCEPT ![e] = "decided"]
      /\ route' = [route EXCEPT ![e] = IF Cools(e, proposed) THEN "other" ELSE proposed]
      /\ UNCHANGED <<at, fp, path, tries, stranded>>
      /\ e \in Event /\ stage[e] \in {"claimed", "thinking"} /\ route[e] = "none"
  BY DEF Commit, Busy, In, WorkInv, TypeOK
<1>2. Busy' = Busy \ {e} /\ In("received")' = In("received") /\ Busy \subseteq Event
  BY <1>1 DEF Busy, In, TypeOK
<1>3. /\ \A q \in Event : stage'[q] # "quarantined" => tries'[q] < MaxProcessAttempts
      /\ \A p, q \in Event : p < q /\ stage'[q] # "absent" => stage'[p] # "absent"
      /\ \A q \in Event : route'[q] # "none" => stage'[q] = "decided"
      /\ In("stranded")' \subseteq stranded' /\ Cardinality(stranded') <= MaxStranded
  BY <1>1 DEF WorkInv, TypeOK, In
<1>4. \A b \in Event : Open(b)' = Open(b) \ {e} /\ Open(b) \subseteq Event
  BY <1>1, <1>2 DEF Open, Busy, In
<1>5. CASE route'[e] # "hermes"
  <2>1. Sent' = Sent
    BY <1>1, <1>5 DEF Sent, TypeOK
  <2>2. /\ Busy' \subseteq Busy
        /\ ((In("received") \cup Busy) \ stranded)' \subseteq (In("received") \cup Busy) \ stranded
    BY <1>1, <1>2
  <2>3. /\ Cardinality(Busy') <= Workers
        /\ \A m \in Busy' : Cardinality(Open(m)') <= Workers
        /\ ChainInv'
    BY <1>1, <2>1, <2>2, Closing
  <2> QED
    BY <1>3, <2>3 DEF WorkInv
<1>6. CASE route'[e] = "hermes"
  <2>1. proposed = "hermes" /\ ~Cools(e, proposed) /\ Sent' = Sent \cup {e}
    BY <1>1, <1>6 DEF Sent, TypeOK
  <2>2. Cardinality(Busy') <= Workers
    <3>1. Cardinality(Busy') <= Cardinality(Busy) /\ Cardinality(Busy) \in Nat /\ Cardinality(Busy') \in Nat
      BY <1>2, EventSets
    <3> QED
      BY <3>1 DEF WorkInv
  <2>3. ASSUME NEW m \in Busy' PROVE Cardinality(Open(m)') <= Workers
    <3>1. m \in Busy /\ m \in Event
      BY <1>2
    <3>2. /\ Cardinality(Open(m)') <= Cardinality(Open(m))
          /\ Cardinality(Open(m)) \in Nat /\ Cardinality(Open(m)') \in Nat
      BY <3>1, <1>4, EventSets
    <3>3. Cardinality(Open(m)) <= Workers
      BY <3>1 DEF WorkInv
    <3> QED
      BY <3>2, <3>3
  <2>4. ChainInv'
    <3> SUFFICES ASSUME Cooldown # 0, NEW T \in SUBSET (Event \ stranded), NEW b \in Event,
                        T # {}, Chain(T)', \A q \in T : b <= q
                 PROVE  Cardinality(T \cup Open(b)') <= Workers
      BY <1>1 DEF ChainInv
    <3> DEFINE S == T \ {e}
    <3>1. Chain(S) /\ S \subseteq Event /\ S \in SUBSET (Event \ stranded)
      BY <1>1, <2>1 DEF Chain, Repeats
    <3>2. CASE e \notin T
      <4>1. S = T /\ Cardinality(S \cup Open(b)) <= Workers
        BY <3>1, <3>2 DEF ChainInv
      <4>2. /\ Cardinality(T \cup Open(b)') <= Cardinality(S \cup Open(b))
            /\ Cardinality(S \cup Open(b)) \in Nat /\ Cardinality(T \cup Open(b)') \in Nat
        BY <4>1, <1>4, EventSets
      <4> QED
        BY <4>1, <4>2
    <3>3. CASE e \in T
      <4>1. \A p \in S : e <= p
        <5> SUFFICES ASSUME NEW p \in S, p < e PROVE FALSE
          BY <1>1, <3>1 DEF Event
        <5>1. p \in Sent /\ p \in Event /\ stage[p] = "decided" /\ Repeats(p, e)'
          BY <3>1, <3>3 DEF Chain, Sent, WorkInv
        <5>2. p \in Priors(e) /\ path[e] # "health"
          BY <5>1, <1>1 DEF Priors, Earlier, In, Sent, Repeats
        <5> QED
          BY <5>2, <2>1 DEF Cools
      <4>2. b <= e /\ e \in Open(e) /\ Open(b) \subseteq Open(e) /\ Open(e) \subseteq Event
        BY <3>3, <1>1, <1>4 DEF Open, Busy, In, Event
      <4>3. Cardinality(S \cup Open(e)) <= Workers
        <5>1. CASE S = {}
          <6>1. S \cup Open(e) = Open(e)
            BY <5>1
          <6> QED
            BY <6>1 DEF WorkInv
        <5>2. CASE S # {}
          BY <5>2, <4>1, <3>1, <1>1 DEF ChainInv
        <5> QED
          BY <5>1, <5>2
      <4>4. T \cup Open(b)' \subseteq S \cup Open(e) /\ S \cup Open(e) \subseteq Event
        BY <4>2, <1>4, <3>1
      <4>5. /\ Cardinality(T \cup Open(b)') <= Cardinality(S \cup Open(e))
            /\ Cardinality(S \cup Open(e)) \in Nat /\ Cardinality(T \cup Open(b)') \in Nat
        BY <4>4, EventSets
      <4> QED
        BY <4>3, <4>5
    <3> QED
      BY <3>2, <3>3
  <2> QED
    BY <1>3, <2>2, <2>3, <2>4 DEF WorkInv
<1> QED
  BY <1>5, <1>6

(* Steps that only take the event of one task out of work, or none, or put  *)
(* stranded ones back.                                                      *)
LEMMA ClosingStep ==
    ASSUME TypeOK, WorkInv, ChainInv,
           \/ \E e \in Event : Malformed(e) \/ Think(e) \/ Fail(e) \/ Strand(e)
           \/ Restart
           \/ UNCHANGED vars
    PROVE  WorkInv' /\ ChainInv'
<1> USE PipelineAssumption
<1>1. /\ UNCHANGED <<at, fp, path, route>> /\ stranded \subseteq stranded'
      /\ \A q \in Event :
            \/ stage'[q] = stage[q]
            \/ /\ stage[q] \in {"claimed", "thinking"}
               /\ stage'[q] \in {"quarantined", "thinking", "received"}
            \/ stage[q] \in {"claimed", "thinking"} /\ stage'[q] = "stranded" /\ q \in stranded'
            \/ stage[q] = "stranded" /\ stage'[q] = "received"
  BY DEF Malformed, Think, Fail, Strand, Restart, vars, Runs, Begins, TypeOK, Busy, In, Released
<1>2. \A q \in Event : stage'[q] # "quarantined" => tries'[q] < MaxProcessAttempts
  <2>1. ASSUME NEW e \in Event, Fail(e)
        PROVE  \A q \in Event : stage'[q] # "quarantined" => tries'[q] < MaxProcessAttempts
    BY <2>1 DEF Fail, Released, TypeOK, WorkInv
  <2>2. CASE tries' = tries
    BY <2>2, <1>1 DEF WorkInv
  <2> QED
    BY <2>1, <2>2 DEF Malformed, Think, Strand, Restart, vars
<1>3. Cardinality(stranded') <= MaxStranded
  BY DEF Malformed, Think, Fail, Strand, Restart, vars, WorkInv
<1>4. In("stranded") \subseteq stranded
  BY DEF WorkInv
<1>5. /\ Busy' \subseteq Busy /\ Sent' = Sent
      /\ ((In("received") \cup Busy) \ stranded)' \subseteq (In("received") \cup Busy) \ stranded
      /\ In("stranded")' \subseteq stranded'
  BY <1>1, <1>4 DEF Busy, In, Sent
<1>6. /\ Cardinality(Busy') <= Workers
      /\ \A m \in Busy' : Cardinality(Open(m)') <= Workers
      /\ ChainInv'
  BY <1>1, <1>5, Closing
<1>7. /\ \A p, q \in Event : p < q /\ stage'[q] # "absent" => stage'[p] # "absent"
      /\ \A q \in Event : route'[q] # "none" => stage'[q] = "decided"
  BY <1>1 DEF WorkInv
<1> QED
  BY <1>2, <1>3, <1>5, <1>6, <1>7 DEF WorkInv

(* Only what is known of earlier events makes up the bucket of an event.     *)
LEMMA BucketLocal ==
    ASSUME NEW K \in SUBSET Event, NEW e \in Event, \A p \in Event : p < e => p \in K
    PROVE  RepeatBucket(K, e) = RepeatBucket(Event, e)
<1>1. \A w : Earlier(K, e, w) = Earlier(Event, e, w)
  BY DEF Earlier
<1> QED
  BY <1>1 DEF RepeatBucket

(* An arrival changes nothing in the history of the events before it.        *)
LEMMA BucketKept ==
    ASSUME NEW e \in Event, fp' = fp, \A p \in Event : p <= e => at'[p] = at[p]
    PROVE  /\ RepeatBucket(Event, e)' = RepeatBucket(Event, e)
           /\ \A w : Earlier(Event, e, w)' = Earlier(Event, e, w)
<1>1. e <= e /\ \A p \in Event : p < e => p <= e
  BY DEF Event
<1>2. \A w : Earlier(Event, e, w)' = Earlier(Event, e, w)
  BY <1>1 DEF Earlier
<1>3. \A H : Returns(H)' = Returns(H)
  BY DEF Returns
<1>4. Returns(Earlier(Event, e, FlapWindow) \cup {e})' = Returns(Earlier(Event, e, FlapWindow) \cup {e})
  BY <1>2 DEF Returns
<1> QED
  BY <1>2, <1>4 DEF RepeatBucket

(* What HistoryInv says of the bucket of one event.                         *)
BucketGood(e) ==
    /\ /\ bucket[e] # "none"
       /\ \A p \in Event : p < e => ~Failed(p) /\ stage[p] # "quarantined"
       => bucket[e] = RepeatBucket(Event, e)
    /\ \A p \in Event :
          /\ bucket[e] = "first" /\ DedupeWindow # 0
          /\ p \in Earlier(Event, e, DedupeWindow) /\ fp[p] = fp[e]
          => Failed(p) \/ stage[p] = "quarantined"

(* A failure is never forgotten.                                            *)
FailuresStay ==
    \A p \in Event : /\ Failed(p) => Failed(p)'
                     /\ stage[p] = "quarantined" => stage'[p] = "quarantined"

(* A bucket that a step leaves alone stays as good as it was.               *)
LEMMA BucketStays ==
    ASSUME TypeOK, TypeOK', NEW e \in Event, BucketGood(e), FailuresStay, fp' = fp,
           bucket'[e] = "none" \/ (bucket'[e] = bucket[e] /\ \A p \in Event : p <= e => at'[p] = at[p])
    PROVE  BucketGood(e)'
<1> USE PipelineAssumption
<1>1. CASE bucket'[e] = "none"
  BY <1>1 DEF BucketGood
<1>2. CASE bucket'[e] = bucket[e] /\ \A p \in Event : p <= e => at'[p] = at[p]
  <2>1. /\ RepeatBucket(Event, e)' = RepeatBucket(Event, e)
        /\ \A w : Earlier(Event, e, w)' = Earlier(Event, e, w)
    BY <1>2, BucketKept
  <2>3. \A p \in Event : ~Failed(p)' /\ stage'[p] # "quarantined"
                           => ~Failed(p) /\ stage[p] # "quarantined"
    BY DEF FailuresStay
  <2>4. ASSUME bucket'[e] # "none",
               \A p \in Event : p < e => ~Failed(p)' /\ stage'[p] # "quarantined"
        PROVE  bucket'[e] = RepeatBucket(Event, e)'
    BY <1>2, <2>1, <2>3, <2>4 DEF BucketGood
  <2>5. ASSUME NEW p \in Event, bucket'[e] = "first", DedupeWindow # 0,
               p \in Earlier(Event, e, DedupeWindow)', fp'[p] = fp'[e]
        PROVE  Failed(p)' \/ stage'[p] = "quarantined"
    <3>1. p \in Earlier(Event, e, DedupeWindow)
      BY <2>1, <2>5
    <3> QED
      BY <1>2, <3>1, <2>5 DEF BucketGood, FailuresStay
  <2> QED
    BY <2>4, <2>5 DEF BucketGood
<1> QED
  BY <1>1, <1>2

(* The bucket a task computes in its first step is good: of the earlier      *)
(* events, only those that failed are unknown to it.                        *)
LEMMA BucketBegins ==
    ASSUME TypeOK, TypeOK', WorkInv, HistoryInv, NEW e \in Event, Begins(e), FailuresStay,
           fp' = fp, at' = at, bucket'[e] = RepeatBucket(Known, e), UNCHANGED <<tries, stranded>>,
           \A p \in Event : p # e => stage'[p] = stage[p]
    PROVE  BucketGood(e)'
<1> USE PipelineAssumption
<1>1. e \in Busy /\ stage[e] = "claimed"
  BY DEF Begins, Busy, In
<1>2. ASSUME NEW p \in Event, p < e
      PROVE  p \in Known \/ Failed(p) \/ stage[p] = "quarantined"
  <2>1. stage[p] # "absent"
    BY <1>1, <1>2 DEF WorkInv
  <2>2. stage[p] # "claimed"
    BY <1>2 DEF Begins, In, Event
  <2>3. stage[p] = "received" => Failed(p)
    BY <1>1, <1>2 DEF HistoryInv
  <2>4. stage[p] = "stranded" => Failed(p)
    BY DEF WorkInv, In, Failed
  <2> QED
    BY <2>1, <2>2, <2>3, <2>4 DEF TypeOK, Stage, Known, In
<1>3. Known \subseteq Event
  BY DEF Known, In
<1>4. /\ RepeatBucket(Event, e)' = RepeatBucket(Event, e)
      /\ \A w : Earlier(Event, e, w)' = Earlier(Event, e, w)
  BY BucketKept
<1>5. \A p \in Event : Failed(p)' <=> Failed(p)
  BY DEF Failed
<1>6. ASSUME \A p \in Event : p < e => ~Failed(p)' /\ stage'[p] # "quarantined"
      PROVE  bucket'[e] = RepeatBucket(Event, e)'
  <2>1. ASSUME NEW p \in Event, p < e PROVE p \in Known
    <3>1. ~Failed(p) /\ stage[p] # "quarantined"
      BY <1>5, <1>6, <2>1 DEF Event
    <3> QED
      BY <1>2, <2>1, <3>1
  <2> QED
    BY <1>3, <1>4, <2>1, BucketLocal
<1>7. ASSUME NEW p \in Event, bucket'[e] = "first", DedupeWindow # 0,
             p \in Earlier(Event, e, DedupeWindow)', fp'[p] = fp'[e]
      PROVE  Failed(p)' \/ stage'[p] = "quarantined"
  <2>1. p \in Earlier(Event, e, DedupeWindow) /\ p < e
    BY <1>4, <1>7 DEF Earlier
  <2>2. ~(p \in Earlier(Known, e, DedupeWindow))
    BY <1>7 DEF RepeatBucket
  <2>3. p \notin Known
    BY <2>1, <2>2 DEF Earlier
  <2>4. p # e
    BY <2>1 DEF Event
  <2> QED
    BY <1>2, <1>5, <2>1, <2>3, <2>4
<1> QED
  BY <1>6, <1>7 DEF BucketGood

(* A failed event may be overtaken and a bucket is given once: what an       *)
(* event is judged by stays complete.                                       *)
LEMMA HistoryStep ==
    ASSUME TypeOK, TypeOK', WorkInv, HistoryInv, [Next]_vars
    PROVE  HistoryInv'
<1> USE PipelineAssumption
<1> DEFINE Marks == \A e \in Event : bucket[e] # "none" <=> stage[e] \in {"thinking", "decided"}
           Taken == \A p, e \in Event : p < e /\ e \in Busy /\ stage[p] = "received" => Failed(p)
           Goal == Marks' /\ Taken' /\ \A q \in Event : BucketGood(q)'
<1>a. Marks /\ Taken /\ \A q \in Event : BucketGood(q)
  BY DEF HistoryInv, FirstIsFirst, BucketGood
<1>b. SUFFICES Goal
  BY DEF HistoryInv, FirstIsFirst, BucketGood
<1>c. \A q \in Event : tries[q] \in Nat /\ tries'[q] \in Nat
  BY DEF TypeOK
<1>1. ASSUME NEW i \in Event, NEW t \in 1 .. MaxTime, Ingest(i, t)
      PROVE  Goal
  <2>1. /\ stage[i] = "absent" /\ stage' = [stage EXCEPT ![i] = "received"]
        /\ at' = [at EXCEPT ![i] = t]
        /\ UNCHANGED <<fp, bucket, tries, stranded>>
    BY <1>1 DEF Ingest
  <2>2. FailuresStay
    BY <2>1 DEF FailuresStay, Failed, TypeOK
  <2>3. ASSUME NEW q \in Event PROVE BucketGood(q)'
    <3>1. bucket[q] # "none" => q < i
      <4>1. ASSUME bucket[q] # "none" PROVE q < i
        <5>1. stage[q] # "absent" /\ q # i
          BY <4>1, <1>a, <2>1
        <5>2. ~(i < q)
          BY <5>1, <2>1 DEF WorkInv
        <5> QED
          BY <5>1, <5>2 DEF Event
      <4> QED
        BY <4>1
    <3>2. q < i => \A p \in Event : p <= q => at'[p] = at[p]
      BY <2>1 DEF TypeOK, Event
    <3> QED
      BY <3>1, <3>2, <1>a, <2>1, <2>2, BucketStays
  <2>4. Marks'
    BY <1>a, <2>1 DEF TypeOK
  <2>5. Taken'
    <3> SUFFICES ASSUME NEW p \in Event, NEW e \in Event, p < e, e \in Busy', stage'[p] = "received"
                 PROVE  Failed(p)'
      OBVIOUS
    <3>1. e \in Busy /\ stage[e] # "absent"
      BY <2>1 DEF Busy, In, TypeOK
    <3>2. p # i
      BY <2>1, <3>1 DEF WorkInv
    <3>3. stage[p] = "received"
      BY <2>1, <3>2 DEF TypeOK
    <3> QED
      BY <3>1, <3>3, <1>a, <2>1 DEF Failed
  <2> QED
    BY <2>3, <2>4, <2>5
<1>2. ASSUME NEW S \in SUBSET Event, Claim(S)
      PROVE  Goal
  <2>1. /\ S \subseteq In("received") /\ OldestFirst(S)
        /\ stage' = [q \in Event |-> IF q \in S THEN "claimed" ELSE stage[q]]
        /\ UNCHANGED <<at, fp, bucket, tries, stranded>>
    BY <1>2 DEF Claim
  <2>2. FailuresStay
    BY <2>1 DEF FailuresStay, Failed, In
  <2>3. \A q \in Event : BucketGood(q)'
    BY <1>a, <2>1, <2>2, BucketStays
  <2>4. Marks'
    BY <1>a, <2>1 DEF In
  <2>5. Taken'
    <3> SUFFICES ASSUME NEW p \in Event, NEW e \in Event, p < e, e \in Busy', stage'[p] = "received"
                 PROVE  Failed(p)'
      OBVIOUS
    <3>1. stage[p] = "received" /\ p \notin S
      BY <2>1
    <3>2. e \in S \/ e \in Busy
      BY <2>1 DEF Busy, In
    <3>3. e \notin S
      BY <2>1, <3>1 DEF OldestFirst, In, Event
    <3> QED
      BY <3>1, <3>2, <3>3, <1>a, <2>1 DEF Failed
  <2> QED
    BY <2>3, <2>4, <2>5
<1>3. ASSUME NEW e \in Event, Begins(e), UNCHANGED <<fp, at, tries, stranded>>,
             bucket' = [bucket EXCEPT ![e] = RepeatBucket(Known, e)],
             NEW s \in {"thinking", "decided"}, stage' = [stage EXCEPT ![e] = s]
      PROVE  Goal
  <2>1. stage[e] = "claimed" /\ \A p \in Event : p # e => stage'[p] = stage[p] /\ bucket'[p] = bucket[p]
    BY <1>3 DEF Begins, TypeOK
  <2>2. FailuresStay
    BY <1>3, <2>1 DEF FailuresStay, Failed, TypeOK
  <2>3. bucket'[e] = RepeatBucket(Known, e) /\ bucket'[e] # "none" /\ stage'[e] = s
    BY <1>3 DEF TypeOK, RepeatBucket
  <2>4. BucketGood(e)'
    BY <1>3, <2>1, <2>2, <2>3, BucketBegins
  <2>5. \A q \in Event : q # e => BucketGood(q)'
    BY <1>3, <1>a, <2>1, <2>2, BucketStays
  <2>6. Marks'
    BY <1>a, <2>1, <2>3
  <2>7. Taken'
    BY <1>a, <1>3, <2>1, <2>3 DEF Busy, In, Failed
  <2> QED
    BY <2>4, <2>5, <2>6, <2>7
<1>4. ASSUME NEW e \in Event, stage[e] = "thinking", stage' = [stage EXCEPT ![e] = "decided"],
             UNCHANGED <<fp, at, tries, stranded, bucket>>
      PROVE  Goal
  <2>1. FailuresStay
    BY <1>4 DEF FailuresStay, Failed, TypeOK
  <2>2. \A q \in Event : BucketGood(q)'
    BY <1>4, <1>a, <2>1, BucketStays
  <2>3. Marks'
    BY <1>4, <1>a DEF TypeOK
  <2>4. Taken'
    BY <1>4, <1>a DEF Busy, In, TypeOK, Failed
  <2> QED
    BY <2>2, <2>3, <2>4
<1>5. ASSUME NEW e \in Event, Malformed(e) PROVE Goal
  <2>1. /\ stage[e] = "claimed" /\ stage' = [stage EXCEPT ![e] = "quarantined"]
        /\ UNCHANGED <<fp, at, tries, stranded, bucket>>
    BY <1>5 DEF Malformed, Begins
  <2>2. FailuresStay
    BY <2>1 DEF FailuresStay, Failed, TypeOK
  <2>3. \A q \in Event : BucketGood(q)'
    BY <1>a, <2>1, <2>2, BucketStays
  <2>4. Marks'
    BY <2>1, <1>a DEF TypeOK
  <2>5. Taken'
    BY <2>1, <1>a DEF Busy, In, TypeOK, Failed
  <2> QED
    BY <2>3, <2>4, <2>5
<1>6. ASSUME NEW e \in Event, Fail(e) PROVE Goal
  <2>1. /\ stage[e] \in {"claimed", "thinking"}
        /\ tries'[e] = tries[e] + 1 /\ stage'[e] \in {"quarantined", "received"}
        /\ bucket'[e] = "none"
        /\ \A p \in Event : p # e => /\ tries'[p] = tries[p] /\ stage'[p] = stage[p]
                                      /\ bucket'[p] = bucket[p]
        /\ UNCHANGED <<fp, at, stranded>>
    BY <1>6 DEF Fail, Runs, Begins, Released, TypeOK
  <2>2. Failed(e)'
    BY <2>1, <1>c DEF Failed
  <2>3. FailuresStay
    BY <2>1, <2>2 DEF FailuresStay, Failed
  <2>4. \A q \in Event : BucketGood(q)'
    BY <1>a, <2>1, <2>3, BucketStays
  <2>5. Marks'
    BY <2>1, <1>a
  <2>6. Taken'
    BY <2>1, <2>2, <2>3, <1>a DEF Busy, In, FailuresStay
  <2> QED
    BY <2>4, <2>5, <2>6
<1>12. ASSUME NEW e \in Event, Strand(e) PROVE Goal
  <2>1. /\ stage[e] \in {"claimed", "thinking"}
        /\ stage'[e] = "stranded" /\ bucket'[e] = "none" /\ stranded \subseteq stranded'
        /\ \A p \in Event : p # e => stage'[p] = stage[p] /\ bucket'[p] = bucket[p]
        /\ UNCHANGED <<fp, at, tries>>
    BY <1>12 DEF Strand, Runs, Begins, TypeOK
  <2>2. FailuresStay
    BY <2>1 DEF FailuresStay, Failed
  <2>3. \A q \in Event : BucketGood(q)'
    BY <1>a, <2>1, <2>2, BucketStays
  <2>4. Marks'
    BY <2>1, <1>a
  <2>5. Taken'
    BY <2>1, <2>2, <1>a DEF Busy, In, FailuresStay
  <2> QED
    BY <2>3, <2>4, <2>5
<1>7. ASSUME Restart PROVE Goal
  <2> DEFINE processing == Busy \cup In("stranded")
  <2>1. /\ stage' = [e \in Event |-> IF e \in processing THEN "received" ELSE stage[e]]
        /\ bucket' = [e \in Event |-> IF e \in processing THEN "none" ELSE bucket[e]]
        /\ UNCHANGED <<fp, at, tries, stranded>>
    BY <1>7 DEF Restart
  <2>2. FailuresStay
    BY <2>1 DEF FailuresStay, Failed, Busy, In
  <2>3. \A q \in Event : BucketGood(q)'
    BY <1>a, <2>1, <2>2, BucketStays
  <2>4. Marks'
    BY <2>1, <1>a DEF Busy, In
  <2>5. Busy' = {}
    BY <2>1 DEF Busy, In
  <2> QED
    BY <2>3, <2>4, <2>5
<1>8. ASSUME UNCHANGED <<at, fp, stage, bucket, tries, stranded>> PROVE Goal
  <2>1. FailuresStay
    BY <1>8 DEF FailuresStay, Failed
  <2>2. \A q \in Event : BucketGood(q)'
    BY <1>8, <1>a, <2>1, BucketStays
  <2> QED
    BY <1>8, <1>a, <2>2 DEF Busy, In, Failed
<1>9. ASSUME NEW e \in Event, Think(e) PROVE Goal
  BY <1>9, <1>3 DEF Think
<1>10. ASSUME NEW e \in Event, NEW proposed \in {"hermes", "other"}, DecideAtOnce(e, proposed) PROVE Goal
  BY <1>10, <1>3 DEF DecideAtOnce, Commit
<1>11. ASSUME NEW e \in Event, NEW proposed \in {"hermes", "other"}, DecideAfterJev(e, proposed) PROVE Goal
  BY <1>11, <1>4 DEF DecideAfterJev, Commit
<1>13. CASE UNCHANGED vars
  BY <1>13, <1>8 DEF vars
<1> QED
  BY <1>1, <1>2, <1>5, <1>6, <1>7, <1>9, <1>10, <1>11, <1>12, <1>13 DEF Next

LEMMA IndStep == IndInv /\ [Next]_vars => IndInv'
<1> SUFFICES ASSUME IndInv, [Next]_vars PROVE IndInv'
  OBVIOUS
<1> USE DEF IndInv
<1>1. TypeOK'
  BY TypeStep
<1>6. HistoryInv'
  BY <1>1, HistoryStep
<1>2. ASSUME NEW e \in Event, NEW t \in 1 .. MaxTime, Ingest(e, t)
      PROVE  WorkInv' /\ ChainInv'
  BY <1>2, IngestStep
<1>3. ASSUME NEW S \in SUBSET Event, Claim(S)
      PROVE  WorkInv' /\ ChainInv'
  BY <1>3, ClaimStep
<1>4. ASSUME NEW e \in Event, NEW proposed \in {"hermes", "other"},
             DecideAtOnce(e, proposed) \/ DecideAfterJev(e, proposed)
      PROVE  WorkInv' /\ ChainInv'
  <2>1. e \in Busy /\ Commit(e, proposed)
    BY <1>4 DEF DecideAtOnce, DecideAfterJev, Begins, Busy, In
  <2> QED
    BY <2>1, CommitStep
<1>5. ASSUME \/ \E e \in Event : Malformed(e) \/ Think(e) \/ Fail(e) \/ Strand(e)
             \/ Restart
             \/ UNCHANGED vars
      PROVE  WorkInv' /\ ChainInv'
  BY <1>5, ClosingStep
<1> QED
  BY <1>1, <1>2, <1>3, <1>4, <1>5, <1>6 DEF Next

(* Types, the order in which events are taken, the length of chains and the *)
(* history that events are judged by are kept by every step.               *)
THEOREM PipelineInvariant == Spec => []IndInv
  BY InitInd, IndStep, PTL DEF Spec

(* Types, tries included, hold in every reachable state.                    *)
THEOREM TypeCorrect == Spec => []TypeOK
<1>1. IndInv => TypeOK
  BY DEF IndInv
<1> QED
  BY <1>1, PipelineInvariant, PTL

(* Of identical events within one cooldown at most as many reach Hermes as  *)
(* there are workers, and besides them only stranded ones.                  *)
THEOREM AtMostWorkersSent == Spec => []SentIsBounded
<1>1. IndInv => SentIsBounded
  <2> SUFFICES ASSUME IndInv, Cooldown # 0, NEW S \in SUBSET Event, Chain(S)
               PROVE  Cardinality(S \ stranded) <= Workers
    BY DEF SentIsBounded
  <2> DEFINE T == S \ stranded
  <2>1. CASE T = {}
    BY <2>1, FS_EmptySet, PipelineAssumption
  <2>2. CASE T # {}
    <3>1. 1 \in Event /\ \A e \in T : 1 <= e
      <4>1. PICK e \in T : e \in Event
        BY <2>2
      <4>2. N >= 1 /\ \A q \in T : q >= 1
        BY <4>1, PipelineAssumption DEF Event
      <4> QED
        BY <4>2, PipelineAssumption DEF Event
    <3>5. Chain(T) /\ T \in SUBSET (Event \ stranded)
      BY DEF Chain
    <3>2. Cardinality(T \cup Open(1)) <= Workers
      BY <2>2, <3>1, <3>5 DEF IndInv, ChainInv
    <3>3. T \cup Open(1) \subseteq Event
      BY DEF Open, Busy, In
    <3>4. /\ Cardinality(T) <= Cardinality(T \cup Open(1))
          /\ Cardinality(T) \in Nat /\ Cardinality(T \cup Open(1)) \in Nat
      BY <3>3, EventSets
    <3> QED
      BY <3>2, <3>4, PipelineAssumption
  <2> QED
    BY <2>1, <2>2
<1> QED
  BY <1>1, PipelineInvariant, PTL

(* The bucket that was shown to the classifier is the one a replay computes  *)
(* (pipeline.canonical), unless an earlier event failed.                    *)
THEOREM ReplaysAgree == Spec => []ReplayAgrees
<1>1. IndInv => ReplayAgrees
  <2> SUFFICES ASSUME IndInv, NEW e \in In("decided"),
                      \A p \in Event : p < e => stage[p] = "decided" /\ ~Failed(p)
               PROVE  bucket[e] = RepeatBucket(In("decided"), e)
    BY DEF ReplayAgrees
  <2>1. e \in Event /\ bucket[e] # "none"
    BY DEF IndInv, HistoryInv, In
  <2>2. bucket[e] = RepeatBucket(Event, e)
    BY <2>1 DEF IndInv, HistoryInv
  <2>3. In("decided") \subseteq Event /\ \A p \in Event : p < e => p \in In("decided")
    BY DEF In
  <2> QED
    BY <2>1, <2>2, <2>3, BucketLocal
<1> QED
  BY <1>1, PipelineInvariant, PTL

(* An event is only called first when no identical one arrived before it in  *)
(* the window, except one whose own processing failed or is quarantined.    *)
THEOREM FirstIsReallyFirst == Spec => []FirstIsFirst
<1>1. IndInv => FirstIsFirst
  BY DEF IndInv, HistoryInv
<1> QED
  BY <1>1, PipelineInvariant, PTL

-----------------------------------------------------------------------------
(* One worker                                                              *)

(* A single worker decides the older of two identical events first: when an *)
(* event is taken, no younger one has reached Hermes within its cooldown,   *)
(* as long as no event is stranded.                                        *)
LEMMA OlderIsDecided ==
    ASSUME Workers = 1, MaxStranded = 0, IndInv, Cooldown # 0,
           NEW e \in Event, e \in Busy, NEW p \in Sent, e < p
    PROVE  FALSE
<1>0. stranded = {}
  <2>1. IsFiniteSet(stranded) /\ Cardinality(stranded) \in Nat
    BY EventSets DEF IndInv, TypeOK
  <2>2. Cardinality(stranded) = 0
    BY <2>1 DEF IndInv, WorkInv
  <2> QED
    BY <2>1, <2>2, FS_EmptySet
<1>1. p \in Event /\ p \notin Busy
  BY DEF IndInv, WorkInv, Sent, Busy, In
<1>2. Chain({p})
  BY <1>1 DEF Chain, Event
<1>3. Cardinality({p} \cup Open(p)) <= 1
  BY <1>0, <1>1, <1>2 DEF IndInv, ChainInv, Event
<1>4. e \in Open(p) /\ e # p
  BY <1>0, <1>1 DEF Open, Event
<1>5. {e, p} \subseteq {p} \cup Open(p) /\ {p} \cup Open(p) \subseteq Event
  BY <1>1, <1>4 DEF Open, Busy, In
<1>6. /\ Cardinality({e, p}) <= Cardinality({p} \cup Open(p))
      /\ Cardinality({e, p}) \in Nat /\ Cardinality({p} \cup Open(p)) \in Nat
  BY <1>5, EventSets
<1>7. Cardinality({e, p}) = 2
  <2>1. Cardinality({e}) = 1 /\ IsFiniteSet({e})
    BY FS_Singleton
  <2>2. Cardinality({e} \cup {p}) = 2
    BY <1>4, <2>1, FS_AddElement
  <2>3. {e} \cup {p} = {e, p}
    OBVIOUS
  <2> QED
    BY <2>2, <2>3
<1> QED
  BY <1>3, <1>6, <1>7

(* With one worker the documented cooldown holds, however often processing  *)
(* fails or the daemon restarts, as long as release_failed itself does not  *)
(* fail: an event is not sent to Hermes when an identical one within the    *)
(* cooldown was.                                                           *)
THEOREM OneWorkerHonoursCooldown ==
    ASSUME Workers = 1, MaxStranded = 0 PROVE Spec => CooldownHonoured
<1>1. ASSUME IndInv, [Next]_vars PROVE
        [\A e \in Event, p \in Sent :
            (Repeats(p, e) \/ Repeats(e, p)) /\ path[e] # "health" /\ Cooldown # 0
                => e \in Sent \/ route'[e] # "hermes"]_vars
  <2> SUFFICES ASSUME NEW e \in Event, NEW p \in Sent, Repeats(p, e) \/ Repeats(e, p),
                      path[e] # "health", Cooldown # 0, e \notin Sent, route'[e] = "hermes"
               PROVE  FALSE
    BY <1>1
  <2>1. route[e] # "hermes"
    BY DEF Sent
  <2>2. PICK proposed \in {"hermes", "other"} : DecideAtOnce(e, proposed) \/ DecideAfterJev(e, proposed)
    <3>1. Next
      BY <1>1, <2>1 DEF vars
    <3>2. /\ \A q \in Event : (\E t \in 1 .. MaxTime : Ingest(q, t)) \/ Malformed(q) \/ Think(q) \/ Fail(q) \/ Strand(q)
                               => route' = route
          /\ \A S \in SUBSET Event : Claim(S) => route' = route
          /\ Restart => route' = route
      BY DEF Ingest, Claim, Malformed, Think, Fail, Strand, Restart
    <3>3. PICK q \in Event, proposed \in {"hermes", "other"} :
             DecideAtOnce(q, proposed) \/ DecideAfterJev(q, proposed)
      BY <2>1, <3>1, <3>2 DEF Next
    <3>4. q = e
      BY <1>1, <2>1, <3>3 DEF DecideAtOnce, DecideAfterJev, Commit, IndInv, TypeOK
    <3> QED
      BY <3>3, <3>4
  <2>3. e \in Busy /\ Commit(e, proposed)
    BY <2>2 DEF DecideAtOnce, DecideAfterJev, Begins, Busy, In
  <2>4. proposed = "hermes" /\ Priors(e) = {}
    BY <1>1, <2>3 DEF IndInv, TypeOK, Commit, Cools
  <2>5. p \in In("decided") /\ route[p] = "hermes" /\ p \in Event
    BY <1>1 DEF Sent, IndInv, WorkInv, In
  <2>6. ~Repeats(p, e)
    BY <2>4, <2>5 DEF Repeats, Priors, Earlier
  <2>7. e < p
    BY <2>6 DEF Repeats
  <2> QED
    BY <1>1, <2>3, <2>7, OlderIsDecided
<1> QED
  BY <1>1, PipelineInvariant, PTL DEF Spec, CooldownHonoured
=============================================================================
