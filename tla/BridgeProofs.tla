---------------------------- MODULE BridgeProofs ----------------------------
(***************************************************************************)
(* Bridge keeps its invariants for every set of events and parts, every     *)
(* number of workers and attempts and every choice of faults.               *)
(***************************************************************************)
EXTENDS BridgeInv, TLAPS

(* Request ids are distinct: each event has a row and a fallback row of its *)
(* own, each part a row of its own (UNIQUE request_id, store.py).           *)
LEMMA RowFacts ==
    /\ \A e \in Event : Main(e) \in Row /\ Fallback(e) \in Row
    /\ \A d \in Part : Digest(d) \in Row
    /\ \A e, f : Main(e) = Main(f) => e = f
    /\ \A e, f : Fallback(e) = Fallback(f) => e = f
    /\ \A d, c : Digest(d) = Digest(c) => d = c
    /\ \A e, f : Main(e) # Fallback(f)
    /\ \A e, d : Main(e) # Digest(d) /\ Fallback(e) # Digest(d)
BY DEF Main, Fallback, Digest, Row

-----------------------------------------------------------------------------
(* Types                                                                   *)

(* The initial tables are empty and well typed.                            *)
LEMMA InitTypes == Init => TypeOK
<1> SUFFICES ASSUME Init PROVE TypeOK
  OBVIOUS
<1>1. status \in [Event -> Status] /\ item \in [Event -> Part \cup {"none", "unbound"}]
  BY DEF Init, Status
<1>2. tries \in [Event -> 0 .. MaxProcessAttempts]
  BY BoundsAssumption DEF Init
<1>3. outbox \in [Row -> RowStatus] /\ attempts \in [Row -> Nat]
  BY DEF Init, RowStatus
<1>4. /\ contents \in [Part -> SUBSET Event] /\ critical \in SUBSET Event
      /\ accepted \in SUBSET Row /\ up \in BOOLEAN
  BY DEF Init
<1>5. /\ working \in SUBSET Event /\ posting \in SUBSET Row
      /\ owed \in SUBSET Event /\ flush \in [Process -> SUBSET Event]
  BY DEF Init
<1> QED
  BY <1>1, <1>2, <1>3, <1>4, <1>5 DEF TypeOK

(* Every step keeps the types; the bound on tries needs TriesBounded and    *)
(* that a task only holds events marked processing.                        *)
LEMMA TypesStep == TypeOK /\ TriesBounded /\ ClaimsMarked /\ [Next]_vars => TypeOK'
<1> SUFFICES ASSUME TypeOK, TriesBounded, ClaimsMarked, [Next]_vars PROVE TypeOK'
  OBVIOUS
<1> USE BoundsAssumption DEF TypeOK, Status, RowStatus, Terminal, Undecided, Process, table, memory
<1>1. ASSUME NEW e \in Event, Ingest(e) PROVE TypeOK'
  BY <1>1 DEF Ingest
<1>2. ASSUME NEW S \in SUBSET Event, Claim(S) PROVE TypeOK'
  BY <1>2 DEF Claim
<1>3. ASSUME NEW e \in Event, NEW route \in Route, NEW rule \in BOOLEAN, Commit(e, route, rule)
      PROVE TypeOK'
  BY <1>3, RowFacts DEF Commit, StatusOf
<1>4. ASSUME NEW e \in Event, MarkQuarantined(e) PROVE TypeOK'
  BY <1>4 DEF MarkQuarantined
<1>5. ASSUME NEW e \in Event, ReleaseFailed(e) PROVE TypeOK'
  BY <1>5 DEF ReleaseFailed, Released, TriesBounded, ClaimsMarked
<1>6. ASSUME NEW e \in Event, Strand(e) PROVE TypeOK'
  BY <1>6 DEF Strand
<1>7. ASSUME NEW B \in SUBSET Pending, StartBatch(B) PROVE TypeOK'
  BY <1>7 DEF StartBatch, Pending
<1>8. ASSUME NEW r \in Row, Accept(r) PROVE TypeOK'
  BY <1>8 DEF Accept
<1>9. ASSUME NEW r \in Row, OutboxDelivered(r) PROVE TypeOK'
  BY <1>9 DEF OutboxDelivered
<1>10. ASSUME NEW r \in Row, NEW permanent \in BOOLEAN, DeliveryFailed(r, permanent) PROVE TypeOK'
  BY <1>10 DEF DeliveryFailed, Owes
<1>11. ASSUME NEW r \in Row, DeliveryRaises(r) PROVE TypeOK'
  BY <1>11 DEF DeliveryRaises
<1>12. ASSUME NEW e \in Event, EnqueueFallback(e) PROVE TypeOK'
  BY <1>12, RowFacts DEF EnqueueFallback
<1>13. ASSUME NEW e \in Event, FallbackRaises(e) PROVE TypeOK'
  BY <1>13 DEF FallbackRaises
<1>14. ASSUME NEW p \in Process, FlushRead(p) PROVE TypeOK'
  BY <1>14 DEF FlushRead, Unbound
<1>15. ASSUME NEW p \in Process, NEW of \in [flush[p] -> FreeParts], FlushCommit(p, of)
       PROVE TypeOK'
  BY <1>15 DEF FlushCommit, Bound, FreeParts
<1>16. ASSUME NEW p \in Process, FlushRaises(p) PROVE TypeOK'
  BY <1>16 DEF FlushRaises
<1>17. ASSUME NEW R \in SUBSET Dead, NEW digestFirst \in SUBSET Event, RequeueDead(R, digestFirst)
       PROVE TypeOK'
  BY <1>17 DEF RequeueDead, Requeued, AttemptsReset
<1>18. ASSUME NEW R \in SUBSET PrunableRows, NEW S \in SUBSET PrunableEvents, Prune(R, S)
       PROVE TypeOK'
  BY <1>18 DEF Prune
<1>19. CASE Crash
  BY <1>19 DEF Crash
<1>20. CASE Start
  BY <1>20 DEF Start, Reset
<1>21. CASE UNCHANGED vars
  BY <1>21 DEF vars
<1> HIDE DEF TypeOK, table, memory
<1> QED
  BY <1>1, <1>2, <1>3, <1>4, <1>5, <1>6, <1>7, <1>8, <1>9, <1>10, <1>11, <1>12, <1>13, <1>14,
     <1>15, <1>16, <1>17, <1>18, <1>19, <1>20, <1>21
  DEF Next, Finish, Respond, FallbackEnds, FlushEnds

-----------------------------------------------------------------------------
(* The inductive invariant                                                 *)

(* The empty database of an idle daemon satisfies the invariant.           *)
LEMMA InitInd == Init => IndInv
<1> SUFFICES ASSUME Init PROVE IndInv
  OBVIOUS
<1>1. TypeOK
  BY InitTypes
<1>2. MemoryInv
  BY BoundsAssumption
  DEF Init, MemoryInv, TriesBounded, ClaimsMarked, DownIsIdle, MemoryDecided, Process
<1>3. RowsInv
  BY RowFacts, PartAssumption
  DEF Init, RowsInv, SuppressedIsSilent, BoundIsListed, AcceptedWasSent, NewRowsUntried
<1>4. FlightInv
  BY DEF Init, FlightInv, PostedIsPending, RetriesBounded, Pending
<1>5. StatusInv
  BY DEF Init, StatusInv, WaitingHasCarrier, DeadLetterHasDeadRow, SettledWasAccepted
<1> QED
  BY <1>1, <1>2, <1>3, <1>4, <1>5 DEF IndInv

(* Every step keeps the inductive invariant.  The steps that change only    *)
(* the daemon's memory are one leaf; the others have one step for each part *)
(* of the invariant.                                                       *)
LEMMA IndStep == IndInv /\ [Next]_vars => IndInv'
<1> SUFFICES ASSUME IndInv, [Next]_vars PROVE IndInv'
  OBVIOUS
<1>0. TypeOK'
  BY TypesStep DEF IndInv, MemoryInv
<1> USE <1>0 DEF IndInv, TypeOK, Status, RowStatus, Terminal, Undecided, Suppressed, Process,
                 table, memory, Pending, TaskRuns, MemoryInv, RowsInv, FlightInv, StatusInv,
                 TriesBounded, DownIsIdle, ClaimsMarked, MemoryDecided,
                 SuppressedIsSilent, BoundIsListed, AcceptedWasSent, NewRowsUntried,
                 PostedIsPending, RetriesBounded,
                 WaitingHasCarrier, DeadLetterHasDeadRow, SettledWasAccepted
<1>1. ASSUME NEW e \in Event, Ingest(e) PROVE IndInv'
  BY <1>1 DEF Ingest
<1>2. ASSUME NEW S \in SUBSET Event, Claim(S) PROVE IndInv'
  BY <1>2 DEF Claim
<1>3. ASSUME NEW e \in Event, NEW route \in Route, NEW rule \in BOOLEAN, Commit(e, route, rule)
       PROVE IndInv'
  <2>1. MemoryInv'
    BY <1>3 DEF Commit, StatusOf, Route, DigestRoutes
  <2>2. RowsInv'
    BY <1>3, RowFacts, PartAssumption DEF Commit, StatusOf, Route, DigestRoutes
  <2>3. FlightInv'
    BY <1>3, RowFacts, BoundsAssumption DEF Commit, StatusOf, Route, DigestRoutes
  <2>4. StatusInv'
    BY <1>3 DEF Commit, StatusOf, Route, DigestRoutes
  <2> QED BY <2>1, <2>2, <2>3, <2>4
<1>4. ASSUME NEW e \in Event, MarkQuarantined(e) PROVE IndInv'
  BY <1>4 DEF MarkQuarantined
<1>5. ASSUME NEW e \in Event, ReleaseFailed(e) PROVE IndInv'
  <2>1. MemoryInv'
    BY <1>5, BoundsAssumption DEF ReleaseFailed, Released
  <2>2. RowsInv'
    BY <1>5 DEF ReleaseFailed, Released
  <2>3. FlightInv'
    BY <1>5 DEF ReleaseFailed, Released
  <2>4. StatusInv'
    BY <1>5 DEF ReleaseFailed, Released
  <2> QED BY <2>1, <2>2, <2>3, <2>4
<1>6. ASSUME NEW e \in Event, Strand(e) PROVE IndInv'
  BY <1>6 DEF Strand
<1>7. ASSUME NEW B \in SUBSET Pending, StartBatch(B) PROVE IndInv'
  BY <1>7 DEF StartBatch
<1>8. ASSUME NEW r \in Row, Accept(r) PROVE IndInv'
  BY <1>8 DEF Accept
<1>9. ASSUME NEW r \in Row, OutboxDelivered(r) PROVE IndInv'
  <2>1. MemoryInv'
    BY <1>9 DEF OutboxDelivered, Settles
  <2>2. RowsInv'
    BY <1>9 DEF OutboxDelivered, Settles
  <2>3. FlightInv'
    BY <1>9 DEF OutboxDelivered, Settles
  <2>4. StatusInv'
    BY <1>9 DEF OutboxDelivered, Settles
  <2> QED BY <2>1, <2>2, <2>3, <2>4
<1>10. ASSUME NEW r \in Row, NEW permanent \in BOOLEAN, DeliveryFailed(r, permanent)
       PROVE IndInv'
  <2>1. MemoryInv'
    BY <1>10 DEF DeliveryFailed, Owes, Settles
  <2>2. RowsInv'
    BY <1>10 DEF DeliveryFailed, Owes, Settles
  <2>3. FlightInv'
    BY <1>10, RowFacts, BoundsAssumption DEF DeliveryFailed, Owes, Settles
  <2>4. StatusInv'
    BY <1>10 DEF DeliveryFailed, Owes, Settles
  <2> QED BY <2>1, <2>2, <2>3, <2>4
<1>11. ASSUME NEW r \in Row, DeliveryRaises(r) PROVE IndInv'
  BY <1>11 DEF DeliveryRaises
<1>12. ASSUME NEW e \in Event, EnqueueFallback(e) PROVE IndInv'
  <2>1. MemoryInv'
    BY <1>12 DEF EnqueueFallback
  <2>2. RowsInv'
    BY <1>12, RowFacts DEF EnqueueFallback
  <2>3. FlightInv'
    BY <1>12, RowFacts, BoundsAssumption DEF EnqueueFallback
  <2>4. StatusInv'
    BY <1>12, RowFacts DEF EnqueueFallback
  <2> QED BY <2>1, <2>2, <2>3, <2>4
<1>13. ASSUME NEW e \in Event, FallbackRaises(e) PROVE IndInv'
  BY <1>13 DEF FallbackRaises
<1>14. ASSUME NEW p \in Process, FlushRead(p) PROVE IndInv'
  BY <1>14 DEF FlushRead, Unbound
<1>15. ASSUME NEW p \in Process, NEW of \in [flush[p] -> FreeParts], FlushCommit(p, of)
       PROVE IndInv'
  <2>1. MemoryInv'
    BY <1>15 DEF FlushCommit, Bound, FreeParts
  <2>2. RowsInv'
    BY <1>15, RowFacts DEF FlushCommit, Bound, FreeParts
  <2>3. FlightInv'
    BY <1>15, RowFacts, BoundsAssumption DEF FlushCommit, Bound, FreeParts
  <2>4. StatusInv'
    <3>1. \A d \in Part : outbox[Digest(d)] # "none" => \A e \in flush[p] : of[e] # d
      BY <1>15 DEF FreeParts
    <3>2. \A c \in Event : outbox'[Main(c)] = outbox[Main(c)]
      BY <1>15, RowFacts DEF FlushCommit
    <3>3. \A d \in Part : outbox[Digest(d)] # "none" => outbox'[Digest(d)] = outbox[Digest(d)] /\ contents'[d] = contents[d]
      BY <1>15, <3>1, RowFacts DEF FlushCommit
    <3>4. \A c \in Event, d \in Part : item[c] = d => item'[c] = d
      BY <1>15, PartAssumption DEF FlushCommit, Bound
    <3>5. status' = status /\ accepted' = accepted
      BY <1>15 DEF FlushCommit
    <3>6. ASSUME NEW c \in Event, status[c] = "queued_digest", item[c] = "unbound"
          PROVE  \/ item'[c] = "unbound"
                 \/ \E d \in Part : item'[c] = d /\ outbox'[Digest(d)] = "pending"
      <4>1. CASE c \notin flush[p]
        BY <1>15, <3>6, <4>1 DEF FlushCommit, Bound
      <4>2. CASE c \in flush[p]
        <5>1. of[c] \in Part /\ item'[c] = of[c]
          BY <1>15, <3>6, <4>2 DEF FlushCommit, Bound, FreeParts
        <5>2. outbox'[Digest(of[c])] = "pending"
          BY <1>15, <4>2, <5>1, RowFacts DEF FlushCommit
        <5> QED BY <5>1, <5>2
      <4> QED BY <4>1, <4>2
    <3> HIDE <1>0 DEF TypeOK, IndInv, MemoryInv, RowsInv, FlightInv
    <3>7. WaitingHasCarrier /\ DeadLetterHasDeadRow /\ SettledWasAccepted
      BY DEF IndInv
    <3>8. WaitingHasCarrier'
      BY <3>2, <3>3, <3>4, <3>5, <3>6, <3>7
    <3>9. DeadLetterHasDeadRow'
      BY <3>2, <3>3, <3>4, <3>5, <3>7
    <3>10. SettledWasAccepted'
      <4>1. \A c \in Event, d \in Part : item[c] = d => contents'[d] = contents[d]
        BY <3>3 DEF IndInv, RowsInv, BoundIsListed
      <4> QED BY <3>4, <3>5, <3>7, <4>1
    <3> QED BY <3>8, <3>9, <3>10
  <2> QED BY <2>1, <2>2, <2>3, <2>4
<1>16. ASSUME NEW p \in Process, FlushRaises(p) PROVE IndInv'
  BY <1>16 DEF FlushRaises
<1>17. ASSUME NEW R \in SUBSET Dead, NEW digestFirst \in SUBSET Event, RequeueDead(R, digestFirst)
       PROVE IndInv'
  <2>1. MemoryInv'
    BY <1>17 DEF RequeueDead, Requeued, AttemptsReset, Dead
  <2>2. RowsInv'
    BY <1>17, RowFacts DEF RequeueDead, Requeued, AttemptsReset, Dead
  <2>3. FlightInv'
    BY <1>17, RowFacts, BoundsAssumption DEF RequeueDead, Requeued, AttemptsReset, Dead
  <2>4. StatusInv'
    BY <1>17, RowFacts DEF RequeueDead, Requeued, AttemptsReset, Dead
  <2> QED BY <2>1, <2>2, <2>3, <2>4
<1>18. ASSUME NEW R \in SUBSET PrunableRows, NEW S \in SUBSET PrunableEvents, Prune(R, S)
       PROVE IndInv'
  <2>1. MemoryInv'
    BY <1>18 DEF Prune, PrunableRows, PrunableEvents
  <2>2. RowsInv'
    BY <1>18, RowFacts, PartAssumption DEF Prune, PrunableRows, PrunableEvents
  <2>3. FlightInv'
    BY <1>18 DEF Prune, PrunableRows, PrunableEvents
  <2>4. StatusInv'
    BY <1>18, RowFacts DEF Prune, PrunableRows, PrunableEvents
  <2> QED BY <2>1, <2>2, <2>3, <2>4
<1>19. CASE Crash
  BY <1>19 DEF Crash
<1>20. CASE Start
  BY <1>20 DEF Start, Reset
<1>21. CASE UNCHANGED vars
  BY <1>21 DEF vars
<1> HIDE DEF IndInv, TypeOK, table, memory
<1> QED
  BY <1>1, <1>2, <1>3, <1>4, <1>5, <1>6, <1>7, <1>8, <1>9, <1>10, <1>11,
     <1>12, <1>13, <1>14, <1>15, <1>16, <1>17, <1>18, <1>19, <1>20, <1>21
  DEF Next, Finish, Respond, FallbackEnds, FlushEnds

(* IndInv holds in every reachable state.                                  *)
THEOREM IndInvariant == Spec => []IndInv
  BY InitInd, IndStep, PTL DEF Spec

-----------------------------------------------------------------------------
(* What the invariant says                                                 *)

(* The tables and the memory always hold values of their types; tries never *)
(* exceed MAX_PROCESS_ATTEMPTS.                                            *)
THEOREM TypeCorrect == Spec => []TypeOK
  <1>1. IndInv => TypeOK
    BY DEF IndInv
  <1> QED
    BY <1>1, IndInvariant, PTL

(* No event waits for a row or a part that will never be sent.             *)
THEOREM WaitingIsCarried == Spec => []WaitingHasCarrier
  <1>1. IndInv => WaitingHasCarrier
    BY DEF IndInv, StatusInv
  <1> QED
    BY <1>1, IndInvariant, PTL

(* A dead-lettered event has a dead row or part to retry, until pruned.    *)
THEOREM DeadLetterIsRetriable == Spec => []DeadLetterHasDeadRow
  <1>1. IndInv => DeadLetterHasDeadRow
    BY DEF IndInv, StatusInv
  <1> QED
    BY <1>1, IndInvariant, PTL

(* An event reported delivered or digested was taken by an endpoint.       *)
THEOREM SettledIsAccepted == Spec => []SettledWasAccepted
  <1>1. IndInv => SettledWasAccepted
    BY DEF IndInv, StatusInv
  <1> QED
    BY <1>1, IndInvariant, PTL

(* Undecided and suppressed events have left no trace to send.             *)
THEOREM SuppressedStaysSilent == Spec => []SuppressedIsSilent
  <1>1. IndInv => SuppressedIsSilent
    BY DEF IndInv, RowsInv
  <1> QED
    BY <1>1, IndInvariant, PTL

(* Only pending rows are in flight.                                        *)
THEOREM PostedRowsPending == Spec => []PostedIsPending
  <1>1. IndInv => PostedIsPending
    BY DEF IndInv, FlightInv
  <1> QED
    BY <1>1, IndInvariant, PTL

(* Pending rows have attempts left, requeues included.                     *)
THEOREM RetriesAreBounded == Spec => []RetriesBounded
  <1>1. IndInv => RetriesBounded
    BY DEF IndInv, FlightInv
  <1> QED
    BY <1>1, IndInvariant, PTL

(* Events that may still be processed have tries left.                     *)
THEOREM TriesAreBounded == Spec => []TriesBounded
  <1>1. IndInv => TriesBounded
    BY DEF IndInv, MemoryInv
  <1> QED
    BY <1>1, IndInvariant, PTL

-----------------------------------------------------------------------------
(* The life of rows                                                        *)

(* Steps that leave the outbox alone.                                      *)
LEMMA RowsStay == ASSUME UNCHANGED <<outbox, attempts>> PROVE Life!LNext
BY DEF Life!LNext, Life!Lives, Life!Stays

(* The rows of a step that changes some of them in one of the ways of       *)
(* RowLife and leaves the others alone.                                    *)
LEMMA OthersStay ==
    ASSUME NEW S \in SUBSET Row, \A r \in S : Life!Lives(r),
           \A r \in Row \ S : outbox'[r] = outbox[r] /\ attempts'[r] = attempts[r]
    PROVE  Life!LNext
BY DEF Life!LNext, Life!Lives, Life!Stays

(* The same for a step that changes one row.                                *)
LEMMA OneRow ==
    ASSUME NEW r \in Row, Life!Lives(r),
           \A q \in Row \ {r} : outbox'[q] = outbox[q] /\ attempts'[q] = attempts[q]
    PROVE  Life!LNext
<1>1. \A q \in {r} : Life!Lives(q)
  OBVIOUS
<1>2. {r} \in SUBSET Row
  OBVIOUS
<1> QED
  BY <1>1, <1>2, OthersStay

(* Each step of the bridge is a step in the life of the rows it concerns.   *)
LEMMA LifeStep == ASSUME IndInv, [Next]_vars PROVE Life!LNext
<1> USE DEF table, memory
<1>t. /\ outbox \in [Row -> RowStatus] /\ attempts \in [Row -> Nat]
      /\ posting \subseteq Pending /\ RetriesBounded /\ NewRowsUntried /\ SuppressedIsSilent
      /\ MaxAttempts \in Nat
  BY BoundsAssumption DEF IndInv, TypeOK, FlightInv, PostedIsPending, RowsInv
<1>1. ASSUME NEW e \in Event, NEW route \in Route, NEW rule \in BOOLEAN, Commit(e, route, rule)
      PROVE  Life!LNext
  <2>1. CASE outbox' = outbox
    BY <1>1, <2>1, RowsStay DEF Commit
  <2>2. CASE outbox[Main(e)] = "none" /\ outbox' = [outbox EXCEPT ![Main(e)] = "pending"]
    <3>1. Life!Inserted(Main(e))
      BY <1>1, <1>t, <2>2, RowFacts DEF Commit, NewRowsUntried, Life!Inserted
    <3>2. \A r \in Row \ {Main(e)} : outbox'[r] = outbox[r] /\ attempts'[r] = attempts[r]
      BY <1>1, <1>t, <2>2 DEF Commit
    <3>3. Life!Lives(Main(e)) /\ Main(e) \in Row
      BY <3>1, RowFacts DEF Life!Lives
    <3> QED
      BY <3>2, <3>3, OneRow
  <2> QED
    BY <1>1, <2>1, <2>2 DEF Commit
<1>2. ASSUME NEW r \in Row, OutboxDelivered(r) PROVE Life!LNext
  <2>1. Life!Ended(r)
    BY <1>2, <1>t DEF OutboxDelivered, Pending, RetriesBounded, Life!Ended, Life!Turns
  <2>2. \A q \in Row \ {r} : outbox'[q] = outbox[q] /\ attempts'[q] = attempts[q]
    BY <1>2, <1>t DEF OutboxDelivered
  <2>3. Life!Lives(r)
    BY <2>1 DEF Life!Lives
  <2> QED
    BY <2>2, <2>3, OneRow
<1>3. ASSUME NEW r \in Row, NEW permanent \in BOOLEAN, DeliveryFailed(r, permanent)
      PROVE  Life!LNext
  <2>1. Life!Ended(r) \/ Life!Retried(r)
    BY <1>3, <1>t DEF DeliveryFailed, Pending, RetriesBounded, Life!Ended, Life!Retried, Life!Turns
  <2>2. \A q \in Row \ {r} : outbox'[q] = outbox[q] /\ attempts'[q] = attempts[q]
    BY <1>3, <1>t DEF DeliveryFailed
  <2>3. Life!Lives(r)
    BY <2>1 DEF Life!Lives
  <2> QED
    BY <2>2, <2>3, OneRow
<1>4. ASSUME NEW e \in Event, EnqueueFallback(e) PROVE Life!LNext
  <2>1. CASE UNCHANGED <<outbox, attempts>>
    BY <2>1, RowsStay
  <2>2. CASE /\ outbox[Fallback(e)] \in {"none", "gone"}
             /\ outbox' = [outbox EXCEPT ![Fallback(e)] = "pending"]
             /\ attempts' = [attempts EXCEPT ![Fallback(e)] = 0]
    <3>1. Life!Lives(Fallback(e)) /\ Fallback(e) \in Row
      BY <1>t, <2>2, RowFacts DEF Life!Lives, Life!Inserted
    <3>2. \A r \in Row \ {Fallback(e)} : outbox'[r] = outbox[r] /\ attempts'[r] = attempts[r]
      BY <1>t, <2>2
    <3> QED
      BY <3>1, <3>2, OneRow
  <2> QED
    BY <1>4, <2>1, <2>2 DEF EnqueueFallback
<1>5. ASSUME NEW p \in Process, NEW of \in [flush[p] -> FreeParts], FlushCommit(p, of)
      PROVE  Life!LNext
  <2> DEFINE S == {r \in Row : \E e \in flush[p] : r = Digest(of[e])}
  <2>1. ASSUME NEW r \in S PROVE outbox[r] = "none" /\ outbox'[r] = "pending"
    BY <1>5, <1>t, RowFacts DEF FlushCommit, FreeParts
  <2>2. \A r \in S : Life!Inserted(r)
    BY <1>5, <1>t, <2>1 DEF FlushCommit, NewRowsUntried, Life!Inserted
  <2>3. \A r \in Row \ S : outbox'[r] = outbox[r] /\ attempts'[r] = attempts[r]
    BY <1>5, <1>t DEF FlushCommit
  <2> QED
    BY <2>2, <2>3, OthersStay DEF Life!Lives
<1>6. ASSUME NEW R \in SUBSET Dead, NEW digestFirst \in SUBSET Event, RequeueDead(R, digestFirst)
      PROVE  Life!LNext
  <2>1. R \in SUBSET Row
    BY DEF Dead
  <2>2. \A r \in R : Life!Requeued(r)
    BY <1>6, <2>1 DEF RequeueDead, AttemptsReset, Dead, Life!Requeued, Life!Turns
  <2>3. \A r \in Row \ R : outbox'[r] = outbox[r] /\ attempts'[r] = attempts[r]
    BY <1>6 DEF RequeueDead, AttemptsReset
  <2> QED
    BY <2>1, <2>2, <2>3, OthersStay DEF Life!Lives
<1>7. ASSUME NEW R \in SUBSET PrunableRows, NEW S \in SUBSET PrunableEvents, Prune(R, S)
      PROVE  Life!LNext
  <2>1. R \in SUBSET Row
    BY DEF PrunableRows
  <2>2. \A r \in R : Life!Deleted(r)
    BY <1>7, <2>1 DEF Prune, PrunableRows, Life!Deleted, Life!Turns
  <2>3. \A r \in Row \ R : outbox'[r] = outbox[r] /\ attempts'[r] = attempts[r]
    BY <1>7 DEF Prune
  <2> QED
    BY <2>1, <2>2, <2>3, OthersStay DEF Life!Lives
<1>8. \/ UNCHANGED <<outbox, attempts>>
      \/ \E e \in Event, route \in Route, rule \in BOOLEAN : Commit(e, route, rule)
      \/ \E r \in Row : OutboxDelivered(r) \/ \E permanent \in BOOLEAN : DeliveryFailed(r, permanent)
      \/ \E e \in Event : EnqueueFallback(e)
      \/ \E p \in Process : \E of \in [flush[p] -> FreeParts] : FlushCommit(p, of)
      \/ \E R \in SUBSET Dead, digestFirst \in SUBSET Event : RequeueDead(R, digestFirst)
      \/ \E R \in SUBSET PrunableRows, S \in SUBSET PrunableEvents : Prune(R, S)
  <2> DEFINE Same == UNCHANGED <<outbox, attempts>>
  <2>1. \A e \in Event : \/ Ingest(e) \/ MarkQuarantined(e) \/ ReleaseFailed(e) \/ Strand(e)
                         \/ FallbackRaises(e)
                         => Same
    BY DEF Ingest, MarkQuarantined, ReleaseFailed, Strand, FallbackRaises
  <2>2. /\ \A S \in SUBSET Event : Claim(S) => Same
        /\ \A B \in SUBSET Pending : StartBatch(B) => Same
        /\ \A r \in Row : Accept(r) \/ DeliveryRaises(r) => Same
    BY DEF Claim, StartBatch, Accept, DeliveryRaises
  <2>3. \A p \in Process : FlushRead(p) \/ FlushRaises(p) => Same
    BY DEF FlushRead, FlushRaises
  <2>4. Crash \/ Start \/ UNCHANGED vars => Same
    BY DEF Crash, Start, vars
  <2> QED
    BY <2>1, <2>2, <2>3, <2>4 DEF Next, Finish, Respond, FallbackEnds, FlushEnds, Same
<1> QED
  BY <1>1, <1>2, <1>3, <1>4, <1>5, <1>6, <1>7, <1>8, RowsStay

(* The outbox of the bridge is a behaviour of RowLife: attempts are bounded *)
(* and counted anew only by `outbox retry`, and every end is final for a     *)
(* delivered row, whatever the daemon, the CLI and retention do.           *)
THEOREM RowsLiveAsPromised == Spec => Life!LSpec
<1>1. Init => Life!LInit
  BY DEF Init, Life!LInit
<1>2. IndInv /\ [Next]_vars => [Life!LNext]_Life!lvars
  BY LifeStep
<1> QED
  BY <1>1, <1>2, IndInvariant, PTL DEF Spec, Life!LSpec

(* A delivered row is never pending and never posted again.                *)
THEOREM DeliveredNeverResent == Spec => NeverResent
<1>1. ASSUME IndInv, IndInv', [Next]_vars, NEW r \in Row, outbox[r] = "delivered"
      PROVE  r \notin posting' /\ outbox'[r] \in {"delivered", "gone"}
  <2>1. Life!Lives(r)
    BY <1>1, LifeStep DEF Life!LNext
  <2>2. outbox'[r] \in {"delivered", "gone"}
    BY <1>1, <2>1
    DEF Life!Lives, Life!Inserted, Life!Retried, Life!Ended, Life!Requeued, Life!Deleted,
        Life!Stays, Life!Turns
  <2>3. posting' \subseteq Pending'
    BY <1>1 DEF IndInv, FlightInv, PostedIsPending
  <2> QED
    BY <2>2, <2>3 DEF Pending
<1>2. IndInv /\ IndInv' /\ [Next]_vars =>
        [\A r \in Row : outbox[r] = "delivered" =>
            r \notin posting' /\ outbox'[r] \in {"delivered", "gone"}]_vars
  BY <1>1
<1> QED
  BY <1>2, IndInvariant, PTL DEF Spec, NeverResent

-----------------------------------------------------------------------------
(* The plain alert of a critical event                                     *)

(* Neither a crash nor an exception hits the daemon between the transaction *)
(* that dead-letters a row and enqueue_fallback.                           *)
GapStep == owed # {} => ~Crash /\ \A e \in Event : ~FallbackRaises(e)

(* A row of an event is dead-lettered by a failed delivery only, and its    *)
(* fallback row, once inserted, leaves a trace for good.                   *)
LEMMA DeadByFailure ==
    ASSUME IndInv, [Next]_vars, NEW e \in Event
    PROVE  /\ outbox'[Main(e)] = "dead" =>
                \/ outbox[Main(e)] = "dead"
                \/ \E permanent \in BOOLEAN : DeliveryFailed(Main(e), permanent)
           /\ outbox[Fallback(e)] # "none" => outbox'[Fallback(e)] # "none"
<1> DEFINE Fails == \E permanent \in BOOLEAN : DeliveryFailed(Main(e), permanent)
<1> USE DEF table, memory
<1>t. outbox \in [Row -> RowStatus] /\ Main(e) \in Row /\ Fallback(e) \in Row
  BY RowFacts DEF IndInv, TypeOK
<1>1. /\ Life!Lives(Main(e)) /\ Life!Lives(Fallback(e))
  BY <1>t, LifeStep DEF Life!LNext
<1>2. outbox[Fallback(e)] # "none" => outbox'[Fallback(e)] # "none"
  BY <1>1
  DEF Life!Lives, Life!Inserted, Life!Retried, Life!Ended, Life!Requeued, Life!Deleted,
      Life!Stays, Life!Turns
<1>3. ASSUME outbox'[Main(e)] = "dead", outbox[Main(e)] # "dead" PROVE Fails
  <2>1. outbox'[Main(e)] \notin {"pending", "gone", outbox[Main(e)]} /\ outbox' # outbox
    BY <1>3
  <2>2. /\ \A c \in Event, route \in Route, rule \in BOOLEAN : ~Commit(c, route, rule)
        /\ \A c \in Event : ~EnqueueFallback(c)
    BY <1>t, <2>1, RowFacts DEF Commit, EnqueueFallback
  <2>3. /\ \A p \in Process : \A of \in [flush[p] -> FreeParts] : ~FlushCommit(p, of)
        /\ \A R \in SUBSET Dead, digestFirst \in SUBSET Event : ~RequeueDead(R, digestFirst)
        /\ \A R \in SUBSET PrunableRows, S \in SUBSET PrunableEvents : ~Prune(R, S)
    BY <1>t, <2>1, RowFacts DEF FlushCommit, RequeueDead, Prune
  <2>4. /\ \A c \in Event : ~(\/ Ingest(c) \/ MarkQuarantined(c) \/ ReleaseFailed(c) \/ Strand(c)
                               \/ FallbackRaises(c))
        /\ \A S \in SUBSET Event : ~Claim(S)
        /\ \A B \in SUBSET Pending : ~StartBatch(B)
        /\ \A r \in Row : ~(Accept(r) \/ DeliveryRaises(r))
        /\ \A p \in Process : ~(FlushRead(p) \/ FlushRaises(p))
        /\ ~(Crash \/ Start \/ UNCHANGED vars)
    BY <2>1
    DEF Ingest, MarkQuarantined, ReleaseFailed, Strand, FallbackRaises, Claim, StartBatch, Accept,
        DeliveryRaises, FlushRead, FlushRaises, Crash, Start, vars
  <2>5. PICK r \in Row : OutboxDelivered(r) \/ \E permanent \in BOOLEAN : DeliveryFailed(r, permanent)
    <3> HIDE DEF table, memory
    <3>1. Next
      BY <2>4
    <3>2. /\ \A c \in Event : ~Ingest(c) /\ ~Finish(c) /\ ~FallbackEnds(c)
          /\ \A p \in Process : ~FlushRead(p) /\ ~FlushEnds(p)
      BY <2>2, <2>3, <2>4 DEF Finish, FallbackEnds, FlushEnds
    <3>3. PICK r \in Row : Respond(r)
      BY <2>3, <2>4, <3>1, <3>2 DEF Next
    <3> QED
      BY <2>4, <3>3 DEF Respond
  <2>6. ~OutboxDelivered(r)
    BY <1>3, <1>t DEF OutboxDelivered
  <2>7. PICK permanent \in BOOLEAN : DeliveryFailed(r, permanent)
    BY <2>5, <2>6
  <2>8. r = Main(e)
    BY <1>t, <2>1, <2>7 DEF DeliveryFailed
  <2> QED
    BY <2>7, <2>8
<1> QED
  BY <1>2, <1>3

(* The attempt that gives a critical row up owes its alert, and only         *)
(* enqueue_fallback takes it off the list.                                 *)
LEMMA AlertStep ==
    ASSUME AfterAttempts <= MaxAttempts, IndInv, FallbackKept, [Next]_vars, GapStep
    PROVE  FallbackKept'
<1> SUFFICES ASSUME NEW e \in critical', FallbackTopic, outbox'[Main(e)] = "dead",
                    outbox'[Fallback(e)] = "none", e \notin owed'
             PROVE  FALSE
  BY DEF FallbackKept
<1> USE DEF table, memory
<1>t. /\ outbox \in [Row -> RowStatus] /\ attempts \in [Row -> Nat]
      /\ AfterAttempts \in Nat /\ MaxAttempts \in Nat
  BY BoundsAssumption DEF IndInv, TypeOK
<1>e. e \in Event
  BY IndStep DEF IndInv, TypeOK
<1>1. outbox[Fallback(e)] = "none"
  BY <1>e, DeadByFailure
<1>2. CASE \E permanent \in BOOLEAN : DeliveryFailed(Main(e), permanent)
  <2>1. PICK permanent \in BOOLEAN : DeliveryFailed(Main(e), permanent)
    BY <1>2
  <2>2. outbox[Main(e)] = "pending" /\ critical' = critical
    BY <2>1 DEF DeliveryFailed, IndInv, FlightInv, PostedIsPending, Pending
  <2>3. permanent \/ attempts[Main(e)] + 1 >= MaxAttempts
    BY <2>1, <2>2 DEF DeliveryFailed
  <2>4. e \in Owes(Main(e), attempts[Main(e)] + 1, permanent)
    BY <1>t, <1>e, <2>2, <2>3, RowFacts DEF Owes
  <2> QED
    BY <2>1, <2>4 DEF DeliveryFailed
<1>3. CASE outbox[Main(e)] = "dead"
  <2>1. e \in critical
    <3>1. ASSUME NEW c \in Event, NEW route \in Route, NEW rule \in BOOLEAN, Commit(c, route, rule)
          PROVE  critical' = critical \/ (outbox[Main(c)] = "none" /\ critical' = critical \cup {c})
      <4> DEFINE sends == route \in {"NOTIFY_NOW", "REVIEW"} /\ outbox[Main(c)] = "none"
      <4>1. critical' = IF sends /\ route = "NOTIFY_NOW" /\ rule THEN critical \cup {c} ELSE critical
        BY <3>1 DEF Commit
      <4> QED
        BY <4>1
    <3>2. /\ \A c \in Event : \/ Ingest(c) \/ MarkQuarantined(c) \/ ReleaseFailed(c) \/ Strand(c)
                             \/ FallbackEnds(c)
                             => critical' = critical
          /\ \A S \in SUBSET Event : Claim(S) => critical' = critical
          /\ \A B \in SUBSET Pending : StartBatch(B) => critical' = critical
          /\ \A r \in Row : Accept(r) \/ Respond(r) => critical' = critical
          /\ \A p \in Process : FlushRead(p) \/ FlushEnds(p) => critical' = critical
          /\ \A R \in SUBSET Dead, digestFirst \in SUBSET Event :
                RequeueDead(R, digestFirst) => critical' = critical
          /\ \A R \in SUBSET PrunableRows, S \in SUBSET PrunableEvents :
                Prune(R, S) => critical' = critical
          /\ Crash \/ Start \/ UNCHANGED vars => critical' = critical
      BY DEF Ingest, MarkQuarantined, ReleaseFailed, Strand, FallbackEnds, EnqueueFallback,
             FallbackRaises, Claim, StartBatch, Accept, Respond, OutboxDelivered, DeliveryFailed,
             DeliveryRaises, FlushRead, FlushEnds, FlushCommit, FlushRaises, RequeueDead, Prune,
             Crash, Start, vars
    <3>3. \/ critical' = critical
          \/ \E c \in Event, route \in Route, rule \in BOOLEAN : Commit(c, route, rule)
      BY <3>2 DEF Next, Finish
    <3> QED
      BY <1>3, <3>1, <3>3
  <2>2. e \in owed
    BY <1>1, <1>3, <2>1 DEF FallbackKept
  <2>3. \E c \in Event : EnqueueFallback(c) /\ e \in owed \ owed'
    BY <2>2
    DEF GapStep, TaskRuns, Next, Finish, Respond, FallbackEnds, FlushEnds, Ingest, Claim, Commit,
        MarkQuarantined, ReleaseFailed, Strand, StartBatch, Accept, OutboxDelivered,
        DeliveryFailed, DeliveryRaises, EnqueueFallback, FlushRead, FlushCommit, FlushRaises,
        RequeueDead, Prune, Start, vars
  <2>4. EnqueueFallback(e)
    BY <2>3 DEF EnqueueFallback
  <2> QED
    BY <1>t, <1>e, <1>1, <2>4, RowFacts DEF EnqueueFallback
<1> QED
  BY <1>2, <1>3, <1>e, DeadByFailure

(* What the run fallback_crash shows is the only way to lose an alert: with  *)
(* after_attempts <= max_attempts a critical event whose row is dead has    *)
(* its plain alert, as long as neither a crash nor an exception hits the    *)
(* gap between outbox_dead and enqueue_fallback.  Crashes and exceptions at *)
(* any other moment, `outbox retry` and retention do no harm.              *)
THEOREM OnlyTheGapLosesAlerts ==
    ASSUME AfterAttempts <= MaxAttempts
    PROVE  Spec /\ [][GapStep]_vars => []FallbackKept
<1>1. Init => FallbackKept
  BY DEF Init, FallbackKept
<1>2. IndInv /\ FallbackKept /\ [Next]_vars /\ [GapStep]_vars => FallbackKept'
  <2>1. UNCHANGED vars /\ FallbackKept => FallbackKept'
    BY DEF vars, table, memory, FallbackKept
  <2> QED
    BY <2>1, AlertStep
<1> QED
  BY <1>1, <1>2, IndInvariant, PTL DEF Spec

-----------------------------------------------------------------------------
(* Digest parts                                                            *)

(* Without `digest flush` nobody else reads the unbound items between the   *)
(* read and the commit of the daemon.                                      *)
LEMMA FlushStep ==
    ASSUME ~CliFlush, IndInv, FlushInv, [Next]_vars PROVE FlushInv'
<1> USE PartAssumption DEF IndInv, TypeOK, FlushInv, Unbound, Process, TaskRuns, table, memory
<1>1. ASSUME NEW p \in Process, FlushRead(p) PROVE FlushInv'
  BY <1>1 DEF FlushRead, DigestOnce
<1>2. ASSUME NEW p \in Process, NEW of \in [flush[p] -> FreeParts], FlushCommit(p, of)
      PROVE  FlushInv'
  <2>1. p = "daemon" /\ flush["daemon"] \subseteq Event
    BY <1>2 DEF FlushCommit
  <2>2. \A d \in Part : \/ contents'[d] = contents[d] /\ \A e \in flush[p] : of[e] # d
                        \/ contents'[d] = {e \in flush[p] : of[e] = d}
    BY <1>2 DEF FlushCommit
  <2>3. \A e \in Event : item'[e] = IF e \in flush[p] THEN of[e] ELSE item[e]
    BY <1>2, <2>1 DEF FlushCommit, Bound
  <2>4. \A e \in flush[p] : of[e] \in Part
    BY DEF FreeParts
  <2>5. DigestOnce'
    BY <2>1, <2>2 DEF DigestOnce
  <2>6. \A e \in Event, d \in Part : e \in contents'[d] => item'[e] # "unbound"
    BY <2>1, <2>2, <2>3, <2>4
  <2>7. flush' = [flush EXCEPT ![p] = {}]
    BY <1>2 DEF FlushCommit
  <2> QED
    BY <2>1, <2>5, <2>6, <2>7
<1>3. ASSUME NEW e \in Event, NEW route \in Route, NEW rule \in BOOLEAN, Commit(e, route, rule)
      PROVE  FlushInv'
  <2>1. \A d \in Part : e \notin contents[d]
    BY <1>3 DEF Commit, MemoryInv, ClaimsMarked, RowsInv, SuppressedIsSilent, Suppressed, Undecided
  <2>2. \A f \in Event : item'[f] = item[f] \/ f = e
    BY <1>3 DEF Commit
  <2>3. UNCHANGED <<contents, flush>> /\ flush["daemon"] = {}
    BY <1>3 DEF Commit
  <2> QED
    BY <2>1, <2>2, <2>3 DEF DigestOnce
<1>4. ASSUME NEW R \in SUBSET PrunableRows, NEW S \in SUBSET PrunableEvents, Prune(R, S)
      PROVE  FlushInv'
  BY <1>4 DEF Prune, DigestOnce
<1>5. CASE UNCHANGED <<item, contents, flush>>
  BY <1>5 DEF DigestOnce
<1>6. ASSUME NEW p \in Process, FlushRaises(p) PROVE FlushInv'
  BY <1>6 DEF FlushRaises, DigestOnce
<1>7. CASE Crash
  BY <1>7 DEF Crash, DigestOnce
<1>8. \/ UNCHANGED <<item, contents, flush>>
      \/ Crash
      \/ \E p \in Process : FlushRead(p) \/ FlushEnds(p)
      \/ \E e \in Event, route \in Route, rule \in BOOLEAN : Commit(e, route, rule)
      \/ \E R \in SUBSET PrunableRows, S \in SUBSET PrunableEvents : Prune(R, S)
  <2> DEFINE Same == UNCHANGED <<item, contents, flush>>
  <2>1. \A e \in Event : Ingest(e) \/ MarkQuarantined(e) \/ ReleaseFailed(e) \/ Strand(e) => Same
    BY DEF Ingest, MarkQuarantined, ReleaseFailed, Strand
  <2>2. /\ \A S \in SUBSET Event : Claim(S) => Same
        /\ \A B \in SUBSET Pending : StartBatch(B) => Same
        /\ \A r \in Row : Accept(r) => Same
    BY DEF Claim, StartBatch, Accept
  <2>3. \A r \in Row : Respond(r) => Same
    BY DEF Respond, OutboxDelivered, DeliveryFailed, DeliveryRaises
  <2>4. \A e \in Event : FallbackEnds(e) => Same
    BY DEF FallbackEnds, EnqueueFallback, FallbackRaises
  <2>5. \A R \in SUBSET Dead, digestFirst \in SUBSET Event : RequeueDead(R, digestFirst) => Same
    BY DEF RequeueDead
  <2>6. Start \/ UNCHANGED vars => Same
    BY DEF Start, vars
  <2> HIDE DEF IndInv, TypeOK, FlushInv
  <2> QED
    BY <2>1, <2>2, <2>3, <2>4, <2>5, <2>6 DEF Next, Finish, Same
<1> HIDE DEF IndInv, TypeOK, FlushInv
<1> QED
  BY <1>1, <1>2, <1>3, <1>4, <1>5, <1>6, <1>7, <1>8 DEF FlushEnds

(* If nobody runs `digest flush`, no event is ever listed by two parts.     *)
THEOREM DigestedOnce == ASSUME ~CliFlush PROVE Spec => []DigestOnce
<1>1. Init => FlushInv
  BY DEF Init, FlushInv, Process, DigestOnce
<1>2. IndInv /\ FlushInv /\ [Next]_vars => FlushInv'
  BY FlushStep
<1>3. FlushInv => DigestOnce
  BY DEF FlushInv
<1> QED
  BY <1>1, <1>2, <1>3, IndInvariant, PTL DEF Spec

-----------------------------------------------------------------------------
(* Bridge implements Contract: under the mapping of Bridge (phase, heard),   *)
(* each step is one step of the contract or leaves phase and heard alone.   *)

(* The phase of every status.                                              *)
LEMMA Phases ==
    /\ PhaseOf("absent") = "unseen"
    /\ PhaseOf("received") = "open" /\ PhaseOf("processing") = "open"
    /\ PhaseOf("queued") = "owed" /\ PhaseOf("queued_digest") = "owed"
    /\ PhaseOf("delivered") = "told" /\ PhaseOf("digested") = "told"
    /\ PhaseOf("dead_letter") = "failed"
    /\ PhaseOf("dropped") = "closed" /\ PhaseOf("shadow") = "closed"
    /\ PhaseOf("quarantined") = "closed"
    /\ PhaseOf("pruned") = "forgotten"
BY DEF PhaseOf, Undecided

(* The events of S change phase and no other does.                         *)
LEMMA MoveFrom ==
    ASSUME NEW S \in SUBSET Event, NEW from, NEW to,
           \A e \in S : PhaseOf(status[e]) \in from /\ PhaseOf(status'[e]) = to,
           \A e \in Event \ S : status'[e] = status[e]
    PROVE  Promise!Move(S, from, to)
BY DEF Promise!Move, phase

(* A step of the contract, by name.                                        *)
LEMMA ContractSteps ==
    ASSUME NEW S \in SUBSET Event,
           \/ Promise!See(S) \/ Promise!Close(S) \/ Promise!Owe(S) \/ Promise!Hear(S)
           \/ Promise!Tell(S) \/ Promise!Fail(S) \/ Promise!Reopen(S) \/ Promise!Forget(S)
    PROVE  Promise!CNext
BY DEF Promise!CNext

(* Nobody hears of anything while no request is accepted and no part        *)
(* changes its contents.                                                   *)
LEMMA SameHeard ==
    ASSUME UNCHANGED <<accepted, contents>>
    PROVE  UNCHANGED heard
BY DEF heard, Carries

(* A step that changes neither the statuses nor what was heard.            *)
LEMMA Stutter ==
    ASSUME \A e \in Event : PhaseOf(status'[e]) = PhaseOf(status[e]), UNCHANGED heard
    PROVE  UNCHANGED Promise!cvars
BY DEF Promise!cvars, phase

(* The empty database is an initial state of the contract.                 *)
LEMMA InitRefines == Init => Promise!CInit
BY Phases DEF Init, Promise!CInit, phase, heard

(* A request that is accepted speaks only of events that are owed, or were. *)
LEMMA AcceptHears ==
    ASSUME IndInv, NEW r \in Row, Accept(r)
    PROVE  Promise!Hear({e \in Event : Carries(r, e)})
<1> DEFINE S == {e \in Event : Carries(r, e)}
<1>1. outbox[r] = "pending"
  BY DEF Accept, IndInv, FlightInv, PostedIsPending, Pending
<1>2. ASSUME NEW e \in S PROVE status[e] \notin Suppressed
  BY <1>1 DEF Carries, IndInv, RowsInv, SuppressedIsSilent
<1>3. ASSUME NEW e \in S PROVE phase[e] \notin {"unseen", "open", "closed"}
  BY <1>2, Phases DEF phase, IndInv, TypeOK, Status, Terminal, Undecided, Suppressed
<1>4. heard' = heard \cup S
  BY DEF Accept, heard, Carries, table
<1>5. phase' = phase
  BY DEF Accept, phase, table
<1> QED
  BY <1>3, <1>4, <1>5 DEF Promise!Hear

(* A delivered row settles events that its request spoke of.               *)
LEMMA DeliveredTells ==
    ASSUME IndInv, NEW r \in Row, OutboxDelivered(r)
    PROVE  Promise!Tell({e \in Event : Settles(r, e)})
<1> DEFINE S == {e \in Event : Settles(r, e)}
<1>1. S \subseteq heard
  BY DEF OutboxDelivered, Settles, heard, Carries, IndInv, RowsInv, BoundIsListed
<1>2. \A e \in S : PhaseOf(status[e]) = "owed" /\ PhaseOf(status'[e]) = "told"
  BY Phases DEF OutboxDelivered, Settles
<1>3. \A e \in Event \ S : status'[e] = status[e]
  BY DEF OutboxDelivered
<1>4. Promise!Move(S, {"owed"}, "told")
  BY <1>2, <1>3, MoveFrom
<1>5. UNCHANGED heard
  BY SameHeard DEF OutboxDelivered
<1> QED
  BY <1>1, <1>4, <1>5 DEF Promise!Tell

(* A row that dies fails the events that waited for it.                    *)
LEMMA FailedFails ==
    ASSUME NEW r \in Row, NEW permanent \in BOOLEAN, DeliveryFailed(r, permanent)
    PROVE  \E S \in SUBSET Event : Promise!Fail(S)
<1> DEFINE dies == permanent \/ attempts[r] + 1 >= MaxAttempts
           S == {e \in Event : dies /\ Settles(r, e)}
<1>1. \A e \in Event : status'[e] = IF dies /\ Settles(r, e) THEN "dead_letter" ELSE status[e]
  BY DEF DeliveryFailed
<1>2. \A e \in S : PhaseOf(status[e]) = "owed" /\ PhaseOf(status'[e]) = "failed"
  BY <1>1, Phases DEF Settles
<1>3. Promise!Move(S, {"owed"}, "failed")
  BY <1>1, <1>2, MoveFrom
<1>4. UNCHANGED heard
  BY SameHeard DEF DeliveryFailed
<1> QED
  BY <1>3, <1>4 DEF Promise!Fail

(* A requeue reopens dead-lettered events.                                 *)
LEMMA RequeueReopens ==
    ASSUME NEW R \in SUBSET Dead, NEW digestFirst \in SUBSET Event, RequeueDead(R, digestFirst)
    PROVE  \E S \in SUBSET Event : Promise!Reopen(S)
<1> DEFINE S == {e \in Event : status'[e] # status[e]}
<1>1. \A e \in S : status[e] = "dead_letter" /\ status'[e] \in {"queued", "queued_digest"}
  BY DEF RequeueDead, Requeued
<1>2. Promise!Move(S, {"failed"}, "owed")
  BY <1>1, Phases, MoveFrom
<1>3. UNCHANGED heard
  BY SameHeard DEF RequeueDead
<1> QED
  BY <1>2, <1>3 DEF Promise!Reopen

(* Pruning forgets events that are over.                                   *)
LEMMA PruneForgets ==
    ASSUME NEW R \in SUBSET PrunableRows, NEW S \in SUBSET PrunableEvents, Prune(R, S),
           TypeOK
    PROVE  Promise!Forget(S)
<1>1. S \in SUBSET Event
  BY DEF PrunableEvents
<1>2. \A e \in S : PhaseOf(status[e]) \in Promise!Over /\ PhaseOf(status'[e]) = "forgotten"
  BY Phases DEF Prune, PrunableEvents, Terminal, Promise!Over
<1>3. \A e \in Event \ S : status'[e] = status[e]
  BY DEF Prune
<1>4. UNCHANGED heard
  BY SameHeard DEF Prune
<1> QED
  BY <1>1, <1>2, <1>3, <1>4, MoveFrom DEF Promise!Forget

(* A flush lists events in parts that were never sent, so nothing is heard. *)
LEMMA FlushIsSilent ==
    ASSUME IndInv, NEW p \in Process, NEW of \in [flush[p] -> FreeParts], FlushCommit(p, of)
    PROVE  UNCHANGED Promise!cvars
<1>1. \A d \in Part : Digest(d) \in accepted => contents'[d] = contents[d]
  BY DEF FlushCommit, FreeParts, IndInv, RowsInv, AcceptedWasSent
<1>2. UNCHANGED heard
  BY <1>1 DEF FlushCommit, heard, Carries
<1> QED
  BY <1>2, Stutter DEF FlushCommit

(* Each step of the bridge is a step of the contract or a stutter.         *)
LEMMA StepRefines == ASSUME IndInv, [Next]_vars PROVE [Promise!CNext]_Promise!cvars
<1> USE DEF table, memory
<1>t. TypeOK /\ ClaimsMarked
  BY DEF IndInv, MemoryInv
<1>1. ASSUME NEW e \in Event, Ingest(e) PROVE Promise!See({e})
  BY <1>1, <1>t, Phases, SameHeard, MoveFrom DEF Ingest, TypeOK, Promise!See
<1>2. ASSUME NEW S \in SUBSET Event, Claim(S) PROVE UNCHANGED Promise!cvars
  BY <1>2, Phases, SameHeard, Stutter DEF Claim
<1>3. ASSUME NEW e \in Event, NEW route \in Route, NEW rule \in BOOLEAN, Commit(e, route, rule)
      PROVE  Promise!Close({e}) \/ Promise!Owe({e})
  <2>1. status[e] = "processing" /\ UNCHANGED heard
    BY <1>3, <1>t, SameHeard DEF Commit, ClaimsMarked
  <2>2. status' = [status EXCEPT ![e] = StatusOf(route)]
    BY <1>3 DEF Commit
  <2>3. CASE StatusOf(route) \in {"shadow", "dropped"}
    BY <2>1, <2>2, <2>3, <1>t, Phases, MoveFrom DEF TypeOK, Promise!Close
  <2>4. CASE StatusOf(route) \in {"queued", "queued_digest"}
    BY <2>1, <2>2, <2>4, <1>t, Phases, MoveFrom DEF TypeOK, Promise!Owe
  <2> QED
    BY <2>3, <2>4 DEF StatusOf
<1>4. ASSUME NEW e \in Event, MarkQuarantined(e) PROVE Promise!Close({e})
  BY <1>4, <1>t, Phases, SameHeard, MoveFrom DEF MarkQuarantined, ClaimsMarked, TypeOK, Promise!Close
<1>5. ASSUME NEW e \in Event, ReleaseFailed(e)
      PROVE  Promise!Close({e}) \/ UNCHANGED Promise!cvars
  <2>1. status[e] = "processing" /\ UNCHANGED heard
    BY <1>5, <1>t, SameHeard DEF ReleaseFailed, ClaimsMarked
  <2>2. status' = [status EXCEPT ![e] = Released(tries[e] + 1)]
    BY <1>5 DEF ReleaseFailed
  <2>3. CASE Released(tries[e] + 1) = "quarantined"
    BY <2>1, <2>2, <2>3, <1>t, Phases, MoveFrom DEF TypeOK, Promise!Close
  <2>4. CASE Released(tries[e] + 1) = "received"
    BY <2>1, <2>2, <2>4, <1>t, Phases, Stutter DEF TypeOK
  <2> QED
    BY <2>3, <2>4 DEF Released
<1>6. ASSUME NEW e \in Event, Strand(e) PROVE UNCHANGED Promise!cvars
  BY <1>6, SameHeard, Stutter DEF Strand
<1>7. ASSUME NEW B \in SUBSET Pending, StartBatch(B) PROVE UNCHANGED Promise!cvars
  BY <1>7, SameHeard, Stutter DEF StartBatch
<1>8. ASSUME NEW r \in Row, Accept(r) PROVE Promise!CNext
  BY <1>8, AcceptHears, ContractSteps
<1>9. ASSUME NEW r \in Row, OutboxDelivered(r) PROVE Promise!CNext
  BY <1>9, DeliveredTells, ContractSteps
<1>10. ASSUME NEW r \in Row, NEW permanent \in BOOLEAN, DeliveryFailed(r, permanent)
       PROVE  Promise!CNext
  BY <1>10, FailedFails, ContractSteps
<1>11. ASSUME NEW r \in Row, DeliveryRaises(r) PROVE UNCHANGED Promise!cvars
  BY <1>11, SameHeard, Stutter DEF DeliveryRaises
<1>12. ASSUME NEW e \in Event, EnqueueFallback(e) PROVE UNCHANGED Promise!cvars
  BY <1>12, SameHeard, Stutter DEF EnqueueFallback
<1>13. ASSUME NEW e \in Event, FallbackRaises(e) PROVE UNCHANGED Promise!cvars
  BY <1>13, SameHeard, Stutter DEF FallbackRaises
<1>14. ASSUME NEW p \in Process, FlushRead(p) PROVE UNCHANGED Promise!cvars
  BY <1>14, SameHeard, Stutter DEF FlushRead
<1>15. ASSUME NEW p \in Process, NEW of \in [flush[p] -> FreeParts], FlushCommit(p, of)
       PROVE  UNCHANGED Promise!cvars
  BY <1>15, FlushIsSilent
<1>16. ASSUME NEW p \in Process, FlushRaises(p) PROVE UNCHANGED Promise!cvars
  BY <1>16, SameHeard, Stutter DEF FlushRaises
<1>17. ASSUME NEW R \in SUBSET Dead, NEW digestFirst \in SUBSET Event, RequeueDead(R, digestFirst)
       PROVE  Promise!CNext
  BY <1>17, RequeueReopens, ContractSteps
<1>18. ASSUME NEW R \in SUBSET PrunableRows, NEW S \in SUBSET PrunableEvents, Prune(R, S)
       PROVE  Promise!CNext
  <2>1. S \in SUBSET Event
    BY DEF PrunableEvents
  <2> QED
    BY <1>18, <1>t, <2>1, PruneForgets, ContractSteps
<1>19. CASE Crash
  BY <1>19, SameHeard, Stutter DEF Crash
<1>20. CASE Start
  <2>1. \A e \in Event : PhaseOf(status'[e]) = PhaseOf(status[e])
    BY <1>20, Phases DEF Start, Reset
  <2> QED
    BY <1>20, <2>1, SameHeard, Stutter DEF Start
<1>21. CASE UNCHANGED vars
  BY <1>21, SameHeard, Stutter DEF vars
<1>22. \A e \in Event : {e} \in SUBSET Event
  OBVIOUS
<1> HIDE DEF table, memory
<1> QED
  BY <1>1, <1>2, <1>3, <1>4, <1>5, <1>6, <1>7, <1>8, <1>9, <1>10, <1>11, <1>12, <1>13, <1>14,
     <1>15, <1>16, <1>17, <1>18, <1>19, <1>20, <1>21, <1>22, ContractSteps
  DEF Next, Finish, Respond, FallbackEnds, FlushEnds

(* The bridge keeps the contract about events and about rows, whatever the  *)
(* faults, the bounds and the interleaving with the CLI (checked by TLC as  *)
(* KeepsContract).                                                         *)
THEOREM ContractIsKept == Spec => KeepsContract
<1>1. IndInv /\ [Next]_vars => [Promise!CNext]_Promise!cvars
  BY StepRefines
<1> QED
  BY <1>1, InitRefines, IndInvariant, RowsLiveAsPromised, PTL
  DEF Spec, KeepsContract, Promise!CSpec
=============================================================================
