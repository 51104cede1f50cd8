---------------------------- MODULE IngestProofs ----------------------------
(* Proofs about one topic, for every number of messages: the inductive      *)
(* invariant of Ingest, what follows from it, and the stronger guarantee    *)
(* that initial_since = "all" gives.                                        *)
EXTENDS Ingest, TLAPS

(* Init establishes the invariant.                                          *)
LEMMA InitInd == Init => IndInv
<1> SUFFICES ASSUME Init PROVE IndInv
  OBVIOUS
<1> USE DEF Init
<1>b. alerted \in BOOLEAN /\ up \in BOOLEAN /\ active \in BOOLEAN
  OBVIOUS
<1>1. TypeOK
  BY <1>b, IngestAssumption DEF TypeOK, Messages
<1>2. StreamInv
  BY IngestAssumption DEF StreamInv
<1>3. NothingSkipped /\ CursorIsPersisted /\ LossIsAlerted
  BY DEF NothingSkipped, CursorIsPersisted, LossIsAlerted
<1> QED
  BY <1>1, <1>2, <1>3 DEF IndInv

(* The first message asked for comes after the cursor and is not beyond the *)
(* next one to be published; once there is a cursor, what lies between the  *)
(* two has expired.                                                         *)
LEMMA RequestedFollows ==
    ASSUME TypeOK, StreamInv
    PROVE  /\ Requested \in 1 .. published + 1
           /\ cursor < Requested
           /\ (cursor # 0 \/ initial = "all") =>
                 \A m \in Messages : cursor < m /\ m < Requested => m < first
  BY IngestAssumption DEF TypeOK, StreamInv, Requested, Messages

(* Every step keeps the types and the order of cursor and stream.           *)
LEMMA TypesStep ==
    ASSUME TypeOK, StreamInv, CursorIsPersisted, [Next]_vars
    PROVE  TypeOK' /\ StreamInv' /\ CursorIsPersisted'
<1> USE IngestAssumption DEF TypeOK, StreamInv, CursorIsPersisted, Messages
<1>1. ASSUME NEW valid \in BOOLEAN, Publish(valid)
      PROVE  TypeOK' /\ StreamInv' /\ CursorIsPersisted'
  BY <1>1 DEF Publish, stored
<1>2. CASE Expire
  BY <1>2 DEF Expire, stored
<1>3. ASSUME NEW from \in 1 .. MaxMessages + 1, Connect(from)
      PROVE  TypeOK' /\ StreamInv' /\ CursorIsPersisted'
  <2>1. /\ active' \in BOOLEAN /\ alerted' \in BOOLEAN
        /\ active' => alerted'
    BY <1>3 DEF Connect, CheckAlert
  <2>2. cut' \in SUBSET Messages
    <3>1. from - 1 <= published /\ published <= MaxMessages
      BY <1>3, RequestedFollows DEF Connect
    <3>2. Requested .. from - 1 \subseteq Messages
      BY <1>3, <3>1, RequestedFollows
    <3> QED
      BY <1>3, <3>2 DEF Connect
  <2>3. up /\ cursor' < stream' /\ stream' <= published' + 1
    BY <1>3, RequestedFollows DEF Connect, server
  <2> QED
    BY <1>3, <2>1, <2>2, <2>3, RequestedFollows DEF Connect, server
<1>4. CASE IngestLine
  <2>1. stream \in Messages
    BY <1>4 DEF IngestLine
  <2>b. /\ alerted' \in BOOLEAN /\ up' \in BOOLEAN /\ active' \in BOOLEAN
        /\ up' /\ (active' => alerted')
    BY <1>4 DEF IngestLine
  <2>s. /\ stream # 0 /\ stream <= published /\ stream' = stream + 1
        /\ UNCHANGED <<published, good, first, initial, since, cut>>
    BY <1>4 DEF IngestLine, server
  <2>2. CASE stream \in good
    <3>1. inbox' = inbox \cup {stream} /\ cursor' = stream /\ quarantine' = quarantine
      BY <1>4, <2>2 DEF IngestLine, Keep
    <3> QED
      BY <2>b, <2>s, <2>1, <3>1
  <2>3. CASE stream \notin good
    <3>1. inbox' = inbox /\ cursor' = cursor /\ quarantine' = quarantine \cup {stream}
      BY <1>4, <2>3 DEF IngestLine, Quarantine
    <3> QED
      BY <2>b, <2>s, <2>1, <3>1
  <2> QED
    BY <2>2, <2>3
<1>5. CASE Drop
  BY <1>5 DEF Drop, server, stored
<1>6. CASE Crash
  <2>b. alerted' \in BOOLEAN /\ up' \in BOOLEAN /\ active' \in BOOLEAN /\ ~active'
    BY <1>6 DEF Crash, stored
  <2> QED
    BY <1>6, <2>b DEF Crash, server, stored
<1>7. CASE Start
  BY <1>7 DEF Start, server, stored
<1>8. CASE UNCHANGED vars
  BY <1>8 DEF vars, server, stored
<1> QED
  BY <1>1, <1>2, <1>3, <1>4, <1>5, <1>6, <1>7, <1>8 DEF Next

(* Every step keeps the whole invariant.                                    *)
LEMMA IndStep == ASSUME IndInv, [Next]_vars PROVE IndInv'
<1> USE DEF IndInv
<1>t. TypeOK' /\ StreamInv' /\ CursorIsPersisted'
  BY TypesStep
<1>l. LossIsAlerted'
  <2>1. ASSUME NEW from \in 1 .. MaxMessages + 1, Connect(from) PROVE LossIsAlerted'
    <3>1. CASE from > Requested
      BY <2>1, <3>1 DEF Connect, CheckAlert, LossIsAlerted, StreamInv
    <3>2. CASE ~(from > Requested)
      <4>1. Requested .. from - 1 = {}
        BY <2>1, <3>2, RequestedFollows DEF Connect
      <4> QED
        BY <2>1, <3>2, <4>1 DEF Connect, CheckAlert, LossIsAlerted
    <3> QED
      BY <3>1, <3>2
  <2> QED
    BY <2>1 DEF Next, vars, stored, Publish, Expire, IngestLine, Drop, Crash, Start, LossIsAlerted
<1>n. NothingSkipped'
  <2> USE IngestAssumption DEF TypeOK, StreamInv, CursorIsPersisted, Messages,
          NothingSkipped, Reached, Kept, Unavailable
  <2>1. ASSUME NEW valid \in BOOLEAN, Publish(valid) PROVE NothingSkipped'
    BY <2>1 DEF Publish, stored
  <2>2. CASE Expire
    BY <2>2 DEF Expire, stored
  <2>3. ASSUME NEW from \in 1 .. MaxMessages + 1, Connect(from) PROVE NothingSkipped'
    <3>1. SUFFICES ASSUME NEW a \in inbox, NEW m \in 1 .. published, a < m, m < from
                   PROVE  Kept(m)'
      BY <2>3 DEF Connect, server
    <3>2. CASE m <= cursor
      BY <2>3, <3>1, <3>2 DEF Connect, server
    <3>3. CASE cursor < m /\ m < Requested
      BY <2>3, <3>1, <3>3, RequestedFollows DEF Connect, server
    <3>4. CASE Requested <= m
      BY <2>3, <3>1, <3>4, RequestedFollows DEF Connect, server
    <3> QED
      BY <3>2, <3>3, <3>4, RequestedFollows
  <2>4. CASE IngestLine
    <3>s. published' = published /\ Reached' = stream + 1
      BY <2>4 DEF IngestLine, server
    <3>1. SUFFICES ASSUME NEW a \in inbox', NEW m \in 1 .. published, a < m, m <= stream
                   PROVE  Kept(m)'
      BY <3>s DEF Kept
    <3>2. a \in inbox
      BY <2>4, <3>1 DEF IngestLine, Keep, Quarantine
    <3>3. CASE m < stream
      BY <2>4, <3>1, <3>2, <3>3 DEF IngestLine, Keep, Quarantine, server
    <3>4. CASE m = stream
      BY <2>4, <3>1, <3>4 DEF IngestLine, Keep, Quarantine, server
    <3> QED
      BY <3>1, <3>3, <3>4
  <2>5. CASE Drop
    BY <2>5 DEF Drop, server, stored
  <2>6. CASE Crash
    BY <2>6 DEF Crash, server, stored
  <2>7. CASE Start
    BY <2>7 DEF Start, server, stored
  <2>8. CASE UNCHANGED vars
    BY <2>8 DEF vars, server, stored
  <2> QED
    BY <2>1, <2>2, <2>3, <2>4, <2>5, <2>6, <2>7, <2>8 DEF Next
<1> QED
  BY <1>t, <1>l, <1>n

(* The invariant holds in every reachable state.                            *)
THEOREM IngestInvariant == Spec => []IndInv
<1>1. Init => IndInv
  BY InitInd
<1>2. IndInv /\ [Next]_vars => IndInv'
  BY IndStep
<1> QED
  BY <1>1, <1>2, PTL DEF Spec

(* Once one event of the topic is kept, no later message is skipped.        *)
THEOREM NothingIsSkipped == Spec => []NothingSkipped
<1>1. IndInv => NothingSkipped
  BY DEF IndInv
<1> QED
  BY <1>1, IngestInvariant, PTL

(* The cursor only names a persisted message.                               *)
THEOREM CursorPersisted == Spec => []CursorIsPersisted
<1>1. IndInv => CursorIsPersisted
  BY DEF IndInv
<1> QED
  BY <1>1, IngestInvariant, PTL

(* A truncated replay has left its alert.                                   *)
THEOREM LossAlerted == Spec => []LossIsAlerted
<1>1. IndInv => LossIsAlerted
  BY DEF IndInv
<1> QED
  BY <1>1, IngestInvariant, PTL

(* With initial_since = "all" nothing is skipped from the first connection  *)
(* on, even before there is a cursor.                                       *)
LEMMA SinceStep ==
    ASSUME initial = "all", IndInv, IndInv', NothingSkippedSinceFirst, [Next]_vars
    PROVE  NothingSkippedSinceFirst'
<1> USE IngestAssumption DEF IndInv, TypeOK, StreamInv, Messages,
        NothingSkippedSinceFirst, Reached, Kept, Unavailable
<1>1. ASSUME NEW valid \in BOOLEAN, Publish(valid) PROVE NothingSkippedSinceFirst'
  BY <1>1 DEF Publish, stored
<1>2. CASE Expire
  BY <1>2 DEF Expire, stored
<1>3. ASSUME NEW from \in 1 .. MaxMessages + 1, Connect(from) PROVE NothingSkippedSinceFirst'
  <2>1. SUFFICES ASSUME NEW m \in 1 .. published, since' <= m, m < from
                 PROVE  Kept(m)'
    BY <1>3 DEF Connect, server
  <2>2. CASE m <= cursor
    BY <1>3, <2>1, <2>2, RequestedFollows DEF Connect, server
  <2>3. CASE cursor < m /\ m < Requested
    BY <1>3, <2>1, <2>3, RequestedFollows DEF Connect, server
  <2>4. CASE Requested <= m
    BY <1>3, <2>1, <2>4, RequestedFollows DEF Connect, server
  <2> QED
    BY <2>2, <2>3, <2>4, RequestedFollows
<1>4. CASE IngestLine
  <2>s. published' = published /\ since' = since /\ stream' = stream + 1 /\ stream # 0
    BY <1>4 DEF IngestLine, server
  <2>1. SUFFICES ASSUME NEW m \in 1 .. published, 0 < since, since <= m, m <= stream
                 PROVE  Kept(m)'
    <3>1. stream \in Nat /\ stream' # 0
      BY <2>s
    <3>2. \A m \in 1 .. published : m < stream' <=> m <= stream
      BY <2>s, <3>1
    <3> QED
      BY <2>s, <3>1, <3>2
  <2>2. CASE m < stream
    BY <1>4, <2>1, <2>2 DEF IngestLine, Keep, Quarantine, server
  <2>3. CASE m = stream
    BY <1>4, <2>1, <2>3 DEF IngestLine, Keep, Quarantine, server
  <2> QED
    BY <2>1, <2>2, <2>3
<1>5. CASE Drop
  BY <1>5 DEF Drop, server, stored
<1>6. CASE Crash
  BY <1>6 DEF Crash, server, stored
<1>7. CASE Start
  BY <1>7 DEF Start, server, stored
<1>8. CASE UNCHANGED vars
  BY <1>8 DEF vars, server, stored
<1> QED
  BY <1>1, <1>2, <1>3, <1>4, <1>5, <1>6, <1>7, <1>8 DEF Next

THEOREM AllReplayed == Spec => []AllIsReplayed
<1>1. Init => AllIsReplayed
  BY DEF Init, AllIsReplayed, NothingSkippedSinceFirst
<1>2. ASSUME IndInv, IndInv', AllIsReplayed, [Next]_vars
      PROVE  AllIsReplayed'
  <2>1. initial' = initial
    BY <1>2 DEF Next, vars, server, Publish, Expire, Connect, IngestLine, Drop, Crash, Start
  <2> QED
    BY <1>2, <2>1, SinceStep DEF AllIsReplayed
<1> QED
  BY <1>1, <1>2, IngestInvariant, PTL DEF Spec
=============================================================================
