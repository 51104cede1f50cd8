---------------------------- MODULE DigestProofs ----------------------------
(* Proof that a recorded slot leaves nothing behind and that the window of a *)
(* digest reaches back to its items, for every schedule and any partition   *)
(* into parts, whatever flushes, crashes and exceptions come between.       *)
EXTENDS Digest, TLAPS

(* Init establishes the invariant.                                          *)
LEMMA InitInd == Init => IndInv
<1> SUFFICES ASSUME Init PROVE IndInv
  OBVIOUS
<1> USE ClockAssumption DEF Init, Process, NoRun
<1>1. TypeOK
  <2>1. 0 \in 0 .. MaxTime /\ 0 \in 0 .. MaxFlushes /\ now \in 1 .. MaxTime
    OBVIOUS
  <2>2. run \in [Process -> [begun : BOOLEAN, rows : SUBSET Event,
                            start : 0 .. MaxTime, slot : 0 .. MaxTime]]
    BY <2>1
  <2> QED
    BY <2>1, <2>2 DEF TypeOK
<1>2. ClockInv
  BY DEF ClockInv
<1>3. StampInv /\ WaitingInv /\ StartInv /\ WindowReachesBack
  BY DEF StampInv, WaitingInv, StartInv, WindowReachesBack, Unbound
<1> QED
  BY <1>1, <1>2, <1>3 DEF IndInv

(* Every step keeps it: the clock and the pipeline first, then the steps of *)
(* run_due_digest.                                                          *)
LEMMA IndStep == ASSUME IndInv, [Next]_vars PROVE IndInv'
<1> USE ClockAssumption DEF IndInv, TypeOK, ClockInv, StampInv, WaitingInv, StartInv,
        WindowReachesBack, Covers, Unbound, Process, NoRun, meta, items, DaemonIsFree
<1>0. NoRun \in [begun : BOOLEAN, rows : SUBSET Event, start : 0 .. MaxTime, slot : 0 .. MaxTime]
  <2>1. 0 \in 0 .. MaxTime /\ {} \in SUBSET Event
    OBVIOUS
  <2> QED
    BY <2>1
<1>1. CASE Tick
  BY <1>1 DEF Tick
<1>2. CASE Stamp
  BY <1>2 DEF Stamp
<1>3. ASSUME NEW e \in Event, Queue(e) PROVE IndInv'
  <2>1. TypeOK'
    BY <1>3 DEF Queue
  <2>2. ClockInv'
    BY <1>3 DEF Queue
  <2>3. StampInv' /\ WaitingInv'
    BY <1>3 DEF Queue
  <2>4. StartInv' /\ WindowReachesBack'
    BY <1>3 DEF Queue
  <2> QED
    BY <2>1, <2>2, <2>3, <2>4
<1>4. CASE QueueFails
  BY <1>4 DEF QueueFails
<1>5. CASE Crash
  <2>1. TypeOK'
    <3>1. run' \in [Process -> [begun : BOOLEAN, rows : SUBSET Event,
                               start : 0 .. MaxTime, slot : 0 .. MaxTime]]
      BY <1>0, <1>5 DEF Crash
    <3>2. pc' \in [Process -> {"idle", "read", "commit", "slot", "window"}]
      BY <1>5 DEF Crash
    <3> QED
      BY <1>5, <3>1, <3>2 DEF Crash
  <2>2. ClockInv'
    BY <1>5 DEF Crash
  <2>3. StampInv' /\ WaitingInv'
    BY <1>5 DEF Crash
  <2>4. StartInv' /\ WindowReachesBack'
    BY <1>5 DEF Crash
  <2> QED
    BY <2>1, <2>2, <2>3, <2>4
<1>6. CASE Start
  BY <1>6 DEF Start
<1>7. ASSUME NEW slot \in 1 .. MaxTime, FirstStart(slot) PROVE IndInv'
  <2>1. TypeOK'
    BY <1>7 DEF FirstStart, IsLatest
  <2>2. ClockInv'
    BY <1>7 DEF FirstStart, IsLatest
  <2>3. StampInv' /\ WaitingInv'
    BY <1>7 DEF FirstStart, IsLatest
  <2>4. StartInv' /\ WindowReachesBack'
    BY <1>7 DEF FirstStart, IsLatest
  <2> QED
    BY <2>1, <2>2, <2>3, <2>4
<1>8. CASE SetSlot
  <2>1. TypeOK'
    BY <1>8 DEF SetSlot
  <2>2. ClockInv'
    BY <1>8 DEF SetSlot
  <2>3. StampInv' /\ WaitingInv'
    BY <1>8 DEF SetSlot
  <2>4. StartInv' /\ WindowReachesBack'
    BY <1>8 DEF SetSlot
  <2> QED
    BY <2>1, <2>2, <2>3, <2>4
<1>9. ASSUME NEW p \in Process, NEW slot \in 1 .. MaxTime, Begin(p, slot) PROVE IndInv'
  <2>1. slot <= now
    BY <1>9 DEF Begin, Due, IsLatest
  <2>2. ASSUME NEW start \in 0 .. MaxTime, start <= now, NEW begun \in BOOLEAN,
               begun <=> lastSlot # 0,
               windowEnd # 0 => start = windowEnd,
               windowEnd = 0 /\ begun => start = lastSlot,
               run' = [run EXCEPT ![p] = [begun |-> begun, rows |-> {},
                                          start |-> start, slot |-> slot]]
        PROVE IndInv'
    <3>1. TypeOK'
      <4>1. [begun |-> begun, rows |-> {}, start |-> start, slot |-> slot]
                \in [begun : BOOLEAN, rows : SUBSET Event, start : 0 .. MaxTime, slot : 0 .. MaxTime]
        <5>1. slot \in 0 .. MaxTime /\ {} \in SUBSET Event
          OBVIOUS
        <5> QED
          BY <2>2, <5>1
      <4>2. run' \in [Process -> [begun : BOOLEAN, rows : SUBSET Event,
                                 start : 0 .. MaxTime, slot : 0 .. MaxTime]]
        BY <2>2, <4>1
      <4>3. flushes' \in 0 .. MaxFlushes
        BY <1>9 DEF Begin
      <4>4. pc' \in [Process -> {"idle", "read", "commit", "slot", "window"}]
        BY <1>9 DEF Begin
      <4> QED
        BY <1>9, <4>2, <4>3, <4>4 DEF Begin
    <3>2. ClockInv'
      BY <1>9, <2>1, <2>2 DEF Begin, Due
    <3>3. StampInv' /\ WaitingInv'
      BY <1>9, <2>2 DEF Begin
    <3>4. StartInv' /\ WindowReachesBack'
      BY <1>9, <2>2 DEF Begin
    <3> QED
      BY <3>1, <3>2, <3>3, <3>4
  <2>3. /\ windowEnd <= now /\ lastSlot <= now /\ slot <= now
        /\ windowEnd \in 0 .. MaxTime /\ lastSlot \in 0 .. MaxTime /\ slot \in 0 .. MaxTime
    BY <2>1
  <2> QED
    BY <1>9, <2>2, <2>3 DEF Begin
<1>10. ASSUME NEW p \in Process, Read(p) PROVE IndInv'
  BY <1>10 DEF Read
<1>11. ASSUME NEW p \in Process, Commit(p) PROVE IndInv'
  BY <1>11 DEF Commit, Partitions, Binds
<1>12. ASSUME NEW p \in Process, SetWindow(p) PROVE IndInv'
  BY <1>12 DEF SetWindow, EndOf
<1>13. ASSUME NEW p \in Process, Raise(p) PROVE IndInv'
  BY <1>13 DEF Raise
<1>14. CASE UNCHANGED vars
  BY <1>14 DEF vars
<1> QED
  BY <1>1, <1>2, <1>3, <1>4, <1>5, <1>6, <1>7, <1>8, <1>9, <1>10, <1>11, <1>12, <1>13, <1>14
  DEF Next, Loop, Step

(* The invariant holds in every reachable state.                            *)
THEOREM DigestInvariant == Spec => []IndInv
BY InitInd, IndStep, PTL DEF Spec

(* The tables and what the processes remember hold values of their types.   *)
THEOREM TypeCorrect == Spec => []TypeOK
<1>1. IndInv => TypeOK
  BY DEF IndInv
<1> QED
  BY <1>1, DigestInvariant, PTL

(* The window of a digest reaches back to the commit of its oldest item, and *)
(* to its queued_at as long as no flush ran.                                *)
THEOREM WindowsReachBack == Spec => []WindowReachesBack
<1>1. IndInv => WindowReachesBack
  BY DEF IndInv
<1> QED
  BY <1>1, DigestInvariant, PTL

(* Once a slot is recorded, nothing queued before it still waits.           *)
THEOREM SlotsLeaveNothing == Spec => SlotDoneMeansSent
<1> DEFINE Done ==
        lastSlot # 0 /\ lastSlot' # lastSlot =>
            \A e \in Event : item'[e] = "unbound" => lastSlot' <= queuedAt'[e]
<1>1. ASSUME IndInv, [Next]_vars PROVE Done
  <2>1. CASE SetSlot
    BY <1>1, <2>1 DEF IndInv, WaitingInv, Unbound, SetSlot, items
  <2>2. lastSlot = 0 \/ lastSlot' = lastSlot \/ SetSlot
    BY <1>1 DEF Next, vars, items, meta, Tick, Stamp, Queue, QueueFails, Crash, Start, Loop,
       FirstStart, Step, Begin, Read, Commit, SetWindow, Raise
  <2> QED
    BY <2>1, <2>2
<1> QED
  BY <1>1, DigestInvariant, PTL DEF Spec, SlotDoneMeansSent
=============================================================================
