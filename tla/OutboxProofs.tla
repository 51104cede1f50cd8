---------------------------- MODULE OutboxProofs ----------------------------
(* Proof that a critical row is never given up without its plain ntfy alert,*)
(* for any limits with after_attempts <= max_attempts, and that the line    *)
(* holds the pending rows, each once, with those in flight among the due    *)
(* ones: for any batch size and any number of rows, whatever raises, is     *)
(* requeued or crashes.  Outbox implements RowLife.                         *)
EXTENDS Outbox, SequenceTheorems, TLAPS

(* What FallbackKept needs to be inductive: the columns have their types.   *)
Columns ==
    /\ status \in [Row -> {"none", "pending", "delivered", "dead"}]
    /\ attempts \in [Row -> Nat]

AlertInv == Columns /\ FallbackKept

(* The last attempt of a critical row finds its alert or enqueues it.       *)
LEMMA GivenUpIsAlerted ==
    ASSUME NEW e \in Critical, NEW n \in Nat, NEW permanent \in BOOLEAN,
           AfterAttempts <= MaxAttempts, GivesUp(n, permanent),
           status[Fallback(e)] = "none"
    PROVE  Fallback(e) \in NewAlerts(Compose(e), n, permanent)
<1>1. Alerts(Compose(e), n, permanent)
  BY OutboxAssumption DEF GivesUp, Alerts
<1>2. Fallback(e) \in Row /\ Compose(e)[2] = e
  BY OutboxAssumption DEF Row, Fallback, Compose
<1> QED
  BY <1>1, <1>2 DEF NewAlerts

LEMMA InitAlerts == Init => AlertInv
<1> SUFFICES ASSUME Init PROVE AlertInv
  OBVIOUS
<1>1. Columns
  BY DEF Init, Columns
<1>2. FallbackKept
  BY OutboxAssumption DEF Init, FallbackKept, Row, Compose
<1> QED
  BY <1>1, <1>2 DEF AlertInv

(* A failed delivery is the only step that gives a row up.                  *)
LEMMA FailedKeepsAlerts ==
    ASSUME AlertInv, NEW r \in Row, NEW permanent \in BOOLEAN, Failed(r, permanent)
    PROVE  AlertInv'
<1> DEFINE n == attempts[r] + 1
           alerts == NewAlerts(r, n, permanent)
<1>1. n \in Nat
  BY DEF AlertInv, Columns
<1>2. /\ status' = [x \in Row |-> IF x \in alerts THEN "pending"
                                  ELSE IF x = r /\ GivesUp(n, permanent) THEN "dead" ELSE status[x]]
      /\ attempts' = [attempts EXCEPT ![r] = n]
  BY DEF Failed
<1> HIDE DEF n, alerts
<1>3. Columns'
  BY <1>1, <1>2 DEF AlertInv, Columns
<1>4. ASSUME AfterAttempts <= MaxAttempts, NEW e \in Critical, status'[Compose(e)] = "dead"
      PROVE  status'[Fallback(e)] # "none"
  <2>1. Compose(e) \in Row /\ Fallback(e) \in Row
    BY OutboxAssumption DEF Row, Compose, Fallback
  <2>2. CASE status[Compose(e)] = "dead"
    BY <1>2, <1>4, <2>1, <2>2 DEF AlertInv, FallbackKept
  <2>3. CASE status[Compose(e)] # "dead"
    <3>1. r = Compose(e) /\ GivesUp(n, permanent)
      BY <1>2, <1>4, <2>1, <2>3
    <3>2. status[Fallback(e)] = "none" => Fallback(e) \in alerts
      BY <1>1, <1>4, <3>1, GivenUpIsAlerted DEF alerts
    <3> QED
      BY <1>2, <2>1, <3>2
  <2> QED
    BY <2>2, <2>3
<1> QED
  BY <1>3, <1>4 DEF AlertInv, FallbackKept

LEMMA AlertStep == ASSUME AlertInv, [Next]_vars PROVE AlertInv'
<1> USE OutboxAssumption DEF AlertInv, Columns
<1>1. ASSUME NEW e \in Event, Enqueue(e) PROVE AlertInv'
  <2>1. Columns' /\ status'[Compose(e)] = "pending"
        /\ \A r \in Row : r # Compose(e) => status'[r] = status[r]
    BY <1>1 DEF Enqueue, Row, Compose
  <2> QED
    BY <2>1 DEF FallbackKept, Row, Compose, Fallback
<1>2. ASSUME NEW r \in Row, Delivered(r) PROVE AlertInv'
  <2>1. Columns' /\ status'[r] = "delivered" /\ \A x \in Row : x # r => status'[x] = status[x]
    BY <1>2 DEF Delivered
  <2> QED
    BY <2>1 DEF FallbackKept, Row, Compose, Fallback
<1>3. ASSUME NEW r \in Row, NEW permanent \in BOOLEAN, Failed(r, permanent) PROVE AlertInv'
  BY <1>3, FailedKeepsAlerts
<1>4. ASSUME NEW rows, RequeueDead(rows) PROVE AlertInv'
  <2>1. Columns' /\ \A x \in Row : status'[x] \in {"pending", status[x]}
    BY <1>4 DEF RequeueDead, Recounted
  <2> QED
    BY <2>1 DEF FallbackKept, Row, Compose, Fallback
<1>5. CASE UNCHANGED <<status, attempts>>
  BY <1>5 DEF FallbackKept
<1> QED
  BY <1>1, <1>2, <1>3, <1>4, <1>5 DEF Next, vars, RipenTo, StartBatch, Responds, Raises, Crash, Start

-----------------------------------------------------------------------------
(* The line: what its three changes do to its order.                        *)

(* The lines in which no row stands twice.                                    *)
Lines == {s \in Seq(Row) : IsInjective(s)}

(* A part of a line.                                                        *)
LEMMA Slice ==
    ASSUME NEW s \in Seq(Row), NEW a \in 0 .. Len(s), NEW b \in a .. Len(s)
    PROVE  LET t == SubSeq(s, a + 1, b)
           IN  t \in Seq(Row) /\ Len(t) = b - a /\ \A j \in 1 .. b - a : t[j] = s[a + j]
<1>1. Len(s) \in Nat /\ \A i \in 1 .. Len(s) : s[i] \in Row
  BY LenProperties, ElementOfSeq
<1>2. a + 1 \in Int /\ b \in Int /\ \A i \in a + 1 .. b : s[i] \in Row
  BY <1>1
<1>3. /\ SubSeq(s, a + 1, b) \in Seq(Row)
      /\ Len(SubSeq(s, a + 1, b)) = IF a + 1 <= b THEN b - (a + 1) + 1 ELSE 0
      /\ \A i \in 1 .. b - (a + 1) + 1 : SubSeq(s, a + 1, b)[i] = s[(a + 1) + i - 1]
  BY <1>2, SubSeqProperties
<1> QED
  BY <1>1, <1>3

(* A line whose rows behind the a-th and up to the b-th give way to others. *)
LEMMA Spliced ==
    ASSUME NEW s \in Seq(Row), NEW m \in Seq(Row), NEW a \in 0 .. Len(s), NEW b \in a .. Len(s)
    PROVE  LET t == SubSeq(s, 1, a) \o m \o SubSeq(s, b + 1, Len(s))
           IN  /\ t \in Seq(Row) /\ Len(t) = a + Len(m) + Len(s) - b
               /\ \A j \in 1 .. a : t[j] = s[j]
               /\ \A j \in 1 .. Len(m) : t[a + j] = m[j]
               /\ \A j \in b + 1 .. Len(s) : t[a + Len(m) + j - b] = s[j]
<1> DEFINE x == SubSeq(s, 1, a)
           y == SubSeq(s, b + 1, Len(s))
<1>1. Len(s) \in Nat /\ Len(m) \in Nat
  BY LenProperties
<1>2. x \in Seq(Row) /\ Len(x) = a /\ \A j \in 1 .. a : x[j] = s[j]
  <2>1. 0 \in 0 .. Len(s) /\ a \in 0 .. Len(s)
    BY <1>1
  <2> QED
    BY <2>1, Slice
<1>3. y \in Seq(Row) /\ Len(y) = Len(s) - b /\ \A j \in 1 .. Len(s) - b : y[j] = s[b + j]
  <2>1. b \in 0 .. Len(s) /\ Len(s) \in b .. Len(s)
    BY <1>1
  <2> QED
    BY <2>1, Slice
<1> HIDE DEF x, y
<1>4. /\ x \o m \in Seq(Row) /\ Len(x \o m) = a + Len(m)
      /\ \A i \in 1 .. a + Len(m) : (x \o m)[i] = IF i <= a THEN x[i] ELSE m[i - a]
  BY <1>2, ConcatProperties
<1> DEFINE z == x \o m
           t == z \o y
<1> HIDE DEF z
<1>5. /\ t \in Seq(Row) /\ Len(t) = Len(z) + Len(y)
      /\ \A i \in 1 .. Len(z) + Len(y) : t[i] = IF i <= Len(z) THEN z[i] ELSE y[i - Len(z)]
  BY <1>3, <1>4, ConcatProperties DEF z
<1> HIDE DEF t
<1>6. \A j \in 1 .. a : t[j] = s[j]
  BY <1>1, <1>2, <1>3, <1>4, <1>5 DEF z
<1>7. ASSUME NEW j \in 1 .. Len(m) PROVE t[a + j] = m[j]
  <2> DEFINE i == a + j
  <2>1. i \in 1 .. Len(z) + Len(y) /\ i \in 1 .. a + Len(m) /\ i <= Len(z) /\ ~(i <= a) /\ i - a = j
    BY <1>1, <1>3, <1>4 DEF z
  <2> HIDE DEF i
  <2> QED
    BY <1>4, <1>5, <2>1 DEF i, z
<1>8. ASSUME NEW j \in b + 1 .. Len(s) PROVE t[a + Len(m) + j - b] = s[j]
  <2> DEFINE i == a + Len(m) + j - b
  <2>1. Len(z) = a + Len(m) /\ Len(y) = Len(s) - b
    BY <1>3, <1>4 DEF z
  <2>2. i \in 1 .. Len(z) + Len(y) /\ ~(i <= Len(z)) /\ i - Len(z) = j - b
    BY <1>1, <2>1
  <2>3. j - b \in 1 .. Len(s) - b /\ b + (j - b) = j
    BY <1>1
  <2> HIDE DEF i
  <2>4. t[i] = y[j - b]
    BY <1>5, <2>2
  <2> QED
    BY <1>3, <2>3, <2>4 DEF i
<1>9. t \in Seq(Row) /\ Len(t) = a + Len(m) + Len(s) - b
  BY <1>1, <1>3, <1>4, <1>5 DEF z
<1> QED
  BY <1>6, <1>7, <1>8, <1>9 DEF t, x, y, z

(* Row r leaves the line: those before and behind it keep their order.      *)
LEMMA LeavesLine ==
    ASSUME NEW s \in Lines, NEW k \in 0 .. Len(s), NEW r \in Upto(s, k)
    PROVE  LET t == RemoveFirst(s, r)
           IN  /\ t \in Lines /\ Len(t) = Len(s) - 1
               /\ Upto(t, Len(t)) = Upto(s, Len(s)) \ {r}
               /\ Upto(t, k - 1) = Upto(s, k) \ {r}
<1>0. Len(s) \in Nat /\ DOMAIN s = 1 .. Len(s) /\ \A i \in 1 .. Len(s) : s[i] \in Row
  BY LenProperties, ElementOfSeq DEF Lines
<1>1. PICK i \in 1 .. k : s[i] = r
  BY DEF Upto
<1>2. i \in 1 .. Len(s)
  BY <1>0, <1>1
<1> DEFINE t == SubSeq(s, 1, i - 1) \o SubSeq(s, i + 1, Len(s))
<1>3. t = RemoveFirst(s, r)
  <2>1. {j \in 1 .. Len(s) : s[j] = r} = {i}
    BY <1>0, <1>1, <1>2 DEF Lines, IsInjective
  <2>2. Min({i}) = i
    BY DEF Min
  <2>3. SelectInSeq(s, LAMBDA v : v = r) = i
    BY <2>1, <2>2 DEF SelectInSeq
  <2> QED
    BY <1>1, <1>2, <2>3 DEF RemoveFirst, RemoveAt
<1>4. /\ t \in Seq(Row) /\ Len(t) = Len(s) - 1
      /\ \A j \in 1 .. i - 1 : t[j] = s[j]
      /\ \A j \in i + 1 .. Len(s) : t[j - 1] = s[j]
  <2> DEFINE x == SubSeq(s, 1, i - 1)
             y == SubSeq(s, i + 1, Len(s))
  <2>1. x \in Seq(Row) /\ Len(x) = i - 1 /\ \A j \in 1 .. i - 1 : x[j] = s[j]
    <3>1. 0 \in 0 .. Len(s) /\ i - 1 \in 0 .. Len(s) /\ s \in Seq(Row)
      BY <1>0, <1>2 DEF Lines
    <3> QED
      BY <3>1, Slice
  <2>2. y \in Seq(Row) /\ Len(y) = Len(s) - i /\ \A j \in 1 .. Len(s) - i : y[j] = s[i + j]
    <3>1. i \in 0 .. Len(s) /\ Len(s) \in i .. Len(s) /\ s \in Seq(Row)
      BY <1>0, <1>2 DEF Lines
    <3> QED
      BY <3>1, Slice
  <2> HIDE DEF x, y
  <2>3. /\ t \in Seq(Row) /\ Len(t) = Len(x) + Len(y)
        /\ \A j \in 1 .. Len(x) + Len(y) : t[j] = IF j <= Len(x) THEN x[j] ELSE y[j - Len(x)]
    BY <2>1, <2>2, ConcatProperties DEF x, y
  <2> HIDE DEF t
  <2>4. ASSUME NEW j \in i + 1 .. Len(s) PROVE t[j - 1] = s[j]
    <3>1. j - 1 \in 1 .. Len(x) + Len(y) /\ ~(j - 1 <= Len(x)) /\ (j - 1) - Len(x) = j - i
      BY <1>0, <1>2, <2>1, <2>2
    <3>2. j - i \in 1 .. Len(s) - i /\ i + (j - i) = j
      BY <1>0, <1>2
    <3> QED
      BY <2>2, <2>3, <3>1, <3>2
  <2>5. ASSUME NEW j \in 1 .. i - 1 PROVE t[j] = s[j]
    <3>1. j \in 1 .. Len(x) + Len(y) /\ j <= Len(x)
      BY <1>0, <1>2, <2>1, <2>2
    <3> QED
      BY <2>1, <2>3, <3>1
  <2> QED
    BY <1>0, <1>2, <2>1, <2>2, <2>3, <2>4, <2>5
<1> HIDE DEF t
<1>5. DOMAIN t = 1 .. Len(s) - 1
  BY <1>4, LenProperties
<1>6. t \in Lines
  <2>1. \A j \in 1 .. Len(s) - 1 : t[j] = IF j < i THEN s[j] ELSE s[j + 1]
    <3> TAKE j \in 1 .. Len(s) - 1
    <3>1. CASE j < i
      BY <1>0, <1>2, <1>4, <3>1
    <3>2. CASE ~(j < i)
      <4>1. j + 1 \in i + 1 .. Len(s) /\ (j + 1) - 1 = j
        BY <1>0, <1>2, <3>2
      <4> QED
        BY <1>4, <3>2, <4>1
    <3> QED
      BY <3>1, <3>2
  <2>2. ASSUME NEW j \in 1 .. Len(s) - 1, NEW l \in 1 .. Len(s) - 1, t[j] = t[l] PROVE j = l
    <3> DEFINE at(n) == IF n < i THEN n ELSE n + 1
    <3>1. at(j) \in 1 .. Len(s) /\ at(l) \in 1 .. Len(s) /\ s[at(j)] = s[at(l)]
      BY <1>0, <1>2, <2>1, <2>2
    <3>2. at(j) = at(l)
      BY <1>0, <3>1 DEF Lines, IsInjective
    <3> QED
      BY <1>0, <1>2, <3>2
  <2> QED
    BY <1>4, <1>5, <2>2 DEF Lines, IsInjective
<1>7. ASSUME NEW m \in 0 .. Len(s), i <= m PROVE Upto(t, m - 1) = Upto(s, m) \ {r}
  <2>1. ASSUME NEW x \in Upto(t, m - 1) PROVE x \in Upto(s, m) \ {r}
    <3>1. PICK j \in 1 .. m - 1 : x = t[j]
      BY <2>1 DEF Upto
    <3>2. \E l \in 1 .. m : l # i /\ x = s[l]
      <4>1. CASE j < i
        BY <1>0, <1>2, <1>4, <1>7, <3>1, <4>1
      <4>2. CASE ~(j < i)
        <5>1. j + 1 \in i + 1 .. Len(s) /\ (j + 1) - 1 = j /\ j + 1 \in 1 .. m
          BY <1>0, <1>2, <4>2
        <5> QED
          BY <1>4, <3>1, <5>1
      <4> QED
        BY <4>1, <4>2
    <3> QED
      BY <1>0, <1>1, <1>2, <3>2 DEF Upto, Lines, IsInjective
  <2>2. ASSUME NEW x \in Upto(s, m) \ {r} PROVE x \in Upto(t, m - 1)
    <3>1. PICK l \in 1 .. m : x = s[l] /\ l # i
      BY <1>1, <2>2 DEF Upto
    <3>2. CASE l < i
      <4>1. l \in 1 .. m - 1 /\ t[l] = x
        BY <1>0, <1>2, <1>4, <1>7, <3>1, <3>2
      <4> QED
        BY <4>1 DEF Upto
    <3>3. CASE l > i
      <4>1. l - 1 \in 1 .. m - 1 /\ t[l - 1] = x
        BY <1>0, <1>2, <1>4, <1>7, <3>1, <3>3
      <4> QED
        BY <4>1 DEF Upto
    <3> QED
      BY <1>2, <3>1, <3>2, <3>3
  <2> QED
    BY <2>1, <2>2
<1>8. Upto(t, Len(t)) = Upto(s, Len(s)) \ {r} /\ Upto(t, k - 1) = Upto(s, k) \ {r}
  BY <1>0, <1>1, <1>2, <1>4, <1>7
<1> QED
  BY <1>3, <1>4, <1>6, <1>8

(* Rows that are not in the line come in behind its first k.                *)
Put(s, k, m) == SubSeq(s, 1, k) \o m \o SubSeq(s, k + 1, Len(s))

LEMMA JoinsLine ==
    ASSUME NEW s \in Lines, NEW k \in 0 .. Len(s), NEW m \in Lines,
           Upto(m, Len(m)) \cap Upto(s, Len(s)) = {}
    PROVE  /\ Put(s, k, m) \in Lines /\ Len(Put(s, k, m)) = Len(s) + Len(m)
           /\ Upto(Put(s, k, m), Len(s) + Len(m)) = Upto(s, Len(s)) \cup Upto(m, Len(m))
           /\ Upto(Put(s, k, m), k + Len(m)) = Upto(s, k) \cup Upto(m, Len(m))
           /\ \A n \in 0 .. k : Upto(Put(s, k, m), n) = Upto(s, n)
<1> DEFINE t == Put(s, k, m)
<1>0. /\ Len(s) \in Nat /\ Len(m) \in Nat
      /\ DOMAIN s = 1 .. Len(s) /\ DOMAIN m = 1 .. Len(m)
  BY LenProperties DEF Lines
<1>1. /\ t \in Seq(Row) /\ Len(t) = k + Len(m) + Len(s) - k
      /\ \A j \in 1 .. k : t[j] = s[j]
      /\ \A j \in 1 .. Len(m) : t[k + j] = m[j]
      /\ \A j \in k + 1 .. Len(s) : t[k + Len(m) + j - k] = s[j]
  <2>1. s \in Seq(Row) /\ m \in Seq(Row) /\ k \in k .. Len(s)
    BY <1>0 DEF Lines
  <2> QED
    BY <2>1, Spliced DEF Put
<1> HIDE DEF t
<1>2. Len(t) = Len(s) + Len(m) /\ DOMAIN t = 1 .. Len(s) + Len(m)
  BY <1>0, <1>1, LenProperties
<1>3. \A j \in k + 1 .. Len(s) : t[Len(m) + j] = s[j]
  <2>1. \A j \in k + 1 .. Len(s) : k + Len(m) + j - k = Len(m) + j
    BY <1>0
  <2> QED
    BY <1>1, <2>1
<1>4. ASSUME NEW j \in 1 .. Len(s) + Len(m)
      PROVE  \/ j <= k /\ t[j] = s[j]
             \/ k < j /\ j <= k + Len(m) /\ j - k \in 1 .. Len(m) /\ t[j] = m[j - k]
             \/ k + Len(m) < j /\ j - Len(m) \in k + 1 .. Len(s) /\ t[j] = s[j - Len(m)]
  <2>1. CASE j <= k
    BY <1>0, <1>1, <2>1
  <2>2. CASE k < j /\ j <= k + Len(m)
    <3>1. j - k \in 1 .. Len(m) /\ k + (j - k) = j
      BY <1>0, <2>2
    <3>2. t[k + (j - k)] = m[j - k]
      BY <1>1, <3>1
    <3> QED
      BY <2>2, <3>1, <3>2
  <2>3. CASE k + Len(m) < j
    <3>1. j - Len(m) \in k + 1 .. Len(s) /\ Len(m) + (j - Len(m)) = j
      BY <1>0, <2>3
    <3>2. t[Len(m) + (j - Len(m))] = s[j - Len(m)]
      BY <1>3, <3>1
    <3> QED
      BY <2>3, <3>1, <3>2
  <2> QED
    BY <1>0, <2>1, <2>2, <2>3
<1>5. IsInjective(t)
  <2> SUFFICES ASSUME NEW j \in 1 .. Len(s) + Len(m), NEW l \in 1 .. Len(s) + Len(m), t[j] = t[l]
               PROVE  j = l
    BY <1>2 DEF IsInjective
  <2>1. \A x \in 1 .. Len(s), y \in 1 .. Len(m) : s[x] # m[y]
    BY DEF Upto
  <2>2. /\ \A x, y \in 1 .. Len(s) : s[x] = s[y] => x = y
        /\ \A x, y \in 1 .. Len(m) : m[x] = m[y] => x = y
    BY <1>0 DEF Lines, IsInjective
  <2>3. CASE k < j /\ j <= k + Len(m)
    <3>1. j - k \in 1 .. Len(m) /\ t[j] = m[j - k]
      BY <1>0, <1>4, <2>3
    <3>2. k < l /\ l <= k + Len(m) /\ l - k \in 1 .. Len(m) /\ t[l] = m[l - k]
      <4>1. \A x \in 1 .. Len(s) : t[l] # s[x]
        BY <2>1, <3>1
      <4> QED
        BY <1>0, <1>4, <4>1
    <3>3. j - k = l - k
      BY <2>2, <3>1, <3>2
    <3> QED
      BY <1>0, <3>3
  <2>4. CASE ~(k < j /\ j <= k + Len(m))
    <3> DEFINE at(n) == IF n <= k THEN n ELSE n - Len(m)
    <3>1. ASSUME NEW n \in 1 .. Len(s) + Len(m), ~(k < n /\ n <= k + Len(m))
          PROVE  at(n) \in 1 .. Len(s) /\ t[n] = s[at(n)] /\ (at(n) <= k <=> n <= k)
      <4>1. CASE n <= k
        BY <1>0, <1>4, <4>1
      <4>2. CASE ~(n <= k)
        <5>1. at(n) = n - Len(m) /\ k + Len(m) < n
          BY <1>0, <3>1, <4>2
        <5>2. n - Len(m) \in k + 1 .. Len(s) /\ t[n] = s[n - Len(m)]
          BY <1>0, <1>4, <5>1
        <5> QED
          BY <1>0, <4>2, <5>1, <5>2
      <4> QED
        BY <4>1, <4>2
    <3>2. ~(k < l /\ l <= k + Len(m))
      <4>1. \A y \in 1 .. Len(m) : t[l] # m[y]
        BY <2>1, <2>4, <3>1
      <4>2. k < l /\ l <= k + Len(m) => l - k \in 1 .. Len(m) /\ t[l] = m[l - k]
        <5>1. k < l /\ l <= k + Len(m) => ~(l <= k) /\ ~(k + Len(m) < l)
          BY <1>0
        <5> QED
          BY <1>4, <5>1
      <4> QED
        BY <4>1, <4>2
    <3>3. at(j) = at(l) /\ (j <= k <=> l <= k)
      <4>1. at(j) \in 1 .. Len(s) /\ t[j] = s[at(j)] /\ (at(j) <= k <=> j <= k)
        BY <2>4, <3>1
      <4>2. at(l) \in 1 .. Len(s) /\ t[l] = s[at(l)] /\ (at(l) <= k <=> l <= k)
        BY <3>1, <3>2
      <4>3. at(j) = at(l)
        <5>1. s[at(j)] = s[at(l)]
          BY <4>1, <4>2
        <5> HIDE DEF at
        <5> QED
          BY <2>2, <4>1, <4>2, <5>1
      <4> HIDE DEF at
      <4> QED
        BY <4>1, <4>2, <4>3
    <3> QED
      BY <1>0, <3>3
  <2> QED
    BY <2>3, <2>4
<1>6. Upto(t, Len(t)) = Upto(s, Len(s)) \cup Upto(m, Len(m))
  <2>1. ASSUME NEW j \in 1 .. Len(s) + Len(m)
        PROVE  (\E i \in 1 .. Len(s) : t[j] = s[i]) \/ (\E i \in 1 .. Len(m) : t[j] = m[i])
    <3>1. j <= k => j \in 1 .. Len(s)
      BY <1>0
    <3>2. j - Len(m) \in k + 1 .. Len(s) => j - Len(m) \in 1 .. Len(s)
      BY <1>0
    <3> QED
      BY <1>4, <3>1, <3>2
  <2>4. \A j \in 1 .. Len(s) + Len(m) : t[j] \in Upto(s, Len(s)) \cup Upto(m, Len(m))
    BY <2>1 DEF Upto
  <2>2. ASSUME NEW j \in 1 .. Len(m) PROVE \E i \in 1 .. Len(s) + Len(m) : m[j] = t[i]
    <3>1. k + j \in 1 .. Len(s) + Len(m) /\ t[k + j] = m[j]
      BY <1>0, <1>1
    <3> QED
      BY <3>1
  <2>3. ASSUME NEW j \in 1 .. Len(s) PROVE \E i \in 1 .. Len(s) + Len(m) : s[j] = t[i]
    <3>1. CASE j <= k
      BY <1>0, <1>1, <3>1
    <3>2. CASE j > k
      <4>1. Len(m) + j \in 1 .. Len(s) + Len(m) /\ t[Len(m) + j] = s[j]
        BY <1>0, <1>3, <3>2
      <4> QED
        BY <4>1
    <3> QED
      BY <1>0, <3>1, <3>2
  <2> QED
    <3>1. Upto(t, Len(t)) \subseteq Upto(s, Len(s)) \cup Upto(m, Len(m))
      BY <1>2, <2>4 DEF Upto
    <3>2. Upto(s, Len(s)) \subseteq Upto(t, Len(t)) /\ Upto(m, Len(m)) \subseteq Upto(t, Len(t))
      BY <1>2, <2>2, <2>3 DEF Upto
    <3> QED
      BY <3>1, <3>2
<1>7. Upto(t, k + Len(m)) = Upto(s, k) \cup Upto(m, Len(m))
  <2>1. ASSUME NEW j \in 1 .. k + Len(m)
        PROVE  (\E i \in 1 .. k : t[j] = s[i]) \/ (\E i \in 1 .. Len(m) : t[j] = m[i])
    <3>1. j \in 1 .. Len(s) + Len(m) /\ ~(k + Len(m) < j) /\ (j <= k => j \in 1 .. k)
      BY <1>0
    <3> QED
      BY <1>4, <3>1
  <2>4. \A j \in 1 .. k + Len(m) : t[j] \in Upto(s, k) \cup Upto(m, Len(m))
    BY <2>1 DEF Upto
  <2>2. ASSUME NEW j \in 1 .. Len(m) PROVE \E i \in 1 .. k + Len(m) : m[j] = t[i]
    <3>1. k + j \in 1 .. k + Len(m) /\ t[k + j] = m[j]
      BY <1>0, <1>1
    <3> QED
      BY <3>1
  <2>3. ASSUME NEW j \in 1 .. k PROVE \E i \in 1 .. k + Len(m) : s[j] = t[i]
    BY <1>0, <1>1
  <2> QED
    <3>1. Upto(t, k + Len(m)) \subseteq Upto(s, k) \cup Upto(m, Len(m))
      BY <2>4 DEF Upto
    <3>2. Upto(s, k) \subseteq Upto(t, k + Len(m))
      BY <2>3 DEF Upto
    <3>3. Upto(m, Len(m)) \subseteq Upto(t, k + Len(m))
      BY <2>2 DEF Upto
    <3> QED
      BY <3>1, <3>2, <3>3
<1>8. ASSUME NEW n \in 0 .. k PROVE Upto(t, n) = Upto(s, n)
  <2>1. \A j \in 1 .. n : j \in 1 .. k
    BY <1>0
  <2>2. \A j \in 1 .. n : t[j] = s[j]
    BY <1>1, <2>1
  <2> QED
    BY <2>2 DEF Upto
<1>9. t \in Lines
  BY <1>1, <1>5 DEF Lines
<1> QED
  BY <1>2, <1>6, <1>7, <1>8, <1>9 DEF t

(* No row, and one row, as lines.                                           *)
LEMMA ShortLines ==
    /\ <<>> \in Lines /\ Len(<<>>) = 0 /\ Upto(<<>>, 0) = {}
    /\ \A r \in Row : <<r>> \in Lines /\ Len(<<r>>) = 1 /\ Upto(<<r>>, 1) = {r}
BY DEF Lines, IsInjective, Upto

-----------------------------------------------------------------------------
(* The invariant: the parts that speak of the line.                         *)

LineInv == TypeOK /\ LineIsPending /\ \A r \in Row : status[r] = "none" => attempts[r] = 0

LEMMA InitLine == Init => LineInv
<1> SUFFICES ASSUME Init PROVE LineInv
  OBVIOUS
<1>1. Pending = {} /\ line = <<>> /\ ripe = 0 /\ batch = {}
  BY DEF Init, Pending
<1>2. TypeOK
  <2>1. 0 \in 0 .. MaxAttempts /\ line \in Seq(Row) /\ ripe \in 0 .. Len(line)
    BY OutboxAssumption, <1>1, ShortLines DEF Lines
  <2> QED
    BY <2>1 DEF Init, TypeOK
<1>3. LineIsPending
  BY <1>1, ShortLines DEF LineIsPending, Lines, Upto
<1> QED
  BY <1>2, <1>3 DEF Init, LineInv

LEMMA LineFacts ==
    ASSUME LineInv
    PROVE  /\ line \in Lines /\ Len(line) \in Nat /\ ripe \in 0 .. Len(line)
           /\ Upto(line, Len(line)) = Pending /\ batch \subseteq Upto(line, ripe)
           /\ Upto(line, ripe) \subseteq Pending
BY LenProperties DEF LineInv, TypeOK, LineIsPending, Lines, Upto

(* Rows that were not pending join those that are due.                      *)
LEMMA JoinKeepsLine ==
    ASSUME LineInv, NEW rows \in Lines, Upto(rows, Len(rows)) \cap Pending = {},
           Join(rows, Len(rows), ripe, line)
    PROVE  /\ line' \in Lines /\ ripe' \in 0 .. Len(line')
           /\ Upto(line', Len(line')) = Pending \cup Upto(rows, Len(rows))
           /\ Upto(line, ripe) \subseteq Upto(line', ripe')
<1>1. line \in Lines /\ ripe \in 0 .. Len(line) /\ Len(line) \in Nat /\ Upto(line, Len(line)) = Pending
  BY LineFacts
<1>2. Len(rows) \in Nat
  BY LenProperties DEF Lines
<1> DEFINE t == Put(line, ripe, rows)
<1>3. /\ t \in Lines /\ Len(t) = Len(line) + Len(rows)
      /\ Upto(t, Len(line) + Len(rows)) = Upto(line, Len(line)) \cup Upto(rows, Len(rows))
      /\ Upto(t, ripe + Len(rows)) = Upto(line, ripe) \cup Upto(rows, Len(rows))
  <2>1. Upto(rows, Len(rows)) \cap Upto(line, Len(line)) = {}
    BY <1>1
  <2> QED
    BY <1>1, <2>1, JoinsLine
<1>4. line' = t /\ ripe' = ripe + Len(rows)
  BY DEF Join, Put
<1> HIDE DEF t
<1> QED
  BY <1>1, <1>2, <1>3, <1>4

(* A row whose request ended leaves the line, then others come in.          *)
LEMMA EndKeepsLine ==
    ASSUME LineInv, NEW r \in batch
    PROVE  LET others == RemoveFirst(line, r)
           IN  /\ others \in Lines /\ Len(others) \in Nat /\ ripe - 1 \in 0 .. Len(others)
               /\ Upto(others, Len(others)) = Pending \ {r}
               /\ batch \ {r} \subseteq Upto(others, ripe - 1)
<1>1. /\ line \in Lines /\ Len(line) \in Nat /\ ripe \in 0 .. Len(line) /\ r \in Upto(line, ripe)
      /\ Upto(line, Len(line)) = Pending /\ batch \subseteq Upto(line, ripe)
  BY LineFacts
<1> DEFINE others == RemoveFirst(line, r)
<1>2. /\ others \in Lines /\ Len(others) = Len(line) - 1
      /\ Upto(others, Len(others)) = Upto(line, Len(line)) \ {r}
      /\ Upto(others, ripe - 1) = Upto(line, ripe) \ {r}
  BY <1>1, LeavesLine
<1>3. ripe > 0 /\ Len(others) \in Nat
  BY <1>1, <1>2, LenProperties DEF Upto, Lines
<1> HIDE DEF others
<1>4. ripe - 1 \in 0 .. Len(others)
  BY <1>1, <1>2, <1>3
<1> QED
  BY <1>1, <1>2, <1>3, <1>4 DEF others

LEMMA EnqueueKeepsLine == ASSUME LineInv, NEW e \in Event, Enqueue(e) PROVE LineInv'
<1> DEFINE r == Compose(e)
<1>1. r \in Row /\ status[r] = "none"
  BY DEF Enqueue, Row, Compose
<1>2. <<r>> \in Lines /\ Len(<<r>>) = 1 /\ Upto(<<r>>, 1) = {r}
  BY <1>1, ShortLines
<1> HIDE DEF r
<1>3. /\ line' \in Lines /\ ripe' \in 0 .. Len(line')
      /\ Upto(line', Len(line')) = Pending \cup {r}
      /\ Upto(line, ripe) \subseteq Upto(line', ripe')
  <2>1. Join(<<r>>, Len(<<r>>), ripe, line)
    BY <1>2 DEF Enqueue, r
  <2>2. Upto(<<r>>, Len(<<r>>)) \cap Pending = {}
    BY <1>1, <1>2 DEF Pending
  <2> QED
    BY <1>2, <2>1, <2>2, JoinKeepsLine
<1>4. status' = [status EXCEPT ![r] = "pending"] /\ attempts' = attempts /\ batch' = batch /\ up' = up
  BY DEF Enqueue, r
<1>5. TypeOK'
  BY <1>1, <1>3, <1>4 DEF LineInv, TypeOK, Lines
<1>6. Pending' = Pending \cup {r}
  BY <1>1, <1>4 DEF LineInv, TypeOK, Pending
<1>7. \A x \in Pending' : attempts'[x] < MaxAttempts
  BY <1>1, <1>4, <1>6, OutboxAssumption DEF LineInv, LineIsPending
<1>8. batch' \subseteq Upto(line', ripe')
  BY <1>3, <1>4, LineFacts
<1> QED
  BY <1>1, <1>3, <1>4, <1>5, <1>6, <1>7, <1>8 DEF LineInv, LineIsPending, Lines, TypeOK

LEMMA RequeueKeepsLine == ASSUME LineInv, NEW rows, RequeueDead(rows) PROVE LineInv'
<1>1. rows \in Lines /\ Len(rows) \in Nat /\ DOMAIN rows = 1 .. Len(rows)
  BY LenProperties, SeqMonotonic DEF RequeueDead, Lines, Dead
<1>2. Upto(rows, Len(rows)) = ToSet(rows) /\ ToSet(rows) \subseteq Dead
  BY <1>1, ElementOfSeq DEF RequeueDead, Upto, ToSet
<1>3. Dead \cap Pending = {} /\ Dead \subseteq Row
  BY DEF Dead, Pending
<1>4. /\ line' \in Lines /\ ripe' \in 0 .. Len(line')
      /\ Upto(line', Len(line')) = Pending \cup ToSet(rows)
      /\ Upto(line, ripe) \subseteq Upto(line', ripe')
  BY <1>1, <1>2, <1>3, JoinKeepsLine DEF RequeueDead
<1>5. /\ status' = [r \in Row |-> IF r \in ToSet(rows) THEN "pending" ELSE status[r]]
      /\ attempts' = [r \in Row |-> IF r \in ToSet(rows) THEN 0 ELSE attempts[r]]
      /\ batch' = batch /\ up' = up
  BY DEF RequeueDead, Recounted
<1>6. Pending' = Pending \cup ToSet(rows)
  BY <1>2, <1>3, <1>5 DEF Pending
<1>7. TypeOK'
  <2>1. status' \in [Row -> {"none", "pending", "delivered", "dead"}]
    BY <1>5 DEF LineInv, TypeOK
  <2>2. attempts' \in [Row -> 0 .. MaxAttempts]
    BY <1>5, OutboxAssumption DEF LineInv, TypeOK
  <2> QED
    BY <1>4, <1>5, <2>1, <2>2 DEF LineInv, TypeOK, Lines
<1>8. \A x \in Pending' : attempts'[x] < MaxAttempts
  BY <1>2, <1>3, <1>5, <1>6, OutboxAssumption DEF LineInv, LineIsPending, Pending
<1>9. batch' \subseteq Upto(line', ripe')
  BY <1>4, <1>5, LineFacts
<1>10. \A x \in Row : status'[x] = "none" => attempts'[x] = 0
  BY <1>5 DEF LineInv
<1> QED
  BY <1>4, <1>6, <1>7, <1>8, <1>9, <1>10 DEF LineInv, LineIsPending, Lines

LEMMA DeliveredKeepsLine == ASSUME LineInv, NEW r \in Row, Delivered(r) PROVE LineInv'
<1> DEFINE others == RemoveFirst(line, r)
<1>1. r \in batch /\ r \in Pending
  BY LineFacts DEF Delivered
<1>2. /\ others \in Lines /\ Len(others) \in Nat /\ ripe - 1 \in 0 .. Len(others)
      /\ Upto(others, Len(others)) = Pending \ {r}
      /\ batch \ {r} \subseteq Upto(others, ripe - 1)
  BY <1>1, EndKeepsLine
<1> HIDE DEF others
<1> DEFINE t == Put(others, ripe - 1, <<>>)
<1>3. /\ t \in Lines /\ Len(t) = Len(others)
      /\ Upto(t, Len(t)) = Upto(others, Len(others))
      /\ Upto(t, ripe - 1) = Upto(others, ripe - 1)
  <2>1. Upto(<<>>, Len(<<>>)) \cap Upto(others, Len(others)) = {}
    BY ShortLines
  <2>2. /\ t \in Lines /\ Len(t) = Len(others) + Len(<<>>)
        /\ Upto(t, Len(others) + Len(<<>>)) = Upto(others, Len(others)) \cup Upto(<<>>, Len(<<>>))
        /\ \A n \in 0 .. ripe - 1 : Upto(t, n) = Upto(others, n)
    BY <1>2, <2>1, ShortLines, JoinsLine
  <2> HIDE DEF t
  <2> QED
    BY <1>2, <2>2, ShortLines
<1>4. line' = t /\ ripe' = ripe - 1
  BY <1>2 DEF Delivered, Join, Put, others
<1> HIDE DEF t
<1>5. /\ status' = [status EXCEPT ![r] = "delivered"] /\ attempts' = [attempts EXCEPT ![r] = @ + 1]
      /\ batch' = batch \ {r} /\ up' = up
  BY DEF Delivered
<1>6. Pending' = Pending \ {r}
  BY <1>5 DEF LineInv, TypeOK, Pending
<1>7. TypeOK'
  <2>1. attempts[r] + 1 \in 0 .. MaxAttempts
    BY <1>1, OutboxAssumption DEF LineInv, LineIsPending, TypeOK
  <2>2. attempts' \in [Row -> 0 .. MaxAttempts]
    BY <1>5, <2>1 DEF LineInv, TypeOK
  <2>3. status' \in [Row -> {"none", "pending", "delivered", "dead"}]
    BY <1>5 DEF LineInv, TypeOK
  <2> QED
    BY <1>2, <1>3, <1>4, <1>5, <2>2, <2>3 DEF LineInv, TypeOK, Lines
<1>8. \A x \in Pending' : attempts'[x] < MaxAttempts
  BY <1>5, <1>6 DEF LineInv, LineIsPending, TypeOK, Pending
<1>9. \A x \in Row : status'[x] = "none" => attempts'[x] = 0
  BY <1>5 DEF LineInv, TypeOK
<1> QED
  BY <1>2, <1>3, <1>4, <1>5, <1>6, <1>7, <1>8, <1>9 DEF LineInv, LineIsPending, Lines

(* A failed delivery writes at most one alert, and that is a new row.        *)
LEMMA OneAlert ==
    ASSUME NEW r \in Row, NEW n, NEW permanent
    PROVE  LET alerts == NewAlerts(r, n, permanent)
               m == IF alerts = {} THEN <<>> ELSE <<Fallback(r[2])>>
           IN  /\ \A f \in alerts : f \in Row /\ status[f] = "none"
               /\ m \in Lines /\ Len(m) = (IF alerts = {} THEN 0 ELSE 1)
               /\ Upto(m, Len(m)) = alerts
<1> DEFINE alerts == NewAlerts(r, n, permanent)
<1>1. \A f \in alerts : f \in Row /\ f = Fallback(r[2]) /\ status[f] = "none"
  BY DEF NewAlerts
<1> HIDE DEF alerts
<1>2. CASE alerts = {}
  BY <1>2, ShortLines DEF alerts
<1>3. CASE alerts # {}
  <2>1. Fallback(r[2]) \in Row /\ alerts = {Fallback(r[2])}
    BY <1>1, <1>3
  <2>2. <<Fallback(r[2])>> \in Lines /\ Len(<<Fallback(r[2])>>) = 1
        /\ Upto(<<Fallback(r[2])>>, 1) = alerts
    BY <2>1, ShortLines
  <2> QED
    BY <1>1, <1>3, <2>2 DEF alerts
<1> QED
  BY <1>2, <1>3

LEMMA FailedKeepsLine ==
    ASSUME LineInv, NEW r \in Row, NEW permanent \in BOOLEAN, Failed(r, permanent)
    PROVE  LineInv'
<1> DEFINE n == attempts[r] + 1
           dies == GivesUp(n, permanent)
           alerts == NewAlerts(r, n, permanent)
           others == RemoveFirst(line, r)
           m == IF alerts = {} THEN <<>> ELSE <<Fallback(r[2])>>
           back(i) == IF dies THEN others ELSE InsertAt(others, i, r)
           kept == IF dies THEN Pending \ {r} ELSE Pending
<1>1. r \in batch /\ r \in Pending /\ n \in 1 .. MaxAttempts /\ (~dies => n < MaxAttempts)
  BY LineFacts, OutboxAssumption DEF Failed, GivesUp, LineInv, LineIsPending, TypeOK
<1>2. /\ others \in Lines /\ Len(others) \in Nat /\ ripe - 1 \in 0 .. Len(others)
      /\ Upto(others, Len(others)) = Pending \ {r}
      /\ batch \ {r} \subseteq Upto(others, ripe - 1)
  BY <1>1, EndKeepsLine
<1>3. /\ \A f \in alerts : f \in Row /\ status[f] = "none"
      /\ m \in Lines /\ Len(m) = (IF alerts = {} THEN 0 ELSE 1)
      /\ Upto(m, Len(m)) = alerts
  BY OneAlert
<1>4. /\ status' = [x \in Row |-> IF x \in alerts THEN "pending"
                                  ELSE IF x = r /\ dies THEN "dead" ELSE status[x]]
      /\ attempts' = [attempts EXCEPT ![r] = n] /\ batch' = batch \ {r} /\ up' = up
  BY DEF Failed
<1>5. PICK i \in ripe .. Len(others) + 1 : Join(m, Len(m), ripe - 1, back(i))
  BY <1>3 DEF Failed
<1> HIDE DEF n, dies, alerts, others, m
<1>6. /\ back(i) \in Lines /\ Len(back(i)) \in Nat /\ ripe - 1 \in 0 .. Len(back(i))
      /\ Upto(back(i), Len(back(i))) = kept /\ Upto(back(i), ripe - 1) = Upto(others, ripe - 1)
  <2>1. CASE dies
    BY <1>2, <2>1
  <2>2. CASE ~dies
    <3>1. ripe \in Nat /\ i - 1 \in 0 .. Len(others) /\ ripe - 1 \in 0 .. i - 1 /\ (i - 1) + 1 = i
      BY <1>2 DEF LineInv, TypeOK
    <3> DEFINE one == <<r>>
    <3>2. back(i) = Put(others, i - 1, one)
      BY <2>2, <3>1 DEF InsertAt, Put, one
    <3>3. one \in Lines /\ Len(one) = 1 /\ Upto(one, 1) = {r}
      BY ShortLines DEF one
    <3> HIDE DEF back, one
    <3>4. /\ back(i) \in Lines /\ Len(back(i)) = Len(others) + 1
          /\ Upto(back(i), Len(others) + 1) = Upto(others, Len(others)) \cup {r}
          /\ \A k \in 0 .. i - 1 : Upto(back(i), k) = Upto(others, k)
      <4>1. Upto(one, Len(one)) \cap Upto(others, Len(others)) = {}
        BY <1>2, <3>3
      <4> DEFINE x == Put(others, i - 1, one)
      <4>2. /\ x \in Lines /\ Len(x) = Len(others) + Len(one)
            /\ Upto(x, Len(others) + Len(one)) = Upto(others, Len(others)) \cup Upto(one, Len(one))
            /\ \A k \in 0 .. i - 1 : Upto(x, k) = Upto(others, k)
        <5>1. others \in Lines /\ i - 1 \in 0 .. Len(others) /\ one \in Lines
          BY <1>2, <3>1, <3>3
        <5> QED
          BY ONLY <4>1, <5>1, JoinsLine
      <4> HIDE DEF x
      <4>3. back(i) = x
        BY <3>2 DEF x
      <4> QED
        BY <3>3, <4>2, <4>3
    <3>5. Upto(back(i), Len(back(i))) = kept
      BY <1>1, <1>2, <2>2, <3>4
    <3> QED
      BY <1>2, <3>1, <3>4, <3>5
  <2> QED
    BY <2>1, <2>2
<1> HIDE DEF back
<1>7. kept \subseteq Pending /\ kept \cap alerts = {}
  BY <1>3 DEF Pending
<1> DEFINE t == Put(back(i), ripe - 1, m)
<1>8. /\ t \in Lines /\ Len(t) = Len(back(i)) + Len(m)
      /\ Upto(t, Len(t)) = kept \cup alerts
      /\ Upto(t, ripe - 1 + Len(m)) = Upto(others, ripe - 1) \cup alerts
  <2>1. Upto(m, Len(m)) \cap Upto(back(i), Len(back(i))) = {}
    BY <1>3, <1>6, <1>7
  <2>2. /\ t \in Lines /\ Len(t) = Len(back(i)) + Len(m)
        /\ Upto(t, Len(back(i)) + Len(m)) = Upto(back(i), Len(back(i))) \cup Upto(m, Len(m))
        /\ Upto(t, ripe - 1 + Len(m)) = Upto(back(i), ripe - 1) \cup Upto(m, Len(m))
    <3>1. back(i) \in Lines /\ ripe - 1 \in 0 .. Len(back(i)) /\ m \in Lines
      BY <1>3, <1>6
    <3> QED
      BY ONLY <2>1, <3>1, JoinsLine
  <2> HIDE DEF t
  <2> QED
    BY <1>3, <1>6, <2>2
<1>9. line' = t /\ ripe' = ripe - 1 + Len(m)
  BY <1>5 DEF Join, Put
<1> HIDE DEF t
<1>10. ripe' \in 0 .. Len(line')
  <2>1. Len(m) \in Nat
    BY <1>3
  <2> QED
    BY <1>6, <1>8, <1>9, <2>1
<1>11. Pending' = kept \cup alerts
  <2> HIDE DEF kept
  <2>1. \A x \in Row : status'[x] = "pending" <=> x \in alerts \/ (x \in Pending /\ ~(x = r /\ dies))
    BY <1>4 DEF Pending
  <2>2. \A x : x \in kept <=> x \in Pending /\ ~(x = r /\ dies)
    BY DEF kept
  <2> QED
    BY <1>3, <2>1, <2>2 DEF Pending
<1>12. TypeOK'
  <2>1. status' \in [Row -> {"none", "pending", "delivered", "dead"}]
    BY <1>4 DEF LineInv, TypeOK
  <2>2. attempts' \in [Row -> 0 .. MaxAttempts]
    BY <1>1, <1>4 DEF LineInv, TypeOK
  <2> QED
    BY <1>4, <1>8, <1>9, <1>10, <2>1, <2>2 DEF LineInv, TypeOK, Lines
<1>13. \A x \in Pending' : attempts'[x] < MaxAttempts
  <2> SUFFICES ASSUME NEW x \in Pending' PROVE attempts'[x] < MaxAttempts
    OBVIOUS
  <2>1. CASE x \in alerts
    <3>1. x \in Row /\ attempts[x] = 0 /\ x # r
      BY <1>1, <1>3, <2>1 DEF LineInv, Pending
    <3> QED
      BY <1>4, <3>1, OutboxAssumption DEF LineInv, TypeOK
  <2>2. CASE x \in kept /\ x = r
    BY <1>1, <1>4, <2>2 DEF LineInv, TypeOK
  <2>3. CASE x \in kept /\ x # r
    BY <1>4, <1>7, <2>3 DEF LineInv, LineIsPending, TypeOK, Pending
  <2> QED
    BY <1>11, <2>1, <2>2, <2>3
<1>14. batch' \subseteq Upto(line', ripe')
  BY <1>2, <1>4, <1>8, <1>9
<1>15. \A x \in Row : status'[x] = "none" => attempts'[x] = 0
  BY <1>1, <1>4 DEF LineInv, TypeOK, Pending
<1> QED
  BY <1>8, <1>9, <1>11, <1>12, <1>13, <1>14, <1>15 DEF LineInv, LineIsPending, Lines

(* A batch is taken from the rows that are due.                             *)
LEMMA StartBatchKeepsLine == ASSUME LineInv, StartBatch PROVE LineInv'
<1> DEFINE k == IF ripe < Concurrency THEN ripe ELSE Concurrency
<1>1. k \in 0 .. ripe /\ ripe \in Nat
  BY OutboxAssumption DEF LineInv, TypeOK
<1>2. batch' = Upto(line, k)
  BY DEF StartBatch, OldestDue
<1> HIDE DEF k
<1>3. Upto(line, k) \subseteq Upto(line, ripe)
  BY <1>1 DEF Upto
<1>4. Upto(line, ripe) \subseteq Row
  BY LineFacts DEF Pending
<1> QED
  BY <1>2, <1>3, <1>4 DEF StartBatch, LineInv, LineIsPending, TypeOK, Pending

(* More rows come due.                                                      *)
LEMMA RipenKeepsLine == ASSUME LineInv, NEW r \in Row, RipenTo(r) PROVE LineInv'
<1>1. PICK i \in ripe + 1 .. Len(line) : ripe' = i
  BY DEF RipenTo
<1>2. ripe \in Nat /\ Len(line) \in Nat
  BY LineFacts
<1>3. ripe' \in 0 .. Len(line) /\ Upto(line, ripe) \subseteq Upto(line, ripe')
  BY <1>1, <1>2 DEF Upto
<1> QED
  BY <1>3 DEF RipenTo, LineInv, LineIsPending, TypeOK, Pending

LEMMA LineStep == ASSUME LineInv, [Next]_vars PROVE LineInv'
<1>1. CASE Crash \/ Start \/ \E r \in Row : Raises(r)
  BY <1>1 DEF Crash, Start, Raises, LineInv, LineIsPending, TypeOK, Pending
<1>2. CASE UNCHANGED vars
  BY <1>2 DEF vars, LineInv, LineIsPending, TypeOK, Pending
<1> QED
  BY <1>1, <1>2, EnqueueKeepsLine, RequeueKeepsLine, DeliveredKeepsLine, FailedKeepsLine,
     StartBatchKeepsLine, RipenKeepsLine DEF Next, Responds

-----------------------------------------------------------------------------
(* The line invariant and the alert's together are inductive: IndInv is the *)
(* invariant of every behaviour, for any limits and any rows.               *)
THEOREM OutboxInvariant == Spec => []IndInv
<1>1. LineInv /\ AlertInv => IndInv
  BY DEF LineInv, AlertInv, IndInv
<1> QED
  BY <1>1, InitLine, LineStep, InitAlerts, AlertStep, PTL DEF Spec

(* The line holds the pending rows, each once, those in flight are due and   *)
(* pending, and a pending row has attempts left: due_outbox never returns a *)
(* row that is settled, nor misses one.                                     *)
THEOREM LineIsThePending == Spec => []LineIsPending
<1>1. IndInv => LineIsPending
  BY DEF IndInv
<1> QED
  BY <1>1, OutboxInvariant, PTL

(* A critical row is never dead without its alert.                         *)
THEOREM FallbackIsKept == Spec => []FallbackKept
<1>1. AlertInv => FallbackKept
  BY DEF AlertInv
<1> QED
  BY <1>1, InitAlerts, AlertStep, PTL DEF Spec

-----------------------------------------------------------------------------
(* Outbox implements RowLife.                                               *)

(* A failed attempt is a turn in the life of its row, and the insertion of  *)
(* the alert it leaves.                                                    *)
LEMMA FailedLives ==
    ASSUME LineInv, NEW r \in Row, NEW permanent \in BOOLEAN, Failed(r, permanent)
    PROVE  Life!LNext
<1> DEFINE n == attempts[r] + 1
           alerts == NewAlerts(r, n, permanent)
<1>1. status[r] = "pending" /\ attempts[r] < MaxAttempts /\ attempts[r] \in Nat /\ MaxAttempts \in Nat
  BY LineFacts, OutboxAssumption DEF LineInv, TypeOK, LineIsPending, Failed, Pending
<1>2. /\ status' = [x \in Row |-> IF x \in alerts THEN "pending"
                                  ELSE IF x = r /\ GivesUp(n, permanent) THEN "dead" ELSE status[x]]
      /\ attempts' = [attempts EXCEPT ![r] = n]
  BY DEF Failed
<1>3. \A x \in alerts : status[x] = "none" /\ x # r
  BY <1>1 DEF NewAlerts
<1>4. n \in Nat /\ (n < MaxAttempts \/ GivesUp(n, permanent)) /\ n <= MaxAttempts
  BY <1>1 DEF GivesUp
<1>5. n = attempts[r] + 1
  OBVIOUS
<1> HIDE DEF n, alerts
<1>6. ASSUME NEW x \in Row PROVE Life!Lives(x)
  <2>1. CASE x \in alerts
    <3>1. attempts[x] = 0 /\ attempts'[x] = attempts[x]
      BY <1>2, <1>3, <2>1 DEF LineInv, TypeOK
    <3> QED
      BY <1>2, <1>3, <2>1, <3>1 DEF Life!Lives, Life!Inserted
  <2>2. CASE x = r
    <3>1. attempts'[x] = n /\ x \notin alerts
      BY <1>2, <1>3, <2>2 DEF LineInv, TypeOK
    <3>2. CASE GivesUp(n, permanent)
      BY <1>1, <1>2, <1>4, <1>5, <2>2, <3>1, <3>2 DEF Life!Lives, Life!Ended, Life!Turns
    <3>3. CASE ~GivesUp(n, permanent)
      BY <1>1, <1>2, <1>4, <1>5, <2>2, <3>1, <3>3 DEF Life!Lives, Life!Retried, Life!Turns
    <3> QED
      BY <3>2, <3>3
  <2>3. CASE x \notin alerts /\ x # r
    BY <1>2, <2>3 DEF Life!Lives, Life!Stays, LineInv, TypeOK
  <2> QED
    BY <2>1, <2>2, <2>3
<1> QED
  BY <1>6 DEF Life!LNext

(* Each step is a step in the life of the rows it concerns.                 *)
LEMMA LifeStep == ASSUME LineInv, [Next]_vars PROVE Life!LNext
<1> USE DEF Life!LNext, Life!Lives
<1>1. ASSUME NEW e \in Event, Enqueue(e) PROVE Life!LNext
  BY <1>1 DEF Enqueue, LineInv, TypeOK, Life!Inserted, Life!Stays
<1>2. ASSUME NEW r \in Row, Delivered(r) PROVE Life!LNext
  <2>1. status[r] = "pending" /\ attempts[r] + 1 <= MaxAttempts
    BY <1>2, LineFacts, OutboxAssumption DEF Delivered, LineInv, TypeOK, LineIsPending, Pending
  <2> QED
    BY <1>2, <2>1 DEF Delivered, LineInv, TypeOK, Life!Ended, Life!Stays, Life!Turns
<1>3. ASSUME NEW r \in Row, NEW permanent \in BOOLEAN, Failed(r, permanent) PROVE Life!LNext
  BY <1>3, FailedLives
<1>4. ASSUME NEW rows, RequeueDead(rows) PROVE Life!LNext
  <2>1. ToSet(rows) \subseteq Dead
    BY <1>4, ElementOfSeq DEF RequeueDead, ToSet
  <2> QED
    BY <1>4, <2>1 DEF RequeueDead, Recounted, Dead, Life!Requeued, Life!Stays, Life!Turns
<1>5. CASE UNCHANGED <<status, attempts>>
  BY <1>5 DEF Life!Stays
<1> HIDE DEF Life!LNext, Life!Lives
<1> QED
  BY <1>1, <1>2, <1>3, <1>4, <1>5 DEF Next, vars, RipenTo, StartBatch, Responds, Raises, Crash, Start

(* The rows of Outbox live as RowLife says, as those of Bridge do: the order *)
(* in which they are served, batches and backoff change nothing in it.      *)
THEOREM RowsLiveInLine == Spec => Life!LSpec
<1>1. Init => Life!LInit
  BY DEF Init, Life!LInit
<1>2. LineInv /\ [Next]_vars => [Life!LNext]_Life!lvars
  BY LifeStep
<1> QED
  BY <1>1, <1>2, InitLine, LineStep, PTL DEF Spec, Life!LSpec
=============================================================================
