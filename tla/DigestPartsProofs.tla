-------------------------- MODULE DigestPartsProofs --------------------------
(***************************************************************************)
(* A digest lists every row that waits exactly once, in parts that keep to   *)
(* their limits and profiles, for any rows, limits and profiles.            *)
(***************************************************************************)
EXTENDS DigestParts, SequenceTheorems, WellFoundedInduction, TLAPS

(* Rows and scores are bounded, so a least and a greatest one exist.         *)
LEMMA LeastOf ==
    ASSUME NEW T \in SUBSET Nat, T # {}
    PROVE  Min(T) \in T /\ \A y \in T : Min(T) <= y
<1> DEFINE R == {p \in Nat \X Nat : p[1] < p[2]}
<1>1. R = OpToRel(<, Nat)
  BY Zenon DEF OpToRel
<1>2. IsWellFoundedOn(R, Nat)
  BY <1>1, NatLessThanWellFounded
<1>3. \A x, y \in Nat : <<y, x>> \in R <=> y < x
  OBVIOUS
<1> HIDE DEF R
<1>4. PICK x \in T : \A y \in T : ~ (<<y, x>> \in R)
  BY <1>2, WFMin
<1>5. ASSUME NEW y \in T PROVE x <= y
  <2>1. x \in Nat /\ y \in Nat
    OBVIOUS
  <2>2. ~ (y < x)
    BY <1>3, <1>4, <2>1, Zenon
  <2> QED
    BY <2>1, <2>2
<1> QED
  BY <1>5 DEF Min

LEMMA GreatestOf ==
    ASSUME NEW n \in Nat, NEW T \in SUBSET (0 .. n), T # {}
    PROVE  Max(T) \in T /\ \A y \in T : y <= Max(T)
<1> DEFINE U == {n - x : x \in T}
<1>1. U \in SUBSET Nat /\ U # {}
  <2>1. \A x \in T : n - x \in Nat
    OBVIOUS
  <2> QED
    BY <2>1
<1>2. Min(U) \in U /\ \A y \in U : Min(U) <= y
  BY <1>1, LeastOf
<1>3. PICK x \in T : Min(U) = n - x
  BY <1>2
<1>4. \A y \in T : n - x <= n - y
  BY <1>2, <1>3
<1>5. x \in T /\ \A y \in T : x >= y
  BY <1>4
<1>6. Max(T) \in T /\ \A y \in T : Max(T) >= y
  BY <1>5 DEF Max
<1> QED
  BY <1>6

-----------------------------------------------------------------------------
(* What _entries and _resolved_transients make of some rows.                *)

LEMMA RowFacts ==
    ASSUME waiting \in Seq(Content)
    PROVE  /\ Len(waiting) \in Nat /\ Rows \subseteq Nat
           /\ \A r \in Rows : /\ waiting[r] \in Content /\ waiting[r].useful \in 0 .. 100
                              /\ waiting[r].size \in Nat
BY PartsAssumption, LenProperties, ElementOfSeq DEF Rows

(* Entries divide the rows.                                                 *)
LEMMA EntriesDivide ==
    ASSUME NEW rows
    PROVE  /\ \A E \in Entries(rows) : E # {} /\ E \subseteq rows
           /\ \A r \in rows : \E E \in Entries(rows) : r \in E
           /\ \A E, F \in Entries(rows) : E = F \/ E \cap F = {}
<1> DEFINE Of(first) == {r \in rows : waiting[r].fp = waiting[first].fp}
<1>1. \A first \in rows : Of(first) \in Entries(rows) /\ first \in Of(first)
  BY DEF Entries
<1>2. ASSUME NEW E \in Entries(rows) PROVE \E first \in rows : E = Of(first)
  BY DEF Entries
<1>3. ASSUME NEW first \in rows, NEW other \in rows
      PROVE  Of(first) = Of(other) \/ Of(first) \cap Of(other) = {}
  OBVIOUS
<1>4. \A E, F \in Entries(rows) : E = F \/ E \cap F = {}
  <2> SUFFICES ASSUME NEW E \in Entries(rows), NEW F \in Entries(rows) PROVE E = F \/ E \cap F = {}
    OBVIOUS
  <2>1. PICK first \in rows, other \in rows : E = Of(first) /\ F = Of(other)
    BY <1>2
  <2> QED
    BY <1>3, <2>1
<1>5. \A E \in Entries(rows) : E # {} /\ E \subseteq rows
  BY <1>1, <1>2
<1> QED
  BY <1>1, <1>4, <1>5

(* Groups divide the entries.                                               *)
LEMMA GroupsDivide ==
    ASSUME NEW entries
    PROVE  /\ \A g \in Groups(entries) : g # {} /\ g \subseteq entries
           /\ \A g, h \in Groups(entries) : g = h \/ g \cap h = {}
           /\ \A g \in Groups(entries) : \A E \in g : \A F \in entries :
                  F \in g <=> SameEntity(E, F)
<1>1. \A E \in entries : E \in Group(E, entries) /\ Group(E, entries) \subseteq entries
  BY DEF Group, SameEntity
<1>2. ASSUME NEW E \in entries, NEW F \in entries
      PROVE  Group(E, entries) = Group(F, entries) \/ Group(E, entries) \cap Group(F, entries) = {}
  BY DEF Group, SameEntity
<1>3. ASSUME NEW C \in entries, NEW E \in Group(C, entries), NEW F \in entries
      PROVE  F \in Group(C, entries) <=> SameEntity(E, F)
  BY DEF Group, SameEntity
<1> QED
  BY <1>1, <1>2, <1>3 DEF Groups

(* The newest entry of a group holds its last row.                          *)
LEMMA NewestHasLast ==
    ASSUME waiting \in Seq(Content), NEW rows \in SUBSET Rows, NEW g \in Groups(Entries(rows))
    PROVE  /\ Newest(g) \in g /\ Max(UNION g) \in Newest(g)
           /\ \A E \in g : \A r \in E : r <= Max(UNION g)
<1>1. g # {} /\ g \subseteq Entries(rows)
  BY GroupsDivide
<1>2. UNION g # {} /\ UNION g \subseteq Rows
  BY <1>1, EntriesDivide
<1>3. UNION g \in SUBSET (0 .. Len(waiting)) /\ Len(waiting) \in Nat
  BY <1>2, RowFacts DEF Rows
<1> DEFINE last == Max(UNION g)
<1>4. last \in UNION g /\ \A r \in UNION g : r <= last
  BY <1>2, <1>3, GreatestOf
<1> HIDE DEF last
<1>5. PICK E \in g : last \in E
  BY <1>4
<1>6. Newest(g) = CHOOSE F \in g : last \in F
  BY DEF Newest, last
<1>7. Newest(g) \in g /\ last \in Newest(g)
  BY <1>5, <1>6
<1> QED
  BY <1>4, <1>7 DEF last

(* A resolved record stands for some of the entries of one entity.           *)
LEMMA ResolvedFacts ==
    ASSUME waiting \in Seq(Content), NEW rows \in SUBSET Rows, NEW u \in ResolvedUnits(Entries(rows))
    PROVE  \E g \in Groups(Entries(rows)) :
              /\ IsResolved(g) /\ u = Resolved(g)
              /\ u.resolved /\ u.entries = Failures(g) \cup {Newest(g)}
              /\ u.entries # {} /\ u.entries \subseteq g
<1>1. PICK g \in Groups(Entries(rows)) : IsResolved(g) /\ u = Resolved(g)
  BY DEF ResolvedUnits
<1>2. Newest(g) \in g
  BY NewestHasLast
<1> QED
  BY <1>1, <1>2 DEF Resolved, Failures

(* Units divide the entries.                                                *)
LEMMA UnitsDivide ==
    ASSUME waiting \in Seq(Content), NEW rows \in SUBSET Rows
    PROVE  LET entries == Entries(rows)
           IN  /\ \A u \in Units(entries) : u.entries # {} /\ u.entries \subseteq entries
               /\ \A u \in Units(entries) : ~u.resolved => \E E \in entries \ Collapsed(entries) : u = Item(E)
               /\ \A u \in Units(entries) : u.resolved => u \in ResolvedUnits(entries)
               /\ \A u, v \in Units(entries) : u = v \/ u.entries \cap v.entries = {}
               /\ \A E \in entries : \E u \in Units(entries) : E \in u.entries
               /\ \A u \in Units(entries) : u = [resolved |-> u.resolved, entries |-> u.entries]
                                            /\ u.resolved \in BOOLEAN
<1> DEFINE entries == Entries(rows)
<1>1. \A u \in ResolvedUnits(entries) : \E g \in Groups(entries) :
         /\ u = Resolved(g) /\ u.resolved /\ u.entries # {} /\ u.entries \subseteq g
         /\ u = [resolved |-> TRUE, entries |-> u.entries]
  BY ResolvedFacts DEF Resolved
<1>2. /\ \A g \in Groups(entries) : g # {} /\ g \subseteq entries
      /\ \A g, h \in Groups(entries) : g = h \/ g \cap h = {}
  BY GroupsDivide
<1> HIDE DEF entries
<1>3. \A u \in Units(entries) :
         \/ u \in ResolvedUnits(entries)
         \/ \E E \in entries \ Collapsed(entries) : u = Item(E)
  BY DEF Units
<1>4. \A E : Item(E) = [resolved |-> FALSE, entries |-> {E}] /\ ~Item(E).resolved /\ Item(E).entries = {E}
  BY DEF Item
<1>5. \A u \in ResolvedUnits(entries) : \A E \in u.entries : E \in Collapsed(entries)
  BY DEF Collapsed
<1>6. ASSUME NEW u \in Units(entries), NEW v \in Units(entries)
      PROVE  u = v \/ u.entries \cap v.entries = {}
  <2>1. CASE u \in ResolvedUnits(entries) /\ v \in ResolvedUnits(entries)
    <3>1. PICK g \in Groups(entries), h \in Groups(entries) :
             /\ u = Resolved(g) /\ u.entries \subseteq g
             /\ v = Resolved(h) /\ v.entries \subseteq h
      BY <1>1, <2>1
    <3> QED
      BY <1>2, <3>1
  <2>2. CASE u \in ResolvedUnits(entries) /\ \E E \in entries \ Collapsed(entries) : v = Item(E)
    BY <1>4, <1>5, <2>2
  <2>3. CASE v \in ResolvedUnits(entries) /\ \E E \in entries \ Collapsed(entries) : u = Item(E)
    BY <1>4, <1>5, <2>3
  <2>4. CASE (\E E \in entries : u = Item(E)) /\ (\E E \in entries : v = Item(E))
    BY <1>4, <2>4
  <2> QED
    BY <1>3, <2>1, <2>2, <2>3, <2>4
<1>7. ASSUME NEW E \in entries PROVE \E u \in Units(entries) : E \in u.entries
  <2>1. CASE E \in Collapsed(entries)
    BY <2>1 DEF Collapsed, Units
  <2>2. CASE E \notin Collapsed(entries)
    <3>1. Item(E) \in Units(entries)
      BY <2>2 DEF Units
    <3> QED
      BY <1>4, <3>1
  <2> QED
    BY <2>1, <2>2
<1>8. ASSUME NEW u \in Units(entries)
      PROVE  /\ u.entries # {} /\ u.entries \subseteq entries
             /\ ~u.resolved => \E E \in entries \ Collapsed(entries) : u = Item(E)
             /\ u.resolved => u \in ResolvedUnits(entries)
             /\ u = [resolved |-> u.resolved, entries |-> u.entries] /\ u.resolved \in BOOLEAN
  <2>1. CASE u \in ResolvedUnits(entries)
    <3>1. PICK g \in Groups(entries) :
             /\ u.resolved /\ u.entries # {} /\ u.entries \subseteq g
             /\ u = [resolved |-> TRUE, entries |-> u.entries]
      BY <1>1, <2>1
    <3>2. u.resolved = TRUE
      BY <3>1
    <3> QED
      BY <1>2, <2>1, <3>1, <3>2
  <2>2. CASE \E E \in entries \ Collapsed(entries) : u = Item(E)
    <3>1. PICK E \in entries \ Collapsed(entries) : u = Item(E)
      BY <2>2
    <3>2. u = [resolved |-> FALSE, entries |-> {E}]
      BY <3>1 DEF Item
    <3>3. u.resolved = FALSE /\ u.entries = {E}
      BY <3>2
    <3> QED
      BY <3>1, <3>2, <3>3
  <2> QED
    BY <1>3, <2>1, <2>2
<1> QED
  BY <1>6, <1>7, <1>8 DEF entries

(* What the proofs need of the units of some rows: they divide the rows, and *)
(* have sizes and scores.                                                  *)
LEMMA UnitRows ==
    ASSUME waiting \in Seq(Content), NEW rows \in SUBSET Rows
    PROVE  LET units == Units(Entries(rows))
           IN  /\ \A u \in units : RowsOf(u) # {} /\ RowsOf(u) \subseteq rows
               /\ \A u, v \in units : u # v => RowsOf(u) \cap RowsOf(v) = {}
               /\ UNION {RowsOf(u) : u \in units} = rows
               /\ units \subseteq Unit
<1> DEFINE entries == Entries(rows)
           units == Units(entries)
<1>1. /\ \A E \in entries : E # {} /\ E \subseteq rows
      /\ \A r \in rows : \E E \in entries : r \in E
      /\ \A E, F \in entries : E = F \/ E \cap F = {}
  BY EntriesDivide
<1>2. /\ \A u \in units : u.entries # {} /\ u.entries \subseteq entries
      /\ \A u, v \in units : u = v \/ u.entries \cap v.entries = {}
      /\ \A E \in entries : \E u \in units : E \in u.entries
      /\ \A u \in units : u = [resolved |-> u.resolved, entries |-> u.entries] /\ u.resolved \in BOOLEAN
  BY UnitsDivide
<1> HIDE DEF entries, units
<1>3. \A u \in units : RowsOf(u) # {} /\ RowsOf(u) \subseteq rows
  BY <1>1, <1>2 DEF RowsOf
<1>4. ASSUME NEW u \in units, NEW v \in units, u # v PROVE RowsOf(u) \cap RowsOf(v) = {}
  <2>1. \A E \in u.entries : \A F \in v.entries : E \cap F = {}
    BY <1>1, <1>2, <1>4
  <2> QED
    BY <2>1 DEF RowsOf
<1>5. ASSUME NEW r \in rows PROVE \E u \in units : r \in RowsOf(u)
  BY <1>1, <1>2 DEF RowsOf
<1>6. UNION {RowsOf(u) : u \in units} = rows
  BY <1>3, <1>5
<1>7. \A u \in units : u \in Unit
  <2>1. \A u \in units : u.entries \in SUBSET SUBSET Rows
    BY <1>1, <1>2
  <2> QED
    BY <1>2, <2>1 DEF Unit
<1> QED
  BY <1>3, <1>4, <1>6, <1>7 DEF units, entries

(* The most useful row of some rows.                                        *)
LEMMA UsefulIsMost ==
    ASSUME waiting \in Seq(Content), NEW E \in SUBSET Rows, E # {}
    PROVE  /\ Useful(E) \in Nat
           /\ \A r \in E : waiting[r].useful <= Useful(E)
           /\ \E r \in E : waiting[r].useful = Useful(E)
<1> DEFINE T == {waiting[r].useful : r \in E}
<1>1. T \in SUBSET (0 .. 100) /\ T # {}
  BY RowFacts
<1>2. Max(T) \in T /\ \A y \in T : y <= Max(T)
  BY <1>1, GreatestOf
<1>3. Useful(E) = Max(T)
  BY DEF Useful
<1>4. \A x : x \in T <=> \E r \in E : waiting[r].useful = x
  OBVIOUS
<1> HIDE DEF T
<1>5. Useful(E) \in 0 .. 100
  BY <1>1, <1>2, <1>3
<1>6. Useful(E) \in Nat
  <2>1. \A x \in 0 .. 100 : x \in Nat
    OBVIOUS
  <2> QED
    BY <1>5, <2>1
<1>7. \A r \in E : waiting[r].useful \in T
  BY <1>4
<1>8. \E r \in E : waiting[r].useful = Useful(E)
  BY <1>2, <1>3, <1>4
<1>9. \A r \in E : waiting[r].useful <= Useful(E)
  BY <1>2, <1>3, <1>7
<1> QED
  BY <1>8, <1>9, <1>6

LEMMA Sizes ==
    ASSUME waiting \in Seq(Content), NEW rows \in SUBSET Rows, NEW u \in Units(Entries(rows))
    PROVE  SizeOf(u) \in Nat
<1>1. RowsOf(u) # {} /\ RowsOf(u) \in SUBSET Rows
  BY UnitRows
<1>2. RowsOf(u) \in SUBSET Nat
  BY <1>1, RowFacts
<1>3. Min(RowsOf(u)) \in Rows
  BY <1>1, <1>2, LeastOf
<1> QED
  BY <1>3, RowFacts, PartsAssumption DEF SizeOf, Says

-----------------------------------------------------------------------------
(* While a digest is composed its rows stay what they are.                   *)
LEMMA SameRows ==
    ASSUME waiting' = waiting
    PROVE  /\ Rows' = Rows /\ Unit' = Unit
           /\ \A r : Profile(r)' = Profile(r)
           /\ \A p : RowsFor(p)' = RowsFor(p)
           /\ \A p : UnitsFor(p)' = UnitsFor(p)
           /\ \A u : SizeOf(u)' = SizeOf(u)
           /\ \A E : Useful(E)' = Useful(E)
           /\ \A u, p : Tops(u, p)' <=> Tops(u, p)
           /\ \A total, units : Sums(total, units)' <=> Sums(total, units)
<1>1. Rows' = Rows
  BY DEF Rows
<1>2. \A r : Profile(r)' = Profile(r)
  BY DEF Profile
<1>3. \A p : RowsFor(p)' = RowsFor(p)
  BY <1>1, <1>2 DEF RowsFor
<1>4. \A rows : Entries(rows)' = Entries(rows)
  BY DEF Entries
<1>5. \A E : Says(E)' = Says(E)
  BY DEF Says
<1>6. \A E : Useful(E)' = Useful(E)
  BY DEF Useful
<1>7. \A entries : Groups(entries)' = Groups(entries)
  BY <1>5 DEF Groups, Group, SameEntity
<1>8. \A g : Failures(g)' = Failures(g)
  BY <1>5 DEF Failures
<1>9. \A g : Resolved(g)' = Resolved(g)
  BY <1>8 DEF Resolved
<1>10. \A g : IsResolved(g)' <=> IsResolved(g)
  BY <1>5, <1>8 DEF IsResolved
<1>11. \A entries : ResolvedUnits(entries)' = ResolvedUnits(entries)
  BY <1>7, <1>9, <1>10 DEF ResolvedUnits
<1>12. \A entries : Collapsed(entries)' = Collapsed(entries)
  BY <1>11 DEF Collapsed
<1>13. \A entries : Units(entries)' = Units(entries)
  BY <1>11, <1>12 DEF Units
<1>14. \A p : UnitsFor(p)' = UnitsFor(p)
  BY <1>3, <1>4, <1>13 DEF UnitsFor
<1>15. \A u : SizeOf(u)' = SizeOf(u)
  BY <1>5 DEF SizeOf
<1>16. Unit' = Unit
  BY <1>1 DEF Unit
<1>17. \A u, p : Tops(u, p)' <=> Tops(u, p)
  BY <1>6, <1>14 DEF Tops
<1>18. \A total, units : Sums(total, units)' <=> Sums(total, units)
  BY <1>15 DEF Sums
<1> QED
  BY <1>1, <1>2, <1>3, <1>6, <1>14, <1>15, <1>16, <1>17, <1>18

-----------------------------------------------------------------------------
(* Lists of units and of parts.                                             *)

PartOf == [profile : {Profile(r) : r \in Rows}, units : Seq(Unit)]

(* A unit is appended to a list.                                            *)
LEMMA UnitAppended ==
    ASSUME NEW units \in Seq(Unit), NEW u \in Unit
    PROVE  LET longer == Append(units, u)
           IN  /\ longer \in Seq(Unit) /\ Len(longer) = Len(units) + 1 /\ Len(units) \in Nat
               /\ DOMAIN longer = 1 .. Len(units) + 1 /\ DOMAIN units = 1 .. Len(units)
               /\ \A i \in DOMAIN units : longer[i] = units[i]
               /\ longer[Len(units) + 1] = u
               /\ RowsOfAny(longer) = RowsOfAny(units) \cup RowsOf(u)
               /\ Apart(units) /\ RowsOf(u) \cap RowsOfAny(units) = {} => Apart(longer)
<1> DEFINE longer == Append(units, u)
           n == Len(units)
<1>1. /\ longer \in Seq(Unit) /\ Len(longer) = n + 1 /\ n \in Nat
      /\ \A i \in 1 .. n : longer[i] = units[i]
      /\ longer[n + 1] = u
  BY AppendProperties, LenProperties
<1>2. DOMAIN longer = 1 .. n + 1 /\ DOMAIN units = 1 .. n
  BY <1>1, LenProperties
<1> HIDE DEF longer, n
<1>3. \A i \in 1 .. n + 1 : i \in 1 .. n \/ i = n + 1
  BY <1>1
<1>4. \A i \in 1 .. n : i \in 1 .. n + 1
  BY <1>1
<1>5. n + 1 \in 1 .. n + 1
  BY <1>1
<1>6. RowsOfAny(longer) = RowsOfAny(units) \cup RowsOf(u)
  <2>1. ASSUME NEW r \in RowsOfAny(longer) PROVE r \in RowsOfAny(units) \cup RowsOf(u)
    <3>1. PICK i \in 1 .. n + 1 : r \in RowsOf(longer[i])
      BY <1>2 DEF RowsOfAny
    <3> QED
      BY <1>1, <1>2, <1>3, <3>1 DEF RowsOfAny
  <2>2. ASSUME NEW r \in RowsOfAny(units) PROVE r \in RowsOfAny(longer)
    <3>1. PICK i \in 1 .. n : r \in RowsOf(units[i])
      BY <1>2 DEF RowsOfAny
    <3>2. i \in DOMAIN longer /\ longer[i] = units[i]
      BY <1>1, <1>2, <1>4
    <3> QED
      BY <3>1, <3>2 DEF RowsOfAny
  <2>3. RowsOf(u) \subseteq RowsOfAny(longer)
    BY <1>1, <1>2, <1>5 DEF RowsOfAny
  <2> QED
    BY <2>1, <2>2, <2>3
<1>7. ASSUME Apart(units), RowsOf(u) \cap RowsOfAny(units) = {}
      PROVE  Apart(longer)
  <2>1. \A i \in 1 .. n : RowsOf(units[i]) \subseteq RowsOfAny(units)
    BY <1>2 DEF RowsOfAny
  <2> SUFFICES ASSUME NEW i \in 1 .. n + 1, NEW j \in 1 .. n + 1, i # j
               PROVE  RowsOf(longer[i]) \cap RowsOf(longer[j]) = {}
    BY <1>2 DEF Apart
  <2>2. CASE i \in 1 .. n /\ j \in 1 .. n
    BY <1>1, <1>2, <1>7, <2>2 DEF Apart
  <2>3. CASE i = n + 1 /\ j \in 1 .. n
    BY <1>1, <1>7, <2>1, <2>3
  <2>4. CASE j = n + 1 /\ i \in 1 .. n
    BY <1>1, <1>7, <2>1, <2>4
  <2> QED
    BY <1>3, <2>2, <2>3, <2>4
<1> QED
  BY <1>1, <1>2, <1>6, <1>7 DEF longer, n

(* What IndInv says of what is in hand.                                     *)
LEMMA Hands ==
    ASSUME IndInv
    PROVE  /\ waiting \in Seq(Content) /\ Rows \subseteq Nat /\ Len(parts) \in Nat
           /\ DOMAIN parts = 1 .. Len(parts) /\ parts \in Seq(PartOf)
           /\ \A k \in DOMAIN parts : parts[k].units \in Seq(Unit) /\ Len(parts[k].units) \in Nat \ {0}
                                      /\ 1 \in DOMAIN parts[k].units
           /\ \A p : RowsFor(p) \in SUBSET Rows
           /\ current \in Seq(Unit) /\ Len(current) \in Nat /\ DOMAIN current = 1 .. Len(current)
<1>1. waiting \in Seq(Content) /\ parts \in Seq(PartOf) /\ current \in Seq(Unit)
  BY DEF IndInv, TypeOK, PartOf
<1>2. Len(parts) \in Nat /\ DOMAIN parts = 1 .. Len(parts)
      /\ Len(current) \in Nat /\ DOMAIN current = 1 .. Len(current)
  BY <1>1, LenProperties
<1>3. ASSUME NEW k \in DOMAIN parts
      PROVE  parts[k].units \in Seq(Unit) /\ Len(parts[k].units) \in Nat \ {0}
             /\ 1 \in DOMAIN parts[k].units
  <2>1. parts[k] \in PartOf
    BY <1>1, <1>2, <1>3, ElementOfSeq
  <2>2. parts[k].units \in Seq(Unit)
    BY <2>1 DEF PartOf
  <2>3. Len(parts[k].units) \in 1 .. MaxItems
    BY <1>3 DEF IndInv, PartsInLimits
  <2>4. DOMAIN parts[k].units = 1 .. Len(parts[k].units) /\ Len(parts[k].units) \in Nat
    BY <2>2, LenProperties
  <2> QED
    BY <2>2, <2>3, <2>4, PartsAssumption
<1>4. Rows \subseteq Nat /\ \A p : RowsFor(p) \in SUBSET Rows
  BY DEF Rows, RowsFor
<1> QED
  BY <1>1, <1>2, <1>3, <1>4

(* The units of a profile divide its rows.                                  *)
LEMMA ProfileUnits ==
    ASSUME IndInv, NEW p
    PROVE  /\ \A u \in UnitsFor(p) : /\ RowsOf(u) # {} /\ RowsOf(u) \subseteq RowsFor(p)
                                     /\ SizeOf(u) \in Nat /\ u \in Unit
           /\ \A u, v \in UnitsFor(p) : u # v => RowsOf(u) \cap RowsOf(v) = {}
           /\ UNION {RowsOf(u) : u \in UnitsFor(p)} = RowsFor(p)
<1>1. waiting \in Seq(Content) /\ RowsFor(p) \in SUBSET Rows
  BY Hands
<1> QED
  BY <1>1, UnitRows, Sizes DEF UnitsFor

-----------------------------------------------------------------------------
(* The invariant: nothing is in hand before the first digest.                *)
LEMMA InitHands == Init => IndInv
<1> SUFFICES ASSUME Init PROVE IndInv
  OBVIOUS
<1>1. /\ waiting = <<>> /\ pc = "idle" /\ todo = {} /\ profile = "default"
      /\ left = {} /\ current = <<>> /\ size = 0 /\ parts = <<>>
  BY DEF Init
<1>2. /\ \A S : <<>> \in Seq(S)
      /\ Len(<<>>) = 0 /\ DOMAIN <<>> = {} /\ 0 \in Nat
  OBVIOUS
<1>3. TypeOK
  BY <1>1, <1>2 DEF TypeOK
<1>4. DivisionInv
  BY <1>1, <1>2 DEF DivisionInv, Listed, RowsOfAny, RowsLeft, RowsTodo, PartsApart, Apart
<1>5. UnitsInv /\ OpenerInv /\ PartsInLimits
  BY <1>1, <1>2 DEF UnitsInv, OpenerInv, PartsInLimits
<1>6. SizeInv
  BY <1>1, <1>2, PartsAssumption DEF SizeInv
<1> QED
  BY <1>3, <1>4, <1>5, <1>6 DEF IndInv

(* Nothing is in hand between two digests either.                           *)
LEMMA IdleHands ==
    ASSUME IndInv, waiting' \in Seq(Content), pc' = "idle", todo' = {}, left' = {},
           current' = <<>>, size' = 0, parts' = <<>>
    PROVE  IndInv'
<1>1. /\ \A S : <<>> \in Seq(S)
      /\ Len(<<>>) = 0 /\ DOMAIN <<>> = {} /\ 0 \in Nat
  OBVIOUS
<1>2. TypeOK'
  BY <1>1 DEF TypeOK
<1>3. DivisionInv'
  BY <1>1 DEF DivisionInv, Listed, RowsOfAny, RowsLeft, RowsTodo, PartsApart, Apart
<1>4. UnitsInv' /\ OpenerInv' /\ PartsInLimits'
  BY <1>1 DEF UnitsInv, OpenerInv, PartsInLimits
<1>5. SizeInv'
  BY <1>1, PartsAssumption DEF SizeInv
<1> QED
  BY <1>2, <1>3, <1>4, <1>5 DEF IndInv

LEMMA ArriveStep == ASSUME IndInv, NEW c \in Content, Arrive(c) PROVE IndInv'
<1>1. waiting' \in Seq(Content)
  BY AppendProperties DEF Arrive, IndInv, TypeOK
<1>2. pc' = "idle" /\ todo' = {} /\ left' = {} /\ current' = <<>> /\ size' = 0 /\ parts' = <<>>
  BY DEF Arrive, IndInv, TypeOK
<1> QED
  BY <1>1, <1>2, IdleHands

LEMMA CommitStep == ASSUME IndInv, Commit PROVE IndInv'
<1>1. waiting' \in Seq(Content)
  BY DEF Commit
<1>2. pc' = "idle" /\ todo' = {} /\ left' = {} /\ current' = <<>> /\ size' = 0 /\ parts' = <<>>
  BY DEF Commit, IndInv, TypeOK
<1> QED
  BY <1>1, <1>2, IdleHands

(* What IndInv demands of the closed parts.                                 *)
ClosedWell ==
    /\ parts \in Seq(PartOf) /\ PartsApart /\ PartsInLimits
    /\ \A k \in DOMAIN parts : \A i \in DOMAIN parts[k].units :
          parts[k].units[i] \in UnitsFor(parts[k].profile)
    /\ \A k \in DOMAIN parts : Opened(parts[k].profile)

LEMMA Closed == ASSUME IndInv PROVE ClosedWell
BY DEF ClosedWell, IndInv, TypeOK, PartOf, DivisionInv, UnitsInv, OpenerInv

(* Closed parts stay what they are.                                         *)
LEMMA PartsStay ==
    ASSUME IndInv, waiting' = waiting, parts' = parts
    PROVE  /\ Listed' = Listed /\ ClosedWell'
           /\ \A p : Opened(p) => Opened(p)'
<1>1. Listed' = Listed /\ PartsApart'
  BY Closed DEF ClosedWell, Listed, PartsApart
<1>2. parts' \in Seq(PartOf)'
  BY SameRows, Closed DEF ClosedWell, PartOf
<1>3. \A units : Fits(units)' <=> Fits(units)
  BY SameRows DEF Fits
<1>4. PartsInLimits'
  BY <1>3, Closed DEF ClosedWell, PartsInLimits
<1>5. \A p : Opened(p) <=> Opened(p)'
  BY SameRows DEF Opened
<1>6. \A p : UnitsFor(p)' = UnitsFor(p)
  BY SameRows
<1> QED
  BY <1>1, <1>2, <1>4, <1>5, <1>6, Closed DEF ClosedWell

(* What is left to show after a step that keeps the rows and the parts well. *)
LEMMA PutTogether ==
    ASSUME IndInv, waiting' = waiting, ClosedWell',
           pc' \in {"profiles", "units"},
           todo' \subseteq {Profile(r) : r \in Rows},
           left' \subseteq UnitsFor(profile'), current' \in Seq(Unit), size' \in Nat,
           pc' # "units" => left' = {} /\ current' = <<>>,
           pc' = "units" => profile' \notin todo' /\ profile' \in {Profile(r) : r \in Rows},
           current' = <<>> => size' = 0,
           Listed' \cup RowsOfAny(current') \cup RowsLeft' \cup RowsTodo' = Rows,
           Listed' \cap (RowsOfAny(current') \cup RowsLeft' \cup RowsTodo') = {},
           RowsOfAny(current') \cap (RowsLeft' \cup RowsTodo') = {},
           RowsLeft' \cap RowsTodo' = {}, Apart(current'),
           \A i \in DOMAIN current' : current'[i] \in UnitsFor(profile'),
           SizeInv',
           current' # <<>> => Opened(profile)' \/ Tops(current'[1], profile'),
           pc' = "units" /\ current' = <<>> => left' = UnitsFor(profile')
    PROVE  IndInv'
<1>1. /\ Rows' = Rows /\ Unit' = Unit
      /\ \A r : Profile(r)' = Profile(r)
      /\ \A p : UnitsFor(p)' = UnitsFor(p)
      /\ \A u, p : Tops(u, p)' <=> Tops(u, p)
  BY SameRows
<1>2. left' \subseteq Unit
  BY ProfileUnits
<1>3. TypeOK'
  <2>1. waiting' \in Seq(Content)
    BY Hands
  <2>2. {Profile(r) : r \in Rows}' = {Profile(r) : r \in Rows}
    BY <1>1
  <2> QED
    BY <1>1, <1>2, <2>1, <2>2 DEF TypeOK, ClosedWell, PartOf
<1>4. \A u, v \in left' : u # v => RowsOf(u) \cap RowsOf(v) = {}
  BY ProfileUnits
<1>5. DivisionInv'
  BY <1>1, <1>4 DEF DivisionInv, ClosedWell, RowsOfAny, Apart
<1>6. UnitsInv'
  BY <1>1 DEF UnitsInv, ClosedWell
<1>7. OpenerInv'
  BY <1>1 DEF OpenerInv, ClosedWell
<1>8. PartsInLimits'
  BY DEF ClosedWell
<1> QED
  BY <1>3, <1>5, <1>6, <1>7, <1>8 DEF IndInv

LEMMA BeginStep == ASSUME IndInv, Begin PROVE IndInv'
<1>1. /\ waiting' = waiting /\ pc' = "profiles" /\ todo' = {Profile(r) : r \in Rows}
      /\ profile' = profile /\ left' = {} /\ current' = <<>> /\ size' = 0 /\ parts' = parts /\ parts = <<>>
  BY DEF Begin, IndInv, TypeOK
<1>2. Rows' = Rows /\ \A r : Profile(r)' = Profile(r)
  BY <1>1, SameRows
<1>3. Listed' = Listed /\ ClosedWell'
  BY <1>1, PartsStay
<1>4. Listed = {} /\ RowsOfAny(current') = {} /\ RowsLeft' = {}
  BY <1>1 DEF Listed, RowsOfAny, RowsLeft
<1>5. RowsTodo' = Rows
  BY <1>1, <1>2 DEF RowsTodo
<1>6. <<>> \in Seq(Unit) /\ Apart(<<>>) /\ DOMAIN <<>> = {} /\ Len(<<>>) = 0 /\ 0 \in Nat
  BY DEF Apart
<1>7. SizeInv'
  BY <1>1, <1>6, PartsAssumption DEF SizeInv
<1> QED
  BY <1>1, <1>3, <1>4, <1>5, <1>6, <1>7, PutTogether

LEMMA NextProfileStep == ASSUME IndInv, NEW p \in todo, NextProfile(p) PROVE IndInv'
<1>1. /\ waiting' = waiting /\ pc' = "units" /\ todo' = todo \ {p} /\ profile' = p
      /\ left' = UnitsFor(p) /\ current' = current /\ size' = size /\ parts' = parts
      /\ left = {} /\ current = <<>> /\ size = 0 /\ pc = "profiles"
  BY DEF NextProfile, IndInv, TypeOK
<1>2. Rows' = Rows /\ \A r : Profile(r)' = Profile(r)
  BY <1>1, SameRows
<1>3. Listed' = Listed /\ ClosedWell'
  BY <1>1, PartsStay
<1>4. RowsOfAny(current') = {} /\ RowsOfAny(current) = {} /\ RowsLeft = {}
  BY <1>1 DEF RowsOfAny, RowsLeft
<1>5. RowsLeft' = RowsFor(p)
  BY <1>1, ProfileUnits DEF RowsLeft
<1>6. todo \subseteq {Profile(r) : r \in Rows}
  BY DEF IndInv, TypeOK
<1>7. RowsTodo' = RowsTodo \ RowsFor(p) /\ RowsFor(p) \subseteq RowsTodo
  BY <1>1, <1>2 DEF RowsTodo, RowsFor
<1>8. Listed \cup RowsTodo = Rows /\ Listed \cap RowsTodo = {}
  BY <1>1, <1>4 DEF IndInv, DivisionInv
<1>9. <<>> \in Seq(Unit) /\ Apart(<<>>) /\ DOMAIN <<>> = {} /\ Len(<<>>) = 0 /\ 0 \in Nat
  BY DEF Apart
<1>10. SizeInv'
  BY <1>1, <1>9, PartsAssumption DEF SizeInv
<1> QED
  BY <1>1, <1>3, <1>4, <1>5, <1>6, <1>7, <1>8, <1>9, <1>10, PutTogether

-----------------------------------------------------------------------------
(* The unit that is laid next leaves those left.                            *)
LEMMA UnitTaken ==
    ASSUME IndInv, pc = "units", NEW u \in left, left' = left \ {u}
    PROVE  /\ u \in UnitsFor(profile) /\ u \in Unit /\ SizeOf(u) \in Nat
           /\ RowsLeft' = RowsLeft \ RowsOf(u) /\ RowsOf(u) \subseteq RowsLeft
           /\ left \subseteq UnitsFor(profile)
<1>1. left \subseteq UnitsFor(profile)
  BY DEF IndInv, UnitsInv
<1>2. \A v \in left : v # u => RowsOf(v) \cap RowsOf(u) = {}
  BY <1>1, ProfileUnits
<1>3. \A r : r \in RowsLeft <=> \E v \in left : r \in RowsOf(v)
  BY DEF RowsLeft
<1>4. \A r : r \in RowsLeft' <=> \E v \in left \ {u} : r \in RowsOf(v)
  BY DEF RowsLeft
<1>5. RowsLeft' = RowsLeft \ RowsOf(u) /\ RowsOf(u) \subseteq RowsLeft
  BY <1>2, <1>3, <1>4
<1> QED
  BY <1>1, <1>5, ProfileUnits

(* Where two entries stand whose places differ first in the score of their   *)
(* groups, or in their own.                                                 *)
LEMMA PlacesDiffer ==
    ASSUME NEW s \in Int, NEW t \in Int, NEW r, NEW q, NEW a, NEW b,
           NEW x \in Int, NEW y \in Int, NEW m, NEW n
    PROVE  /\ s < t => Precedes(<<0, s, r, a, x, m>>, <<0, t, q, b, y, n>>)
           /\ x < y => Precedes(<<0, s, r, a, x, m>>, <<0, s, r, a, y, n>>)
<1> DEFINE one == <<0, s, r, a, x, m>>
           two == <<0, t, q, b, y, n>>
           three == <<0, s, r, a, y, n>>
<1>1. ASSUME s < t PROVE Precedes(one, two)
  <2>1. 2 \in DOMAIN one \cap DOMAIN two /\ one[2] < two[2]
    BY <1>1
  <2>2. \A j \in 1 .. 2 - 1 : one[j] = two[j]
    <3>1. \A j \in 1 .. 2 - 1 : j = 1
      OBVIOUS
    <3> QED
      BY <3>1
  <2> QED
    BY <2>1, <2>2 DEF Precedes
<1>2. ASSUME x < y PROVE Precedes(one, three)
  <2>1. 5 \in DOMAIN one \cap DOMAIN three /\ one[5] < three[5]
    BY <1>2
  <2>2. \A j \in 1 .. 5 - 1 : one[j] = three[j]
    <3>1. \A j \in 1 .. 5 - 1 : j = 1 \/ j = 2 \/ j = 3 \/ j = 4
      OBVIOUS
    <3> QED
      BY <3>1
  <2> QED
    BY <2>1, <2>2 DEF Precedes
<1> QED
  BY <1>1, <1>2

(* The first unit that the loop comes to is the most useful one: resolved    *)
(* records follow the others, and a group opens with its most useful entry. *)
LEMMA NextTops ==
    ASSUME IndInv, pc = "units", left = UnitsFor(profile), NEW u \in left, IsNext(u)
    PROVE  Tops(u, profile)
<1> DEFINE rows == RowsFor(profile)
           entries == Entries(rows)
           listed == entries \ Collapsed(entries)
           group(E) == {F \in listed : Says(F).category = Says(E).category /\ Says(F).source = Says(E).source}
           rank(E) == CHOOSE i \in DOMAIN CategoryRank : CategoryRank[i] = Says(E).category
           score(E) == Useful(UNION group(E))
<1>1. waiting \in Seq(Content) /\ rows \in SUBSET Rows
  BY Hands
<1>2. left = Units(entries)
  BY DEF UnitsFor
<1>3. \A v \in left : ~Precedes(Place(v, entries), Place(u, entries))
  BY DEF IsNext
<1>4. ASSUME NEW v \in left, ~v.resolved
      PROVE  v = Item(RowsOf(v)) /\ RowsOf(v) \in listed
  <2>1. PICK E \in listed : v = Item(E)
    BY <1>1, <1>2, <1>4, UnitsDivide
  <2>2. RowsOf(v) = E
    BY <2>1 DEF RowsOf, Item
  <2> QED
    BY <2>1, <2>2
<1>5. ASSUME NEW E \in listed PROVE Item(E) \in left /\ RowsOf(Item(E)) = E /\ ~Item(E).resolved
  BY <1>2 DEF Item, RowsOf, Units
<1>6. \A E \in listed : E # {} /\ E \in SUBSET Rows /\ E \in group(E)
  BY <1>1, EntriesDivide
<1>7. ASSUME NEW E \in listed
      PROVE  /\ Useful(E) \in Nat /\ score(E) \in Nat /\ Useful(E) <= score(E)
             /\ \E F \in group(E) : Useful(F) = score(E)
  <2>1. UNION group(E) # {} /\ UNION group(E) \in SUBSET Rows
    BY <1>6
  <2>2. /\ score(E) \in Nat
        /\ \A r \in UNION group(E) : waiting[r].useful <= score(E)
        /\ \E r \in UNION group(E) : waiting[r].useful = score(E)
    BY <1>1, <2>1, UsefulIsMost
  <2> HIDE DEF score
  <2>3. ASSUME NEW F \in group(E) PROVE Useful(F) \in Nat /\ Useful(F) <= score(E)
                                        /\ \A r \in F : waiting[r].useful <= Useful(F)
    <3>1. F # {} /\ F \in SUBSET Rows
      BY <1>6
    <3>2. /\ Useful(F) \in Nat
          /\ \A r \in F : waiting[r].useful <= Useful(F)
          /\ \E r \in F : waiting[r].useful = Useful(F)
      BY <1>1, <3>1, UsefulIsMost
    <3> QED
      BY <2>2, <3>2
  <2>4. PICK F \in group(E) : \E r \in F : waiting[r].useful = score(E)
    BY <2>2
  <2>5. Useful(F) = score(E)
    <3>1. score(E) <= Useful(F) /\ Useful(F) <= score(E) /\ Useful(F) \in Nat
      BY <2>3, <2>4
    <3> QED
      BY <2>2, <3>1
  <2> QED
    BY <1>6, <2>2, <2>3, <2>5
<1>8. ASSUME NEW v \in left, ~v.resolved, u.resolved PROVE FALSE
  <2>1. /\ Place(u, entries)[1] = 1 /\ 1 \in DOMAIN Place(u, entries)
        /\ Place(v, entries)[1] = 0 /\ 1 \in DOMAIN Place(v, entries)
    BY <1>8 DEF Place
  <2>2. Precedes(Place(v, entries), Place(u, entries))
    BY <2>1 DEF Precedes
  <2> QED
    BY <1>3, <2>2
<1>9. ASSUME NEW E \in listed, NEW v, v = Item(E)
      PROVE  Place(v, entries) = <<0, -score(E), rank(E), Says(E).source, -Useful(E), Max(E)>>
  BY <1>5, <1>9 DEF Place
<1>10. ASSUME NEW v \in left, ~v.resolved, ~u.resolved
       PROVE  Useful(RowsOf(u)) >= Useful(RowsOf(v))
  <2> DEFINE E == RowsOf(u)
             D == RowsOf(v)
  <2>1. E \in listed /\ u = Item(E) /\ D \in listed /\ v = Item(D)
    BY <1>4, <1>10
  <2> HIDE DEF E, D
  <2>2. /\ Useful(E) \in Nat /\ score(E) \in Nat
        /\ Useful(D) \in Nat /\ score(D) \in Nat /\ Useful(D) <= score(D)
    BY <1>7, <2>1
  <2>3. score(D) <= score(E)
    <3>1. ASSUME score(E) < score(D) PROVE FALSE
      <4>1. /\ Place(u, entries) = <<0, -score(E), rank(E), Says(E).source, -Useful(E), Max(E)>>
            /\ Place(v, entries) = <<0, -score(D), rank(D), Says(D).source, -Useful(D), Max(D)>>
        BY <1>9, <2>1
      <4> HIDE DEF score, rank
      <4>2. /\ -score(D) \in Int /\ -score(E) \in Int /\ -score(D) < -score(E)
            /\ -Useful(D) \in Int /\ -Useful(E) \in Int
        BY <2>2, <3>1
      <4>3. Precedes(Place(v, entries), Place(u, entries))
        BY <4>1, <4>2, PlacesDiffer
      <4> QED
        BY <1>3, <4>3
    <3> HIDE DEF score
    <3> QED
      BY <2>2, <3>1
  <2>4. score(E) <= Useful(E)
    <3>1. PICK F \in group(E) : Useful(F) = score(E)
      BY <1>7, <2>1
    <3>2. F \in listed /\ Says(F).category = Says(E).category /\ Says(F).source = Says(E).source
      BY <3>1
    <3>3. group(F) = group(E) /\ rank(F) = rank(E)
      BY <3>2
    <3>4. score(F) = score(E)
      BY <3>3
    <3>5. ASSUME Useful(E) < score(E) PROVE FALSE
      <4>1. /\ Place(u, entries) = <<0, -score(E), rank(E), Says(E).source, -Useful(E), Max(E)>>
            /\ Place(Item(F), entries) = <<0, -score(F), rank(F), Says(F).source, -Useful(F), Max(F)>>
        BY <1>9, <2>1, <3>2
      <4>2. Item(F) \in left
        BY <1>5, <3>2
      <4> HIDE DEF score, rank, group
      <4>3. Place(Item(F), entries) = <<0, -score(E), rank(E), Says(E).source, -Useful(F), Max(F)>>
        BY <3>2, <3>3, <3>4, <4>1
      <4>4. /\ -score(E) \in Int /\ -Useful(E) \in Int /\ -Useful(F) \in Int
            /\ -Useful(F) < -Useful(E)
        BY <2>2, <3>1, <3>5
      <4>5. Precedes(Place(Item(F), entries), Place(u, entries))
        BY <4>1, <4>3, <4>4, PlacesDiffer
      <4> QED
        BY <1>3, <4>2, <4>5
    <3> HIDE DEF score
    <3> QED
      BY <2>2, <3>5
  <2> HIDE DEF score
  <2> QED
    BY <2>2, <2>3, <2>4 DEF E, D
<1> QED
  BY <1>8, <1>10 DEF Tops

-----------------------------------------------------------------------------
(* The current part is closed.                                              *)
LEMMA PartClosed ==
    ASSUME IndInv, pc = "units", current # <<>>, waiting' = waiting, profile' = profile,
           parts' = Append(parts, [profile |-> profile, units |-> current])
    PROVE  ClosedWell' /\ Listed' = Listed \cup RowsOfAny(current) /\ Opened(profile)'
<1> DEFINE part == [profile |-> profile, units |-> current]
           n == Len(parts)
<1>1. /\ parts \in Seq(PartOf) /\ n \in Nat /\ DOMAIN parts = 1 .. n
      /\ current \in Seq(Unit) /\ Len(current) \in Nat /\ DOMAIN current = 1 .. Len(current)
  BY Hands
<1>2. part \in PartOf /\ part.profile = profile /\ part.units = current
  BY <1>1 DEF IndInv, TypeOK, PartOf
<1> HIDE DEF part
<1>3. parts' = Append(parts, part)
  BY DEF part
<1>4. /\ parts' \in Seq(PartOf) /\ Len(parts') = n + 1
      /\ \A k \in 1 .. n : parts'[k] = parts[k]
      /\ parts'[n + 1] = part
  BY <1>1, <1>2, <1>3, AppendProperties
<1>5. DOMAIN parts' = 1 .. n + 1
  BY <1>4, LenProperties
<1> HIDE DEF n
<1>6. /\ \A k \in 1 .. n + 1 : k \in 1 .. n \/ k = n + 1
      /\ \A k \in 1 .. n : k \in 1 .. n + 1 /\ k # n + 1
      /\ n + 1 \in 1 .. n + 1
  BY <1>1
<1>7. /\ Unit' = Unit /\ Rows' = Rows /\ \A r : Profile(r)' = Profile(r)
      /\ \A p : UnitsFor(p)' = UnitsFor(p)
      /\ \A u, p : Tops(u, p)' <=> Tops(u, p)
      /\ \A total, units : Sums(total, units)' <=> Sums(total, units)
  BY SameRows
<1>8. \A r : r \in Listed <=> \E k \in 1 .. n : r \in RowsOfAny(parts[k].units)
  BY <1>1 DEF Listed
<1>9. \A r : r \in Listed' <=> \E k \in 1 .. n + 1 : r \in RowsOfAny(parts'[k].units)
  BY <1>5 DEF Listed
<1>10. Listed' = Listed \cup RowsOfAny(current)
  <2>1. ASSUME NEW r PROVE r \in Listed' <=> r \in Listed \/ r \in RowsOfAny(current)
    <3>1. r \in Listed' => r \in Listed \/ r \in RowsOfAny(current)
      BY <1>2, <1>4, <1>6, <1>8, <1>9
    <3>2. r \in Listed => r \in Listed'
      BY <1>4, <1>6, <1>8, <1>9
    <3>3. r \in RowsOfAny(current) => r \in Listed'
      BY <1>2, <1>4, <1>6, <1>9
    <3> QED
      BY <3>1, <3>2, <3>3
  <2> QED
    BY <2>1
<1>11. PartsApart'
  <2>1. Listed \cap RowsOfAny(current) = {} /\ Apart(current) /\ PartsApart
    BY DEF IndInv, DivisionInv
  <2>2. \A k \in 1 .. n : RowsOfAny(parts[k].units) \subseteq Listed
    BY <1>8
  <2>3. \A k \in 1 .. n + 1 : Apart(parts'[k].units)
    BY <1>1, <1>2, <1>4, <1>6, <2>1 DEF PartsApart
  <2>4. ASSUME NEW k \in 1 .. n + 1, NEW l \in 1 .. n + 1, k # l
        PROVE  RowsOfAny(parts'[k].units) \cap RowsOfAny(parts'[l].units) = {}
    <3>1. CASE k \in 1 .. n /\ l \in 1 .. n
      BY <1>1, <1>4, <2>1, <2>4, <3>1 DEF PartsApart
    <3>2. CASE k \in 1 .. n /\ l = n + 1
      BY <1>2, <1>4, <2>1, <2>2, <3>2
    <3>3. CASE k = n + 1 /\ l \in 1 .. n
      BY <1>2, <1>4, <2>1, <2>2, <3>3
    <3> QED
      BY <1>6, <2>4, <3>1, <3>2, <3>3
  <2> QED
    BY <1>5, <2>3, <2>4 DEF PartsApart
<1>12. PartsInLimits'
  <2>1. \A units : Fits(units)' <=> Fits(units)
    BY <1>7 DEF Fits
  <2>2. Len(current) \in 1 .. MaxItems
    <3>1. Len(current) # 0
      BY <1>1, EmptySeq
    <3> QED
      BY <1>1, <3>1, PartsAssumption DEF IndInv, SizeInv
  <2>3. Len(current) > 1 => Fits(current)
    BY DEF IndInv, SizeInv, Fits
  <2>4. \A k \in 1 .. n : Len(parts[k].units) \in 1 .. MaxItems
                          /\ (Len(parts[k].units) > 1 => Fits(parts[k].units))
    BY <1>1 DEF IndInv, PartsInLimits
  <2>5. \A k \in 1 .. n + 1 : Len(parts'[k].units) \in 1 .. MaxItems
                          /\ (Len(parts'[k].units) > 1 => Fits(parts'[k].units))
    BY <1>2, <1>4, <1>6, <2>2, <2>3, <2>4
  <2> QED
    BY <1>5, <2>1, <2>5 DEF PartsInLimits
<1>13. ASSUME NEW k \in 1 .. n + 1, NEW i \in DOMAIN parts'[k].units
       PROVE  parts'[k].units[i] \in UnitsFor(parts'[k].profile)
  BY <1>1, <1>2, <1>4, <1>6, <1>13 DEF IndInv, UnitsInv
<1>14. \A p : Opened(p)' <=> \E l \in 1 .. n + 1 : parts'[l].profile = p /\ Tops(parts'[l].units[1], p)
  BY <1>5, <1>7 DEF Opened
<1>15. \A p : Opened(p) => Opened(p)'
  <2>1. \A p : Opened(p) => \E l \in 1 .. n : parts'[l].profile = p /\ Tops(parts'[l].units[1], p)
    BY <1>1, <1>4 DEF Opened
  <2> QED
    BY <1>6, <1>14, <2>1
<1>16. \E l \in 1 .. n + 1 : parts'[l].profile = profile /\ Tops(parts'[l].units[1], profile)
  <2>1. CASE Opened(profile)
    BY <1>14, <1>15, <2>1
  <2>2. CASE Tops(current[1], profile)
    BY <1>2, <1>4, <1>6, <2>2
  <2> QED
    BY <2>1, <2>2 DEF IndInv, OpenerInv
<1>17. Opened(profile)'
  <2>1. \A u : Tops(u, profile)' <=> Tops(u, profile)
    BY <1>7, SameRows DEF Tops
  <2> QED
    BY <1>5, <1>16, <2>1 DEF Opened
<1>18. \A k \in 1 .. n + 1 : \E l \in 1 .. n + 1 :
          parts'[l].profile = parts'[k].profile /\ Tops(parts'[l].units[1], parts'[k].profile)
  <2>1. \A k \in 1 .. n : Opened(parts[k].profile)
    BY <1>1 DEF IndInv, OpenerInv
  <2>2. \A k \in 1 .. n : Opened(parts'[k].profile)
    BY <1>4, <2>1
  <2> QED
    BY <1>2, <1>4, <1>6, <1>14, <1>15, <1>16, <2>2
<1>19. PartOf' = PartOf
  BY <1>7 DEF PartOf
<1>20. ClosedWell'
  BY <1>4, <1>5, <1>7, <1>11, <1>12, <1>13, <1>18, <1>19 DEF ClosedWell, Opened
<1> QED
  BY <1>10, <1>17, <1>20

(* A unit joins the part that has room for it.                              *)
LEMMA SizeGrows ==
    ASSUME IndInv, NEW u \in Unit, SizeOf(u) \in Nat, ~Full(u), waiting' = waiting,
           current' = Append(current, u), size' = size + SizeOf(u)
    PROVE  SizeInv'
<1> DEFINE n == Len(current)
<1>1. /\ current \in Seq(Unit) /\ n \in Nat /\ size \in Nat
      /\ Len(current') = n + 1 /\ DOMAIN current = 1 .. n
      /\ \A i \in 1 .. n : current'[i] = current[i]
      /\ current'[n + 1] = u
  BY Hands, UnitAppended DEF IndInv, TypeOK
<1>2. /\ \A v : SizeOf(v)' = SizeOf(v)
      /\ \A total, units : Sums(total, units)' <=> Sums(total, units)
  BY SameRows
<1>3. current = <<>> <=> n = 0
  BY <1>1, EmptySeq
<1> HIDE DEF n
<1>4. n + 1 <= MaxItems /\ (n > 0 => size + SizeOf(u) <= Budget)
  <2>1. current # <<>> => ~(n >= MaxItems) /\ ~(size + SizeOf(u) > Budget)
    BY DEF Full, n
  <2> QED
    BY <1>1, <1>3, <2>1, PartsAssumption
<1>5. CASE n = 0
  <2>1. size = 0 /\ Len(current') = 1 /\ current'[1] = u
    BY <1>1, <1>3, <1>5 DEF IndInv, TypeOK
  <2>2. size' = SizeOf(current'[1])
    BY <1>1, <2>1
  <2> QED
    BY <1>2, <1>4, <1>5, <2>1, <2>2 DEF SizeInv
<1>6. CASE n > 0
  <2>1. PICK old \in [1 .. n -> 0 .. Budget] : Sums(old, current) /\ old[n] = size
    <3>1. CASE n = 1
      <4> DEFINE old == [i \in 1 .. n |-> size]
      <4>1. size \in 0 .. Budget
        BY <1>1, <1>4, <1>6, PartsAssumption
      <4>2. old \in [1 .. n -> 0 .. Budget] /\ old[n] = size /\ old[1] = size
        BY <3>1, <4>1
      <4> HIDE DEF old
      <4>3. size = SizeOf(current[1])
        BY <3>1 DEF IndInv, SizeInv, n
      <4>4. Sums(old, current)
        BY <3>1, <4>2, <4>3 DEF Sums, n
      <4> QED
        BY <4>2, <4>4
    <3>2. CASE n > 1
      BY <3>2 DEF IndInv, SizeInv, n
    <3> QED
      BY <1>1, <1>6, <3>1, <3>2
  <2> DEFINE new == [i \in 1 .. n + 1 |-> IF i = n + 1 THEN size + SizeOf(u) ELSE old[i]]
  <2>2. \A i \in 1 .. n + 1 : i = n + 1 \/ (i \in 1 .. n /\ i # n + 1)
    BY <1>1
  <2>3. new \in [1 .. n + 1 -> 0 .. Budget]
    <3>1. size + SizeOf(u) \in 0 .. Budget
      BY <1>1, <1>4, <1>6, PartsAssumption
    <3> QED
      BY <2>2, <3>1
  <2>4. \A i \in 1 .. n : new[i] = old[i]
    BY <1>1
  <2>5. new[n + 1] = size + SizeOf(u)
    BY <1>1
  <2> HIDE DEF new
  <2>6. Sums(new, current')
    <3>1. new[1] = SizeOf(current'[1])
      <4>1. 1 \in 1 .. n
        BY <1>1, <1>6
      <4> QED
        BY <1>1, <2>1, <2>4, <4>1 DEF Sums
    <3>2. ASSUME NEW i \in 2 .. n + 1 PROVE new[i] = new[i - 1] + SizeOf(current'[i])
      <4>1. CASE i = n + 1
        <5>1. i - 1 = n /\ n \in 1 .. n
          BY <1>1, <1>6, <4>1
        <5>2. new[i - 1] = size
          BY <2>1, <2>4, <5>1
        <5> QED
          BY <1>1, <2>5, <4>1, <5>2
      <4>2. CASE i # n + 1
        <5>1. i \in 2 .. n /\ i \in 1 .. n /\ i - 1 \in 1 .. n
          BY <1>1, <4>2
        <5>2. old[i] = old[i - 1] + SizeOf(current[i])
          BY <2>1, <5>1 DEF Sums, n
        <5> QED
          BY <1>1, <2>4, <5>1, <5>2
      <4> QED
        BY <4>1, <4>2
    <3> QED
      BY <1>1, <3>1, <3>2 DEF Sums
  <2>7. PICK total \in [1 .. n + 1 -> 0 .. Budget] : Sums(total, current') /\ total[n + 1] = size'
    BY <2>3, <2>5, <2>6
  <2>8. Len(current') # 1 /\ Len(current') <= MaxItems
    BY <1>1, <1>4, <1>6
  <2> QED
    BY <1>1, <1>2, <2>7, <2>8 DEF SizeInv
<1> QED
  BY <1>1, <1>5, <1>6

LEMMA ExtendStep == ASSUME IndInv, NEW u \in left, Extend(u) PROVE IndInv'
<1>1. /\ waiting' = waiting /\ pc' = pc /\ todo' = todo /\ profile' = profile /\ parts' = parts
      /\ pc = "units" /\ IsNext(u) /\ ~Full(u) /\ left' = left \ {u}
      /\ current' = Append(current, u) /\ size' = size + SizeOf(u)
  BY DEF Extend
<1>2. /\ u \in UnitsFor(profile) /\ u \in Unit /\ SizeOf(u) \in Nat
      /\ RowsLeft' = RowsLeft \ RowsOf(u) /\ RowsOf(u) \subseteq RowsLeft
      /\ left \subseteq UnitsFor(profile)
  BY <1>1, UnitTaken
<1>3. /\ current \in Seq(Unit) /\ Len(current) \in Nat /\ DOMAIN current = 1 .. Len(current)
      /\ size \in Nat
  BY Hands DEF IndInv, TypeOK
<1>4. RowsTodo' = RowsTodo
  BY <1>1, SameRows DEF RowsTodo
<1>5. Listed' = Listed /\ ClosedWell' /\ (Opened(profile) => Opened(profile)')
  BY <1>1, PartsStay DEF Opened
<1>6. /\ Listed \cup RowsOfAny(current) \cup RowsLeft \cup RowsTodo = Rows
      /\ Listed \cap (RowsOfAny(current) \cup RowsLeft \cup RowsTodo) = {}
      /\ RowsOfAny(current) \cap (RowsLeft \cup RowsTodo) = {} /\ RowsLeft \cap RowsTodo = {}
      /\ Apart(current)
  BY <1>1 DEF IndInv, DivisionInv
<1>7. /\ current' \in Seq(Unit) /\ Len(current') = Len(current) + 1
      /\ DOMAIN current' = 1 .. Len(current) + 1
      /\ \A i \in 1 .. Len(current) : current'[i] = current[i]
      /\ current'[Len(current) + 1] = u
      /\ RowsOfAny(current') = RowsOfAny(current) \cup RowsOf(u)
      /\ Apart(current')
  <2>1. RowsOf(u) \cap RowsOfAny(current) = {}
    BY <1>2, <1>6
  <2> QED
    BY <1>1, <1>2, <1>3, <1>6, <2>1, UnitAppended
<1>8. SizeInv'
  BY <1>1, <1>2, SizeGrows
<1>9. \A i \in DOMAIN current' : current'[i] \in UnitsFor(profile)
  <2>1. \A i \in 1 .. Len(current) + 1 : i \in 1 .. Len(current) \/ i = Len(current) + 1
    BY <1>3
  <2> QED
    BY <1>2, <1>3, <1>7, <2>1 DEF IndInv, UnitsInv
<1>10. Opened(profile)' \/ Tops(current'[1], profile)
  <2>1. CASE current = <<>>
    <3>1. Tops(u, profile)
      BY <1>1, <2>1, NextTops DEF IndInv, OpenerInv
    <3>2. current'[1] = u
      BY <1>7, <2>1
    <3> QED
      BY <3>1, <3>2
  <2>2. CASE current # <<>>
    <3>1. current'[1] = current[1]
      <4>1. Len(current) # 0
        BY <1>3, <2>2, EmptySeq
      <4> QED
        BY <1>3, <1>7, <4>1
    <3> QED
      BY <1>5, <2>2, <3>1 DEF IndInv, OpenerInv
  <2> QED
    BY <2>1, <2>2
<1>11. current' # <<>> /\ size' \in Nat
  <2>1. Len(current') # 0
    BY <1>3, <1>7
  <2> QED
    BY <1>1, <1>2, <1>3, <2>1
<1>12. todo \subseteq {Profile(r) : r \in Rows} /\ profile \notin todo /\ profile \in {Profile(r) : r \in Rows}
  BY <1>1 DEF IndInv, TypeOK
<1>13. left' \subseteq UnitsFor(profile')
  BY <1>1, <1>2
<1>14. /\ Listed' \cup RowsOfAny(current') \cup RowsLeft' \cup RowsTodo' = Rows
       /\ Listed' \cap (RowsOfAny(current') \cup RowsLeft' \cup RowsTodo') = {}
       /\ RowsOfAny(current') \cap (RowsLeft' \cup RowsTodo') = {} /\ RowsLeft' \cap RowsTodo' = {}
  BY <1>2, <1>4, <1>5, <1>6, <1>7
<1> QED
  BY <1>1, <1>5, <1>7, <1>8, <1>9, <1>10, <1>11, <1>12, <1>13, <1>14, PutTogether

LEMMA CutStep == ASSUME IndInv, NEW u \in left, Cut(u) PROVE IndInv'
<1>1. /\ waiting' = waiting /\ pc' = pc /\ todo' = todo /\ profile' = profile
      /\ parts' = Append(parts, [profile |-> profile, units |-> current])
      /\ pc = "units" /\ current # <<>> /\ left' = left \ {u}
      /\ current' = <<u>> /\ size' = SizeOf(u)
  BY DEF Cut, Full
<1>2. /\ u \in UnitsFor(profile) /\ u \in Unit /\ SizeOf(u) \in Nat
      /\ RowsLeft' = RowsLeft \ RowsOf(u) /\ RowsOf(u) \subseteq RowsLeft
      /\ left \subseteq UnitsFor(profile)
  BY <1>1, UnitTaken
<1>3. RowsTodo' = RowsTodo
  BY <1>1, SameRows DEF RowsTodo
<1>4. ClosedWell' /\ Listed' = Listed \cup RowsOfAny(current) /\ Opened(profile)'
  BY <1>1, PartClosed
<1>5. /\ Listed \cup RowsOfAny(current) \cup RowsLeft \cup RowsTodo = Rows
      /\ Listed \cap (RowsOfAny(current) \cup RowsLeft \cup RowsTodo) = {}
      /\ RowsOfAny(current) \cap (RowsLeft \cup RowsTodo) = {} /\ RowsLeft \cap RowsTodo = {}
  BY <1>1 DEF IndInv, DivisionInv
<1>6. /\ current' \in Seq(Unit) /\ Len(current') = 1 /\ DOMAIN current' = {1}
      /\ current'[1] = u /\ current' # <<>>
  BY <1>1, <1>2
<1>7. RowsOfAny(current') = RowsOf(u) /\ Apart(current')
  BY <1>6 DEF RowsOfAny, Apart
<1>8. SizeInv'
  <2>1. \A v : SizeOf(v)' = SizeOf(v)
    BY <1>1, SameRows
  <2>2. size' = SizeOf(current'[1])
    BY <1>1, <1>6
  <2> QED
    BY <1>6, <2>1, <2>2, PartsAssumption DEF SizeInv
<1>9. todo \subseteq {Profile(r) : r \in Rows} /\ profile \notin todo /\ profile \in {Profile(r) : r \in Rows}
  BY <1>1 DEF IndInv, TypeOK
<1>10. left' \subseteq UnitsFor(profile') /\ \A i \in DOMAIN current' : current'[i] \in UnitsFor(profile')
  BY <1>1, <1>2, <1>6
<1>11. /\ Listed' \cup RowsOfAny(current') \cup RowsLeft' \cup RowsTodo' = Rows
       /\ Listed' \cap (RowsOfAny(current') \cup RowsLeft' \cup RowsTodo') = {}
       /\ RowsOfAny(current') \cap (RowsLeft' \cup RowsTodo') = {} /\ RowsLeft' \cap RowsTodo' = {}
  BY <1>2, <1>3, <1>4, <1>5, <1>7
<1> QED
  BY <1>1, <1>2, <1>4, <1>6, <1>7, <1>8, <1>9, <1>10, <1>11, PutTogether

LEMMA EndProfileStep == ASSUME IndInv, EndProfile PROVE IndInv'
<1>1. /\ waiting' = waiting /\ pc' = "profiles" /\ todo' = todo /\ profile' = profile
      /\ left' = left /\ left = {} /\ pc = "units" /\ current' = <<>> /\ size' = 0
      /\ parts' = IF current = <<>> THEN parts
                  ELSE Append(parts, [profile |-> profile, units |-> current])
  BY DEF EndProfile
<1>2. RowsTodo' = RowsTodo
  BY <1>1, SameRows DEF RowsTodo
<1>3. <<>> \in Seq(Unit) /\ Apart(<<>>) /\ DOMAIN <<>> = {} /\ Len(<<>>) = 0 /\ 0 \in Nat
  BY DEF Apart
<1>4. ClosedWell' /\ Listed' = Listed \cup RowsOfAny(current)
  <2>1. CASE current = <<>>
    <3>1. RowsOfAny(current) = {}
      BY <1>3, <2>1 DEF RowsOfAny
    <3> QED
      BY <1>1, <2>1, <3>1, PartsStay
  <2>2. CASE current # <<>>
    BY <1>1, <2>2, PartClosed
  <2> QED
    BY <2>1, <2>2
<1>5. RowsLeft = {} /\ RowsLeft' = {} /\ RowsOfAny(current') = {}
  BY <1>1, <1>3 DEF RowsLeft, RowsOfAny
<1>6. /\ Listed \cup RowsOfAny(current) \cup RowsTodo = Rows
      /\ (Listed \cup RowsOfAny(current)) \cap RowsTodo = {}
  BY <1>1, <1>5 DEF IndInv, DivisionInv
<1>7. SizeInv'
  BY <1>1, <1>3, PartsAssumption DEF SizeInv
<1>8. todo \subseteq {Profile(r) : r \in Rows}
  BY DEF IndInv, TypeOK
<1> QED
  BY <1>1, <1>2, <1>3, <1>4, <1>5, <1>6, <1>7, <1>8, PutTogether

LEMMA IdleStep == ASSUME IndInv, UNCHANGED vars PROVE IndInv'
<1>1. waiting' = waiting /\ parts' = parts /\ pc' = pc /\ todo' = todo /\ profile' = profile
      /\ left' = left /\ current' = current /\ size' = size
  BY DEF vars
<1>2. ClosedWell' /\ Listed' = Listed
  BY <1>1, PartsStay
<1>3. /\ Rows' = Rows /\ Unit' = Unit /\ {Profile(r) : r \in Rows}' = {Profile(r) : r \in Rows}
      /\ RowsTodo' = RowsTodo /\ RowsLeft' = RowsLeft
  BY <1>1, SameRows DEF RowsTodo, RowsLeft
<1>4. TypeOK'
  BY <1>1, <1>3 DEF IndInv, TypeOK
<1>5. DivisionInv'
  BY <1>1, <1>2, <1>3 DEF IndInv, DivisionInv, ClosedWell
<1>6. UnitsInv'
  BY <1>1, SameRows DEF IndInv, UnitsInv
<1>7. SizeInv'
  BY <1>1, SameRows DEF IndInv, SizeInv
<1>8. OpenerInv'
  BY <1>1, SameRows DEF IndInv, OpenerInv, Opened
<1> QED
  BY <1>2, <1>4, <1>5, <1>6, <1>7, <1>8 DEF IndInv, ClosedWell

LEMMA HandsStep == ASSUME IndInv, [Next]_vars PROVE IndInv'
BY ArriveStep, BeginStep, NextProfileStep, ExtendStep, CutStep, EndProfileStep, CommitStep, IdleStep
   DEF Next

-----------------------------------------------------------------------------
(* enqueue_digest has what IndInv says in hand at every turn, for any rows,  *)
(* profiles, limits and sizes.                                             *)
THEOREM PartsInvariant == Spec => []IndInv
BY InitHands, HandsStep, PTL DEF Spec

(* Every row that was read is listed by exactly one unit of one part, and   *)
(* nothing else is.                                                        *)
THEOREM EachRowIsListedOnce == Spec => []RowsListedOnce
<1>1. ASSUME IndInv, pc = "profiles", todo = {} PROVE Listed = Rows /\ PartsApart
  <2>1. left = {} /\ current = <<>>
    BY <1>1 DEF IndInv, TypeOK
  <2>2. RowsOfAny(current) = {} /\ RowsLeft = {} /\ RowsTodo = {}
    BY <1>1, <2>1 DEF RowsOfAny, RowsLeft, RowsTodo
  <2> QED
    BY <1>1, <2>2 DEF IndInv, DivisionInv
<1>2. IndInv => RowsListedOnce
  BY <1>1 DEF RowsListedOnce
<1> QED
  BY <1>2, PartsInvariant, PTL

(* A part keeps to its limits, whatever the units take.                     *)
THEOREM LimitsKept == Spec => []PartsInLimits
<1>1. IndInv => PartsInLimits
  BY DEF IndInv
<1> QED
  BY <1>1, PartsInvariant, PTL

(* A part has rows of its own profile only.                                 *)
THEOREM ProfilesApart == Spec => []PartsOfOneProfile
<1>1. ASSUME IndInv, NEW k \in DOMAIN parts, NEW r \in RowsOfAny(parts[k].units)
      PROVE  Profile(r) = parts[k].profile
  <2>1. PICK i \in DOMAIN parts[k].units : r \in RowsOf(parts[k].units[i])
    BY DEF RowsOfAny
  <2>2. parts[k].units[i] \in UnitsFor(parts[k].profile)
    BY <1>1 DEF IndInv, UnitsInv
  <2>3. r \in RowsFor(parts[k].profile)
    BY <1>1, <2>1, <2>2, ProfileUnits
  <2> QED
    BY <2>3 DEF RowsFor
<1>2. IndInv => PartsOfOneProfile
  BY <1>1 DEF PartsOfOneProfile
<1> QED
  BY <1>2, PartsInvariant, PTL

(* The most useful entry that is not resolved opens a part of its profile.  *)
THEOREM MostUsefulOpens == Spec => []UsefulFirst
<1>1. ASSUME IndInv, NEW k \in DOMAIN parts, NEW i \in DOMAIN parts[k].units,
             ~parts[k].units[i].resolved
      PROVE  \E l \in DOMAIN parts :
                /\ parts[l].profile = parts[k].profile
                /\ ~parts[l].units[1].resolved
                /\ Useful(RowsOf(parts[l].units[1])) >= Useful(RowsOf(parts[k].units[i]))
  <2>1. parts[k].units[i] \in UnitsFor(parts[k].profile)
    BY <1>1 DEF IndInv, UnitsInv
  <2>2. PICK l \in DOMAIN parts :
           parts[l].profile = parts[k].profile /\ Tops(parts[l].units[1], parts[k].profile)
    BY <1>1 DEF IndInv, OpenerInv, Opened
  <2> QED
    BY <1>1, <2>1, <2>2 DEF Tops
<1>2. IndInv => UsefulFirst
  BY <1>1 DEF UsefulFirst
<1> QED
  BY <1>2, PartsInvariant, PTL

(* Why a resolved record ended well: its group holds the last row of its     *)
(* entity, in a recovery, and a failure.                                    *)
LEMMA ResolvedUnitEndedWell ==
    ASSUME IndInv, Consistent, NEW p, NEW u \in UnitsFor(p), u.resolved
    PROVE  EndedWell(u)
<1> DEFINE rows == RowsFor(p)
           entries == Entries(rows)
<1>1. waiting \in Seq(Content) /\ rows \in SUBSET Rows /\ Rows \subseteq Nat
  BY Hands
<1>2. u \in ResolvedUnits(entries)
  BY <1>1, UnitsDivide DEF UnitsFor
<1>3. PICK g \in Groups(entries) :
         IsResolved(g) /\ u.entries = Failures(g) \cup {Newest(g)}
  BY <1>1, <1>2, ResolvedFacts
<1> DEFINE last == Max(UNION g)
<1>4. /\ Newest(g) \in g /\ last \in Newest(g)
      /\ \A E \in g : \A r \in E : r <= last
  BY <1>1, <1>3, NewestHasLast
<1>5. PICK F \in Failures(g) : TRUE
  BY <1>3 DEF IsResolved
<1>6. /\ F \in g /\ Says(F).category \in FailureCategories
      /\ Says(Newest(g)).category = "recovery"
  BY <1>3, <1>5 DEF Failures, IsResolved
<1>7. /\ g \subseteq entries
      /\ \A E \in entries : E \in g <=> SameEntity(F, E)
  BY <1>6, GroupsDivide
<1>8. /\ \A E \in entries : E # {} /\ E \subseteq rows
      /\ \A r \in rows : \E E \in entries : r \in E
  BY EntriesDivide
<1>9. ASSUME NEW E \in entries, NEW r \in E
      PROVE  /\ Min(E) \in E /\ Min(E) \in Rows /\ r \in Rows
             /\ Says(E) = waiting[Min(E)]
             /\ Says(E).source = waiting[r].source /\ Says(E).entity = waiting[r].entity
             /\ Says(E).category = waiting[r].category
  <2>1. E # {} /\ E \in SUBSET Nat /\ E \subseteq Rows
    BY <1>1, <1>8
  <2>2. Min(E) \in E
    BY <2>1, LeastOf
  <2>3. waiting[Min(E)].fp = waiting[r].fp
    BY <2>2 DEF Entries
  <2> QED
    BY <2>1, <2>2, <2>3 DEF Says, Consistent
<1> HIDE DEF last
<1> DEFINE failure == Min(F)
<1>10. failure \in F /\ failure \in Rows
  <2>1. \E r \in F : TRUE
    BY <1>6, <1>7, <1>8
  <2> QED
    BY <1>6, <1>7, <1>9, <2>1
<1>11. last \in RowsOf(u) /\ failure \in RowsOf(u)
  BY <1>3, <1>4, <1>5, <1>10 DEF RowsOf
<1>12. waiting[last].category = "recovery" /\ waiting[failure].category \in FailureCategories
  BY <1>4, <1>6, <1>7, <1>9, <1>10
<1>13. ASSUME NEW r \in Rows, waiting[r].source = waiting[failure].source,
              waiting[r].entity = waiting[failure].entity
       PROVE  r <= last
  <2>1. r \in rows
    <3>1. failure \in rows
      BY <1>6, <1>7, <1>8, <1>10
    <3> QED
      BY <1>13, <3>1 DEF RowsFor, Profile
  <2>2. PICK E \in entries : r \in E
    BY <1>8, <2>1
  <2>3. SameEntity(F, E)
    BY <1>6, <1>7, <1>9, <1>10, <1>13, <2>2 DEF SameEntity
  <2> QED
    BY <1>4, <1>7, <2>2, <2>3
<1> QED
  BY <1>11, <1>12, <1>13 DEF EndedWell

(* No resolved record hides a failure that came back.                       *)
THEOREM ResolvedIsRecovered == Spec => []ResolvedEndedWell
<1>1. ASSUME IndInv, Consistent, NEW k \in DOMAIN parts, NEW i \in DOMAIN parts[k].units,
             parts[k].units[i].resolved
      PROVE  EndedWell(parts[k].units[i])
  <2>1. parts[k].units[i] \in UnitsFor(parts[k].profile)
    BY <1>1 DEF IndInv, UnitsInv
  <2> QED
    BY <1>1, <2>1, ResolvedUnitEndedWell
<1>2. IndInv => ResolvedEndedWell
  BY <1>1 DEF ResolvedEndedWell
<1> QED
  BY <1>2, PartsInvariant, PTL
=============================================================================
