----------------------------- MODULE DigestParts -----------------------------
(***************************************************************************)
(* How a digest is composed (digest.py: enqueue_digest, _entries,           *)
(* _resolved_transients, build_parts): the rows that wait are divided by    *)
(* profile and merged into entries, entries into units, and the units of a  *)
(* profile are laid one by one into parts.                                 *)
(*                                                                         *)
(* A row is named by its place in the order of received_at; useful is       *)
(* human_action_useful in percent, size what an entry takes in the body.    *)
(* Digest has when this is done, and what a crash leaves of it.             *)
(***************************************************************************)
EXTENDS Integers, FiniteSets, Sequences, SequencesExt

CONSTANTS
    Content,         \* what a row says: records [fp, source, entity, category, useful, size]
    ProfileOf,       \* hermes.profile_for_source
    MaxItems,        \* digest.max_items_per_part
    Budget,          \* bytes a part may take, 80 % of hermes.max_body_bytes
    ResolvedSize,    \* what a resolved record takes
    MaxRows          \* bound on the rows of one digest

ASSUME PartsAssumption ==
    /\ \A c \in Content : c.useful \in 0 .. 100 /\ c.size \in Nat
    /\ MaxItems \in Nat \ {0} /\ Budget \in Nat /\ ResolvedSize \in Nat

VARIABLES
    waiting,    \* what the rows say that pending_digest_items returns
    pc,         \* where enqueue_digest is
    todo,       \* profiles whose rows are still to be composed
    profile,    \* the profile that build_parts was called for last
    left,       \* its units that are not yet in a part
    current,    \* the units of the part that is being filled
    size,       \* what they take
    parts       \* the parts that are closed

vars == <<waiting, pc, todo, profile, left, current, size, parts>>

FailureCategories == {"availability", "capacity", "data_integrity", "security", "other"}
CategoryRank ==
    <<"security", "data_integrity", "availability", "capacity", "actionable_change",
      "maintenance", "recovery", "informational", "routine_success", "other",
      "uncategorized">>

Rows == 1 .. Len(waiting)
Profile(r) == ProfileOf[waiting[r].source]

(* Mutant: one digest for all profiles, sent to each of them.               *)
RowsOfAll(p) == Rows

RowsFor(p) == {r \in Rows : Profile(r) = p}

-----------------------------------------------------------------------------
(* An entry is the set of rows of one fingerprint.  What it says is taken   *)
(* from its first row, how useful it is from the most useful one.          *)
Entries(rows) == {{r \in rows : waiting[r].fp = waiting[first].fp} : first \in rows}

Says(E) == waiting[Min(E)]
Useful(E) == Max({waiting[r].useful : r \in E})

SameEntity(E, F) == Says(E).source = Says(F).source /\ Says(E).entity = Says(F).entity

Group(E, entries) == {F \in entries : SameEntity(E, F)}
Groups(entries) == {Group(E, entries) : E \in entries}

(* Mutant: the entries keep the order in which they first came.             *)
NewestFirstSeen(group) == CHOOSE E \in group : \A F \in group : Min(F) <= Min(E)

(* The entry of the last row of an entity.                                  *)
Newest(group) == CHOOSE E \in group : Max(UNION group) \in E

Failures(group) == {E \in group \ {Newest(group)} : Says(E).category \in FailureCategories}

IsResolved(group) == Says(Newest(group)).category = "recovery" /\ Failures(group) # {}

(* A unit is what a digest lists: one entry, or a resolved record that      *)
(* stands for the failures of an entity and its recovery.                  *)
Resolved(group) == [resolved |-> TRUE, entries |-> Failures(group) \cup {Newest(group)}]
Item(E) == [resolved |-> FALSE, entries |-> {E}]

ResolvedUnits(entries) == {Resolved(group) : group \in {g \in Groups(entries) : IsResolved(g)}}

Collapsed(entries) == UNION {u.entries : u \in ResolvedUnits(entries)}

(* Mutant: what else the entity reported goes with the resolved record.     *)
UnitsWithoutNotes(entries) ==
    ResolvedUnits(entries) \cup
    {Item(E) : E \in {F \in entries : ~IsResolved(Group(F, entries))}}

Units(entries) == ResolvedUnits(entries) \cup {Item(E) : E \in entries \ Collapsed(entries)}

UnitsFor(p) == Units(Entries(RowsFor(p)))

RowsOf(u) == UNION u.entries

SizeOf(u) == IF u.resolved THEN ResolvedSize ELSE Says(RowsOf(u)).size

(* Groups of one category and source in the order of their most useful      *)
(* entry, category rank and source; the most useful entry of a group first; *)
(* resolved records at the end, in the order in which their entities came.  *)
Place(u, entries) ==
    LET E == RowsOf(u)
        group == {F \in entries \ Collapsed(entries) :
                    Says(F).category = Says(E).category /\ Says(F).source = Says(E).source}
        rank == CHOOSE i \in DOMAIN CategoryRank : CategoryRank[i] = Says(E).category
    IN  IF u.resolved
          THEN <<1, Min(UNION {UNION Group(F, entries) : F \in u.entries})>>
          ELSE <<0, -Useful(UNION group), rank, Says(E).source, -Useful(E), Max(E)>>

(* Mutant: the least useful groups come first.                              *)
Follows(a, b) == \E i \in DOMAIN a \cap DOMAIN b : a[i] > b[i] /\ \A j \in 1 .. i - 1 : a[j] = b[j]

Precedes(a, b) == \E i \in DOMAIN a \cap DOMAIN b : a[i] < b[i] /\ \A j \in 1 .. i - 1 : a[j] = b[j]

(* The unit that the loop over the units comes to next.                     *)
IsNext(u) ==
    u \in left /\ LET entries == Entries(RowsFor(profile))
                  IN  \A v \in left : ~Precedes(Place(v, entries), Place(u, entries))

-----------------------------------------------------------------------------
(* A DIGEST or REVIEW decision is committed; enqueue_digest has no await.    *)
Arrive(c) ==
    /\ pc = "idle" /\ Len(waiting) < MaxRows
    /\ waiting' = Append(waiting, c)
    /\ UNCHANGED <<pc, todo, profile, left, current, size, parts>>

(* enqueue_digest up to its loop over by_profile.                           *)
Begin ==
    /\ pc = "idle" /\ waiting # <<>>
    /\ pc' = "profiles"
    /\ todo' = {Profile(r) : r \in Rows}
    /\ UNCHANGED <<waiting, profile, left, current, size, parts>>

(* by_profile has the profiles in the order of their first rows; build_parts*)
(* up to its loop over the units.                                          *)
NextProfile(p) ==
    /\ pc = "profiles" /\ p \in todo
    /\ \A q \in todo : Min(RowsFor(p)) <= Min(RowsFor(q))
    /\ pc' = "units"
    /\ todo' = todo \ {p}
    /\ profile' = p
    /\ left' = UnitsFor(p)
    /\ UNCHANGED <<waiting, current, size, parts>>

(* Mutant: the part is cut only once it is over its budget.                 *)
OverFull(u) == current # <<>> /\ (Len(current) >= MaxItems \/ size > Budget)

(* Must the current part be closed before unit u?                           *)
Full(u) == current # <<>> /\ (Len(current) >= MaxItems \/ size + SizeOf(u) > Budget)

Extend(u) ==
    /\ pc = "units" /\ IsNext(u) /\ ~Full(u)
    /\ current' = Append(current, u)
    /\ size' = size + SizeOf(u)
    /\ left' = left \ {u}
    /\ UNCHANGED <<waiting, pc, todo, profile, parts>>

Cut(u) ==
    /\ pc = "units" /\ IsNext(u) /\ Full(u)
    /\ parts' = Append(parts, [profile |-> profile, units |-> current])
    /\ current' = <<u>>
    /\ size' = SizeOf(u)
    /\ left' = left \ {u}
    /\ UNCHANGED <<waiting, pc, todo, profile>>

(* The last part of the profile is closed.                                  *)
EndProfile ==
    /\ pc = "units" /\ left = {}
    /\ parts' = IF current = <<>> THEN parts
                ELSE Append(parts, [profile |-> profile, units |-> current])
    /\ current' = <<>> /\ size' = 0
    /\ pc' = "profiles"
    /\ UNCHANGED <<waiting, todo, profile, left>>

(* commit_digest binds every row that is listed.                            *)
Commit ==
    /\ pc = "profiles" /\ todo = {}
    /\ pc' = "idle"
    /\ waiting' = <<>> /\ parts' = <<>> /\ profile' = "default"
    /\ UNCHANGED <<todo, left, current, size>>

Init ==
    /\ waiting = <<>> /\ pc = "idle" /\ todo = {} /\ profile = "default"
    /\ left = {} /\ current = <<>> /\ size = 0 /\ parts = <<>>

Next ==
    \/ \E c \in Content : Arrive(c)
    \/ Begin
    \/ \E p \in todo : NextProfile(p)
    \/ \E u \in left : Extend(u) \/ Cut(u)
    \/ EndProfile
    \/ Commit

Spec == Init /\ [][Next]_vars

-----------------------------------------------------------------------------
RowsOfAny(units) == UNION {RowsOf(units[i]) : i \in DOMAIN units}
Listed == UNION {RowsOfAny(parts[k].units) : k \in DOMAIN parts}

(* No two units of a list share a row.                                      *)
Apart(units) == \A i, j \in DOMAIN units : i # j => RowsOf(units[i]) \cap RowsOf(units[j]) = {}

PartsApart ==
    /\ \A k \in DOMAIN parts : Apart(parts[k].units)
    /\ \A k, l \in DOMAIN parts :
          k # l => RowsOfAny(parts[k].units) \cap RowsOfAny(parts[l].units) = {}

(* Every row read is listed by exactly one unit of one part, and nothing    *)
(* else is: neither the grouping nor the cuts lose or repeat an event       *)
(* (build_parts returns the ids that commit_digest binds).                  *)
RowsListedOnce == pc = "profiles" /\ todo = {} => Listed = Rows /\ PartsApart

(* total[i] is what the first i units take.                                 *)
Sums(total, units) ==
    /\ total[1] = SizeOf(units[1])
    /\ \A i \in 2 .. Len(units) : total[i] = total[i - 1] + SizeOf(units[i])

Fits(units) == \E total \in [1 .. Len(units) -> 0 .. Budget] : Sums(total, units)

(* A part keeps to max_items_per_part, and to the byte budget unless it     *)
(* holds a single unit (build_parts: "payloads that each fit Hermes' body   *)
(* limit").                                                                *)
PartsInLimits ==
    \A k \in DOMAIN parts :
        /\ Len(parts[k].units) \in 1 .. MaxItems
        /\ Len(parts[k].units) > 1 => Fits(parts[k].units)

(* No profile is sent an event of another profile's source, even when two   *)
(* sources share a fingerprint (README: "Digests are partitioned by profile *)
(* before they reach Hermes").                                              *)
PartsOfOneProfile ==
    \A k \in DOMAIN parts : \A r \in RowsOfAny(parts[k].units) : Profile(r) = parts[k].profile

(* An entity is reported as resolved only if the newest event of it in the  *)
(* digest is a recovery and an older one a failure: a failure that came     *)
(* back after the recovery is never hidden in a resolved record             *)
(* (_resolved_transients: "failures whose entity later reported a           *)
(* recovery"), provided that events of one fingerprint come from one entity *)
(* and are given one category.                                             *)
Consistent ==
    \A r, q \in Rows : waiting[r].fp = waiting[q].fp =>
        /\ waiting[r].source = waiting[q].source /\ waiting[r].entity = waiting[q].entity
        /\ waiting[r].category = waiting[q].category

EndedWell(u) ==
    \E last, failure \in RowsOf(u) :
        /\ waiting[last].category = "recovery"
        /\ waiting[failure].category \in FailureCategories
        /\ \A r \in Rows :
              /\ waiting[r].source = waiting[failure].source
              /\ waiting[r].entity = waiting[failure].entity
              => r <= last

ResolvedEndedWell ==
    Consistent =>
        \A k \in DOMAIN parts : \A i \in DOMAIN parts[k].units :
            parts[k].units[i].resolved => EndedWell(parts[k].units[i])

(* The most action-worthy entry that is not resolved opens a part of its    *)
(* profile (README: "Action-worthy groups come first").                     *)
UsefulFirst ==
    \A k \in DOMAIN parts : \A i \in DOMAIN parts[k].units :
        parts[k].units[i].resolved \/ \E l \in DOMAIN parts :
            /\ parts[l].profile = parts[k].profile
            /\ ~parts[l].units[1].resolved
            /\ Useful(RowsOf(parts[l].units[1])) >= Useful(RowsOf(parts[k].units[i]))

-----------------------------------------------------------------------------
(* Why: what enqueue_digest has in hand at every turn of its two loops.      *)

Unit == [resolved : BOOLEAN, entries : SUBSET SUBSET Rows]

TypeOK ==
    /\ waiting \in Seq(Content)
    /\ pc \in {"idle", "profiles", "units"}
    /\ todo \subseteq {Profile(r) : r \in Rows}
    /\ left \subseteq Unit /\ current \in Seq(Unit) /\ size \in Nat
    /\ parts \in Seq([profile : {Profile(r) : r \in Rows}, units : Seq(Unit)])
    /\ pc = "idle" => todo = {} /\ parts = <<>>
    /\ pc # "units" => left = {} /\ current = <<>>
    /\ pc = "units" => profile \notin todo /\ profile \in {Profile(r) : r \in Rows}
    /\ current = <<>> => size = 0

(* The rows are divided among the closed parts, the current one, the units  *)
(* left and the profiles to come.                                          *)
RowsLeft == UNION {RowsOf(u) : u \in left}
RowsTodo == {r \in Rows : Profile(r) \in todo}

DivisionInv ==
    /\ pc # "idle" => Listed \cup RowsOfAny(current) \cup RowsLeft \cup RowsTodo = Rows
    /\ Listed \cap (RowsOfAny(current) \cup RowsLeft \cup RowsTodo) = {}
    /\ RowsOfAny(current) \cap (RowsLeft \cup RowsTodo) = {} /\ RowsLeft \cap RowsTodo = {}
    /\ PartsApart /\ Apart(current)
    /\ \A u, v \in left : u # v => RowsOf(u) \cap RowsOf(v) = {}

(* Each unit is one of those of its part's profile.                         *)
UnitsInv ==
    /\ \A k \in DOMAIN parts : \A i \in DOMAIN parts[k].units :
          parts[k].units[i] \in UnitsFor(parts[k].profile)
    /\ \A i \in DOMAIN current : current[i] \in UnitsFor(profile)
    /\ left \subseteq UnitsFor(profile)

(* size is what the current part takes, and within the budget once a second *)
(* unit was added.                                                         *)
SizeInv ==
    /\ Len(current) <= MaxItems
    /\ Len(current) = 1 => size = SizeOf(current[1])
    /\ Len(current) > 1 => \E total \in [1 .. Len(current) -> 0 .. Budget] :
                              Sums(total, current) /\ total[Len(current)] = size

(* The first unit laid for a profile is the most useful one.                *)
Tops(u, p) ==
    \A v \in UnitsFor(p) :
        v.resolved \/ (~u.resolved /\ Useful(RowsOf(u)) >= Useful(RowsOf(v)))

Opened(p) == \E l \in DOMAIN parts : parts[l].profile = p /\ Tops(parts[l].units[1], p)

OpenerInv ==
    /\ \A k \in DOMAIN parts : Opened(parts[k].profile)
    /\ current # <<>> => Opened(profile) \/ Tops(current[1], profile)
    /\ pc = "units" /\ current = <<>> => left = UnitsFor(profile)

IndInv == TypeOK /\ DivisionInv /\ UnitsInv /\ SizeInv /\ OpenerInv /\ PartsInLimits
=============================================================================
