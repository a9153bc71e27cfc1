--------------------------- MODULE RoleReadsProofs ---------------------------
(***************************************************************************)
(* The safety properties of RoleReads, for every value of its constants.   *)
(* Whatever a call reads is what the store held at some instant of the     *)
(* call: the store only advances (Advance), so what was read stays between *)
(* what the lifecycles were as the call began and what they are now.       *)
(***************************************************************************)
EXTENDS RoleReads, RoleStoreRefinement, FiniteSetTheorems

-----------------------------------------------------------------------------
\* Lifecycles and instants.

Life == [Id -> Assignment \cup {None}]

\* A lifecycle that was so may be so now.
Since(was, now) ==
    /\ was # None => now # None /\ SameGrant(was, now)
    /\ Revoked(was) => now = was

\* x is what i was at some instant of the call of r.
WasOnce(r, i, x) ==
    /\ x \in Assignment \cup {None}
    /\ Since(began[r].life[i], x) /\ Since(x, LifeOf[i])

\* f is what all of them were at one instant of the call.
Instant(r, f) == f \in Life /\ \A i \in Id : WasOnce(r, i, f[i])

\* The lifecycle of i as far as the partition of l has it.
In(f, l, i) == IF f[i] # None /\ f[i].loc = l THEN f[i] ELSE None

\* The row of a record partition, when the lifecycles are f.
IsRow(f, l, k, row) ==
    /\ k[1] = "assignment" => row = In(f, l, k[2])
    /\ k[1] = "granted" =>
         row = IF In(f, l, k[2]) = None THEN None ELSE In(f, l, k[2]).grantEvent
    /\ k[1] = "revoked" =>
         row = IF Revoked(In(f, l, k[2])) THEN In(f, l, k[2]).revocation.event ELSE None
    /\ k[1] = "tuple" =>
         \E o \in Id \cup {None} :
           /\ \A i \in Id : o = i <=> Active(In(f, l, i)) /\ In(f, l, i).role = k[2]
           /\ row = IF \E i \in Id : In(f, l, i) # None /\ In(f, l, i).role = k[2]
                    THEN <<o>> ELSE None

\* A guard is there for lifecycles only.
GuardsOfLifecycles ==
    \A l \in Location, q \in Role :
      guards[l][q].version # 0 =>
        \E i \in Id : RecordAt(l, i) # None /\ RecordAt(l, i).role = q

-----------------------------------------------------------------------------
\* The inductive invariant.

ReadSteps == {"idle", "list", "confirm", "follow", "insert", "locate", "record",
              "orphans", "granted", "revoked", "answered"}

ReadTypes ==
    /\ ask \in [Reader -> Ask \cup {None}]
    /\ step \in [Reader -> ReadSteps]
    /\ listed = [r \in Reader |-> listed[r]]
    /\ left \in [Reader -> SUBSET (RecordKeys \cup Id)]
    /\ located \in [Reader -> [Id -> Pointer \cup {None}]]
    /\ found \in [Reader -> SUBSET (Id \X Assignment)]
    /\ recorded \in [Reader -> Nat]
    /\ result = [r \in Reader |-> result[r]]
    /\ began = [r \in Reader |-> began[r]]

\* Where each kind of call may stand.
Stands(r) ==
    /\ step[r] = "idle" <=> ask[r] = None
    /\ step[r] \in {"list", "confirm"} => ask[r].op \notin PointReads
    /\ step[r] = "follow" => ask[r].op \in {"byrole", "rebuild"}
    /\ step[r] = "insert" => ask[r].op = "rebuild"
    /\ step[r] \in {"locate", "record"} => ask[r].op \in PointReads
    /\ step[r] \in {"orphans", "granted", "revoked"} => ask[r].op = "audit"
    /\ step[r] \in {"idle", "list", "confirm", "locate"} =>
         found[r] = {} /\ located[r] = NothingLocated /\ recorded[r] = 0

\* What the store held as the call began it holds, or has gone on from; whatever
\* is not indexed now was granted before.
Began(r) ==
    /\ began[r] \in [life : Life, indexed : SUBSET Id]
    /\ \A i \in Id : /\ Since(began[r].life[i], LifeOf[i])
                     /\ LifeOf[i] # None => i \in Indexed \/ began[r].life[i] # None
    /\ began[r].indexed \subseteq Indexed

Pointing(r) == \A i \in Present(located[r]) : located[r][i] = pointers[i]

\* A record listing: each row is of some instant.  Of two active assignments to
\* one role, one was revoked by the time all was listed, and is still to be
\* confirmed.
ListingRecords(r) ==
    LET l == ask[r].loc
        rows == listed[r]
        row(i) == rows[<<"assignment", i>>]
    IN /\ rows = [k \in RecordKeys |-> rows[k]]
       /\ \A k \in RecordKeys : \E f \in Life : Instant(r, f) /\ IsRow(f, l, k, rows[k])
       /\ step[r] = "confirm" =>
            /\ left[r] \subseteq RecordKeys
            /\ \A i, j \in Id :
                 Active(row(i)) /\ Active(row(j)) /\ row(i).role = row(j).role /\ i # j =>
                   \E m \in {i, j} : <<"assignment", m>> \in left[r] /\ Revoked(LifeOf[m])

\* An assignment a call by role has to report.
Due(r, i) ==
    LET was == began[r].life[i]
    IN i \in began[r].indexed /\ was # None /\ Asked(ask[r], was)

\* A call by role: holder rows stay, and every candidate is still to be followed,
\* or found if it has been active throughout.
ListingHolders(r) ==
    LET a == ask[r]
        rows == listed[r]
    IN /\ rows \in [Id -> Principal \cup {None}]
       /\ \A i \in Present(rows) : rows[i] = holders[a.scope][a.role][i]
       /\ \A i \in Id : Due(r, i) => rows[i] # None
       /\ step[r] # "list" => left[r] \subseteq Present(rows)
       /\ Present(located[r]) \subseteq Present(rows)
       /\ \A x \in found[r] : Active(x[2]) /\ WasOnce(r, x[1], x[2]) /\ Asked(a, x[2])
       /\ step[r] = "follow" =>
            \A i \in Present(rows) :
              i \in left[r] \/ located[r][i] # None
              \/ (Active(began[r].life[i]) /\ Active(LifeOf[i]) => <<i, LifeOf[i]>> \in found[r])

\* The lifecycles a rebuild may have to index.
Missing(r) == {i \in Id : began[r].life[i] # None} \ began[r].indexed

\* A rebuild: pointers stay, and what is not indexed is still to be followed.
ListingPointers(r) ==
    LET rows == listed[r]
    IN /\ rows \in [Id -> Pointer \cup {None}]
       /\ \A i \in Present(rows) : rows[i] = pointers[i]
       /\ \A i \in Id : began[r].life[i] # None => rows[i] # None
       /\ step[r] # "list" => left[r] \subseteq Present(rows)
       /\ step[r] \in {"follow", "insert"} =>
            /\ \A i \in Id : LifeOf[i] # None => i \in Indexed \/ i \in left[r]
            /\ recorded[r] <= Cardinality(Missing(r) \ left[r])
       /\ step[r] = "follow" => located[r] = NothingLocated
       /\ step[r] = "insert" =>
            \A i \in Present(located[r]) : i \in left[r] /\ LifeOf[i] # None

\* A read by id.
Reading(r) ==
    LET i == ask[r].id
    IN /\ step[r] \in {"record", "orphans", "granted", "revoked"} => located[r][i] # None
       /\ step[r] = "orphans" => began[r].life[i] = None
       /\ step[r] \in {"granted", "revoked"} =>
            \E x \in Assignment : found[r] = {<<i, x>>} /\ WasOnce(r, i, x)

\* What answers rest on, by what was asked.

\* The partition that is to be read again has moved.
Moved(r) ==
    /\ ask[r].op \in RecordListings
    /\ \E i \in Id : /\ LifeOf[i] # None /\ LifeOf[i].loc = ask[r].loc
                     /\ LifeOf[i] # began[r].life[i]

\* Nothing else than was active, and all that was active throughout.
ActivesTrue(r) ==
    LET records == result[r].records
        was(i) == began[r].life[i]
    IN /\ \A x \in records : /\ x[1] \in Id /\ Active(x[2]) /\ WasOnce(r, x[1], x[2])
                             /\ Asked(ask[r], x[2])
       /\ \A i \in Id :
            /\ Active(was(i)) /\ Active(LifeOf[i]) /\ Asked(ask[r], was(i))
            /\ ask[r].op = "byrole" => i \in began[r].indexed
            => <<i, LifeOf[i]>> \in records

RolesOnce(r) ==
    \A x, y \in result[r].records : x[2].role = y[2].role => x = y

HistoryTrue(r) ==
    /\ \A x \in result[r].records : Asked(ask[r], x[2])
    /\ \A i \in Id :
         began[r].life[i] # None /\ Asked(ask[r], began[r].life[i]) =>
           \E x \in Assignment : <<i, x>> \in result[r].records /\ WasOnce(r, i, x)

RebuildTrue(r) ==
    /\ \A i \in Id : LifeOf[i] # None => i \in Indexed
    /\ result[r].recorded <= Cardinality(Missing(r))

GetTrue(r) ==
    \E x \in Assignment \cup {None} :
      /\ WasOnce(r, ask[r].id, x)
      /\ result[r].records = IF x = None THEN {} ELSE {<<ask[r].id, x>>}

AuditTrue(r) ==
    \E x \in Assignment \cup {None} :
      /\ WasOnce(r, ask[r].id, x)
      /\ result[r].events = IF x = None THEN <<>> ELSE HistoryFrom(x)

AnswerTrue(r) ==
    LET op == ask[r].op
        status == result[r].status
    IN /\ result[r] \in Result
       /\ op # "audit" => status # "corrupt"
       /\ status = "changed" => Moved(r)
       /\ status = "ok" =>
            /\ op \in {"active", "byrole"} => ActivesTrue(r)
            /\ op = "active" => RolesOnce(r)
            /\ op = "history" => HistoryTrue(r)
            /\ op = "rebuild" => RebuildTrue(r)
            /\ op = "get" => GetTrue(r)
            /\ op = "audit" => AuditTrue(r)

ReaderSound(r) ==
    /\ Stands(r) /\ Pointing(r)
    /\ step[r] # "idle" => Began(r)
    /\ step[r] \in {"list", "confirm"} /\ ask[r].op \in RecordListings => ListingRecords(r)
    /\ step[r] \in {"list", "confirm", "follow"} /\ ask[r].op = "byrole" => ListingHolders(r)
    /\ step[r] \in {"list", "confirm", "follow", "insert"} /\ ask[r].op = "rebuild" =>
         ListingPointers(r)
    /\ ask[r] # None /\ ask[r].op \in PointReads => Reading(r)
    /\ step[r] = "answered" => AnswerTrue(r)

ReadInv == /\ StoreInv /\ GuardsOfLifecycles /\ ReadTypes
           /\ \A r \in Reader : ReaderSound(r)

-----------------------------------------------------------------------------
\* Lifecycles go on.

LEMMA SinceItself == ASSUME NEW a PROVE Since(a, a)
BY DEF Since, SameGrant

LEMMA SinceSince ==
  ASSUME NEW a \in Assignment \cup {None}, NEW b \in Assignment \cup {None},
         NEW c \in Assignment \cup {None}, Since(a, b), Since(b, c)
  PROVE  Since(a, c)
BY DEF Since, SameGrant, Revoked

LEMMA FormOfAssignment ==
  ASSUME NEW a \in Assignment
  PROVE  a = [id |-> a.id, loc |-> a.loc, role |-> a.role, grantEvent |-> a.grantEvent,
              grantedAt |-> a.grantedAt, revocation |-> a.revocation]
BY DEF Assignment

\* Between two states of a lifecycle it was the first, the last, or active after
\* a grant that came later than the first.
LEMMA BetweenCases ==
  ASSUME NEW was \in Assignment \cup {None}, NEW x \in Assignment \cup {None},
         NEW now \in Assignment \cup {None}, Since(was, x), Since(x, now)
  PROVE  \/ x = was \/ x = now
         \/ was = None /\ x # None /\ now # None /\ x = [now EXCEPT !.revocation = None]
<1>. SUFFICES ASSUME x # was, x # now
              PROVE  was = None /\ x # None /\ now # None /\ x = [now EXCEPT !.revocation = None]
  OBVIOUS
<1>1. x # None
  BY DEF Since
<1>2. x.revocation = None /\ now # None /\ SameGrant(x, now) /\ ~Revoked(x)
  BY <1>1 DEF Since, Revoked
<1>3. was = None
  <2>. SUFFICES ASSUME was # None PROVE FALSE
    OBVIOUS
  <2>1. SameGrant(was, x) /\ was.revocation = None
    BY <1>2 DEF Since, Revoked
  <2>. QED  BY <1>1, <1>2, <2>1, FormOfAssignment DEF SameGrant
<1>4. x = [now EXCEPT !.revocation = None]
  BY <1>1, <1>2, FormOfAssignment DEF SameGrant, Assignment
<1>. QED  BY <1>1, <1>2, <1>3, <1>4

\* What has not changed since is what it was in between.
LEMMA Squeezed ==
  ASSUME NEW was \in Assignment \cup {None}, NEW x \in Assignment \cup {None},
         Since(was, x), Since(x, was)
  PROVE  x = was
BY BetweenCases DEF Since

\* What is active now, and was there, was the same all along.
LEMMA ActiveThroughout ==
  ASSUME NEW was \in Assignment \cup {None}, NEW now \in Assignment \cup {None},
         Since(was, now), was # None, Active(now)
  PROVE  was = now
<1>1. Active(was) /\ SameGrant(was, now)
  BY DEF Since, Active, Revoked
<1>. QED  BY <1>1, FormOfAssignment DEF SameGrant, Active

-----------------------------------------------------------------------------
\* The store at rest.

\* The lifecycle of an id is the one of its partition.
LEMMA LifeLocated ==
  ASSUME StoreInv
  PROVE  /\ LifeOf \in Life
         /\ \A i \in Id : LifeOf[i] # None =>
              /\ pointers[i] # None /\ LifeOf[i].id = i
              /\ LifeOf[i].loc \in Location /\ LifeOf[i].role \in Role
              /\ pointers[i] = [loc |-> LifeOf[i].loc, role |-> LifeOf[i].role]
         /\ \A l \in Location, i \in Id : RecordAt(l, i) = In(LifeOf, l, i)
<1>1. \A i \in Id : pointers[i] # None =>
        pointers[i] \in Pointer /\ pointers[i].loc \in Location /\ pointers[i].role \in Role
  BY DEF StoreInv, TypeOK, Pointer
<1>2. \A l \in Location, i \in Id : RecordAt(l, i) \in Assignment \cup {None}
  BY LifecyclePointed DEF StoreInv
<1>3. \A i \in Id : LifeOf[i] = IF pointers[i] = None THEN None ELSE RecordAt(pointers[i].loc, i)
  BY DEF LifeOf
<1>4. LifeOf \in Life
  BY <1>1, <1>2, <1>3 DEF Life, LifeOf
<1>5. \A l \in Location, i \in Id : RecordAt(l, i) # None =>
        /\ pointers[i] = [loc |-> l, role |-> RecordAt(l, i).role] /\ RecordAt(l, i).loc = l
        /\ RecordAt(l, i).id = i /\ pointers[i] # None
  BY LifecyclePointed DEF StoreInv, RecordsSound, LifecyclesFollowPointers
<1>6. ASSUME NEW i \in Id, LifeOf[i] # None
      PROVE  /\ pointers[i] # None /\ LifeOf[i].id = i
             /\ LifeOf[i].loc \in Location /\ LifeOf[i].role \in Role
             /\ pointers[i] = [loc |-> LifeOf[i].loc, role |-> LifeOf[i].role]
  <2>1. /\ pointers[i] # None /\ pointers[i].loc \in Location
        /\ LifeOf[i] = RecordAt(pointers[i].loc, i)
    BY <1>1, <1>3, <1>6
  <2>2. /\ pointers[i] = [loc |-> pointers[i].loc, role |-> LifeOf[i].role]
        /\ LifeOf[i].id = i /\ LifeOf[i].loc = pointers[i].loc
    BY <1>5, <1>6, <2>1
  <2>3. pointers[i].role = LifeOf[i].role
    BY <2>2
  <2>. QED  BY <1>1, <2>1, <2>2, <2>3
<1>7. ASSUME NEW l \in Location, NEW i \in Id PROVE RecordAt(l, i) = In(LifeOf, l, i)
  <2>1. CASE RecordAt(l, i) # None
    <3>1. /\ pointers[i] = [loc |-> l, role |-> RecordAt(l, i).role]
          /\ RecordAt(l, i).loc = l /\ pointers[i] # None
      BY <1>5, <2>1
    <3>2. pointers[i].loc = l
      BY <3>1
    <3>3. LifeOf[i] = RecordAt(l, i)
      BY <1>3, <3>1, <3>2
    <3>. QED  BY <2>1, <3>1, <3>3 DEF In
  <2>2. CASE RecordAt(l, i) = None
    <3>. SUFFICES ASSUME LifeOf[i] # None, LifeOf[i].loc = l PROVE FALSE
      BY <2>2 DEF In
    <3>0. pointers[i] = [loc |-> l, role |-> LifeOf[i].role]
      BY <1>6
    <3>1. pointers[i].loc = l
      BY <3>0
    <3>. QED  BY <1>3, <1>6, <2>2, <3>1
  <2>. QED  BY <2>1, <2>2
<1>. QED  BY <1>4, <1>6, <1>7

LivesLocated ==
    /\ LifeOf \in Life
    /\ \A i \in Id : LifeOf[i] # None =>
         /\ pointers[i] # None /\ LifeOf[i].loc \in Location
         /\ pointers[i] = [loc |-> LifeOf[i].loc, role |-> LifeOf[i].role]
    /\ \A l \in Location, i \in Id : RecordAt(l, i) = In(LifeOf, l, i)

LEMMA LivesLocatedNow == StoreInv => LivesLocated
BY LifeLocated DEF LivesLocated

LEMMA LivesLocatedNext == StoreInv' => LivesLocated'
BY LivesLocatedNow, PTL

\* A pointer leads to the lifecycle, which it describes.
LEMMA PointedLife ==
  ASSUME StoreInv, NEW i \in Id, pointers[i] # None
  PROVE  /\ pointers[i] \in Pointer /\ pointers[i].loc \in Location
         /\ pointers[i].loc.scope \in Scope /\ pointers[i].loc.principal \in Principal
         /\ pointers[i].role \in Role
         /\ RecordAt(pointers[i].loc, i) = LifeOf[i]
         /\ LifeOf[i] # None => Agrees(LifeOf[i], i, pointers[i])
<1>1. /\ pointers[i] \in Pointer /\ pointers[i].loc \in Location /\ pointers[i].role \in Role
      /\ pointers[i].loc.scope \in Scope /\ pointers[i].loc.principal \in Principal
  BY DEF StoreInv, TypeOK, Pointer, Location
<1>2. RecordAt(pointers[i].loc, i) = LifeOf[i]
  BY DEF LifeOf
<1>3. ASSUME LifeOf[i] # None PROVE Agrees(LifeOf[i], i, pointers[i])
  <2>1. pointers[i] = [loc |-> LifeOf[i].loc, role |-> LifeOf[i].role] /\ LifeOf[i].id = i
    BY <1>3, LifeLocated
  <2>. QED  BY <2>1 DEF Agrees
<1>. QED  BY <1>1, <1>2, <1>3

\* Every row of a record partition follows from the lifecycles.
LEMMA RowsOfLives ==
  ASSUME StoreInv, GuardsOfLifecycles, NEW l \in Location, NEW k \in RecordKeys
  PROVE  IsRow(LifeOf, l, k, RecordRow(l, k))
<1>1. \A i \in Id : RecordAt(l, i) = In(LifeOf, l, i)
  BY LifeLocated
<1>2. CASE k \in {"assignment"} \X Id
  BY <1>1, <1>2 DEF IsRow, RecordRow
<1>3. CASE k \in {"granted"} \X Id
  BY <1>1, <1>3 DEF IsRow, RecordRow, StoreInv, RecordsSound, AuditMatchesLifecycle
<1>4. CASE k \in {"revoked"} \X Id
  BY <1>1, <1>4 DEF IsRow, RecordRow, StoreInv, RecordsSound, AuditMatchesLifecycle
<1>5. CASE k \in {"tuple"} \X Role
  <2>1. k[1] = "tuple" /\ k[2] \in Role
    BY <1>5
  <2>2. guards[l][k[2]].occupant \in Id \cup {None}
    BY <2>1 DEF StoreInv, TypeOK, Guard
  <2>3. \A i \in Id : guards[l][k[2]].occupant = i
                        <=> Active(In(LifeOf, l, i)) /\ In(LifeOf, l, i).role = k[2]
    <3>1. \A i \in Id : guards[l][k[2]].occupant = i
                          <=> Active(RecordAt(l, i)) /\ RecordAt(l, i).role = k[2]
      <4>1. GuardNamesActive
        BY DEF StoreInv, RecordsSound
      <4>. QED  BY <2>1, <4>1 DEF GuardNamesActive
    <3>. QED  BY <1>1, <3>1, Zenon
  <2>4. guards[l][k[2]].version # 0
          <=> \E i \in Id : In(LifeOf, l, i) # None /\ In(LifeOf, l, i).role = k[2]
    BY <1>1, <2>1 DEF StoreInv, RecordsSound, VersionsAgree, GuardsOfLifecycles
  <2>5. RecordRow(l, k) = IF guards[l][k[2]].version = 0 THEN None
                                                  ELSE <<guards[l][k[2]].occupant>>
    BY <2>1 DEF RecordRow
  <2>. QED  BY <2>1, <2>2, <2>3, <2>4, <2>5 DEF IsRow
<1>. QED  BY <1>2, <1>3, <1>4, <1>5 DEF RecordKeys

\* The same lifecycles in a partition make the same rows.
LEMMA SameRows ==
  ASSUME NEW f, NEW g, NEW l, NEW k \in RecordKeys, NEW row, NEW now,
         \A i \in Id : In(f, l, i) = In(g, l, i), IsRow(f, l, k, row), IsRow(g, l, k, now)
  PROVE  row = now
<1>1. CASE k \in {"assignment", "granted", "revoked"} \X Id
  BY <1>1 DEF IsRow
<1>2. CASE k \in {"tuple"} \X Role
  <2>1. k[1] = "tuple"
    BY <1>2
  <2>2. PICK o \in Id \cup {None} :
          /\ \A i \in Id : o = i <=> Active(In(f, l, i)) /\ In(f, l, i).role = k[2]
          /\ row = IF \E i \in Id : In(f, l, i) # None /\ In(f, l, i).role = k[2]
                   THEN <<o>> ELSE None
    BY <2>1 DEF IsRow
  <2>3. PICK p \in Id \cup {None} :
          /\ \A i \in Id : p = i <=> Active(In(g, l, i)) /\ In(g, l, i).role = k[2]
          /\ now = IF \E i \in Id : In(g, l, i) # None /\ In(g, l, i).role = k[2]
                   THEN <<p>> ELSE None
    BY <2>1 DEF IsRow
  <2>4. o = p
    BY <2>2, <2>3, RecordsAssumption
  <2>. QED  BY <2>2, <2>3, <2>4
<1>. QED  BY <1>1, <1>2 DEF RecordKeys

-----------------------------------------------------------------------------
\* The store advances.

\* What the calls may count on while the store changes under them.
Advance ==
    /\ LifeOf \in Life /\ LifeOf' \in Life
    /\ \A i \in Id : /\ Since(LifeOf[i], LifeOf'[i])
                     /\ pointers[i] # None => pointers'[i] = pointers[i]
                     /\ LifeOf[i] = None /\ LifeOf'[i] # None => i \in Indexed'
    /\ \A s \in Scope, q \in Role, i \in Id :
         holders[s][q][i] # None => holders'[s][q][i] = holders[s][q][i]
    /\ Indexed \subseteq Indexed'

LEMMA IndexedForm ==
  ASSUME StoreInv, NEW i \in Id
  PROVE  i \in Indexed <=>
           /\ pointers[i] # None
           /\ holders[pointers[i].loc.scope][pointers[i].role][i] = pointers[i].loc.principal
BY DEF Indexed

LEMMA EvolvesAdvances ==
  ASSUME StoreInv, StoreInv', Evolves,
         \A i \in Id : LifeOf[i] = None /\ LifeOf'[i] # None => i \in Indexed'
  PROVE  Advance
<1>1. LifeOf \in Life /\ LifeOf' \in Life
  BY LifeLocated, LivesLocatedNext DEF LivesLocated
<1>2. ASSUME NEW i \in Id PROVE Since(LifeOf[i], LifeOf'[i])
  <2>1. CASE LifeOf[i] = None
    BY <2>1 DEF Since, Revoked
  <2>2. CASE LifeOf[i] # None
    <3>. DEFINE l == pointers[i].loc
    <3>1. /\ pointers[i] # None /\ l \in Location /\ pointers'[i] = pointers[i]
          /\ LifeOf[i] = assignments[l][i].value
      BY <2>2, LifeLocated, PointedLife DEF Evolves, RecordAt
    <3>2. LifeOf'[i] = assignments'[l][i].value
      BY <3>1 DEF LifeOf, RecordAt
    <3>. HIDE DEF l
    <3>3. /\ assignments'[l][i].value # None
          /\ SameGrant(assignments[l][i].value, assignments'[l][i].value)
          /\ Revoked(assignments[l][i].value) => assignments'[l][i] = assignments[l][i]
      BY <2>2, <3>1, Zenon DEF Evolves
    <3>. QED  BY <3>1, <3>2, <3>3 DEF Since
  <2>. QED  BY <2>1, <2>2
<1>3. ASSUME NEW i \in Indexed PROVE i \in Indexed'
  <2>1. /\ i \in Id /\ pointers[i] # None /\ pointers'[i] = pointers[i]
        /\ holders[pointers[i].loc.scope][pointers[i].role][i] = pointers[i].loc.principal
    BY IndexedForm DEF Evolves, Indexed
  <2>2. holders[pointers[i].loc.scope][pointers[i].role][i] # None
    BY <2>1, PointedLife, RecordsAssumption
  <2>3. holders'[pointers[i].loc.scope][pointers[i].role][i] = pointers[i].loc.principal
    BY <2>1, <2>2, PointedLife DEF Evolves
  <2>. QED  BY <2>1, <2>3 DEF Indexed
<1>. QED  BY <1>1, <1>2, <1>3 DEF Advance, Evolves

\* The steps of a grant or a revoke.
LEMMA WriterAdvances ==
  ASSUME StoreInv, [Next]_vars
  PROVE  StoreInv' /\ Advance
<1>1. StoreInv' /\ Evolves
  BY StepSound
<1>2. ASSUME NEW i \in Id, LifeOf[i] = None, LifeOf'[i] # None PROVE i \in Indexed'
  <2>1. /\ LifeOf'[i].loc \in Location /\ pointers'[i] # None
        /\ pointers'[i] = [loc |-> LifeOf'[i].loc, role |-> LifeOf'[i].role]
        /\ \A m \in Location : assignments'[m][i].value = In(LifeOf', m, i)
    BY <1>1, <1>2, LivesLocatedNext DEF LivesLocated, RecordAt, In
  <2>2. PICK l \in Location : l = LifeOf'[i].loc
    BY <2>1
  <2>3. RecordAt(l, i)' = LifeOf'[i]
    BY <1>2, <2>1, <2>2 DEF In, RecordAt
  <2>4. RecordAt(l, i) = None
    BY <1>2, LifeLocated DEF In
  <2>5. holders'[l.scope][LifeOf'[i].role][i] = l.principal
    BY <1>2, <2>3, <2>4, NewLifecycleHeld
  <2>6. pointers'[i].loc = l /\ pointers'[i].role = LifeOf'[i].role
    BY <2>1, <2>2
  <2>. QED  BY <2>1, <2>5, <2>6 DEF Indexed
<1>. QED  BY <1>1, <1>2, EvolvesAdvances

LEMMA GuardsStay ==
  ASSUME StoreInv, GuardsOfLifecycles, [Next]_vars
  PROVE  GuardsOfLifecycles'
<1>. SUFFICES ASSUME NEW m \in Location, NEW q \in Role, guards'[m][q].version # 0
              PROVE  \E i \in Id : RecordAt(m, i)' # None /\ RecordAt(m, i)'.role = q
  BY DEF GuardsOfLifecycles, RecordAt
<1>1. CASE UNCHANGED <<assignments, guards>>
  BY <1>1 DEF GuardsOfLifecycles, RecordAt
\* What was there is there, under the same role.
<1>2. CASE guards[m][q].version # 0
  <2>1. PICK i \in Id : RecordAt(m, i) # None /\ RecordAt(m, i).role = q
    BY <1>2 DEF GuardsOfLifecycles
  <2>2. RecordAt(m, i)' # None /\ SameGrant(RecordAt(m, i), RecordAt(m, i)')
    BY <2>1, StepSound DEF Evolves, RecordAt
  <2>. QED  BY <2>1, <2>2 DEF SameGrant
<1>3. ASSUME NEW c \in Client, GrantCommit(c), guards[m][q].version = 0
      PROVE  \E i \in Id : RecordAt(m, i)' # None /\ RecordAt(m, i)'.role = q
  <2>. DEFINE g == cmd[c]
  <2>1. GrantEffect(c)
    BY <1>3, GrantCommitEffect
  <2>2. /\ g.id \in Id /\ GrantedForm(g) # None /\ GrantedForm(g).role = g.role
        /\ \A l \in Location, i \in Id :
             assignments'[l][i] = IF l = g.loc /\ i = g.id
                                  THEN [version |-> 1, value |-> GrantedForm(g)]
                                  ELSE assignments[l][i]
        /\ \A l \in Location, r \in Role :
             ~(l = g.loc /\ r = g.role) => guards'[l][r] = guards[l][r]
    BY <2>1, ZenonT(30) DEF GrantEffect
  <2>. HIDE DEF g
  <2>3. m = g.loc /\ q = g.role
    BY <1>3, <2>2
  <2>4. assignments'[m][g.id].value = GrantedForm(g)
    BY <2>2, <2>3
  <2>. QED  BY <2>2, <2>3, <2>4 DEF RecordAt
<1>4. ASSUME NEW c \in Client, RevokeCommit(c), guards[m][q].version = 0
      PROVE  \E i \in Id : RecordAt(m, i)' # None /\ RecordAt(m, i)'.role = q
  <2>. DEFINE r == cmd[c]
             p == seen[c].pointer
  <2>1. RevokeEffect(c)
    BY <1>4, RevokeCommitEffect
  <2>2. /\ guards[p.loc][p.role].occupant = r.id /\ r.id \in Id
        /\ p.loc \in Location /\ p.role \in Role
        /\ \A l \in Location, o \in Role :
             ~(l = p.loc /\ o = p.role) => guards'[l][o] = guards[l][o]
    BY <2>1, ZenonT(30) DEF RevokeEffect
  <2>. HIDE DEF r, p
  <2>3. m = p.loc /\ q = p.role
    BY <1>4, <2>2
  <2>4. Active(RecordAt(m, r.id)) /\ RecordAt(m, r.id).role = q
    BY <2>2, <2>3 DEF StoreInv, RecordsSound, GuardNamesActive
  <2>. QED  BY <1>4, <2>2, <2>4 DEF StoreInv, RecordsSound, VersionsAgree, Active
<1>. QED  BY <1>1, <1>2, <1>3, <1>4, OnlyCommitsWrite DEF Commits

\* A row the rebuild adds, where the pointer of its id leads.
LEMMA RowAdvances ==
  ASSUME StoreInv, GuardsOfLifecycles, NEW i \in Id, pointers[i] # None,
         LET p == pointers[i] IN
           \/ holders' = holders
           \/ /\ holders[p.loc.scope][p.role][i] = None
              /\ holders' = [holders EXCEPT ![p.loc.scope][p.role][i] = p.loc.principal],
         UNCHANGED <<pointers, assignments, guards, audit, pc, cmd, seen, reply>>
  PROVE  StoreInv' /\ GuardsOfLifecycles' /\ Advance
<1>. DEFINE p == pointers[i]
<1>1. /\ p \in Pointer /\ p.loc \in Location /\ p.loc.scope \in Scope
      /\ p.loc.principal \in Principal /\ p.role \in Role
  BY PointedLife
<1>2. /\ holders' \in [Scope -> [Role -> [Id -> Principal \cup {None}]]]
      /\ \A s \in Scope, q \in Role, j \in Id :
           \/ holders'[s][q][j] = holders[s][q][j]
           \/ /\ s = p.loc.scope /\ q = p.role /\ j = i
              /\ holders[s][q][j] = None /\ holders'[s][q][j] = p.loc.principal
  <2>1. holders \in [Scope -> [Role -> [Id -> Principal \cup {None}]]]
    BY DEF StoreInv, TypeOK
  <2>2. CASE holders' = holders
    BY <2>1, <2>2
  <2>3. CASE /\ holders[p.loc.scope][p.role][i] = None
             /\ holders' = [holders EXCEPT ![p.loc.scope][p.role][i] = p.loc.principal]
    <3>. DEFINE s0 == p.loc.scope
                q0 == p.role
                h0 == p.loc.principal
    <3>1. s0 \in Scope /\ q0 \in Role /\ h0 \in Principal
      BY <1>1
    <3>2. holders[s0][q0][i] = None /\ holders' = [holders EXCEPT ![s0][q0][i] = h0]
      BY <2>3, Zenon
    <3>. HIDE DEF s0, q0, h0
    <3>3. /\ holders' \in [Scope -> [Role -> [Id -> Principal \cup {None}]]]
          /\ \A s \in Scope, q \in Role, j \in Id :
               holders'[s][q][j] = IF s = s0 /\ q = q0 /\ j = i THEN h0 ELSE holders[s][q][j]
      BY ONLY <2>1, <3>1, <3>2, i \in Id
    <3>4. \A s \in Scope, q \in Role, j \in Id :
           \/ holders'[s][q][j] = holders[s][q][j]
           \/ /\ s = s0 /\ q = q0 /\ j = i
              /\ holders[s][q][j] = None /\ holders'[s][q][j] = h0
      BY <3>2, <3>3
    <3>. QED  BY <3>3, <3>4, Zenon DEF s0, q0, h0
  <2>. QED  BY <2>2, <2>3
<1>3. \A s \in Scope, q \in Role, j \in Id :
        holders[s][q][j] # None => holders'[s][q][j] = holders[s][q][j]
  BY <1>2
<1>4. TypeOK'
  BY <1>2 DEF StoreInv, TypeOK
<1>5. HoldersFollowPointers'
  <2>. SUFFICES ASSUME NEW s \in Scope, NEW q \in Role, NEW j \in Id, holders'[s][q][j] # None
                PROVE  pointers[j] = [loc |-> [principal |-> holders'[s][q][j], scope |-> s],
                                      role |-> q]
    BY DEF HoldersFollowPointers
  <2>1. CASE holders'[s][q][j] = holders[s][q][j]
    BY <2>1 DEF StoreInv, RecordsSound, HoldersFollowPointers
  <2>2. CASE s = p.loc.scope /\ q = p.role /\ j = i /\ holders'[s][q][j] = p.loc.principal
    <3>1. p.loc = [principal |-> p.loc.principal, scope |-> p.loc.scope]
      BY <1>1, LocationForm
    <3>2. p = [loc |-> p.loc, role |-> p.role]
      BY <1>1 DEF Pointer
    <3>. QED  BY <2>2, <3>1, <3>2
  <2>. QED  BY <1>2, <2>1, <2>2
<1>6. RecordsSound' /\ Evolves
  BY <1>3, <1>5, IndexStep, IndexEvolves DEF StoreInv
<1>7. \A d \in Client : CallSound(d)'
  BY <1>4, <1>6, OthersStaySound DEF StoreInv, StandsStill
<1>8. OneMakesOneEnds'
  BY DEF StoreInv, OneMakesOneEnds, Made, Ended, At
<1>9. StoreInv'
  BY <1>4, <1>6, <1>7, <1>8 DEF StoreInv
<1>10. LifeOf' = LifeOf
  BY DEF LifeOf, RecordAt
<1>11. GuardsOfLifecycles'
  BY DEF GuardsOfLifecycles, RecordAt
<1>. QED  BY <1>6, <1>9, <1>10, <1>11, EvolvesAdvances

LEMMA RestAdvances ==
  ASSUME StoreInv, GuardsOfLifecycles, UNCHANGED vars
  PROVE  StoreInv' /\ GuardsOfLifecycles' /\ Advance
BY WriterAdvances, GuardsStay

-----------------------------------------------------------------------------
\* A call that waits.

\* The variables of one call.
Rests(q) ==
    /\ ask'[q] = ask[q] /\ step'[q] = step[q] /\ began'[q] = began[q]
    /\ listed'[q] = listed[q] /\ left'[q] = left[q] /\ located'[q] = located[q]
    /\ found'[q] = found[q] /\ recorded'[q] = recorded[q] /\ result'[q] = result[q]

\* What was active, and still is, never changed.
LEMMA StillActive ==
  ASSUME NEW a \in Assignment \cup {None}, NEW b \in Assignment \cup {None},
         NEW c \in Assignment \cup {None}, Since(a, b), Since(b, c), Active(a), Active(c)
  PROVE  a = c /\ a = b
<1>1. a = c
  BY SinceSince, ActiveThroughout DEF Active
<1>. QED  BY <1>1, Squeezed

\* What an id was once it was once.
LEMMA OnceStays ==
  ASSUME Advance, NEW q \in Reader, began[q].life \in Life, began'[q] = began[q]
  PROVE  /\ \A i \in Id : \A x : WasOnce(q, i, x) => WasOnce(q, i, x)'
         /\ \A f : Instant(q, f) => Instant(q, f)'
<1>1. ASSUME NEW i \in Id, NEW x, WasOnce(q, i, x) PROVE WasOnce(q, i, x)'
  <2>1. /\ x \in Assignment \cup {None} /\ Since(began[q].life[i], x) /\ Since(x, LifeOf[i])
    BY <1>1 DEF WasOnce
  <2>2. /\ LifeOf[i] \in Assignment \cup {None} /\ LifeOf'[i] \in Assignment \cup {None}
        /\ Since(LifeOf[i], LifeOf'[i])
    BY DEF Advance, Life
  <2>3. Since(x, LifeOf'[i])
    BY <2>1, <2>2, SinceSince
  <2>. QED  BY <2>1, <2>3 DEF WasOnce
<1>2. ASSUME NEW f, Instant(q, f) PROVE Instant(q, f)'
  BY <1>1, <1>2 DEF Instant
<1>. QED  BY <1>1, <1>2

LEMMA BeganStays ==
  ASSUME Advance, NEW q \in Reader, Began(q), began'[q] = began[q]
  PROVE  Began(q)'
<1>1. ASSUME NEW i \in Id
      PROVE  /\ Since(began[q].life[i], LifeOf'[i])
             /\ LifeOf'[i] # None => i \in Indexed' \/ began[q].life[i] # None
  <2>1. /\ began[q].life[i] \in Assignment \cup {None} /\ LifeOf[i] \in Assignment \cup {None}
        /\ LifeOf'[i] \in Assignment \cup {None}
        /\ Since(began[q].life[i], LifeOf[i]) /\ Since(LifeOf[i], LifeOf'[i])
    BY DEF Began, Advance, Life
  <2>2. Since(began[q].life[i], LifeOf'[i])
    BY <2>1, SinceSince
  <2>. QED  BY <2>2 DEF Began, Advance
<1>. QED  BY <1>1 DEF Began, Advance

LEMMA RecordsStay ==
  ASSUME Advance, NEW q \in Reader, Began(q), ListingRecords(q), Rests(q)
  PROVE  ListingRecords(q)'
<1>1. /\ began[q].life \in Life
      /\ \A i \in Id : Revoked(LifeOf[i]) => LifeOf'[i] = LifeOf[i]
  BY DEF Began, Advance, Since
<1>2. \A f : Instant(q, f) => Instant(q, f)'
  BY <1>1, OnceStays DEF Rests
<1>3. \A k \in RecordKeys : \E f \in Life : Instant(q, f)' /\ IsRow(f, ask[q].loc, k, listed[q][k])
  BY <1>2 DEF ListingRecords
<1>4. step[q] = "confirm" => left[q] \subseteq RecordKeys
  BY DEF ListingRecords
<1>5. ASSUME step[q] = "confirm"
      PROVE  \A i, j \in Id :
               /\ Active(listed[q][<<"assignment", i>>])
               /\ Active(listed[q][<<"assignment", j>>])
               /\ listed[q][<<"assignment", i>>].role = listed[q][<<"assignment", j>>].role
               /\ i # j
               => \E m \in {i, j} : <<"assignment", m>> \in left[q] /\ Revoked(LifeOf[m])
  BY <1>5, Zenon DEF ListingRecords
<1>6. \A i, j \in Id : \A m \in {i, j} : Revoked(LifeOf[m]) => Revoked(LifeOf'[m])
  BY <1>1
<1>7. ask'[q] = ask[q] /\ listed'[q] = listed[q] /\ step'[q] = step[q] /\ left'[q] = left[q]
  BY DEF Rests
<1>8. listed'[q] = [k \in RecordKeys |-> listed'[q][k]]
  BY <1>7, Zenon DEF ListingRecords
<1>9. \A k \in RecordKeys :
         \E f \in Life : Instant(q, f)' /\ IsRow(f, ask'[q].loc, k, listed'[q][k])
  BY <1>3, <1>7
<1>10. ASSUME step'[q] = "confirm"
       PROVE  /\ left'[q] \subseteq RecordKeys
              /\ \A i, j \in Id :
                   /\ Active(listed'[q][<<"assignment", i>>])
                   /\ Active(listed'[q][<<"assignment", j>>])
                   /\ listed'[q][<<"assignment", i>>].role = listed'[q][<<"assignment", j>>].role
                   /\ i # j
                   => \E m \in {i, j} : <<"assignment", m>> \in left'[q] /\ Revoked(LifeOf'[m])
  <2>1. step[q] = "confirm"
    BY <1>7, <1>10
  <2>2. ASSUME NEW i \in Id, NEW j \in Id,
               Active(listed'[q][<<"assignment", i>>]),
               Active(listed'[q][<<"assignment", j>>]),
               listed'[q][<<"assignment", i>>].role = listed'[q][<<"assignment", j>>].role,
               i # j
        PROVE  \E m \in {i, j} : <<"assignment", m>> \in left'[q] /\ Revoked(LifeOf'[m])
    <3>1. PICK m \in {i, j} : <<"assignment", m>> \in left[q] /\ Revoked(LifeOf[m])
      BY <1>5, <1>7, <2>1, <2>2
    <3>. QED  BY <1>6, <1>7, <3>1
  <2>. QED  BY <1>4, <1>7, <2>1, <2>2
<1>. QED  BY <1>8, <1>9, <1>10, Zenon DEF ListingRecords

LEMMA HoldersStay ==
  ASSUME Advance, NEW q \in Reader, ReadTypes, Began(q), ask[q] \in Ask,
         ask[q].op = "byrole", ListingHolders(q), Rests(q)
  PROVE  ListingHolders(q)'
<1>1. ask[q].scope \in Scope /\ ask[q].role \in Role
  BY DEF Ask, PointReads, RecordListings
<1>2. \A i \in Present(listed[q]) : listed[q][i] = holders'[ask[q].scope][ask[q].role][i]
  BY <1>1 DEF ListingHolders, Present, Advance
<1>3. \A x \in found[q] : /\ Active(x[2]) /\ WasOnce(q, x[1], x[2])'
                          /\ Asked(ask[q], x[2])
  <2>1. \A x \in found[q] : /\ x[1] \in Id /\ Active(x[2]) /\ WasOnce(q, x[1], x[2])
                            /\ Asked(ask[q], x[2])
    BY DEF ListingHolders, ReadTypes
  <2>. QED  BY <2>1, OnceStays DEF Began, Rests
<1>4. ASSUME step[q] = "follow", NEW i \in Present(listed[q])
      PROVE  \/ i \in left[q] \/ located[q][i] # None
             \/ Active(began[q].life[i]) /\ Active(LifeOf'[i]) => <<i, LifeOf'[i]>> \in found[q]
  <2>1. /\ i \in Id /\ began[q].life[i] \in Assignment \cup {None}
        /\ LifeOf[i] \in Assignment \cup {None} /\ LifeOf'[i] \in Assignment \cup {None}
        /\ Since(began[q].life[i], LifeOf[i]) /\ Since(LifeOf[i], LifeOf'[i])
    BY DEF Began, Advance, Life, ListingHolders, Present
  <2>2. Active(began[q].life[i]) /\ Active(LifeOf'[i])
           => LifeOf'[i] = began[q].life[i] /\ LifeOf[i] = began[q].life[i]
    BY <2>1, StillActive
  <2>. QED  BY <1>4, <2>2 DEF ListingHolders
<1>5. \A i \in Id : Due(q, i)' <=> Due(q, i)
  BY DEF Due, Rests, Asked
<1>6. \A a, x : Asked(a, x)' = Asked(a, x)
  BY DEF Asked
<1>. QED  BY <1>2, <1>3, <1>4, <1>5, <1>6 DEF ListingHolders, Rests

LEMMA PointersStay ==
  ASSUME Advance, NEW q \in Reader, ReadTypes, Began(q), ListingPointers(q), Rests(q)
  PROVE  ListingPointers(q)'
<1>1. \A i \in Present(listed[q]) : listed[q][i] = pointers'[i]
  BY DEF ListingPointers, Present, Advance
<1>2. \A i \in Id : LifeOf[i] # None => LifeOf'[i] # None
  BY DEF Advance, Since
<1>3. step[q] \in {"follow", "insert"} =>
        \A i \in Id : LifeOf'[i] # None => i \in Indexed' \/ i \in left[q]
  BY DEF ListingPointers, Advance
<1>4. Missing(q)' = Missing(q)
  BY DEF Missing, Rests
<1>5. step[q] = "insert" =>
        \A i \in Present(located[q]) : i \in left[q] /\ LifeOf'[i] # None
  BY <1>2 DEF ListingPointers, ReadTypes, Present
<1>. QED  BY <1>1, <1>3, <1>4, <1>5 DEF ListingPointers, Rests

LEMMA ReadingStays ==
  ASSUME Advance, NEW q \in Reader, Began(q), ask[q].id \in Id, Reading(q), Rests(q)
  PROVE  Reading(q)'
<1>1. \A x : WasOnce(q, ask[q].id, x) => WasOnce(q, ask[q].id, x)'
  BY OnceStays DEF Began, Rests
<1>. QED  BY <1>1 DEF Reading, Rests

LEMMA AnswerStays ==
  ASSUME Advance, NEW q \in Reader, ask[q] \in Ask, Began(q), AnswerTrue(q), Rests(q)
  PROVE  AnswerTrue(q)'
<1>1. /\ \A i \in Id : \A x : WasOnce(q, i, x) => WasOnce(q, i, x)'
      /\ result'[q] = result[q] /\ ask'[q] = ask[q] /\ began'[q] = began[q]
  BY OnceStays DEF Began, Rests
<1>2. \A i \in Id : /\ began[q].life[i] \in Assignment \cup {None}
                    /\ LifeOf[i] \in Assignment \cup {None}
                    /\ LifeOf'[i] \in Assignment \cup {None}
                    /\ Since(began[q].life[i], LifeOf[i]) /\ Since(LifeOf[i], LifeOf'[i])
  BY DEF Began, Advance, Life
<1>3. ASSUME Moved(q) PROVE Moved(q)'
  <2>1. PICK i \in Id : /\ LifeOf[i] # None /\ LifeOf[i].loc = ask[q].loc
                        /\ LifeOf[i] # began[q].life[i]
    BY <1>3 DEF Moved
  <2>2. LifeOf'[i] # None /\ LifeOf'[i].loc = ask[q].loc
    BY <1>2, <2>1 DEF Since, SameGrant
  <2>3. LifeOf'[i] # began[q].life[i]
    BY <1>2, <2>1, Squeezed
  <2>. QED  BY <1>1, <1>3, <2>2, <2>3 DEF Moved
<1>4. ASSUME ActivesTrue(q) PROVE ActivesTrue(q)'
  <2>1. \A x \in result[q].records : /\ x[1] \in Id /\ Active(x[2]) /\ WasOnce(q, x[1], x[2])'
                                     /\ Asked(ask[q], x[2])
    BY <1>1, <1>4 DEF ActivesTrue
  <2>2. ASSUME NEW i \in Id, Active(began[q].life[i]), Active(LifeOf'[i]),
               Asked(ask[q], began[q].life[i]),
               ask[q].op = "byrole" => i \in began[q].indexed
        PROVE  <<i, LifeOf'[i]>> \in result[q].records
    <3>1. LifeOf'[i] = began[q].life[i] /\ LifeOf[i] = began[q].life[i]
      BY <1>2, <2>2, StillActive
    <3>. QED  BY <1>4, <2>2, <3>1 DEF ActivesTrue
  <2>3. \A a, x : Asked(a, x)' = Asked(a, x)
    BY DEF Asked
  <2>. QED  BY <1>1, <2>1, <2>2, <2>3 DEF ActivesTrue
<1>5. RolesOnce(q) => RolesOnce(q)'
  BY <1>1 DEF RolesOnce
<1>6. ASSUME HistoryTrue(q) PROVE HistoryTrue(q)'
  BY <1>1, <1>6 DEF HistoryTrue, Asked
<1>7. RebuildTrue(q) => RebuildTrue(q)'
  <2>1. Missing(q)' = Missing(q)
    BY <1>1 DEF Missing
  <2>. QED  BY <1>1, <2>1 DEF RebuildTrue, Advance
<1>8. ask[q].op = "get" /\ GetTrue(q) => GetTrue(q)'
  <2>1. ask[q].op = "get" => ask[q].id \in Id
    BY DEF Ask, PointReads, RecordListings
  <2>. QED  BY <1>1, <2>1 DEF GetTrue
<1>9. ask[q].op = "audit" /\ AuditTrue(q) => AuditTrue(q)'
  <2>1. ask[q].op = "audit" => ask[q].id \in Id
    BY DEF Ask, PointReads, RecordListings
  <2>. QED  BY <1>1, <2>1 DEF AuditTrue
<1>10. result[q] \in Result => result'[q] \in Result
  BY <1>1
<1>. QED  BY <1>1, <1>3, <1>4, <1>5, <1>6, <1>7, <1>8, <1>9, <1>10 DEF AnswerTrue

\* Whatever the store and the others do, a call that waits can rely on.
LEMMA ReaderStays ==
  ASSUME Advance, ReadTypes, NEW q \in Reader, ReaderSound(q), Rests(q)
  PROVE  ReaderSound(q)'
<1>1. step[q] # "idle" => ask[q] \in Ask
  BY DEF ReaderSound, Stands, ReadTypes
<1>2. Stands(q)'
  BY DEF ReaderSound, Stands, Rests
<1>3. Pointing(q)'
  BY DEF ReaderSound, Pointing, Present, Rests, ReadTypes, Advance
<1>4. step[q] # "idle" => Began(q)'
  BY BeganStays DEF ReaderSound, Rests
<1>5. step[q] \in {"list", "confirm"} /\ ask[q].op \in RecordListings => ListingRecords(q)'
  BY RecordsStay DEF ReaderSound
<1>6. step[q] \in {"list", "confirm", "follow"} /\ ask[q].op = "byrole" => ListingHolders(q)'
  BY <1>1, HoldersStay DEF ReaderSound
<1>7. step[q] \in {"list", "confirm", "follow", "insert"} /\ ask[q].op = "rebuild"
        => ListingPointers(q)'
  BY <1>1, PointersStay DEF ReaderSound
<1>8. ask[q] # None /\ ask[q].op \in PointReads => Reading(q)'
  <2>1. ask[q] # None /\ ask[q].op \in PointReads => ask[q].id \in Id /\ step[q] # "idle"
    BY DEF ReaderSound, Stands, ReadTypes, Ask, PointReads, RecordListings
  <2>. QED  BY <2>1, ReadingStays DEF ReaderSound
<1>9. step[q] = "answered" => AnswerTrue(q)'
  BY <1>1, AnswerStays DEF ReaderSound
<1>. QED  BY <1>2, <1>3, <1>4, <1>5, <1>6, <1>7, <1>8, <1>9 DEF ReaderSound, Rests

-----------------------------------------------------------------------------
\* A step of one call.

\* Nothing but the variables of this call change.
Touches(r) ==
    /\ ask' = [ask EXCEPT ![r] = ask'[r]]
    /\ step' = [step EXCEPT ![r] = step'[r]]
    /\ listed' = [listed EXCEPT ![r] = listed'[r]]
    /\ left' = [left EXCEPT ![r] = left'[r]]
    /\ located' = [located EXCEPT ![r] = located'[r]]
    /\ found' = [found EXCEPT ![r] = found'[r]]
    /\ recorded' = [recorded EXCEPT ![r] = recorded'[r]]
    /\ result' = [result EXCEPT ![r] = result'[r]]
    /\ began' = [began EXCEPT ![r] = began'[r]]

TypesOf(r) ==
    /\ ask[r] \in Ask \cup {None}
    /\ step[r] \in ReadSteps
    /\ left[r] \subseteq RecordKeys \cup Id
    /\ located[r] \in [Id -> Pointer \cup {None}]
    /\ found[r] \subseteq Id \X Assignment
    /\ recorded[r] \in Nat

StoreGoesOn == StoreInv' /\ GuardsOfLifecycles' /\ Advance

\* What a step of one call has to show.
LEMMA MoveKeeps ==
  ASSUME ReadInv, NEW r \in Reader, StoreGoesOn, Touches(r), TypesOf(r)', ReaderSound(r)'
  PROVE  ReadInv'
<1>1. ReadTypes
  BY DEF ReadInv
<1>2. \A q \in Reader : q # r => Rests(q)
  BY <1>1 DEF ReadTypes, Touches, Rests
<1>3. ReadTypes'
  <2>1. /\ ask' \in [Reader -> Ask \cup {None}]
        /\ step' \in [Reader -> ReadSteps]
        /\ left' \in [Reader -> SUBSET (RecordKeys \cup Id)]
        /\ located' \in [Reader -> [Id -> Pointer \cup {None}]]
    BY <1>1 DEF ReadTypes, Touches, TypesOf
  <2>2. /\ found' \in [Reader -> SUBSET (Id \X Assignment)]
        /\ recorded' \in [Reader -> Nat]
    BY <1>1 DEF ReadTypes, Touches, TypesOf
  <2>3. /\ listed' = [q \in Reader |-> listed'[q]]
        /\ result' = [q \in Reader |-> result'[q]]
        /\ began' = [q \in Reader |-> began'[q]]
    BY <1>1 DEF ReadTypes, Touches
  <2>. QED  BY <2>1, <2>2, <2>3 DEF ReadTypes
<1>4. ASSUME NEW q \in Reader PROVE ReaderSound(q)'
  <2>1. CASE q = r
    BY <2>1
  <2>2. CASE q # r
    BY <1>1, <1>2, <2>2, ReaderStays DEF ReadInv, StoreGoesOn
  <2>. QED  BY <2>1, <2>2
<1>. QED  BY <1>3, <1>4 DEF ReadInv, StoreGoesOn

\* The store does not move: reads write nothing.
LEMMA StoreRests ==
  ASSUME ReadInv, UNCHANGED vars
  PROVE  StoreGoesOn /\ LifeOf' = LifeOf /\ Indexed' = Indexed
<1>1. StoreGoesOn
  BY RestAdvances DEF ReadInv, StoreGoesOn
<1>2. LifeOf' = LifeOf
  BY DEF vars, stored, LifeOf, RecordAt
<1>3. Indexed' = Indexed
  BY DEF vars, stored, Indexed
<1>. QED  BY <1>1, <1>2, <1>3

\* A call that answers, and what its answer has to be.
LEMMA AnswerKeeps ==
  ASSUME ReadInv, NEW r \in Reader, StoreGoesOn, step[r] # "idle", UNCHANGED call,
         NEW a, Settle(r, a),
         /\ result'[r] = a /\ ask'[r] = ask[r] /\ began'[r] = began[r] => AnswerTrue(r)'
  PROVE  ReadInv'
<1>1. ReadTypes /\ ReaderSound(r) /\ ask[r] \in Ask /\ Began(r) /\ ask[r] # None
  BY DEF ReadInv, ReaderSound, Stands, ReadTypes
<1>2. Touches(r)
  BY <1>1 DEF Settle, call, ReadTypes, Touches
<1>3. /\ step'[r] = "answered" /\ result'[r] = a /\ listed'[r] = None /\ left'[r] = {}
      /\ located'[r] = NothingLocated /\ found'[r] = {} /\ recorded'[r] = 0
      /\ ask'[r] = ask[r] /\ began'[r] = began[r]
  BY <1>1 DEF Settle, call, ReadTypes
<1>4. TypesOf(r)'
  BY <1>1, <1>3 DEF TypesOf, ReadSteps, NothingLocated
<1>5. ReaderSound(r)'
  <2>1. Stands(r)'
    BY <1>1, <1>3 DEF Stands
  <2>2. Pointing(r)'
    BY <1>3 DEF Pointing, Present, NothingLocated
  <2>3. Began(r)'
    BY <1>1, <1>3, BeganStays DEF StoreGoesOn
  <2>4. Reading(r)'
    BY <1>3 DEF Reading
  <2>5. AnswerTrue(r)'
    BY <1>3
  <2>. QED  BY <1>3, <2>1, <2>2, <2>3, <2>4, <2>5 DEF ReaderSound
<1>. QED  BY <1>2, <1>4, <1>5, MoveKeeps

\* What an id is now is what it was at an instant of the call.
LEMMA OnceNow ==
  ASSUME ReadInv, NEW r \in Reader, Began(r), LifeOf' = LifeOf, began'[r] = began[r]
  PROVE  \A i \in Id : /\ WasOnce(r, i, LifeOf[i]) /\ WasOnce(r, i, LifeOf[i])'
                       /\ LifeOf[i] \in Assignment \cup {None}
<1>1. LifeOf \in Life
  BY LifeLocated DEF ReadInv
<1>. QED  BY <1>1, SinceItself DEF WasOnce, Began, Life

-----------------------------------------------------------------------------
\* A call begins and ends.

LEMMA LeaveKeeps ==
  ASSUME ReadInv, NEW r \in Reader, Leave(r), UNCHANGED <<pc, cmd, seen, reply>>
  PROVE  ReadInv'
<1>1. ReadTypes
  BY DEF ReadInv
<1>2. StoreGoesOn
  BY StoreRests DEF Leave, vars
<1>3. Touches(r)
  BY <1>1 DEF Leave, ReadTypes, Touches
<1>4. /\ ask'[r] = None /\ step'[r] = "idle" /\ left'[r] = {}
      /\ located'[r] = NothingLocated /\ found'[r] = {} /\ recorded'[r] = 0
  BY <1>1 DEF Leave, ReadTypes
<1>5. TypesOf(r)'
  BY <1>4 DEF TypesOf, ReadSteps, NothingLocated
<1>6. ReaderSound(r)'
  BY <1>4 DEF ReaderSound, Stands, Pointing, Present, NothingLocated
<1>. QED  BY <1>2, <1>3, <1>5, <1>6, MoveKeeps

LEMMA AskForms ==
  ASSUME NEW a \in Ask
  PROVE  /\ a.op \in RecordListings \cup PointReads \cup {"byrole", "rebuild"}
         /\ a.op \in RecordListings => a.loc \in Location
         /\ a.op = "byrole" => a.scope \in Scope /\ a.role \in Role
         /\ a.op \in PointReads => a.id \in Id
BY ReadsAssumption DEF Ask, PointReads, RecordListings

\* What is located by a pointer of this role and scope is in the index by role,
\* if it is indexed at all.
LEMMA IndexedByRole ==
  ASSUME StoreInv, NEW i \in Indexed, NEW s, NEW q, LifeOf[i] # None,
         LifeOf[i].loc.scope = s, LifeOf[i].role = q
  PROVE  holders[s][q][i] # None
<1>1. /\ i \in Id /\ pointers[i] # None
      /\ holders[pointers[i].loc.scope][pointers[i].role][i] = pointers[i].loc.principal
  BY DEF Indexed
<1>2. pointers[i].loc = LifeOf[i].loc /\ pointers[i].role = LifeOf[i].role
  BY <1>1, PointedLife DEF Agrees
<1>3. pointers[i].loc.principal \in Principal
  BY <1>1, PointedLife
<1>. QED  BY <1>1, <1>2, <1>3, RecordsAssumption

LEMMA BeginKeeps ==
  ASSUME ReadInv, NEW r \in Reader, Begin(r), UNCHANGED <<pc, cmd, seen, reply>>
  PROVE  ReadInv'
<1>1. ReadTypes /\ ReaderSound(r) /\ StoreInv /\ GuardsOfLifecycles
  BY DEF ReadInv
<1>2. StoreGoesOn /\ LifeOf' = LifeOf /\ Indexed' = Indexed /\ UNCHANGED stored
  BY StoreRests DEF Begin, vars
<1>3. PICK a \in Ask :
        /\ ask' = [ask EXCEPT ![r] = a]
        /\ began' = [began EXCEPT ![r] =
             [life |-> LifeOf,
              indexed |-> IF a.op \in {"byrole", "rebuild"} THEN Indexed ELSE {}]]
        /\ \/ /\ a.op \in PointReads
              /\ Go(r, "locate") /\ UNCHANGED listed
           \/ /\ a.op \notin PointReads
              /\ Go(r, "list") /\ listed' = [listed EXCEPT ![r] = View(a)]
  BY DEF Begin
<1>4. Touches(r)
  <2>1. /\ ask' = [ask EXCEPT ![r] = ask'[r]] /\ began' = [began EXCEPT ![r] = began'[r]]
    BY <1>1, <1>3 DEF ReadTypes
  <2>2. /\ left' = [left EXCEPT ![r] = left'[r]] /\ located' = [located EXCEPT ![r] = located'[r]]
        /\ found' = [found EXCEPT ![r] = found'[r]]
    BY <1>1 DEF ReadTypes, Begin
  <2>3. /\ step' = [step EXCEPT ![r] = step'[r]] /\ listed' = [listed EXCEPT ![r] = listed'[r]]
        /\ recorded' = [recorded EXCEPT ![r] = recorded'[r]]
        /\ result' = [result EXCEPT ![r] = result'[r]]
    BY <1>1, <1>3 DEF ReadTypes, Go
  <2>. QED  BY <2>1, <2>2, <2>3 DEF Touches
<1>5. /\ ask'[r] = a /\ began'[r].life = LifeOf
      /\ began'[r].indexed = IF a.op \in {"byrole", "rebuild"} THEN Indexed ELSE {}
      /\ began'[r] = [life |-> began'[r].life, indexed |-> began'[r].indexed]
  BY <1>1, <1>3 DEF ReadTypes
<1>6. \/ a.op \in PointReads /\ step'[r] = "locate"
      \/ a.op \notin PointReads /\ step'[r] = "list" /\ listed'[r] = View(a)
  BY <1>1, <1>3 DEF ReadTypes, Go
<1>7. /\ left'[r] = left[r] /\ located'[r] = NothingLocated /\ found'[r] = {}
      /\ recorded'[r] = 0
  BY <1>1, <1>3 DEF ReaderSound, Stands, Begin, Go
<1>8. TypesOf(r)'
  BY <1>1, <1>5, <1>6, <1>7 DEF TypesOf, ReadSteps, NothingLocated, ReadTypes
<1>9. Stands(r)'
  BY <1>5, <1>6, <1>7, AskForms, ReadsAssumption DEF Stands, RecordListings, PointReads
<1>10. Pointing(r)'
  BY <1>7 DEF Pointing, Present, NothingLocated
<1>11. LifeOf \in Life /\ Indexed \subseteq Id
  BY <1>1, LifeLocated DEF Indexed
<1>12. Began(r)'
  BY <1>2, <1>5, <1>11, SinceItself DEF Began
<1>13. \A i \in Id : WasOnce(r, i, LifeOf[i])'
  BY <1>2, <1>5, <1>11, SinceItself DEF WasOnce, Life
<1>14. a.op \in RecordListings => ListingRecords(r)'
  <2>. SUFFICES ASSUME a.op \in RecordListings PROVE ListingRecords(r)'
    OBVIOUS
  <2>1. a.loc \in Location /\ step'[r] = "list" /\ listed'[r] = RecordRows(a.loc)
    BY <1>6, AskForms DEF View, RecordListings, PointReads
  <2>2. PICK f \in Life : f = LifeOf
    BY <1>11
  <2>3. Instant(r, f)'
    BY <1>2, <1>13, <2>2 DEF Instant
  <2>4. \A k \in RecordKeys : IsRow(f, a.loc, k, listed'[r][k])
    BY <1>1, <2>1, <2>2, RowsOfLives DEF RecordRows
  <2>5. listed'[r] = [k \in RecordKeys |-> listed'[r][k]]
    BY <2>1 DEF RecordRows
  <2>. QED  BY <1>5, <2>1, <2>3, <2>4, <2>5 DEF ListingRecords
<1>15. a.op = "byrole" => ListingHolders(r)'
  <2>. SUFFICES ASSUME a.op = "byrole" PROVE ListingHolders(r)'
    OBVIOUS
  <2>1. /\ a.scope \in Scope /\ a.role \in Role
        /\ step'[r] = "list" /\ listed'[r] = holders[a.scope][a.role]
    BY <1>6, AskForms DEF View, RecordListings, PointReads
  <2>2. listed'[r] \in [Id -> Principal \cup {None}]
    BY <1>1, <2>1 DEF StoreInv, TypeOK
  <2>3. \A i \in Id : Due(r, i)' => listed'[r][i] # None
    BY <1>1, <1>5, <2>1, IndexedByRole DEF Due, Asked, RecordListings
  <2>4. Present(located'[r]) \subseteq Present(listed'[r])
    BY <1>7 DEF Present, NothingLocated
  <2>. QED  BY <1>2, <1>5, <1>7, <2>1, <2>2, <2>3, <2>4 DEF ListingHolders, stored
<1>16. a.op = "rebuild" => ListingPointers(r)'
  <2>. SUFFICES ASSUME a.op = "rebuild" PROVE ListingPointers(r)'
    OBVIOUS
  <2>1. step'[r] = "list" /\ listed'[r] = pointers
    BY <1>6 DEF View, RecordListings, PointReads
  <2>2. listed'[r] \in [Id -> Pointer \cup {None}]
    BY <1>1, <2>1 DEF StoreInv, TypeOK
  <2>3. \A i \in Id : LifeOf[i] # None => pointers[i] # None
    BY DEF LifeOf
  <2>. QED  BY <1>2, <1>5, <2>1, <2>2, <2>3 DEF ListingPointers, stored
<1>17. Reading(r)'
  BY <1>6 DEF Reading
<1>18. ReaderSound(r)'
  BY <1>5, <1>6, <1>9, <1>10, <1>12, <1>14, <1>15, <1>16, <1>17 DEF ReaderSound
<1>. QED  BY <1>2, <1>4, <1>8, <1>18, MoveKeeps

-----------------------------------------------------------------------------
\* Reads by id.

\* What all calls that read have in common, of which nothing is asked anew.
LEMMA ReadingStands ==
  ASSUME ReadInv, NEW r \in Reader, step[r] # "idle", UNCHANGED vars, UNCHANGED call
  PROVE  /\ ReadTypes /\ ReaderSound(r) /\ StoreInv /\ GuardsOfLifecycles
         /\ ask[r] \in Ask /\ ask[r] # None /\ Began(r) /\ Began(r)'
         /\ ask'[r] = ask[r] /\ began'[r] = began[r]
         /\ StoreGoesOn /\ LifeOf' = LifeOf /\ Indexed' = Indexed /\ UNCHANGED stored
         /\ \A i \in Id : \A x : WasOnce(r, i, x) => WasOnce(r, i, x)'
         /\ \A f : Instant(r, f) => Instant(r, f)'
         /\ \A i \in Id : WasOnce(r, i, LifeOf[i]) /\ LifeOf[i] \in Assignment \cup {None}
         /\ UNCHANGED <<ask, began>>
<1>1. /\ ReadTypes /\ ReaderSound(r) /\ StoreInv /\ GuardsOfLifecycles
      /\ ask[r] \in Ask /\ ask[r] # None /\ Began(r)
      /\ ask'[r] = ask[r] /\ began'[r] = began[r] /\ UNCHANGED <<ask, began>>
  BY DEF ReadInv, ReaderSound, Stands, ReadTypes, call
<1>2. StoreGoesOn /\ LifeOf' = LifeOf /\ Indexed' = Indexed /\ UNCHANGED stored
  BY StoreRests DEF vars
<1>3. Began(r)'
  BY <1>1, <1>2, BeganStays DEF StoreGoesOn
<1>4. /\ \A i \in Id : \A x : WasOnce(r, i, x) => WasOnce(r, i, x)'
      /\ \A f : Instant(r, f) => Instant(r, f)'
  BY <1>1, <1>2, OnceStays DEF StoreGoesOn, Began
<1>5. \A i \in Id : WasOnce(r, i, LifeOf[i]) /\ LifeOf[i] \in Assignment \cup {None}
  BY <1>1, <1>2, OnceNow
<1>. QED  BY <1>1, <1>2, <1>3, <1>4, <1>5

\* A read by id that answers ok.
LEMMA PointAnswer ==
  ASSUME ReadInv, NEW r \in Reader, step[r] # "idle", UNCHANGED vars, UNCHANGED call,
         NEW x \in Assignment \cup {None}, WasOnce(r, ask[r].id, x),
         \/ /\ ask[r].op = "get"
            /\ Records(r, IF x = None THEN {} ELSE {<<ask[r].id, x>>})
         \/ /\ ask[r].op = "audit"
            /\ Events(r, IF x = None THEN <<>> ELSE HistoryFrom(x))
  PROVE  ReadInv'
<1>1. /\ ask[r] \in Ask /\ ask'[r] = ask[r] /\ StoreGoesOn
      /\ \A i \in Id : WasOnce(r, i, x) => WasOnce(r, i, x)'
  BY ReadingStands
<1>2. ask[r].id \in Id
  BY <1>1, AskForms DEF PointReads
<1>3. CASE ask[r].op = "get" /\ Records(r, IF x = None THEN {} ELSE {<<ask[r].id, x>>})
  <2>1. PICK a : /\ Settle(r, a)
                 /\ a = [status |-> "ok", records |-> IF x = None THEN {} ELSE {<<ask[r].id, x>>},
                         events |-> <<>>, recorded |-> 0]
    BY <1>3 DEF Records
  <2>2. a \in Result /\ a.status = "ok"
    <3>1. (IF x = None THEN {} ELSE {<<ask[r].id, x>>}) \in SUBSET (Id \X Assignment)
      BY <1>2
    <3>. QED  BY <2>1, <3>1 DEF Result
  <2>3. result'[r] = a /\ ask'[r] = ask[r] /\ began'[r] = began[r] => AnswerTrue(r)'
    <3>. SUFFICES ASSUME result'[r] = a PROVE AnswerTrue(r)'
      OBVIOUS
    <3>1. a.records = IF x = None THEN {} ELSE {<<ask[r].id, x>>}
      BY <2>1
    <3>2. WasOnce(r, ask[r].id, x)'
      BY <1>1, <1>2
    <3>3. GetTrue(r)'
      BY <1>1, <3>1, <3>2 DEF GetTrue
    <3>. QED  BY <1>1, <1>3, <2>2, <3>3 DEF AnswerTrue
  <2>. QED  BY <1>1, <2>1, <2>3, AnswerKeeps
<1>4. CASE ask[r].op = "audit" /\ Events(r, IF x = None THEN <<>> ELSE HistoryFrom(x))
  <2>1. PICK a : /\ Settle(r, a)
                 /\ a = [status |-> "ok", records |-> {},
                         events |-> IF x = None THEN <<>> ELSE HistoryFrom(x), recorded |-> 0]
    BY <1>4 DEF Events
  <2>2. a \in Result /\ a.status = "ok"
    <3>1. ASSUME x # None PROVE HistoryFrom(x) \in Seq(Event)
      <4>1. x.grantEvent \in Event /\ (~Active(x) => x.revocation.event \in Event)
        BY <3>1 DEF Assignment, Revocation, Active
      <4>. QED  BY <4>1 DEF HistoryFrom
    <3>2. (IF x = None THEN <<>> ELSE HistoryFrom(x)) \in Seq(Event)
      BY <3>1
    <3>. QED  BY <2>1, <3>2 DEF Result
  <2>3. result'[r] = a /\ ask'[r] = ask[r] /\ began'[r] = began[r] => AnswerTrue(r)'
    BY <1>1, <1>2, <1>4, <2>1, <2>2 DEF AnswerTrue, AuditTrue
  <2>. QED  BY <1>1, <2>1, <2>3, AnswerKeeps
<1>. QED  BY <1>3, <1>4

\* A read of the audit history that is refused.
LEMMA AuditRefused ==
  ASSUME ReadInv, NEW r \in Reader, step[r] # "idle", UNCHANGED vars, UNCHANGED call,
         ask[r].op = "audit", Throw(r, "corrupt")
  PROVE  ReadInv'
<1>1. PICK a : /\ Settle(r, a)
               /\ a = [status |-> "corrupt", records |-> {}, events |-> <<>>, recorded |-> 0]
  BY DEF Throw
<1>2. a \in Result /\ a.status = "corrupt"
  BY <1>1 DEF Result
<1>3. result'[r] = a /\ ask'[r] = ask[r] /\ began'[r] = began[r] => AnswerTrue(r)'
  BY <1>2 DEF AnswerTrue
<1>. QED  BY <1>1, <1>3, ReadingStands, AnswerKeeps

\* A read by id that goes on to its next step.
LEMMA PointMoves ==
  ASSUME ReadInv, NEW r \in Reader, step[r] # "idle", UNCHANGED vars, UNCHANGED call,
         ask[r].op \in PointReads, Touches(r), TypesOf(r)',
         step'[r] \in {"record", "orphans", "granted", "revoked"},
         step'[r] # "record" => ask[r].op = "audit",
         Pointing(r)', Reading(r)'
  PROVE  ReadInv'
<1>1. /\ ask[r] \in Ask /\ ask[r] # None /\ ask'[r] = ask[r] /\ StoreGoesOn /\ Began(r)'
  BY ReadingStands
<1>2. ask[r].op \notin RecordListings \cup {"byrole", "rebuild"}
  BY DEF PointReads, RecordListings
<1>3. Stands(r)'
  BY <1>1, <1>2 DEF Stands
<1>4. ReaderSound(r)'
  BY <1>1, <1>2, <1>3 DEF ReaderSound
<1>. QED  BY <1>1, <1>4, MoveKeeps

LEMMA LocateKeeps ==
  ASSUME ReadInv, NEW r \in Reader, Locate(r), UNCHANGED <<pc, cmd, seen, reply>>
  PROVE  ReadInv'
<1>. DEFINE i == ask[r].id
            p == pointers[i]
<1>0. UNCHANGED vars /\ UNCHANGED call /\ step[r] = "locate"
  BY DEF Locate, vars
<1>1. /\ ReadTypes /\ ReaderSound(r) /\ StoreInv /\ ask[r] \in Ask
      /\ ask'[r] = ask[r] /\ began'[r] = began[r] /\ UNCHANGED stored /\ UNCHANGED <<ask, began>>
      /\ \A j \in Id : WasOnce(r, j, LifeOf[j])
  BY <1>0, ReadingStands
<1>2. ask[r].op \in PointReads /\ located[r] = NothingLocated
  BY <1>0, <1>1 DEF ReaderSound, Stands
<1>3. i \in Id
  BY <1>1, <1>2, AskForms
<1>4. CASE p = None /\ Nothing(r)
  <2>1. LifeOf[i] = None
    BY <1>3, <1>4 DEF LifeOf
  <2>2. PICK x \in Assignment \cup {None} : x = None /\ WasOnce(r, ask[r].id, x)
    BY <1>1, <1>3, <2>1
  <2>3. \/ ask[r].op = "get" /\ Records(r, IF x = None THEN {} ELSE {<<ask[r].id, x>>})
        \/ ask[r].op = "audit" /\ Events(r, IF x = None THEN <<>> ELSE HistoryFrom(x))
    BY <1>4, <2>2, Zenon DEF Nothing
  <2>. QED  BY <1>0, <2>2, <2>3, PointAnswer
<1>5. CASE /\ p # None
           /\ located' = [located EXCEPT ![r][i] = p]
           /\ Go(r, "record")
           /\ UNCHANGED <<listed, left, found>>
  <2>1. p \in Pointer
    BY <1>1, <1>3, <1>5, PointedLife
  <2>2. Touches(r)
    BY <1>1, <1>5 DEF Touches, ReadTypes, Go
  <2>3. /\ step'[r] = "record" /\ left'[r] = left[r] /\ found'[r] = found[r]
        /\ recorded'[r] = recorded[r] /\ located'[r] = [located[r] EXCEPT ![i] = p]
    BY <1>1, <1>5 DEF ReadTypes, Go
  <2>. HIDE DEF p, i
  <2>4. located'[r] \in [Id -> Pointer \cup {None}]
    BY <1>2, <2>1, <2>3 DEF NothingLocated
  <2>5. TypesOf(r)'
    BY <1>1, <2>3, <2>4 DEF TypesOf, ReadSteps, ReadTypes
  <2>6. located'[r][i] = p /\ p = pointers[i] /\ \A j \in Id \ {i} : located'[r][j] = None
    BY <1>2, <1>3, <2>3 DEF NothingLocated, p
  <2>7. Pointing(r)'
    BY <1>1, <2>4, <2>6 DEF Pointing, Present, stored
  <2>8. Reading(r)'
    BY <1>1, <1>5, <2>3, <2>6 DEF Reading, i
  <2>. QED  BY <1>0, <1>2, <2>2, <2>3, <2>5, <2>7, <2>8, PointMoves
<1>. QED  BY <1>4, <1>5 DEF Locate

\* The record behind the pointer a read by id follows.
LEMMA RecordBehind ==
  ASSUME ReadInv, NEW r \in Reader, step[r] \in {"record", "orphans", "granted", "revoked"}
  PROVE  LET i == ask[r].id
             p == located[r][i]
         IN /\ ask[r].op \in PointReads /\ i \in Id /\ p # None /\ p = pointers[i]
            /\ RecordAt(p.loc, i) = LifeOf[i]
            /\ LifeOf[i] # None => Agrees(LifeOf[i], i, p)
            /\ LifeOf[i] \in Assignment \cup {None}
<1>1. ReaderSound(r) /\ ReadTypes /\ StoreInv /\ ask[r] \in Ask
  BY DEF ReadInv, ReaderSound, Stands, ReadTypes
<1>2. ask[r].op \in PointReads /\ ask[r].id \in Id
  BY <1>1, AskForms DEF ReaderSound, Stands, PointReads
<1>3. located[r][ask[r].id] # None
  BY <1>1, <1>2 DEF ReaderSound, Stands, Reading, ReadTypes, ReadsAssumption
<1>4. located[r][ask[r].id] = pointers[ask[r].id]
  BY <1>1, <1>2, <1>3 DEF ReaderSound, Pointing, Present, ReadTypes
<1>5. PICK i \in Id : i = ask[r].id
  BY <1>2
<1>6. /\ RecordAt(pointers[i].loc, i) = LifeOf[i]
      /\ LifeOf[i] # None => Agrees(LifeOf[i], i, pointers[i])
      /\ LifeOf[i] \in Assignment \cup {None}
  BY <1>1, <1>3, <1>4, <1>5, PointedLife, LifeLocated DEF Life
<1>. QED  BY <1>2, <1>3, <1>4, <1>5, <1>6

\* A step that reads the store and goes on, of the pointer and its record.
LEMMA PointGoes ==
  ASSUME ReadInv, NEW r \in Reader, UNCHANGED vars, UNCHANGED call,
         step[r] \in {"record", "orphans", "granted", "revoked"}, ask[r].op = "audit",
         UNCHANGED <<listed, left, located>>,
         NEW s \in {"orphans", "granted", "revoked"}, Go(r, s),
         found' = [found EXCEPT ![r] = found'[r]],
         \/ s = "orphans" /\ found'[r] = found[r] /\ LifeOf[ask[r].id] = None
         \/ /\ s \in {"granted", "revoked"}
            /\ \E x \in Assignment : found'[r] = {<<ask[r].id, x>>} /\ WasOnce(r, ask[r].id, x)
  PROVE  ReadInv'
<1>1. /\ ReadTypes /\ ReaderSound(r) /\ ask[r] \in Ask
      /\ ask'[r] = ask[r] /\ began'[r] = began[r] /\ UNCHANGED stored /\ UNCHANGED <<ask, began>>
      /\ Began(r)
      /\ \A i \in Id : \A x : WasOnce(r, i, x) => WasOnce(r, i, x)'
  BY ReadingStands
<1>2. ask[r].op \in PointReads /\ ask[r].id \in Id /\ located[r][ask[r].id] # None
  BY RecordBehind
<1>3. /\ step'[r] = s /\ left'[r] = left[r] /\ located'[r] = located[r]
      /\ recorded'[r] = recorded[r]
  BY <1>1 DEF Go, ReadTypes
<1>4. Touches(r)
  BY <1>1 DEF Touches, ReadTypes, Go
<1>5. found'[r] \subseteq Id \X Assignment
  BY <1>1, <1>2 DEF ReadTypes
<1>6. TypesOf(r)'
  BY <1>1, <1>3, <1>5 DEF TypesOf, ReadSteps, ReadTypes
<1>7. Pointing(r)'
  BY <1>1, <1>3 DEF ReaderSound, Pointing, Present, stored
<1>8. LifeOf[ask[r].id] = None => began[r].life[ask[r].id] = None
  BY <1>1, <1>2 DEF Began, Since
<1>9. Reading(r)'
  <2>1. CASE s = "orphans"
    BY <1>1, <1>2, <1>3, <1>8, <2>1 DEF Reading
  <2>2. CASE s \in {"granted", "revoked"}
    BY <1>1, <1>2, <1>3, <2>2 DEF Reading
  <2>. QED  BY <2>1, <2>2
<1>. QED  BY <1>2, <1>3, <1>4, <1>6, <1>7, <1>9, PointMoves

LEMMA ReadRecordKeeps ==
  ASSUME ReadInv, NEW r \in Reader, ReadRecord(r), UNCHANGED <<pc, cmd, seen, reply>>
  PROVE  ReadInv'
<1>. DEFINE i == ask[r].id
            p == located[r][i]
            a == RecordAt(p.loc, i)
<1>0. UNCHANGED vars /\ UNCHANGED call /\ step[r] = "record"
  BY DEF ReadRecord, vars
<1>1. /\ ask[r].op \in PointReads /\ i \in Id /\ p # None /\ p = pointers[i]
      /\ a = LifeOf[i] /\ (a # None => Agrees(a, i, p)) /\ a \in Assignment \cup {None}
  BY <1>0, RecordBehind
<1>2. WasOnce(r, i, a) /\ ReadTypes
  BY <1>0, <1>1, ReadingStands
<1>3. CASE ask[r].op = "get" /\ Records(r, {<<i, a>>} \cap (Id \X Assignment))
  <2>1. PICK x \in Assignment \cup {None} : x = a
    BY <1>1
  <2>2. {<<i, a>>} \cap (Id \X Assignment) = IF x = None THEN {} ELSE {<<ask[r].id, x>>}
    BY <1>1, <2>1, RecordsAssumption
  <2>3. Records(r, IF x = None THEN {} ELSE {<<ask[r].id, x>>})
    BY <1>3, <2>2
  <2>. QED  BY <1>0, <1>2, <1>3, <2>1, <2>3, PointAnswer
<1>4. CASE ask[r].op = "audit" /\ a = None /\ Go(r, "orphans") /\ UNCHANGED <<listed, left, located, found>>
  <2>1. found' = [found EXCEPT ![r] = found'[r]] /\ found'[r] = found[r]
    BY <1>2, <1>4 DEF ReadTypes
  <2>2. LifeOf[ask[r].id] = None
    BY <1>1, <1>4
  <2>3. ask[r].op = "audit" /\ Go(r, "orphans") /\ UNCHANGED <<listed, left, located>>
    BY <1>4
  <2>. QED  BY <1>0, <2>1, <2>2, <2>3, PointGoes
<1>5. CASE /\ ask[r].op = "audit" /\ a # None /\ Go(r, "granted")
           /\ found' = [found EXCEPT ![r] = {<<i, a>>}] /\ UNCHANGED <<listed, left, located>>
  <2>1. found' = [found EXCEPT ![r] = found'[r]] /\ found'[r] = {<<i, a>>}
    BY <1>2, <1>5 DEF ReadTypes
  <2>2. \E x \in Assignment : found'[r] = {<<ask[r].id, x>>} /\ WasOnce(r, ask[r].id, x)
    BY <1>1, <1>2, <1>5, <2>1
  <2>3. ask[r].op = "audit" /\ Go(r, "granted") /\ UNCHANGED <<listed, left, located>>
    BY <1>5
  <2>4. found' = [found EXCEPT ![r] = found'[r]]
    BY <2>1
  <2>. QED  BY <1>0, <2>2, <2>3, <2>4, PointGoes
<1>6. \/ ask[r].op = "get" /\ Records(r, {<<i, a>>} \cap (Id \X Assignment))
      \/ ask[r].op = "audit" /\ a = None /\ Go(r, "orphans") /\ UNCHANGED <<listed, left, located, found>>
      \/ /\ ask[r].op = "audit" /\ a # None /\ Go(r, "granted")
         /\ found' = [found EXCEPT ![r] = {<<i, a>>}] /\ UNCHANGED <<listed, left, located>>
  BY <1>1, Zenon DEF ReadRecord
<1>. QED  BY <1>3, <1>4, <1>5, <1>6

LEMMA AuditOrphansKeeps ==
  ASSUME ReadInv, NEW r \in Reader, AuditOrphans(r), UNCHANGED <<pc, cmd, seen, reply>>
  PROVE  ReadInv'
<1>0. UNCHANGED vars /\ UNCHANGED call /\ step[r] = "orphans"
  BY DEF AuditOrphans, vars
<1>1. ReaderSound(r) /\ Began(r) /\ ask[r] # None
  BY <1>0, ReadingStands
<1>2. ask[r].op = "audit" /\ ask[r].id \in Id /\ ask[r].op \in PointReads
  BY <1>0, <1>1, RecordBehind DEF ReaderSound, Stands
<1>3. Throw(r, "corrupt") \/ Events(r, <<>>)
  BY DEF AuditOrphans
<1>4. CASE Events(r, <<>>)
  <2>1. began[r].life[ask[r].id] = None
    BY <1>0, <1>1, <1>2 DEF ReaderSound, Reading
  <2>2. PICK x \in Assignment \cup {None} : x = None
    OBVIOUS
  <2>3. WasOnce(r, ask[r].id, x)
    BY <2>1, <2>2 DEF WasOnce, Since, Revoked
  <2>. QED  BY <1>0, <1>2, <1>4, <2>2, <2>3, PointAnswer
<1>. QED  BY <1>0, <1>2, <1>3, <1>4, AuditRefused

\* The record an audit read found.
LEMMA AuditFound ==
  ASSUME ReadInv, NEW r \in Reader, step[r] \in {"granted", "revoked"}
  PROVE  /\ ask[r].op = "audit"
         /\ \E x \in Assignment : /\ found[r] = {<<ask[r].id, x>>} /\ WasOnce(r, ask[r].id, x)
                                  /\ (CHOOSE y \in found[r] : TRUE)[2] = x
<1>1. ReaderSound(r) /\ ask[r] # None /\ ask[r].op = "audit"
  BY DEF ReadInv, ReaderSound, Stands
<1>2. PICK x \in Assignment : found[r] = {<<ask[r].id, x>>} /\ WasOnce(r, ask[r].id, x)
  BY <1>1 DEF ReaderSound, Reading, PointReads
<1>3. (CHOOSE y \in found[r] : TRUE) = <<ask[r].id, x>>
  BY <1>2
<1>. QED  BY <1>1, <1>2, <1>3

LEMMA AuditGrantedKeeps ==
  ASSUME ReadInv, NEW r \in Reader, AuditGranted(r), UNCHANGED <<pc, cmd, seen, reply>>
  PROVE  ReadInv'
<1>0. UNCHANGED vars /\ UNCHANGED call /\ step[r] = "granted"
  BY DEF AuditGranted, vars
<1>1. /\ ask[r].op = "audit"
      /\ \E x \in Assignment : found[r] = {<<ask[r].id, x>>} /\ WasOnce(r, ask[r].id, x)
  BY <1>0, AuditFound
<1>2. ReadTypes
  BY DEF ReadInv
<1>3. Throw(r, "corrupt") \/ (Go(r, "revoked") /\ UNCHANGED <<listed, left, located, found>>)
  BY Zenon DEF AuditGranted
<1>4. CASE Go(r, "revoked") /\ UNCHANGED <<listed, left, located, found>>
  <2>1. found' = [found EXCEPT ![r] = found'[r]] /\ found'[r] = found[r]
    BY <1>2, <1>4 DEF ReadTypes
  <2>2. \E x \in Assignment : found'[r] = {<<ask[r].id, x>>} /\ WasOnce(r, ask[r].id, x)
    BY <1>1, <2>1
  <2>. QED  BY <1>0, <1>1, <1>4, <2>1, <2>2, PointGoes
<1>. QED  BY <1>0, <1>1, <1>3, <1>4, AuditRefused

LEMMA AuditRevokedKeeps ==
  ASSUME ReadInv, NEW r \in Reader, AuditRevoked(r), UNCHANGED <<pc, cmd, seen, reply>>
  PROVE  ReadInv'
<1>0. UNCHANGED vars /\ UNCHANGED call /\ step[r] = "revoked"
  BY DEF AuditRevoked, vars
<1>1. ask[r].op = "audit"
  BY <1>0, AuditFound
<1>2. PICK x \in Assignment : /\ found[r] = {<<ask[r].id, x>>} /\ WasOnce(r, ask[r].id, x)
                              /\ (CHOOSE y \in found[r] : TRUE)[2] = x
  BY <1>0, AuditFound
<1>3. Throw(r, "corrupt") \/ Events(r, HistoryFrom(x))
  BY <1>2, Zenon DEF AuditRevoked
<1>4. CASE Events(r, HistoryFrom(x))
  <2>1. Events(r, IF x = None THEN <<>> ELSE HistoryFrom(x))
    BY <1>4, RecordsAssumption
  <2>. QED  BY <1>0, <1>1, <1>2, <2>1, PointAnswer
<1>. QED  BY <1>0, <1>1, <1>3, <1>4, AuditRefused

-----------------------------------------------------------------------------
\* Listings of records.

\* The assignment a row shows is what the id was at some instant.
LEMMA RowOnce ==
  ASSUME NEW r \in Reader, ListingRecords(r), NEW i \in Id
  PROVE  \E x : /\ WasOnce(r, i, x)
                /\ listed[r][<<"assignment", i>>]
                     = IF x # None /\ x.loc = ask[r].loc THEN x ELSE None
<1>1. <<"assignment", i>> \in RecordKeys
  BY DEF RecordKeys
<1>2. PICK f \in Life : /\ Instant(r, f)
                        /\ IsRow(f, ask[r].loc, <<"assignment", i>>,
                                 listed[r][<<"assignment", i>>])
  BY <1>1 DEF ListingRecords
<1>3. listed[r][<<"assignment", i>>] = In(f, ask[r].loc, i)
  BY <1>2 DEF IsRow
<1>. QED  BY <1>2, <1>3 DEF Instant, In

\* Two assignments to one role are never active at once: one of two such rows is
\* of an assignment that has been revoked since.
LEMMA OneIsRevoked ==
  ASSUME StoreInv, NEW r \in Reader, ListingRecords(r), ask[r].loc \in Location,
         NEW i \in Id, NEW j \in Id, i # j,
         Active(listed[r][<<"assignment", i>>]), Active(listed[r][<<"assignment", j>>]),
         listed[r][<<"assignment", i>>].role = listed[r][<<"assignment", j>>].role
  PROVE  Revoked(LifeOf[i]) \/ Revoked(LifeOf[j])
<1>1. ASSUME NEW m \in Id, Active(listed[r][<<"assignment", m>>])
      PROVE  /\ LifeOf[m] # None /\ LifeOf[m].loc = ask[r].loc
             /\ LifeOf[m].role = listed[r][<<"assignment", m>>].role
  <2>1. PICK x : /\ WasOnce(r, m, x)
                 /\ listed[r][<<"assignment", m>>]
                      = IF x # None /\ x.loc = ask[r].loc THEN x ELSE None
    BY RowOnce
  <2>2. x # None /\ x.loc = ask[r].loc /\ listed[r][<<"assignment", m>>] = x
    BY <1>1, <2>1 DEF Active
  <2>. QED  BY <2>1, <2>2 DEF WasOnce, Since, SameGrant
<1>. SUFFICES ASSUME ~Revoked(LifeOf[i]), ~Revoked(LifeOf[j]) PROVE FALSE
  OBVIOUS
<1>2. Active(LifeOf[i]) /\ Active(LifeOf[j]) /\ LifeOf[i].role = LifeOf[j].role
  BY <1>1 DEF Active, Revoked
<1>3. RecordAt(ask[r].loc, i) = LifeOf[i] /\ RecordAt(ask[r].loc, j) = LifeOf[j]
  BY <1>1, LifeLocated DEF In
<1>. QED  BY <1>2, <1>3, TupleFollows DEF OneActivePerTuple

\* A row that is another now is of a lifecycle that moved while the call ran.
LEMMA ChangedMoved ==
  ASSUME StoreInv, GuardsOfLifecycles, NEW r \in Reader, Began(r), ListingRecords(r),
         ask[r].op \in RecordListings, ask[r].loc \in Location,
         NEW k \in RecordKeys, listed[r][k] # RecordRow(ask[r].loc, k)
  PROVE  Moved(r)
<1>1. PICK l \in Location : l = ask[r].loc
  OBVIOUS
<1>2. PICK f \in Life : Instant(r, f) /\ IsRow(f, l, k, listed[r][k])
  BY <1>1 DEF ListingRecords
<1>3. PICK g \in Life : g = LifeOf
  BY LifeLocated
<1>4. IsRow(g, l, k, RecordRow(l, k))
  BY <1>3, RowsOfLives
<1>5. PICK i \in Id : In(f, l, i) # In(g, l, i)
  <2>. SUFFICES ASSUME \A i \in Id : In(f, l, i) = In(g, l, i) PROVE FALSE
    OBVIOUS
  <2>. DEFINE row == listed[r][k]
              now == RecordRow(l, k)
  <2>1. PICK x, y : x = row /\ y = now
    OBVIOUS
  <2>2. IsRow(f, l, k, x) /\ IsRow(g, l, k, y)
    BY <1>2, <1>4, <2>1
  <2>. HIDE DEF row, now
  <2>3. x = y
    BY <2>2, SameRows
  <2>. QED  BY <1>1, <2>1, <2>3 DEF row, now
<1>6. /\ f[i] \in Assignment \cup {None} /\ Since(began[r].life[i], f[i]) /\ Since(f[i], g[i])
      /\ began[r].life[i] \in Assignment \cup {None} /\ g[i] \in Assignment \cup {None}
  BY <1>2, <1>3 DEF Instant, WasOnce, Life, Began
<1>7. g[i] # None /\ g[i].loc = l
  BY <1>5, <1>6 DEF In, Since, SameGrant
<1>8. g[i] # began[r].life[i]
  BY <1>5, <1>6, Squeezed DEF In
<1>. QED  BY <1>1, <1>3, <1>7, <1>8 DEF Moved

\* No row is missing of a lifecycle that was there throughout.
LEMMA RowsComplete ==
  ASSUME NEW r \in Reader, Began(r), ListingRecords(r), LifeOf \in Life, NEW i \in Id,
         began[r].life[i] # None, began[r].life[i].loc = ask[r].loc
  PROVE  LET row == listed[r][<<"assignment", i>>]
         IN /\ row \in Assignment /\ WasOnce(r, i, row)
            /\ Active(began[r].life[i]) /\ Active(LifeOf[i]) => row = LifeOf[i]
<1>1. PICK x : /\ WasOnce(r, i, x)
               /\ listed[r][<<"assignment", i>>]
                     = IF x # None /\ x.loc = ask[r].loc THEN x ELSE None
  BY RowOnce
<1>2. /\ x \in Assignment \cup {None} /\ Since(began[r].life[i], x) /\ Since(x, LifeOf[i])
      /\ began[r].life[i] \in Assignment \cup {None} /\ LifeOf[i] \in Assignment \cup {None}
  BY <1>1 DEF WasOnce, Began, Life
<1>3. x # None /\ x.loc = ask[r].loc
  BY <1>2 DEF Since, SameGrant
<1>4. Active(began[r].life[i]) /\ Active(LifeOf[i]) => x = LifeOf[i]
  BY <1>2, StillActive
<1>. QED  BY <1>1, <1>2, <1>3, <1>4

\* What a record listing answers.
LEMMA SelectedTrue ==
  ASSUME NEW r \in Reader, Began(r), ListingRecords(r), LifeOf \in Life
  PROVE  LET s == Selected(ask[r].op, listed[r])
         IN /\ \A x \in s : /\ x[1] \in Id /\ x[2] \in Assignment /\ WasOnce(r, x[1], x[2])
                            /\ x[2].loc = ask[r].loc
                            /\ x = <<x[1], x[2]>> /\ x[2] = listed[r][<<"assignment", x[1]>>]
                            /\ ask[r].op = "active" => Active(x[2])
            /\ \A i \in Id : LET row == listed[r][<<"assignment", i>>] IN
                 row # None /\ (ask[r].op = "history" \/ Active(row)) => <<i, row>> \in s
<1>1. ASSUME NEW x \in Selected(ask[r].op, listed[r])
      PROVE  /\ x[1] \in Id /\ x[2] \in Assignment /\ WasOnce(r, x[1], x[2])
             /\ x[2].loc = ask[r].loc
             /\ x = <<x[1], x[2]>> /\ x[2] = listed[r][<<"assignment", x[1]>>]
             /\ ask[r].op = "active" => Active(x[2])
  <2>1. PICK k \in Present(listed[r]) \cap ({"assignment"} \X Id) : x = <<k[2], listed[r][k]>>
    BY <1>1 DEF Selected, Assignments
  <2>2. PICK i \in Id : k = <<"assignment", i>>
    BY <2>1
  <2>3. /\ x = <<i, listed[r][<<"assignment", i>>]>> /\ listed[r][<<"assignment", i>>] # None
        /\ ask[r].op = "active" => Active(x[2])
    BY <1>1, <2>1, <2>2 DEF Present, Selected
  <2>4. PICK y : /\ WasOnce(r, i, y)
                 /\ listed[r][<<"assignment", i>>]
                      = IF y # None /\ y.loc = ask[r].loc THEN y ELSE None
    BY RowOnce
  <2>5. y \in Assignment /\ x = <<i, y>> /\ y.loc = ask[r].loc
    BY <2>3, <2>4 DEF WasOnce
  <2>. QED  BY <2>3, <2>4, <2>5
<1>2. ASSUME NEW i \in Id, listed[r][<<"assignment", i>>] # None,
             ask[r].op = "history" \/ Active(listed[r][<<"assignment", i>>])
      PROVE  <<i, listed[r][<<"assignment", i>>]>> \in Selected(ask[r].op, listed[r])
  <2>1. <<"assignment", i>> \in Present(listed[r]) \cap ({"assignment"} \X Id)
    <3>1. listed[r] = [k \in RecordKeys |-> listed[r][k]]
      BY DEF ListingRecords
    <3>2. DOMAIN listed[r] = RecordKeys
      BY <3>1, Zenon
    <3>3. <<"assignment", i>> \in RecordKeys
      BY DEF RecordKeys
    <3>4. <<"assignment", i>> \in Present(listed[r])
      BY <1>2, <3>2, <3>3, Zenon DEF Present
    <3>. QED  BY <3>4
  <2>2. <<i, listed[r][<<"assignment", i>>]>> \in Assignments(listed[r])
    BY <2>1 DEF Assignments
  <2>. QED  BY <1>2, <2>2 DEF Selected
<1>. QED  BY <1>1, <1>2

\* The rows of a record listing are of the location asked for, and have the keys
\* they give themselves.
LEMMA RowsPlaced ==
  ASSUME ReadInv, NEW r \in Reader, step[r] \in {"list", "confirm"},
         ask[r].op \in RecordListings
  PROVE  ~Elsewhere(ask[r], listed[r]) /\ ~Misplaced(ask[r], listed[r])
<1>1. ListingRecords(r) /\ StoreInv
  BY DEF ReadInv, ReaderSound
<1>2. listed[r] = [k \in RecordKeys |-> listed[r][k]]
  BY <1>1 DEF ListingRecords
<1>3. Present(listed[r]) \subseteq RecordKeys
  BY <1>2 DEF Present
<1>4. ASSUME NEW i \in Id, listed[r][<<"assignment", i>>] # None
      PROVE  /\ listed[r][<<"assignment", i>>].loc = ask[r].loc
             /\ listed[r][<<"assignment", i>>].id = i
  <2>1. PICK x : /\ WasOnce(r, i, x)
                 /\ listed[r][<<"assignment", i>>]
                      = IF x # None /\ x.loc = ask[r].loc THEN x ELSE None
    BY <1>1, RowOnce
  <2>2. x # None /\ x.loc = ask[r].loc /\ listed[r][<<"assignment", i>>] = x
    BY <1>4, <2>1
  <2>3. LifeOf[i] # None /\ x.id = LifeOf[i].id
    BY <2>1, <2>2 DEF WasOnce, Since, SameGrant
  <2>. QED  BY <1>1, <2>2, <2>3, LifeLocated
<1>5. ~Elsewhere(ask[r], listed[r])
  <2>. SUFFICES ASSUME NEW x \in Assignments(listed[r]) PROVE x[2].loc = ask[r].loc
    BY DEF Elsewhere
  <2>1. PICK k \in Present(listed[r]) \cap ({"assignment"} \X Id) : x = <<k[2], listed[r][k]>>
    BY DEF Assignments
  <2>2. PICK i \in Id : k = <<"assignment", i>>
    BY <2>1
  <2>. QED  BY <1>4, <2>1, <2>2 DEF Present
<1>6. ASSUME NEW k \in Present(listed[r]) PROVE OwnId(listed[r], k) = k
  <2>1. CASE k[1] = "assignment"
    <3>1. PICK i \in Id : k = <<"assignment", i>>
      BY <1>3, <2>1 DEF RecordKeys
    <3>. QED  BY <1>4, <3>1 DEF OwnId, Present
  <2>2. CASE k[1] # "assignment"
    BY <2>2 DEF OwnId
  <2>. QED  BY <2>1, <2>2
<1>. QED  BY <1>5, <1>6 DEF Misplaced

\* A record listing answers, its rows confirmed.
LEMMA ListingAnswers ==
  ASSUME ReadInv, NEW r \in Reader, step[r] \in {"list", "confirm"},
         UNCHANGED vars, UNCHANGED call,
         ask[r].op \in RecordListings, Records(r, Selected(ask[r].op, listed[r])),
         \A i, j \in Id :
           /\ Active(listed[r][<<"assignment", i>>]) /\ Active(listed[r][<<"assignment", j>>])
           /\ listed[r][<<"assignment", i>>].role = listed[r][<<"assignment", j>>].role
           => i = j
  PROVE  ReadInv'
<1>1. /\ ReaderSound(r) /\ StoreInv /\ Began(r) /\ StoreGoesOn
      /\ ask'[r] = ask[r] /\ began'[r] = began[r] /\ LifeOf' = LifeOf
      /\ \A i \in Id : \A x : WasOnce(r, i, x) => WasOnce(r, i, x)'
  BY ReadingStands
<1>2. ListingRecords(r) /\ LifeOf \in Life
  BY <1>1, LifeLocated DEF ReaderSound
<1>. DEFINE s == Selected(ask[r].op, listed[r])
<1>3. \A x \in s : /\ x[1] \in Id /\ x[2] \in Assignment /\ WasOnce(r, x[1], x[2])
                   /\ x[2].loc = ask[r].loc
                   /\ x = <<x[1], x[2]>> /\ x[2] = listed[r][<<"assignment", x[1]>>]
                   /\ ask[r].op = "active" => Active(x[2])
  BY <1>1, <1>2, SelectedTrue, Zenon
<1>4. \A i \in Id : LET row == listed[r][<<"assignment", i>>] IN
        row # None /\ (ask[r].op = "history" \/ Active(row)) => <<i, row>> \in s
  BY <1>1, <1>2, SelectedTrue
<1>5. PICK a : /\ Settle(r, a)
               /\ a = [status |-> "ok", records |-> s, events |-> <<>>, recorded |-> 0]
  BY DEF Records
<1>. HIDE DEF s
<1>6. s \subseteq Id \X Assignment
  <2>. SUFFICES ASSUME NEW x \in s PROVE x \in Id \X Assignment
    OBVIOUS
  <2>1. x = <<x[1], x[2]>> /\ x[1] \in Id /\ x[2] \in Assignment
    BY <1>3
  <2>. QED  BY <2>1
<1>7. a \in Result /\ a.status = "ok" /\ a.records = s
  BY <1>5, <1>6 DEF Result
<1>8. ASSUME result'[r] = a PROVE AnswerTrue(r)'
  <2>1. CASE ask[r].op = "active"
    <3>1. \A x \in s : /\ x[1] \in Id /\ Active(x[2]) /\ WasOnce(r, x[1], x[2])'
                       /\ Asked(ask[r], x[2])
      BY <1>1, <1>3, <2>1 DEF Asked
    <3>2. ASSUME NEW i \in Id, Active(began[r].life[i]), Active(LifeOf[i]),
                 Asked(ask[r], began[r].life[i])
          PROVE  <<i, LifeOf[i]>> \in s
      <4>1. began[r].life[i] # None /\ began[r].life[i].loc = ask[r].loc
        BY <2>1, <3>2 DEF Asked, RecordListings, Active
      <4>2. listed[r][<<"assignment", i>>] = LifeOf[i] /\ LifeOf[i] # None
        BY <1>1, <1>2, <3>2, <4>1, RowsComplete DEF Active
      <4>. QED  BY <1>4, <3>2, <4>2
    <3>3. ActivesTrue(r)'
      BY <1>1, <1>7, <1>8, <3>1, <3>2 DEF ActivesTrue, Asked
    <3>4. RolesOnce(r)'
      <4>. SUFFICES ASSUME NEW x \in s, NEW y \in s, x[2].role = y[2].role PROVE x = y
        BY <1>7, <1>8 DEF RolesOnce
      <4>1. /\ x[1] \in Id /\ Active(x[2]) /\ x = <<x[1], x[2]>>
            /\ x[2] = listed[r][<<"assignment", x[1]>>]
        BY <1>3, <2>1
      <4>2. /\ y[1] \in Id /\ Active(y[2]) /\ y = <<y[1], y[2]>>
            /\ y[2] = listed[r][<<"assignment", y[1]>>]
        BY <1>3, <2>1
      <4>3. PICK i \in Id, j \in Id : i = x[1] /\ j = y[1]
        BY <4>1, <4>2
      <4>4. /\ Active(listed[r][<<"assignment", i>>]) /\ Active(listed[r][<<"assignment", j>>])
            /\ listed[r][<<"assignment", i>>].role = listed[r][<<"assignment", j>>].role
        BY <4>1, <4>2, <4>3
      <4>5. i = j
        BY <4>4
      <4>. QED  BY <4>1, <4>2, <4>3, <4>5
    <3>. QED  BY <1>1, <1>7, <1>8, <2>1, <3>3, <3>4 DEF AnswerTrue
  <2>2. CASE ask[r].op = "history"
    <3>1. ASSUME NEW i \in Id, began[r].life[i] # None, Asked(ask[r], began[r].life[i])
          PROVE  \E x \in Assignment : <<i, x>> \in s /\ WasOnce(r, i, x)'
      <4>1. began[r].life[i].loc = ask[r].loc
        BY <2>2, <3>1 DEF Asked, RecordListings
      <4>2. /\ listed[r][<<"assignment", i>>] \in Assignment
            /\ WasOnce(r, i, listed[r][<<"assignment", i>>])
        BY <1>1, <1>2, <3>1, <4>1, RowsComplete
      <4>3. PICK x \in Assignment : x = listed[r][<<"assignment", i>>]
        BY <4>2
      <4>4. <<i, x>> \in s
        BY <1>4, <2>2, <4>3, RecordsAssumption
      <4>5. WasOnce(r, i, x)'
        BY <1>1, <4>2, <4>3
      <4>. QED  BY <4>4, <4>5
    <3>2. \A x \in s : Asked(ask[r], x[2])
      BY <1>3, <2>2 DEF Asked, RecordListings
    <3>3. HistoryTrue(r)'
      BY <1>1, <1>7, <1>8, <3>1, <3>2 DEF HistoryTrue, Asked
    <3>. QED  BY <1>1, <1>7, <1>8, <2>2, <3>3 DEF AnswerTrue
  <2>. QED  BY <2>1, <2>2 DEF RecordListings
<1>. QED  BY <1>1, <1>5, <1>8, AnswerKeeps

\* A listing that is to be followed and has no rows answers at once.
LEMMA EmptyAnswers ==
  ASSUME ReadInv, NEW r \in Reader, step[r] \in {"list", "confirm"},
         UNCHANGED vars, UNCHANGED call, Present(listed[r]) = {},
         \/ ask[r].op = "byrole" /\ Records(r, {})
         \/ ask[r].op = "rebuild" /\ Recorded(r, 0)
  PROVE  ReadInv'
<1>1. /\ ReaderSound(r) /\ StoreInv /\ Began(r) /\ StoreGoesOn
      /\ ask'[r] = ask[r] /\ began'[r] = began[r] /\ LifeOf' = LifeOf /\ Indexed' = Indexed
  BY ReadingStands
<1>2. PICK a : /\ Settle(r, a)
               /\ a = [status |-> "ok", records |-> {}, events |-> <<>>, recorded |-> 0]
  BY DEF Records, Recorded
<1>3. a \in Result /\ a.status = "ok" /\ a.records = {} /\ a.recorded = 0
  BY <1>2 DEF Result
<1>4. CASE ask[r].op = "byrole"
  <2>1. \A i \in Id : ~Due(r, i)
    BY <1>1, <1>4 DEF ReaderSound, ListingHolders, Present
  <2>2. ASSUME result'[r] = a PROVE ActivesTrue(r)'
    BY <1>1, <1>3, <1>4, <2>1, <2>2 DEF ActivesTrue, Due, Asked, Active
  <2>3. result'[r] = a => AnswerTrue(r)'
    BY <1>1, <1>3, <1>4, <2>2 DEF AnswerTrue
  <2>. QED  BY <1>1, <1>2, <2>3, AnswerKeeps
<1>5. CASE ask[r].op = "rebuild"
  <2>1. \A i \in Id : began[r].life[i] = None
    BY <1>1, <1>5 DEF ReaderSound, ListingPointers, Present
  <2>2. \A i \in Id : LifeOf[i] # None => i \in Indexed
    BY <1>1, <2>1 DEF Began
  <2>3. 0 <= Cardinality(Missing(r)) /\ Missing(r)' = Missing(r)
    <3>1. IsFiniteSet(Missing(r))
      BY ReadsAssumption, FS_Subset DEF Missing
    <3>2. Missing(r)' = Missing(r)
      BY <1>1 DEF Missing
    <3>. QED  BY <3>1, <3>2, FS_CardinalityType
  <2>4. ASSUME result'[r] = a PROVE RebuildTrue(r)'
    BY <1>1, <1>3, <2>2, <2>3, <2>4 DEF RebuildTrue
  <2>5. result'[r] = a => AnswerTrue(r)'
    BY <1>1, <1>3, <1>5, <2>4 DEF AnswerTrue
  <2>. QED  BY <1>1, <1>2, <2>5, AnswerKeeps
<1>. QED  BY <1>4, <1>5

\* A listing that goes on with its candidates.
LEMMA FollowBegins ==
  ASSUME ReadInv, NEW r \in Reader, step[r] \in {"list", "confirm"},
         UNCHANGED vars, UNCHANGED call, ask[r].op \notin RecordListings, Go(r, "follow"),
         left' = [left EXCEPT ![r] = Present(listed[r])],
         listed' = [listed EXCEPT ![r] = listed[r]],
         UNCHANGED <<located, found>>
  PROVE  ReadInv'
<1>1. /\ ReadTypes /\ ReaderSound(r) /\ StoreInv /\ Began(r) /\ Began(r)' /\ StoreGoesOn
      /\ ask[r] \in Ask /\ ask[r] # None
      /\ ask'[r] = ask[r] /\ began'[r] = began[r] /\ LifeOf' = LifeOf /\ Indexed' = Indexed
      /\ UNCHANGED stored /\ UNCHANGED <<ask, began>>
      /\ \A i \in Id : \A x : WasOnce(r, i, x) => WasOnce(r, i, x)'
  BY ReadingStands
<1>2. ask[r].op \in {"byrole", "rebuild"}
  BY <1>1, AskForms DEF ReaderSound, Stands
<1>3. /\ step'[r] = "follow" /\ listed'[r] = listed[r] /\ left'[r] = Present(listed[r])
      /\ located'[r] = located[r] /\ found'[r] = found[r] /\ recorded'[r] = recorded[r]
      /\ located[r] = NothingLocated /\ found[r] = {} /\ recorded[r] = 0
  BY <1>1 DEF Go, ReadTypes, ReaderSound, Stands
<1>4. Touches(r)
  BY <1>1 DEF Touches, ReadTypes, Go
<1>5. ask[r].op = "byrole" => ListingHolders(r)
  BY <1>1 DEF ReaderSound
<1>6. ask[r].op = "rebuild" => ListingPointers(r)
  BY <1>1 DEF ReaderSound
<1>7. Present(listed[r]) \subseteq Id
  BY <1>2, <1>5, <1>6 DEF Present, ListingHolders, ListingPointers
<1>8. TypesOf(r)'
  BY <1>1, <1>3, <1>7 DEF TypesOf, ReadSteps, ReadTypes
<1>9. Stands(r)' /\ Pointing(r)'
  BY <1>1, <1>2, <1>3 DEF Stands, Pointing, Present, NothingLocated
<1>10. ASSUME ask[r].op = "byrole" PROVE ListingHolders(r)'
  <2>1. \A i \in Id : Due(r, i)' <=> Due(r, i)
    BY <1>1 DEF Due, Asked
  <2>2. holders' = holders
    BY <1>1 DEF stored
  <2>. QED  BY <1>1, <1>3, <1>5, <1>10, <2>1, <2>2 DEF ListingHolders
<1>11. ASSUME ask[r].op = "rebuild" PROVE ListingPointers(r)'
  <2>1. pointers' = pointers
    BY <1>1 DEF stored
  <2>2. \A i \in Id : LifeOf[i] # None => i \in Indexed \/ i \in Present(listed[r])
    BY <1>1, <1>6, <1>11 DEF Began, ListingPointers, Present
  <2>3. 0 <= Cardinality(Missing(r)' \ Present(listed[r]))
    <3>1. IsFiniteSet(Missing(r)' \ Present(listed[r]))
      BY ReadsAssumption, FS_Subset DEF Missing
    <3>. QED  BY <3>1, FS_CardinalityType
  <2>. QED  BY <1>1, <1>3, <1>6, <1>11, <2>1, <2>2, <2>3 DEF ListingPointers
<1>12. ReaderSound(r)'
  BY <1>1, <1>2, <1>3, <1>9, <1>10, <1>11 DEF ReaderSound, RecordListings, PointReads
<1>. QED  BY <1>1, <1>4, <1>8, <1>12, MoveKeeps

LEMMA AfterConfirmKeeps ==
  ASSUME ReadInv, NEW r \in Reader, step[r] \in {"list", "confirm"},
         UNCHANGED vars, UNCHANGED call, AfterConfirm(r, listed[r]),
         ask[r].op \in RecordListings =>
           \A i, j \in Id :
             /\ Active(listed[r][<<"assignment", i>>]) /\ Active(listed[r][<<"assignment", j>>])
             /\ listed[r][<<"assignment", i>>].role = listed[r][<<"assignment", j>>].role
             => i = j
  PROVE  ReadInv'
<1>1. CASE ask[r].op \in RecordListings /\ Records(r, Selected(ask[r].op, listed[r]))
  BY <1>1, ListingAnswers
<1>2. CASE /\ Present(listed[r]) = {}
           /\ \/ ask[r].op = "byrole" /\ Records(r, {})
              \/ ask[r].op = "rebuild" /\ Recorded(r, 0)
  BY <1>2, EmptyAnswers
<1>3. CASE /\ ask[r].op \notin RecordListings /\ Go(r, "follow")
           /\ left' = [left EXCEPT ![r] = Present(listed[r])]
           /\ listed' = [listed EXCEPT ![r] = listed[r]]
           /\ UNCHANGED <<located, found>>
  BY <1>3, FollowBegins
<1>4. ask[r].op \in RecordListings => ~Elsewhere(ask[r], listed[r])
  BY RowsPlaced
<1>. QED  BY <1>1, <1>2, <1>3, <1>4, Zenon DEF AfterConfirm

\* The listing goes on, with the same question and the same rows.
LEMMA ListingMoves ==
  ASSUME ReadInv, NEW r \in Reader, step[r] \in {"list", "confirm"},
         UNCHANGED vars, UNCHANGED call, UNCHANGED <<located, found, recorded, result>>,
         step'[r] \in {"list", "confirm"},
         step' = [step EXCEPT ![r] = step'[r]],
         listed' = [listed EXCEPT ![r] = listed'[r]],
         left' = [left EXCEPT ![r] = left'[r]],
         left'[r] \subseteq RecordKeys \cup Id,
         ask[r].op \in RecordListings => ListingRecords(r)',
         ask[r].op = "byrole" => ListingHolders(r)',
         ask[r].op = "rebuild" => ListingPointers(r)'
  PROVE  ReadInv'
<1>1. /\ ReadTypes /\ ReaderSound(r) /\ Began(r)' /\ StoreGoesOn
      /\ ask[r] \in Ask /\ ask[r] # None /\ ask'[r] = ask[r] /\ UNCHANGED <<ask, began>>
  BY ReadingStands
<1>2. Touches(r)
  BY <1>1 DEF Touches, ReadTypes
<1>3. TypesOf(r)'
  BY <1>1 DEF TypesOf, ReadSteps, ReadTypes
<1>4. Stands(r)' /\ Pointing(r)'
  BY <1>1 DEF Stands, Pointing, Present, NothingLocated, ReaderSound
<1>5. ReaderSound(r)'
  BY <1>1, <1>4 DEF ReaderSound, Stands, PointReads, RecordListings
<1>. QED  BY <1>1, <1>2, <1>3, <1>5, MoveKeeps

LEMMA ListRowKeeps ==
  ASSUME ReadInv, NEW r \in Reader, ListRow(r), UNCHANGED <<pc, cmd, seen, reply>>
  PROVE  ReadInv'
<1>0. /\ UNCHANGED vars /\ UNCHANGED call /\ step[r] = "list" /\ step' = step /\ left' = left
      /\ UNCHANGED <<located, found, recorded, result>>
  BY DEF ListRow, vars
<1>1. /\ ReadTypes /\ ReaderSound(r) /\ StoreInv /\ GuardsOfLifecycles
      /\ ask[r] \in Ask /\ ask[r] # None /\ ask'[r] = ask[r] /\ began'[r] = began[r]
      /\ Began(r) /\ UNCHANGED stored /\ LifeOf' = LifeOf /\ Indexed' = Indexed
      /\ \A f : Instant(r, f) => Instant(r, f)'
      /\ \A i \in Id : \A x : WasOnce(r, i, x) => WasOnce(r, i, x)'
      /\ \A i \in Id : WasOnce(r, i, LifeOf[i])
  BY <1>0, ReadingStands
<1>k. PICK k \in DOMAIN listed[r] :
        \E v : v = View(ask[r])[k] /\ listed' = [listed EXCEPT ![r][k] = v]
  BY DEF ListRow
<1>2. PICK v : v = View(ask[r])[k] /\ listed' = [listed EXCEPT ![r][k] = v]
  BY <1>k
<1>3. listed'[r] = [listed[r] EXCEPT ![k] = v] /\ listed' = [listed EXCEPT ![r] = listed'[r]]
  BY <1>1, <1>2 DEF ReadTypes
<1>4. /\ step' = [step EXCEPT ![r] = step'[r]] /\ left' = [left EXCEPT ![r] = left'[r]]
      /\ left'[r] \subseteq RecordKeys \cup Id /\ step'[r] = "list" /\ found'[r] = {}
  BY <1>0, <1>1 DEF ReadTypes, ReaderSound, Stands
<1>5. ASSUME ask[r].op \in RecordListings PROVE ListingRecords(r)'
  <2>1. ListingRecords(r) /\ ask[r].loc \in Location
    BY <1>0, <1>1, <1>5, AskForms DEF ReaderSound
  <2>2. PICK l \in Location : l = ask[r].loc
    BY <2>1
  <2>3. listed[r] = [m \in RecordKeys |-> listed[r][m]]
    BY <2>1 DEF ListingRecords
  <2>4. k \in RecordKeys /\ listed'[r] = [m \in RecordKeys |-> listed'[r][m]]
        /\ listed'[r][k] = v /\ \A m \in RecordKeys : m # k => listed'[r][m] = listed[r][m]
    <3>1. DOMAIN listed[r] = RecordKeys
      BY <2>3
    <3>2. k \in RecordKeys
      BY <1>2, <3>1
    <3>. PICK was, now : was = listed[r] /\ now = listed'[r]
      OBVIOUS
    <3>3. was = [m \in RecordKeys |-> was[m]] /\ now = [was EXCEPT ![k] = v]
      BY <1>3, <2>3
    <3>4. /\ now = [m \in RecordKeys |-> now[m]] /\ now[k] = v
          /\ \A m \in RecordKeys : m # k => now[m] = was[m]
      BY <3>2, <3>3
    <3>. QED  BY <3>2, <3>4
  <2>5. v = RecordRow(l, k)
    BY <1>2, <1>5, <2>2, <2>4 DEF View, RecordRows, RecordListings
  <2>6. PICK f \in Life : f = LifeOf
    BY <1>1, LifeLocated
  <2>7. Instant(r, f)' /\ IsRow(f, l, k, v)
    BY <1>1, <2>4, <2>5, <2>6, RowsOfLives DEF Instant
  <2>8. \A m \in RecordKeys : \E g \in Life : Instant(r, g)' /\ IsRow(g, l, m, listed'[r][m])
    <3>. TAKE m \in RecordKeys
    <3>1. CASE m = k
      BY <2>4, <2>7, <3>1
    <3>2. CASE m # k
      BY <1>1, <2>1, <2>2, <2>4, <3>2 DEF ListingRecords
    <3>. QED  BY <3>1, <3>2
  <2>. QED  BY <1>1, <1>4, <2>2, <2>4, <2>8 DEF ListingRecords
<1>6. ASSUME ask[r].op = "byrole" PROVE ListingHolders(r)'
  <2>1. ListingHolders(r) /\ ask[r].scope \in Scope /\ ask[r].role \in Role
    BY <1>0, <1>1, <1>6, AskForms DEF ReaderSound
  <2>2. holders[ask[r].scope][ask[r].role] \in [Id -> Principal \cup {None}]
    BY <1>1, <2>1 DEF StoreInv, TypeOK
  <2>3. v = holders[ask[r].scope][ask[r].role][k]
    BY <1>2, <1>6 DEF View, RecordListings
  <2>4. /\ k \in Id /\ listed'[r] \in [Id -> Principal \cup {None}] /\ listed'[r][k] = v
        /\ \A i \in Id : i # k => listed'[r][i] = listed[r][i]
    BY <1>2, <1>3, <2>1, <2>2, <2>3 DEF ListingHolders
  <2>5. \A i \in Present(listed'[r]) : listed'[r][i] = holders[ask[r].scope][ask[r].role][i]
    BY <2>1, <2>3, <2>4 DEF ListingHolders, Present
  <2>6. \A i \in Id : listed[r][i] # None => listed'[r][i] # None
    BY <2>1, <2>3, <2>4 DEF ListingHolders, Present
  <2>7. \A i \in Id : Due(r, i)' <=> Due(r, i)
    BY <1>1 DEF Due, Asked
  <2>8. holders' = holders
    BY <1>1 DEF stored
  <2>9. Present(located'[r]) \subseteq Present(listed'[r])
    BY <2>1, <2>4, <2>6 DEF ListingHolders, Present, ListRow
  <2>. QED  BY <1>1, <1>4, <2>1, <2>4, <2>5, <2>6, <2>7, <2>8, <2>9 DEF ListingHolders
<1>7. ASSUME ask[r].op = "rebuild" PROVE ListingPointers(r)'
  <2>1. ListingPointers(r)
    BY <1>0, <1>1, <1>7 DEF ReaderSound
  <2>2. pointers \in [Id -> Pointer \cup {None}] /\ v = pointers[k]
    BY <1>1, <1>2, <1>7 DEF StoreInv, TypeOK, View, RecordListings
  <2>3. /\ k \in Id /\ listed'[r] \in [Id -> Pointer \cup {None}] /\ listed'[r][k] = v
        /\ \A i \in Id : i # k => listed'[r][i] = listed[r][i]
    BY <1>2, <1>3, <2>1, <2>2 DEF ListingPointers
  <2>4. \A i \in Present(listed'[r]) : listed'[r][i] = pointers[i]
    BY <2>1, <2>2, <2>3 DEF ListingPointers, Present
  <2>5. \A i \in Id : listed[r][i] # None => listed'[r][i] # None
    BY <2>1, <2>2, <2>3 DEF ListingPointers, Present
  <2>6. pointers' = pointers
    BY <1>1 DEF stored
  <2>. QED  BY <1>1, <1>4, <2>1, <2>3, <2>4, <2>5, <2>6 DEF ListingPointers
<1>. QED  BY <1>0, <1>3, <1>4, <1>5, <1>6, <1>7, ListingMoves

LEMMA ListDoneKeeps ==
  ASSUME ReadInv, NEW r \in Reader, ListDone(r), UNCHANGED <<pc, cmd, seen, reply>>
  PROVE  ReadInv'
<1>0. UNCHANGED vars /\ UNCHANGED call /\ step[r] = "list"
  BY DEF ListDone, vars
<1>1. /\ ReadTypes /\ ReaderSound(r) /\ StoreInv
      /\ ask[r] \in Ask /\ ask[r] # None /\ ask'[r] = ask[r] /\ began'[r] = began[r]
      /\ Began(r) /\ UNCHANGED stored /\ LifeOf' = LifeOf /\ Indexed' = Indexed
      /\ \A f : Instant(r, f) => Instant(r, f)'
  BY <1>0, ReadingStands
<1>2. /\ ask[r].op \in RecordListings => ListingRecords(r) /\ ask[r].loc \in Location
      /\ ask[r].op = "byrole" => ListingHolders(r)
      /\ ask[r].op = "rebuild" => ListingPointers(r)
  BY <1>0, <1>1, AskForms DEF ReaderSound
<1>3. ask[r].op \in RecordListings =>
        /\ DOMAIN listed[r] = RecordKeys
        /\ listed[r] = [k \in RecordKeys |-> listed[r][k]]
  <2>1. ask[r].op \in RecordListings => listed[r] = [k \in RecordKeys |-> listed[r][k]]
    BY <1>2 DEF ListingRecords
  <2>. QED  BY <2>1
\* Both of a pair are still to be confirmed.
<1>4. ask[r].op \in RecordListings =>
        \A i \in Id : Active(listed[r][<<"assignment", i>>]) =>
                        <<"assignment", i>> \in Present(listed[r])
  <2>1. \A i \in Id : <<"assignment", i>> \in RecordKeys
    BY DEF RecordKeys
  <2>. QED  BY <1>3, <2>1 DEF Present, Active
<1>5. CASE /\ Present(listed[r]) # {}
           /\ Go(r, "confirm")
           /\ left' = [left EXCEPT ![r] = Present(listed[r])]
           /\ UNCHANGED <<listed, located, found>>
  <2>1. /\ step' = [step EXCEPT ![r] = step'[r]] /\ step'[r] = "confirm"
        /\ listed' = [listed EXCEPT ![r] = listed'[r]] /\ listed'[r] = listed[r]
        /\ left' = [left EXCEPT ![r] = left'[r]] /\ left'[r] = Present(listed[r])
        /\ found'[r] = found[r] /\ UNCHANGED <<located, found, recorded, result>>
    BY <1>1, <1>5 DEF Go, ReadTypes
  <2>2. ask[r].op \in RecordListings \cup {"byrole", "rebuild"}
    BY <1>0, <1>1, AskForms DEF ReaderSound, Stands
  <2>3. left'[r] \subseteq RecordKeys \cup Id
    <3>1. ask[r].op \in RecordListings => Present(listed[r]) \subseteq RecordKeys
      BY <1>3 DEF Present
    <3>2. ask[r].op \in {"byrole", "rebuild"} => Present(listed[r]) \subseteq Id
      BY <1>2 DEF Present, ListingHolders, ListingPointers
    <3>. QED  BY <2>1, <2>2, <3>1, <3>2
  <2>4. ASSUME ask[r].op \in RecordListings PROVE ListingRecords(r)'
    <3>1. Present(listed[r]) \subseteq RecordKeys
      BY <1>3, <2>4 DEF Present
    <3>2. \A k \in RecordKeys :
            \E f \in Life : Instant(r, f)' /\ IsRow(f, ask[r].loc, k, listed[r][k])
      BY <1>1, <1>2, <2>4 DEF ListingRecords
    <3>3. \A i, j \in Id :
            /\ Active(listed[r][<<"assignment", i>>]) /\ Active(listed[r][<<"assignment", j>>])
            /\ listed[r][<<"assignment", i>>].role = listed[r][<<"assignment", j>>].role
            /\ i # j
            => \E m \in {i, j} : <<"assignment", m>> \in Present(listed[r]) /\ Revoked(LifeOf[m])
      BY <1>1, <1>2, <1>4, <2>4, OneIsRevoked
    <3>. QED  BY <1>1, <1>3, <2>1, <2>4, <3>1, <3>2, <3>3 DEF ListingRecords
  <2>5. ASSUME ask[r].op = "byrole" PROVE ListingHolders(r)'
    <3>1. \A i \in Id : Due(r, i)' <=> Due(r, i)
      BY <1>1 DEF Due, Asked
    <3>2. holders' = holders /\ found[r] = {}
      BY <1>0, <1>1 DEF stored, ReaderSound, Stands
    <3>. QED  BY <1>1, <1>2, <2>1, <2>5, <3>1, <3>2 DEF ListingHolders
  <2>6. ASSUME ask[r].op = "rebuild" PROVE ListingPointers(r)'
    <3>1. pointers' = pointers
      BY <1>1 DEF stored
    <3>. QED  BY <1>1, <1>2, <2>1, <2>6, <3>1 DEF ListingPointers
  <2>. QED  BY <1>0, <2>1, <2>3, <2>4, <2>5, <2>6, ListingMoves
<1>6. CASE Present(listed[r]) = {} /\ AfterConfirm(r, listed[r])
  BY <1>0, <1>4, <1>6, AfterConfirmKeeps
<1>7. ~Misplaced(ask[r], listed[r])
  BY <1>0, RowsPlaced DEF Misplaced
<1>. QED  BY <1>5, <1>6, <1>7, Zenon DEF ListDone

LEMMA ConfirmKeeps ==
  ASSUME ReadInv, NEW r \in Reader, Confirm(r), UNCHANGED <<pc, cmd, seen, reply>>
  PROVE  ReadInv'
<1>0. UNCHANGED vars /\ UNCHANGED call /\ step[r] = "confirm"
  BY DEF Confirm, vars
<1>1. /\ ReadTypes /\ ReaderSound(r) /\ StoreInv /\ GuardsOfLifecycles
      /\ ask[r] \in Ask /\ ask[r] # None /\ ask'[r] = ask[r] /\ began'[r] = began[r]
      /\ Began(r) /\ UNCHANGED stored /\ LifeOf' = LifeOf /\ Indexed' = Indexed /\ StoreGoesOn
      /\ \A f : Instant(r, f) => Instant(r, f)'
      /\ \A i \in Id : \A x : WasOnce(r, i, x) => WasOnce(r, i, x)'
  BY <1>0, ReadingStands
<1>2. /\ ask[r].op \in RecordListings => ListingRecords(r) /\ ask[r].loc \in Location
      /\ ask[r].op = "byrole" => ListingHolders(r) /\ ask[r].scope \in Scope /\ ask[r].role \in Role
      /\ ask[r].op = "rebuild" => ListingPointers(r)
      /\ ask[r].op \in RecordListings \cup {"byrole", "rebuild"}
  BY <1>0, <1>1, AskForms DEF ReaderSound, Stands
<1>3. PICK k \in left[r] :
         \/ /\ ~SameRow(listed[r][k], View(ask[r])[k])
            /\ Throw(r, "changed")
         \/ /\ SameRow(listed[r][k], View(ask[r])[k]) /\ left[r] # {k}
            /\ left' = [left EXCEPT ![r] = @ \ {k}]
            /\ UNCHANGED <<step, listed, located, found, recorded, result>>
         \/ /\ SameRow(listed[r][k], View(ask[r])[k]) /\ left[r] = {k}
            /\ AfterConfirm(r, listed[r])
  BY Zenon DEF Confirm
\* A row of a record partition that is as it was is not of a revoked assignment
\* that was active then.
<1>4. ASSUME ask[r].op \in RecordListings, NEW i \in Id, k = <<"assignment", i>>,
             SameRow(listed[r][k], View(ask[r])[k]), Active(listed[r][k]), Revoked(LifeOf[i])
      PROVE  FALSE
  <2>1. k \in RecordKeys /\ k[1] = "assignment" /\ k[2] = i
    BY <1>4 DEF RecordKeys
  <2>2. View(ask[r])[k] = RecordRow(ask[r].loc, k)
    BY <1>4, <2>1 DEF View, RecordListings, RecordRows
  <2>3. RecordRow(ask[r].loc, k) = RecordAt(ask[r].loc, i)
    BY <2>1 DEF RecordRow
  <2>4. RecordAt(ask[r].loc, i) = In(LifeOf, ask[r].loc, i)
    BY <1>1, <1>2, <1>4, LifeLocated
  <2>5. listed[r][k] = In(LifeOf, ask[r].loc, i)
    BY <1>4, <2>2, <2>3, <2>4 DEF SameRow
  <2>. QED  BY <1>4, <2>5 DEF In, Active, Revoked
<1>5. CASE ~SameRow(listed[r][k], View(ask[r])[k]) /\ Throw(r, "changed")
  <2>1. PICK a : /\ Settle(r, a)
                 /\ a = [status |-> "changed", records |-> {}, events |-> <<>>, recorded |-> 0]
    BY <1>5 DEF Throw
  <2>2. a \in Result /\ a.status = "changed"
    BY <2>1 DEF Result
  \* Rows of the indexes stay as they are.
  <2>3. ask[r].op # "byrole"
    <3>. SUFFICES ASSUME ask[r].op = "byrole" PROVE FALSE
      OBVIOUS
    <3>1. View(ask[r])[k] = holders[ask[r].scope][ask[r].role][k]
      BY DEF View, RecordListings
    <3>2. k \in Present(listed[r])
      BY <1>0, <1>2 DEF ListingHolders
    <3>. QED  BY <1>2, <1>5, <3>1, <3>2 DEF ListingHolders, SameRow
  <2>4. ask[r].op # "rebuild"
    <3>. SUFFICES ASSUME ask[r].op = "rebuild" PROVE FALSE
      OBVIOUS
    <3>1. View(ask[r])[k] = pointers[k]
      BY DEF View, RecordListings
    <3>2. k \in Present(listed[r])
      BY <1>0, <1>2 DEF ListingPointers
    <3>. QED  BY <1>2, <1>5, <3>1, <3>2 DEF ListingPointers, SameRow
  <2>5. ask[r].op \in RecordListings
    BY <1>2, <2>3, <2>4
  <2>6. Moved(r)
    <3>1. k \in RecordKeys
      BY <1>0, <1>2, <2>5 DEF ListingRecords
    <3>2. View(ask[r])[k] = RecordRow(ask[r].loc, k)
      BY <2>5, <3>1 DEF View, RecordListings, RecordRows
    <3>3. listed[r][k] # RecordRow(ask[r].loc, k)
      BY <1>5, <3>2 DEF SameRow
    <3>. QED  BY <1>1, <1>2, <2>5, <3>1, <3>3, ChangedMoved
  <2>7. Moved(r)'
    BY <1>1, <2>6 DEF Moved
  <2>8. ASSUME result'[r] = a PROVE AnswerTrue(r)'
    BY <1>1, <2>2, <2>5, <2>7, <2>8 DEF AnswerTrue, RecordListings
  <2>. QED  BY <1>0, <1>1, <2>1, <2>8, AnswerKeeps
<1>6. CASE /\ SameRow(listed[r][k], View(ask[r])[k])
           /\ left' = [left EXCEPT ![r] = @ \ {k}]
           /\ UNCHANGED <<step, listed, located, found, recorded, result>>
  <2>1. /\ step' = [step EXCEPT ![r] = step'[r]] /\ step'[r] = "confirm"
        /\ listed' = [listed EXCEPT ![r] = listed'[r]] /\ listed'[r] = listed[r]
        /\ left' = [left EXCEPT ![r] = left'[r]] /\ left'[r] = left[r] \ {k}
        /\ left'[r] \subseteq RecordKeys \cup Id
        /\ found'[r] = found[r] /\ UNCHANGED <<located, found, recorded, result>>
    BY <1>0, <1>1, <1>6 DEF ReadTypes
  <2>2. ASSUME ask[r].op \in RecordListings PROVE ListingRecords(r)'
    <3>1. left[r] \subseteq RecordKeys /\ listed[r] = [m \in RecordKeys |-> listed[r][m]]
      BY <1>0, <1>2, <2>2 DEF ListingRecords
    <3>2. \A m \in RecordKeys :
            \E f \in Life : Instant(r, f)' /\ IsRow(f, ask[r].loc, m, listed[r][m])
      BY <1>1, <1>2, <2>2 DEF ListingRecords
    <3>3. ASSUME NEW i \in Id, NEW j \in Id, i # j,
                 Active(listed[r][<<"assignment", i>>]), Active(listed[r][<<"assignment", j>>]),
                 listed[r][<<"assignment", i>>].role = listed[r][<<"assignment", j>>].role
          PROVE  \E m \in {i, j} : <<"assignment", m>> \in left[r] \ {k} /\ Revoked(LifeOf[m])
      <4>1. PICK m \in {i, j} : <<"assignment", m>> \in left[r] /\ Revoked(LifeOf[m])
        BY <1>0, <1>2, <2>2, <3>3 DEF ListingRecords
      <4>2. <<"assignment", m>> # k
        BY <1>4, <1>6, <2>2, <3>3, <4>1
      <4>. QED  BY <4>1, <4>2
    <3>4. \A i, j \in Id :
            /\ Active(listed[r][<<"assignment", i>>]) /\ Active(listed[r][<<"assignment", j>>])
            /\ listed[r][<<"assignment", i>>].role = listed[r][<<"assignment", j>>].role
            /\ i # j
            => \E m \in {i, j} : <<"assignment", m>> \in left'[r] /\ Revoked(LifeOf[m])
      BY <2>1, <3>3, Zenon
    <3>5. left'[r] \subseteq RecordKeys
      BY <2>1, <3>1
    <3>6. ask'[r].loc = ask[r].loc /\ listed'[r] = listed[r]
      BY <1>1, <2>1
    <3>. QED  BY <1>1, <3>1, <3>2, <3>4, <3>5, <3>6 DEF ListingRecords
  <2>3. ASSUME ask[r].op = "byrole" PROVE ListingHolders(r)'
    <3>1. \A i \in Id : Due(r, i)' <=> Due(r, i)
      BY <1>1 DEF Due, Asked
    <3>2. holders' = holders /\ found[r] = {}
      BY <1>0, <1>1 DEF stored, ReaderSound, Stands
    <3>. QED  BY <1>0, <1>1, <1>2, <2>1, <2>3, <3>1, <3>2 DEF ListingHolders
  <2>4. ASSUME ask[r].op = "rebuild" PROVE ListingPointers(r)'
    <3>1. pointers' = pointers
      BY <1>1 DEF stored
    <3>. QED  BY <1>0, <1>1, <1>2, <2>1, <2>4, <3>1 DEF ListingPointers
  <2>. QED  BY <1>0, <2>1, <2>2, <2>3, <2>4, ListingMoves
<1>7. CASE /\ SameRow(listed[r][k], View(ask[r])[k]) /\ left[r] = {k}
           /\ AfterConfirm(r, listed[r])
  <2>1. ASSUME ask[r].op \in RecordListings, NEW i \in Id, NEW j \in Id, i # j,
               Active(listed[r][<<"assignment", i>>]), Active(listed[r][<<"assignment", j>>]),
               listed[r][<<"assignment", i>>].role = listed[r][<<"assignment", j>>].role
        PROVE  FALSE
    <3>1. PICK m \in {i, j} : <<"assignment", m>> \in left[r] /\ Revoked(LifeOf[m])
      BY <1>0, <1>2, <2>1 DEF ListingRecords
    <3>2. k = <<"assignment", m>>
      BY <1>7, <3>1
    <3>. QED  BY <1>4, <1>7, <2>1, <3>1, <3>2
  <2>2. ask[r].op \in RecordListings =>
           \A i, j \in Id :
             /\ Active(listed[r][<<"assignment", i>>]) /\ Active(listed[r][<<"assignment", j>>])
             /\ listed[r][<<"assignment", i>>].role = listed[r][<<"assignment", j>>].role
             => i = j
    BY <2>1
  <2>. QED  BY <1>0, <1>7, <2>2, AfterConfirmKeeps
<1>. QED  BY <1>3, <1>5, <1>6, <1>7, Zenon

-----------------------------------------------------------------------------
\* Candidates of a call by role.

\* What the candidates of a call by role are at its next step.
LEMMA FollowMoves ==
  ASSUME ReadInv, NEW r \in Reader, step[r] = "follow", ask[r].op = "byrole",
         UNCHANGED vars, UNCHANGED call, UNCHANGED <<step, listed, recorded, result>>,
         left' = [left EXCEPT ![r] = left'[r]],
         located' = [located EXCEPT ![r] = located'[r]],
         found' = [found EXCEPT ![r] = found'[r]],
         left'[r] \subseteq left[r],
         located'[r] \in [Id -> Pointer \cup {None}],
         \A i \in Id : located'[r][i] \in {None, pointers[i]},
         Present(located'[r]) \subseteq Present(located[r]) \cup left[r],
         \A x \in found'[r] : x \in found[r]
           \/ \E i \in Id : /\ x = <<i, LifeOf[i]>> /\ Active(LifeOf[i])
                          /\ Asked(ask[r], LifeOf[i]),
         \A x \in found[r] : x \in found'[r],
         \A i \in left[r] : i \in left'[r] \/ located'[r][i] # None,
         \A i \in Id : located[r][i] # None =>
           located'[r][i] # None \/ (Active(LifeOf[i]) => <<i, LifeOf[i]>> \in found'[r])
  PROVE  ReadInv'
<1>1. /\ ReadTypes /\ ReaderSound(r) /\ StoreInv /\ Began(r)' /\ StoreGoesOn
      /\ ask[r] \in Ask /\ ask[r] # None /\ ask'[r] = ask[r] /\ began'[r] = began[r]
      /\ UNCHANGED stored /\ LifeOf' = LifeOf /\ UNCHANGED <<ask, began>>
      /\ \A i \in Id : \A x : WasOnce(r, i, x) => WasOnce(r, i, x)'
      /\ \A i \in Id : WasOnce(r, i, LifeOf[i]) /\ LifeOf[i] \in Assignment \cup {None}
  BY ReadingStands
<1>2. ListingHolders(r)
  BY <1>1 DEF ReaderSound
<1>3. step'[r] = "follow" /\ listed'[r] = listed[r] /\ recorded'[r] = recorded[r]
  OBVIOUS
<1>4. Touches(r)
  BY <1>1 DEF Touches, ReadTypes
<1>5. found'[r] \subseteq Id \X Assignment
  <2>. SUFFICES ASSUME NEW x \in found'[r] PROVE x \in Id \X Assignment
    OBVIOUS
  <2>1. CASE x \in found[r]
    BY <1>1, <2>1 DEF ReadTypes
  <2>2. CASE \E i \in Id : x = <<i, LifeOf[i]>> /\ Active(LifeOf[i])
    BY <1>1, <2>2 DEF Active
  <2>. QED  BY <2>1, <2>2
<1>6. TypesOf(r)'
  BY <1>1, <1>3, <1>5 DEF TypesOf, ReadSteps, ReadTypes
<1>7. Stands(r)'
  BY <1>1, <1>3 DEF Stands, PointReads
<1>8. Pointing(r)'
  BY <1>1 DEF Pointing, Present, stored
<1>9. \A x \in found'[r] : Active(x[2]) /\ WasOnce(r, x[1], x[2])' /\ Asked(ask[r], x[2])
  <2>. SUFFICES ASSUME NEW x \in found'[r]
                PROVE  Active(x[2]) /\ WasOnce(r, x[1], x[2])' /\ Asked(ask[r], x[2])
    OBVIOUS
  <2>1. CASE x \in found[r]
    BY <1>1, <1>2, <2>1 DEF ReadTypes, ListingHolders
  <2>2. ASSUME NEW i \in Id, x = <<i, LifeOf[i]>>, Active(LifeOf[i]), Asked(ask[r], LifeOf[i])
        PROVE  Active(x[2]) /\ WasOnce(r, x[1], x[2])' /\ Asked(ask[r], x[2])
    <3>1. PICK y : y = LifeOf[i]
      OBVIOUS
    <3>2. WasOnce(r, i, y)'
      BY <1>1, <3>1
    <3>3. x = <<i, y>> /\ Active(y) /\ Asked(ask[r], y)
      BY <2>2, <3>1
    <3>. QED  BY <3>2, <3>3
  <2>. QED  BY <2>1, <2>2
<1>10. ASSUME NEW i \in Present(listed[r])
       PROVE  \/ i \in left'[r] \/ located'[r][i] # None
              \/ Active(began[r].life[i]) /\ Active(LifeOf[i]) => <<i, LifeOf[i]>> \in found'[r]
  <2>1. i \in Id
    BY <1>2 DEF ListingHolders, Present
  <2>2. \/ i \in left[r] \/ located[r][i] # None
        \/ Active(began[r].life[i]) /\ Active(LifeOf[i]) => <<i, LifeOf[i]>> \in found[r]
    BY <1>2 DEF ListingHolders
  <2>. QED  BY <2>1, <2>2
<1>11. ListingHolders(r)'
  <2>1. \A i \in Id : Due(r, i)' <=> Due(r, i)
    BY <1>1 DEF Due, Asked
  <2>2. holders' = holders
    BY <1>1 DEF stored
  <2>3. left'[r] \subseteq Present(listed[r]) /\ Present(located'[r]) \subseteq Present(listed[r])
    BY <1>2 DEF ListingHolders
  <2>4. \A a, x : Asked(a, x)' = Asked(a, x)
    BY DEF Asked
  <2>. QED  BY <1>1, <1>2, <1>3, <1>9, <1>10, <2>1, <2>2, <2>3, <2>4 DEF ListingHolders
<1>12. ReaderSound(r)'
  BY <1>1, <1>3, <1>7, <1>8, <1>11 DEF ReaderSound, PointReads, RecordListings
<1>. QED  BY <1>1, <1>4, <1>6, <1>12, MoveKeeps

LEMMA HolderLocateKeeps ==
  ASSUME ReadInv, NEW r \in Reader, HolderLocate(r), UNCHANGED <<pc, cmd, seen, reply>>
  PROVE  ReadInv'
<1>0. /\ UNCHANGED vars /\ UNCHANGED call /\ step[r] = "follow" /\ ask[r].op = "byrole"
  BY DEF HolderLocate, vars
<1>1. ReadTypes /\ ReaderSound(r) /\ StoreInv /\ ask[r] \in Ask /\ ask[r] # None
  BY <1>0, ReadingStands
<1>2. ListingHolders(r) /\ ask[r].scope \in Scope /\ ask[r].role \in Role
  BY <1>0, <1>1, AskForms DEF ReaderSound
<1>3. PICK i \in left[r] :
         LET p == pointers[i]
             sound == /\ p # None /\ p.role = ask[r].role
                      /\ p.loc = [principal |-> listed[r][i], scope |-> ask[r].scope]
         IN \/ /\ sound
               /\ left' = [left EXCEPT ![r] = @ \ {i}]
               /\ located' = [located EXCEPT ![r][i] = p]
               /\ UNCHANGED <<step, listed, found, recorded, result>>
            \/ ~sound /\ Throw(r, "corrupt")
  BY Zenon DEF HolderLocate
\* A holder row and the pointer of its id describe the same.
<1>4. i \in Id /\ listed[r][i] # None /\ holders[ask[r].scope][ask[r].role][i] = listed[r][i]
  BY <1>0, <1>2 DEF ListingHolders, Present
<1>5. pointers[i] = [loc |-> [principal |-> listed[r][i], scope |-> ask[r].scope],
                     role |-> ask[r].role]
  BY <1>1, <1>2, <1>4 DEF StoreInv, RecordsSound, HoldersFollowPointers
<1>6. pointers[i] \in Pointer
  <2>1. [principal |-> listed[r][i], scope |-> ask[r].scope] \in Location
    BY <1>2, <1>4 DEF ListingHolders, Location
  <2>. QED  BY <1>2, <1>5, <2>1 DEF Pointer
<1>. DEFINE p == pointers[i]
<1>7. p # None /\ p \in Pointer
  BY <1>6, RecordsAssumption
<1>8. p.role = ask[r].role /\ p.loc = [principal |-> listed[r][i], scope |-> ask[r].scope]
  BY <1>5
<1>9. /\ left' = [left EXCEPT ![r] = @ \ {i}]
      /\ located' = [located EXCEPT ![r][i] = p]
      /\ UNCHANGED <<step, listed, found, recorded, result>>
  BY <1>3, <1>7, <1>8, Zenon
<1>. HIDE DEF p
<1>10. /\ left' = [left EXCEPT ![r] = left'[r]] /\ left'[r] = left[r] \ {i}
       /\ located' = [located EXCEPT ![r] = located'[r]]
       /\ located'[r] = [located[r] EXCEPT ![i] = p]
       /\ found' = [found EXCEPT ![r] = found'[r]] /\ found'[r] = found[r]
  BY <1>1, <1>9 DEF ReadTypes
<1>11. located[r] \in [Id -> Pointer \cup {None}]
  BY <1>1 DEF ReadTypes
<1>12. /\ located'[r] \in [Id -> Pointer \cup {None}] /\ located'[r][i] = p
       /\ \A j \in Id : j # i => located'[r][j] = located[r][j]
  BY <1>4, <1>7, <1>10, <1>11
<1>13. \A j \in Id : located[r][j] \in {None, pointers[j]}
  BY <1>1, <1>11 DEF ReaderSound, Pointing, Present
<1>14. \A j \in Id : located'[r][j] \in {None, pointers[j]}
  BY <1>12, <1>13 DEF p
<1>15. \A j \in left[r] : j \in left'[r] \/ located'[r][j] # None
  BY <1>7, <1>10, <1>12
<1>16. \A j \in Id : located[r][j] # None => located'[r][j] # None
  BY <1>7, <1>12
<1>17. Present(located'[r]) \subseteq Present(located[r]) \cup left[r]
  BY <1>11, <1>12 DEF Present
<1>. QED  BY <1>0, <1>9, <1>10, <1>12, <1>14, <1>15, <1>16, <1>17, FollowMoves

LEMMA HolderReadKeeps ==
  ASSUME ReadInv, NEW r \in Reader, HolderRead(r), UNCHANGED <<pc, cmd, seen, reply>>
  PROVE  ReadInv'
<1>0. /\ UNCHANGED vars /\ UNCHANGED call /\ step[r] = "follow" /\ ask[r].op = "byrole"
  BY DEF HolderRead, vars
<1>1. /\ ReadTypes /\ ReaderSound(r) /\ StoreInv /\ StoreGoesOn /\ LifeOf' = LifeOf
      /\ ask[r] \in Ask /\ ask[r] # None /\ ask'[r] = ask[r] /\ began'[r] = began[r]
      /\ \A i \in Id : \A x : WasOnce(r, i, x) => WasOnce(r, i, x)'
      /\ \A i \in Id : WasOnce(r, i, LifeOf[i]) /\ LifeOf[i] \in Assignment \cup {None}
      /\ Began(r)
  BY <1>0, ReadingStands
<1>2. ListingHolders(r)
  BY <1>0, <1>1 DEF ReaderSound
<1>3. PICK i \in Present(located[r]) :
         LET p == located[r][i]
             a == RecordAt(p.loc, i)
         IN \/ ~SoundRecord(a, i, p) /\ Throw(r, "corrupt")
            \/ SoundRecord(a, i, p) /\ Followed(r, i, {x \in {<<i, a>>} : Holds(a)})
  BY DEF HolderRead
<1>4. located[r] \in [Id -> Pointer \cup {None}]
  BY <1>1 DEF ReadTypes
<1>5. i \in Id /\ located[r][i] # None /\ located[r][i] = pointers[i]
  BY <1>1, <1>4 DEF ReaderSound, Pointing, Present
<1>6. /\ RecordAt(located[r][i].loc, i) = LifeOf[i]
      /\ SoundRecord(LifeOf[i], i, located[r][i])
  BY <1>1, <1>5, PointedLife DEF SoundRecord
<1>7. PICK s : s = {x \in {<<i, LifeOf[i]>>} : Holds(LifeOf[i])} /\ Followed(r, i, s)
  BY <1>3, <1>6
\* The candidate has a holder row for what was asked, and so has its pointer.
<1>a. Active(LifeOf[i]) => Asked(ask[r], LifeOf[i])
  <2>1. ask[r].scope \in Scope /\ ask[r].role \in Role
    BY <1>0, <1>1, AskForms
  <2>2. holders[ask[r].scope][ask[r].role][i] # None
    BY <1>2, <1>3 DEF ListingHolders, Present
  <2>3. pointers[i] = [loc |-> [principal |-> holders[ask[r].scope][ask[r].role][i],
                                scope |-> ask[r].scope], role |-> ask[r].role]
    BY <1>1, <1>5, <2>1, <2>2 DEF StoreInv, RecordsSound, HoldersFollowPointers
  <2>4. pointers[i].loc.scope = ask[r].scope /\ pointers[i].role = ask[r].role
    BY <2>3
  <2>5. Active(LifeOf[i]) => LifeOf[i].loc = pointers[i].loc /\ LifeOf[i].role = pointers[i].role
    BY <1>1, <1>5, PointedLife DEF Active, Agrees
  <2>. QED  BY <1>0, <2>4, <2>5 DEF Asked, RecordListings
<1>8. /\ Active(LifeOf[i]) => <<i, LifeOf[i]>> \in s
      /\ \A x \in s : x = <<i, LifeOf[i]>> /\ Active(LifeOf[i]) /\ Asked(ask[r], LifeOf[i])
  BY <1>7, <1>a DEF Holds
<1>9. CASE /\ found' = [found EXCEPT ![r] = @ \cup s]
           /\ located' = [located EXCEPT ![r][i] = None]
           /\ UNCHANGED <<step, listed, left, recorded, result>>
  <2>1. /\ left' = [left EXCEPT ![r] = left'[r]] /\ left'[r] = left[r]
        /\ located' = [located EXCEPT ![r] = located'[r]]
        /\ located'[r] = [located[r] EXCEPT ![i] = None]
        /\ found' = [found EXCEPT ![r] = found'[r]] /\ found'[r] = found[r] \cup s
    BY <1>1, <1>9 DEF ReadTypes
  <2>2. /\ located'[r] \in [Id -> Pointer \cup {None}] /\ located'[r][i] = None
        /\ \A j \in Id : j # i => located'[r][j] = located[r][j]
    BY <1>4, <1>5, <2>1
  <2>3. \A j \in Id : located'[r][j] \in {None, pointers[j]}
    BY <1>1, <1>4, <2>2 DEF ReaderSound, Pointing, Present
  <2>4. \A x \in found'[r] : x \in found[r]
           \/ \E j \in Id : /\ x = <<j, LifeOf[j]>> /\ Active(LifeOf[j])
                          /\ Asked(ask[r], LifeOf[j])
    BY <1>5, <1>8, <2>1
  <2>5. \A x \in found[r] : x \in found'[r]
    BY <2>1
  <2>6. \A j \in Id : located[r][j] # None =>
           located'[r][j] # None \/ (Active(LifeOf[j]) => <<j, LifeOf[j]>> \in found'[r])
    BY <1>8, <2>1, <2>2
  <2>7. Present(located'[r]) \subseteq Present(located[r]) \cup left[r]
    BY <1>4, <2>2 DEF Present
  <2>. QED  BY <1>0, <1>9, <2>1, <2>2, <2>3, <2>4, <2>5, <2>6, <2>7, FollowMoves
<1>10. CASE Unfollowed(r, i) = {} /\ Records(r, found[r] \cup s)
  <2>1. left[r] = {} /\ \A j \in Id : j # i => located[r][j] = None
    BY <1>4, <1>10 DEF Unfollowed, Present
  <2>2. PICK a : /\ Settle(r, a)
                 /\ a = [status |-> "ok", records |-> found[r] \cup s, events |-> <<>>,
                         recorded |-> 0]
    BY <1>10 DEF Records
  <2>3. \A x \in found[r] \cup s : /\ x \in Id \X Assignment /\ Active(x[2])
                                   /\ WasOnce(r, x[1], x[2])' /\ Asked(ask[r], x[2])
    <3>1. ASSUME NEW x \in found[r]
          PROVE  /\ x \in Id \X Assignment /\ Active(x[2])
                 /\ WasOnce(r, x[1], x[2])' /\ Asked(ask[r], x[2])
      BY <1>1, <1>2 DEF ReadTypes, ListingHolders
    <3>2. ASSUME NEW x \in s
          PROVE  /\ x \in Id \X Assignment /\ Active(x[2])
                 /\ WasOnce(r, x[1], x[2])' /\ Asked(ask[r], x[2])
      <4>1. PICK y \in Assignment : /\ y = LifeOf[i] /\ x = <<i, y>> /\ Active(y)
                                    /\ Asked(ask[r], y)
        BY <1>1, <1>5, <1>8, <3>2 DEF Active
      <4>2. WasOnce(r, i, y)'
        BY <1>1, <1>5, <4>1
      <4>. QED  BY <1>5, <4>1, <4>2
    <3>. QED  BY <3>1, <3>2
  <2>4. a \in Result /\ a.status = "ok" /\ a.records = found[r] \cup s
    <3>1. found[r] \cup s \in SUBSET (Id \X Assignment)
      BY <2>3
    <3>. QED  BY <2>2, <3>1 DEF Result
  <2>5. ASSUME NEW j \in Id, Active(began[r].life[j]), Active(LifeOf[j]),
               Asked(ask[r], began[r].life[j]), j \in began[r].indexed
        PROVE  <<j, LifeOf[j]>> \in found[r] \cup s
    <3>1. j \in Present(listed[r])
      <4>1. Due(r, j)
        BY <2>5 DEF Due, Active
      <4>. QED  BY <1>2, <4>1 DEF ListingHolders, Present
    <3>2. located[r][j] # None \/ <<j, LifeOf[j]>> \in found[r]
      BY <1>0, <1>2, <2>1, <2>5, <3>1 DEF ListingHolders
    <3>. QED  BY <1>8, <2>1, <2>5, <3>2
  <2>6. ASSUME result'[r] = a PROVE ActivesTrue(r)'
    <3>1. result'[r].records = found[r] \cup s
      BY <2>4, <2>6
    <3>2. \A x \in result'[r].records : /\ x[1] \in Id /\ Active(x[2])
                                        /\ WasOnce(r, x[1], x[2])' /\ Asked(ask[r], x[2])
      BY <2>3, <3>1
    <3>3. ASSUME NEW j \in Id, Active(began'[r].life[j]), Active(LifeOf'[j]),
                 Asked(ask'[r], began'[r].life[j]), j \in began'[r].indexed
          PROVE  <<j, LifeOf'[j]>> \in result'[r].records
      BY <1>1, <2>5, <3>1, <3>3
    <3>4. \A b, x : Asked(b, x)' = Asked(b, x)
      BY DEF Asked
    <3>. QED  BY <1>0, <1>1, <3>2, <3>3, <3>4 DEF ActivesTrue
  <2>7. result'[r] = a => AnswerTrue(r)'
    BY <1>0, <1>1, <2>4, <2>6 DEF AnswerTrue
  <2>. QED  BY <1>0, <1>1, <2>2, <2>7, AnswerKeeps
<1>. QED  BY <1>7, <1>9, <1>10, Zenon DEF Followed

-----------------------------------------------------------------------------
\* The rebuild.

LEMMA MissingFinite ==
  ASSUME NEW r \in Reader, NEW S
  PROVE  /\ IsFiniteSet(Missing(r)) /\ IsFiniteSet(Missing(r) \ S)
         /\ Cardinality(Missing(r) \ S) \in Nat
         /\ Cardinality(Missing(r) \ S) <= Cardinality(Missing(r))
         /\ Cardinality(Missing(r)) \in Nat
<1>1. IsFiniteSet(Missing(r))
  BY ReadsAssumption, FS_Subset DEF Missing
<1>. QED  BY <1>1, FS_Subset, FS_CardinalityType

\* A candidate of the rebuild is done with.
LEMMA ProceedKeeps ==
  ASSUME ReadInv, NEW r \in Reader, step[r] \in {"follow", "insert"}, ask[r].op = "rebuild",
         StoreGoesOn, UNCHANGED call, LifeOf' = LifeOf, UNCHANGED pointers,
         NEW i \in left[r], NEW n \in Nat, Proceed(r, i, n),
         LifeOf[i] # None => i \in Indexed',
         n <= Cardinality(Missing(r) \ (left[r] \ {i}))
  PROVE  ReadInv'
<1>1. /\ ReadTypes /\ ReaderSound(r) /\ Began(r) /\ ask[r] \in Ask /\ ask[r] # None
      /\ ask'[r] = ask[r] /\ began'[r] = began[r] /\ UNCHANGED <<ask, began>>
  BY DEF ReadInv, ReaderSound, Stands, ReadTypes, call
<1>2. Began(r)'
  BY <1>1, BeganStays DEF StoreGoesOn
<1>3. ListingPointers(r)
  BY <1>1 DEF ReaderSound
<1>4. Missing(r)' = Missing(r)
  BY <1>1 DEF Missing
<1>5. \A j \in Id : LifeOf[j] # None => j \in Indexed' \/ j \in left[r] \ {i}
  BY <1>3 DEF ListingPointers, StoreGoesOn, Advance
<1>6. CASE /\ step' = [step EXCEPT ![r] = "follow"]
           /\ left' = [left EXCEPT ![r] = @ \ {i}]
           /\ located' = [located EXCEPT ![r] = NothingLocated]
           /\ recorded' = [recorded EXCEPT ![r] = n]
           /\ UNCHANGED <<listed, found, result>>
  <2>1. /\ step'[r] = "follow" /\ left'[r] = left[r] \ {i} /\ located'[r] = NothingLocated
        /\ recorded'[r] = n /\ listed'[r] = listed[r] /\ found'[r] = found[r]
    BY <1>1, <1>6 DEF ReadTypes
  <2>2. Touches(r)
    BY <1>1, <1>6 DEF Touches, ReadTypes
  <2>3. TypesOf(r)'
    BY <1>1, <2>1 DEF TypesOf, ReadSteps, ReadTypes, NothingLocated
  <2>4. Stands(r)' /\ Pointing(r)'
    BY <1>1, <2>1 DEF Stands, Pointing, Present, NothingLocated, PointReads
  <2>5. ListingPointers(r)'
    BY <1>1, <1>3, <1>4, <1>5, <2>1 DEF ListingPointers
  <2>6. ReaderSound(r)'
    BY <1>1, <1>2, <2>1, <2>4, <2>5 DEF ReaderSound, RecordListings, PointReads
  <2>. QED  BY <2>2, <2>3, <2>6, MoveKeeps
<1>7. CASE left[r] \ {i} = {} /\ Recorded(r, n)
  <2>1. PICK a : /\ Settle(r, a)
                 /\ a = [status |-> "ok", records |-> {}, events |-> <<>>, recorded |-> n]
    BY <1>7 DEF Recorded
  <2>2. a \in Result /\ a.status = "ok" /\ a.recorded = n
    BY <2>1 DEF Result
  <2>3. \A j \in Id : LifeOf'[j] # None => j \in Indexed'
    BY <1>5, <1>7
  <2>4. n <= Cardinality(Missing(r))
    <3>1. PICK S : S = left[r] \ {i}
      OBVIOUS
    <3>2. /\ Cardinality(Missing(r) \ S) \in Nat /\ Cardinality(Missing(r)) \in Nat
          /\ Cardinality(Missing(r) \ S) <= Cardinality(Missing(r))
      BY MissingFinite
    <3>. QED  BY <3>1, <3>2
  <2>5. ASSUME result'[r] = a PROVE RebuildTrue(r)'
    BY <1>4, <2>2, <2>3, <2>4, <2>5 DEF RebuildTrue
  <2>6. result'[r] = a => AnswerTrue(r)'
    BY <1>1, <2>2, <2>5 DEF AnswerTrue
  <2>. QED  BY <1>1, <2>1, <2>6, AnswerKeeps
<1>. QED  BY <1>6, <1>7, Zenon DEF Proceed

LEMMA RebuildReadKeeps ==
  ASSUME ReadInv, NEW r \in Reader, RebuildRead(r), UNCHANGED <<pc, cmd, seen, reply>>
  PROVE  ReadInv'
<1>0. /\ UNCHANGED vars /\ UNCHANGED call /\ step[r] = "follow" /\ ask[r].op = "rebuild"
  BY DEF RebuildRead, vars
<1>1. /\ ReadTypes /\ ReaderSound(r) /\ StoreInv /\ StoreGoesOn
      /\ LifeOf' = LifeOf /\ Indexed' = Indexed /\ UNCHANGED stored
      /\ ask[r] \in Ask /\ ask[r] # None /\ ask'[r] = ask[r] /\ began'[r] = began[r]
      /\ Began(r) /\ Began(r)' /\ UNCHANGED <<ask, began>>
  BY <1>0, ReadingStands
<1>2. ListingPointers(r) /\ located[r] = NothingLocated
  BY <1>0, <1>1 DEF ReaderSound, ListingPointers
<1>3. PICK i \in left[r] :
         LET p == listed[r][i]
             a == RecordAt(p.loc, i)
         IN \/ a # None /\ ~Agrees(a, i, p) /\ Throw(r, "corrupt")
            \/ /\ Granted(a) /\ Agrees(a, i, p)
               /\ Go(r, "insert")
               /\ located' = [located EXCEPT ![r][i] = p]
               /\ UNCHANGED <<listed, left, found>>
            \/ ~Granted(a) /\ Proceed(r, i, recorded[r])
  BY DEF RebuildRead
<1>4. i \in Id /\ listed[r][i] # None /\ listed[r][i] = pointers[i]
  BY <1>0, <1>2 DEF ListingPointers, Present
<1>5. PICK p \in Pointer : p = pointers[i]
  BY <1>1, <1>4, PointedLife
<1>6. /\ RecordAt(listed[r][i].loc, i) = LifeOf[i]
      /\ LifeOf[i] # None => Agrees(LifeOf[i], i, listed[r][i])
  BY <1>1, <1>4, PointedLife
<1>7. CASE /\ LifeOf[i] # None
           /\ Go(r, "insert")
           /\ located' = [located EXCEPT ![r][i] = p]
           /\ UNCHANGED <<listed, left, found>>
  <2>1. /\ step'[r] = "insert" /\ listed'[r] = listed[r] /\ left'[r] = left[r]
        /\ located'[r] = [NothingLocated EXCEPT ![i] = p]
        /\ found'[r] = found[r] /\ recorded'[r] = recorded[r]
    BY <1>1, <1>2, <1>7 DEF Go, ReadTypes
  <2>2. Touches(r)
    BY <1>1, <1>7 DEF Touches, ReadTypes, Go
  <2>3. located'[r] \in [Id -> Pointer \cup {None}] /\ Present(located'[r]) \subseteq {i}
    BY <2>1 DEF NothingLocated, Present
  <2>4. located'[r][i] = p
    BY <1>4, <2>1 DEF NothingLocated
  <2>5. TypesOf(r)'
    BY <1>1, <2>1, <2>3 DEF TypesOf, ReadSteps, ReadTypes
  <2>6. Pointing(r)'
    BY <1>1, <1>5, <2>3, <2>4 DEF Pointing, stored
  <2>7. Stands(r)'
    BY <1>0, <1>1, <2>1 DEF Stands
  <2>8. Missing(r)' = Missing(r) /\ pointers' = pointers
    BY <1>1 DEF Missing, stored
  <2>9. ListingPointers(r)'
    BY <1>0, <1>1, <1>2, <1>7, <2>1, <2>3, <2>8 DEF ListingPointers
  <2>10. ReaderSound(r)'
    BY <1>0, <1>1, <2>1, <2>6, <2>7, <2>9 DEF ReaderSound, RecordListings, PointReads
  <2>. QED  BY <1>1, <2>2, <2>5, <2>10, MoveKeeps
\* No lifecycle has come of it so far.
<1>8. CASE LifeOf[i] = None /\ Proceed(r, i, recorded[r])
  <2>1. recorded[r] \in Nat /\ recorded[r] <= Cardinality(Missing(r) \ left[r])
    BY <1>0, <1>1, <1>2 DEF ReadTypes, ListingPointers
  <2>2. PICK S, n : S = left[r] \ {i} /\ n = recorded[r] /\ n \in Nat
    BY <2>1
  <2>3. Missing(r) \ left[r] \subseteq Missing(r) \ S
    BY <2>2
  <2>4. n <= Cardinality(Missing(r) \ S)
    <3>1. IsFiniteSet(Missing(r) \ S) /\ Cardinality(Missing(r) \ S) \in Nat
      BY MissingFinite
    <3>2. /\ IsFiniteSet(Missing(r) \ left[r])
          /\ Cardinality(Missing(r) \ left[r]) <= Cardinality(Missing(r) \ S)
      BY <2>3, <3>1, FS_Subset
    <3>3. Cardinality(Missing(r) \ left[r]) \in Nat
      BY <3>2, FS_CardinalityType
    <3>. QED  BY <2>1, <2>2, <3>1, <3>2, <3>3
  <2>5. pointers' = pointers
    BY <1>1 DEF stored
  <2>6. Proceed(r, i, n) /\ n <= Cardinality(Missing(r) \ (left[r] \ {i}))
    BY <1>8, <2>2, <2>4
  <2>7. /\ n \in Nat /\ step[r] \in {"follow", "insert"} /\ UNCHANGED call /\ StoreGoesOn
        /\ LifeOf' = LifeOf /\ ask[r].op = "rebuild"
        /\ LifeOf[i] # None => i \in Indexed'
    BY <1>0, <1>1, <1>8, <2>2
  <2>. QED  BY <2>5, <2>6, <2>7, ProceedKeeps
<1>. QED  BY <1>3, <1>4, <1>5, <1>6, <1>7, <1>8, Zenon DEF Granted

LEMMA RebuildInsertKeeps ==
  ASSUME ReadInv, NEW r \in Reader, RebuildInsert(r), UNCHANGED <<pc, cmd, seen, reply>>
  PROVE  ReadInv'
<1>1. /\ ReadTypes /\ ReaderSound(r) /\ StoreInv /\ GuardsOfLifecycles /\ step[r] = "insert"
      /\ UNCHANGED <<pointers, assignments, guards, audit, pc, cmd, seen, reply>>
      /\ UNCHANGED call
  <2>1. ReadTypes /\ ReaderSound(r) /\ StoreInv /\ GuardsOfLifecycles
    BY DEF ReadInv
  <2>2. step[r] = "insert" /\ UNCHANGED <<pointers, assignments, guards, audit, call>>
    BY Zenon DEF RebuildInsert
  <2>. QED  BY <2>1, <2>2
<1>2. ask[r].op = "rebuild" /\ ListingPointers(r) /\ Began(r)
  BY <1>1 DEF ReaderSound, Stands
<1>3. PICK i \in Present(located[r]) :
         LET p == located[r][i]
             h == holders[p.loc.scope][p.role][i]
         IN \/ /\ h = None
               /\ holders' = [holders EXCEPT ![p.loc.scope][p.role][i] = p.loc.principal]
               /\ Proceed(r, i, recorded[r] + 1)
            \/ /\ h = p.loc.principal
               /\ Proceed(r, i, recorded[r]) /\ UNCHANGED holders
            \/ /\ h \notin {None, p.loc.principal}
               /\ Throw(r, "corrupt") /\ UNCHANGED holders
  BY Zenon DEF RebuildInsert
<1>4. i \in Id /\ located[r][i] # None /\ located[r][i] = pointers[i]
  BY <1>1 DEF ReaderSound, Pointing, Present, ReadTypes
<1>5. i \in left[r] /\ LifeOf[i] # None
  BY <1>1, <1>2 DEF ListingPointers
<1>. DEFINE p == pointers[i]
            h == holders[p.loc.scope][p.role][i]
<1>6. /\ p \in Pointer /\ p.loc \in Location /\ p.loc.scope \in Scope
      /\ p.loc.principal \in Principal /\ p.role \in Role
  BY <1>1, <1>4, PointedLife
\* The row is there for this principal or not at all: it follows the pointer.
<1>7. h \in {None, p.loc.principal}
  <2>. SUFFICES ASSUME h # None PROVE h = p.loc.principal
    OBVIOUS
  <2>1. p = [loc |-> [principal |-> h, scope |-> p.loc.scope], role |-> p.role]
    <3>1. \A s \in Scope, q \in Role : holders[s][q][i] # None =>
            pointers[i] = [loc |-> [principal |-> holders[s][q][i], scope |-> s], role |-> q]
      BY <1>1, <1>4 DEF StoreInv, RecordsSound, HoldersFollowPointers
    <3>. QED  BY <1>6, <3>1, Zenon
  <2>2. p.loc = [principal |-> h, scope |-> p.loc.scope]
    BY <2>1
  <2>. QED  BY <2>2
<1>8. \/ /\ h = None
         /\ holders' = [holders EXCEPT ![p.loc.scope][p.role][i] = p.loc.principal]
         /\ Proceed(r, i, recorded[r] + 1)
      \/ /\ h = p.loc.principal
         /\ Proceed(r, i, recorded[r]) /\ holders' = holders
  BY <1>3, <1>4, <1>7, Zenon
<1>9. StoreGoesOn
  <2>1. \/ holders' = holders
        \/ /\ h = None
           /\ holders' = [holders EXCEPT ![p.loc.scope][p.role][i] = p.loc.principal]
    BY <1>8
  <2>2. pointers[i] # None
    BY <1>4
  <2>. QED  BY <1>1, <1>4, <2>1, <2>2, RowAdvances, Zenon DEF StoreGoesOn
<1>10. LifeOf' = LifeOf
  BY <1>1 DEF LifeOf, RecordAt
<1>11. i \in Indexed'
  <2>1. holders'[p.loc.scope][p.role][i] = p.loc.principal
    <3>1. holders \in [Scope -> [Role -> [Id -> Principal \cup {None}]]]
      BY <1>1 DEF StoreInv, TypeOK
    <3>2. CASE holders' = [holders EXCEPT ![p.loc.scope][p.role][i] = p.loc.principal]
      BY <1>4, <1>6, <3>1, <3>2, ZenonT(30)
    <3>. QED  BY <1>8, <3>2
  <2>. QED  BY <1>1, <1>4, <2>1 DEF Indexed
<1>12. recorded[r] \in Nat /\ recorded[r] <= Cardinality(Missing(r) \ left[r])
  BY <1>1, <1>2 DEF ReadTypes, ListingPointers
<1>13. PICK S : S = left[r] \ {i}
  OBVIOUS
<1>14. /\ IsFiniteSet(Missing(r) \ S) /\ Cardinality(Missing(r) \ S) \in Nat
       /\ IsFiniteSet(Missing(r) \ left[r]) /\ Cardinality(Missing(r) \ left[r]) \in Nat
       /\ Cardinality(Missing(r) \ left[r]) <= Cardinality(Missing(r) \ S)
  <2>1. IsFiniteSet(Missing(r) \ S) /\ Cardinality(Missing(r) \ S) \in Nat
    BY MissingFinite
  <2>2. Missing(r) \ left[r] \subseteq Missing(r) \ S
    BY <1>13
  <2>3. /\ IsFiniteSet(Missing(r) \ left[r])
        /\ Cardinality(Missing(r) \ left[r]) <= Cardinality(Missing(r) \ S)
    BY <2>1, <2>2, FS_Subset
  <2>. QED  BY <2>1, <2>3, FS_CardinalityType
<1>15. CASE /\ h = None
            /\ Proceed(r, i, recorded[r] + 1)
  \* It was not indexed, so neither was it as the call began.
  <2>1. i \notin Indexed
    BY <1>4, <1>6, <1>15, RecordsAssumption DEF Indexed
  <2>2. i \in Missing(r)
    BY <1>2, <1>4, <1>5, <2>1 DEF Began, Missing
  <2>3. Missing(r) \ S = (Missing(r) \ left[r]) \cup {i} /\ i \notin Missing(r) \ left[r]
    BY <1>5, <1>13, <2>2
  <2>4. Cardinality(Missing(r) \ S) = Cardinality(Missing(r) \ left[r]) + 1
    <3>1. PICK T : T = Missing(r) \ left[r]
      OBVIOUS
    <3>2. IsFiniteSet(T) /\ i \notin T
      BY <1>14, <2>3, <3>1
    <3>3. Cardinality(T \cup {i}) = Cardinality(T) + 1
      BY <3>2, FS_AddElement
    <3>. QED  BY <2>3, <3>1, <3>3
  <2>5. PICK n \in Nat : n = recorded[r] + 1
    BY <1>12
  <2>6. Proceed(r, i, n) /\ n <= Cardinality(Missing(r) \ (left[r] \ {i}))
    BY <1>12, <1>13, <1>14, <1>15, <2>4, <2>5
  <2>. QED  BY <1>1, <1>2, <1>5, <1>9, <1>10, <1>11, <2>6, ProceedKeeps
<1>16. CASE Proceed(r, i, recorded[r])
  <2>1. PICK n \in Nat : n = recorded[r]
    BY <1>12
  <2>2. Proceed(r, i, n) /\ n <= Cardinality(Missing(r) \ (left[r] \ {i}))
    BY <1>12, <1>13, <1>14, <1>16, <2>1
  <2>. QED  BY <1>1, <1>2, <1>5, <1>9, <1>10, <1>11, <2>2, ProceedKeeps
<1>. QED  BY <1>8, <1>15, <1>16

-----------------------------------------------------------------------------
\* The start.

\* A store that holds grants of an earlier release is sound.
LEMMA LegacySound ==
  ASSUME NEW old \in SUBSET OldId, NEW g \in [old -> GrantCommand], Legacy(old, g),
         \A i, j \in old : g[i].id = i /\ (TargetOf(g[i]) = TargetOf(g[j]) => i = j),
         pc = [c \in Client |-> "idle"], cmd = [c \in Client |-> None],
         seen = [c \in Client |-> NothingSeen], reply = [c \in Client |-> None]
  PROVE  StoreInv /\ GuardsOfLifecycles
<1>1. \A i \in old : /\ i \in Id /\ g[i] \in GrantCommand /\ TargetOf(g[i]) \in Pointer
                     /\ g[i].loc \in Location /\ g[i].role \in Role /\ g[i].event \in Event
                     /\ GrantedForm(g[i]) \in Assignment /\ GrantedForm(g[i]) # None
                     /\ GrantedForm(g[i]).id = i
                     /\ GrantedForm(g[i]).loc = g[i].loc /\ GrantedForm(g[i]).role = g[i].role
                     /\ GrantedForm(g[i]).grantEvent = g[i].event
                     /\ GrantedForm(g[i]).revocation = None
  <2>. SUFFICES ASSUME NEW i \in old
                PROVE  /\ i \in Id /\ g[i] \in GrantCommand /\ TargetOf(g[i]) \in Pointer
                       /\ g[i].loc \in Location /\ g[i].role \in Role /\ g[i].event \in Event
                       /\ GrantedForm(g[i]) \in Assignment /\ GrantedForm(g[i]) # None
                       /\ GrantedForm(g[i]).id = i
                       /\ GrantedForm(g[i]).loc = g[i].loc /\ GrantedForm(g[i]).role = g[i].role
                       /\ GrantedForm(g[i]).grantEvent = g[i].event
                       /\ GrantedForm(g[i]).revocation = None
    OBVIOUS
  <2>1. i \in Id /\ g[i] \in GrantCommand
    BY ReadsAssumption
  <2>2. PICK c \in GrantCommand : c = g[i]
    BY <2>1
  <2>3. /\ c.id = i /\ c.loc \in Location /\ c.role \in Role
        /\ c.event \in Event /\ c.at \in Time
    BY <2>2 DEF GrantCommand
  <2>4. GrantedForm(c) \in Assignment /\ TargetOf(c) \in Pointer
    BY <2>1, <2>3 DEF GrantedForm, Assignment, TargetOf, Pointer
  <2>5. /\ GrantedForm(c).id = i /\ GrantedForm(c).loc = c.loc /\ GrantedForm(c).role = c.role
        /\ GrantedForm(c).grantEvent = c.event /\ GrantedForm(c).revocation = None
    BY <2>3 DEF GrantedForm
  <2>. QED  BY <2>1, <2>2, <2>3, <2>4, <2>5, RecordsAssumption
<1>. DEFINE Held(l, q) == {i \in old : g[i].loc = l /\ g[i].role = q}
<1>2. \A i \in Id : pointers[i] = IF i \in old THEN TargetOf(g[i]) ELSE None
  BY Zenon DEF Legacy
<1>3. \A s \in Scope, q \in Role, i \in Id : holders[s][q][i] = None
  BY Zenon DEF Legacy
<1>4. \A l \in Location, i \in Id :
        assignments[l][i] = IF i \in old /\ g[i].loc = l
                            THEN [version |-> 1, value |-> GrantedForm(g[i])] ELSE NoAssignment
  BY Zenon DEF Legacy
<1>5. \A l \in Location, q \in Role :
        guards[l][q] = IF Held(l, q) = {} THEN NoGuard
                       ELSE [version |-> 1, occupant |-> CHOOSE i \in Held(l, q) : TRUE]
  BY Zenon DEF Legacy
<1>6. \A l \in Location, i \in Id :
        /\ audit[l][i][1] = IF i \in old /\ g[i].loc = l THEN g[i].event ELSE None
        /\ audit[l][i][2] = None
  <2>1. \A l \in Location, i \in Id, q \in 1..2 :
          audit[l][i][q] = IF q = 1 /\ i \in old /\ g[i].loc = l THEN g[i].event ELSE None
    BY Zenon DEF Legacy
  <2>. QED  BY <2>1
\* No tuple was granted twice.
<1>7. \A l \in Location, q \in Role : \A i \in Held(l, q) :
        /\ Held(l, q) # {} /\ (CHOOSE j \in Held(l, q) : TRUE) = i
  <2>. TAKE l \in Location, q \in Role
  <2>. TAKE i \in Held(l, q)
  <2>1. ASSUME NEW j \in Held(l, q) PROVE j = i
    <3>1. /\ i \in old /\ g[i].loc = l /\ g[i].role = q
          /\ j \in old /\ g[j].loc = l /\ g[j].role = q
      OBVIOUS
    <3>2. TargetOf(g[i]) = TargetOf(g[j])
      BY <3>1, Zenon DEF TargetOf
    <3>. QED  BY <3>1, <3>2, Zenon
  <2>. QED  BY <2>1
<1>8. \A l \in Location, q \in Role :
        \/ Held(l, q) = {} /\ guards[l][q] = NoGuard
        \/ \E i \in Held(l, q) : guards[l][q] = [version |-> 1, occupant |-> i]
  BY <1>5, <1>7
<1>9. \A l \in Location, q \in Role, i \in Id :
        i \in Held(l, q) <=> i \in old /\ g[i].loc = l /\ g[i].role = q
  OBVIOUS
<1>10. \A l \in Location, q \in Role : \A i \in Held(l, q) :
         guards[l][q] = [version |-> 1, occupant |-> i]
  BY <1>5, <1>7
<1>. HIDE DEF Held
<1>11. \A l \in Location, i \in Id :
         /\ assignments[l][i] \in Versioned
         /\ RecordAt(l, i) = IF i \in old /\ g[i].loc = l THEN GrantedForm(g[i]) ELSE None
         /\ assignments[l][i].version = IF i \in old /\ g[i].loc = l THEN 1 ELSE 0
  <2>. SUFFICES ASSUME NEW l \in Location, NEW i \in Id
                PROVE  /\ assignments[l][i] \in Versioned
                       /\ RecordAt(l, i) = IF i \in old /\ g[i].loc = l
                                          THEN GrantedForm(g[i]) ELSE None
                       /\ assignments[l][i].version = IF i \in old /\ g[i].loc = l THEN 1 ELSE 0
    OBVIOUS
  <2>1. CASE i \in old /\ g[i].loc = l
    <3>1. PICK a \in Assignment : a = GrantedForm(g[i])
      BY <1>1, <2>1
    <3>2. assignments[l][i] = [version |-> 1, value |-> a]
      BY <1>4, <2>1, <3>1
    <3>. QED  BY <2>1, <3>1, <3>2 DEF RecordAt, Versioned
  <2>2. CASE ~(i \in old /\ g[i].loc = l)
    <3>1. assignments[l][i] = NoAssignment
      BY <1>4, <2>2, Zenon
    <3>. QED  BY <2>2, <3>1 DEF RecordAt, NoAssignment, Versioned
  <2>. QED  BY <2>1, <2>2
<1>12. \A l \in Location, q \in Role :
         guards[l][q] \in Guard /\ (guards[l][q].version # 0 => Held(l, q) # {})
  <2>. SUFFICES ASSUME NEW l \in Location, NEW q \in Role
                PROVE  guards[l][q] \in Guard /\ (guards[l][q].version # 0 => Held(l, q) # {})
    OBVIOUS
  <2>1. CASE guards[l][q] = NoGuard
    BY <2>1 DEF NoGuard, Guard
  <2>2. ASSUME NEW i \in Held(l, q), guards[l][q] = [version |-> 1, occupant |-> i]
        PROVE  guards[l][q] \in Guard /\ Held(l, q) # {}
    <3>1. i \in Id
      BY <1>1 DEF Held
    <3>. QED  BY <2>2, <3>1 DEF Guard
  <2>. QED  BY <1>8, <2>1, <2>2
<1>13. TypeOK
  <2>1. pointers \in [Id -> Pointer \cup {None}]
    <3>1. pointers = [i \in Id |-> pointers[i]]
      BY DEF Legacy
    <3>. QED  BY <1>1, <1>2, <3>1
  <2>2. holders \in [Scope -> [Role -> [Id -> Principal \cup {None}]]]
    BY DEF Legacy
  <2>3. assignments \in [Location -> [Id -> Versioned]]
    <3>1. assignments = [l \in Location |-> [i \in Id |-> assignments[l][i]]]
      BY <1>4, Zenon DEF Legacy
    <3>. QED  BY <1>11, <3>1
  <2>4. guards \in [Location -> [Role -> Guard]]
    <3>1. guards = [l \in Location |-> [q \in Role |-> guards[l][q]]]
      BY <1>5, Zenon DEF Legacy, Held
    <3>. QED  BY <1>12, <3>1
  <2>5. audit \in [Location -> [Id -> [1..2 -> Event \cup {None}]]]
    BY <1>1 DEF Legacy
  <2>6. /\ pc \in [Client -> {"idle", "replied"} \cup GrantSteps \cup RevokeSteps]
        /\ cmd \in [Client -> GrantCommand \cup RevokeCommand \cup {None}]
        /\ seen \in [Client -> Seen] /\ reply \in [Client -> Reply \cup {None}]
    <3>1. NothingSeen \in Seen
      BY DEF NothingSeen, Seen, NoAssignment, NoGuard, Versioned, Guard
    <3>. QED  BY <3>1
  <2>. QED  BY <2>1, <2>2, <2>3, <2>4, <2>5, <2>6 DEF TypeOK
<1>14. RecordsSound
  <2>1. LifecyclesFollowPointers
    <3>. SUFFICES ASSUME NEW l \in Location, NEW i \in Id, RecordAt(l, i) # None
                  PROVE  /\ pointers[i] = [loc |-> l, role |-> RecordAt(l, i).role]
                         /\ RecordAt(l, i).id = i /\ RecordAt(l, i).loc = l
      BY DEF LifecyclesFollowPointers
    <3>1. i \in old /\ g[i].loc = l /\ RecordAt(l, i) = GrantedForm(g[i])
      BY <1>11
    <3>2. pointers[i] = [loc |-> g[i].loc, role |-> g[i].role]
      BY <1>2, <3>1 DEF TargetOf
    <3>. QED  BY <1>1, <3>1, <3>2
  <2>2. HoldersFollowPointers
    BY <1>3 DEF HoldersFollowPointers
  <2>3. \A l \in Location, i \in Id :
          i \in old /\ g[i].loc = l => i \in Held(l, g[i].role)
    BY <1>1, <1>9
  <2>4. VersionsAgree
    <3>. SUFFICES ASSUME NEW l \in Location, NEW i \in Id
                  PROVE  /\ assignments[l][i].version = 0 <=> RecordAt(l, i) = None
                         /\ RecordAt(l, i) # None => guards[l][RecordAt(l, i).role].version # 0
      BY DEF VersionsAgree
    <3>1. assignments[l][i].version = 0 <=> RecordAt(l, i) = None
      BY <1>1, <1>11
    <3>2. ASSUME RecordAt(l, i) # None PROVE guards[l][RecordAt(l, i).role].version # 0
      <4>1. i \in old /\ g[i].loc = l /\ RecordAt(l, i) = GrantedForm(g[i])
        BY <1>11, <3>2
      <4>2. PICK q \in Role : q = g[i].role /\ RecordAt(l, i).role = q
        BY <1>1, <4>1
      <4>3. guards[l][q] = [version |-> 1, occupant |-> i]
        BY <1>10, <2>3, <4>1, <4>2
      <4>. QED  BY <4>2, <4>3
    <3>. QED  BY <3>1, <3>2
  <2>5. GuardNamesActive
    <3>. SUFFICES ASSUME NEW l \in Location, NEW i \in Id, NEW q \in Role
                  PROVE  guards[l][q].occupant = i
                           <=> Active(RecordAt(l, i)) /\ RecordAt(l, i).role = q
      BY DEF GuardNamesActive
    <3>1. Active(RecordAt(l, i)) /\ RecordAt(l, i).role = q <=> i \in Held(l, q)
      BY <1>1, <1>9, <1>11 DEF Active
    <3>2. ASSUME i \in Held(l, q) PROVE guards[l][q].occupant = i
      <4>1. guards[l][q] = [version |-> 1, occupant |-> i]
        BY <1>10, <3>2
      <4>. QED  BY <4>1
    <3>3. ASSUME guards[l][q].occupant = i PROVE i \in Held(l, q)
      <4>1. CASE guards[l][q] = NoGuard
        BY <3>3, <4>1, RecordsAssumption DEF NoGuard
      <4>2. ASSUME NEW j \in Held(l, q), guards[l][q] = [version |-> 1, occupant |-> j]
            PROVE  i \in Held(l, q)
        <5>1. guards[l][q].occupant = j
          BY <4>2
        <5>. QED  BY <3>3, <5>1
      <4>. QED  BY <1>8, <4>1, <4>2
    <3>. QED  BY <3>1, <3>2, <3>3
  <2>6. AuditMatchesLifecycle
    BY <1>1, <1>6, <1>11 DEF AuditMatchesLifecycle, Revoked
  <2>. QED  BY <2>1, <2>2, <2>4, <2>5, <2>6 DEF RecordsSound
<1>15. \A c \in Client : pc[c] = "idle"
  OBVIOUS
<1>16. (\A c \in Client : CallSound(c)) /\ OneMakesOneEnds
  BY <1>15 DEF CallSound, At, GrantSteps, RevokeSteps, OneMakesOneEnds, Made, Ended
<1>17. GuardsOfLifecycles
  <2>. SUFFICES ASSUME NEW l \in Location, NEW q \in Role, guards[l][q].version # 0
                PROVE  \E i \in Id : RecordAt(l, i) # None /\ RecordAt(l, i).role = q
    BY DEF GuardsOfLifecycles
  <2>1. PICK i \in Held(l, q) : TRUE
    BY <1>12
  <2>2. i \in Id /\ i \in old /\ g[i].loc = l /\ g[i].role = q
    BY <1>1, <1>9 DEF Held
  <2>. QED  BY <1>1, <1>11, <2>2
<1>. QED  BY <1>13, <1>14, <1>16, <1>17 DEF StoreInv

LEMMA ReadInitSound == ReadInit => ReadInv
<1>. SUFFICES ASSUME ReadInit PROVE ReadInv
  OBVIOUS
<1>1. StoreInv /\ GuardsOfLifecycles
  BY LegacySound, Zenon DEF ReadInit
<1>2. ReadTypes
  BY DEF ReadInit, ReadTypes, ReadSteps, NothingLocated
<1>3. ASSUME NEW r \in Reader PROVE ReaderSound(r)
  <2>1. /\ ask[r] = None /\ step[r] = "idle" /\ found[r] = {} /\ recorded[r] = 0
        /\ located[r] = NothingLocated
    BY DEF ReadInit
  <2>. QED  BY <2>1 DEF ReaderSound, Stands, Pointing, Present, NothingLocated
<1>. QED  BY <1>1, <1>2, <1>3 DEF ReadInv

-----------------------------------------------------------------------------
\* Every step.

LEMMA ReadNextSound == ReadInv /\ [ReadNext]_allVars => ReadInv'
<1>. SUFFICES ASSUME ReadInv, [ReadNext]_allVars PROVE ReadInv'
  OBVIOUS
<1>1. CASE [Next]_vars /\ UNCHANGED readVars
  <2>1. StoreGoesOn
    BY <1>1, WriterAdvances, GuardsStay DEF ReadInv, StoreGoesOn
  <2>2. ReadTypes' /\ ReadTypes
    BY <1>1 DEF ReadInv, ReadTypes, readVars, progress, call
  <2>3. ASSUME NEW q \in Reader PROVE ReaderSound(q)'
    <3>1. Rests(q)
      BY <1>1 DEF Rests, readVars, progress, call
    <3>. QED  BY <2>1, <2>2, <3>1, ReaderStays DEF ReadInv, StoreGoesOn
  <2>. QED  BY <2>1, <2>2, <2>3 DEF ReadInv, StoreGoesOn
<1>2. ASSUME NEW r \in Reader, Begin(r) \/ ReadStep(r) \/ Leave(r),
             UNCHANGED <<pc, cmd, seen, reply>>
      PROVE  ReadInv'
  BY <1>2, BeginKeeps, LeaveKeeps, ListRowKeeps, ListDoneKeeps, ConfirmKeeps,
     HolderLocateKeeps, HolderReadKeeps, RebuildReadKeeps, RebuildInsertKeeps,
     LocateKeeps, ReadRecordKeeps, AuditOrphansKeeps, AuditGrantedKeeps,
     AuditRevokedKeeps, Zenon DEF ReadStep
<1>3. CASE UNCHANGED allVars
  BY <1>1, <1>3 DEF allVars
<1>. QED  BY <1>1, <1>2, <1>3 DEF ReadNext

LEMMA ReadInvariance == ReadSpec => []ReadInv
<1>. QED  BY ReadInitSound, ReadNextSound, PTL DEF ReadSpec

-----------------------------------------------------------------------------
\* What it comes to.

\* What an answer rests on, once it is given.
LEMMA Answers ==
  ASSUME ReadInv, NEW r \in Reader, step[r] = "answered"
  PROVE  /\ AnswerTrue(r) /\ ask[r] \in Ask
         /\ \A i \in Id : /\ began[r].life[i] \in Assignment \cup {None}
                          /\ LifeOf[i] \in Assignment \cup {None}
                          /\ Since(began[r].life[i], LifeOf[i])
<1>1. AnswerTrue(r) /\ ask[r] \in Ask /\ Began(r)
  BY DEF ReadInv, ReaderSound, Stands, ReadTypes
<1>2. LifeOf \in Life
  BY LifeLocated DEF ReadInv
<1>. QED  BY <1>1, <1>2 DEF Began, Life

LEMMA ReadTypesFollow == ReadInv => ReadTypeOK
<1>. SUFFICES ASSUME ReadInv PROVE ReadTypeOK
  OBVIOUS
<1>1. ReadTypes
  BY DEF ReadInv
<1>2. ASSUME NEW r \in Reader
      PROVE  /\ step[r] \in ReadSteps
             /\ step[r] = "idle" <=> ask[r] = None
             /\ step[r] \in {"granted", "revoked"} => Cardinality(found[r]) = 1
             /\ step[r] = "answered" => result[r] \in Result
             /\ left[r] \subseteq RecordKeys \cup Id
             /\ located[r] \in [Id -> Pointer \cup {None}]
             /\ found[r] \subseteq Id \X Assignment
  <2>1. step[r] = "idle" <=> ask[r] = None
    BY DEF ReadInv, ReaderSound, Stands
  <2>2. step[r] \in {"granted", "revoked"} => Cardinality(found[r]) = 1
    BY AuditFound, FS_Singleton
  <2>3. step[r] = "answered" => result[r] \in Result
    BY Answers DEF AnswerTrue
  <2>. QED  BY <1>1, <2>1, <2>2, <2>3 DEF ReadTypes
<1>. QED  BY <1>1, <1>2 DEF ReadTypeOK, ReadTypes, ReadSteps

LEMMA RoleReportedOnceFollows == ReadInv => RoleReportedOnce
BY Answers DEF RoleReportedOnce, Ok, Answered, AnswerTrue, RolesOnce

LEMMA RevokedBeforeFollows == ReadInv => RevokedBeforeIsAbsent
<1>. SUFFICES ASSUME ReadInv, NEW r \in Reader, Ok(r, {"active", "byrole"}),
                     NEW x \in result[r].records
              PROVE  /\ Active(x[2]) /\ SameGrant(x[2], LifeOf[x[1]])
                     /\ ~Revoked(began[r].life[x[1]])
  BY DEF RevokedBeforeIsAbsent
<1>1. ActivesTrue(r)
  BY Answers DEF Ok, Answered, AnswerTrue
<1>2. Active(x[2]) /\ WasOnce(r, x[1], x[2])
  BY <1>1 DEF ActivesTrue
<1>. QED  BY <1>2 DEF WasOnce, Since, Active, Revoked

LEMMA ThroughoutFollows == ReadInv => ActiveThroughoutIsReported
<1>. SUFFICES ASSUME ReadInv, NEW r \in Reader, Ok(r, {"active", "byrole"}), NEW i \in Id,
                     Active(began[r].life[i]), Active(LifeOf[i]), Asked(ask[r], LifeOf[i]),
                     ask[r].op = "byrole" => i \in began[r].indexed
              PROVE  <<i, LifeOf[i]>> \in result[r].records
  BY DEF ActiveThroughoutIsReported
<1>1. ActivesTrue(r)
  BY Answers DEF Ok, Answered, AnswerTrue
<1>2. step[r] = "answered"
  BY DEF Ok, Answered
<1>3. began[r].life[i] = LifeOf[i]
  <2>1. /\ began[r].life[i] \in Assignment \cup {None} /\ LifeOf[i] \in Assignment \cup {None}
        /\ Since(began[r].life[i], LifeOf[i]) /\ began[r].life[i] # None
    BY <1>2, Answers DEF Active
  <2>. QED  BY <2>1, ActiveThroughout
<1>. QED  BY <1>1, <1>3 DEF ActivesTrue

LEMMA HistoryFollows == ReadInv => HistoryIsComplete
<1>. SUFFICES ASSUME ReadInv, NEW r \in Reader, Ok(r, {"history"}), NEW i \in Id,
                     began[r].life[i] # None, Asked(ask[r], began[r].life[i])
              PROVE  \E a \in {began[r].life[i], LifeOf[i]} : <<i, a>> \in result[r].records
  BY DEF HistoryIsComplete
<1>1. HistoryTrue(r) /\ step[r] = "answered"
  BY Answers DEF Ok, Answered, AnswerTrue
<1>2. PICK x \in Assignment : <<i, x>> \in result[r].records /\ WasOnce(r, i, x)
  BY <1>1 DEF HistoryTrue
<1>3. x = began[r].life[i] \/ x = LifeOf[i]
  BY <1>1, <1>2, Answers, BetweenCases DEF WasOnce
<1>. QED  BY <1>2, <1>3

LEMMA RetryFollows == ReadInv => RetryIsEarned
BY Answers DEF RetryIsEarned, AnswerTrue, Moved

LEMMA ListingsFollow == ReadInv => ListingsNeverCorrupt
BY Answers DEF ListingsNeverCorrupt, Answered, AnswerTrue

LEMMA RebuildFollows == ReadInv => RebuildCovers
<1>. SUFFICES ASSUME ReadInv, NEW r \in Reader, Ok(r, {"rebuild"})
              PROVE  /\ \A i \in Id : LifeOf[i] # None => i \in Indexed
                     /\ result[r].recorded <=
                          Cardinality({i \in Id : began[r].life[i] # None} \ began[r].indexed)
  BY Zenon DEF RebuildCovers
<1>1. RebuildTrue(r)
  BY Answers DEF Ok, Answered, AnswerTrue
<1>. QED  BY <1>1, Zenon DEF RebuildTrue, Missing

LEMMA PointReadFollows == ReadInv => PointReadIsCurrent
<1>. SUFFICES ASSUME ReadInv, NEW r \in Reader, Ok(r, PointReads)
              PROVE  LET was == began[r].life[ask[r].id]
                         now == LifeOf[ask[r].id]
                         between == {was, now} \cup
                                    (IF was = None /\ now # None
                                     THEN {[now EXCEPT !.revocation = None]} ELSE {})
                     IN /\ ask[r].op = "get" =>
                             \E a \in between :
                               result[r].records = IF a = None THEN {} ELSE {<<ask[r].id, a>>}
                        /\ ask[r].op = "audit" =>
                             \E a \in between :
                               result[r].events = IF a = None THEN <<>> ELSE
                                 <<a.grantEvent>> \o (IF Active(a) THEN <<>>
                                                      ELSE <<a.revocation.event>>)
  BY DEF PointReadIsCurrent
<1>. DEFINE was == began[r].life[ask[r].id]
            now == LifeOf[ask[r].id]
            between == {was, now} \cup
                         (IF was = None /\ now # None
                          THEN {[now EXCEPT !.revocation = None]} ELSE {})
<1>1. step[r] = "answered" /\ AnswerTrue(r) /\ ask[r].id \in Id /\ result[r].status = "ok"
  BY Answers, AskForms DEF Ok, Answered
<1>2. PICK w, n : w = was /\ n = now
  OBVIOUS
<1>3. w \in Assignment \cup {None} /\ n \in Assignment \cup {None}
  BY <1>1, <1>2, Answers
<1>4. ASSUME NEW x \in Assignment \cup {None}, WasOnce(r, ask[r].id, x)
      PROVE  x \in between
  <2>1. Since(w, x) /\ Since(x, n)
    BY <1>2, <1>4 DEF WasOnce
  <2>2. \/ x = w \/ x = n
        \/ w = None /\ n # None /\ x = [n EXCEPT !.revocation = None]
    BY <1>3, <2>1, BetweenCases
  <2>. QED  BY <1>2, <2>2
<1>. HIDE DEF between
<1>5. ASSUME ask[r].op = "get"
      PROVE  \E a \in between :
               result[r].records = IF a = None THEN {} ELSE {<<ask[r].id, a>>}
  BY <1>1, <1>4, <1>5 DEF AnswerTrue, GetTrue
<1>6. ASSUME ask[r].op = "audit"
      PROVE  \E a \in between :
               result[r].events = IF a = None THEN <<>> ELSE
                 <<a.grantEvent>> \o (IF Active(a) THEN <<>> ELSE <<a.revocation.event>>)
  BY <1>1, <1>4, <1>6 DEF AnswerTrue, AuditTrue, HistoryFrom
<1>. QED  BY <1>5, <1>6 DEF between

\* A listing reports only what it was asked for: assignments of its partition, or
\* of its scope and role, each once held by whom it names.
AnswersAsked ==
    \A r \in Reader : Ok(r, {"active", "history", "byrole"}) =>
      \A x \in result[r].records : Asked(ask[r], x[2])

LEMMA AskedFollows == ReadInv => AnswersAsked
<1>. SUFFICES ASSUME ReadInv, NEW r \in Reader, Ok(r, {"active", "history", "byrole"})
              PROVE  \A x \in result[r].records : Asked(ask[r], x[2])
  BY DEF AnswersAsked
<1>1. AnswerTrue(r) /\ step[r] = "answered"
  BY Answers DEF Ok, Answered
<1>2. ActivesTrue(r) \/ HistoryTrue(r)
  BY <1>1 DEF Ok, Answered, AnswerTrue
<1>. QED  BY <1>2 DEF ActivesTrue, HistoryTrue

\* The ids that could be listed, of a role in a scope, by a call that began when
\* lifecycles were was: what was active throughout has to be there, and what was
\* revoked before cannot.
Throughout(was, scope, role) ==
    {i \in Id : /\ Active(was[i]) /\ Active(LifeOf[i])
                /\ LifeOf[i].loc.scope = scope /\ LifeOf[i].role = role}
Sometime(was, scope, role) ==
    {i \in Id : /\ LifeOf[i] # None /\ ~Revoked(was[i])
                /\ LifeOf[i].loc.scope = scope /\ LifeOf[i].role = role}

\* What a listing by role may answer, once every grant has its holder row.
ByRoleBounded ==
    \A r \in Reader :
      LET ids == {x[1] : x \in result[r].records}
          was == began[r].life
      IN Ok(r, {"byrole"}) =>
           /\ ids \subseteq Sometime(was, ask[r].scope, ask[r].role)
           /\ Throughout(was, ask[r].scope, ask[r].role) \cap began[r].indexed \subseteq ids

LEMMA ByRoleFollows == ReadInv => ByRoleBounded
<1>. SUFFICES ASSUME ReadInv, NEW r \in Reader, Ok(r, {"byrole"})
              PROVE  LET ids == {x[1] : x \in result[r].records}
                         was == began[r].life
                     IN /\ ids \subseteq Sometime(was, ask[r].scope, ask[r].role)
                        /\ Throughout(was, ask[r].scope, ask[r].role) \cap began[r].indexed
                             \subseteq ids
  BY DEF ByRoleBounded
<1>1. ActivesTrue(r) /\ ask[r].op = "byrole" /\ step[r] = "answered"
  BY Answers DEF Ok, Answered, AnswerTrue
<1>2. ASSUME NEW x \in result[r].records
      PROVE  x[1] \in Sometime(began[r].life, ask[r].scope, ask[r].role)
  <2>1. /\ x[1] \in Id /\ Active(x[2]) /\ WasOnce(r, x[1], x[2])
        /\ x[2].loc.scope = ask[r].scope /\ x[2].role = ask[r].role
    BY <1>1 DEF ActivesTrue, Asked, RecordListings
  <2>2. LifeOf[x[1]] # None /\ SameGrant(x[2], LifeOf[x[1]])
    BY <2>1 DEF WasOnce, Since, Active
  <2>3. ~Revoked(began[r].life[x[1]])
    BY <2>1 DEF WasOnce, Since, Active, Revoked
  <2>. QED  BY <2>1, <2>2, <2>3 DEF Sometime, SameGrant
<1>3. ASSUME NEW i \in Throughout(began[r].life, ask[r].scope, ask[r].role),
             i \in began[r].indexed
      PROVE  \E x \in result[r].records : i = x[1]
  <2>1. /\ i \in Id /\ Active(began[r].life[i]) /\ Active(LifeOf[i])
        /\ LifeOf[i].loc.scope = ask[r].scope /\ LifeOf[i].role = ask[r].role
    BY DEF Throughout
  <2>2. SameGrant(began[r].life[i], LifeOf[i])
    BY <1>1, <2>1, Answers DEF Since, Active
  <2>3. Asked(ask[r], began[r].life[i])
    BY <1>1, <2>1, <2>2 DEF Asked, RecordListings, SameGrant
  <2>4. <<i, LifeOf[i]>> \in result[r].records
    BY <1>1, <1>3, <2>1, <2>3 DEF ActivesTrue
  <2>. QED  BY <2>4
<1>. QED  BY <1>2, <1>3

\* Every call keeps to its steps and its types.
THEOREM ReadTypeCorrect == ReadSpec => []ReadTypeOK
BY ReadInvariance, ReadTypesFollow, PTL

\* A listing of active assignments shows no role twice, however tuples are handed
\* over while it runs: by the time all its rows are listed, one of two has been
\* revoked, and it is still to be confirmed.
THEOREM ReportsRolesOnce == ReadSpec => []RoleReportedOnce
BY ReadInvariance, RoleReportedOnceFollows, PTL

\* What was revoked before a listing of active assignments began is not in it.
THEOREM RevocationsAreSeen == ReadSpec => []RevokedBeforeIsAbsent
BY ReadInvariance, RevokedBeforeFollows, PTL

\* What was active throughout a listing of active assignments is in it.
THEOREM NothingActiveMissed == ReadSpec => []ActiveThroughoutIsReported
BY ReadInvariance, ThroughoutFollows, PTL

\* The history of a partition has every lifecycle that was there before it.
THEOREM HistoriesComplete == ReadSpec => []HistoryIsComplete
BY ReadInvariance, HistoryFollows, PTL

\* A listing is to be tried again only if its partition moved while it ran.
THEOREM RetriesEarned == ReadSpec => []RetryIsEarned
BY ReadInvariance, RetryFollows, PTL

\* Listings, the rebuild and the read of an id never take grants under way for
\* damage.
THEOREM ListingsSound == ReadSpec => []ListingsNeverCorrupt
BY ReadInvariance, ListingsFollow, PTL

\* A rebuild leaves no lifecycle out of the index by role, and counts only rows
\* that were missing.
THEOREM RebuildComplete == ReadSpec => []RebuildCovers
BY ReadInvariance, RebuildFollows, PTL

\* A read by id answers what the id was at one instant of the call.
THEOREM PointReadsUntorn == ReadSpec => []PointReadIsCurrent
BY ReadInvariance, PointReadFollows, PTL

\* A listing shows nothing of another partition, scope or role.
THEOREM ListingsKeepToTheQuestion == ReadSpec => []AnswersAsked
BY ReadInvariance, AskedFollows, PTL

\* A listing by role answers what RoleAdministration lets it answer (Listing): all
\* that held the role throughout, and none that was revoked before.
THEOREM ByRoleAnswers == ReadSpec => []ByRoleBounded
BY ReadInvariance, ByRoleFollows, PTL

-----------------------------------------------------------------------------
\* The mutations beside the reads.

\* A read writes nothing, and a rebuild only holder rows.
LEMMA ReadsLeaveRecords ==
  ASSUME NEW r \in Reader, Begin(r) \/ ReadStep(r) \/ Leave(r)
  PROVE  UNCHANGED <<pointers, assignments, guards, audit>>
<1>1. CASE RebuildInsert(r)
  BY <1>1 DEF RebuildInsert
<1>2. CASE Begin(r) \/ Leave(r)
  BY <1>2 DEF Begin, Leave, stored
<1>3. CASE ListRow(r) \/ ListDone(r) \/ Confirm(r) \/ HolderLocate(r) \/ HolderRead(r)
  BY <1>3 DEF ListRow, ListDone, Confirm, HolderLocate, HolderRead, stored
<1>4. CASE RebuildRead(r) \/ Locate(r) \/ ReadRecord(r)
           \/ AuditOrphans(r) \/ AuditGranted(r) \/ AuditRevoked(r)
  BY <1>4 DEF RebuildRead, Locate, ReadRecord, AuditOrphans, AuditGranted, AuditRevoked, stored
<1>. QED  BY <1>1, <1>2, <1>3, <1>4 DEF ReadStep

\* A step is one of a mutation, or leaves pointers, records and audit rows alone.
LEMMA MutationOrRead ==
  ASSUME [ReadNext]_allVars
  PROVE  [Next]_vars \/ UNCHANGED <<pointers, assignments, guards, audit>>
BY ReadsLeaveRecords DEF ReadNext, allVars, vars, stored

\* Every audited grant and revoke takes effect in one indivisible step also while
\* readers and rebuilds run, over a store that has grants of an earlier release.
THEOREM MutationsStayAtomic == ReadSpec => [][Abstract!Next]_(Abstract!vars)
<1>1. ReadInv /\ [ReadNext]_allVars => [Abstract!Next]_(Abstract!vars)
  <2>. SUFFICES ASSUME ReadInv, [ReadNext]_allVars PROVE [Abstract!Next]_(Abstract!vars)
    OBVIOUS
  <2>1. CASE [Next]_vars
    BY <2>1, StepImplements DEF ReadInv
  <2>2. CASE UNCHANGED <<pointers, assignments, guards, audit>>
    BY <2>2 DEF Abstract!vars, LifeOf, HistoryOf, RecordAt, Rows
  <2>. QED  BY <2>1, <2>2, MutationOrRead
<1>. QED  BY <1>1, ReadInvariance, PTL DEF ReadSpec

\* Neither readers and rebuilds nor grants of an earlier release make the store
\* break what it promises its writers.
THEOREM MutationsStaySafe ==
  ReadSpec => [](/\ OneActivePerTuple /\ AuditMatchesLifecycle /\ NeverCorrupt
                 /\ GrantRepliesTruthful /\ RevokeRepliesTruthful
                 /\ SingleWinner /\ RefusalNeedsCompetitor)
<1>1. ReadInv => /\ OneActivePerTuple /\ AuditMatchesLifecycle /\ NeverCorrupt
                 /\ GrantRepliesTruthful /\ RevokeRepliesTruthful
                 /\ SingleWinner /\ RefusalNeedsCompetitor
  BY TupleFollows, RecordsFollow, NeverCorruptFollows, GrantRepliesFollow,
     RevokeRepliesFollow, SingleWinnerFollows, RefusalFollows DEF ReadInv
<1>. QED  BY <1>1, ReadInvariance, PTL

\* Beside them a lifecycle keeps its evidence for good.
THEOREM LifecyclesStayIrreversible == ReadSpec => LifecycleIrreversible
<1>1. ReadInv /\ [ReadNext]_allVars =>
        [\A l \in Location, i \in Id :
           LET a == RecordAt(l, i)
               b == RecordAt(l, i)'
           IN /\ a # None => b # None /\ SameGrant(a, b)
              /\ Revoked(a) => b = a]_vars
  <2>. SUFFICES ASSUME ReadInv, [ReadNext]_allVars, NEW l \in Location, NEW i \in Id
                PROVE  LET a == RecordAt(l, i)
                           b == RecordAt(l, i)'
                       IN /\ a # None => b # None /\ SameGrant(a, b)
                          /\ Revoked(a) => b = a
    OBVIOUS
  <2>1. CASE [Next]_vars
    BY <2>1, IrreversibleStep DEF ReadInv
  <2>2. CASE UNCHANGED assignments
    BY <2>2 DEF RecordAt, SameGrant
  <2>. QED  BY <2>1, <2>2, MutationOrRead
<1>. QED  BY <1>1, ReadInvariance, PTL DEF ReadSpec, LifecycleIrreversible

\* Beside them a tuple is handed on by way of a revocation only.
THEOREM TuplesStayHandedOver == ReadSpec => TupleHandover
<1>1. ReadInv /\ [ReadNext]_allVars =>
        [\A l \in Location, r \in Role, i \in Id :
           guards[l][r].occupant = i /\ guards'[l][r].occupant # i =>
             guards'[l][r].occupant = None /\ Revoked(RecordAt(l, i)')]_vars
  <2>. SUFFICES ASSUME ReadInv, [ReadNext]_allVars,
                       NEW l \in Location, NEW r \in Role, NEW i \in Id,
                       guards[l][r].occupant = i, guards'[l][r].occupant # i
                PROVE  guards'[l][r].occupant = None /\ Revoked(RecordAt(l, i)')
    OBVIOUS
  <2>1. [Next]_vars
    BY MutationOrRead
  <2>. QED  BY <2>1, HandoverStep DEF ReadInv
<1>. QED  BY <1>1, ReadInvariance, PTL DEF ReadSpec, TupleHandover
=============================================================================
