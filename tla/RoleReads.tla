------------------------------ MODULE RoleReads ------------------------------
(***************************************************************************)
(* The reads of the role store, beside the grants and revokes of RoleStore.*)
(* No read is a snapshot: a listing gathers its rows while others write,   *)
(* confirms each one by its exact key, and the by-role read then follows   *)
(* every candidate to its lifecycle record.  The store may hold grants of  *)
(* an earlier release, which wrote no holder row; the rebuild adds them.   *)
(***************************************************************************)
EXTENDS RoleStore, FiniteSets

CONSTANTS Reader,     \* concurrent reads, one call each
          OldId,      \* ids an earlier release may have granted
          Op          \* the reads an instance asks for, of those below

VARIABLES
    ask,      \* what each reader asked
    step,     \* the next step of its call
    listed,   \* the rows of a listing, None where it saw none
    left,     \* rows still to be confirmed, then candidates still to be followed
    located,  \* pointers read and still to be followed
    found,    \* records read so far
    recorded, \* holder rows the rebuild has written so far
    result,   \* what the call answered
    began     \* history: lifecycles as the call began, and for a call by role the
              \* ids indexed by role

progress == <<step, listed, left, located, found, recorded, result>>
call     == <<ask, began>>
readVars == <<progress, call>>
allVars  == <<vars, readVars>>

-----------------------------------------------------------------------------
\* What can be asked.

RecordListings == {"active", "history"}
PointReads     == {"get", "audit"}

Ask == [op : Op \cap RecordListings, loc : Location]
         \cup [op : Op \cap {"byrole"}, scope : Scope, role : Role]
         \cup [op : Op \cap {"rebuild"}]
         \cup [op : Op \cap PointReads, id : Id]

\* A store is only ever asked about finitely many ids, and null is no question.
ASSUME ReadsAssumption ==
    /\ OldId \subseteq Id /\ IsFiniteSet(Id)
    /\ Op \subseteq RecordListings \cup PointReads \cup {"byrole", "rebuild"}
    /\ None \notin Ask

Result == [status : {"ok", "changed", "corrupt"},
           records : SUBSET (Id \X Assignment),
           events : Seq(Event), recorded : Nat]

\* The rows of one record partition: assignments, tuple guards, audit events.
RecordKeys == ({"assignment", "granted", "revoked"} \X Id)
                \cup ({"tuple"} \X Role)

RecordRow(l, k) ==
    CASE k[1] = "assignment" -> RecordAt(l, k[2])
      [] k[1] = "tuple" -> IF guards[l][k[2]].version = 0 THEN None
                           ELSE <<guards[l][k[2]].occupant>>
      [] k[1] = "granted" -> audit[l][k[2]][1]
      [] k[1] = "revoked" -> audit[l][k[2]][2]

RecordRows(l) == [k \in RecordKeys |-> RecordRow(l, k)]

\* The rows of the partition a listing reads, as they are now.
View(a) ==
    CASE a.op \in RecordListings -> RecordRows(a.loc)
      [] a.op = "byrole"  -> holders[a.scope][a.role]
      [] a.op = "rebuild" -> pointers

Present(rows) == {k \in DOMAIN rows : rows[k] # None}

\* Ids the by-role index knows at their one location.
Indexed ==
    {i \in Id : LET p == pointers[i] IN
                p # None /\ holders[p.loc.scope][p.role][i] = p.loc.principal}

-----------------------------------------------------------------------------
\* Initial states: a store to which an earlier release granted some of OldId.

Legacy(old, g) ==
    /\ pointers = [i \in Id |-> IF i \in old THEN TargetOf(g[i]) ELSE None]
    /\ holders = [s \in Scope |-> [q \in Role |-> [i \in Id |-> None]]]
    /\ assignments = [l \in Location |-> [i \in Id |->
         IF i \in old /\ g[i].loc = l
         THEN [version |-> 1, value |-> GrantedForm(g[i])] ELSE NoAssignment]]
    /\ guards = [l \in Location |-> [q \in Role |->
         LET held == {i \in old : g[i].loc = l /\ g[i].role = q}
         IN IF held = {} THEN NoGuard
            ELSE [version |-> 1, occupant |-> CHOOSE i \in held : TRUE]]]
    /\ audit = [l \in Location |-> [i \in Id |-> [q \in 1..2 |->
         IF q = 1 /\ i \in old /\ g[i].loc = l THEN g[i].event ELSE None]]]

NothingLocated == [i \in Id |-> None]

ReadInit ==
    /\ \E old \in SUBSET OldId : \E g \in [old -> GrantCommand] :
         /\ \A i, j \in old : g[i].id = i /\ (TargetOf(g[i]) = TargetOf(g[j]) => i = j)
         /\ Legacy(old, g)
    /\ pc = [c \in Client |-> "idle"]
    /\ cmd = [c \in Client |-> None]
    /\ seen = [c \in Client |-> NothingSeen]
    /\ reply = [c \in Client |-> None]
    /\ ask = [r \in Reader |-> None]
    /\ step = [r \in Reader |-> "idle"]
    /\ listed = [r \in Reader |-> None]
    /\ left = [r \in Reader |-> {}]
    /\ located = [r \in Reader |-> NothingLocated]
    /\ found = [r \in Reader |-> {}]
    /\ recorded = [r \in Reader |-> 0]
    /\ result = [r \in Reader |-> None]
    /\ began = [r \in Reader |-> None]

-----------------------------------------------------------------------------
\* Control of one read.

On(r, s, ops) == step[r] = s /\ ask[r].op \in ops

Go(r, s) == step' = [step EXCEPT ![r] = s] /\ UNCHANGED <<recorded, result>>

\* The call is over; what it gathered is dropped.
Settle(r, answer) ==
    /\ step' = [step EXCEPT ![r] = "answered"]
    /\ result' = [result EXCEPT ![r] = answer]
    /\ listed' = [listed EXCEPT ![r] = None]
    /\ left' = [left EXCEPT ![r] = {}]
    /\ located' = [located EXCEPT ![r] = NothingLocated]
    /\ found' = [found EXCEPT ![r] = {}]
    /\ recorded' = [recorded EXCEPT ![r] = 0]

Records(r, s)  == Settle(r, [status |-> "ok", records |-> s, events |-> <<>>,
                             recorded |-> 0])
Events(r, s)   == Settle(r, [status |-> "ok", records |-> {}, events |-> s,
                             recorded |-> 0])
Recorded(r, n) == Settle(r, [status |-> "ok", records |-> {}, events |-> <<>>,
                             recorded |-> n])
Throw(r, why)  == Settle(r, [status |-> why, records |-> {}, events |-> <<>>,
                             recorded |-> 0])

Begin(r) ==
    /\ step[r] = "idle"
    /\ \E a \in Ask :
         /\ ask' = [ask EXCEPT ![r] = a]
         /\ began' = [began EXCEPT ![r] =
              [life |-> LifeOf,
               indexed |-> IF a.op \in {"byrole", "rebuild"} THEN Indexed ELSE {}]]
         /\ \/ /\ a.op \in PointReads
               /\ Go(r, "locate") /\ UNCHANGED listed
            \/ /\ a.op \notin PointReads
               /\ Go(r, "list") /\ listed' = [listed EXCEPT ![r] = View(a)]
    /\ UNCHANGED <<stored, left, located, found>>

\* The caller has the answer, or the call is cut off where it stands.
Leave(r) ==
    /\ step[r] # "idle"
    /\ step' = [step EXCEPT ![r] = "idle"]
    /\ ask' = [ask EXCEPT ![r] = None]
    /\ began' = [began EXCEPT ![r] = None]
    /\ listed' = [listed EXCEPT ![r] = None]
    /\ left' = [left EXCEPT ![r] = {}]
    /\ located' = [located EXCEPT ![r] = NothingLocated]
    /\ found' = [found EXCEPT ![r] = {}]
    /\ recorded' = [recorded EXCEPT ![r] = 0]
    /\ result' = [result EXCEPT ![r] = None]
    /\ UNCHANGED stored

-----------------------------------------------------------------------------
\* Listings.

Assignments(rows) ==
    {<<k[2], rows[k]>> : k \in Present(rows) \cap ({"assignment"} \X Id)}

\* Slips: revoked records are not filtered out, or out of the history too.
SelectedAny(op, rows)    == Assignments(rows)
SelectedActive(op, rows) == {a \in Assignments(rows) : Active(a[2])}

\* The answer of a record listing: every lifecycle, or the active ones.
Selected(op, rows) == {a \in Assignments(rows) : op = "history" \/ Active(a[2])}

\* Slip: the kind of a row is not part of its id.
OwnIdOfAnyKind(rows, k) == k[2]

\* The id a row's own fields give.  Only the record of an assignment carries, in
\* the model, the fields of its key; the others have them in the key alone.
OwnId(rows, k) == IF k[1] = "assignment" THEN <<k[1], rows[k].id>> ELSE k

\* requireLocation: a row that is not of the location asked for.
Elsewhere(a, rows) == \E x \in Assignments(rows) : x[2].loc # a.loc

\* The rows of a listing do not have the keys they give themselves: one belongs
\* to another partition, or two have one id.  A holder or pointer row gives no
\* more than its key, which the Store returns once and in its partition.
Misplaced(a, rows) ==
    /\ a.op \in RecordListings
    /\ \/ Elsewhere(a, rows)
       \/ \E j, k \in Present(rows) : j # k /\ OwnId(rows, j) = OwnId(rows, k)

\* What a listing does once its rows are confirmed: a record listing answers,
\* the others go on with each candidate.
AfterConfirm(r, rows) ==
    LET op == ask[r].op IN
    \/ op \in RecordListings /\ Elsewhere(ask[r], rows) /\ Throw(r, "corrupt")
    \/ /\ op \in RecordListings /\ ~Elsewhere(ask[r], rows)
       /\ Records(r, Selected(op, rows))
    \/ op = "byrole" /\ Present(rows) = {} /\ Records(r, {})
    \/ op = "rebuild" /\ Present(rows) = {} /\ Recorded(r, 0)
    \/ /\ op \notin RecordListings /\ Present(rows) # {}
       /\ Go(r, "follow")
       /\ left' = [left EXCEPT ![r] = Present(rows)]
       /\ listed' = [listed EXCEPT ![r] = rows]
       /\ UNCHANGED <<located, found>>

\* Slips: a row that is still there is not compared; an audit row never
\* compares equal.
SameRowPresent(row, now) == now # None
SameRowNoEvent(row, now) == row = now /\ row \notin Event

\* storedRecordsEqual: the row read by its key is the row the listing returned.
SameRow(row, now) == row = now

\* The listing gathers its rows one by one, in any order, while others write:
\* each is what it was at some instant since the listing began.
ListRow(r) ==
    /\ step[r] = "list"
    /\ \E k \in DOMAIN listed[r] :
         listed' = [listed EXCEPT ![r][k] = View(ask[r])[k]]
    /\ UNCHANGED <<stored, call, step, left, located, found, recorded, result>>

\* All rows are listed; their keys are compared before any is read again.
ListDone(r) ==
    /\ step[r] = "list"
    /\ \/ Misplaced(ask[r], listed[r]) /\ Throw(r, "corrupt")
       \/ /\ ~Misplaced(ask[r], listed[r])
          /\ Present(listed[r]) # {}
          /\ Go(r, "confirm")
          /\ left' = [left EXCEPT ![r] = Present(listed[r])]
          /\ UNCHANGED <<listed, located, found>>
       \/ /\ Present(listed[r]) = {}
          /\ AfterConfirm(r, listed[r])
    /\ UNCHANGED <<stored, call>>

\* One point read of confirmRecordListing, confirmHolderListing or
\* confirmPointerListing, in any order.
Confirm(r) ==
    /\ step[r] = "confirm"
    /\ \E k \in left[r] :
         \/ /\ ~SameRow(listed[r][k], View(ask[r])[k])
            /\ Throw(r, "changed")
         \/ /\ SameRow(listed[r][k], View(ask[r])[k]) /\ left[r] # {k}
            /\ left' = [left EXCEPT ![r] = @ \ {k}]
            /\ UNCHANGED <<step, listed, located, found, recorded, result>>
         \/ /\ SameRow(listed[r][k], View(ask[r])[k]) /\ left[r] = {k}
            /\ AfterConfirm(r, listed[r])
    /\ UNCHANGED <<stored, call>>

-----------------------------------------------------------------------------
\* listActiveRoleAssignmentsByRole: each candidate is followed to its pointer
\* and its record, those of a batch side by side.

\* Slip: candidates whose record is still being read are not waited for.
UnfollowedNext(r, i) == left[r]

\* Candidates still to be followed once i has been.
Unfollowed(r, i) == left[r] \cup (Present(located[r]) \ {i})

Followed(r, i, a) ==
    \/ /\ Unfollowed(r, i) # {}
       /\ found' = [found EXCEPT ![r] = @ \cup a]
       /\ located' = [located EXCEPT ![r][i] = None]
       /\ UNCHANGED <<step, listed, left, recorded, result>>
    \/ Unfollowed(r, i) = {} /\ Records(r, found[r] \cup a)

HolderLocate(r) ==
    /\ step[r] = "follow" /\ ask[r].op = "byrole"
    /\ \E i \in left[r] :
         LET p == pointers[i]
             sound == /\ p # None /\ p.role = ask[r].role
                      /\ p.loc = [principal |-> listed[r][i], scope |-> ask[r].scope]
         IN \/ /\ sound
               /\ left' = [left EXCEPT ![r] = @ \ {i}]
               /\ located' = [located EXCEPT ![r][i] = p]
               /\ UNCHANGED <<step, listed, found, recorded, result>>
            \/ ~sound /\ Throw(r, "corrupt")
    /\ UNCHANGED <<stored, call>>

\* Slip: a candidate with no lifecycle is taken for damage.
SoundRecordPresent(a, i, p) == a # None /\ Agrees(a, i, p)

\* A row whose grant was refused, or is under way, reads as nothing.
SoundRecord(a, i, p) == a # None => Agrees(a, i, p)

\* The candidate holds the role now.
Holds(a) == Active(a)

HolderRead(r) ==
    /\ step[r] = "follow" /\ ask[r].op = "byrole"
    /\ \E i \in Present(located[r]) :
         LET p == located[r][i]
             a == RecordAt(p.loc, i)
         IN \/ ~SoundRecord(a, i, p) /\ Throw(r, "corrupt")
            \/ SoundRecord(a, i, p) /\ Followed(r, i, {x \in {<<i, a>>} : Holds(a)})
    /\ UNCHANGED <<stored, call>>

-----------------------------------------------------------------------------
\* rebuildRoleHolderIndex: each pointer with a record behind it gets its row.

Proceed(r, i, n) ==
    \/ /\ left[r] \ {i} # {}
       /\ step' = [step EXCEPT ![r] = "follow"]
       /\ left' = [left EXCEPT ![r] = @ \ {i}]
       /\ located' = [located EXCEPT ![r] = NothingLocated]
       /\ recorded' = [recorded EXCEPT ![r] = n]
       /\ UNCHANGED <<listed, found, result>>
    \/ left[r] \ {i} = {} /\ Recorded(r, n)

\* Slip: an assignment that is no longer active gets no row.
GrantedActive(a) == Active(a)

\* The pointer's grant took effect, at whatever time and whatever came of it.
Granted(a) == a # None

RebuildRead(r) ==
    /\ step[r] = "follow" /\ ask[r].op = "rebuild"
    /\ \E i \in left[r] :
         LET p == listed[r][i]
             a == RecordAt(p.loc, i)
         IN \/ a # None /\ ~Agrees(a, i, p) /\ Throw(r, "corrupt")
            \/ /\ Granted(a) /\ Agrees(a, i, p)
               /\ Go(r, "insert")
               /\ located' = [located EXCEPT ![r][i] = p]
               /\ UNCHANGED <<listed, left, found>>
            \/ ~Granted(a) /\ Proceed(r, i, recorded[r])
    /\ UNCHANGED <<stored, call>>

\* holders.insertIfAbsent, then requireHolderKey on the row that is there.
RebuildInsert(r) ==
    /\ step[r] = "insert"
    /\ \E i \in Present(located[r]) :
         LET p == located[r][i]
             h == holders[p.loc.scope][p.role][i]
         IN \/ /\ h = None
               /\ holders' = [holders EXCEPT
                                ![p.loc.scope][p.role][i] = p.loc.principal]
               /\ Proceed(r, i, recorded[r] + 1)
            \/ /\ h = p.loc.principal
               /\ Proceed(r, i, recorded[r]) /\ UNCHANGED holders
            \/ /\ h \notin {None, p.loc.principal}
               /\ Throw(r, "corrupt") /\ UNCHANGED holders
    /\ UNCHANGED <<pointers, assignments, guards, audit, call>>

-----------------------------------------------------------------------------
\* getRoleAssignment and listRoleAssignmentAuditEvents.

Nothing(r) == \/ ask[r].op = "get" /\ Records(r, {})
              \/ ask[r].op = "audit" /\ Events(r, <<>>)

Locate(r) ==
    /\ step[r] = "locate"
    /\ LET i == ask[r].id
           p == pointers[i]
       IN \/ p = None /\ Nothing(r)
          \/ /\ p # None
             /\ located' = [located EXCEPT ![r][i] = p]
             /\ Go(r, "record")
             /\ UNCHANGED <<listed, left, found>>
    /\ UNCHANGED <<stored, call>>

ReadRecord(r) ==
    /\ step[r] = "record"
    /\ LET i == ask[r].id
           p == located[r][i]
           a == RecordAt(p.loc, i)
       IN \/ a # None /\ ~Agrees(a, i, p) /\ Throw(r, "corrupt")
          \/ ask[r].op = "get" /\ SoundRecord(a, i, p)
             /\ Records(r, {<<i, a>>} \cap (Id \X Assignment))
          \/ /\ ask[r].op = "audit" /\ a = None
             /\ Go(r, "orphans")
             /\ UNCHANGED <<listed, left, located, found>>
          \/ /\ ask[r].op = "audit" /\ a # None /\ Agrees(a, i, p)
             /\ Go(r, "granted")
             /\ found' = [found EXCEPT ![r] = {<<i, a>>}]
             /\ UNCHANGED <<listed, left, located>>
    /\ UNCHANGED <<stored, call>>

\* No record was read: the partition is listed, and no audit row may be there.
AuditOrphans(r) ==
    /\ step[r] = "orphans"
    /\ LET i == ask[r].id
           rows == Rows(located[r][i].loc, i)
       IN \/ rows # <<>> /\ Throw(r, "corrupt")
          \/ rows = <<>> /\ Events(r, <<>>)
    /\ UNCHANGED <<stored, call>>

AuditGranted(r) ==
    /\ step[r] = "granted"
    /\ LET i == ask[r].id
           a == (CHOOSE x \in found[r] : TRUE)[2]
       IN \/ /\ audit[located[r][i].loc][i][1] # a.grantEvent
             /\ Throw(r, "corrupt")
          \/ /\ audit[located[r][i].loc][i][1] = a.grantEvent
             /\ Go(r, "revoked")
             /\ UNCHANGED <<listed, left, located, found>>
    /\ UNCHANGED <<stored, call>>

\* Slip: the history of a revoked assignment stops at the grant.
HistoryOfGrant(a) == <<a.grantEvent>>

\* The events derived from the record read.
HistoryFrom(a) == <<a.grantEvent>> \o (IF Active(a) THEN <<>> ELSE <<a.revocation.event>>)

AuditRevoked(r) ==
    /\ step[r] = "revoked"
    /\ LET i == ask[r].id
           a == (CHOOSE x \in found[r] : TRUE)[2]
           position == audit[located[r][i].loc][i][2]
           expected == IF Active(a) THEN None ELSE a.revocation.event
       IN \/ position # expected /\ Throw(r, "corrupt")
          \/ position = expected /\ Events(r, HistoryFrom(a))
    /\ UNCHANGED <<stored, call>>

-----------------------------------------------------------------------------
ReadStep(r) ==
    \/ ListRow(r) \/ ListDone(r) \/ Confirm(r)
    \/ HolderLocate(r) \/ HolderRead(r)
    \/ RebuildRead(r) \/ RebuildInsert(r)
    \/ Locate(r) \/ ReadRecord(r)
    \/ AuditOrphans(r) \/ AuditGranted(r) \/ AuditRevoked(r)

ReadNext ==
    \/ Next /\ UNCHANGED readVars
    \/ /\ \E r \in Reader : Begin(r) \/ ReadStep(r) \/ Leave(r)
       /\ UNCHANGED <<pc, cmd, seen, reply>>

ReadSpec == ReadInit /\ [][ReadNext]_allVars

-----------------------------------------------------------------------------
\* What answers mean.

Answered(r, ops) == step[r] = "answered" /\ ask[r].op \in ops
Ok(r, ops)       == Answered(r, ops) /\ result[r].status = "ok"

\* The lifecycles of a call's selection: what it asked for.
Asked(a, x) ==
    CASE a.op \in RecordListings -> x.loc = a.loc
      [] a.op = "byrole" -> x.loc.scope = a.scope /\ x.role = a.role

ReadTypeOK ==
    /\ ask \in [Reader -> Ask \cup {None}]
    /\ \A r \in Reader :
         /\ step[r] \in {"idle", "list", "confirm", "follow", "insert", "locate",
                         "record", "orphans", "granted", "revoked", "answered"}
         /\ step[r] = "idle" <=> ask[r] = None
         /\ step[r] \in {"granted", "revoked"} => Cardinality(found[r]) = 1
         /\ step[r] = "answered" => result[r] \in Result
         /\ left[r] \subseteq RecordKeys \cup Id
         /\ located[r] \in [Id -> Pointer \cup {None}]
         /\ found[r] \subseteq Id \X Assignment

\* A revocation is never unseen: an assignment a read reports as active was
\* active at some instant since that read began, so one revoked before the
\* read began, by any caller, is not in its answer.
RevokedBeforeIsAbsent ==
    \A r \in Reader : Ok(r, {"active", "byrole"}) =>
      \A x \in result[r].records :
        /\ Active(x[2]) /\ SameGrant(x[2], LifeOf[x[1]])
        /\ ~Revoked(began[r].life[x[1]])

\* An active listing misses nothing that was active throughout: an assignment
\* active as the read began and still active at its answer is in it.  By role
\* this needs the holder row, which only grants of an earlier release lack.
ActiveThroughoutIsReported ==
    \A r \in Reader : Ok(r, {"active", "byrole"}) =>
      \A i \in Id :
        LET a == LifeOf[i] IN
        (/\ Active(began[r].life[i]) /\ Active(a) /\ Asked(ask[r], a)
         /\ ask[r].op = "byrole" => i \in began[r].indexed)
        => <<i, a>> \in result[r].records

\* A listing of active assignments never shows one role twice, however a tuple
\* is handed over while it runs: all rows are confirmed after all are listed.
RoleReportedOnce ==
    \A r \in Reader : Ok(r, {"active"}) =>
      \A x, y \in result[r].records : x[2].role = y[2].role => x = y

\* The complete history of a principal and scope has every lifecycle granted
\* before the read began, each in a state it had since.
HistoryIsComplete ==
    \A r \in Reader : Ok(r, {"history"}) =>
      \A i \in Id :
        LET was == began[r].life[i] IN
        was # None /\ Asked(ask[r], was) =>
          \E a \in {was, LifeOf[i]} : <<i, a>> \in result[r].records

\* The answer to a read by id is what the id was at some instant of the call,
\* and its audit history is that of one such instant: never a torn pair.
PointReadIsCurrent ==
    \A r \in Reader : Ok(r, PointReads) =>
      LET was == began[r].life[ask[r].id]
          now == LifeOf[ask[r].id]
          between == {was, now} \cup
                     (IF was = None /\ now # None
                      THEN {[now EXCEPT !.revocation = None]} ELSE {})
      IN /\ ask[r].op = "get" =>
              \E a \in between :
                result[r].records = IF a = None THEN {} ELSE {<<ask[r].id, a>>}
         /\ ask[r].op = "audit" =>
              \E a \in between :
                result[r].events = IF a = None THEN <<>> ELSE
                  <<a.grantEvent>> \o (IF Active(a) THEN <<>>
                                       ELSE <<a.revocation.event>>)

\* A listing asks to be retried only because a lifecycle of its partition moved
\* while it ran: a quiet partition is never refused, nor is the by-role index,
\* whose rows do not change.
RetryIsEarned ==
    \A r \in Reader :
      step[r] = "answered" /\ result[r].status = "changed" =>
        /\ ask[r].op \in RecordListings
        /\ \E i \in Id : /\ LifeOf[i] # began[r].life[i]
                         /\ LifeOf[i].loc = ask[r].loc

\* A rebuild leaves no lifecycle out of the by-role index, granted by whatever
\* release before it began or live while it ran, and counts only rows that were
\* missing.
RebuildCovers ==
    \A r \in Reader : Ok(r, {"rebuild"}) =>
      /\ \A i \in Id : LifeOf[i] # None => i \in Indexed
      /\ result[r].recorded <=
           Cardinality({i \in Id : began[r].life[i] # None} \ began[r].indexed)

\* Every row is where its own fields say, and each id has one, so a listing, the
\* by-role read, the rebuild and the read by id never mistake a grant that is
\* under way, refused, cut off or revoked meanwhile for a damaged store.
ListingsNeverCorrupt ==
    \A r \in Reader :
      Answered(r, {"active", "history", "byrole", "rebuild", "get"}) =>
        result[r].status # "corrupt"

-----------------------------------------------------------------------------
\* What the repository says of the program and the code does not do.

\* role-store.ts: an error that says "authorization storage holds a corrupt
\* record" is thrown of a store that does.  Here every audit row matches its
\* lifecycle at every instant.
CorruptMeansCorrupt ==
    \A r \in Reader :
      AuditMatchesLifecycle /\ Answered(r, {"audit"}) =>
        result[r].status # "corrupt"
=============================================================================
