------------------------------ MODULE RoleStore ------------------------------
(***************************************************************************)
(* The role store createRoleStore binds to one Store: audited grants and   *)
(* revokes as the code runs them, one Store operation at a time.  Every    *)
(* await is a step boundary, so any number of calls interleave there, in   *)
(* one process or many; a call may be cut off at any of them (the Store    *)
(* operation rejects, the process dies, the answer is lost) and be made    *)
(* again.  The Store is external: a get, an insertIfAbsent and a           *)
(* single-partition transact are each one atomic step.                     *)
(***************************************************************************)
EXTENDS RoleRecords, Sequences

CONSTANT Client       \* concurrent callers, each with one call in flight

VARIABLES
    pointers,    \* authorization_assignment_pointers: id -> Pointer
    holders,     \* authorization_role_holders: scope, role, id -> principal
    assignments, \* authorization_records, assignment|id: partition, id -> record
    guards,      \* authorization_records, tuple|role: partition, role -> record
    audit,       \* authorization_records, audit|id|seq: partition, id, seq -> event
    pc,          \* the next step of each client's call
    cmd,         \* the command of the call
    seen,        \* what the call has read and still uses
    reply        \* what the call answered

stored == <<pointers, holders, assignments, guards, audit>>
vars   == <<stored, pc, cmd, seen, reply>>

-----------------------------------------------------------------------------
\* Records.  Each has the version the Store gives it; 0 is an absent record.

Versioned == [version : Nat, value : Assignment \cup {None}]
Guard     == [version : Nat, occupant : Id \cup {None}]

NoAssignment == [version |-> 0, value |-> None]
NoGuard      == [version |-> 0, occupant |-> None]

GrantCommand  == [op : {"grant"}, id : Id, loc : Location, role : Role,
                  event : Event, at : Time]
RevokeCommand == [op : {"revoke"}, id : Id, token : Nat,
                  by : Actor, at : Time, event : Event]

Seen  == [pointer : Pointer \cup {None}, existing : Versioned, guard : Guard]
Reply == [status : {"granted", "revoked", "unchanged", "not_found",
                    "conflict", "corrupt"},
          reason : {"none", "assignment_id", "active_tuple", "event_id",
                    "concurrency", "lifecycle"},
          value : Assignment \cup {None}]

NothingSeen == [pointer |-> None, existing |-> NoAssignment, guard |-> NoGuard]

GrantSteps  == {"g_pointer", "g_holder", "g_guard", "g_existing",
                "g_transact", "g_landed", "g_written"}
RevokeSteps == {"r_locate", "r_existing", "r_guard", "r_transact", "r_written"}

Init ==
    /\ pointers = [i \in Id |-> None]
    /\ holders = [s \in Scope |-> [r \in Role |-> [i \in Id |-> None]]]
    /\ assignments = [l \in Location |-> [i \in Id |-> NoAssignment]]
    /\ guards = [l \in Location |-> [r \in Role |-> NoGuard]]
    /\ audit = [l \in Location |-> [i \in Id |-> [q \in 1..2 |-> None]]]
    /\ pc = [c \in Client |-> "idle"]
    /\ cmd = [c \in Client |-> None]
    /\ seen = [c \in Client |-> NothingSeen]
    /\ reply = [c \in Client |-> None]

-----------------------------------------------------------------------------
\* Control of one call.

At(c, step) == pc[c] = step

Goto(c, step) == /\ pc' = [pc EXCEPT ![c] = step]
                 /\ UNCHANGED <<cmd, reply>>

Answer(c, status, reason, value) ==
    /\ pc' = [pc EXCEPT ![c] = "replied"]
    /\ reply' = [reply EXCEPT ![c] = [status |-> status, reason |-> reason,
                                      value |-> value]]
    /\ seen' = [seen EXCEPT ![c] = NothingSeen]
    /\ UNCHANGED cmd

Conflict(c, reason) == Answer(c, "conflict", reason, None)
Corrupt(c)          == Answer(c, "corrupt", "none", None)

Start(c, command, step) ==
    /\ At(c, "idle")
    /\ pc' = [pc EXCEPT ![c] = step]
    /\ cmd' = [cmd EXCEPT ![c] = command]
    /\ UNCHANGED <<stored, seen, reply>>

Forget(c) ==
    /\ pc' = [pc EXCEPT ![c] = "idle"]
    /\ cmd' = [cmd EXCEPT ![c] = None]
    /\ seen' = [seen EXCEPT ![c] = NothingSeen]
    /\ reply' = [reply EXCEPT ![c] = None]
    /\ UNCHANGED stored

\* The caller takes the answer.
Return(c) == At(c, "replied") /\ Forget(c)

\* The call is cut off: a Store operation rejects or the process dies.  What
\* earlier steps wrote stays; the caller cannot tell how far the call came.
Abandon(c) == pc[c] \in GrantSteps \cup RevokeSteps /\ Forget(c)

-----------------------------------------------------------------------------
\* grantRoleAssignmentWithAudit

StartGrant(c) == \E g \in GrantCommand : Start(c, g, "g_pointer")

TargetOf(g) == [loc |-> g.loc, role |-> g.role]

\* Slips: the principal, or the role, left out of the comparison.
PointsElsewhereAnyPrincipal(p, g) == p.loc.scope # g.loc.scope \/ p.role # g.role
PointsElsewhereAnyRole(p, g) == p.loc # g.loc

\* A pointer already there describes something other than this grant.
PointsElsewhere(p, g) == p # TargetOf(g)

\* pointers.insertIfAbsent, then pointsElsewhere on the row that is there.
GrantPointer(c) ==
    LET g == cmd[c]
        p == pointers[g.id]
    IN /\ At(c, "g_pointer")
       /\ \/ /\ p = None
             /\ pointers' = [pointers EXCEPT ![g.id] = TargetOf(g)]
             /\ Goto(c, "g_holder") /\ UNCHANGED seen
          \/ /\ p # None /\ ~PointsElsewhere(p, g)
             /\ Goto(c, "g_holder") /\ UNCHANGED <<pointers, seen>>
          \/ /\ p # None /\ PointsElsewhere(p, g)
             /\ Conflict(c, "assignment_id") /\ UNCHANGED pointers
       /\ UNCHANGED <<holders, assignments, guards, audit>>

\* holders.insertIfAbsent, then requireHolderKey on the row that is there.
GrantHolder(c) ==
    LET g == cmd[c]
        h == holders[g.loc.scope][g.role][g.id]
    IN /\ At(c, "g_holder")
       /\ \/ /\ h = None
             /\ holders' = [holders EXCEPT
                              ![g.loc.scope][g.role][g.id] = g.loc.principal]
             /\ Goto(c, "g_guard") /\ UNCHANGED seen
          \/ /\ h = g.loc.principal
             /\ Goto(c, "g_guard") /\ UNCHANGED <<holders, seen>>
          \/ /\ h \notin {None, g.loc.principal}
             /\ Corrupt(c) /\ UNCHANGED holders
       /\ UNCHANGED <<pointers, assignments, guards, audit>>

\* The tuple guard is held by another assignment id.
HeldByOther(g, guard) == guard.occupant \notin {None, g.id}

GrantGuard(c) ==
    LET g == cmd[c]
        guard == guards[g.loc][g.role]
    IN /\ At(c, "g_guard")
       /\ \/ /\ HeldByOther(g, guard)
             /\ Conflict(c, "active_tuple")
          \/ /\ ~HeldByOther(g, guard)
             /\ seen' = [seen EXCEPT ![c].guard = guard]
             /\ Goto(c, "g_existing")
       /\ UNCHANGED stored

\* requireAssignment: the record found is the one asked for.
Agrees(a, i, p) == a.id = i /\ a.loc = p.loc /\ a.role = p.role

\* Slip: any grant under the id counts as a replay.
IsReplayById(found, g) == TRUE

\* The record found was made by this very grant.
IsReplay(found, g) == found.grantEvent = g.event

\* Decide from a record found under the id: an exact replay is unchanged, and
\* another event id is refused with the reason.
SettleFound(c, found, reason) ==
    LET g == cmd[c] IN
    \/ ~Agrees(found, g.id, TargetOf(g)) /\ Corrupt(c)
    \/ /\ Agrees(found, g.id, TargetOf(g)) /\ IsReplay(found, g)
       /\ Answer(c, "unchanged", "none", found)
    \/ /\ Agrees(found, g.id, TargetOf(g)) /\ ~IsReplay(found, g)
       /\ Conflict(c, reason)

\* Slip: the record is not looked for, the insert is left to find it.
GrantExistingSkipped(c) ==
    /\ At(c, "g_existing") /\ Goto(c, "g_transact") /\ UNCHANGED <<stored, seen>>

\* The lifecycle may exist already, whatever the guard said.
GrantExisting(c) ==
    LET found == assignments[cmd[c].loc][cmd[c].id].value
    IN /\ At(c, "g_existing")
       /\ \/ found # None /\ SettleFound(c, found, "event_id")
          \/ found = None /\ Goto(c, "g_transact") /\ UNCHANGED seen
       /\ UNCHANGED stored

\* Slip: the guard is put without its precondition.
GrantFailuresUnguarded(c) ==
    LET g == cmd[c]
    IN {why \in {"exists"} : \/ assignments[g.loc][g.id].version # 0
                             \/ audit[g.loc][g.id][1] # None}

\* The preconditions of the grant transaction that do not hold, by the reason
\* the Store would give: two inserts, and the guard inserted if none was read,
\* otherwise put only at the version read.
GrantFailures(c) ==
    LET g == cmd[c]
        now == guards[g.loc][g.role]
        read == seen[c].guard
    IN {why \in {"exists", "changed"} :
          \/ why = "exists" /\ assignments[g.loc][g.id].version # 0
          \/ why = "exists" /\ read.version = 0 /\ now.version # 0
          \/ why = "exists" /\ audit[g.loc][g.id][1] # None
          \/ why = "changed" /\ read.version # 0 /\ now.version # read.version}

GrantedForm(g) == [id |-> g.id, loc |-> g.loc, role |-> g.role,
                   grantEvent |-> g.event, grantedAt |-> g.at,
                   revocation |-> None]

GrantCommit(c) ==
    LET g == cmd[c]
    IN /\ At(c, "g_transact")
       /\ GrantFailures(c) = {}
       /\ assignments' = [assignments EXCEPT
                            ![g.loc][g.id] = [version |-> 1,
                                              value |-> GrantedForm(g)]]
       /\ guards' = [guards EXCEPT
                       ![g.loc][g.role] = [version |-> @.version + 1,
                                           occupant |-> g.id]]
       /\ audit' = [audit EXCEPT ![g.loc][g.id][1] = g.event]
       /\ Goto(c, "g_written")
       /\ UNCHANGED <<pointers, holders, seen>>

\* Slip: only one of the reasons is handled.
GrantRefusedChangedOnly(c) ==
    /\ At(c, "g_transact")
    /\ "changed" \in GrantFailures(c) /\ Conflict(c, "active_tuple")
    /\ UNCHANGED stored

\* The Store refuses and names one failed precondition, whichever it likes.
GrantRefused(c) ==
    /\ At(c, "g_transact")
    /\ \/ "changed" \in GrantFailures(c) /\ Conflict(c, "active_tuple")
       \/ "exists" \in GrantFailures(c) /\ Goto(c, "g_landed") /\ UNCHANGED seen
    /\ UNCHANGED stored

\* After an "exists" refusal: decide from the record that landed.
GrantLanded(c) ==
    LET found == assignments[cmd[c].loc][cmd[c].id].value
    IN /\ At(c, "g_landed")
       /\ \/ found # None /\ SettleFound(c, found, "assignment_id")
          \/ found = None /\ Conflict(c, "active_tuple")
       /\ UNCHANGED stored

\* After the commit: answer with whatever record is there by now.
GrantWritten(c) ==
    LET g == cmd[c]
        found == assignments[g.loc][g.id].value
    IN /\ At(c, "g_written")
       /\ \/ /\ found = None \/ ~Agrees(found, g.id, TargetOf(g))
             /\ Corrupt(c)
          \/ /\ found # None /\ Agrees(found, g.id, TargetOf(g))
             /\ Answer(c, "granted", "none", found)
       /\ UNCHANGED stored

-----------------------------------------------------------------------------
\* revokeRoleAssignmentWithAudit

\* A caller holds a token some read of this record gave it (0: of no record).
TokensHeld(i) ==
    {0} \cup UNION {1..assignments[l][i].version : l \in Location}

StartRevoke(c) ==
    \E i \in Id, by \in Actor, at \in Time, event \in Event :
      \E token \in TokensHeld(i) :
        Start(c, [op |-> "revoke", id |-> i, token |-> token, by |-> by,
                  at |-> at, event |-> event], "r_locate")

RevokeLocate(c) ==
    LET p == pointers[cmd[c].id]
    IN /\ At(c, "r_locate")
       /\ \/ p = None /\ Answer(c, "not_found", "none", None)
          \/ /\ p # None
             /\ seen' = [seen EXCEPT ![c].pointer = p]
             /\ Goto(c, "r_existing")
       /\ UNCHANGED stored

EvidenceOf(r) == [event |-> r.event, by |-> r.by, at |-> r.at]

\* Slips: only the instant is compared; the token, the grant's instant are not.
IsCompletedByInstant(found, r) == found.revocation.at = r.at
StaleTokenNever(version, r) == FALSE
BeforeGrantNever(found, r) == FALSE

\* The completed revocation is this very command.
IsCompleted(found, r) == found.revocation = EvidenceOf(r)

\* The token is of another version than the one read.
StaleToken(version, r) == version # r.token

\* A revocation may not be earlier than its own grant.
BeforeGrant(found, r) == r.at < found.grantedAt

\* readAssignment under the pointer, then the early returns in the code's order.
RevokeExisting(c) ==
    LET r == cmd[c]
        p == seen[c].pointer
        read == assignments[p.loc][r.id]
        found == read.value
        sound == found # None /\ Agrees(found, r.id, p)
    IN /\ At(c, "r_existing")
       /\ \/ found = None /\ Answer(c, "not_found", "none", None)
          \/ found # None /\ ~sound /\ Corrupt(c)
          \/ /\ sound /\ Revoked(found) /\ IsCompleted(found, r)
             /\ Answer(c, "unchanged", "none", found)
          \/ /\ sound /\ Revoked(found) /\ ~IsCompleted(found, r)
             /\ Conflict(c, "lifecycle")
          \/ /\ sound /\ Active(found) /\ StaleToken(read.version, r)
             /\ Conflict(c, "concurrency")
          \/ /\ sound /\ Active(found) /\ ~StaleToken(read.version, r)
             /\ BeforeGrant(found, r)
             /\ Conflict(c, "lifecycle")
          \/ /\ sound /\ Active(found) /\ ~StaleToken(read.version, r)
             /\ ~BeforeGrant(found, r)
             /\ seen' = [seen EXCEPT ![c].existing = read]
             /\ Goto(c, "r_guard")
       /\ UNCHANGED stored

RevokeGuard(c) ==
    LET p == seen[c].pointer
        guard == guards[p.loc][seen[c].existing.value.role]
    IN /\ At(c, "r_guard")
       /\ \/ guard.version = 0 /\ Corrupt(c)
          \/ /\ guard.version # 0
             /\ seen' = [seen EXCEPT ![c].guard = guard]
             /\ Goto(c, "r_transact")
       /\ UNCHANGED stored

\* Slip: the records are put unconditionally.
RevokeFailuresNone(c) == {}

\* The preconditions of the revoke transaction that do not hold.
RevokeFailures(c) ==
    LET i == cmd[c].id
        l == seen[c].pointer.loc
        role == seen[c].existing.value.role
    IN {why \in {"exists", "changed"} :
          \/ why = "changed" /\ assignments[l][i].version # seen[c].existing.version
          \/ why = "changed" /\ guards[l][role].version # seen[c].guard.version
          \/ why = "exists" /\ audit[l][i][2] # None}

\* Slips: the tuple is not retired; the grant's event id is kept for the revoke.
GuardAfterRevokeKept(i, occupant) == occupant
RevokedFormGrantEvent(was, r) ==
    [was EXCEPT !.revocation = [EvidenceOf(r) EXCEPT !.event = was.grantEvent]]

\* The guard the transaction writes: retired if this id holds it.
GuardAfterRevoke(i, occupant) == IF occupant = i THEN None ELSE occupant

\* The record the transaction writes: what was read, with the evidence added.
RevokedForm(was, r) == [was EXCEPT !.revocation = EvidenceOf(r)]

RevokeCommit(c) ==
    LET r == cmd[c]
        l == seen[c].pointer.loc
        was == seen[c].existing
    IN /\ At(c, "r_transact")
       /\ RevokeFailures(c) = {}
       /\ assignments' = [assignments EXCEPT
                            ![l][r.id] = [version |-> @.version + 1,
                                          value |-> RevokedForm(was.value, r)]]
       /\ guards' = [guards EXCEPT
                       ![l][was.value.role] =
                           [version |-> @.version + 1,
                            occupant |-> GuardAfterRevoke(r.id, seen[c].guard.occupant)]]
       /\ audit' = [audit EXCEPT ![l][r.id][2] = r.event]
       /\ Goto(c, "r_written")
       /\ UNCHANGED <<pointers, holders, seen>>

RevokeRefused(c) ==
    /\ At(c, "r_transact")
    /\ \/ "changed" \in RevokeFailures(c) /\ Conflict(c, "concurrency")
       \/ "exists" \in RevokeFailures(c) /\ Conflict(c, "event_id")
    /\ UNCHANGED stored

\* After the commit: the record read back must still carry a revoke event.
RevokeWritten(c) ==
    LET p == seen[c].pointer
        found == assignments[p.loc][cmd[c].id].value
    IN /\ At(c, "r_written")
       /\ \/ /\ ~Revoked(found) \/ ~Agrees(found, cmd[c].id, p)
             /\ Corrupt(c)
          \/ /\ Revoked(found) /\ Agrees(found, cmd[c].id, p)
             /\ Answer(c, "revoked", "none", found)
       /\ UNCHANGED stored

-----------------------------------------------------------------------------
GrantStep(c) ==
    \/ GrantPointer(c) \/ GrantHolder(c) \/ GrantGuard(c) \/ GrantExisting(c)
    \/ GrantCommit(c) \/ GrantRefused(c) \/ GrantLanded(c) \/ GrantWritten(c)

RevokeStep(c) ==
    \/ RevokeLocate(c) \/ RevokeExisting(c) \/ RevokeGuard(c)
    \/ RevokeCommit(c) \/ RevokeRefused(c) \/ RevokeWritten(c)

Next == \E c \in Client :
          \/ StartGrant(c) \/ StartRevoke(c)
          \/ GrantStep(c) \/ RevokeStep(c)
          \/ Return(c) \/ Abandon(c)

Spec == Init /\ [][Next]_vars

\* Every Store operation settles, so a call in flight takes its next step; no
\* caller is bound to begin a call, or to come back for its answer.
FairSpec == Spec /\ \A c \in Client : WF_vars(GrantStep(c) \/ RevokeStep(c))

-----------------------------------------------------------------------------
\* The abstract store: each id's lifecycle is the one its pointer locates, and
\* its history the audit rows in its partition, in sequence order.

RecordAt(l, i) == assignments[l][i].value

LifeOf == [i \in Id |-> IF pointers[i] = None THEN None
                                             ELSE RecordAt(pointers[i].loc, i)]

Row(e)     == IF e = None THEN <<>> ELSE <<e>>
Rows(l, i) == Row(audit[l][i][1]) \o Row(audit[l][i][2])

HistoryOf == [i \in Id |-> IF pointers[i] = None THEN <<>>
                                                ELSE Rows(pointers[i].loc, i)]

Abstract == INSTANCE RoleLifecycle WITH life <- LifeOf, history <- HistoryOf

\* Every audited grant and revoke takes effect in one indivisible step, with
\* its audit event, whatever the interleaving (STORAGE.md, Atomicity boundary).
RefinesLifecycle == Abstract!Spec

-----------------------------------------------------------------------------
\* Safety.

TypeOK ==
    /\ pointers \in [Id -> Pointer \cup {None}]
    /\ holders \in [Scope -> [Role -> [Id -> Principal \cup {None}]]]
    /\ assignments \in [Location -> [Id -> Versioned]]
    /\ guards \in [Location -> [Role -> Guard]]
    /\ audit \in [Location -> [Id -> [1..2 -> Event \cup {None}]]]
    /\ pc \in [Client -> {"idle", "replied"} \cup GrantSteps \cup RevokeSteps]
    /\ cmd \in [Client -> GrantCommand \cup RevokeCommand \cup {None}]
    /\ seen \in [Client -> Seen]
    /\ reply \in [Client -> Reply \cup {None}]

\* One assignment at most is active for each exact principal, role and scope,
\* however many grants with distinct ids race for it.
OneActivePerTuple ==
    \A l \in Location, i, j \in Id :
      /\ Active(RecordAt(l, i)) /\ Active(RecordAt(l, j))
      /\ RecordAt(l, i).role = RecordAt(l, j).role
      => i = j

\* The guard of a tuple names exactly the active assignment: it is never left
\* on a revoked one (a wedged tuple) and never retired under an active one.
GuardNamesActive ==
    \A l \in Location, i \in Id, r \in Role :
      guards[l][r].occupant = i
        <=> Active(RecordAt(l, i)) /\ RecordAt(l, i).role = r

\* A stored lifecycle is the only one under its id, and both indexes find it:
\* by id through its pointer, by role through its holder row.
LifecycleLocated ==
    \A l \in Location, i \in Id :
      LET a == RecordAt(l, i) IN
      a # None => /\ pointers[i] = [loc |-> l, role |-> a.role]
                  /\ holders[l.scope][a.role][i] = l.principal
                  /\ a.id = i /\ a.loc = l

\* The audit rows of an id are the events of its lifecycle, no more, no less.
AuditMatchesLifecycle ==
    \A l \in Location, i \in Id :
      LET a == RecordAt(l, i) IN
      /\ audit[l][i][1] = IF a = None THEN None ELSE a.grantEvent
      /\ audit[l][i][2] = IF Revoked(a) THEN a.revocation.event ELSE None

\* No interleaving of legal calls makes the store report a corrupt record.
NeverCorrupt == \A c \in Client : At(c, "replied") => reply[c].status # "corrupt"

IsGrant(c)  == At(c, "replied") /\ cmd[c].op = "grant"
IsRevoke(c) == At(c, "replied") /\ cmd[c].op = "revoke"

\* What a grant's answer says is so, and stays so: a granted or unchanged id
\* carries this command's event at this place, and a refused id does not.
GrantRepliesTruthful ==
    \A c \in Client : IsGrant(c) =>
      LET g == cmd[c]
          r == reply[c]
          a == RecordAt(g.loc, g.id)
      IN /\ r.status \in {"granted", "unchanged"} =>
              /\ a # None /\ a.role = g.role /\ a.grantEvent = g.event
              /\ SameGrant(a, r.value)
         /\ r.status = "granted" => a.grantedAt = g.at
         /\ r.reason = "event_id" => a # None /\ a.grantEvent # g.event
         /\ r.reason = "assignment_id" =>
              \/ pointers[g.id] # TargetOf(g)
              \/ a # None /\ a.grantEvent # g.event

\* What a revoke's answer says is so, and stays so: a revoked or unchanged id
\* carries exactly this command's evidence; a concurrency conflict means the
\* record has left the version of the token for good.
RevokeRepliesTruthful ==
    \A c \in Client : IsRevoke(c) =>
      LET r == cmd[c]
          p == pointers[r.id]
          a == RecordAt(p.loc, r.id)
          answer == reply[c]
      IN /\ answer.status \in {"revoked", "unchanged"} =>
              /\ p # None /\ Revoked(a) /\ a.revocation = EvidenceOf(r)
              /\ answer.value = a
         /\ answer.reason = "concurrency" =>
              p # None /\ assignments[p.loc][r.id].version # r.token
         /\ answer.reason = "lifecycle" =>
              /\ p # None /\ a # None
              /\ \/ Revoked(a) /\ a.revocation # EvidenceOf(r)
                 \/ r.at < a.grantedAt

\* Of all the calls answered for one id, one granted it and one revoked it.
SingleWinner ==
    \A c, d \in Client :
      /\ At(c, "replied") /\ At(d, "replied") /\ cmd[c].id = cmd[d].id
      /\ reply[c].status = reply[d].status
      /\ reply[c].status \in {"granted", "revoked"}
      => c = d

\* A transaction is refused only to a call that was overtaken: if what a call
\* read is still there, it commits.  So no row that a call cut off or refused
\* earlier left behind makes a transaction fail, and its tuple is not wedged; its
\* pointer does bind the id, which is refused at another place for good, before
\* any transaction (pointsElsewhere).
RefusalNeedsCompetitor ==
    \A c \in Client :
      /\ (/\ At(c, "g_transact")
          /\ guards[cmd[c].loc][cmd[c].role] = seen[c].guard)
            => GrantFailures(c) = {}
      /\ (/\ At(c, "r_transact")
          /\ assignments[seen[c].pointer.loc][cmd[c].id] = seen[c].existing)
            => RevokeFailures(c) = {}

-----------------------------------------------------------------------------
\* Action properties.

\* A stored lifecycle keeps its grant evidence, and a revoked one never changes
\* again: replay never reactivates it and no later revoke rewrites it.
LifecycleIrreversible ==
    [][\A l \in Location, i \in Id :
         LET a == RecordAt(l, i)
             b == RecordAt(l, i)'
         IN /\ a # None => b # None /\ SameGrant(a, b)
            /\ Revoked(a) => b = a]_vars

\* A tuple passes from one assignment to the next only through the revocation
\* of the first: no step takes it over, and a delayed revoke of an old id never
\* takes it from a fresh regrant.
TupleHandover ==
    [][\A l \in Location, r \in Role, i \in Id :
         guards[l][r].occupant = i /\ guards'[l][r].occupant # i =>
           guards'[l][r].occupant = None /\ Revoked(RecordAt(l, i)')]_vars

\* An assignment becomes revoked only by a revoke of that id whose caller holds
\* the version being replaced, at an instant no earlier than the grant, and with
\* that caller's evidence.
RevocationIsTheCallers ==
    [][\A l \in Location, i \in Id :
         Active(RecordAt(l, i)) /\ Revoked(RecordAt(l, i)') =>
           \E c \in Client :
             /\ At(c, "r_transact") /\ cmd[c].id = i
             /\ cmd[c].token = assignments[l][i].version
             /\ cmd[c].at >= RecordAt(l, i).grantedAt
             /\ RecordAt(l, i)'.revocation = EvidenceOf(cmd[c])]_vars

-----------------------------------------------------------------------------
\* Liveness.

\* Every call that is not cut off is answered: no step of one waits for another.
CallsAnswered ==
    \A c \in Client : pc[c] \in GrantSteps \cup RevokeSteps
                        ~> pc[c] \in {"idle", "replied"}
=============================================================================
