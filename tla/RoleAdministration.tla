-------------------------- MODULE RoleAdministration --------------------------
(***************************************************************************)
(* The administration service over the store of RoleLifecycle: revocation  *)
(* with the last-administrator guard, assignment, the grants view and the  *)
(* one-time seed.  Each store call is one indivisible step, as the store   *)
(* implements it; between two of them any other call may run.  Several     *)
(* instances of the service share the store; one instance runs its         *)
(* revocations one after another (revokeChain) and nothing else in turn.   *)
(***************************************************************************)
EXTENDS RoleLifecycle, FiniteSets

CONSTANTS Instance,    \* service instances: one revocation at a time in each
          Worker,      \* other calls: assignments, views and seeds
          Admin,       \* policy.administratorRole
          HostIndex,   \* TRUE: the host keeps the by-role index, not the store
          SeedId,      \* assignment ids of ceremony manifests
          Jobs         \* the calls of workers: "assign", "view", "seed"

VARIABLES
    grantedBy,  \* who granted each id: a person or a system actor
    rows,       \* ids in the host's index (HostIndex), superset rows
    step,       \* the next step of each call
    job,        \* its command
    seen,       \* the record it read
    candidates, \* ids still to be verified, or recorded
    fresh,      \* the id generateId gave it
    answer,     \* what it answered
    manifest,   \* the one target of each ceremony manifest; never changes
    begun,      \* history: the store as its latest holder check, its view or
                \* its seed began
    cut         \* history: a revocation was cut off after its commit

adminVars == <<vars, grantedBy, rows, step, job, seen, candidates, fresh,
               answer, manifest, begun, cut>>

Call   == Instance \cup Worker
Target == [loc : Location, role : Role]
TargetOf(a) == [loc |-> a.loc, role |-> a.role]

\* The record a grant writes.
Form(i, t, e, at) == [id |-> i, loc |-> t.loc, role |-> t.role, grantEvent |-> e,
                      grantedAt |-> at, revocation |-> None]

\* The grantors that matter: whoever granted before the service ran, system
\* actors that keep writing apart, and then the service's own calls, for people,
\* for a seed and as the compensation of the guard.
Earlier == {"earlier", "ongoing"}
Grantor == Earlier \cup {"human", "seed", "guard"}

\* A fleet of the service is finite.
ASSUME AdministrationAssumption ==
    /\ Admin \in Role
    /\ HostIndex \in BOOLEAN
    /\ SeedId \subseteq Id
    /\ Jobs \subseteq {"assign", "view", "seed"}
    /\ Instance \cap Worker = {}
    /\ IsFiniteSet(Instance)

HoldersOf(scope, role) ==
    {i \in Id : /\ Active(life[i]) /\ life[i].loc.scope = scope
                /\ life[i].role = role}

Administrators(scope) == HoldersOf(scope, Admin)

\* The store at rest when the service starts: assignments made earlier, with
\* whatever part of them the host's index holds.
AdminInit ==
    /\ \E given \in SUBSET (Id \ SeedId) :
       \E t \in [given -> Target], by \in [given -> Earlier] :
       \E e \in Event, at \in Time :
         /\ \A i, j \in given : t[i] = t[j] => i = j
         /\ life = [i \in Id |-> IF i \notin given THEN None ELSE
                                            Form(i, t[i], e, at)]
         /\ history = [i \in Id |-> IF i \in given THEN <<e>> ELSE <<>>]
         /\ grantedBy = [i \in Id |-> IF i \in given THEN by[i] ELSE "earlier"]
         /\ rows \in SUBSET given /\ (~HostIndex => rows = {})
    /\ step = [p \in Call |-> "idle"]
    /\ job = [p \in Call |-> None]
    /\ seen = [p \in Call |-> None]
    /\ candidates = [p \in Call |-> {}]
    /\ fresh = [p \in Call |-> None]
    /\ answer = [p \in Call |-> None]
    /\ manifest \in [SeedId -> Target]
    /\ begun = [p \in Call |-> None]
    /\ cut = FALSE

-----------------------------------------------------------------------------
\* Control of one call.

At(p, s) == step[p] = s

Goto(p, s) == /\ step' = [step EXCEPT ![p] = s]
              /\ UNCHANGED <<job, answer, manifest, cut>>

Answer(p, status) ==
    /\ step' = [step EXCEPT ![p] = "answered"]
    /\ answer' = [answer EXCEPT ![p] = status]
    /\ seen' = [seen EXCEPT ![p] = None]
    /\ candidates' = [candidates EXCEPT ![p] = {}]
    /\ fresh' = [fresh EXCEPT ![p] = None]
    /\ UNCHANGED <<job, manifest, begun, cut>>

StoreUnchanged == UNCHANGED <<life, history, grantedBy, rows>>

\* generateId: an id nobody has used, and that no manifest holds.
Unused == {i \in Id \ SeedId : life[i] = None /\ i \notin rows
                                 /\ \A p \in Call : fresh[p] # i}

Start(p, command, s) ==
    /\ At(p, "idle")
    /\ step' = [step EXCEPT ![p] = s]
    /\ job' = [job EXCEPT ![p] = command]
    /\ begun' = [begun EXCEPT ![p] = IF command.op \in {"view", "seed"}
                                     THEN [life |-> life, rows |-> rows] ELSE None]
    /\ UNCHANGED <<seen, candidates, fresh, answer, manifest, cut>>
    /\ StoreUnchanged

\* Steps of a revocation after its commit, until the guard is satisfied.
AfterCommit == {"list_after", "verify_after", "record_guard", "compensate",
                "list_last", "verify_last"}

\* The caller has its answer; or the call is cut off, by a store call that
\* rejects or a process that dies, and leaves what it has done.
Leave(p) ==
    /\ step[p] # "idle"
    /\ step' = [step EXCEPT ![p] = "idle"]
    /\ job' = [job EXCEPT ![p] = None]
    /\ seen' = [seen EXCEPT ![p] = None]
    /\ candidates' = [candidates EXCEPT ![p] = {}]
    /\ fresh' = [fresh EXCEPT ![p] = None]
    /\ answer' = [answer EXCEPT ![p] = None]
    /\ begun' = [begun EXCEPT ![p] = None]
    /\ cut' = (cut \/ step[p] \in AfterCommit)
    /\ UNCHANGED manifest
    /\ StoreUnchanged

-----------------------------------------------------------------------------
\* The store calls of this module, as RoleLifecycle gives them.

\* The grant settles: granted, or refused because the tuple is held.
Granted(i, t, by) ==
    /\ \E e \in Event, at \in Time : Grant(i, Form(i, t, e, at))
    /\ grantedBy' = [grantedBy EXCEPT ![i] = by]
    /\ UNCHANGED rows

TupleHeld(t) == ~TupleFree(t.loc, t.role)

\* Slip: the grant comes without the index row.
BeforeNothing(record, grant) == grant

\* recordHolder comes before the grant, when the host keeps the index.
Before(record, grant) == IF HostIndex THEN record ELSE grant

Record(i) == /\ rows' = rows \cup {i}
             /\ UNCHANGED <<life, history, grantedBy>>

-----------------------------------------------------------------------------
\* anotherActiveHolderExists: list the candidates, then read each one again by
\* its id until one holds the role in the exact scope.  The three places that
\* call it are the suffix of the step.

\* Slip: any holder of the role counts, in whatever scope.
CountsAnyScope(i, a) == Active(life[i]) /\ life[i].role = a.role

\* A candidate counts: active, of this role, in this exact scope.
Counts(i, a) == /\ Active(life[i]) /\ life[i].role = a.role
                /\ life[i].loc.scope = a.loc.scope

\* Before the revocation its own principal does not count; after it all do.
Excluded(p) ==
    IF At(p, "list_before")
    THEN {i \in Id : life[i] # None /\ life[i].loc.principal = seen[p].loc.principal}
    ELSE {}

\* What listing can return.  By the store's index, every assignment that held
\* the role throughout, and maybe some that held it for a part of the listing;
\* by the host's, every row ever recorded.
Listing(p) ==
    LET a == seen[p]
        sometime == {i \in Id : /\ life[i] # None /\ ~Revoked(begun[p].life[i])
                                /\ life[i].role = a.role
                                /\ life[i].loc.scope = a.loc.scope}
        throughout == {i \in sometime : Active(begun[p].life[i]) /\ Active(life[i])}
    IN IF HostIndex THEN {rows}
       ELSE {s \in SUBSET sometime : throughout \subseteq s}

CheckSteps == {"before", "after", "last"}
ListStep   == [before |-> "list_before", after |-> "list_after", last |-> "list_last"]
VerifyStep == [before |-> "verify_before", after |-> "verify_after",
               last |-> "verify_last"]

\* What the revocation does with the answer of the check.
HolderFound(p, where) ==
    \/ /\ where = "before" /\ Goto(p, "commit")
       /\ candidates' = [candidates EXCEPT ![p] = {}]
       /\ UNCHANGED <<seen, fresh, begun>>
    \/ where # "before" /\ Answer(p, "revoked")

NoHolder(p, where) ==
    \/ where = "before" /\ Answer(p, "last_administrator")
    \/ /\ where = "after"
       /\ \E i \in Unused : fresh' = [fresh EXCEPT ![p] = i]
       /\ Goto(p, Before("record_guard", "compensate"))
       /\ candidates' = [candidates EXCEPT ![p] = {}]
       /\ UNCHANGED <<seen, begun>>
    \/ where = "last" /\ Answer(p, "failed")

ListHolders(p, where) ==
    /\ At(p, ListStep[where])
    /\ \E s \in Listing(p) :
         \/ /\ s \ Excluded(p) # {}
            /\ Goto(p, VerifyStep[where])
            /\ candidates' = [candidates EXCEPT ![p] = s \ Excluded(p)]
            /\ UNCHANGED <<seen, fresh, begun>>
         \/ s \ Excluded(p) = {} /\ NoHolder(p, where)
    /\ StoreUnchanged

\* Slip: the first candidate decides.
OthersNone(p, i) == {}

Others(p, i) == candidates[p] \ {i}

VerifyHolder(p, where) ==
    /\ At(p, VerifyStep[where])
    /\ \E i \in candidates[p] :
         \/ Counts(i, seen[p]) /\ HolderFound(p, where)
         \/ /\ ~Counts(i, seen[p]) /\ Others(p, i) # {}
            /\ candidates' = [candidates EXCEPT ![p] = Others(p, i)]
            /\ UNCHANGED <<step, job, seen, fresh, answer, manifest, begun, cut>>
         \/ ~Counts(i, seen[p]) /\ Others(p, i) = {} /\ NoHolder(p, where)
    /\ StoreUnchanged

\* The check begins with the state this step leaves.
Check(p, where) ==
    /\ Goto(p, ListStep[where])
    /\ begun' = [begun EXCEPT ![p] = [life |-> life', rows |-> rows']]
    /\ UNCHANGED <<candidates, fresh>>

-----------------------------------------------------------------------------
\* revokeRole

\* Reserved ids keep the bound on ids from stopping a compensation.
StartRevoke(p) ==
    /\ Cardinality(Unused) > Cardinality({q \in Instance : step[q] # "idle"
                                                         /\ fresh[q] = None})
    /\ \E i \in Id : Start(p, [op |-> "revoke", id |-> i], "get")

\* assignmentManagedBy under the policy: an ongoing system actor owns it.
SystemManaged(i) == grantedBy[i] = "ongoing"

Guarded(a) == a.role = Admin

RevokeGet(p) ==
    /\ At(p, "get")
    /\ StoreUnchanged
    /\ LET i == job[p].id
           a == life[i]
       IN \/ a = None /\ Answer(p, "not_found")
          \/ Revoked(a) /\ Answer(p, "already_revoked")
          \/ Active(a) /\ SystemManaged(i) /\ Answer(p, "system_managed")
          \/ /\ Active(a) /\ ~SystemManaged(i)
             /\ seen' = [seen EXCEPT ![p] = a]
             /\ \/ Guarded(a) /\ Check(p, "before")
                \/ ~Guarded(a) /\ Goto(p, "commit") /\ UNCHANGED <<candidates, fresh, begun>>

\* Slip: the guard is not re-verified after the commit.
VerifiedBefore(p) == Answer(p, "revoked")

\* After the commit of a guarded revocation, the guard is verified again.
Reverify(p) ==
    \/ Guarded(seen[p]) /\ Check(p, "after") /\ UNCHANGED seen
    \/ ~Guarded(seen[p]) /\ Answer(p, "revoked")

\* revokeRoleAssignmentWithAudit with the token of the record read: it is
\* refused if that was revoked since, or its grant is later than this clock.
RevokeCommit(p) ==
    /\ At(p, "commit")
    /\ LET i == job[p].id IN
       \E at \in Time :
         \/ /\ \E e \in Event, by \in Actor :
                  Revoke(i, [event |-> e, by |-> by, at |-> at])
            /\ UNCHANGED <<grantedBy, rows>>
            /\ Reverify(p)
         \/ /\ life[i] # seen[p] \/ at < seen[p].grantedAt
            /\ Answer(p, "conflict")
            /\ StoreUnchanged

RecordGuard(p) ==
    /\ At(p, "record_guard")
    /\ Record(fresh[p])
    /\ Goto(p, "compensate")
    /\ UNCHANGED <<seen, candidates, fresh, begun>>

\* Restore the principal just revoked, under a fresh id.
Compensate(p) ==
    /\ At(p, "compensate")
    /\ \/ Granted(fresh[p], TargetOf(seen[p]), "guard") /\ Answer(p, "compensated")
       \/ /\ TupleHeld(TargetOf(seen[p]))
          /\ StoreUnchanged
          /\ Check(p, "last")
          /\ UNCHANGED seen

RevokeStep(p) ==
    \/ RevokeGet(p) \/ RevokeCommit(p) \/ RecordGuard(p) \/ Compensate(p)
    \/ \E where \in CheckSteps : ListHolders(p, where) \/ VerifyHolder(p, where)

-----------------------------------------------------------------------------
\* assignRole

Spare == Cardinality(Unused) > Cardinality(Instance)

StartAssign(w) ==
    /\ "assign" \in Jobs
    /\ \E t \in Target : Start(w, [op |-> "assign", target |-> t], "assign_list")

\* Slip: the row is left for after the grant.
AssignListUnrecorded(w) ==
    /\ At(w, "assign_list")
    /\ LET t == job[w].target IN
       /\ ~TupleHeld(t) /\ Spare
       /\ \E i \in Unused : fresh' = [fresh EXCEPT ![w] = i]
       /\ Goto(w, "assign_grant")
       /\ UNCHANGED <<seen, candidates, begun>>
    /\ StoreUnchanged

AssignList(w) ==
    /\ At(w, "assign_list")
    /\ LET t == job[w].target IN
       \/ TupleHeld(t) /\ Answer(w, "duplicate")
       \/ /\ ~TupleHeld(t) /\ Spare
          /\ \E i \in Unused : fresh' = [fresh EXCEPT ![w] = i]
          /\ Goto(w, Before("assign_record", "assign_grant"))
          /\ UNCHANGED <<seen, candidates, begun>>
    /\ StoreUnchanged

AssignRecord(w) ==
    /\ At(w, "assign_record")
    /\ Record(fresh[w])
    /\ Goto(w, "assign_grant")
    /\ UNCHANGED <<seen, candidates, fresh, begun>>

AssignGrant(w) ==
    /\ At(w, "assign_grant")
    /\ LET t == job[w].target IN
       \/ Granted(fresh[w], t, "human") /\ Answer(w, "assigned")
       \/ TupleHeld(t) /\ Answer(w, "duplicate") /\ StoreUnchanged

-----------------------------------------------------------------------------
\* viewGrants: what the store reports as active is recorded in the host's index.

StartView(w) ==
    /\ "view" \in Jobs
    /\ \E l \in Location : Start(w, [op |-> "view", loc |-> l], "view_list")

\* Slip: what system actors manage is left out.
ViewedHuman(l) ==
    {i \in Id : Active(life[i]) /\ life[i].loc = l /\ ~SystemManaged(i)}

\* listActiveRoleAssignments
Viewed(l) == {i \in Id : Active(life[i]) /\ life[i].loc = l}

ViewList(w) ==
    /\ At(w, "view_list")
    /\ LET active == Viewed(job[w].loc) IN
       \/ /\ HostIndex /\ active # {}
          /\ candidates' = [candidates EXCEPT ![w] = active]
          /\ Goto(w, "view_record")
          /\ UNCHANGED <<seen, fresh, begun>>
       \/ /\ ~HostIndex \/ active = {}
          /\ Answer(w, "viewed")
    /\ StoreUnchanged

ViewRecord(w) ==
    /\ At(w, "view_record")
    /\ \E i \in candidates[w] :
         /\ Record(i)
         /\ \/ candidates[w] = {i} /\ Answer(w, "viewed")
            \/ /\ candidates[w] # {i}
               /\ candidates' = [candidates EXCEPT ![w] = @ \ {i}]
               /\ UNCHANGED <<step, job, seen, fresh, answer, manifest, begun, cut>>

-----------------------------------------------------------------------------
\* ensureSeededAssignment, with the id a ceremony manifest holds for one target.

StartSeed(w) ==
    /\ "seed" \in Jobs
    /\ \E i \in SeedId :
         Start(w, [op |-> "seed", id |-> i, target |-> manifest[i]], "seed_history")

\* Slip: only an active assignment counts as seeded.
SeededActive(t) == TupleHeld(t)

\* Any assignment of the role, active or revoked, counts.
Seeded(t) == \E i \in Id : life[i] # None /\ TargetOf(life[i]) = t

SeedHistory(w) ==
    /\ At(w, "seed_history")
    /\ \/ Seeded(job[w].target) /\ Answer(w, "already")
       \/ /\ ~Seeded(job[w].target)
          /\ Goto(w, Before("seed_record", "seed_grant"))
          /\ UNCHANGED <<seen, candidates, fresh, begun>>
    /\ StoreUnchanged

SeedRecord(w) ==
    /\ At(w, "seed_record")
    /\ Record(job[w].id)
    /\ Goto(w, "seed_grant")
    /\ UNCHANGED <<seen, candidates, fresh, begun>>

\* An occupied tuple refuses before the id is looked at.  The same manifest
\* granted before is unchanged; but if that happened while this call ran, over a
\* guard an earlier holder left, the refused put of the guard is a conflict too.
SeedGrant(w) ==
    /\ At(w, "seed_grant")
    /\ LET i == job[w].id
           t == job[w].target
           others == {j \in Id \ {i} : life[j] # None /\ TargetOf(life[j]) = t}
           occupied == \E j \in others : Active(life[j])
           overtaken == /\ life[i] # None /\ begun[w].life[i] = None
                        /\ others # {}
       IN \/ Granted(i, t, "seed") /\ Answer(w, "granted")
          \/ life[i] # None /\ ~occupied /\ Answer(w, "already") /\ StoreUnchanged
          \/ (occupied \/ overtaken) /\ Answer(w, "conflict") /\ StoreUnchanged

WorkStep(w) ==
    \/ AssignList(w) \/ AssignRecord(w) \/ AssignGrant(w)
    \/ ViewList(w) \/ ViewRecord(w)
    \/ SeedHistory(w) \/ SeedRecord(w) \/ SeedGrant(w)

AdminNext ==
    \/ \E p \in Instance : StartRevoke(p) \/ RevokeStep(p)
    \/ \E w \in Worker : \/ StartAssign(w) \/ StartView(w) \/ StartSeed(w)
                          \/ WorkStep(w)
    \/ \E p \in Call : Leave(p)

AdminSpec == AdminInit /\ [][AdminNext]_adminVars

\* Store calls settle, so a revocation that is running takes its next step.
AdminFairSpec == AdminSpec /\ \A p \in Instance : WF_adminVars(RevokeStep(p))

-----------------------------------------------------------------------------
\* Safety.

AdminTypeOK ==
    /\ \A i \in Id : life[i] \in Assignment \cup {None}
    /\ grantedBy \in [Id -> Grantor]
    /\ rows \subseteq Id
    /\ \A p \in Call :
         /\ seen[p] \in Assignment \cup {None}
         /\ At(p, "commit") => seen[p] # None
         /\ step[p] \in AfterCommit => Guarded(seen[p]) /\ Revoked(life[job[p].id])
         /\ step[p] \in {"compensate", "assign_grant"} =>
              fresh[p] \in Id /\ life[fresh[p]] = None
         /\ candidates[p] \subseteq Id

HadAdministrator(scope) ==
    \E i \in Id : /\ life[i] # None /\ life[i].loc.scope = scope
                 /\ life[i].role = Admin

\* A scope that ever had an administrator has one still, unless a revocation is
\* past its commit and not yet done, or was cut off there: the guard loses nobody
\* to a race of several instances, also when a compensation is refused because
\* of another writer's grant.
AdministratorRemains ==
    \A s \in Scope :
      HadAdministrator(s) /\ Administrators(s) = {} =>
        \/ cut
        \/ \E p \in Instance : step[p] \in AfterCommit /\ seen[p].loc.scope = s

\* With one instance nothing has to be repaired: revocations run one after
\* another, so every scope that ever had an administrator has one at every
\* instant, also if the instance dies anywhere.
SingleInstanceNeverEmpty ==
    Cardinality(Instance) = 1 =>
      \A s \in Scope : HadAdministrator(s) => Administrators(s) # {}

\* What the service grants, by an assignment, a seed or a compensation, is in the
\* host's index before it is active, wherever a call is cut off, so the guard
\* cannot overlook it; the index lacks earlier assignments only.
HostIndexCovers ==
    \A i \in Id : HostIndex /\ life[i] # None /\ grantedBy[i] \notin Earlier
                   => i \in rows

\* A grants view leaves what was active all along in the host's index.
ViewHeals ==
    \A w \in Worker :
      At(w, "answered") /\ answer[w] = "viewed" /\ HostIndex =>
        \A i \in Id :
          Active(life[i]) /\ Active(begun[w].life[i]) /\ life[i].loc = job[w].loc
            => i \in rows

-----------------------------------------------------------------------------
\* Action properties.

\* The check of p says, in this step, that nobody else holds the role.
SaysNobody(p) ==
    /\ \E where \in CheckSteps : step[p] \in {ListStep[where], VerifyStep[where]}
    /\ \/ step'[p] \in {"record_guard", "compensate"}
       \/ step'[p] = "answered" /\ answer'[p] \in {"last_administrator", "failed"}

\* A revocation is refused, or compensated, only if no other holder that the
\* index knew was there all through the check: no holder is overlooked.
HolderNeverOverlooked ==
    [][\A p \in Instance : SaysNobody(p) =>
         \A i \in Id :
           ~ /\ Active(begun[p].life[i]) /\ Active(life[i])
             /\ life[i].role = seen[p].role /\ life[i].loc.scope = seen[p].loc.scope
             /\ HostIndex => i \in begun[p].rows
             /\ life[i].loc.principal # seen[p].loc.principal]_adminVars

SeedGrants(w) == At(w, "seed_grant") /\ step'[w] = "answered" /\ answer'[w] = "granted"

\* A seed that begins after its principal ever held the role grants nothing: a
\* deliberate revocation stands however often the ceremony is run again.
SeedRespectsHistory ==
    [][\A w \in Worker : SeedGrants(w) =>
         \A i \in Id : begun[w].life[i] # None =>
           TargetOf(begun[w].life[i]) # job[w].target]_adminVars

-----------------------------------------------------------------------------
\* What the repository says of the program and the code does not do.

\* index.ts: "a deliberate revocation is never resurrected by a lingering seed
\* input".
SeedNeverResurrects ==
    [][\A w \in Worker : SeedGrants(w) =>
         \A i \in Id : Revoked(life[i]) => TargetOf(life[i]) # job[w].target]_adminVars

-----------------------------------------------------------------------------
\* Liveness.

\* Administration lost to a race comes back, unless a revocation is cut off.
AdministratorReturns ==
    \A s \in Scope :
      HadAdministrator(s) /\ Administrators(s) = {} ~> Administrators(s) # {} \/ cut
=============================================================================
