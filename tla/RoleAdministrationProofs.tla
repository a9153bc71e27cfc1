------------------------ MODULE RoleAdministrationProofs ------------------------
(***************************************************************************)
(* The safety properties of RoleAdministration, for any fleet, any other   *)
(* calls and any store it starts with.  What a call has read of the store  *)
(* is relied on later, while others write: the argument is what of it      *)
(* still holds then.  A lifecycle only moves forward, so what was active   *)
(* when a check began and is active now was active all the time; and the   *)
(* scope of an administrator who is gone is in the hands of a revocation   *)
(* that still looks for another one.                                       *)
(***************************************************************************)
EXTENDS RoleAdministration, TLAPS, FiniteSetTheorems

RevokeSteps == {"get", "list_before", "verify_before", "commit", "list_after",
                "verify_after", "record_guard", "compensate", "list_last",
                "verify_last"}
AssignSteps == {"assign_list", "assign_record", "assign_grant"}
ViewSteps   == {"view_list", "view_record"}
SeedSteps   == {"seed_history", "seed_record", "seed_grant"}
Steps       == RevokeSteps \cup AssignSteps \cup ViewSteps \cup SeedSteps
                 \cup {"idle", "answered"}

RevokeJob == [op : {"revoke"}, id : Id]
AssignJob == [op : {"assign"}, target : Target]
ViewJob   == [op : {"view"}, loc : Location]
SeedJob   == [op : {"seed"}, id : SeedId, target : Target]
Job       == RevokeJob \cup AssignJob \cup ViewJob \cup SeedJob

Answers == {"not_found", "already_revoked", "system_managed", "conflict", "revoked",
            "last_administrator", "failed", "compensated", "assigned", "duplicate",
            "viewed", "already", "granted"}

Lives    == [Id -> Assignment \cup {None}]
Snapshot == [life : Lives, rows : SUBSET Id]

Types ==
    /\ life \in Lives
    /\ grantedBy \in [Id -> Grantor]
    /\ rows \subseteq Id
    /\ step \in [Call -> Steps]
    /\ job \in [Call -> Job \cup {None}]
    /\ seen \in [Call -> Assignment \cup {None}]
    /\ candidates \in [Call -> SUBSET Id]
    /\ fresh \in [Call -> Id \cup {None}]
    /\ answer \in [Call -> Answers \cup {None}]
    /\ manifest \in [SeedId -> Target]
    /\ begun \in [Call -> Snapshot \cup {None}]
    /\ cut \in BOOLEAN

\* A lifecycle that was there is there, with its grant; once revoked it stays as
\* it is, and what is active was never anything else.
Forward(was, now) ==
    was # None =>
      /\ now # None /\ SameGrant(was, now)
      /\ Revoked(was) \/ Active(now) => now = was

\* What a call saw as it began lies behind.
Behind(then) ==
    /\ \A i \in Id : Forward(then.life[i], life[i])
    /\ then.rows \subseteq rows

\* Each step belongs to a call of its kind.
Commanded(p) ==
    /\ step[p] \in RevokeSteps => p \in Instance /\ job[p] \in RevokeJob
    /\ step[p] \in AssignSteps => p \in Worker /\ job[p] \in AssignJob
    /\ step[p] \in ViewSteps   => p \in Worker /\ job[p] \in ViewJob
    /\ step[p] \in SeedSteps   => p \in Worker /\ job[p] \in SeedJob

\* The id a call was given is nobody's yet.
Fresh(p) ==
    /\ fresh[p] # None => fresh[p] \notin SeedId /\ life[fresh[p]] = None
    /\ step[p] \in {"record_guard", "compensate", "assign_record", "assign_grant"} =>
         fresh[p] # None

\* The host's row is there before the grant.
RowFirst(p) ==
    HostIndex =>
      /\ step[p] \in {"compensate", "assign_grant"} => fresh[p] \in rows
      /\ step[p] = "seed_grant" => job[p].id \in rows

\* A revocation has read the record of its id, which has its grant still; the
\* guard applies to what it checks; past its commit the id is revoked.
Revoking(p) ==
    /\ step[p] \in RevokeSteps \ {"get"} =>
         /\ seen[p] \in Assignment /\ Active(seen[p])
         /\ life[job[p].id] # None /\ SameGrant(seen[p], life[job[p].id])
    /\ step[p] \in RevokeSteps \ {"get", "commit"} => Guarded(seen[p])
    /\ step[p] \in AfterCommit => Revoked(life[job[p].id])

ListSteps == {"list_before", "list_after", "list_last"}
VerifySteps  == {"verify_before", "verify_after", "verify_last"}

\* Another holder, whom the index knew, all through the check of p.
HeldThroughout(p, i) ==
    /\ Active(begun[p].life[i]) /\ Active(life[i])
    /\ life[i].role = seen[p].role /\ life[i].loc.scope = seen[p].loc.scope
    /\ HostIndex => i \in begun[p].rows
    /\ life[i].loc.principal # seen[p].loc.principal

\* A holder all through a check is still to be verified, and before the commit
\* the assignment to be revoked is not.
Checking(p) ==
    /\ step[p] \in ListSteps \cup VerifySteps => begun[p] \in Snapshot /\ Behind(begun[p])
    /\ step[p] \in VerifySteps =>
         \A i \in Id : HeldThroughout(p, i) => i \in candidates[p]
    /\ step[p] = "verify_before" => job[p].id \notin candidates[p]

\* What is active all through a view has its row, or is still to be recorded.
Viewing(p) ==
    /\ step[p] \in ViewSteps => begun[p] \in Snapshot /\ Behind(begun[p])
    /\ step[p] = "view_record" =>
         \A i \in Id :
           Active(life[i]) /\ Active(begun[p].life[i]) /\ life[i].loc = job[p].loc
             => i \in rows \cup candidates[p]

\* A view that has answered.
HasViewed(p) ==
    step[p] = "answered" /\ answer[p] = "viewed" =>
      /\ begun[p] \in Snapshot /\ Behind(begun[p])
      /\ HostIndex => \A i \in Id :
           Active(life[i]) /\ Active(begun[p].life[i]) /\ life[i].loc = job[p].loc
             => i \in rows

\* A seed past its look at the history found none from before it began.
Seeding(p) ==
    /\ step[p] \in SeedSteps => begun[p] \in Snapshot /\ Behind(begun[p])
    /\ step[p] \in {"seed_record", "seed_grant"} =>
         \A i \in Id : begun[p].life[i] # None =>
           TargetOf(begun[p].life[i]) # job[p].target

Sound(p) ==
    /\ Commanded(p) /\ Fresh(p) /\ RowFirst(p) /\ Revoking(p) /\ Checking(p)
    /\ Viewing(p) /\ HasViewed(p) /\ Seeding(p)

\* No two calls have the same id.
FreshDistinct ==
    \A p, q \in Call : fresh[p] # None /\ fresh[p] = fresh[q] => p = q

\* The scope of an administrator who is gone is in the hands of a revocation that
\* has not yet had its compensation refused, unless one was cut off.
Repairing(p) == step[p] \in {"list_after", "verify_after", "record_guard", "compensate"}

AdministratorInHand ==
    \A s \in Scope :
      HadAdministrator(s) /\ Administrators(s) = {} =>
        \/ cut
        \/ \E p \in Instance : Repairing(p) /\ seen[p].loc.scope = s

\* With one instance, a guarded revocation about to commit leaves another holder.
LeavesAnother(p) ==
    step[p] = "commit" /\ Guarded(seen[p]) =>
      \E i \in Administrators(seen[p].loc.scope) : i # job[p].id

SingleSafe ==
    Cardinality(Instance) = 1 =>
      /\ \A p \in Instance : LeavesAnother(p)
      /\ \A s \in Scope : HadAdministrator(s) => Administrators(s) # {}

AdminInv ==
    /\ Types /\ (\A p \in Call : Sound(p)) /\ FreshDistinct
    /\ HostIndexCovers /\ AdministratorInHand /\ SingleSafe

-----------------------------------------------------------------------------
\* What every step does to the calls and to the store.

LEMMA FormTypes ==
  ASSUME NEW i \in Id, NEW t \in Target, NEW e \in Event, NEW at \in Time
  PROVE  /\ Form(i, t, e, at) \in Assignment /\ Active(Form(i, t, e, at))
         /\ TargetOf(Form(i, t, e, at)) = t
BY RecordsAssumption DEF Form, Target, Assignment, Active, TargetOf

\* A call that takes no step keeps what it has.
Still(p) ==
    /\ step'[p] = step[p] /\ job'[p] = job[p] /\ seen'[p] = seen[p]
    /\ candidates'[p] = candidates[p] /\ fresh'[p] = fresh[p]
    /\ answer'[p] = answer[p] /\ begun'[p] = begun[p]

StoreStill == life' = life /\ grantedBy' = grantedBy /\ rows' = rows

\* The variables of the calls are functions, and stay functions.
LEMMA StartEffect ==
  ASSUME Types, NEW p \in Call, NEW c \in Job, NEW s \in Steps, Start(p, c, s)
  PROVE  /\ Types'
         /\ step[p] = "idle" /\ step'[p] = s /\ job'[p] = c
         /\ begun'[p] = IF c.op \in {"view", "seed"}
                          THEN [life |-> life, rows |-> rows] ELSE None
         /\ seen' = seen /\ candidates' = candidates /\ fresh' = fresh
         /\ answer' = answer /\ cut' = cut
         /\ StoreStill
         /\ \A q \in Call \ {p} : Still(q)
BY DEF Start, At, Types, Still, StoreStill, StoreUnchanged, Snapshot, Lives

LEMMA LeaveEffect ==
  ASSUME Types, NEW p \in Call, Leave(p)
  PROVE  /\ Types'
         /\ step'[p] = "idle" /\ job'[p] = None /\ seen'[p] = None
         /\ candidates'[p] = {} /\ fresh'[p] = None /\ answer'[p] = None
         /\ begun'[p] = None /\ cut' = (cut \/ step[p] \in AfterCommit)
         /\ StoreStill
         /\ \A q \in Call \ {p} : Still(q)
BY DEF Leave, Types, Still, StoreStill, StoreUnchanged, Steps

\* What an answer leaves.
HasAnswered(p, s) ==
    /\ step'[p] = "answered" /\ answer'[p] = s /\ seen'[p] = None
    /\ candidates'[p] = {} /\ fresh'[p] = None
    /\ job'[p] = job[p] /\ begun'[p] = begun[p] /\ cut' = cut

CallTypes ==
    /\ step \in [Call -> Steps]
    /\ job \in [Call -> Job \cup {None}]
    /\ seen \in [Call -> Assignment \cup {None}]
    /\ candidates \in [Call -> SUBSET Id]
    /\ fresh \in [Call -> Id \cup {None}]
    /\ answer \in [Call -> Answers \cup {None}]
    /\ manifest \in [SeedId -> Target]
    /\ begun \in [Call -> Snapshot \cup {None}]
    /\ cut \in BOOLEAN

StoreTypes ==
    /\ life \in Lives
    /\ grantedBy \in [Id -> Grantor]
    /\ rows \subseteq Id

LEMMA TypesSplit == (Types <=> CallTypes /\ StoreTypes) /\ (Types' <=> CallTypes' /\ StoreTypes')
BY DEF Types, CallTypes, StoreTypes

LEMMA AnswerEffect ==
  ASSUME CallTypes, NEW p \in Call, NEW s \in Answers, Answer(p, s)
  PROVE  CallTypes' /\ HasAnswered(p, s) /\ \A q \in Call \ {p} : Still(q)
BY DEF Answer, CallTypes, Still, HasAnswered, Steps

\* What a step within a call leaves.
Moves(p, s) ==
    /\ step'[p] = s
    /\ job'[p] = job[p] /\ answer'[p] = answer[p] /\ cut' = cut

Begins(p) == begun'[p] = [life |-> life', rows |-> rows']

CheckBegins(p, where) ==
    /\ Moves(p, ListStep[where]) /\ Begins(p)
    /\ candidates'[p] = candidates[p] /\ fresh'[p] = fresh[p]

StillOthers(p) == \A q \in Call \ {p} : Still(q)

LEMMA StepNames ==
  /\ CheckSteps = {"before", "after", "last"}
  /\ ListStep["before"] = "list_before" /\ VerifyStep["before"] = "verify_before"
  /\ ListStep["after"] = "list_after" /\ VerifyStep["after"] = "verify_after"
  /\ ListStep["last"] = "list_last" /\ VerifyStep["last"] = "verify_last"
BY DEF CheckSteps, ListStep, VerifyStep

LEMMA CheckEffect ==
  ASSUME CallTypes, StoreTypes', NEW p \in Call, NEW where \in CheckSteps,
         seen' \in [Call -> Assignment \cup {None}],
         \A q \in Call \ {p} : seen'[q] = seen[q],
         Check(p, where)
  PROVE  CallTypes' /\ CheckBegins(p, where) /\ StillOthers(p)
<1>1. ListStep[where] \in Steps
  BY StepNames DEF Steps, RevokeSteps
<1>2. [life |-> life', rows |-> rows'] \in Snapshot
  BY DEF StoreTypes, Snapshot
<1>. QED  BY <1>1, <1>2 DEF Check, Goto, CallTypes, CheckBegins, Moves, Begins, Still, StillOthers

\* What each step of a revocation leaves.
LEMMA RevokeGetEffect ==
  ASSUME Types, NEW p \in Call, Sound(p), RevokeGet(p)
  PROVE  /\ Types' /\ StoreStill /\ StillOthers(p) /\ step[p] = "get"
         /\ \/ \E s \in {"not_found", "already_revoked", "system_managed"} : HasAnswered(p, s)
            \/ /\ seen'[p] = life[job[p].id] /\ Active(seen'[p])
               /\ \/ Guarded(seen'[p]) /\ CheckBegins(p, "before")
                  \/ /\ ~Guarded(seen'[p]) /\ Moves(p, "commit")
                     /\ candidates'[p] = candidates[p] /\ fresh'[p] = fresh[p]
                     /\ begun'[p] = begun[p]
<1>. DEFINE i == job[p].id
            a == life[i]
<1>0. /\ step[p] = "get" /\ StoreStill /\ i \in Id /\ a \in Assignment \cup {None}
      /\ CallTypes /\ StoreTypes /\ StoreTypes'
  <2>1. step[p] = "get" /\ StoreStill
    BY DEF RevokeGet, At, StoreStill, StoreUnchanged
  <2>2. i \in Id
    BY <2>1 DEF Sound, Commanded, RevokeSteps, RevokeJob
  <2>. QED  BY <2>1, <2>2 DEF Types, CallTypes, StoreTypes, StoreStill, Lives
<1>1. CASE \E s \in {"not_found", "already_revoked", "system_managed"} : Answer(p, s)
  BY <1>0, <1>1, AnswerEffect, TypesSplit DEF StillOthers, Answers
<1>2. CASE /\ Active(a) /\ seen' = [seen EXCEPT ![p] = a]
           /\ Guarded(a) /\ Check(p, "before")
  <2>1. seen' \in [Call -> Assignment \cup {None}] /\ seen'[p] = a
        /\ \A q \in Call \ {p} : seen'[q] = seen[q]
    BY <1>0, <1>2 DEF CallTypes
  <2>2. CallTypes' /\ CheckBegins(p, "before") /\ StillOthers(p)
    BY <1>0, <1>2, <2>1, CheckEffect, StepNames
  <2>. QED  BY <1>0, <1>2, <2>1, <2>2, TypesSplit
<1>3. CASE /\ Active(a) /\ seen' = [seen EXCEPT ![p] = a]
           /\ ~Guarded(a) /\ Goto(p, "commit") /\ UNCHANGED <<candidates, fresh, begun>>
  <2>1. CallTypes' /\ seen'[p] = a /\ Moves(p, "commit") /\ StillOthers(p)
        /\ candidates'[p] = candidates[p] /\ fresh'[p] = fresh[p] /\ begun'[p] = begun[p]
    BY <1>0, <1>3 DEF CallTypes, Goto, Moves, Still, StillOthers, Steps, RevokeSteps
  <2>. QED  BY <1>0, <1>3, <2>1, TypesSplit
<1>. QED  BY <1>1, <1>2, <1>3 DEF RevokeGet

\* One lifecycle is revoked, or granted.
Retires(i) ==
    /\ Active(life[i]) /\ Revoked(life'[i]) /\ SameGrant(life[i], life'[i])
    /\ \A j \in Id \ {i} : life'[j] = life[j]
    /\ grantedBy' = grantedBy /\ rows' = rows

Issues(i, t, by) ==
    /\ life[i] = None /\ Active(life'[i]) /\ TargetOf(life'[i]) = t
    /\ TupleFree(t.loc, t.role)
    /\ \A j \in Id \ {i} : life'[j] = life[j]
    /\ grantedBy'[i] = by
    /\ \A j \in Id \ {i} : grantedBy'[j] = grantedBy[j]
    /\ rows' = rows

LEMMA RetiresByRevoke ==
  ASSUME StoreTypes, NEW i \in Id, NEW r \in Revocation, Revoke(i, r),
         UNCHANGED <<grantedBy, rows>>
  PROVE  StoreTypes' /\ Retires(i)
<1>. DEFINE a == life[i]
            b == [a EXCEPT !.revocation = r]
<1>1. a \in Assignment /\ Active(a)
  BY DEF Revoke, Active, StoreTypes, Lives
<1>2. b \in Assignment /\ Revoked(b) /\ SameGrant(a, b)
  BY <1>1, RecordsAssumption DEF Assignment, Revoked, SameGrant
<1>3. life' = [life EXCEPT ![i] = b]
  BY DEF Revoke
<1>. QED  BY <1>1, <1>2, <1>3 DEF StoreTypes, Lives, Retires

LEMMA IssuesByGrant ==
  ASSUME StoreTypes, NEW i \in Id, NEW t \in Target, NEW by \in Grantor, Granted(i, t, by)
  PROVE  StoreTypes' /\ Issues(i, t, by)
<1>1. PICK e \in Event, at \in Time : Grant(i, Form(i, t, e, at))
  BY DEF Granted
<1>2. DEFINE a == Form(i, t, e, at)
<1>3. a \in Assignment /\ Active(a) /\ TargetOf(a) = t /\ a.loc = t.loc /\ a.role = t.role
  BY FormTypes DEF Form
<1>4. life[i] = None /\ life' = [life EXCEPT ![i] = a] /\ TupleFree(t.loc, t.role)
  BY <1>1, <1>3 DEF Grant
<1>5. grantedBy' = [grantedBy EXCEPT ![i] = by] /\ rows' = rows
  BY DEF Granted
<1>. QED  BY <1>3, <1>4, <1>5 DEF StoreTypes, Lives, Issues

LEMMA RevokeCommitEffect ==
  ASSUME Types, NEW p \in Call, Sound(p), RevokeCommit(p)
  PROVE  /\ Types' /\ StillOthers(p) /\ step[p] = "commit" /\ p \in Instance
         /\ job[p] \in RevokeJob /\ job[p].id \in Id /\ seen[p] \in Assignment
         /\ \/ StoreStill /\ HasAnswered(p, "conflict")
            \/ /\ Retires(job[p].id)
               /\ \/ ~Guarded(seen[p]) /\ HasAnswered(p, "revoked")
                  \/ Guarded(seen[p]) /\ seen'[p] = seen[p] /\ CheckBegins(p, "after")
<1>. DEFINE i == job[p].id
<1>0. /\ step[p] = "commit" /\ p \in Instance /\ job[p] \in RevokeJob /\ i \in Id
      /\ seen[p] \in Assignment /\ CallTypes /\ StoreTypes
  BY TypesSplit DEF RevokeCommit, At, Sound, Commanded, Revoking, RevokeSteps, RevokeJob
<1>1. CASE StoreUnchanged /\ Answer(p, "conflict")
  <2>1. StoreTypes' /\ StoreStill
    BY <1>0, <1>1 DEF StoreUnchanged, StoreTypes, StoreStill
  <2>. QED  BY <1>0, <1>1, <2>1, AnswerEffect, TypesSplit DEF StillOthers, Answers
<1>2. ASSUME NEW e \in Event, NEW by \in Actor, NEW at \in Time,
             Revoke(i, [event |-> e, by |-> by, at |-> at]),
             UNCHANGED <<grantedBy, rows>>, Reverify(p)
      PROVE  StoreTypes' /\ CallTypes' /\ StillOthers(p) /\ Retires(i)
             /\ \/ ~Guarded(seen[p]) /\ HasAnswered(p, "revoked")
                \/ Guarded(seen[p]) /\ seen'[p] = seen[p] /\ CheckBegins(p, "after")
  <2>1. StoreTypes' /\ Retires(i)
    BY <1>0, <1>2, RetiresByRevoke DEF Revocation
  <2>2. CASE Guarded(seen[p]) /\ Check(p, "after") /\ UNCHANGED seen
    <3>1. seen' \in [Call -> Assignment \cup {None}] /\ \A q \in Call \ {p} : seen'[q] = seen[q]
      BY <1>0, <2>2 DEF CallTypes
    <3>. QED  BY <1>0, <2>1, <2>2, <3>1, CheckEffect, StepNames
  <2>3. CASE ~Guarded(seen[p]) /\ Answer(p, "revoked")
    BY <1>0, <2>1, <2>3, AnswerEffect DEF StillOthers, Answers
  <2>. QED  BY <1>2, <2>2, <2>3 DEF Reverify
<1>. QED  BY <1>0, <1>1, <1>2, TypesSplit DEF RevokeCommit

LEMMA RecordEffect ==
  ASSUME StoreTypes, NEW i \in Id, Record(i)
  PROVE  StoreTypes' /\ life' = life /\ grantedBy' = grantedBy /\ rows' = rows \cup {i}
BY DEF Record, StoreTypes

LEMMA RecordGuardEffect ==
  ASSUME Types, NEW p \in Call, Sound(p), RecordGuard(p)
  PROVE  /\ Types' /\ StillOthers(p) /\ step[p] = "record_guard" /\ Moves(p, "compensate")
         /\ life' = life /\ grantedBy' = grantedBy /\ rows' = rows \cup {fresh[p]}
         /\ seen'[p] = seen[p] /\ fresh'[p] = fresh[p]
<1>0. /\ step[p] = "record_guard" /\ fresh[p] \in Id /\ CallTypes /\ StoreTypes
  BY TypesSplit DEF RecordGuard, At, Sound, Fresh, CallTypes
<1>1. StoreTypes' /\ life' = life /\ grantedBy' = grantedBy /\ rows' = rows \cup {fresh[p]}
  BY <1>0, RecordEffect DEF RecordGuard
<1>2. CallTypes' /\ StillOthers(p) /\ Moves(p, "compensate")
      /\ seen'[p] = seen[p] /\ fresh'[p] = fresh[p]
  BY <1>0 DEF RecordGuard, Goto, CallTypes, StillOthers, Still, Moves, Steps, RevokeSteps
<1>. QED  BY <1>0, <1>1, <1>2, TypesSplit

LEMMA CompensateEffect ==
  ASSUME Types, NEW p \in Call, Sound(p), Compensate(p)
  PROVE  /\ Types' /\ StillOthers(p) /\ step[p] = "compensate"
         /\ fresh[p] \in Id /\ seen[p] \in Assignment
         /\ \/ Issues(fresh[p], TargetOf(seen[p]), "guard") /\ HasAnswered(p, "compensated")
            \/ /\ TupleHeld(TargetOf(seen[p])) /\ StoreStill
               /\ CheckBegins(p, "last") /\ seen'[p] = seen[p]
<1>0. /\ step[p] = "compensate" /\ fresh[p] \in Id /\ seen[p] \in Assignment
      /\ TargetOf(seen[p]) \in Target /\ CallTypes /\ StoreTypes
  BY TypesSplit
     DEF Compensate, At, Sound, Fresh, Revoking, CallTypes, RevokeSteps, TargetOf, Target, Assignment
<1>1. CASE Granted(fresh[p], TargetOf(seen[p]), "guard") /\ Answer(p, "compensated")
  <2>1. StoreTypes' /\ Issues(fresh[p], TargetOf(seen[p]), "guard")
    BY <1>0, <1>1, IssuesByGrant DEF Grantor, Earlier
  <2>. QED  BY <1>0, <1>1, <2>1, AnswerEffect, TypesSplit DEF StillOthers, Answers
<1>2. CASE /\ TupleHeld(TargetOf(seen[p])) /\ StoreUnchanged
           /\ Check(p, "last") /\ UNCHANGED seen
  <2>1. StoreTypes' /\ StoreStill
    BY <1>0, <1>2 DEF StoreUnchanged, StoreTypes, StoreStill
  <2>2. seen' \in [Call -> Assignment \cup {None}] /\ \A q \in Call \ {p} : seen'[q] = seen[q]
    BY <1>0, <1>2 DEF CallTypes
  <2>. QED  BY <1>0, <1>2, <2>1, <2>2, CheckEffect, StepNames, TypesSplit
<1>. QED  BY <1>1, <1>2 DEF Compensate

\* What the verdict of a check leaves.
Keeps(p) == seen'[p] = seen[p] /\ fresh'[p] = fresh[p] /\ begun'[p] = begun[p]

Finds(p, where) ==
    \/ where = "before" /\ Moves(p, "commit") /\ Keeps(p)
    \/ where # "before" /\ HasAnswered(p, "revoked")

FindsNobody(p, where) ==
    \/ where = "before" /\ HasAnswered(p, "last_administrator")
    \/ /\ where = "after" /\ fresh'[p] \in Unused
       /\ Moves(p, IF HostIndex THEN "record_guard" ELSE "compensate")
       /\ seen'[p] = seen[p] /\ begun'[p] = begun[p]
    \/ where = "last" /\ HasAnswered(p, "failed")

LEMMA HolderFoundEffect ==
  ASSUME CallTypes, NEW p \in Call, NEW where \in CheckSteps, HolderFound(p, where)
  PROVE  CallTypes' /\ StillOthers(p) /\ Finds(p, where)
<1>1. CASE where # "before"
  <2>1. Answer(p, "revoked")
    BY <1>1 DEF HolderFound
  <2>. QED  BY <1>1, <2>1, AnswerEffect DEF StillOthers, Answers, Finds
<1>2. CASE where = "before"
  <2>1. /\ Goto(p, "commit") /\ candidates' = [candidates EXCEPT ![p] = {}]
        /\ UNCHANGED <<seen, fresh, begun>>
    BY <1>2 DEF HolderFound
  <2>. QED  BY <1>2, <2>1
         DEF Goto, CallTypes, StillOthers, Still, Finds, Moves, Keeps, Steps, RevokeSteps
<1>. QED  BY <1>1, <1>2

LEMMA NoHolderEffect ==
  ASSUME CallTypes, NEW p \in Call, NEW where \in CheckSteps, NoHolder(p, where)
  PROVE  CallTypes' /\ StillOthers(p) /\ FindsNobody(p, where)
<1>1. CASE where = "before"
  <2>1. Answer(p, "last_administrator")
    BY <1>1 DEF NoHolder
  <2>. QED  BY <1>1, <2>1, AnswerEffect DEF StillOthers, Answers, FindsNobody
<1>2. CASE where = "last"
  <2>1. Answer(p, "failed")
    BY <1>2 DEF NoHolder
  <2>. QED  BY <1>2, <2>1, AnswerEffect DEF StillOthers, Answers, FindsNobody
<1>3. CASE where = "after"
  <2>1. /\ Goto(p, Before("record_guard", "compensate"))
        /\ candidates' = [candidates EXCEPT ![p] = {}]
        /\ UNCHANGED <<seen, begun>>
    BY <1>3 DEF NoHolder
  <2>2. PICK i \in Unused : fresh' = [fresh EXCEPT ![p] = i]
    BY <1>3 DEF NoHolder
  <2>3. i \in Id
    BY DEF Unused
  <2>4. Before("record_guard", "compensate") \in Steps
    BY DEF Before, Steps, RevokeSteps
  <2>. QED  BY <1>3, <2>1, <2>2, <2>3, <2>4
         DEF Goto, CallTypes, StillOthers, Still, FindsNobody, Moves, Before
<1>. QED  BY <1>1, <1>2, <1>3, StepNames

LEMMA ListHoldersEffect ==
  ASSUME Types, NEW p \in Call, NEW where \in CheckSteps, ListHolders(p, where)
  PROVE  /\ Types' /\ StoreStill /\ StillOthers(p) /\ step[p] = ListStep[where]
         /\ \E s \in Listing(p) :
              \/ /\ Moves(p, VerifyStep[where]) /\ Keeps(p)
                 /\ candidates'[p] = s \ Excluded(p)
              \/ s \ Excluded(p) = {} /\ FindsNobody(p, where)
<1>0. /\ step[p] = ListStep[where] /\ CallTypes /\ StoreTypes'
      /\ StoreStill /\ VerifyStep[where] \in Steps
  BY TypesSplit, StepNames
     DEF ListHolders, At, StoreUnchanged, StoreTypes, StoreStill, Steps, RevokeSteps
<1>1. PICK s \in Listing(p) :
         \/ /\ Goto(p, VerifyStep[where])
            /\ candidates' = [candidates EXCEPT ![p] = s \ Excluded(p)]
            /\ UNCHANGED <<seen, fresh, begun>>
         \/ s \ Excluded(p) = {} /\ NoHolder(p, where)
  BY DEF ListHolders
<1>2. s \subseteq Id
  BY DEF Listing, Types
<1>3. CASE /\ Goto(p, VerifyStep[where])
           /\ candidates' = [candidates EXCEPT ![p] = s \ Excluded(p)]
           /\ UNCHANGED <<seen, fresh, begun>>
  <2>1. CallTypes' /\ StillOthers(p) /\ Moves(p, VerifyStep[where]) /\ Keeps(p)
        /\ candidates'[p] = s \ Excluded(p)
    BY <1>0, <1>2, <1>3 DEF Goto, CallTypes, StillOthers, Still, Moves, Keeps
  <2>. QED  BY <1>0, <2>1, TypesSplit
<1>4. CASE s \ Excluded(p) = {} /\ NoHolder(p, where)
  BY <1>0, <1>4, NoHolderEffect, TypesSplit
<1>. QED  BY <1>1, <1>3, <1>4

LEMMA VerifyHolderEffect ==
  ASSUME Types, NEW p \in Call, NEW where \in CheckSteps, VerifyHolder(p, where)
  PROVE  /\ Types' /\ StoreStill /\ StillOthers(p) /\ step[p] = VerifyStep[where]
         /\ \E i \in candidates[p] :
              \/ Counts(i, seen[p]) /\ Finds(p, where)
              \/ /\ ~Counts(i, seen[p])
                 /\ Moves(p, VerifyStep[where]) /\ Keeps(p)
                 /\ candidates'[p] = candidates[p] \ {i}
              \/ /\ ~Counts(i, seen[p]) /\ candidates[p] = {i}
                 /\ FindsNobody(p, where)
<1>0. /\ step[p] = VerifyStep[where] /\ CallTypes /\ StoreTypes' /\ StoreStill
  BY TypesSplit DEF VerifyHolder, At, StoreUnchanged, StoreTypes, StoreStill
<1>1. PICK i \in candidates[p] :
         \/ Counts(i, seen[p]) /\ HolderFound(p, where)
         \/ /\ ~Counts(i, seen[p])
            /\ candidates' = [candidates EXCEPT ![p] = candidates[p] \ {i}]
            /\ UNCHANGED <<step, job, seen, fresh, answer, manifest, begun, cut>>
         \/ ~Counts(i, seen[p]) /\ candidates[p] \ {i} = {} /\ NoHolder(p, where)
  BY DEF VerifyHolder, Others
<1>2. CASE Counts(i, seen[p]) /\ HolderFound(p, where)
  BY <1>0, <1>2, HolderFoundEffect, TypesSplit
<1>3. CASE /\ ~Counts(i, seen[p])
           /\ candidates' = [candidates EXCEPT ![p] = candidates[p] \ {i}]
           /\ UNCHANGED <<step, job, seen, fresh, answer, manifest, begun, cut>>
  <2>1. CallTypes' /\ StillOthers(p) /\ Moves(p, VerifyStep[where]) /\ Keeps(p)
        /\ candidates'[p] = candidates[p] \ {i}
    BY <1>0, <1>3 DEF CallTypes, StillOthers, Still, Moves, Keeps
  <2>. QED  BY <1>0, <1>3, <2>1, TypesSplit
<1>4. CASE ~Counts(i, seen[p]) /\ candidates[p] \ {i} = {} /\ NoHolder(p, where)
  <2>1. candidates[p] = {i}
    BY <1>4
  <2>. QED  BY <1>0, <1>4, <2>1, NoHolderEffect, TypesSplit
<1>. QED  BY <1>1, <1>2, <1>3, <1>4

\* What each step of the other calls leaves.
LEMMA AssignListEffect ==
  ASSUME Types, NEW p \in Call, Sound(p), AssignList(p)
  PROVE  /\ Types' /\ StoreStill /\ StillOthers(p) /\ step[p] = "assign_list"
         /\ \/ HasAnswered(p, "duplicate")
            \/ /\ fresh'[p] \in Unused
               /\ Moves(p, IF HostIndex THEN "assign_record" ELSE "assign_grant")
<1>0. step[p] = "assign_list" /\ CallTypes /\ StoreTypes' /\ StoreStill
  BY TypesSplit DEF AssignList, At, StoreUnchanged, StoreTypes, StoreStill
<1>1. CASE Answer(p, "duplicate")
  BY <1>0, <1>1, AnswerEffect, TypesSplit DEF StillOthers, Answers
<1>2. CASE /\ \E i \in Unused : fresh' = [fresh EXCEPT ![p] = i]
           /\ Goto(p, Before("assign_record", "assign_grant"))
           /\ UNCHANGED <<seen, candidates, begun>>
  <2>1. PICK i \in Unused : fresh' = [fresh EXCEPT ![p] = i]
    BY <1>2
  <2>2. i \in Id /\ Before("assign_record", "assign_grant") \in Steps
    BY DEF Unused, Before, Steps, AssignSteps
  <2>3. CallTypes' /\ StillOthers(p) /\ fresh'[p] \in Unused
        /\ Moves(p, IF HostIndex THEN "assign_record" ELSE "assign_grant")
    BY <1>0, <1>2, <2>1, <2>2 DEF Goto, CallTypes, StillOthers, Still, Moves, Before
  <2>. QED  BY <1>0, <2>3, TypesSplit
<1>. QED  BY <1>1, <1>2 DEF AssignList

LEMMA AssignRecordEffect ==
  ASSUME Types, NEW p \in Call, Sound(p), AssignRecord(p)
  PROVE  /\ Types' /\ StillOthers(p) /\ step[p] = "assign_record" /\ Moves(p, "assign_grant")
         /\ life' = life /\ grantedBy' = grantedBy /\ rows' = rows \cup {fresh[p]}
         /\ fresh'[p] = fresh[p]
<1>0. step[p] = "assign_record" /\ fresh[p] \in Id /\ CallTypes /\ StoreTypes
  BY TypesSplit DEF AssignRecord, At, Sound, Fresh, CallTypes
<1>1. StoreTypes' /\ life' = life /\ grantedBy' = grantedBy /\ rows' = rows \cup {fresh[p]}
  BY <1>0, RecordEffect DEF AssignRecord
<1>2. CallTypes' /\ StillOthers(p) /\ Moves(p, "assign_grant") /\ fresh'[p] = fresh[p]
  BY <1>0 DEF AssignRecord, Goto, CallTypes, StillOthers, Still, Moves, Steps, AssignSteps
<1>. QED  BY <1>0, <1>1, <1>2, TypesSplit

LEMMA AssignGrantEffect ==
  ASSUME Types, NEW p \in Call, Sound(p), AssignGrant(p)
  PROVE  /\ Types' /\ StillOthers(p) /\ step[p] = "assign_grant" /\ fresh[p] \in Id
         /\ \/ /\ Issues(fresh[p], job[p].target, "human") /\ HasAnswered(p, "assigned")
            \/ StoreStill /\ HasAnswered(p, "duplicate")
<1>0. /\ step[p] = "assign_grant" /\ fresh[p] \in Id /\ job[p].target \in Target
      /\ CallTypes /\ StoreTypes
  BY TypesSplit
     DEF AssignGrant, At, Sound, Fresh, Commanded, CallTypes, AssignSteps, AssignJob
<1>1. CASE Granted(fresh[p], job[p].target, "human") /\ Answer(p, "assigned")
  <2>1. StoreTypes' /\ Issues(fresh[p], job[p].target, "human")
    BY <1>0, <1>1, IssuesByGrant DEF Grantor, Earlier
  <2>. QED  BY <1>0, <1>1, <2>1, AnswerEffect, TypesSplit DEF StillOthers, Answers
<1>2. CASE Answer(p, "duplicate") /\ StoreUnchanged
  <2>1. StoreTypes' /\ StoreStill
    BY <1>0, <1>2 DEF StoreUnchanged, StoreTypes, StoreStill
  <2>. QED  BY <1>0, <1>2, <2>1, AnswerEffect, TypesSplit DEF StillOthers, Answers
<1>. QED  BY <1>1, <1>2 DEF AssignGrant

LEMMA ViewListEffect ==
  ASSUME Types, NEW p \in Call, ViewList(p)
  PROVE  /\ Types' /\ StoreStill /\ StillOthers(p) /\ step[p] = "view_list"
         /\ \/ /\ Moves(p, "view_record") /\ Keeps(p)
               /\ candidates'[p] = Viewed(job[p].loc)
            \/ (~HostIndex \/ Viewed(job[p].loc) = {}) /\ HasAnswered(p, "viewed")
<1>0. step[p] = "view_list" /\ CallTypes /\ StoreTypes' /\ StoreStill
  BY TypesSplit DEF ViewList, At, StoreUnchanged, StoreTypes, StoreStill
<1>1. CASE /\ candidates' = [candidates EXCEPT ![p] = Viewed(job[p].loc)]
           /\ Goto(p, "view_record")
           /\ UNCHANGED <<seen, fresh, begun>>
  <2>1. Viewed(job[p].loc) \subseteq Id
    BY DEF Viewed
  <2>2. CallTypes' /\ StillOthers(p) /\ Moves(p, "view_record") /\ Keeps(p)
        /\ candidates'[p] = Viewed(job[p].loc)
    BY <1>0, <1>1, <2>1 DEF Goto, CallTypes, StillOthers, Still, Moves, Keeps, Steps, ViewSteps
  <2>. QED  BY <1>0, <2>2, TypesSplit
<1>2. CASE /\ ~HostIndex \/ Viewed(job[p].loc) = {}
           /\ Answer(p, "viewed")
  BY <1>0, <1>2, AnswerEffect, TypesSplit DEF StillOthers, Answers
<1>. QED  BY <1>1, <1>2 DEF ViewList

LEMMA ViewRecordEffect ==
  ASSUME Types, NEW p \in Call, ViewRecord(p)
  PROVE  /\ Types' /\ StillOthers(p) /\ step[p] = "view_record"
         /\ life' = life /\ grantedBy' = grantedBy
         /\ \E i \in candidates[p] :
              /\ rows' = rows \cup {i}
              /\ \/ candidates[p] = {i} /\ HasAnswered(p, "viewed")
                 \/ /\ Moves(p, "view_record") /\ Keeps(p)
                    /\ candidates'[p] = candidates[p] \ {i}
<1>0. step[p] = "view_record" /\ CallTypes /\ StoreTypes
  BY TypesSplit DEF ViewRecord, At
<1>1. PICK i \in candidates[p] :
         /\ Record(i)
         /\ \/ candidates[p] = {i} /\ Answer(p, "viewed")
            \/ /\ candidates' = [candidates EXCEPT ![p] = @ \ {i}]
               /\ UNCHANGED <<step, job, seen, fresh, answer, manifest, begun, cut>>
  BY DEF ViewRecord
<1>2. StoreTypes' /\ life' = life /\ grantedBy' = grantedBy /\ rows' = rows \cup {i}
  <2>1. i \in Id
    BY <1>0 DEF CallTypes
  <2>. QED  BY <1>0, <1>1, <2>1, RecordEffect
<1>3. CASE candidates[p] = {i} /\ Answer(p, "viewed")
  BY <1>0, <1>2, <1>3, AnswerEffect, TypesSplit DEF StillOthers, Answers
<1>4. CASE /\ candidates' = [candidates EXCEPT ![p] = @ \ {i}]
           /\ UNCHANGED <<step, job, seen, fresh, answer, manifest, begun, cut>>
  <2>1. CallTypes' /\ StillOthers(p) /\ Moves(p, "view_record") /\ Keeps(p)
        /\ candidates'[p] = candidates[p] \ {i}
    BY <1>0, <1>4 DEF CallTypes, StillOthers, Still, Moves, Keeps
  <2>. QED  BY <1>0, <1>2, <2>1, TypesSplit
<1>. QED  BY <1>1, <1>3, <1>4

LEMMA SeedHistoryEffect ==
  ASSUME Types, NEW p \in Call, SeedHistory(p)
  PROVE  /\ Types' /\ StoreStill /\ StillOthers(p) /\ step[p] = "seed_history"
         /\ \/ HasAnswered(p, "already")
            \/ /\ ~Seeded(job[p].target) /\ Keeps(p)
               /\ Moves(p, IF HostIndex THEN "seed_record" ELSE "seed_grant")
<1>0. step[p] = "seed_history" /\ CallTypes /\ StoreTypes' /\ StoreStill
  BY TypesSplit DEF SeedHistory, At, StoreUnchanged, StoreTypes, StoreStill
<1>1. CASE Answer(p, "already")
  BY <1>0, <1>1, AnswerEffect, TypesSplit DEF StillOthers, Answers
<1>2. CASE /\ ~Seeded(job[p].target)
           /\ Goto(p, Before("seed_record", "seed_grant"))
           /\ UNCHANGED <<seen, candidates, fresh, begun>>
  <2>1. Before("seed_record", "seed_grant") \in Steps
    BY DEF Before, Steps, SeedSteps
  <2>2. CallTypes' /\ StillOthers(p) /\ Keeps(p)
        /\ Moves(p, IF HostIndex THEN "seed_record" ELSE "seed_grant")
    BY <1>0, <1>2, <2>1 DEF Goto, CallTypes, StillOthers, Still, Moves, Keeps, Before
  <2>. QED  BY <1>0, <1>2, <2>2, TypesSplit
<1>. QED  BY <1>1, <1>2 DEF SeedHistory

LEMMA SeedRecordEffect ==
  ASSUME Types, NEW p \in Call, Sound(p), SeedRecord(p)
  PROVE  /\ Types' /\ StillOthers(p) /\ step[p] = "seed_record" /\ Moves(p, "seed_grant")
         /\ life' = life /\ grantedBy' = grantedBy /\ rows' = rows \cup {job[p].id}
         /\ Keeps(p)
<1>0. step[p] = "seed_record" /\ job[p].id \in Id /\ CallTypes /\ StoreTypes
  BY TypesSplit, AdministrationAssumption
     DEF SeedRecord, At, Sound, Commanded, SeedSteps, SeedJob
<1>1. StoreTypes' /\ life' = life /\ grantedBy' = grantedBy /\ rows' = rows \cup {job[p].id}
  BY <1>0, RecordEffect DEF SeedRecord
<1>2. CallTypes' /\ StillOthers(p) /\ Moves(p, "seed_grant") /\ Keeps(p)
  BY <1>0 DEF SeedRecord, Goto, CallTypes, StillOthers, Still, Moves, Keeps, Steps, SeedSteps
<1>. QED  BY <1>0, <1>1, <1>2, TypesSplit

LEMMA SeedGrantEffect ==
  ASSUME Types, NEW p \in Call, Sound(p), SeedGrant(p)
  PROVE  /\ Types' /\ StillOthers(p) /\ step[p] = "seed_grant"
         /\ job[p].id \in Id /\ job[p].id \in SeedId
         /\ \/ Issues(job[p].id, job[p].target, "seed") /\ HasAnswered(p, "granted")
            \/ StoreStill /\ \E s \in {"already", "conflict"} : HasAnswered(p, s)
<1>0. /\ step[p] = "seed_grant" /\ job[p].id \in Id /\ job[p].id \in SeedId
      /\ job[p].target \in Target /\ CallTypes /\ StoreTypes
  BY TypesSplit, AdministrationAssumption
     DEF SeedGrant, At, Sound, Commanded, SeedSteps, SeedJob
<1>1. CASE Granted(job[p].id, job[p].target, "seed") /\ Answer(p, "granted")
  <2>1. StoreTypes' /\ Issues(job[p].id, job[p].target, "seed")
    BY <1>0, <1>1, IssuesByGrant DEF Grantor, Earlier
  <2>. QED  BY <1>0, <1>1, <2>1, AnswerEffect, TypesSplit DEF StillOthers, Answers
<1>2. CASE StoreUnchanged /\ \E s \in {"already", "conflict"} : Answer(p, s)
  <2>1. StoreTypes' /\ StoreStill
    BY <1>0, <1>2 DEF StoreUnchanged, StoreTypes, StoreStill
  <2>. QED  BY <1>0, <1>2, <2>1, AnswerEffect, TypesSplit DEF StillOthers, Answers
<1>. QED  BY <1>1, <1>2 DEF SeedGrant

-----------------------------------------------------------------------------
\* A call that waits stays sound while others move the store forward.

LEMMA ForwardTransitive ==
  ASSUME NEW a, NEW b, NEW c, Forward(a, b), Forward(b, c)
  PROVE  Forward(a, c)
BY DEF Forward, SameGrant, Active, Revoked

Advance == (\A i \in Id : Forward(life[i], life'[i])) /\ rows \subseteq rows'

LEMMA StaysBehind ==
  ASSUME NEW then, Behind(then), Advance
  PROVE  /\ \A i \in Id : Forward(then.life[i], life'[i])
         /\ then.rows \subseteq rows'
         /\ \A i \in Id : Active(then.life[i]) /\ Active(life'[i]) => life'[i] = life[i]
<1>1. ASSUME NEW i \in Id
      PROVE  /\ Forward(then.life[i], life'[i])
             /\ Active(then.life[i]) /\ Active(life'[i]) => life'[i] = life[i]
  <2>1. Forward(then.life[i], life[i]) /\ Forward(life[i], life'[i])
    BY DEF Behind, Advance
  <2>. QED  BY <2>1, ForwardTransitive DEF Forward, Active
<1>. QED  BY <1>1 DEF Behind, Advance

LEMMA StillSound ==
  ASSUME NEW p \in Call, Sound(p), Types, Still(p), Advance,
         fresh[p] # None => life'[fresh[p]] = None
  PROVE  Sound(p)'
<1>1. Commanded(p)'
  BY DEF Sound, Commanded, Still
<1>2. Fresh(p)'
  BY DEF Sound, Fresh, Still
<1>3. RowFirst(p)'
  BY DEF Sound, RowFirst, Still, Advance
<1>4. Revoking(p)'
  <2>1. step[p] \in RevokeSteps => job[p].id \in Id
    BY DEF Sound, Commanded, RevokeJob
  <2>2. AfterCommit \subseteq RevokeSteps \ {"get"}
    BY DEF AfterCommit, RevokeSteps
  <2>3. ASSUME step[p] \in RevokeSteps \ {"get"}
        PROVE  /\ life'[job[p].id] # None /\ SameGrant(seen[p], life'[job[p].id])
               /\ Revoked(life[job[p].id]) => Revoked(life'[job[p].id])
    <3>1. life[job[p].id] # None /\ SameGrant(seen[p], life[job[p].id])
      BY <2>3 DEF Sound, Revoking
    <3>2. Forward(life[job[p].id], life'[job[p].id])
      BY <2>1, <2>3 DEF Advance
    <3>. QED  BY <3>1, <3>2 DEF Forward, SameGrant, Revoked
  <2>. QED  BY <2>2, <2>3 DEF Sound, Revoking, Still
<1>5. Checking(p)'
  <2>1. CASE step[p] \notin ListSteps \cup VerifySteps
    BY <2>1 DEF Checking, Still, VerifySteps
  <2>2. CASE step[p] \in ListSteps \cup VerifySteps
    <3>1. begun[p] \in Snapshot /\ Behind(begun[p])
      BY <2>2 DEF Sound, Checking
    <3>2. /\ \A i \in Id : Forward(begun[p].life[i], life'[i])
          /\ begun[p].rows \subseteq rows'
          /\ \A i \in Id :
               Active(begun[p].life[i]) /\ Active(life'[i]) => life'[i] = life[i]
      BY <3>1, StaysBehind
    <3>3. \A i \in Id : HeldThroughout(p, i)' => HeldThroughout(p, i)
      BY <3>2 DEF HeldThroughout, Still
    <3>. QED  BY <3>1, <3>2, <3>3 DEF Sound, Checking, Still, Behind
  <2>. QED  BY <2>1, <2>2
<1>6. Viewing(p)'
  <2>1. CASE step[p] \notin ViewSteps
    BY <2>1 DEF Viewing, Still, ViewSteps
  <2>2. CASE step[p] \in ViewSteps
    <3>1. begun[p] \in Snapshot /\ Behind(begun[p])
      BY <2>2 DEF Sound, Viewing
    <3>2. /\ \A i \in Id : Forward(begun[p].life[i], life'[i])
          /\ begun[p].rows \subseteq rows'
          /\ \A i \in Id :
               Active(begun[p].life[i]) /\ Active(life'[i]) => life'[i] = life[i]
      BY <3>1, StaysBehind
    <3>. QED  BY <3>1, <3>2 DEF Sound, Viewing, Still, Behind, Advance
  <2>. QED  BY <2>1, <2>2
<1>7. HasViewed(p)'
  <2>1. CASE ~(step[p] = "answered" /\ answer[p] = "viewed")
    BY <2>1 DEF HasViewed, Still
  <2>2. CASE step[p] = "answered" /\ answer[p] = "viewed"
    <3>1. begun[p] \in Snapshot /\ Behind(begun[p])
      BY <2>2 DEF Sound, HasViewed
    <3>2. /\ \A i \in Id : Forward(begun[p].life[i], life'[i])
          /\ begun[p].rows \subseteq rows'
          /\ \A i \in Id :
               Active(begun[p].life[i]) /\ Active(life'[i]) => life'[i] = life[i]
      BY <3>1, StaysBehind
    <3>. QED  BY <2>2, <3>1, <3>2 DEF Sound, HasViewed, Still, Behind, Advance
  <2>. QED  BY <2>1, <2>2
<1>8. Seeding(p)'
  <2>1. CASE step[p] \notin SeedSteps
    BY <2>1 DEF Seeding, Still, SeedSteps
  <2>2. CASE step[p] \in SeedSteps
    <3>1. begun[p] \in Snapshot /\ Behind(begun[p])
      BY <2>2 DEF Sound, Seeding
    <3>2. /\ \A i \in Id : Forward(begun[p].life[i], life'[i])
          /\ begun[p].rows \subseteq rows'
      BY <3>1, StaysBehind
    <3>. QED  BY <3>1, <3>2 DEF Sound, Seeding, Still, Behind
  <2>. QED  BY <2>1, <2>2
<1>. QED  BY <1>1, <1>2, <1>3, <1>4, <1>5, <1>6, <1>7, <1>8 DEF Sound

-----------------------------------------------------------------------------
\* What a step of one call has to show for the invariant to hold after it.

\* The ids of the other calls stay nobody's.
SparesFresh(p) == \A q \in Call \ {p} : fresh[q] # None => life'[fresh[q]] = None

\* No administrator goes, and no scope has had one of which nothing is left.
AdministratorsKept ==
    \A s \in Scope :
      /\ Administrators(s) \subseteq Administrators(s)'
      /\ HadAdministrator(s)' => HadAdministrator(s) \/ Administrators(s)' # {}

FreshKept(p) == fresh'[p] \in {None, fresh[p]} \/ fresh'[p] \in Unused

\* A repair that p no longer makes is not needed, or p was cut off.
HandsOver(p) ==
    Repairing(p) => \/ Repairing(p)' /\ seen'[p] = seen[p]
                    \/ cut'
                    \/ \E s \in Scope : s = seen[p].loc.scope /\ Administrators(s)' # {}

LEMMA CallsStaySound ==
  ASSUME AdminInv, NEW p \in Call, StillOthers(p), Advance, SparesFresh(p),
         FreshKept(p), Sound(p)'
  PROVE  (\A q \in Call : Sound(q)') /\ FreshDistinct'
<1>1. ASSUME NEW q \in Call PROVE Sound(q)'
  <2>1. CASE q = p
    BY <2>1
  <2>2. CASE q # p
    BY <2>2, StillSound DEF AdminInv, StillOthers, SparesFresh
  <2>. QED  BY <2>1, <2>2
<1>2. ASSUME NEW q \in Call, NEW r \in Call, fresh'[q] # None, fresh'[q] = fresh'[r]
      PROVE  q = r
  <2>1. \A x \in Call \ {p} : fresh'[x] = fresh[x]
    BY DEF StillOthers, Still
  <2>2. ASSUME NEW x \in Call \ {p}, fresh'[x] # None, fresh'[x] = fresh'[p]
        PROVE  FALSE
    <3>1. fresh[x] = fresh'[p] /\ fresh[x] # None
      BY <2>1, <2>2
    <3>2. fresh'[p] \notin Unused
      BY <3>1 DEF Unused
    <3>. QED  BY <3>1, <3>2 DEF FreshKept, AdminInv, FreshDistinct
  <2>. QED  BY <1>2, <2>1, <2>2 DEF AdminInv, FreshDistinct
<1>. QED  BY <1>1, <1>2 DEF FreshDistinct

LEMMA OneInstance ==
  ASSUME Cardinality(Instance) = 1, NEW p \in Instance, NEW q \in Instance
  PROVE  p = q
<1>1. IsFiniteSet(Instance)
  BY AdministrationAssumption
<1>2. \E x : Instance = {x}
  BY <1>1, FS_Singleton
<1>. QED  BY <1>2

LEMMA AdministrationStays ==
  ASSUME AdminInv, NEW p \in Call, StillOthers(p), AdministratorsKept,
         cut => cut', HandsOver(p), LeavesAnother(p)'
  PROVE  AdministratorInHand' /\ SingleSafe'
<1>1. ASSUME NEW s \in Scope, HadAdministrator(s)', Administrators(s)' = {}
      PROVE  \/ cut'
             \/ \E q \in Instance : Repairing(q)' /\ seen'[q].loc.scope = s
  <2>1. HadAdministrator(s) /\ Administrators(s) = {}
    BY <1>1 DEF AdministratorsKept
  <2>2. CASE cut
    BY <2>2
  <2>3. ASSUME NEW q \in Instance, Repairing(q), seen[q].loc.scope = s
        PROVE  cut' \/ (Repairing(q)' /\ seen'[q].loc.scope = s)
    <3>1. q \in Call
      BY DEF Call
    <3>2. CASE q = p
      BY <1>1, <2>3, <3>2 DEF HandsOver, Repairing, Administrators, HoldersOf
    <3>3. CASE q # p
      BY <2>3, <3>1, <3>3 DEF StillOthers, Still, Repairing
    <3>. QED  BY <3>2, <3>3
  <2>. QED  BY <2>1, <2>2, <2>3 DEF AdminInv, AdministratorInHand
<1>2. ASSUME Cardinality(Instance) = 1, NEW q \in Instance
      PROVE  LeavesAnother(q)'
  <2>1. CASE q = p
    BY <2>1
  <2>2. CASE q # p
    <3>1. Still(q) /\ LeavesAnother(q) /\ Sound(q)
      BY <1>2, <2>2 DEF Call, StillOthers, AdminInv, SingleSafe
    <3>2. step[q] = "commit" => seen[q].loc.scope \in Scope
      BY <3>1 DEF Sound, Revoking, RevokeSteps, Assignment, Location
    <3>. QED  BY <3>1, <3>2 DEF LeavesAnother, Still, AdministratorsKept
  <2>. QED  BY <2>1, <2>2
<1>3. ASSUME Cardinality(Instance) = 1, NEW s \in Scope, HadAdministrator(s)'
      PROVE  Administrators(s)' # {}
  BY <1>3 DEF AdministratorsKept, AdminInv, SingleSafe
<1>. QED  BY <1>1, <1>2, <1>3 DEF AdministratorInHand, SingleSafe

-----------------------------------------------------------------------------
\* What the three ways to change the store keep.

LEMMA NothingChanges ==
  ASSUME life' = life, grantedBy' = grantedBy, rows \subseteq rows', NEW p \in Call,
         AdminInv
  PROVE  /\ Advance /\ SparesFresh(p) /\ AdministratorsKept /\ HostIndexCovers'
<1>1. Advance
  BY DEF Advance, Forward, SameGrant
<1>2. SparesFresh(p)
  BY DEF SparesFresh, AdminInv, Sound, Fresh
<1>3. AdministratorsKept
  BY DEF AdministratorsKept, Administrators, HoldersOf, HadAdministrator
<1>4. HostIndexCovers'
  BY DEF AdminInv, HostIndexCovers
<1>. QED  BY <1>1, <1>2, <1>3, <1>4

LEMMA GrantKeeps ==
  ASSUME AdminInv, NEW p \in Call, NEW i \in Id, NEW t, NEW by, Issues(i, t, by),
         i = fresh[p] \/ i \in SeedId,
         HostIndex => i \in rows
  PROVE  Advance /\ SparesFresh(p) /\ AdministratorsKept /\ HostIndexCovers'
<1>1. Advance
  BY DEF Advance, Forward, SameGrant, Issues
<1>2. SparesFresh(p)
  <2>1. ASSUME NEW q \in Call \ {p}, fresh[q] # None
        PROVE  life'[fresh[q]] = None
    <3>1. fresh[q] \in Id /\ fresh[q] \notin SeedId /\ life[fresh[q]] = None
      BY <2>1 DEF AdminInv, Types, Sound, Fresh
    <3>2. fresh[q] # i
      BY <2>1, <3>1 DEF AdminInv, FreshDistinct
    <3>. QED  BY <3>1, <3>2 DEF Issues
  <2>. QED  BY <2>1 DEF SparesFresh
<1>3. AdministratorsKept
  <2>1. ASSUME NEW s \in Scope, NEW j \in Administrators(s)
        PROVE  j \in Administrators(s)'
    <3>1. j \in Id /\ j # i
      BY DEF Administrators, HoldersOf, Active, Issues
    <3>. QED  BY <3>1 DEF Administrators, HoldersOf, Issues
  <2>2. ASSUME NEW s \in Scope, HadAdministrator(s)', ~HadAdministrator(s)
        PROVE  i \in Administrators(s)'
    <3>1. PICK j \in Id : life'[j] # None /\ life'[j].loc.scope = s /\ life'[j].role = Admin
      BY <2>2 DEF HadAdministrator
    <3>2. j = i
      BY <2>2, <3>1 DEF HadAdministrator, Issues
    <3>. QED  BY <3>1, <3>2 DEF Administrators, HoldersOf, Issues
  <2>. QED  BY <2>1, <2>2 DEF AdministratorsKept
<1>4. HostIndexCovers'
  BY DEF AdminInv, HostIndexCovers, Issues
<1>. QED  BY <1>1, <1>2, <1>3, <1>4

LEMMA RevocationKeeps ==
  ASSUME AdminInv, NEW p \in Call, NEW i \in Id, Retires(i)
  PROVE  Advance /\ SparesFresh(p) /\ HostIndexCovers'
<1>1. Advance
  BY DEF Advance, Forward, SameGrant, Retires, Active, Revoked
<1>2. SparesFresh(p)
  BY DEF SparesFresh, AdminInv, Sound, Fresh, Types, Retires, Active
<1>3. HostIndexCovers'
  BY DEF AdminInv, HostIndexCovers, Retires, Active
<1>. QED  BY <1>1, <1>2, <1>3

-----------------------------------------------------------------------------
\* Each step keeps the invariant: first what ends a call, or begins a check.

LEMMA StepKinds ==
  /\ AfterCommit \subseteq RevokeSteps \ {"get", "commit"}
  /\ ListSteps \cup VerifySteps \subseteq RevokeSteps
  /\ \A s \in {"idle", "answered"} :
       s \notin RevokeSteps \cup AssignSteps \cup ViewSteps \cup SeedSteps
  /\ \A s \in RevokeSteps : s \notin AssignSteps \cup ViewSteps \cup SeedSteps
  /\ \A s \in AssignSteps : s \notin RevokeSteps \cup ViewSteps \cup SeedSteps
  /\ \A s \in ViewSteps : s \notin RevokeSteps \cup AssignSteps \cup SeedSteps
  /\ \A s \in SeedSteps : s \notin RevokeSteps \cup AssignSteps \cup ViewSteps
BY DEF AfterCommit, RevokeSteps, ListSteps, VerifySteps, AssignSteps, ViewSteps, SeedSteps

LEMMA EndedSound ==
  ASSUME NEW p \in Call, fresh'[p] = None,
         \/ step'[p] = "idle"
         \/ step'[p] = "answered" /\ answer'[p] # "viewed"
  PROVE  Sound(p)' /\ FreshKept(p) /\ LeavesAnother(p)'
<1>1. Commanded(p)' /\ Revoking(p)' /\ Seeding(p)' /\ Viewing(p)' /\ Checking(p)'
  BY StepKinds DEF Commanded, Revoking, Seeding, Viewing, Checking,
                   RevokeSteps, SeedSteps, ViewSteps, ListSteps, VerifySteps
<1>2. Fresh(p)' /\ RowFirst(p)' /\ HasViewed(p)'
  BY DEF Fresh, RowFirst, HasViewed
<1>. QED  BY <1>1, <1>2 DEF Sound, FreshKept, LeavesAnother

LEMMA AnsweredSound ==
  ASSUME NEW p \in Call, NEW s, s # "viewed", HasAnswered(p, s)
  PROVE  Sound(p)' /\ FreshKept(p) /\ LeavesAnother(p)'
BY EndedSound DEF HasAnswered

\* A revocation at a step that neither commits nor records nor grants.
LEMMA CheckSound ==
  ASSUME AdminInv, NEW p \in Instance, NEW where \in CheckSteps, Types',
         job[p] \in RevokeJob, CheckBegins(p, where),
         seen'[p] \in Assignment, Active(seen'[p]), Guarded(seen'[p]),
         life'[job[p].id] # None, SameGrant(seen'[p], life'[job[p].id]),
         where # "before" => Revoked(life'[job[p].id]),
         fresh[p] # None => life'[fresh[p]] = None
  PROVE  Sound(p)' /\ FreshKept(p) /\ LeavesAnother(p)'
<1>0. /\ step'[p] \in ListSteps /\ job'[p] = job[p] /\ fresh'[p] = fresh[p]
      /\ begun'[p] = [life |-> life', rows |-> rows'] /\ p \in Call
      /\ step'[p] \in AfterCommit => where # "before"
  BY StepNames DEF CheckBegins, Moves, Begins, ListSteps, Call, AfterCommit
<1>1. Commanded(p)'
  BY <1>0, StepKinds DEF Commanded
<1>2. Fresh(p)' /\ RowFirst(p)'
  BY <1>0 DEF Fresh, RowFirst, ListSteps, AdminInv, Sound
<1>3. Revoking(p)'
  BY <1>0 DEF Revoking
<1>4. Checking(p)'
  <2>1. begun'[p] \in Snapshot
    BY <1>0 DEF Types, Snapshot
  <2>2. Behind(begun[p])'
    BY <1>0 DEF Behind, Forward, SameGrant
  <2>. QED  BY <1>0, <2>1, <2>2 DEF Checking, ListSteps, VerifySteps
<1>5. Viewing(p)' /\ Seeding(p)' /\ HasViewed(p)'
  BY <1>0 DEF Viewing, Seeding, HasViewed, ListSteps, ViewSteps, SeedSteps
<1>. QED
  BY <1>0, <1>1, <1>2, <1>3, <1>4, <1>5 DEF Sound, FreshKept, LeavesAnother, ListSteps

LEMMA StepKeeps ==
  ASSUME AdminInv, NEW p \in Call, Types', StillOthers(p), Advance, SparesFresh(p),
         AdministratorsKept, HostIndexCovers', Sound(p)', FreshKept(p),
         LeavesAnother(p)', HandsOver(p), cut => cut'
  PROVE  AdminInv'
BY CallsStaySound, AdministrationStays DEF AdminInv

LEMMA LeaveKeeps ==
  ASSUME AdminInv, NEW p \in Call, Leave(p) PROVE AdminInv'
<1>1. /\ Types' /\ StillOthers(p) /\ StoreStill /\ step'[p] = "idle" /\ fresh'[p] = None
      /\ cut' = (cut \/ step[p] \in AfterCommit)
  BY LeaveEffect DEF AdminInv, StillOthers
<1>2. Advance /\ SparesFresh(p) /\ AdministratorsKept /\ HostIndexCovers'
  BY <1>1, NothingChanges DEF StoreStill
<1>3. Sound(p)' /\ FreshKept(p) /\ LeavesAnother(p)'
  BY <1>1, EndedSound
<1>4. HandsOver(p) /\ (cut => cut')
  BY <1>1 DEF HandsOver, Repairing, AfterCommit
<1>. QED  BY <1>1, <1>2, <1>3, <1>4, StepKeeps

LEMMA RevokeGetKeeps ==
  ASSUME AdminInv, NEW p \in Instance, RevokeGet(p) PROVE AdminInv'
<1>0. p \in Call /\ Sound(p) /\ Types
  BY DEF Call, AdminInv
<1>1. /\ Types' /\ StoreStill /\ StillOthers(p) /\ step[p] = "get"
      /\ \/ \E s \in {"not_found", "already_revoked", "system_managed"} : HasAnswered(p, s)
         \/ /\ seen'[p] = life[job[p].id] /\ Active(seen'[p])
            /\ \/ Guarded(seen'[p]) /\ CheckBegins(p, "before")
               \/ /\ ~Guarded(seen'[p]) /\ Moves(p, "commit")
                  /\ candidates'[p] = candidates[p] /\ fresh'[p] = fresh[p]
                  /\ begun'[p] = begun[p]
  BY <1>0, RevokeGetEffect
<1>2. Advance /\ SparesFresh(p) /\ AdministratorsKept /\ HostIndexCovers'
  BY <1>0, <1>1, NothingChanges DEF StoreStill
<1>3. job[p] \in RevokeJob /\ job[p].id \in Id
  BY <1>0, <1>1 DEF Sound, Commanded, RevokeSteps, RevokeJob
<1>4. (fresh[p] # None => life'[fresh[p]] = None)
  BY <1>0, <1>1 DEF Sound, Fresh, StoreStill
<1>5. Sound(p)' /\ FreshKept(p) /\ LeavesAnother(p)' /\ cut' = cut
  <2>1. CASE \E s \in {"not_found", "already_revoked", "system_managed"} : HasAnswered(p, s)
    BY <1>0, <2>1, AnsweredSound DEF HasAnswered
  <2>2. ASSUME seen'[p] = life[job[p].id], Active(seen'[p])
        PROVE  /\ seen'[p] \in Assignment /\ life'[job[p].id] # None
               /\ SameGrant(seen'[p], life'[job[p].id])
    BY <1>0, <1>1, <1>3, <2>2 DEF Types, Lives, Active, SameGrant, StoreStill
  <2>3. CASE /\ seen'[p] = life[job[p].id] /\ Active(seen'[p])
             /\ Guarded(seen'[p]) /\ CheckBegins(p, "before")
    <3>1. cut' = cut
      BY <2>3 DEF CheckBegins, Moves
    <3>. QED  BY <1>1, <1>3, <1>4, <2>2, <2>3, <3>1, CheckSound, StepNames
  <2>4. CASE /\ seen'[p] = life[job[p].id] /\ Active(seen'[p])
             /\ ~Guarded(seen'[p]) /\ Moves(p, "commit") /\ fresh'[p] = fresh[p]
    <3>1. step'[p] = "commit" /\ job'[p] = job[p] /\ cut' = cut
      BY <2>4 DEF Moves
    <3>2. Commanded(p)' /\ Revoking(p)'
      BY <1>3, <2>2, <2>4, <3>1, StepKinds DEF Commanded, Revoking, AfterCommit, RevokeSteps
    <3>3. Fresh(p)' /\ RowFirst(p)' /\ Checking(p)' /\ Viewing(p)' /\ HasViewed(p)' /\ Seeding(p)'
      BY <1>0, <1>4, <2>4, <3>1
         DEF Sound, Fresh, RowFirst, Checking, Viewing, HasViewed, Seeding,
             ListSteps, VerifySteps, ViewSteps, SeedSteps
    <3>. QED  BY <2>4, <3>1, <3>2, <3>3 DEF Sound, FreshKept, LeavesAnother
  <2>. QED  BY <1>1, <2>1, <2>3, <2>4
<1>6. HandsOver(p)
  BY <1>1 DEF HandsOver, Repairing
<1>. QED  BY <1>0, <1>1, <1>2, <1>5, <1>6, StepKeeps

LEMMA RevokeCommitKeeps ==
  ASSUME AdminInv, NEW p \in Instance, RevokeCommit(p) PROVE AdminInv'
<1>. DEFINE i == job[p].id
<1>0. p \in Call /\ Sound(p) /\ Types
  BY DEF Call, AdminInv
<1>1. /\ Types' /\ StillOthers(p) /\ step[p] = "commit"
      /\ job[p] \in RevokeJob /\ i \in Id /\ seen[p] \in Assignment
      /\ \/ StoreStill /\ HasAnswered(p, "conflict")
         \/ /\ Retires(i)
            /\ \/ ~Guarded(seen[p]) /\ HasAnswered(p, "revoked")
               \/ Guarded(seen[p]) /\ seen'[p] = seen[p] /\ CheckBegins(p, "after")
  BY <1>0, RevokeCommitEffect
<1>2. life[i] # None /\ SameGrant(seen[p], life[i]) /\ Active(seen[p])
  BY <1>0, <1>1 DEF Sound, Revoking, RevokeSteps
<1>3. HandsOver(p)
  BY <1>1 DEF HandsOver, Repairing
<1>4. CASE StoreStill /\ HasAnswered(p, "conflict")
  <2>1. Advance /\ SparesFresh(p) /\ AdministratorsKept /\ HostIndexCovers'
    BY <1>0, <1>4, NothingChanges DEF StoreStill
  <2>2. Sound(p)' /\ FreshKept(p) /\ LeavesAnother(p)' /\ cut' = cut
    BY <1>0, <1>4, AnsweredSound DEF HasAnswered
  <2>. QED  BY <1>0, <1>1, <1>3, <2>1, <2>2, StepKeeps
<1>5. CASE Retires(i) /\ ~Guarded(seen[p]) /\ HasAnswered(p, "revoked")
  <2>1. Advance /\ SparesFresh(p) /\ HostIndexCovers'
    BY <1>0, <1>1, <1>5, RevocationKeeps
  <2>2. AdministratorsKept
    <3>1. life[i].role # Admin /\ life'[i].role # Admin
      BY <1>2, <1>5 DEF SameGrant, Guarded, Retires
    <3>. QED  BY <1>5, <3>1
           DEF AdministratorsKept, Administrators, HoldersOf, HadAdministrator, Retires
  <2>3. Sound(p)' /\ FreshKept(p) /\ LeavesAnother(p)' /\ cut' = cut
    BY <1>0, <1>5, AnsweredSound DEF HasAnswered
  <2>. QED  BY <1>0, <1>1, <1>3, <2>1, <2>2, <2>3, StepKeeps
<1>6. CASE Retires(i) /\ Guarded(seen[p]) /\ seen'[p] = seen[p] /\ CheckBegins(p, "after")
  <2>. DEFINE scope == seen[p].loc.scope
  <2>1. Advance /\ SparesFresh(p) /\ HostIndexCovers'
    BY <1>0, <1>1, <1>6, RevocationKeeps
  <2>2. Sound(p)' /\ FreshKept(p)
    <3>1. /\ life'[i] # None /\ SameGrant(seen[p], life'[i]) /\ Revoked(life'[i])
      BY <1>2, <1>6 DEF Retires, SameGrant, Revoked
    <3>2. fresh[p] # None => life'[fresh[p]] = None
      BY <1>0, <1>6 DEF Sound, Fresh, Retires, Active, Types
    <3>. QED  BY <1>0, <1>1, <1>2, <1>6, <3>1, <3>2, CheckSound, StepNames
  <2>3. step'[p] = "list_after" /\ cut' = cut
    BY <1>6, StepNames DEF CheckBegins, Moves
  <2>4. life[i].role = Admin /\ life[i].loc.scope = scope /\ Active(life[i])
    BY <1>2, <1>6 DEF SameGrant, Guarded, Retires
  <2>5. ASSUME NEW s \in Scope, HadAdministrator(s)'
        PROVE  HadAdministrator(s)
    <3>1. PICK j \in Id : life'[j] # None /\ life'[j].loc.scope = s /\ life'[j].role = Admin
      BY <2>5 DEF HadAdministrator
    <3>2. CASE j = i
      BY <1>6, <3>1, <3>2 DEF Retires, SameGrant, HadAdministrator, Active
    <3>3. CASE j # i
      BY <1>6, <3>1, <3>3 DEF Retires, HadAdministrator
    <3>. QED  BY <3>2, <3>3
  <2>6. ASSUME NEW s \in Scope, NEW j \in Administrators(s), j # i
        PROVE  j \in Administrators(s)'
    BY <1>6, <2>6 DEF Administrators, HoldersOf, Retires
  <2>7. AdministratorInHand'
    <3>1. ASSUME NEW s \in Scope, HadAdministrator(s)', Administrators(s)' = {}
          PROVE  \/ cut'
                 \/ \E q \in Instance : Repairing(q)' /\ seen'[q].loc.scope = s
      <4>1. CASE s = scope
        BY <1>6, <2>3, <4>1 DEF Repairing
      <4>2. CASE s # scope
        <5>1. Administrators(s) = {}
          BY <2>4, <2>6, <3>1, <4>2 DEF Administrators, HoldersOf
        <5>2. cut \/ \E q \in Instance : Repairing(q) /\ seen[q].loc.scope = s
          BY <2>5, <3>1, <5>1 DEF AdminInv, AdministratorInHand
        <5>3. ASSUME NEW q \in Instance, Repairing(q), seen[q].loc.scope = s
              PROVE  Repairing(q)' /\ seen'[q].loc.scope = s
          <6>1. q # p /\ q \in Call
            BY <1>1, <5>3 DEF Repairing, Call
          <6>. QED  BY <1>1, <5>3, <6>1 DEF StillOthers, Still, Repairing
        <5>. QED  BY <2>3, <5>2, <5>3
      <4>. QED  BY <4>1, <4>2
    <3>. QED  BY <3>1 DEF AdministratorInHand
  <2>8. SingleSafe'
    <3>1. ASSUME Cardinality(Instance) = 1, NEW q \in Instance
          PROVE  LeavesAnother(q)'
      <4>1. q = p
        BY <3>1, OneInstance
      <4>. QED  BY <2>3, <4>1 DEF LeavesAnother
    <3>2. ASSUME Cardinality(Instance) = 1, NEW s \in Scope, HadAdministrator(s)'
          PROVE  Administrators(s)' # {}
      <4>1. PICK j \in Id : j \in Administrators(s)
        BY <2>5, <3>2 DEF AdminInv, SingleSafe, Administrators, HoldersOf
      <4>2. CASE j # i
        BY <2>6, <4>1, <4>2
      <4>3. CASE j = i
        <5>1. s = scope
          BY <2>4, <4>1, <4>3 DEF Administrators, HoldersOf
        <5>2. PICK k \in Administrators(s) : k # i
          BY <1>1, <1>6, <3>2, <5>1 DEF AdminInv, SingleSafe, LeavesAnother
        <5>. QED  BY <2>6, <5>2
      <4>. QED  BY <4>2, <4>3
    <3>. QED  BY <3>1, <3>2 DEF SingleSafe
  <2>9. (\A q \in Call : Sound(q)') /\ FreshDistinct'
    BY <1>0, <1>1, <2>1, <2>2, CallsStaySound
  <2>. QED  BY <1>1, <2>1, <2>7, <2>8, <2>9 DEF AdminInv
<1>. QED  BY <1>1, <1>4, <1>5, <1>6

LEMMA RecordGuardKeeps ==
  ASSUME AdminInv, NEW p \in Instance, RecordGuard(p) PROVE AdminInv'
<1>0. p \in Call /\ Sound(p) /\ Types
  BY DEF Call, AdminInv
<1>1. /\ Types' /\ StillOthers(p) /\ step[p] = "record_guard" /\ Moves(p, "compensate")
      /\ life' = life /\ grantedBy' = grantedBy /\ rows' = rows \cup {fresh[p]}
      /\ seen'[p] = seen[p] /\ fresh'[p] = fresh[p]
  BY <1>0, RecordGuardEffect
<1>2. Advance /\ SparesFresh(p) /\ AdministratorsKept /\ HostIndexCovers'
  BY <1>0, <1>1, NothingChanges
<1>3. Sound(p)'
  <2>1. Commanded(p)' /\ Fresh(p)' /\ RowFirst(p)' /\ Revoking(p)'
    BY <1>0, <1>1, StepKinds
       DEF Sound, Commanded, Fresh, RowFirst, Revoking, Moves, RevokeSteps, AfterCommit
  <2>2. Checking(p)' /\ Viewing(p)' /\ HasViewed(p)' /\ Seeding(p)'
    BY <1>1 DEF Checking, Viewing, HasViewed, Seeding, Moves,
                ListSteps, VerifySteps, ViewSteps, SeedSteps
  <2>. QED  BY <2>1, <2>2 DEF Sound
<1>4. FreshKept(p) /\ LeavesAnother(p)' /\ HandsOver(p) /\ cut' = cut
  BY <1>1 DEF FreshKept, LeavesAnother, HandsOver, Repairing, Moves
<1>. QED  BY <1>0, <1>1, <1>2, <1>3, <1>4, StepKeeps

LEMMA CompensateKeeps ==
  ASSUME AdminInv, NEW p \in Instance, Compensate(p) PROVE AdminInv'
<1>0. p \in Call /\ Sound(p) /\ Types
  BY DEF Call, AdminInv
<1>1. /\ Types' /\ StillOthers(p) /\ step[p] = "compensate"
      /\ fresh[p] \in Id /\ seen[p] \in Assignment
      /\ \/ Issues(fresh[p], TargetOf(seen[p]), "guard") /\ HasAnswered(p, "compensated")
         \/ /\ TupleHeld(TargetOf(seen[p])) /\ StoreStill
            /\ CheckBegins(p, "last") /\ seen'[p] = seen[p]
  BY <1>0, CompensateEffect
<1>2. /\ job[p] \in RevokeJob /\ Guarded(seen[p]) /\ Active(seen[p])
      /\ life[job[p].id] # None /\ SameGrant(seen[p], life[job[p].id])
      /\ Revoked(life[job[p].id]) /\ seen[p].loc.scope \in Scope
  BY <1>0, <1>1 DEF Sound, Commanded, Revoking, RevokeSteps, AfterCommit, Assignment, Location
<1>3. CASE Issues(fresh[p], TargetOf(seen[p]), "guard") /\ HasAnswered(p, "compensated")
  <2>1. Advance /\ SparesFresh(p) /\ AdministratorsKept /\ HostIndexCovers'
    BY <1>0, <1>1, <1>3, GrantKeeps DEF Sound, RowFirst
  <2>2. Sound(p)' /\ FreshKept(p) /\ LeavesAnother(p)' /\ cut' = cut
    BY <1>0, <1>3, AnsweredSound DEF HasAnswered
  <2>3. HandsOver(p)
    <3>1. ASSUME NEW s \in Scope, s = seen[p].loc.scope
          PROVE  fresh[p] \in Administrators(s)'
      BY <1>1, <1>2, <1>3, <3>1
         DEF Issues, TargetOf, Administrators, HoldersOf, Guarded
    <3>. QED  BY <1>2, <3>1 DEF HandsOver
  <2>. QED  BY <1>0, <1>1, <2>1, <2>2, <2>3, StepKeeps
<1>4. CASE /\ TupleHeld(TargetOf(seen[p])) /\ StoreStill
           /\ CheckBegins(p, "last") /\ seen'[p] = seen[p]
  <2>1. Advance /\ SparesFresh(p) /\ AdministratorsKept /\ HostIndexCovers'
    BY <1>0, <1>4, NothingChanges DEF StoreStill
  <2>2. Sound(p)' /\ FreshKept(p) /\ LeavesAnother(p)'
    <3>1. fresh[p] # None => life'[fresh[p]] = None
      BY <1>0, <1>4 DEF Sound, Fresh, StoreStill
    <3>. QED  BY <1>1, <1>2, <1>4, <3>1, CheckSound, StepNames DEF StoreStill
  <2>3. HandsOver(p) /\ cut' = cut
    <3>1. PICK i \in Id : /\ Active(life[i])
                          /\ life[i].loc = seen[p].loc /\ life[i].role = seen[p].role
      BY <1>4 DEF TupleHeld, TupleFree, TargetOf
    <3>2. ASSUME NEW s \in Scope, s = seen[p].loc.scope
          PROVE  i \in Administrators(s)'
      BY <1>2, <1>4, <3>1, <3>2 DEF Administrators, HoldersOf, Guarded, StoreStill
    <3>. QED  BY <1>2, <1>4, <3>2 DEF HandsOver, CheckBegins, Moves
  <2>. QED  BY <1>0, <1>1, <2>1, <2>2, <2>3, StepKeeps
<1>. QED  BY <1>1, <1>3, <1>4

\* An answer of a check keeps the call sound; the repair is done, or goes on.
LEMMA FindsKeeps ==
  ASSUME AdminInv, NEW p \in Instance, NEW where \in CheckSteps, Types', StoreStill,
         StillOthers(p), step[p] = VerifyStep[where],
         NEW i \in candidates[p], Counts(i, seen[p]), Finds(p, where)
  PROVE  AdminInv'
<1>0. p \in Call /\ Sound(p) /\ Types /\ i \in Id
  BY DEF Call, AdminInv, Types
<1>1. Advance /\ SparesFresh(p) /\ AdministratorsKept /\ HostIndexCovers'
  BY <1>0, NothingChanges DEF StoreStill
<1>2. /\ job[p] \in RevokeJob /\ Guarded(seen[p])
      /\ seen[p] \in Assignment /\ Active(seen[p]) /\ seen[p].loc.scope \in Scope
      /\ life[job[p].id] # None /\ SameGrant(seen[p], life[job[p].id])
  BY <1>0, StepNames
     DEF Sound, Commanded, Revoking, RevokeSteps, AfterCommit, Assignment, Location
<1>3. CASE where # "before" /\ HasAnswered(p, "revoked")
  <2>1. Sound(p)' /\ FreshKept(p) /\ LeavesAnother(p)' /\ cut' = cut
    BY <1>0, <1>3, AnsweredSound DEF HasAnswered
  <2>2. HandsOver(p)
    <3>1. ASSUME NEW s \in Scope, s = seen[p].loc.scope
          PROVE  i \in Administrators(s)'
      BY <1>0, <1>2, <3>1 DEF Counts, Administrators, HoldersOf, Guarded, StoreStill
    <3>. QED  BY <1>2, <3>1 DEF HandsOver
  <2>. QED  BY <1>0, <1>1, <2>1, <2>2, StepKeeps
<1>4. CASE where = "before" /\ Moves(p, "commit") /\ Keeps(p)
  <2>1. step'[p] = "commit" /\ job'[p] = job[p] /\ cut' = cut /\ step[p] = "verify_before"
    BY <1>4, StepNames DEF Moves
  <2>2. Commanded(p)' /\ Revoking(p)'
    BY <1>2, <1>4, <2>1, StepKinds
       DEF Commanded, Revoking, AfterCommit, RevokeSteps, Keeps, StoreStill
  <2>3. Fresh(p)' /\ RowFirst(p)' /\ Checking(p)' /\ Viewing(p)' /\ HasViewed(p)' /\ Seeding(p)'
    BY <1>0, <1>4, <2>1
       DEF Sound, Fresh, RowFirst, Checking, Viewing, HasViewed, Seeding, Keeps, StoreStill,
           ListSteps, VerifySteps, ViewSteps, SeedSteps
  <2>4. LeavesAnother(p)'
    <3>1. i # job[p].id
      BY <1>0, <2>1 DEF Sound, Checking
    <3>. QED
      BY <1>0, <1>4, <2>1, <3>1
         DEF LeavesAnother, Counts, Administrators, HoldersOf, Guarded, Keeps, StoreStill
  <2>5. FreshKept(p) /\ HandsOver(p)
    BY <1>4, <2>1 DEF FreshKept, Keeps, HandsOver, Repairing
  <2>. QED  BY <1>0, <1>1, <2>1, <2>2, <2>3, <2>4, <2>5, StepKeeps DEF Sound
<1>. QED  BY <1>3, <1>4 DEF Finds

LEMMA FindsNobodyKeeps ==
  ASSUME AdminInv, NEW p \in Instance, NEW where \in CheckSteps, Types', StoreStill,
         StillOthers(p), step[p] \in {ListStep[where], VerifyStep[where]},
         FindsNobody(p, where)
  PROVE  AdminInv'
<1>0. p \in Call /\ Sound(p) /\ Types
  BY DEF Call, AdminInv
<1>1. Advance /\ SparesFresh(p) /\ AdministratorsKept /\ HostIndexCovers'
  BY <1>0, NothingChanges DEF StoreStill
<1>2. /\ job[p] \in RevokeJob /\ Guarded(seen[p])
      /\ seen[p] \in Assignment /\ Active(seen[p])
      /\ life[job[p].id] # None /\ SameGrant(seen[p], life[job[p].id])
      /\ where # "before" => Revoked(life[job[p].id])
      /\ Repairing(p) => where = "after"
  BY <1>0, StepNames DEF Sound, Commanded, Revoking, RevokeSteps, AfterCommit, Repairing
<1>3. CASE where # "after"
  <2>1. PICK s \in {"last_administrator", "failed"} : HasAnswered(p, s)
    BY <1>3 DEF FindsNobody
  <2>2. Sound(p)' /\ FreshKept(p) /\ LeavesAnother(p)' /\ cut' = cut
    BY <1>0, <2>1, AnsweredSound DEF HasAnswered
  <2>3. HandsOver(p)
    BY <1>2, <1>3 DEF HandsOver
  <2>. QED  BY <1>0, <1>1, <2>2, <2>3, StepKeeps
<1>4. CASE where = "after"
  <2>1. /\ fresh'[p] \in Unused /\ seen'[p] = seen[p]
        /\ Moves(p, IF HostIndex THEN "record_guard" ELSE "compensate")
    BY <1>4 DEF FindsNobody
  <2>2. /\ step'[p] \in {"record_guard", "compensate"} /\ job'[p] = job[p] /\ cut' = cut
        /\ step'[p] = "compensate" => ~HostIndex
    BY <2>1 DEF Moves
  <2>3. Commanded(p)' /\ Revoking(p)'
    BY <1>2, <1>4, <2>1, <2>2, StepKinds
       DEF Commanded, Revoking, AfterCommit, RevokeSteps, StoreStill
  <2>4. Fresh(p)' /\ RowFirst(p)'
    BY <2>1, <2>2, RecordsAssumption DEF Fresh, RowFirst, Unused, StoreStill
  <2>5. Checking(p)' /\ Viewing(p)' /\ HasViewed(p)' /\ Seeding(p)'
    BY <2>2 DEF Checking, Viewing, HasViewed, Seeding,
                ListSteps, VerifySteps, ViewSteps, SeedSteps
  <2>6. FreshKept(p) /\ HandsOver(p) /\ LeavesAnother(p)'
    BY <2>1, <2>2 DEF FreshKept, HandsOver, Repairing, LeavesAnother
  <2>. QED  BY <1>0, <1>1, <2>2, <2>3, <2>4, <2>5, <2>6, StepKeeps DEF Sound
<1>. QED  BY <1>3, <1>4

\* A listing returns every holder all through the check of p.
LEMMA ListingCovers ==
  ASSUME NEW p \in Call, Behind(begun[p]), NEW s \in Listing(p), NEW i \in Id,
         HeldThroughout(p, i)
  PROVE  i \in s \ Excluded(p)
<1>1. i \in s
  BY DEF Listing, HeldThroughout, Behind, Active, Revoked
<1>2. i \notin Excluded(p)
  BY DEF Excluded, HeldThroughout
<1>. QED  BY <1>1, <1>2

LEMMA ListHoldersKeeps ==
  ASSUME AdminInv, NEW p \in Instance, NEW where \in CheckSteps, ListHolders(p, where)
  PROVE  AdminInv'
<1>0. p \in Call /\ Sound(p) /\ Types
  BY DEF Call, AdminInv
<1>1. Types' /\ StoreStill /\ StillOthers(p) /\ step[p] = ListStep[where]
  BY <1>0, ListHoldersEffect
<1>2. PICK s \in Listing(p) :
         \/ /\ Moves(p, VerifyStep[where]) /\ Keeps(p)
            /\ candidates'[p] = s \ Excluded(p)
         \/ s \ Excluded(p) = {} /\ FindsNobody(p, where)
  BY <1>0, ListHoldersEffect
<1>3. CASE FindsNobody(p, where)
  BY <1>1, <1>3, FindsNobodyKeeps
<1>4. CASE Moves(p, VerifyStep[where]) /\ Keeps(p) /\ candidates'[p] = s \ Excluded(p)
  <2>1. Advance /\ SparesFresh(p) /\ AdministratorsKept /\ HostIndexCovers'
    BY <1>0, <1>1, NothingChanges DEF StoreStill
  <2>2. /\ step[p] \in ListSteps /\ step'[p] \in VerifySteps
        /\ step'[p] = "verify_before" => step[p] = "list_before"
        /\ step'[p] \in AfterCommit => step[p] \in AfterCommit
        /\ job'[p] = job[p] /\ cut' = cut
    BY <1>1, <1>4, StepNames DEF Moves, ListSteps, VerifySteps, AfterCommit
  <2>3. Commanded(p)' /\ Revoking(p)'
    BY <1>0, <1>1, <1>4, <2>2, StepKinds
       DEF Sound, Commanded, Revoking, ListSteps, VerifySteps, Keeps, StoreStill, RevokeSteps
  <2>4. Fresh(p)' /\ RowFirst(p)'
    BY <1>0, <1>1, <1>4, <2>2 DEF Sound, Fresh, RowFirst, Keeps, StoreStill, VerifySteps
  <2>5. Checking(p)'
    <3>1. begun[p] \in Snapshot /\ Behind(begun[p])
      BY <1>0, <2>2 DEF Sound, Checking
    <3>2. ASSUME NEW i \in Id, HeldThroughout(p, i)' PROVE i \in candidates'[p]
      <4>1. HeldThroughout(p, i)
        BY <1>1, <1>4, <3>2 DEF HeldThroughout, Keeps, StoreStill
      <4>. QED  BY <1>0, <1>4, <3>1, <4>1, ListingCovers
    <3>3. step'[p] = "verify_before" => job'[p].id \notin candidates'[p]
      <4>1. ASSUME step'[p] = "verify_before" PROVE job[p].id \in Excluded(p)
        <5>1. /\ step[p] = "list_before" /\ job[p].id \in Id
              /\ life[job[p].id] # None /\ SameGrant(seen[p], life[job[p].id])
          BY <1>0, <2>2, <4>1 DEF Sound, Commanded, Revoking, RevokeSteps, RevokeJob
        <5>. QED  BY <5>1 DEF Excluded, At, SameGrant
      <4>. QED  BY <1>4, <2>2, <4>1
    <3>4. Behind(begun[p])'
      BY <1>1, <1>4, <3>1 DEF Behind, Keeps, StoreStill
    <3>. QED  BY <1>4, <3>1, <3>2, <3>3, <3>4 DEF Checking, Keeps
  <2>6. Viewing(p)' /\ HasViewed(p)' /\ Seeding(p)'
    BY <2>2 DEF Viewing, HasViewed, Seeding, VerifySteps, ViewSteps, SeedSteps
  <2>7. FreshKept(p) /\ HandsOver(p) /\ LeavesAnother(p)'
    <3>1. Repairing(p) => Repairing(p)'
      BY <1>1, <1>4, StepNames DEF Repairing, Moves
    <3>. QED  BY <1>4, <2>2, <3>1 DEF FreshKept, HandsOver, Keeps, LeavesAnother, VerifySteps
  <2>. QED  BY <1>0, <1>1, <2>1, <2>2, <2>3, <2>4, <2>5, <2>6, <2>7, StepKeeps DEF Sound
<1>. QED  BY <1>2, <1>3, <1>4

LEMMA VerifyHolderKeeps ==
  ASSUME AdminInv, NEW p \in Instance, NEW where \in CheckSteps, VerifyHolder(p, where)
  PROVE  AdminInv'
<1>0. p \in Call /\ Sound(p) /\ Types
  BY DEF Call, AdminInv
<1>1. Types' /\ StoreStill /\ StillOthers(p) /\ step[p] = VerifyStep[where]
  BY <1>0, VerifyHolderEffect
<1>2. PICK i \in candidates[p] :
         \/ Counts(i, seen[p]) /\ Finds(p, where)
         \/ /\ ~Counts(i, seen[p])
            /\ Moves(p, VerifyStep[where]) /\ Keeps(p)
            /\ candidates'[p] = candidates[p] \ {i}
         \/ /\ ~Counts(i, seen[p]) /\ candidates[p] = {i}
            /\ FindsNobody(p, where)
  BY <1>0, VerifyHolderEffect
<1>3. CASE Counts(i, seen[p]) /\ Finds(p, where)
  BY <1>1, <1>2, <1>3, FindsKeeps
<1>4. CASE FindsNobody(p, where)
  BY <1>1, <1>4, FindsNobodyKeeps
<1>5. CASE /\ ~Counts(i, seen[p])
           /\ Moves(p, VerifyStep[where]) /\ Keeps(p)
           /\ candidates'[p] = candidates[p] \ {i}
  <2>1. Advance /\ SparesFresh(p) /\ AdministratorsKept /\ HostIndexCovers'
    BY <1>0, <1>1, NothingChanges DEF StoreStill
  <2>2. /\ step'[p] = step[p] /\ step[p] \in VerifySteps
        /\ job'[p] = job[p] /\ cut' = cut
    BY <1>1, <1>5, StepNames DEF Moves, VerifySteps
  <2>3. Commanded(p)' /\ Revoking(p)' /\ Fresh(p)' /\ RowFirst(p)'
    BY <1>0, <1>1, <1>5, <2>2
       DEF Sound, Commanded, Revoking, Fresh, RowFirst, Keeps, StoreStill
  <2>4. Checking(p)'
    <3>1. begun[p] \in Snapshot /\ Behind(begun[p])
      BY <1>0, <2>2 DEF Sound, Checking
    <3>2. ASSUME NEW j \in Id, HeldThroughout(p, j)' PROVE j \in candidates'[p]
      <4>1. HeldThroughout(p, j)
        BY <1>1, <1>5, <3>2 DEF HeldThroughout, Keeps, StoreStill
      <4>2. j \in candidates[p]
        BY <1>0, <2>2, <4>1 DEF Sound, Checking
      <4>3. j # i
        BY <1>5, <4>1 DEF HeldThroughout, Counts
      <4>. QED  BY <1>5, <4>2, <4>3
    <3>3. step'[p] = "verify_before" => job'[p].id \notin candidates'[p]
      BY <1>0, <1>5, <2>2 DEF Sound, Checking
    <3>4. Behind(begun[p])'
      BY <1>1, <1>5, <3>1 DEF Behind, Keeps, StoreStill
    <3>. QED  BY <1>5, <3>1, <3>2, <3>3, <3>4 DEF Checking, Keeps
  <2>5. Viewing(p)' /\ HasViewed(p)' /\ Seeding(p)'
    BY <2>2 DEF Viewing, HasViewed, Seeding, VerifySteps, ViewSteps, SeedSteps
  <2>6. FreshKept(p) /\ HandsOver(p) /\ LeavesAnother(p)'
    BY <1>5, <2>2 DEF FreshKept, HandsOver, Repairing, Keeps, LeavesAnother, VerifySteps
  <2>. QED  BY <1>0, <1>1, <2>1, <2>2, <2>3, <2>4, <2>5, <2>6, StepKeeps DEF Sound
<1>. QED  BY <1>2, <1>3, <1>4, <1>5

\* A call that starts.
LEMMA StartKeeps ==
  ASSUME AdminInv, NEW p \in Call, NEW c \in Job, NEW s \in Steps, Start(p, c, s),
         s \in {"get", "assign_list", "view_list", "seed_history"},
         s = "get" => p \in Instance /\ c \in RevokeJob,
         s = "assign_list" => p \in Worker /\ c \in AssignJob,
         s = "view_list" => p \in Worker /\ c \in ViewJob,
         s = "seed_history" => p \in Worker /\ c \in SeedJob
  PROVE  AdminInv'
<1>1. /\ Types' /\ step[p] = "idle" /\ step'[p] = s /\ job'[p] = c
      /\ begun'[p] = (IF c.op \in {"view", "seed"}
                        THEN [life |-> life, rows |-> rows] ELSE None)
      /\ fresh' = fresh /\ cut' = cut /\ StoreStill /\ StillOthers(p)
  BY StartEffect DEF AdminInv, StillOthers
<1>2. Advance /\ SparesFresh(p) /\ AdministratorsKept /\ HostIndexCovers'
  BY <1>1, NothingChanges DEF StoreStill
<1>3. Commanded(p)' /\ Revoking(p)' /\ Checking(p)' /\ HasViewed(p)'
  BY <1>1, StepKinds DEF Commanded, Revoking, Checking, HasViewed, AfterCommit,
                         RevokeSteps, AssignSteps, ViewSteps, SeedSteps, ListSteps, VerifySteps
<1>4. Fresh(p)' /\ RowFirst(p)'
  BY <1>1 DEF AdminInv, Sound, Fresh, RowFirst, StoreStill
<1>5. s \in {"view_list", "seed_history"} => begun'[p] \in Snapshot /\ Behind(begun[p])'
  <2>1. ASSUME s \in {"view_list", "seed_history"}
        PROVE  begun'[p] = [life |-> life, rows |-> rows]
    BY <1>1, <2>1 DEF ViewJob, SeedJob
  <2>. QED  BY <1>1, <2>1 DEF AdminInv, Types, Snapshot, Behind, Forward, SameGrant, StoreStill
<1>6. Viewing(p)' /\ Seeding(p)'
  BY <1>1, <1>5, StepKinds DEF Viewing, Seeding, ViewSteps, SeedSteps
<1>7. FreshKept(p) /\ LeavesAnother(p)' /\ HandsOver(p)
  BY <1>1 DEF FreshKept, LeavesAnother, HandsOver, Repairing
<1>. QED  BY <1>1, <1>2, <1>3, <1>4, <1>6, <1>7, StepKeeps DEF Sound

LEMMA StartsKeep ==
  ASSUME AdminInv
  PROVE  /\ \A p \in Instance : StartRevoke(p) => AdminInv'
         /\ \A w \in Worker : StartAssign(w) \/ StartView(w) \/ StartSeed(w) => AdminInv'
<1>0. {"get", "assign_list", "view_list", "seed_history"} \subseteq Steps
  BY DEF Steps, RevokeSteps, AssignSteps, ViewSteps, SeedSteps
<1>1. ASSUME NEW p \in Instance, StartRevoke(p) PROVE AdminInv'
  <2>1. PICK i \in Id : Start(p, [op |-> "revoke", id |-> i], "get")
    BY <1>1 DEF StartRevoke
  <2>2. [op |-> "revoke", id |-> i] \in RevokeJob
    BY DEF RevokeJob
  <2>. QED  BY <1>0, <2>1, <2>2, StartKeeps DEF Job, Call
<1>2. ASSUME NEW w \in Worker, StartAssign(w) PROVE AdminInv'
  <2>1. PICK t \in Target : Start(w, [op |-> "assign", target |-> t], "assign_list")
    BY <1>2 DEF StartAssign
  <2>2. [op |-> "assign", target |-> t] \in AssignJob
    BY DEF AssignJob
  <2>. QED  BY <1>0, <2>1, <2>2, StartKeeps DEF Job, Call
<1>3. ASSUME NEW w \in Worker, StartView(w) PROVE AdminInv'
  <2>1. PICK l \in Location : Start(w, [op |-> "view", loc |-> l], "view_list")
    BY <1>3 DEF StartView
  <2>2. [op |-> "view", loc |-> l] \in ViewJob
    BY DEF ViewJob
  <2>. QED  BY <1>0, <2>1, <2>2, StartKeeps DEF Job, Call
<1>4. ASSUME NEW w \in Worker, StartSeed(w) PROVE AdminInv'
  <2>1. PICK i \in SeedId :
          Start(w, [op |-> "seed", id |-> i, target |-> manifest[i]], "seed_history")
    BY <1>4 DEF StartSeed
  <2>2. [op |-> "seed", id |-> i, target |-> manifest[i]] \in SeedJob
    BY DEF SeedJob, AdminInv, Types
  <2>. QED  BY <1>0, <2>1, <2>2, StartKeeps DEF Job, Call
<1>. QED  BY <1>1, <1>2, <1>3, <1>4

\* A step of another call that neither checks nor repairs.
LEMMA WorkerHandsOver ==
  ASSUME NEW p \in Call, step[p] \notin RevokeSteps PROVE HandsOver(p)
BY DEF HandsOver, Repairing, RevokeSteps

LEMMA AssignKeeps ==
  ASSUME AdminInv, NEW p \in Worker, AssignList(p) \/ AssignRecord(p) \/ AssignGrant(p)
  PROVE  AdminInv'
<1>0. p \in Call /\ Sound(p) /\ Types
  BY DEF Call, AdminInv
<1>1. CASE AssignList(p)
  <2>1. /\ Types' /\ StoreStill /\ StillOthers(p) /\ step[p] = "assign_list"
        /\ \/ HasAnswered(p, "duplicate")
           \/ /\ fresh'[p] \in Unused
              /\ Moves(p, IF HostIndex THEN "assign_record" ELSE "assign_grant")
    BY <1>0, <1>1, AssignListEffect
  <2>2. Advance /\ SparesFresh(p) /\ AdministratorsKept /\ HostIndexCovers' /\ HandsOver(p)
    BY <1>0, <2>1, NothingChanges, WorkerHandsOver DEF StoreStill, RevokeSteps
  <2>3. CASE HasAnswered(p, "duplicate")
    BY <1>0, <2>1, <2>2, <2>3, AnsweredSound, StepKeeps DEF HasAnswered
  <2>4. CASE /\ fresh'[p] \in Unused
             /\ Moves(p, IF HostIndex THEN "assign_record" ELSE "assign_grant")
    <3>1. /\ step'[p] \in {"assign_record", "assign_grant"} /\ job'[p] = job[p]
          /\ cut' = cut
          /\ step'[p] = "assign_grant" => ~HostIndex
      BY <2>4 DEF Moves
    <3>2. Commanded(p)'
      BY <1>0, <2>1, <3>1, StepKinds DEF Sound, Commanded, AssignSteps
    <3>3. Fresh(p)' /\ RowFirst(p)'
      BY <2>1, <2>4, <3>1, RecordsAssumption DEF Fresh, RowFirst, Unused, StoreStill
    <3>4. Revoking(p)' /\ Checking(p)' /\ Viewing(p)' /\ HasViewed(p)' /\ Seeding(p)'
      BY <3>1 DEF Revoking, Checking, Viewing, HasViewed, Seeding, AfterCommit,
                  RevokeSteps, ListSteps, VerifySteps, ViewSteps, SeedSteps
    <3>5. FreshKept(p) /\ LeavesAnother(p)'
      BY <2>4, <3>1 DEF FreshKept, LeavesAnother
    <3>. QED  BY <1>0, <2>1, <2>2, <3>1, <3>2, <3>3, <3>4, <3>5, StepKeeps DEF Sound
  <2>. QED  BY <2>1, <2>3, <2>4
<1>2. CASE AssignRecord(p)
  <2>1. /\ Types' /\ StillOthers(p) /\ step[p] = "assign_record" /\ Moves(p, "assign_grant")
        /\ life' = life /\ grantedBy' = grantedBy /\ rows' = rows \cup {fresh[p]}
        /\ fresh'[p] = fresh[p]
    BY <1>0, <1>2, AssignRecordEffect
  <2>2. Advance /\ SparesFresh(p) /\ AdministratorsKept /\ HostIndexCovers' /\ HandsOver(p)
    BY <1>0, <2>1, NothingChanges, WorkerHandsOver DEF RevokeSteps
  <2>3. Commanded(p)' /\ Fresh(p)' /\ RowFirst(p)'
    BY <1>0, <2>1, StepKinds DEF Sound, Commanded, Fresh, RowFirst, Moves, AssignSteps
  <2>4. Revoking(p)' /\ Checking(p)' /\ Viewing(p)' /\ HasViewed(p)' /\ Seeding(p)'
    BY <2>1 DEF Revoking, Checking, Viewing, HasViewed, Seeding, AfterCommit, Moves,
                RevokeSteps, ListSteps, VerifySteps, ViewSteps, SeedSteps
  <2>5. FreshKept(p) /\ LeavesAnother(p)' /\ cut' = cut
    BY <2>1 DEF FreshKept, LeavesAnother, Moves
  <2>. QED  BY <1>0, <2>1, <2>2, <2>3, <2>4, <2>5, StepKeeps DEF Sound
<1>3. CASE AssignGrant(p)
  <2>1. /\ Types' /\ StillOthers(p) /\ step[p] = "assign_grant" /\ fresh[p] \in Id
        /\ \/ /\ Issues(fresh[p], job[p].target, "human") /\ HasAnswered(p, "assigned")
           \/ StoreStill /\ HasAnswered(p, "duplicate")
    BY <1>0, <1>3, AssignGrantEffect
  <2>2. Advance /\ SparesFresh(p) /\ AdministratorsKept /\ HostIndexCovers'
    <3>1. CASE StoreStill
      BY <1>0, <3>1, NothingChanges DEF StoreStill
    <3>2. CASE Issues(fresh[p], job[p].target, "human")
      BY <1>0, <2>1, <3>2, GrantKeeps DEF Sound, RowFirst
    <3>. QED  BY <2>1, <3>1, <3>2
  <2>3. HandsOver(p)
    BY <1>0, <2>1, WorkerHandsOver DEF RevokeSteps
  <2>4. Sound(p)' /\ FreshKept(p) /\ LeavesAnother(p)' /\ cut' = cut
    BY <1>0, <2>1, AnsweredSound DEF HasAnswered
  <2>. QED  BY <1>0, <2>1, <2>2, <2>3, <2>4, StepKeeps
<1>. QED  BY <1>1, <1>2, <1>3

LEMMA ViewKeeps ==
  ASSUME AdminInv, NEW p \in Worker, ViewList(p) \/ ViewRecord(p)
  PROVE  AdminInv'
<1>0. p \in Call /\ Sound(p) /\ Types
  BY DEF Call, AdminInv
<1>1. step[p] \in ViewSteps /\ p \in Worker /\ job[p] \in ViewJob
      /\ begun[p] \in Snapshot /\ Behind(begun[p])
  BY <1>0 DEF ViewList, ViewRecord, At, ViewSteps, Sound, Commanded, Viewing
<1>2. HandsOver(p)
  BY <1>0, <1>1, StepKinds, WorkerHandsOver
<1>3. CASE ViewList(p)
  <2>1. /\ Types' /\ StoreStill /\ StillOthers(p) /\ step[p] = "view_list"
        /\ \/ /\ Moves(p, "view_record") /\ Keeps(p)
              /\ candidates'[p] = Viewed(job[p].loc)
           \/ (~HostIndex \/ Viewed(job[p].loc) = {}) /\ HasAnswered(p, "viewed")
    BY <1>0, <1>3, ViewListEffect
  <2>2. Advance /\ SparesFresh(p) /\ AdministratorsKept /\ HostIndexCovers'
    BY <1>0, <2>1, NothingChanges DEF StoreStill
  <2>3. begun'[p] = begun[p] /\ Behind(begun[p])' /\ job'[p] = job[p] /\ cut' = cut
    BY <1>1, <2>1 DEF HasAnswered, Moves, Keeps, Behind, StoreStill
  <2>4. CASE (~HostIndex \/ Viewed(job[p].loc) = {}) /\ HasAnswered(p, "viewed")
    <3>1. HasViewed(p)'
      BY <1>1, <2>1, <2>3, <2>4 DEF HasViewed, Viewed, StoreStill
    <3>2. step'[p] = "answered" /\ fresh'[p] = None
      BY <2>4 DEF HasAnswered
    <3>3. Commanded(p)' /\ Revoking(p)' /\ Seeding(p)' /\ Viewing(p)' /\ Checking(p)'
          /\ Fresh(p)' /\ RowFirst(p)'
      BY <3>2 DEF Commanded, Revoking, Seeding, Viewing, Checking, Fresh, RowFirst, AfterCommit,
                  RevokeSteps, AssignSteps, SeedSteps, ViewSteps, ListSteps, VerifySteps
    <3>4. FreshKept(p) /\ LeavesAnother(p)'
      BY <3>2 DEF FreshKept, LeavesAnother
    <3>. QED  BY <1>0, <1>2, <2>1, <2>2, <2>3, <3>1, <3>3, <3>4, StepKeeps DEF Sound
  <2>5. CASE Moves(p, "view_record") /\ Keeps(p) /\ candidates'[p] = Viewed(job[p].loc)
    <3>1. step'[p] = "view_record"
      BY <2>5 DEF Moves
    <3>2. Viewing(p)'
      BY <1>1, <2>1, <2>3, <2>5, <3>1 DEF Viewing, Viewed, StoreStill
    <3>3. Commanded(p)'
      BY <1>1, <2>3, <3>1, StepKinds DEF Commanded, ViewSteps
    <3>4. Fresh(p)' /\ RowFirst(p)'
      BY <1>0, <2>1, <2>5, <3>1 DEF Sound, Fresh, RowFirst, Keeps, StoreStill
    <3>5. Revoking(p)' /\ Seeding(p)' /\ Checking(p)' /\ HasViewed(p)'
      BY <3>1 DEF Revoking, Seeding, Checking, HasViewed, AfterCommit,
                  RevokeSteps, SeedSteps, ListSteps, VerifySteps
    <3>6. FreshKept(p) /\ LeavesAnother(p)'
      BY <2>5, <3>1 DEF FreshKept, LeavesAnother, Keeps
    <3>. QED
      BY <1>0, <1>2, <2>1, <2>2, <2>3, <3>2, <3>3, <3>4, <3>5, <3>6, StepKeeps DEF Sound
  <2>. QED  BY <2>1, <2>4, <2>5
<1>4. CASE ViewRecord(p)
  <2>1. /\ Types' /\ StillOthers(p) /\ step[p] = "view_record"
        /\ life' = life /\ grantedBy' = grantedBy
    BY <1>0, <1>4, ViewRecordEffect
  <2>2. PICK i \in candidates[p] :
          /\ rows' = rows \cup {i}
          /\ \/ candidates[p] = {i} /\ HasAnswered(p, "viewed")
             \/ /\ Moves(p, "view_record") /\ Keeps(p)
                /\ candidates'[p] = candidates[p] \ {i}
    BY <1>0, <1>4, ViewRecordEffect
  <2>3. Advance /\ SparesFresh(p) /\ AdministratorsKept /\ HostIndexCovers'
    BY <1>0, <2>1, <2>2, NothingChanges
  <2>4. begun'[p] = begun[p] /\ Behind(begun[p])' /\ job'[p] = job[p] /\ cut' = cut
    BY <1>1, <2>1, <2>2 DEF HasAnswered, Moves, Keeps, Behind
  <2>5. \A j \in Id :
          Active(life[j]) /\ Active(begun[p].life[j]) /\ life[j].loc = job[p].loc
            => j \in rows \cup candidates[p]
    BY <1>0, <2>1 DEF Sound, Viewing
  <2>6. CASE candidates[p] = {i} /\ HasAnswered(p, "viewed")
    <3>1. HasViewed(p)'
      BY <1>1, <2>1, <2>2, <2>4, <2>5, <2>6 DEF HasViewed
    <3>2. step'[p] = "answered" /\ fresh'[p] = None
      BY <2>6 DEF HasAnswered
    <3>3. Commanded(p)' /\ Revoking(p)' /\ Seeding(p)' /\ Viewing(p)' /\ Checking(p)'
          /\ Fresh(p)' /\ RowFirst(p)'
      BY <3>2 DEF Commanded, Revoking, Seeding, Viewing, Checking, Fresh, RowFirst, AfterCommit,
                  RevokeSteps, AssignSteps, SeedSteps, ViewSteps, ListSteps, VerifySteps
    <3>4. FreshKept(p) /\ LeavesAnother(p)'
      BY <3>2 DEF FreshKept, LeavesAnother
    <3>. QED  BY <1>0, <1>2, <2>1, <2>3, <2>4, <3>1, <3>3, <3>4, StepKeeps DEF Sound
  <2>7. CASE /\ Moves(p, "view_record") /\ Keeps(p)
             /\ candidates'[p] = candidates[p] \ {i}
    <3>1. step'[p] = "view_record"
      BY <2>7 DEF Moves
    <3>2. Viewing(p)'
      BY <1>1, <2>1, <2>2, <2>4, <2>5, <2>7, <3>1 DEF Viewing
    <3>3. Commanded(p)'
      BY <1>1, <2>4, <3>1, StepKinds DEF Commanded, ViewSteps
    <3>4. Fresh(p)' /\ RowFirst(p)'
      BY <1>0, <2>1, <2>7, <3>1 DEF Sound, Fresh, RowFirst, Keeps
    <3>5. Revoking(p)' /\ Seeding(p)' /\ Checking(p)' /\ HasViewed(p)'
      BY <3>1 DEF Revoking, Seeding, Checking, HasViewed, AfterCommit,
                  RevokeSteps, SeedSteps, ListSteps, VerifySteps
    <3>6. FreshKept(p) /\ LeavesAnother(p)'
      BY <2>7, <3>1 DEF FreshKept, LeavesAnother, Keeps
    <3>. QED
      BY <1>0, <1>2, <2>1, <2>3, <2>4, <3>2, <3>3, <3>4, <3>5, <3>6, StepKeeps DEF Sound
  <2>. QED  BY <2>2, <2>6, <2>7
<1>. QED  BY <1>3, <1>4

LEMMA SeedKeeps ==
  ASSUME AdminInv, NEW p \in Worker, SeedHistory(p) \/ SeedRecord(p) \/ SeedGrant(p)
  PROVE  AdminInv'
<1>0. p \in Call /\ Sound(p) /\ Types
  BY DEF Call, AdminInv
<1>1. /\ step[p] \in SeedSteps /\ job[p] \in SeedJob
      /\ begun[p] \in Snapshot /\ Behind(begun[p])
  BY <1>0 DEF SeedHistory, SeedRecord, SeedGrant, At, SeedSteps, Sound, Commanded, Seeding
<1>2. HandsOver(p)
  BY <1>0, <1>1, StepKinds, WorkerHandsOver
<1>3. CASE SeedHistory(p)
  <2>1. /\ Types' /\ StoreStill /\ StillOthers(p) /\ step[p] = "seed_history"
        /\ \/ HasAnswered(p, "already")
           \/ /\ ~Seeded(job[p].target) /\ Keeps(p)
              /\ Moves(p, IF HostIndex THEN "seed_record" ELSE "seed_grant")
    BY <1>0, <1>3, SeedHistoryEffect
  <2>2. Advance /\ SparesFresh(p) /\ AdministratorsKept /\ HostIndexCovers'
    BY <1>0, <2>1, NothingChanges DEF StoreStill
  <2>3. CASE HasAnswered(p, "already")
    BY <1>0, <1>2, <2>1, <2>2, <2>3, AnsweredSound, StepKeeps DEF HasAnswered
  <2>4. CASE /\ ~Seeded(job[p].target) /\ Keeps(p)
             /\ Moves(p, IF HostIndex THEN "seed_record" ELSE "seed_grant")
    <3>1. /\ step'[p] \in {"seed_record", "seed_grant"}
          /\ job'[p] = job[p] /\ cut' = cut /\ begun'[p] = begun[p] /\ fresh'[p] = fresh[p]
          /\ step'[p] = "seed_grant" => ~HostIndex
      BY <2>4 DEF Moves, Keeps
    <3>2. ASSUME NEW i \in Id, begun[p].life[i] # None
          PROVE  TargetOf(begun[p].life[i]) # job[p].target
      <4>1. life[i] # None /\ TargetOf(begun[p].life[i]) = TargetOf(life[i])
        BY <1>1, <3>2 DEF Behind, Forward, SameGrant, TargetOf
      <4>. QED  BY <2>4, <4>1 DEF Seeded
    <3>3. Seeding(p)'
      BY <1>1, <2>1, <3>1, <3>2 DEF Seeding, Behind, StoreStill
    <3>4. Commanded(p)'
      BY <1>0, <1>1, <3>1, StepKinds DEF Commanded, SeedSteps
    <3>5. Fresh(p)' /\ RowFirst(p)'
      BY <1>0, <2>1, <3>1 DEF Sound, Fresh, RowFirst, StoreStill
    <3>6. Revoking(p)' /\ Checking(p)' /\ Viewing(p)' /\ HasViewed(p)'
      BY <3>1 DEF Revoking, Checking, Viewing, HasViewed, AfterCommit,
                  RevokeSteps, ListSteps, VerifySteps, ViewSteps
    <3>7. FreshKept(p) /\ LeavesAnother(p)'
      BY <3>1 DEF FreshKept, LeavesAnother
    <3>. QED
      BY <1>0, <1>2, <2>1, <2>2, <3>1, <3>3, <3>4, <3>5, <3>6, <3>7, StepKeeps DEF Sound
  <2>. QED  BY <2>1, <2>3, <2>4
<1>4. CASE SeedRecord(p)
  <2>1. /\ Types' /\ StillOthers(p) /\ step[p] = "seed_record" /\ Moves(p, "seed_grant")
        /\ life' = life /\ grantedBy' = grantedBy /\ rows' = rows \cup {job[p].id}
        /\ Keeps(p)
    BY <1>0, <1>4, SeedRecordEffect
  <2>2. Advance /\ SparesFresh(p) /\ AdministratorsKept /\ HostIndexCovers'
    BY <1>0, <2>1, NothingChanges
  <2>3. step'[p] = "seed_grant" /\ job'[p] = job[p] /\ begun'[p] = begun[p]
        /\ fresh'[p] = fresh[p] /\ cut' = cut
    BY <2>1 DEF Moves, Keeps
  <2>4. Seeding(p)'
    BY <1>0, <1>1, <2>1, <2>3 DEF Sound, Seeding, Behind
  <2>5. Commanded(p)' /\ Fresh(p)' /\ RowFirst(p)'
    BY <1>0, <1>1, <2>1, <2>3, StepKinds DEF Sound, Commanded, Fresh, RowFirst, SeedSteps
  <2>6. Revoking(p)' /\ Checking(p)' /\ Viewing(p)' /\ HasViewed(p)'
    BY <2>3 DEF Revoking, Checking, Viewing, HasViewed, AfterCommit,
                RevokeSteps, ListSteps, VerifySteps, ViewSteps
  <2>7. FreshKept(p) /\ LeavesAnother(p)'
    BY <2>3 DEF FreshKept, LeavesAnother
  <2>. QED  BY <1>0, <1>2, <2>1, <2>2, <2>3, <2>4, <2>5, <2>6, <2>7, StepKeeps DEF Sound
<1>5. CASE SeedGrant(p)
  <2>1. /\ Types' /\ StillOthers(p) /\ step[p] = "seed_grant"
        /\ job[p].id \in Id /\ job[p].id \in SeedId
        /\ \/ Issues(job[p].id, job[p].target, "seed") /\ HasAnswered(p, "granted")
           \/ StoreStill /\ \E s \in {"already", "conflict"} : HasAnswered(p, s)
    BY <1>0, <1>5, SeedGrantEffect
  <2>2. Advance /\ SparesFresh(p) /\ AdministratorsKept /\ HostIndexCovers'
    <3>1. CASE StoreStill
      BY <1>0, <3>1, NothingChanges DEF StoreStill
    <3>2. CASE Issues(job[p].id, job[p].target, "seed")
      BY <1>0, <2>1, <3>2, GrantKeeps DEF Sound, RowFirst
    <3>. QED  BY <2>1, <3>1, <3>2
  <2>3. Sound(p)' /\ FreshKept(p) /\ LeavesAnother(p)' /\ cut' = cut
    BY <1>0, <2>1, AnsweredSound DEF HasAnswered
  <2>. QED  BY <1>0, <1>2, <2>1, <2>2, <2>3, StepKeeps
<1>. QED  BY <1>3, <1>4, <1>5

-----------------------------------------------------------------------------
\* The invariant.

LEMMA NextKeeps == AdminInv /\ [AdminNext]_adminVars => AdminInv'
<1>1. ASSUME AdminInv, AdminNext PROVE AdminInv'
  <2>1. ASSUME NEW p \in Instance, RevokeStep(p) PROVE AdminInv'
    BY <1>1, <2>1, RevokeGetKeeps, RevokeCommitKeeps, RecordGuardKeeps, CompensateKeeps,
       ListHoldersKeeps, VerifyHolderKeeps DEF RevokeStep
  <2>2. ASSUME NEW p \in Worker, WorkStep(p) PROVE AdminInv'
    BY <1>1, <2>2, AssignKeeps, ViewKeeps, SeedKeeps DEF WorkStep
  <2>. QED  BY <1>1, <2>1, <2>2, StartsKeep, LeaveKeeps DEF AdminNext
<1>2. ASSUME AdminInv, UNCHANGED adminVars PROVE AdminInv'
  <2>1. /\ life' = life /\ grantedBy' = grantedBy /\ rows' = rows /\ step' = step
        /\ job' = job /\ seen' = seen /\ candidates' = candidates /\ fresh' = fresh
        /\ answer' = answer /\ manifest' = manifest /\ begun' = begun /\ cut' = cut
    BY <1>2 DEF adminVars, vars
  <2>2. Types' /\ FreshDistinct' /\ HostIndexCovers'
    BY <1>2, <2>1 DEF AdminInv, Types, FreshDistinct, HostIndexCovers
  <2>3. ASSUME NEW p \in Call PROVE Sound(p)'
    BY <1>2, <2>1, StillSound
       DEF AdminInv, Still, Advance, Forward, SameGrant, Sound, Fresh
  <2>4. AdministratorInHand'
    BY <1>2, <2>1 DEF AdminInv, AdministratorInHand, Administrators, HoldersOf,
                      HadAdministrator, Repairing
  <2>5. SingleSafe'
    BY <1>2, <2>1 DEF AdminInv, SingleSafe, Administrators, HoldersOf,
                      HadAdministrator, LeavesAnother
  <2>. QED  BY <2>2, <2>3, <2>4, <2>5 DEF AdminInv
<1>. QED  BY <1>1, <1>2

\* A store at rest, and calls that have not begun.
LEMMA InitHolds == AdminInit => AdminInv
<1>. SUFFICES ASSUME AdminInit PROVE AdminInv
  OBVIOUS
<1>1. PICK given \in SUBSET (Id \ SeedId) :
        \E t \in [given -> Target], by \in [given -> Earlier] :
        \E e \in Event, at \in Time :
          /\ \A i, j \in given : t[i] = t[j] => i = j
          /\ life = [i \in Id |-> IF i \notin given THEN None ELSE
                                             Form(i, t[i], e, at)]
          /\ history = [i \in Id |-> IF i \in given THEN <<e>> ELSE <<>>]
          /\ grantedBy = [i \in Id |-> IF i \in given THEN by[i] ELSE "earlier"]
          /\ rows \in SUBSET given /\ (~HostIndex => rows = {})
  BY DEF AdminInit
<1>2. PICK t \in [given -> Target], by \in [given -> Earlier] :
        \E e \in Event, at \in Time :
          /\ life = [i \in Id |-> IF i \notin given THEN None ELSE
                                             Form(i, t[i], e, at)]
          /\ grantedBy = [i \in Id |-> IF i \in given THEN by[i] ELSE "earlier"]
          /\ rows \in SUBSET given
  BY <1>1
<1>3. PICK e \in Event, at \in Time :
          /\ life = [i \in Id |-> IF i \notin given THEN None ELSE
                                             Form(i, t[i], e, at)]
          /\ grantedBy = [i \in Id |-> IF i \in given THEN by[i] ELSE "earlier"]
          /\ rows \in SUBSET given
  BY <1>2
<1>4. /\ step = [p \in Call |-> "idle"] /\ job = [p \in Call |-> None]
      /\ seen = [p \in Call |-> None] /\ candidates = [p \in Call |-> {}]
      /\ fresh = [p \in Call |-> None] /\ answer = [p \in Call |-> None]
      /\ manifest \in [SeedId -> Target] /\ begun = [p \in Call |-> None]
      /\ cut = FALSE
  BY DEF AdminInit
<1>5. \A i \in given : Form(i, t[i], e, at) \in Assignment /\ Active(Form(i, t[i], e, at))
  BY FormTypes
<1>6. life \in Lives /\ \A i \in Id : life[i] # None => Active(life[i])
  BY <1>3, <1>5 DEF Lives
<1>7. grantedBy \in [Id -> Grantor] /\ \A i \in Id : grantedBy[i] \in Earlier
  BY <1>3 DEF Grantor, Earlier
<1>8. Types
  BY <1>3, <1>4, <1>6, <1>7 DEF Types, Steps
<1>9. ASSUME NEW p \in Call PROVE Sound(p) /\ ~(step[p] = "commit")
  BY <1>4 DEF Sound, Commanded, Fresh, RowFirst, Revoking, Checking, Viewing, HasViewed,
              Seeding, AfterCommit, RevokeSteps, AssignSteps, ViewSteps, SeedSteps,
              ListSteps, VerifySteps
<1>10. FreshDistinct
  BY <1>4 DEF FreshDistinct
<1>11. HostIndexCovers
  BY <1>7 DEF HostIndexCovers
<1>12. \A s \in Scope : HadAdministrator(s) => Administrators(s) # {}
  BY <1>6 DEF HadAdministrator, Administrators, HoldersOf
<1>13. AdministratorInHand /\ SingleSafe
  BY <1>9, <1>12 DEF AdministratorInHand, SingleSafe, LeavesAnother, Call
<1>. QED  BY <1>8, <1>9, <1>10, <1>11, <1>13 DEF AdminInv

LEMMA InvariantHolds == AdminSpec => []AdminInv
<1>. QED  BY InitHolds, NextKeeps, PTL DEF AdminSpec

-----------------------------------------------------------------------------
\* What follows.

\* Type correctness, and the facts each step of a call relies on: a revocation
\* past its commit has revoked its id and is guarded; the id about to be granted
\* is nobody's.
THEOREM AdminTypeCorrect == AdminSpec => []AdminTypeOK
<1>1. AdminInv => AdminTypeOK
  <2>. SUFFICES ASSUME AdminInv PROVE AdminTypeOK
    OBVIOUS
  <2>1. /\ \A i \in Id : life[i] \in Assignment \cup {None}
        /\ grantedBy \in [Id -> Grantor] /\ rows \subseteq Id
    BY DEF AdminInv, Types, Lives
  <2>2. ASSUME NEW p \in Call
        PROVE  /\ seen[p] \in Assignment \cup {None}
               /\ At(p, "commit") => seen[p] # None
               /\ step[p] \in AfterCommit => Guarded(seen[p]) /\ Revoked(life[job[p].id])
               /\ step[p] \in {"compensate", "assign_grant"} =>
                    fresh[p] \in Id /\ life[fresh[p]] = None
               /\ candidates[p] \subseteq Id
    <3>1. Sound(p) /\ seen[p] \in Assignment \cup {None} /\ fresh[p] \in Id \cup {None}
          /\ candidates[p] \subseteq Id
      BY DEF AdminInv, Types
    <3>. QED  BY <3>1, StepKinds DEF Sound, Revoking, Fresh, At, Active, RevokeSteps
  <2>. QED  BY <2>1, <2>2 DEF AdminTypeOK
<1>. QED  BY <1>1, InvariantHolds, PTL

\* No administrator is lost to a race of several instances: the scope of one who is
\* gone is in the hands of a revocation past its commit, or one was cut off there.
THEOREM AdministratorsRemain == AdminSpec => []AdministratorRemains
<1>1. AdminInv => AdministratorRemains
  BY DEF AdminInv, AdministratorInHand, AdministratorRemains, Repairing, AfterCommit
<1>. QED  BY <1>1, InvariantHolds, PTL

\* With one instance no scope that had an administrator is ever without.
THEOREM SingleNeverEmpty == AdminSpec => []SingleInstanceNeverEmpty
<1>1. AdminInv => SingleInstanceNeverEmpty
  BY DEF AdminInv, SingleSafe, SingleInstanceNeverEmpty
<1>. QED  BY <1>1, InvariantHolds, PTL

\* What an assignment, a seed or a compensation grants is in the host's index
\* from the instant it is active: the row is written first, by each of the three.
THEOREM IndexCovers == AdminSpec => []HostIndexCovers
<1>. QED  BY InvariantHolds, PTL DEF AdminInv

\* A grants view leaves what was active all through it in the host's index.
THEOREM ViewsHeal == AdminSpec => []ViewHeals
<1>1. AdminInv => ViewHeals
  BY DEF AdminInv, Sound, HasViewed, ViewHeals, At, Call
<1>. QED  BY <1>1, InvariantHolds, PTL

\* A step of AdminNext is a step of one call.
LEMMA OneCallMoves ==
  ASSUME AdminInv, AdminNext
  PROVE  \/ \E p \in Call : StillOthers(p) /\ step'[p] \in {"idle", "get"}
         \/ \E p \in Worker : StillOthers(p)
         \/ \E p \in Instance : StillOthers(p) /\ RevokeStep(p)
<1>0. \A p \in Call : Sound(p) /\ Types
  BY DEF AdminInv
<1>1. ASSUME NEW p \in Call, Leave(p) PROVE StillOthers(p) /\ step'[p] = "idle"
  BY <1>0, <1>1, LeaveEffect DEF StillOthers
<1>2. ASSUME NEW p \in Call, NEW c, NEW s, Start(p, c, s)
      PROVE  StillOthers(p) /\ step'[p] = s
  BY <1>0, <1>2 DEF Start, Still, StillOthers, Types
<1>3. ASSUME NEW p \in Worker, WorkStep(p) PROVE StillOthers(p)
  BY <1>0, <1>3, AssignListEffect, AssignRecordEffect, AssignGrantEffect, ViewListEffect,
     ViewRecordEffect, SeedHistoryEffect, SeedRecordEffect, SeedGrantEffect DEF WorkStep, Call
<1>4. ASSUME NEW p \in Instance, RevokeStep(p) PROVE StillOthers(p)
  BY <1>0, <1>4, RevokeGetEffect, RevokeCommitEffect, RecordGuardEffect, CompensateEffect,
     ListHoldersEffect, VerifyHolderEffect DEF RevokeStep, Call
<1>5. ASSUME NEW p \in Instance, StartRevoke(p)
      PROVE  StillOthers(p) /\ step'[p] = "get"
  <2>1. p \in Call /\ \E i \in Id : Start(p, [op |-> "revoke", id |-> i], "get")
    BY <1>5 DEF StartRevoke, Call
  <2>. QED  BY <1>2, <2>1
<1>6. ASSUME NEW p \in Worker, StartAssign(p) \/ StartView(p) \/ StartSeed(p)
      PROVE  StillOthers(p)
  <2>1. p \in Call /\ \E c, s : Start(p, c, s)
    BY <1>6 DEF StartAssign, StartView, StartSeed, Call
  <2>. QED  BY <1>2, <2>1
<1>. QED  BY <1>1, <1>3, <1>4, <1>5, <1>6 DEF AdminNext, Call

LEMMA NobodyIsRight ==
  ASSUME AdminInv, NEW p \in Instance, RevokeStep(p), SaysNobody(p), NEW i \in Id
  PROVE  ~HeldThroughout(p, i)
<1>0. p \in Call /\ Sound(p) /\ Types
  BY DEF Call, AdminInv
<1>1. step[p] \in ListSteps \cup VerifySteps
  BY StepNames DEF SaysNobody, ListSteps, VerifySteps
<1>2. begun[p] \in Snapshot /\ Behind(begun[p])
  BY <1>0, <1>1 DEF Sound, Checking
<1>3. ASSUME NEW where \in CheckSteps, ListHolders(p, where) PROVE ~HeldThroughout(p, i)
  <2>1. PICK s \in Listing(p) :
           \/ Moves(p, VerifyStep[where])
           \/ s \ Excluded(p) = {}
    BY <1>0, <1>3, ListHoldersEffect
  <2>2. ~Moves(p, VerifyStep[where])
    BY StepNames DEF SaysNobody, Moves
  <2>. QED  BY <1>0, <1>2, <2>1, <2>2, ListingCovers
<1>4. ASSUME NEW where \in CheckSteps, VerifyHolder(p, where) PROVE ~HeldThroughout(p, i)
  <2>1. step[p] \in VerifySteps
    BY <1>0, <1>4, VerifyHolderEffect, StepNames DEF VerifySteps
  <2>2. PICK j \in candidates[p] :
           \/ Finds(p, where)
           \/ Moves(p, VerifyStep[where])
           \/ ~Counts(j, seen[p]) /\ candidates[p] = {j}
    BY <1>0, <1>4, VerifyHolderEffect
  <2>3. ~Moves(p, VerifyStep[where]) /\ ~Finds(p, where)
    BY StepNames DEF SaysNobody, Moves, Finds, HasAnswered
  <2>4. HeldThroughout(p, i) => i \in candidates[p]
    BY <1>0, <2>1 DEF Sound, Checking
  <2>. QED  BY <2>2, <2>3, <2>4 DEF HeldThroughout, Counts
<1>5. ~(RevokeGet(p) \/ RevokeCommit(p) \/ RecordGuard(p) \/ Compensate(p))
  BY <1>1 DEF RevokeGet, RevokeCommit, RecordGuard, Compensate, At, ListSteps, VerifySteps
<1>. QED  BY <1>3, <1>4, <1>5 DEF RevokeStep

\* A revocation is refused, or compensated, only when nobody else the index knew
\* held the role all through its check.
THEOREM NobodyOverlooked == AdminSpec => HolderNeverOverlooked
<1>1. ASSUME AdminInv, AdminNext, NEW p \in Instance, SaysNobody(p), NEW i \in Id
      PROVE  ~HeldThroughout(p, i)
  <2>0. p \in Call /\ p \notin Worker
    BY AdministrationAssumption DEF Call
  <2>1. step[p] \in ListSteps \cup VerifySteps
        /\ step'[p] \in {"record_guard", "compensate", "answered"}
    BY <1>1, StepNames DEF SaysNobody, ListSteps, VerifySteps
  <2>2. step'[p] # step[p]
    BY <2>1 DEF ListSteps, VerifySteps
  <2>3. \A q \in Call : StillOthers(q) => q = p
    BY <2>0, <2>2 DEF StillOthers, Still
  <2>4. RevokeStep(p)
    BY <1>1, <2>0, <2>1, <2>3, OneCallMoves DEF Call
  <2>. QED  BY <1>1, <2>4, NobodyIsRight
<1>2. AdminInv /\ [AdminNext]_adminVars =>
        [\A p \in Instance : SaysNobody(p) =>
           \A i \in Id :
             ~ /\ Active(begun[p].life[i]) /\ Active(life[i])
               /\ life[i].role = seen[p].role /\ life[i].loc.scope = seen[p].loc.scope
               /\ HostIndex => i \in begun[p].rows
               /\ life[i].loc.principal # seen[p].loc.principal]_adminVars
  BY <1>1 DEF HeldThroughout
<1>. QED  BY <1>2, InvariantHolds, PTL DEF AdminSpec, HolderNeverOverlooked

\* A seed that begins after its target was ever granted grants nothing.
THEOREM SeedsRespectHistory == AdminSpec => SeedRespectsHistory
<1>1. ASSUME AdminInv, NEW w \in Worker, SeedGrants(w), NEW i \in Id, begun[w].life[i] # None
      PROVE  TargetOf(begun[w].life[i]) # job[w].target
  BY <1>1 DEF AdminInv, Sound, Seeding, SeedGrants, At, Call
<1>2. AdminInv =>
        [\A w \in Worker : SeedGrants(w) =>
           \A i \in Id : begun[w].life[i] # None =>
             TargetOf(begun[w].life[i]) # job[w].target]_adminVars
  BY <1>1
<1>. QED  BY <1>2, InvariantHolds, PTL DEF SeedRespectsHistory

\* The service changes the store by nothing but the grants and revokes the store
\* promises: what holds of RoleLifecycle's steps holds under administration.
THEOREM StoreStepsOnly == AdminSpec => [][Next]_vars
<1>1. ASSUME AdminInv, [AdminNext]_adminVars PROVE [Next]_vars
  <2>1. ASSUME NEW i \in Id, NEW t \in Target, NEW by, Granted(i, t, by) PROVE Next
    BY <2>1, FormTypes DEF Granted, Next
  <2>2. ASSUME NEW p \in Instance, RevokeStep(p) PROVE [Next]_vars
    <3>1. p \in Call /\ Sound(p) /\ Types
      BY <1>1 DEF Call, AdminInv
    <3>2. CASE RevokeGet(p) \/ RecordGuard(p)
               \/ \E where \in CheckSteps : ListHolders(p, where) \/ VerifyHolder(p, where)
      BY <3>2 DEF RevokeGet, RecordGuard, Record, ListHolders, VerifyHolder, StoreUnchanged, vars
    <3>3. CASE RevokeCommit(p)
      <4>1. job[p].id \in Id
        BY <3>1, <3>3, RevokeCommitEffect
      <4>2. CASE StoreUnchanged
        BY <4>2 DEF StoreUnchanged, vars
      <4>3. CASE \E e \in Event, by \in Actor, at \in Time :
                   Revoke(job[p].id, [event |-> e, by |-> by, at |-> at])
        BY <4>1, <4>3 DEF Next, Revocation
      <4>. QED  BY <3>3, <4>2, <4>3 DEF RevokeCommit
    <3>4. CASE Compensate(p)
      <4>1. fresh[p] \in Id /\ TargetOf(seen[p]) \in Target
        BY <3>1, <3>4, CompensateEffect DEF TargetOf, Target, Assignment
      <4>. QED  BY <2>1, <3>4, <4>1 DEF Compensate, StoreUnchanged, vars
    <3>. QED  BY <2>2, <3>2, <3>3, <3>4 DEF RevokeStep
  <2>3. ASSUME NEW p \in Worker, WorkStep(p) PROVE [Next]_vars
    <3>1. p \in Call /\ Sound(p) /\ Types
      BY <1>1 DEF Call, AdminInv
    <3>2. CASE AssignList(p) \/ AssignRecord(p) \/ ViewList(p) \/ ViewRecord(p)
               \/ SeedHistory(p) \/ SeedRecord(p)
      BY <3>2 DEF AssignList, AssignRecord, ViewList, ViewRecord, SeedHistory, SeedRecord,
                  Record, StoreUnchanged, vars
    <3>3. CASE AssignGrant(p)
      <4>1. fresh[p] \in Id /\ job[p].target \in Target
        BY <3>1, <3>3, AssignGrantEffect
           DEF AssignGrant, At, Sound, Commanded, AssignSteps, AssignJob
      <4>. QED  BY <2>1, <3>3, <4>1 DEF AssignGrant, StoreUnchanged, vars
    <3>4. CASE SeedGrant(p)
      <4>1. job[p].id \in Id /\ job[p].target \in Target
        BY <3>1, <3>4, SeedGrantEffect
           DEF SeedGrant, At, Sound, Commanded, SeedSteps, SeedJob
      <4>. QED  BY <2>1, <3>4, <4>1 DEF SeedGrant, StoreUnchanged, vars
    <3>. QED  BY <2>3, <3>2, <3>3, <3>4 DEF WorkStep
  <2>4. ASSUME NEW p \in Call, Leave(p) PROVE [Next]_vars
    BY <2>4 DEF Leave, StoreUnchanged, vars
  <2>5. ASSUME NEW p, \/ StartRevoke(p) \/ StartAssign(p) \/ StartView(p) \/ StartSeed(p)
        PROVE  [Next]_vars
    BY <2>5 DEF StartRevoke, StartAssign, StartView, StartSeed, Start, StoreUnchanged, vars
  <2>6. CASE UNCHANGED adminVars
    BY <2>6 DEF adminVars
  <2>. QED  BY <1>1, <2>2, <2>3, <2>4, <2>5, <2>6 DEF AdminNext
<1>. QED  BY <1>1, InvariantHolds, PTL DEF AdminSpec
=============================================================================
