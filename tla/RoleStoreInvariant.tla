-------------------------- MODULE RoleStoreInvariant --------------------------
(***************************************************************************)
(* The inductive invariant of RoleStore: what its safety properties leave  *)
(* out about records at rest, and what a call in flight may rely on while  *)
(* other calls run between its steps.                                      *)
(***************************************************************************)
EXTENDS RoleStore

\* A stored lifecycle is where the pointer of its id says.
LifecyclesFollowPointers ==
    \A l \in Location, i \in Id :
      LET a == RecordAt(l, i) IN
      a # None => /\ pointers[i] = [loc |-> l, role |-> a.role]
                  /\ a.id = i /\ a.loc = l

\* A holder row describes what the pointer of its id describes.
HoldersFollowPointers ==
    \A s \in Scope, r \in Role, i \in Id :
      holders[s][r][i] # None =>
        pointers[i] = [loc |-> [principal |-> holders[s][r][i], scope |-> s],
                       role |-> r]

\* Absence is version 0, and a tuple that ever had an assignment has a guard.
VersionsAgree ==
    \A l \in Location, i \in Id :
      /\ assignments[l][i].version = 0 <=> RecordAt(l, i) = None
      /\ RecordAt(l, i) # None => guards[l][RecordAt(l, i).role].version # 0

\* now is what was read, or a later version of it.
NotBefore(now, read) ==
    now.version >= read.version /\ (now.version = read.version => now = read)

\* A grant in flight: its pointer and holder row stay, and what it read of the
\* guard is the guard, or has been overtaken.
GrantInFlight(c) ==
    LET g == cmd[c]
        a == RecordAt(g.loc, g.id)
        guard == guards[g.loc][g.role]
    IN /\ g \in GrantCommand
       /\ ~At(c, "g_pointer") => pointers[g.id] = TargetOf(g)
       /\ pc[c] \notin {"g_pointer", "g_holder"} =>
            holders[g.loc.scope][g.role][g.id] = g.loc.principal
       /\ pc[c] \in {"g_existing", "g_transact"} =>
            NotBefore(guard, seen[c].guard) /\ ~HeldByOther(g, seen[c].guard)
       /\ At(c, "g_transact") =>
            a = None \/ guard.version > seen[c].guard.version
       /\ At(c, "g_written") =>
            a # None /\ a.grantEvent = g.event /\ a.grantedAt = g.at

\* The token a revoke presents was never ahead of its record.
TokenHeld(r) == r.token \in TokensHeld(r.id)

\* A revoke in flight: the pointer it followed stays, the record it read was
\* active at the version of its token, and is still, or has been overtaken; its
\* guard cannot be overtaken alone.
RevokeInFlight(c) ==
    LET r == cmd[c]
        p == seen[c].pointer
        was == seen[c].existing
        now == assignments[p.loc][r.id]
        guard == guards[p.loc][p.role]
    IN /\ r \in RevokeCommand
       /\ TokenHeld(r)
       /\ ~At(c, "r_locate") => p # None /\ p = pointers[r.id]
       /\ pc[c] \in {"r_guard", "r_transact"} =>
            /\ Active(was.value) /\ was.value.role = p.role
            /\ was.version = r.token /\ ~BeforeGrant(was.value, r)
            /\ was.version # 0
            /\ NotBefore(now, was)
       /\ At(c, "r_transact") =>
            /\ NotBefore(guard, seen[c].guard)
            /\ now.version > was.version \/ guard = seen[c].guard
       /\ At(c, "r_written") =>
            Revoked(now.value) /\ now.value.revocation = EvidenceOf(r)

GrantReplyTrue(c) ==
    LET g == cmd[c]
        r == reply[c]
        a == RecordAt(g.loc, g.id)
    IN /\ r.status \in {"granted", "unchanged"} =>
            /\ a # None /\ a.role = g.role /\ a.grantEvent = g.event
            /\ r.value # None /\ SameGrant(a, r.value)
       /\ r.status = "granted" => a.grantedAt = g.at
       /\ r.reason = "event_id" => a # None /\ a.grantEvent # g.event
       /\ r.reason = "assignment_id" =>
            \/ pointers[g.id] # None /\ pointers[g.id] # TargetOf(g)
            \/ a # None /\ a.grantEvent # g.event

RevokeReplyTrue(c) ==
    LET r == cmd[c]
        p == pointers[r.id]
        now == assignments[p.loc][r.id]
        answer == reply[c]
    IN /\ answer.status \in {"revoked", "unchanged"} =>
            /\ p # None /\ Revoked(now.value)
            /\ now.value.revocation = EvidenceOf(r) /\ answer.value = now.value
       /\ answer.reason = "concurrency" =>
            p # None /\ now.version > r.token
       /\ answer.reason = "lifecycle" =>
            /\ p # None /\ now.value # None
            /\ \/ Revoked(now.value) /\ now.value.revocation # EvidenceOf(r)
               \/ BeforeGrant(now.value, r)

\* Each call, by where it stands.
CallSound(c) ==
    /\ pc[c] \in GrantSteps => GrantInFlight(c)
    /\ pc[c] \in RevokeSteps => RevokeInFlight(c)
    /\ At(c, "replied") =>
         /\ reply[c].status # "corrupt"
         /\ \/ cmd[c] \in GrantCommand /\ GrantReplyTrue(c)
               /\ reply[c].status # "revoked"
            \/ cmd[c] \in RevokeCommand /\ RevokeReplyTrue(c)
               /\ reply[c].status # "granted"

\* The call that made, and the call that ended, the lifecycle of its id.
Made(c)  == At(c, "g_written") \/ (At(c, "replied") /\ reply[c].status = "granted")
Ended(c) == At(c, "r_written") \/ (At(c, "replied") /\ reply[c].status = "revoked")

OneMakesOneEnds ==
    \A c, d \in Client :
      /\ Made(c) /\ Made(d) /\ cmd[c].id = cmd[d].id => c = d
      /\ Ended(c) /\ Ended(d) /\ cmd[c].id = cmd[d].id => c = d

RecordsSound == /\ LifecyclesFollowPointers
                /\ HoldersFollowPointers
                /\ VersionsAgree
                /\ GuardNamesActive
                /\ AuditMatchesLifecycle

\* Inductive: records at rest agree with each other, and every call with them.
\* It leaves open whether a lifecycle has its holder row, which a grant of an
\* earlier release did not write.
StoreInv == /\ TypeOK
            /\ RecordsSound
            /\ \A c \in Client : CallSound(c)
            /\ OneMakesOneEnds

\* In a store that began empty every lifecycle has one.
IInv == StoreInv /\ LifecycleLocated
=============================================================================
