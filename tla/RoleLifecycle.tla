---------------------------- MODULE RoleLifecycle ----------------------------
(***************************************************************************)
(* What the storage port promises, as if every audited grant and revoke    *)
(* were one indivisible step on one map of lifecycles: an id has one       *)
(* lifecycle, absent, then active, then revoked for good; one assignment   *)
(* at most is active for each principal, scope and role; and the history   *)
(* of an id gains exactly the event of the step that changed it.           *)
(***************************************************************************)
EXTENDS RoleRecords, Sequences

VARIABLES life,     \* life[i]: the lifecycle record of id i, or None
          history   \* history[i]: the audit event ids of i, in order

vars == <<life, history>>

Init == /\ life = [i \in Id |-> None]
        /\ history = [i \in Id |-> <<>>]

\* No assignment is active for this location and role.
TupleFree(loc, role) ==
    \A i \in Id : Active(life[i]) => ~(life[i].loc = loc /\ life[i].role = role)

\* An audited grant: the id is fresh and the tuple is free.
Grant(i, a) ==
    /\ a.id = i /\ a.revocation = None
    /\ life[i] = None
    /\ TupleFree(a.loc, a.role)
    /\ life' = [life EXCEPT ![i] = a]
    /\ history' = [history EXCEPT ![i] = Append(@, a.grantEvent)]

\* An audited revoke: adds evidence to an active lifecycle, never before its
\* own grant, and keeps the grant evidence.
Revoke(i, r) ==
    /\ Active(life[i])
    /\ r.at >= life[i].grantedAt
    /\ life' = [life EXCEPT ![i].revocation = r]
    /\ history' = [history EXCEPT ![i] = Append(@, r.event)]

Next == \E i \in Id : \/ \E a \in Assignment : Grant(i, a)
                      \/ \E r \in Revocation : Revoke(i, r)

Spec == Init /\ [][Next]_vars
=============================================================================
