------------------------- MODULE RoleStoreRefinement -------------------------
(***************************************************************************)
(* Proofs about the steps of RoleStore, from its inductive invariant: its  *)
(* action properties, and that it implements RoleLifecycle, the store in   *)
(* which every audited mutation is one indivisible step.                   *)
(***************************************************************************)
EXTENDS RoleStoreProofs, SequenceTheorems

-----------------------------------------------------------------------------
\* Action properties.

LEMMA IrreversibleStep ==
    ASSUME StoreInv, [Next]_vars, NEW l \in Location, NEW i \in Id
    PROVE  LET a == RecordAt(l, i)
               b == RecordAt(l, i)'
           IN /\ a # None => b # None /\ SameGrant(a, b)
              /\ Revoked(a) => b = a
  BY StepSound DEF Evolves, RecordAt

LEMMA HandoverStep ==
    ASSUME StoreInv, [Next]_vars, NEW l \in Location, NEW r \in Role, NEW i \in Id,
           guards[l][r].occupant = i, guards'[l][r].occupant # i
    PROVE  guards'[l][r].occupant = None /\ Revoked(RecordAt(l, i)')
<1>1. StoreInv' /\ Evolves
  BY StepSound
<1>2. Active(RecordAt(l, i)) /\ RecordAt(l, i).role = r
  BY DEF StoreInv, RecordsSound, GuardNamesActive
<1>3. ~(Active(RecordAt(l, i)') /\ RecordAt(l, i)'.role = r)
  BY <1>1 DEF StoreInv, RecordsSound, GuardNamesActive
<1>4. RecordAt(l, i)' # None /\ SameGrant(RecordAt(l, i), RecordAt(l, i)')
  BY <1>1, <1>2 DEF Evolves, RecordAt, Active
<1>5. Revoked(RecordAt(l, i)')
  BY <1>2, <1>3, <1>4 DEF SameGrant, Active, Revoked
<1>6. guards'[l][r].occupant = None
  BY <1>1, RecordsAssumption DEF Evolves
<1> QED BY <1>5, <1>6

LEMMA CallersRevocationStep ==
    ASSUME StoreInv, [Next]_vars, NEW l \in Location, NEW i \in Id,
           Active(RecordAt(l, i)), Revoked(RecordAt(l, i)')
    PROVE  \E c \in Client :
             /\ At(c, "r_transact") /\ cmd[c].id = i
             /\ cmd[c].token = assignments[l][i].version
             /\ cmd[c].at >= RecordAt(l, i).grantedAt
             /\ RecordAt(l, i)'.revocation = EvidenceOf(cmd[c])
<1>1. RecordAt(l, i)' # RecordAt(l, i)
  BY DEF Active, Revoked
<1>2. PICK c \in Client : Commits(c)
  BY <1>1, OnlyCommitsWrite DEF RecordAt
<1>3. CASE GrantCommit(c)
  <2>1. GrantEffect(c)
    BY <1>3, GrantCommitEffect
  <2>2. CASE l = cmd[c].loc /\ i = cmd[c].id
    BY <2>1, <2>2 DEF GrantEffect, Active
  <2>3. CASE ~(l = cmd[c].loc /\ i = cmd[c].id)
    <3>1. assignments'[l][i] = assignments[l][i]
      BY <2>1, <2>3, SMTT(30) DEF GrantEffect
    <3> QED BY <1>1, <3>1 DEF RecordAt
  <2> QED BY <2>2, <2>3
<1>4. CASE RevokeCommit(c)
  <2> DEFINE r == cmd[c]
             k == seen[c].pointer.loc
             was == seen[c].existing
  <2>1. RevokeEffect(c)
    BY <1>4, RevokeCommitEffect
  <2>2. /\ \A m \in Location, j \in Id :
             assignments'[m][j] = IF m = k /\ j = r.id
                                    THEN [version |-> was.version + 1, value |-> RevokedForm(was.value, r)]
                                    ELSE assignments[m][j]
        /\ RevokedForm(was.value, r).revocation = EvidenceOf(r)
    BY <2>1 DEF RevokeEffect
  <2> HIDE DEF k, r, was
  <2>3. l = k /\ i = r.id
    BY <1>1, <2>2 DEF RecordAt
  <2>4. /\ assignments'[l][i].value = RevokedForm(was.value, r)
        /\ RevokedForm(was.value, r).revocation = EvidenceOf(r)
    BY <2>2, <2>3
  <2> USE DEF k, r, was
  <2>5. At(c, "r_transact") /\ was = assignments[l][i] /\ r.token = was.version
    BY <2>1, <2>3 DEF RevokeEffect
  <2>6. r.at >= was.value.grantedAt
    <3>1. r.at \in Time /\ was.value.grantedAt \in Time /\ ~BeforeGrant(was.value, r)
      BY <2>1 DEF RevokeEffect, RevokeCommand, Assignment
    <3>2. r.at \in Nat /\ was.value.grantedAt \in Nat /\ ~(r.at < was.value.grantedAt)
      BY <3>1, RecordsAssumption DEF BeforeGrant
    <3> HIDE DEF r, was
    <3> QED BY <3>2
  <2> QED BY <2>3, <2>4, <2>5, <2>6 DEF RecordAt
<1> QED BY <1>2, <1>3, <1>4 DEF Commits

\* A stored lifecycle keeps its grant evidence, and a revoked one never changes
\* again, whatever duplicate, delayed or competing call runs.
THEOREM Irreversible == Spec => LifecycleIrreversible
<1>1. StoreInv /\ [Next]_vars =>
        [\A l \in Location, i \in Id :
           LET a == RecordAt(l, i)
               b == RecordAt(l, i)'
           IN /\ a # None => b # None /\ SameGrant(a, b)
              /\ Revoked(a) => b = a]_vars
  BY IrreversibleStep
<1> QED BY <1>1, StoreInvariance, PTL DEF Spec, LifecycleIrreversible

\* A tuple passes on only through the revocation of the assignment that holds it.
THEOREM Handover == Spec => TupleHandover
<1>1. StoreInv /\ [Next]_vars =>
        [\A l \in Location, r \in Role, i \in Id :
           guards[l][r].occupant = i /\ guards'[l][r].occupant # i =>
             guards'[l][r].occupant = None /\ Revoked(RecordAt(l, i)')]_vars
  BY HandoverStep
<1> QED BY <1>1, StoreInvariance, PTL DEF Spec, TupleHandover

\* Only a caller that holds the version being replaced revokes it, with its own
\* evidence, no earlier than the grant.
THEOREM CallersRevocation == Spec => RevocationIsTheCallers
<1>1. StoreInv /\ [Next]_vars =>
        [\A l \in Location, i \in Id :
           Active(RecordAt(l, i)) /\ Revoked(RecordAt(l, i)') =>
             \E c \in Client :
               /\ At(c, "r_transact") /\ cmd[c].id = i
               /\ cmd[c].token = assignments[l][i].version
               /\ cmd[c].at >= RecordAt(l, i).grantedAt
               /\ RecordAt(l, i)'.revocation = EvidenceOf(cmd[c])]_vars
  BY CallersRevocationStep
<1> QED BY <1>1, StoreInvariance, PTL DEF Spec, RevocationIsTheCallers

-----------------------------------------------------------------------------
\* Implementation of RoleLifecycle.

\* The rows of an id by what its record is: absent, active, revoked.
LEMMA RowForms ==
    ASSUME NEW e, NEW f
    PROVE  /\ e = None /\ f = None => Row(e) \o Row(f) = <<>>
           /\ e # None /\ f = None => Row(e) \o Row(f) = <<e>>
           /\ e # None /\ f # None => Row(e) \o Row(f) = Append(<<e>>, f)
<1>1. <<>> \in Seq({e, f}) /\ <<e>> \in Seq({e, f}) /\ f \in {e, f}
  OBVIOUS
<1>2. <<>> \o <<>> = <<>> /\ <<e>> \o <<>> = <<e>>
  BY <1>1, ConcatEmptySeq
<1>3. <<e>> \o <<f>> = Append(<<e>>, f)
  BY <1>1, AppendIsConcat
<1> QED BY <1>2, <1>3 DEF Row

\* An id without a pointer has no record, and so no row.
LEMMA NoPointerNoRecord ==
    ASSUME TypeOK, RecordsSound, NEW i \in Id, pointers[i] = None, NEW l \in Location
    PROVE  RecordAt(l, i) = None /\ Rows(l, i) = <<>>
<1>1. RecordAt(l, i) = None
  BY LifecyclePointed
<1>2. audit[l][i][1] = None /\ audit[l][i][2] = None
  BY <1>1 DEF RecordsSound, AuditMatchesLifecycle, Revoked
<1> QED BY <1>1, <1>2, RowForms DEF Rows

\* New index rows, or none, change no abstract lifecycle and no history.
LEMMA IndexStutters ==
    ASSUME StoreInv, StoreInv', Evolves, UNCHANGED <<assignments, audit>>
    PROVE  LifeOf' = LifeOf /\ HistoryOf' = HistoryOf
<1>1. ASSUME NEW i \in Id
      PROVE  /\ LifeOf'[i] = LifeOf[i]
             /\ HistoryOf'[i] = HistoryOf[i]
  <2>1. CASE pointers[i] # None
    <3>1. pointers'[i] = pointers[i]
      BY <2>1 DEF Evolves
    <3> QED BY <2>1, <3>1 DEF LifeOf, HistoryOf, RecordAt, Rows
  <2>2. CASE pointers[i] = None /\ pointers'[i] = None
    BY <2>2 DEF LifeOf, HistoryOf
  <2>3. CASE pointers[i] = None /\ pointers'[i] # None
    <3>1. pointers'[i].loc \in Location
      BY <2>3 DEF StoreInv, TypeOK, Pointer
    <3>2. /\ RecordAt(pointers'[i].loc, i) = None
          /\ Rows(pointers'[i].loc, i) = <<>>
      BY <2>3, <3>1, NoPointerNoRecord DEF StoreInv
    <3> QED BY <2>3, <3>2 DEF LifeOf, HistoryOf, RecordAt, Rows
  <2> QED BY <2>1, <2>2, <2>3
<1>2. LifeOf = [i \in Id |-> LifeOf[i]] /\ LifeOf' = [i \in Id |-> LifeOf'[i]]
  BY DEF LifeOf
<1>3. HistoryOf = [i \in Id |-> HistoryOf[i]] /\ HistoryOf' = [i \in Id |-> HistoryOf'[i]]
  BY DEF HistoryOf
<1> QED BY <1>1, <1>2, <1>3

\* A commit of a grant is the abstract grant of its id.
LEMMA GrantImplements ==
    ASSUME StoreInv, NEW c \in Client, GrantCommit(c)
    PROVE  Abstract!Grant(cmd[c].id, GrantedForm(cmd[c]))
<1> DEFINE g == cmd[c]
           k == g.loc
           form == GrantedForm(g)
<1> HIDE DEF form
<1>1. GrantEffect(c)
  BY GrantCommitEffect
<1>2. /\ g.id \in Id /\ k \in Location /\ g.role \in Role
      /\ pointers[g.id] # None /\ pointers[g.id].loc = k /\ pointers' = pointers
      /\ RecordAt(k, g.id) = None /\ guards[k][g.role].occupant = None
      /\ form.revocation = None /\ form.id = g.id /\ form.loc = k /\ form.role = g.role
      /\ form.grantEvent = g.event
  BY <1>1, RecordsAssumption, SMTT(30) DEF GrantEffect, TargetOf, Pointer, Active, form
<1>3. \A l \in Location, i \in Id :
        /\ RecordAt(l, i)' = IF l = k /\ i = g.id THEN form ELSE RecordAt(l, i)
        /\ audit'[l][i][1] = IF l = k /\ i = g.id THEN g.event ELSE audit[l][i][1]
        /\ audit'[l][i][2] = audit[l][i][2]
  BY <1>1, SMTT(30) DEF GrantEffect, RecordAt, form
<1>4. LifeOf[g.id] = None
  BY <1>2 DEF LifeOf
<1>5. Abstract!TupleFree(form.loc, form.role)
  <2> SUFFICES ASSUME NEW i \in Id, Active(LifeOf[i]), LifeOf[i].loc = k, LifeOf[i].role = g.role
      PROVE  FALSE
    BY <1>2 DEF Abstract!TupleFree, Abstract!Active, Active
  <2>1. /\ pointers[i] # None /\ LifeOf[i] = RecordAt(pointers[i].loc, i)
        /\ pointers[i].loc \in Location
    BY DEF LifeOf, Active, StoreInv, TypeOK, Pointer
  <2>2. LifeOf[i].loc = pointers[i].loc
    BY <2>1 DEF StoreInv, RecordsSound, LifecyclesFollowPointers, Active
  <2>3. guards[k][g.role].occupant = i
    BY <1>2, <2>1, <2>2 DEF StoreInv, RecordsSound, GuardNamesActive
  <2> QED BY <1>2, <2>3, RecordsAssumption
<1>6. LifeOf' = [LifeOf EXCEPT ![g.id] = form]
  <2>1. ASSUME NEW i \in Id
        PROVE  LifeOf'[i] = IF i = g.id THEN form ELSE LifeOf[i]
    <3>1. pointers[i] # None => pointers[i].loc \in Location
      BY DEF StoreInv, TypeOK, Pointer
    <3> QED BY <1>2, <1>3, <3>1 DEF LifeOf
  <2> QED BY <1>2, <2>1 DEF LifeOf
<1>7. HistoryOf' = [HistoryOf EXCEPT ![g.id] = Append(@, form.grantEvent)]
  <2>1. /\ audit[k][g.id][1] = None /\ audit[k][g.id][2] = None
    BY <1>2 DEF StoreInv, RecordsSound, AuditMatchesLifecycle, Revoked
  <2>2. audit'[k][g.id][1] = g.event /\ audit'[k][g.id][2] = None /\ g.event # None
    BY <1>1, <1>2, <1>3, <2>1, RecordsAssumption, SMTT(30) DEF GrantEffect
  <2>3. HistoryOf[g.id] = <<>> /\ HistoryOf'[g.id] = <<g.event>>
    <3>1. /\ Row(audit[k][g.id][1]) \o Row(audit[k][g.id][2]) = <<>>
          /\ Row(audit'[k][g.id][1]) \o Row(audit'[k][g.id][2]) = <<g.event>>
      BY <2>1, <2>2, RowForms
    <3> QED BY <1>2, <3>1 DEF HistoryOf, Rows
  <2>4. Append(HistoryOf[g.id], form.grantEvent) = <<g.event>>
    BY <1>2, <2>3
  <2>5. ASSUME NEW i \in Id, i # g.id
        PROVE  HistoryOf'[i] = HistoryOf[i]
    <3>1. pointers[i] # None => pointers[i].loc \in Location
      BY DEF StoreInv, TypeOK, Pointer
    <3> QED BY <1>2, <1>3, <2>5, <3>1 DEF HistoryOf, Rows
  <2> QED BY <1>2, <2>3, <2>4, <2>5 DEF HistoryOf
<1> QED BY <1>2, <1>4, <1>5, <1>6, <1>7 DEF Abstract!Grant, form

\* A commit of a revoke is the abstract revoke of its id.
LEMMA RevokeImplements ==
    ASSUME StoreInv, NEW c \in Client, RevokeCommit(c)
    PROVE  Abstract!Revoke(cmd[c].id, EvidenceOf(cmd[c]))
<1> DEFINE r == cmd[c]
           p == seen[c].pointer
           k == p.loc
           was == seen[c].existing
           form == RevokedForm(was.value, r)
<1> HIDE DEF form
<1>1. RevokeEffect(c)
  BY RevokeCommitEffect
<1>2. /\ r.id \in Id /\ k \in Location /\ r.event \in Event
      /\ pointers[r.id] # None /\ pointers[r.id].loc = k /\ pointers' = pointers
      /\ RecordAt(k, r.id) = was.value /\ was.value \in Assignment /\ Active(was.value)
      /\ form = RevokedForm(was.value, r)
  BY <1>1 DEF RevokeEffect, RecordAt, form
<1>3. \A l \in Location, i \in Id :
        /\ RecordAt(l, i)' = IF l = k /\ i = r.id THEN form ELSE RecordAt(l, i)
        /\ audit'[l][i][1] = audit[l][i][1]
        /\ audit'[l][i][2] = IF l = k /\ i = r.id THEN r.event ELSE audit[l][i][2]
  <2>1. /\ \A l \in Location, i \in Id :
             assignments'[l][i] = IF l = k /\ i = r.id
                                    THEN [version |-> was.version + 1, value |-> form]
                                    ELSE assignments[l][i]
        /\ \A l \in Location, i \in Id :
             /\ audit'[l][i][1] = audit[l][i][1]
             /\ audit'[l][i][2] = IF l = k /\ i = r.id THEN r.event ELSE audit[l][i][2]
    BY <1>1 DEF RevokeEffect, form
  <2> HIDE DEF r, k, was
  <2> QED BY <2>1 DEF RecordAt
<1>4. LifeOf[r.id] = was.value
  BY <1>2 DEF LifeOf
<1>5. EvidenceOf(r).at >= was.value.grantedAt
  <2>1. r.at \in Time /\ was.value.grantedAt \in Time /\ ~(r.at < was.value.grantedAt)
    BY <1>1 DEF RevokeEffect, RevokeCommand, Assignment, BeforeGrant
  <2>2. r.at \in Nat /\ was.value.grantedAt \in Nat
    BY <2>1, RecordsAssumption
  <2>3. EvidenceOf(r).at = r.at
    BY DEF EvidenceOf
  <2> HIDE DEF r, was
  <2> QED BY <2>1, <2>2, <2>3
<1>6. LifeOf' = [LifeOf EXCEPT ![r.id].revocation = EvidenceOf(r)]
  <2>1. ASSUME NEW i \in Id
        PROVE  LifeOf'[i] = IF i = r.id THEN form ELSE LifeOf[i]
    <3>1. pointers[i] # None => pointers[i].loc \in Location
      BY DEF StoreInv, TypeOK, Pointer
    <3> QED BY <1>2, <1>3, <3>1 DEF LifeOf
  <2>2. form = [LifeOf[r.id] EXCEPT !.revocation = EvidenceOf(r)]
    BY <1>2, <1>4 DEF RevokedForm
  <2> QED BY <1>2, <2>1, <2>2 DEF LifeOf
<1>7. HistoryOf' = [HistoryOf EXCEPT ![r.id] = Append(@, EvidenceOf(r).event)]
  <2> DEFINE e == was.value.grantEvent
  <2>1. audit[k][r.id][1] = e /\ audit[k][r.id][2] = None /\ e # None
    BY <1>2, RecordsAssumption DEF StoreInv, RecordsSound, AuditMatchesLifecycle, Active, Revoked,
       Assignment
  <2>2. audit'[k][r.id][1] = e /\ audit'[k][r.id][2] = r.event /\ r.event # None
    BY <1>2, <1>3, <2>1, RecordsAssumption
  <2> HIDE DEF e
  <2>3. HistoryOf[r.id] = <<e>> /\ HistoryOf'[r.id] = Append(<<e>>, r.event)
    <3>1. /\ Row(audit[k][r.id][1]) \o Row(audit[k][r.id][2]) = <<e>>
          /\ Row(audit'[k][r.id][1]) \o Row(audit'[k][r.id][2]) = Append(<<e>>, r.event)
      BY <2>1, <2>2, RowForms
    <3> QED BY <1>2, <3>1 DEF HistoryOf, Rows
  <2>4. EvidenceOf(r).event = r.event
    BY DEF EvidenceOf
  <2>5. ASSUME NEW i \in Id, i # r.id
        PROVE  HistoryOf'[i] = HistoryOf[i]
    <3>1. pointers[i] # None => pointers[i].loc \in Location
      BY DEF StoreInv, TypeOK, Pointer
    <3> QED BY <1>2, <1>3, <2>5, <3>1 DEF HistoryOf, Rows
  <2> QED BY <1>2, <2>3, <2>4, <2>5 DEF HistoryOf
<1>8. Abstract!Active(LifeOf[r.id])
  BY <1>2, <1>4 DEF Abstract!Active, Active
<1> QED BY <1>4, <1>5, <1>6, <1>7, <1>8 DEF Abstract!Revoke

LEMMA StepImplements ==
    StoreInv /\ [Next]_vars => [Abstract!Next]_(Abstract!vars)
<1> SUFFICES ASSUME StoreInv, [Next]_vars PROVE Abstract!Next \/ UNCHANGED <<LifeOf, HistoryOf>>
  BY DEF Abstract!vars
<1>1. StoreInv' /\ Evolves
  BY StepSound
<1>2. CASE UNCHANGED <<assignments, audit>>
  BY <1>1, <1>2, IndexStutters
<1>3. ASSUME NEW c \in Client, GrantCommit(c) PROVE Abstract!Next
  <2>1. Abstract!Grant(cmd[c].id, GrantedForm(cmd[c]))
    BY <1>3, GrantImplements
  <2>2. cmd[c].id \in Id /\ GrantedForm(cmd[c]) \in Assignment
    BY <1>3, GrantCommitEffect DEF GrantEffect
  <2> QED BY <2>1, <2>2 DEF Abstract!Next, Abstract!Assignment, Assignment,
          Abstract!Location, Location, Abstract!Revocation, Revocation
<1>4. ASSUME NEW c \in Client, RevokeCommit(c) PROVE Abstract!Next
  <2>1. Abstract!Revoke(cmd[c].id, EvidenceOf(cmd[c]))
    BY <1>4, RevokeImplements
  <2>2. cmd[c].id \in Id /\ EvidenceOf(cmd[c]) \in Revocation
    BY <1>4, RevokeCommitEffect DEF RevokeEffect
  <2> QED BY <2>1, <2>2 DEF Abstract!Next, Abstract!Revocation, Revocation
<1> QED BY <1>2, <1>3, <1>4, OnlyCommitsWrite DEF Commits

\* The step-by-step store implements the store in which every audited mutation,
\* with its audit event, is one indivisible step, for any number of clients.
THEOREM Refinement == Spec => RefinesLifecycle
<1>1. Init => Abstract!Init
  BY DEF Init, Abstract!Init, LifeOf, HistoryOf
<1> QED BY <1>1, StepImplements, StoreInvariance, PTL DEF Spec, RefinesLifecycle, Abstract!Spec
=============================================================================
