--------------------------- MODULE RoleStoreProofs ---------------------------
(***************************************************************************)
(* Proofs about RoleStore, for every value of its constants.  A step of a  *)
(* call moves only that call, and changes the records only in ways every   *)
(* other call can live with (Evolves); so the inductive invariant is kept  *)
(* if the moving call stays sound and the records stay consistent.         *)
(***************************************************************************)
EXTENDS RoleStoreInvariant, TLAPS

StandsStill(d) == /\ pc'[d] = pc[d] /\ cmd'[d] = cmd[d]
                  /\ seen'[d] = seen[d] /\ reply'[d] = reply[d]

\* Only the call of c moves.
OnlyMoves(c) ==
    \A d \in Client : d # c => /\ pc'[d] = pc[d] /\ cmd'[d] = cmd[d]
                               /\ seen'[d] = seen[d] /\ reply'[d] = reply[d]

\* What a step may do to the records other calls have read: index rows stay,
\* versions only grow and tell a change, a lifecycle keeps its grant evidence
\* and its revocation, it appears, or leaves its guard, with a new version, and
\* a guard passes from one id to another only by way of nobody.
Evolves ==
    /\ \A i \in Id : pointers[i] # None => pointers'[i] = pointers[i]
    /\ \A s \in Scope, r \in Role, i \in Id :
         holders[s][r][i] # None => holders'[s][r][i] = holders[s][r][i]
    /\ \A l \in Location, i \in Id :
         LET was == assignments[l][i]
             now == assignments'[l][i]
         IN /\ NotBefore(now, was)
            /\ was.value # None => now.value # None /\ SameGrant(was.value, now.value)
            /\ Revoked(was.value) => now = was
            /\ was.value = None /\ now.value # None =>
                 guards'[l][now.value.role].version > guards[l][now.value.role].version
            /\ Active(was.value) /\ now.version = was.version =>
                 guards'[l][was.value.role] = guards[l][was.value.role]
    /\ \A l \in Location, r \in Role :
         /\ NotBefore(guards'[l][r], guards[l][r])
         /\ None \in {guards[l][r].occupant, guards'[l][r].occupant}
              \/ guards'[l][r].occupant = guards[l][r].occupant

\* Nobody becomes the maker or the ender of a lifecycle, and who is keeps its command.
NoNewMaker(c) ==
    /\ Made(c)' => Made(c) /\ cmd'[c] = cmd[c]
    /\ Ended(c)' => Ended(c) /\ cmd'[c] = cmd[c]

-----------------------------------------------------------------------------
\* A later version of a later version is a later version.
LEMMA NotBeforeTransitive ==
    ASSUME NEW a, NEW b, NEW c, NotBefore(b, a), NotBefore(c, b),
           a.version \in Nat, b.version \in Nat, c.version \in Nat
    PROVE  /\ NotBefore(c, a)
           /\ b.version # a.version => c.version > a.version
           /\ c.version # b.version => c.version > a.version
  BY DEF NotBefore

\* Unchanged records evolve.
LEMMA RestEvolves == ASSUME TypeOK, UNCHANGED stored PROVE Evolves
  BY DEF TypeOK, stored, Evolves, NotBefore, SameGrant, Revoked, Active,
         Versioned, Guard

\* So do records whose index gains rows.
LEMMA IndexEvolves ==
    ASSUME TypeOK, UNCHANGED <<assignments, guards>>,
           \A i \in Id : pointers[i] # None => pointers'[i] = pointers[i],
           \A s \in Scope, r \in Role, i \in Id :
             holders[s][r][i] # None => holders'[s][r][i] = holders[s][r][i]
    PROVE  Evolves
  BY DEF TypeOK, Evolves, NotBefore, SameGrant, Revoked, Active, Versioned, Guard

\* The makers and the enders stay single while nobody joins them.
LEMMA NoneJoins ==
    ASSUME NEW c \in Client, OneMakesOneEnds, OnlyMoves(c), NoNewMaker(c)
    PROVE  OneMakesOneEnds'
  BY DEF OneMakesOneEnds, OnlyMoves, NoNewMaker, Made, Ended, At

\* A call keeps being sound while others move.
LEMMA OthersStaySound ==
    ASSUME NEW d \in Client, StandsStill(d),
           TypeOK, TypeOK', RecordsSound', Evolves, CallSound(d)
    PROVE  CallSound(d)'
<1> USE RecordsAssumption
<1>0. /\ pc'[d] = pc[d] /\ cmd'[d] = cmd[d]
      /\ seen'[d] = seen[d] /\ reply'[d] = reply[d]
  BY DEF StandsStill
<1> DEFINE g == cmd[d]
<1>1. CASE pc[d] \in GrantSteps
  <2>1. GrantInFlight(d)
    BY <1>1 DEF CallSound
  <2> g \in GrantCommand
    BY <2>1 DEF GrantInFlight
  <2> /\ g.id \in Id /\ g.loc \in Location /\ g.role \in Role
      /\ g.loc.scope \in Scope /\ g.loc.principal \in Principal
    BY DEF GrantCommand, Location
  <2>2. ~At(d, "g_pointer")' => pointers'[g.id] = TargetOf(g)
    BY <1>0, <2>1, SMTT(30) DEF GrantInFlight, At, Evolves, TargetOf, Pointer
  <2>3. pc'[d] \notin {"g_pointer", "g_holder"} =>
          holders'[g.loc.scope][g.role][g.id] = g.loc.principal
    BY <1>0, <2>1, Zenon DEF GrantInFlight, Evolves
  <2>4. pc'[d] \in {"g_existing", "g_transact"} =>
          NotBefore(guards'[g.loc][g.role], seen'[d].guard) /\ ~HeldByOther(g, seen'[d].guard)
    <3>1. /\ guards[g.loc][g.role] \in Guard /\ guards'[g.loc][g.role] \in Guard
          /\ seen[d].guard \in Guard
      BY DEF TypeOK, Seen
    <3>2. /\ guards[g.loc][g.role].version \in Nat
          /\ guards'[g.loc][g.role].version \in Nat /\ seen[d].guard.version \in Nat
      BY <3>1 DEF Guard
    <3>3. NotBefore(guards'[g.loc][g.role], guards[g.loc][g.role])
      BY DEF Evolves
    <3>4. pc[d] \in {"g_existing", "g_transact"} =>
            NotBefore(guards[g.loc][g.role], seen[d].guard) /\ ~HeldByOther(g, seen[d].guard)
      BY <2>1 DEF GrantInFlight
    <3>5. CASE pc[d] \in {"g_existing", "g_transact"}
      <4>1. NotBefore(guards[g.loc][g.role], seen[d].guard)
        BY <3>4, <3>5
      <4>2. NotBefore(guards'[g.loc][g.role], seen[d].guard)
        BY <3>2, <3>3, <4>1, NotBeforeTransitive
      <4> QED BY <1>0, <3>4, <3>5, <4>2
    <3> QED BY <1>0, <3>5
  <2>5. At(d, "g_transact")' =>
          \/ assignments'[g.loc][g.id].value = None
          \/ guards'[g.loc][g.role].version > seen'[d].guard.version
    <3>1. /\ guards[g.loc][g.role] \in Guard /\ guards'[g.loc][g.role] \in Guard
          /\ seen[d].guard \in Guard
      BY DEF TypeOK, Seen
    <3>2. assignments'[g.loc][g.id].value # None =>
            pointers'[g.id] = [loc |-> g.loc, role |-> assignments'[g.loc][g.id].value.role]
      BY DEF RecordsSound, LifecyclesFollowPointers, RecordAt
    <3>3. ASSUME At(d, "g_transact"), assignments[g.loc][g.id].value = None,
                 assignments'[g.loc][g.id].value # None
          PROVE  guards'[g.loc][g.role].version > guards[g.loc][g.role].version
      <4>1. assignments'[g.loc][g.id].value.role = g.role
        BY <1>0, <2>2, <3>2, <3>3 DEF At, TargetOf
      <4> QED BY <3>3, <4>1, SMTT(30) DEF Evolves
    <3>4. At(d, "g_transact") =>
            /\ NotBefore(guards[g.loc][g.role], seen[d].guard)
            /\ \/ assignments[g.loc][g.id].value = None
               \/ guards[g.loc][g.role].version > seen[d].guard.version
      BY <2>1 DEF GrantInFlight, At, RecordAt
    <3>5. NotBefore(guards'[g.loc][g.role], guards[g.loc][g.role])
      BY DEF Evolves
    <3> QED BY <1>0, <3>1, <3>3, <3>4, <3>5 DEF At, NotBefore, Guard
  <2>6. At(d, "g_written")' =>
          /\ assignments'[g.loc][g.id].value # None
          /\ assignments'[g.loc][g.id].value.grantEvent = g.event
          /\ assignments'[g.loc][g.id].value.grantedAt = g.at
    BY <1>0, <2>1, ZenonT(30) DEF GrantInFlight, At, Evolves, RecordAt, SameGrant
  <2>7. GrantInFlight(d)'
    BY <1>0, <2>2, <2>3, <2>4, <2>5, <2>6 DEF GrantInFlight, At, RecordAt
  <2> QED BY <2>7, <1>0, <1>1 DEF CallSound, GrantSteps, RevokeSteps, At
<1>2. CASE pc[d] \in RevokeSteps
  <2>1. RevokeInFlight(d)
    BY <1>2 DEF CallSound
  <2> DEFINE r == cmd[d]
             p == seen[d].pointer
             was == seen[d].existing
  <2> r \in RevokeCommand
    BY <2>1 DEF RevokeInFlight
  <2> r.id \in Id /\ r.token \in Nat /\ was \in Versioned /\ seen[d].guard \in Guard
    BY DEF RevokeCommand, TypeOK, Seen
  <2>2. TokenHeld(r)'
    <3>1. ASSUME NEW l \in Location
          PROVE  assignments[l][r.id].version <= assignments'[l][r.id].version
      <4>1. assignments[l][r.id].version \in Nat /\ assignments'[l][r.id].version \in Nat
        BY DEF TypeOK, Versioned
      <4> QED BY <4>1 DEF Evolves, NotBefore
    <3>2. TokenHeld(r)
      BY <2>1 DEF RevokeInFlight
    <3>3. r' = r
      BY <1>0
    <3>4. CASE r.token = 0
      BY <3>3, <3>4 DEF TokenHeld, TokensHeld
    <3>5. CASE r.token # 0
      <4>1. PICK l \in Location : r.token \in 1..assignments[l][r.id].version
        BY <3>2, <3>5 DEF TokenHeld, TokensHeld
      <4>2. assignments[l][r.id].version \in Nat /\ assignments'[l][r.id].version \in Nat
        BY DEF TypeOK, Versioned
      <4>3. r.token \in 1..assignments'[l][r.id].version
        BY <4>1, <4>2, <3>1
      <4> QED BY <4>3, <3>3 DEF TokenHeld, TokensHeld
    <3> QED BY <3>4, <3>5
  <2>3. ~At(d, "r_locate")' => p # None /\ p = pointers'[r.id]
    BY <1>0, <2>1 DEF RevokeInFlight, At, Evolves
  <2>4. ~At(d, "r_locate") => p \in Pointer /\ p.loc \in Location /\ p.role \in Role
    BY <2>1 DEF RevokeInFlight, TypeOK, Seen, Pointer
  <2>5. pc'[d] \in {"r_guard", "r_transact"} =>
            /\ Active(was.value) /\ was.value.role = p.role
            /\ was.version = r.token /\ ~BeforeGrant(was.value, r)
            /\ was.version # 0
            /\ NotBefore(assignments'[p.loc][r.id], was)
    <3> SUFFICES ASSUME pc'[d] \in {"r_guard", "r_transact"} PROVE NotBefore(assignments'[p.loc][r.id], was)
      BY <1>0, <2>1 DEF RevokeInFlight
    <3>1. assignments[p.loc][r.id] \in Versioned /\ assignments'[p.loc][r.id] \in Versioned
      BY <1>0, <2>4 DEF TypeOK, At
    <3>2. NotBefore(assignments[p.loc][r.id], was)
      BY <1>0, <2>1 DEF RevokeInFlight
    <3>3. NotBefore(assignments'[p.loc][r.id], assignments[p.loc][r.id])
      BY <1>0, <2>4 DEF Evolves, At
    <3> QED BY <3>1, <3>2, <3>3, SMTT(30) DEF NotBefore, Versioned
  <2>6. At(d, "r_transact")' =>
            /\ NotBefore(guards'[p.loc][p.role], seen[d].guard)
            /\ \/ assignments'[p.loc][r.id].version > was.version
               \/ guards'[p.loc][p.role] = seen[d].guard
    <3> SUFFICES ASSUME At(d, "r_transact") PROVE
            /\ NotBefore(guards'[p.loc][p.role], seen[d].guard)
            /\ \/ assignments'[p.loc][r.id].version > was.version
               \/ guards'[p.loc][p.role] = seen[d].guard
      BY <1>0 DEF At
    <3>1. p.loc \in Location /\ p.role \in Role
      BY <2>4 DEF At
    <3>2. /\ assignments[p.loc][r.id] \in Versioned /\ assignments'[p.loc][r.id] \in Versioned
          /\ guards[p.loc][p.role] \in Guard /\ guards'[p.loc][p.role] \in Guard
      BY <3>1 DEF TypeOK
    <3>3. /\ NotBefore(assignments[p.loc][r.id], was) /\ Active(was.value) /\ was.value.role = p.role
          /\ NotBefore(guards[p.loc][p.role], seen[d].guard)
          /\ \/ assignments[p.loc][r.id].version > was.version
             \/ guards[p.loc][p.role] = seen[d].guard
      BY <2>1, ZenonT(30) DEF RevokeInFlight, At
    <3>4. /\ NotBefore(assignments'[p.loc][r.id], assignments[p.loc][r.id])
          /\ NotBefore(guards'[p.loc][p.role], guards[p.loc][p.role])
          /\ Active(assignments[p.loc][r.id].value) 
             /\ assignments'[p.loc][r.id].version = assignments[p.loc][r.id].version 
             => guards'[p.loc][assignments[p.loc][r.id].value.role] 
                = guards[p.loc][assignments[p.loc][r.id].value.role]
      BY <3>1, ZenonT(30) DEF Evolves
    <3>5. /\ was.version \in Nat /\ assignments[p.loc][r.id].version \in Nat
          /\ assignments'[p.loc][r.id].version \in Nat
          /\ guards[p.loc][p.role].version \in Nat /\ guards'[p.loc][p.role].version \in Nat
          /\ seen[d].guard.version \in Nat
      BY <3>2 DEF Versioned, Guard
    <3>6. NotBefore(guards'[p.loc][p.role], seen[d].guard)
      BY <3>3, <3>4, <3>5, NotBeforeTransitive, ZenonT(30)
    <3>7. CASE assignments[p.loc][r.id].version = was.version
                 /\ assignments'[p.loc][r.id].version = assignments[p.loc][r.id].version
      <4>1. assignments[p.loc][r.id] = was /\ guards[p.loc][p.role] = seen[d].guard
        BY <3>3, <3>5, <3>7, SMTT(30) DEF NotBefore
      <4> QED BY <3>3, <3>4, <3>6, <3>7, <4>1, ZenonT(30)
    <3>8. CASE ~(assignments[p.loc][r.id].version = was.version
                   /\ assignments'[p.loc][r.id].version = assignments[p.loc][r.id].version)
      <4>1. assignments'[p.loc][r.id].version > was.version
        BY <3>3, <3>4, <3>5, <3>8, NotBeforeTransitive, ZenonT(30)
      <4> QED BY <3>6, <4>1
    <3> QED BY <3>7, <3>8
  <2>7. At(d, "r_written")' =>
            /\ Revoked(assignments'[p.loc][r.id].value) 
            /\ assignments'[p.loc][r.id].value.revocation = EvidenceOf(r)
    BY <1>0, <2>1, <2>4, ZenonT(30) DEF RevokeInFlight, At, Evolves
  <2>8. RevokeInFlight(d)'
    BY <1>0, <2>2, <2>3, <2>5, <2>6, <2>7 DEF RevokeInFlight, At
  <2> QED BY <2>8, <1>0, <1>2 DEF CallSound, GrantSteps, RevokeSteps, At
<1>3. CASE pc[d] = "replied"
  <2>1. CASE g \in GrantCommand /\ GrantReplyTrue(d) /\ reply[d].status # "revoked"
    <3> DEFINE a == assignments[g.loc][g.id].value
               b == assignments'[g.loc][g.id].value
    <3>1. g.id \in Id /\ g.loc \in Location /\ g.role \in Role
      BY <2>1 DEF GrantCommand
    <3>2. /\ a # None => b # None /\ SameGrant(a, b)
          /\ pointers[g.id] # None => pointers'[g.id] = pointers[g.id]
      BY <3>1 DEF Evolves
    <3>3. GrantReplyTrue(d)'
      BY <1>0, <2>1, <3>2, ZenonT(30) DEF GrantReplyTrue, RecordAt, SameGrant
    <3> QED BY <3>3, <2>1, <1>0, <1>3 DEF CallSound, GrantSteps, RevokeSteps, At
  <2>2. CASE g \in RevokeCommand /\ RevokeReplyTrue(d) /\ reply[d].status # "granted"
    <3> DEFINE l == pointers[g.id].loc
               was == assignments[l][g.id]
               now == assignments'[l][g.id]
    <3>1. g.id \in Id /\ g.token \in Nat
      BY <2>2 DEF RevokeCommand
    <3>2. ASSUME pointers[g.id] # None
          PROVE  /\ pointers'[g.id] = pointers[g.id] /\ l \in Location
                 /\ was \in Versioned /\ now \in Versioned
      BY <3>1, <3>2, SMTT(30) DEF TypeOK, Evolves, Pointer
    <3>3. ASSUME pointers[g.id] # None
          PROVE  /\ now.version >= was.version
                 /\ was.value # None => now.value # None /\ SameGrant(was.value, now.value)
                 /\ Revoked(was.value) => now = was
      BY <3>1, <3>2, <3>3 DEF Evolves, NotBefore
    <3>4. RevokeReplyTrue(d)'
      <4>1. CASE pointers[g.id] = None
        BY <1>0, <2>2, <4>1 DEF RevokeReplyTrue
      <4>2. CASE pointers[g.id] # None
        <5>1. was.version \in Nat /\ now.version \in Nat
          BY <3>2, <4>2 DEF Versioned
        <5>2. /\ reply[d].status \in {"revoked", "unchanged"} =>
                   /\ Revoked(was.value) /\ was.value.revocation = EvidenceOf(g)
                   /\ reply[d].value = was.value
              /\ reply[d].reason = "concurrency" => was.version > g.token
              /\ reply[d].reason = "lifecycle" =>
                   /\ was.value # None
                   /\ \/ Revoked(was.value) /\ was.value.revocation # EvidenceOf(g)
                      \/ BeforeGrant(was.value, g)
          BY <2>2, ZenonT(30) DEF RevokeReplyTrue
        <5>3. /\ now.version >= was.version
              /\ was.value # None => now.value # None /\ SameGrant(was.value, now.value)
              /\ Revoked(was.value) => now = was
          BY <3>3, <4>2, Zenon
        <5>4. /\ reply[d].status \in {"revoked", "unchanged"} =>
                   /\ Revoked(now.value) /\ now.value.revocation = EvidenceOf(g)
                   /\ reply[d].value = now.value
              /\ reply[d].reason = "concurrency" => now.version > g.token
              /\ reply[d].reason = "lifecycle" =>
                   /\ now.value # None
                   /\ \/ Revoked(now.value) /\ now.value.revocation # EvidenceOf(g)
                      \/ BeforeGrant(now.value, g)
          <6> HIDE DEF l, was, now, g
          <6>1. reply[d].reason = "concurrency" => now.version > g.token
            BY <3>1, <5>1, <5>2, <5>3
          <6>2. BeforeGrant(was.value, g) /\ was.value # None => BeforeGrant(now.value, g)
            BY <5>3 DEF BeforeGrant, SameGrant
          <6> QED BY <5>2, <5>3, <6>1, <6>2
        <5> QED BY <1>0, <3>2, <4>2, <5>4, Zenon DEF RevokeReplyTrue
      <4> QED BY <4>1, <4>2
    <3> QED BY <3>4, <2>2, <1>0, <1>3 DEF CallSound, GrantSteps, RevokeSteps, At
  <2> QED BY <1>3, <2>1, <2>2 DEF CallSound, At
<1> QED BY <1>0, <1>1, <1>2, <1>3 DEF CallSound, At

-----------------------------------------------------------------------------
\* A step keeps the invariant if it keeps the records consistent, lets them
\* only evolve, and leaves the one call that moves sound.
LEMMA WritingStep ==
    ASSUME StoreInv, NEW c \in Client, TypeOK', RecordsSound', Evolves, OnlyMoves(c),
           CallSound(c)', OneMakesOneEnds'
    PROVE  StoreInv' /\ Evolves
<1>1. ASSUME NEW d \in Client PROVE CallSound(d)'
  <2>1. CASE d = c
    BY <2>1
  <2>2. CASE d # c
    BY <2>2, OthersStaySound DEF StoreInv, OnlyMoves, StandsStill
  <2> QED BY <2>1, <2>2
<1> QED BY <1>1 DEF StoreInv

LEMMA LocationForm ==
    ASSUME NEW l \in Location PROVE l = [principal |-> l.principal, scope |-> l.scope]
  BY DEF Location

\* A lifecycle's pointer, and a holder row's, is there: it is not null.
LEMMA LifecyclePointed ==
    ASSUME TypeOK, RecordsSound, NEW l \in Location, NEW i \in Id, RecordAt(l, i) # None
    PROVE  pointers[i] # None /\ RecordAt(l, i) \in Assignment
<1>1. RecordAt(l, i) \in Assignment
  <2>1. assignments[l][i] \in Versioned
    BY DEF TypeOK
  <2> QED BY <2>1 DEF Versioned, RecordAt
<1>2. pointers[i] = [loc |-> l, role |-> RecordAt(l, i).role]
  BY DEF RecordsSound, LifecyclesFollowPointers
<1>3. RecordAt(l, i).role \in Role /\ l.principal \in Principal
  BY <1>1, RecordsAssumption DEF Assignment, Location
<1>4. pointers[i] \in Pointer
  BY <1>2, <1>3 DEF Pointer
<1> QED BY <1>1, <1>2, <1>3, <1>4, RecordsAssumption

LEMMA HolderPointed ==
    ASSUME TypeOK, RecordsSound, NEW s \in Scope, NEW r \in Role, NEW i \in Id,
           holders[s][r][i] # None
    PROVE  pointers[i] # None
<1>1. holders[s][r][i] \in Principal
  BY DEF TypeOK
<1>2. pointers[i] = [loc |-> [principal |-> holders[s][r][i], scope |-> s], role |-> r]
  BY DEF RecordsSound, HoldersFollowPointers
<1>3. pointers[i] \in Pointer
  BY <1>1, <1>2 DEF Pointer, Location
<1> QED BY <1>3, RecordsAssumption

\* New index rows leave the records consistent.
LEMMA IndexStep ==
    ASSUME TypeOK, RecordsSound, UNCHANGED <<assignments, guards, audit>>,
           \A i \in Id : pointers[i] # None => pointers'[i] = pointers[i],
           \A s \in Scope, r \in Role, i \in Id :
             holders[s][r][i] # None => holders'[s][r][i] = holders[s][r][i],
           HoldersFollowPointers'
    PROVE  RecordsSound'
<1>1. LifecyclesFollowPointers'
  <2> SUFFICES ASSUME NEW l \in Location, NEW i \in Id, assignments[l][i].value # None
      PROVE  LET a == assignments[l][i].value IN
             /\ pointers'[i] = [loc |-> l, role |-> a.role]
             /\ a.id = i /\ a.loc = l
    BY DEF LifecyclesFollowPointers, RecordAt
  <2>1. pointers[i] # None /\ assignments[l][i].value \in Assignment
    BY LifecyclePointed DEF RecordAt
  <2> QED BY <2>1, SMTT(30) DEF RecordsSound, LifecyclesFollowPointers, RecordAt, Location, Assignment
<1>2. VersionsAgree' /\ GuardNamesActive' /\ AuditMatchesLifecycle'
  BY DEF RecordsSound, VersionsAgree, GuardNamesActive, AuditMatchesLifecycle, RecordAt
<1> QED BY <1>1, <1>2 DEF RecordsSound

\* If it writes no record, the moving call is all there is to check.
LEMMA ReadingStep ==
    ASSUME StoreInv, NEW c \in Client, UNCHANGED stored, TypeOK', OnlyMoves(c),
           NoNewMaker(c), CallSound(c)'
    PROVE  StoreInv' /\ Evolves
<1>1. Evolves
  BY RestEvolves DEF StoreInv
<1>2. RecordsSound'
  BY SMTT(30) DEF StoreInv, stored, RecordsSound, LifecyclesFollowPointers, HoldersFollowPointers,
         VersionsAgree, GuardNamesActive, AuditMatchesLifecycle, RecordAt
<1>3. OneMakesOneEnds'
  BY NoneJoins DEF StoreInv
<1> QED BY <1>1, <1>2, <1>3, WritingStep

\* An answer of a legal form moves the call to "replied" and nothing else.
LEMMA AnswerMoves ==
    ASSUME TypeOK, NEW c \in Client, NEW status, NEW reason, NEW value,
           [status |-> status, reason |-> reason, value |-> value] \in Reply,
           Answer(c, status, reason, value), UNCHANGED stored
    PROVE  /\ TypeOK' /\ OnlyMoves(c) /\ pc'[c] = "replied" /\ cmd'[c] = cmd[c]
           /\ reply'[c] = [status |-> status, reason |-> reason, value |-> value]
<1>1. NothingSeen \in Seen
  BY DEF NothingSeen, Seen, NoAssignment, NoGuard, Versioned, Guard
<1>2. /\ pc' \in [Client -> {"idle", "replied"} \cup GrantSteps \cup RevokeSteps]
      /\ cmd' = cmd /\ seen' \in [Client -> Seen] /\ reply' \in [Client -> Reply \cup {None}]
  BY <1>1 DEF TypeOK, Answer
<1> QED BY <1>2 DEF TypeOK, Answer, OnlyMoves, stored

\* A step forward that keeps the record types moves the call and nothing else.
LEMMA GotoMoves ==
    ASSUME TypeOK, NEW c \in Client, NEW step \in GrantSteps \cup RevokeSteps,
           Goto(c, step), NEW s \in Seen,
           seen' = seen \/ seen' = [seen EXCEPT ![c] = s]
    PROVE  /\ pc' \in [Client -> {"idle", "replied"} \cup GrantSteps \cup RevokeSteps]
           /\ cmd' = cmd /\ reply' = reply /\ seen' \in [Client -> Seen]
           /\ OnlyMoves(c) /\ pc'[c] = step
  BY DEF TypeOK, Goto, OnlyMoves

\* A true grant answer to a call in flight keeps the invariant.
LEMMA GrantAnswered ==
    ASSUME StoreInv, NEW c \in Client, NEW status, NEW reason, NEW value,
           [status |-> status, reason |-> reason, value |-> value] \in Reply,
           status \notin {"corrupt", "revoked"},
           status = "granted" => At(c, "g_written"), pc[c] \in GrantSteps,
           Answer(c, status, reason, value), UNCHANGED stored, GrantReplyTrue(c)'
    PROVE  StoreInv' /\ Evolves
<1>1. /\ TypeOK' /\ OnlyMoves(c) /\ pc'[c] = "replied" /\ cmd'[c] = cmd[c]
      /\ reply'[c] = [status |-> status, reason |-> reason, value |-> value]
  BY AnswerMoves DEF StoreInv
<1>2. cmd[c] \in GrantCommand
  BY DEF StoreInv, CallSound, GrantInFlight
<1>3. NoNewMaker(c)
  BY <1>1 DEF NoNewMaker, Made, Ended, At
<1>5. CallSound(c)'
  BY <1>1, <1>2 DEF CallSound, At, GrantSteps, RevokeSteps
<1> QED BY <1>1, <1>3, <1>5, ReadingStep

\* A grant is always free to answer that the tuple is taken: it claims nothing.
LEMMA TupleConflict ==
    ASSUME StoreInv, NEW c \in Client, pc[c] \in GrantSteps,
           Conflict(c, "active_tuple"), UNCHANGED stored
    PROVE  StoreInv' /\ Evolves
<1>1. Answer(c, "conflict", "active_tuple", None)
  BY DEF Conflict
<1>2. [status |-> "conflict", reason |-> "active_tuple", value |-> None] \in Reply
  BY DEF Reply
<1>3. GrantReplyTrue(c)'
  BY <1>1 DEF Answer, GrantReplyTrue, StoreInv, TypeOK
<1> QED BY <1>1, <1>2, <1>3, GrantAnswered

\* A grant in flight that finds a record finds the one its pointer names, so
\* what it settles on is true.
LEMMA SettledFound ==
    ASSUME StoreInv, NEW c \in Client, pc[c] \in GrantSteps, ~At(c, "g_pointer"),
           NEW reason \in {"event_id", "assignment_id"},
           RecordAt(cmd[c].loc, cmd[c].id) # None,
           SettleFound(c, RecordAt(cmd[c].loc, cmd[c].id), reason), UNCHANGED stored
    PROVE  StoreInv' /\ Evolves
<1> DEFINE g == cmd[c]
           found == RecordAt(g.loc, g.id)
<1>1. g \in GrantCommand /\ pointers[g.id] = TargetOf(g)
  BY DEF StoreInv, CallSound, GrantInFlight
<1>2. g.id \in Id /\ g.loc \in Location /\ g.role \in Role
  BY <1>1 DEF GrantCommand
<1>3. found \in Assignment
  BY <1>2, LifecyclePointed DEF StoreInv
<1>4. Agrees(found, g.id, TargetOf(g))
  <2>1. /\ pointers[g.id] = [loc |-> g.loc, role |-> found.role]
        /\ found.id = g.id /\ found.loc = g.loc
    BY <1>2 DEF StoreInv, RecordsSound, LifecyclesFollowPointers
  <2> QED BY <1>1, <2>1 DEF TargetOf, Agrees
<1>5. CASE IsReplay(found, g)
  <2>1. Answer(c, "unchanged", "none", found)
    BY <1>4, <1>5 DEF SettleFound
  <2>2. [status |-> "unchanged", reason |-> "none", value |-> found] \in Reply
    BY <1>3 DEF Reply
  <2>3. GrantReplyTrue(c)'
    BY Zenon, <1>3, <1>4, <1>5, <2>1 DEF Answer, stored, GrantReplyTrue, RecordAt, Agrees,
       TargetOf, IsReplay, SameGrant, StoreInv, TypeOK
  <2> QED BY <2>1, <2>2, <2>3, GrantAnswered
<1>6. CASE ~IsReplay(found, g)
  <2>1. Answer(c, "conflict", reason, None)
    BY <1>4, <1>6 DEF SettleFound, Conflict
  <2>2. [status |-> "conflict", reason |-> reason, value |-> None] \in Reply
    BY DEF Reply
  <2>3. GrantReplyTrue(c)'
    BY <1>6, <2>1 DEF Answer, stored, GrantReplyTrue, RecordAt, IsReplay, StoreInv, TypeOK
  <2> QED BY <2>1, <2>2, <2>3, GrantAnswered
<1> QED BY <1>5, <1>6

\* A true revoke answer to a call in flight keeps the invariant.
LEMMA RevokeAnswered ==
    ASSUME StoreInv, NEW c \in Client, NEW status, NEW reason, NEW value,
           [status |-> status, reason |-> reason, value |-> value] \in Reply,
           status \notin {"corrupt", "granted"},
           status = "revoked" => At(c, "r_written"), pc[c] \in RevokeSteps,
           Answer(c, status, reason, value), UNCHANGED stored, RevokeReplyTrue(c)'
    PROVE  StoreInv' /\ Evolves
<1>1. /\ TypeOK' /\ OnlyMoves(c) /\ pc'[c] = "replied" /\ cmd'[c] = cmd[c]
      /\ reply'[c] = [status |-> status, reason |-> reason, value |-> value]
  BY AnswerMoves DEF StoreInv
<1>2. cmd[c] \in RevokeCommand
  BY DEF StoreInv, CallSound, RevokeInFlight
<1>3. NoNewMaker(c)
  BY <1>1 DEF NoNewMaker, Made, Ended, At
<1>5. CallSound(c)'
  BY <1>1, <1>2 DEF CallSound, At, GrantSteps, RevokeSteps
<1> QED BY <1>1, <1>3, <1>5, ReadingStep

\* A revoke is always free to answer that there is nothing: it claims nothing.
LEMMA NotFoundAnswer ==
    ASSUME StoreInv, NEW c \in Client, pc[c] \in RevokeSteps,
           Answer(c, "not_found", "none", None), UNCHANGED stored
    PROVE  StoreInv' /\ Evolves
<1>1. [status |-> "not_found", reason |-> "none", value |-> None] \in Reply
  BY DEF Reply
<1>2. RevokeReplyTrue(c)'
  BY DEF Answer, RevokeReplyTrue, StoreInv, TypeOK
<1> QED BY <1>1, <1>2, RevokeAnswered

\* A revoke may answer "concurrency" once its record is beyond its token.
LEMMA OvertakenAnswer ==
    ASSUME StoreInv, NEW c \in Client, pc[c] \in RevokeSteps,
           pointers[cmd[c].id] # None,
           assignments[pointers[cmd[c].id].loc][cmd[c].id].version > cmd[c].token,
           Conflict(c, "concurrency"), UNCHANGED stored
    PROVE  StoreInv' /\ Evolves
<1>1. Answer(c, "conflict", "concurrency", None)
  BY DEF Conflict
<1>2. [status |-> "conflict", reason |-> "concurrency", value |-> None] \in Reply
  BY DEF Reply
<1>3. RevokeReplyTrue(c)'
  BY <1>1 DEF Answer, stored, RevokeReplyTrue, StoreInv, TypeOK
<1> QED BY <1>1, <1>2, <1>3, RevokeAnswered

\* An id has one record, so a held token is not ahead of it.
LEMMA TokenBehind ==
    ASSUME TypeOK, RecordsSound, NEW r \in RevokeCommand, TokenHeld(r),
           NEW l \in Location, RecordAt(l, r.id) # None
    PROVE  r.token <= assignments[l][r.id].version
<1>1. r.id \in Id /\ r.token \in Nat
  BY DEF RevokeCommand
<1>2. \A k \in Location : assignments[k][r.id].version \in Nat
  BY <1>1 DEF TypeOK, Versioned
<1>3. CASE r.token = 0
  BY <1>2, <1>3
<1>4. CASE r.token # 0
  <2>1. PICK k \in Location : r.token \in 1..assignments[k][r.id].version
    BY <1>4 DEF TokenHeld, TokensHeld
  <2>2. assignments[k][r.id].version # 0
    BY <1>2, <2>1
  <2>3. RecordAt(k, r.id) # None
    BY <1>1, <2>2 DEF RecordsSound, VersionsAgree
  <2>4. /\ pointers[r.id] = [loc |-> k, role |-> RecordAt(k, r.id).role]
        /\ pointers[r.id] = [loc |-> l, role |-> RecordAt(l, r.id).role]
    BY <1>1, <2>3 DEF RecordsSound, LifecyclesFollowPointers
  <2>5. k = l
    BY <2>4
  <2> QED BY <1>2, <2>1, <2>5
<1> QED BY <1>3, <1>4

-----------------------------------------------------------------------------
\* The steps of a grant.

LEMMA GrantPointerStep ==
    ASSUME StoreInv, NEW c \in Client, GrantPointer(c) PROVE StoreInv' /\ Evolves
<1> DEFINE g == cmd[c]
           p == pointers[g.id]
<1>1. /\ GrantInFlight(c) /\ g \in GrantCommand /\ pc[c] = "g_pointer"
      /\ g.id \in Id /\ g.loc \in Location /\ g.role \in Role
  BY DEF StoreInv, CallSound, GrantInFlight, GrantPointer, At, GrantSteps, GrantCommand
<1>2. CASE p # None /\ PointsElsewhere(p, g)
  <2>1. Answer(c, "conflict", "assignment_id", None) /\ UNCHANGED stored
    BY <1>2 DEF GrantPointer, Conflict, stored
  <2>2. [status |-> "conflict", reason |-> "assignment_id", value |-> None] \in Reply
    BY DEF Reply
  <2>3. GrantReplyTrue(c)'
    BY <2>1, <1>2 DEF Answer, stored, GrantReplyTrue, PointsElsewhere, StoreInv, TypeOK
  <2> QED BY <1>1, <2>1, <2>2, <2>3, GrantAnswered DEF GrantSteps
<1>3. CASE ~(p # None /\ PointsElsewhere(p, g))
  <2>1. /\ Goto(c, "g_holder") /\ seen' = seen
        /\ UNCHANGED <<holders, assignments, guards, audit>>
        /\ pointers' = IF p = None THEN [pointers EXCEPT ![g.id] = TargetOf(g)] ELSE pointers
    BY <1>3 DEF GrantPointer
  <2>2. TargetOf(g) \in Pointer /\ pointers \in [Id -> Pointer \cup {None}]
    BY <1>1 DEF TargetOf, Pointer, StoreInv, TypeOK
  <2>3. \A i \in Id : pointers[i] # None => pointers'[i] = pointers[i]
    BY <1>1, <2>1, <2>2
  <2>4. pointers'[g.id] = TargetOf(g) /\ pointers' \in [Id -> Pointer \cup {None}]
    BY <1>1, <1>3, <2>1, <2>2 DEF PointsElsewhere
  <2>5. /\ pc' \in [Client -> {"idle", "replied"} \cup GrantSteps \cup RevokeSteps]
        /\ cmd' = cmd /\ reply' = reply /\ OnlyMoves(c) /\ pc'[c] = "g_holder"
    BY <2>1 DEF Goto, OnlyMoves, StoreInv, TypeOK, GrantSteps
  <2>6. TypeOK'
    BY <2>1, <2>4, <2>5 DEF StoreInv, TypeOK
  <2>7. RecordsSound'
    <3>1. HoldersFollowPointers'
      BY <2>1, <2>3, HolderPointed, SMTT(30) DEF StoreInv, RecordsSound, HoldersFollowPointers
    <3> QED BY <2>1, <2>3, <3>1, IndexStep DEF StoreInv
  <2>8. Evolves
    BY <2>1, <2>3, IndexEvolves DEF StoreInv
  <2>9. CallSound(c)'
    BY <1>1, <2>4, <2>5 DEF CallSound, GrantInFlight, At, GrantSteps, RevokeSteps
  <2>10. OneMakesOneEnds'
    <3>1. NoNewMaker(c)
      BY <2>5 DEF NoNewMaker, Made, Ended, At
    <3> QED BY <2>5, <3>1, NoneJoins DEF StoreInv
  <2> QED BY <2>5, <2>6, <2>7, <2>8, <2>9, <2>10, WritingStep
<1> QED BY <1>2, <1>3

LEMMA GrantHolderStep ==
    ASSUME StoreInv, NEW c \in Client, GrantHolder(c) PROVE StoreInv' /\ Evolves
<1> DEFINE g == cmd[c]
           s == g.loc.scope
           p == g.loc.principal
           h == holders[s][g.role][g.id]
<1>1. /\ GrantInFlight(c) /\ g \in GrantCommand /\ pc[c] = "g_holder"
      /\ g.id \in Id /\ g.loc \in Location /\ g.role \in Role
      /\ s \in Scope /\ p \in Principal
      /\ pointers[g.id] = TargetOf(g)
  BY Zenon DEF StoreInv, CallSound, GrantInFlight, GrantHolder, At, GrantSteps, GrantCommand, Location
\* The row is there for this principal or not at all: it follows the pointer.
<1>2. h \in {None, p}
  BY <1>1 DEF StoreInv, TypeOK, RecordsSound, HoldersFollowPointers, TargetOf, Location
<1>3. /\ Goto(c, "g_guard") /\ seen' = seen
      /\ UNCHANGED <<pointers, assignments, guards, audit>>
      /\ holders' = IF h = None THEN [holders EXCEPT ![s][g.role][g.id] = p] ELSE holders
  BY <1>2, <1>1, RecordsAssumption, Zenon DEF GrantHolder
<1>4. holders \in [Scope -> [Role -> [Id -> Principal \cup {None}]]]
  BY DEF StoreInv, TypeOK
<1>5. pointers' = pointers
  BY <1>3
<1>6. /\ holders' \in [Scope -> [Role -> [Id -> Principal \cup {None}]]]
      /\ \A t \in Scope, r \in Role, i \in Id :
           holders'[t][r][i] = IF t = s /\ r = g.role /\ i = g.id THEN p ELSE holders[t][r][i]
  BY <1>1, <1>2, <1>3, <1>4, ZenonT(30)
<1>7. \A t \in Scope, r \in Role, i \in Id :
        holders[t][r][i] # None => holders'[t][r][i] = holders[t][r][i]
  BY <1>2, <1>6
<1>8. /\ pc' \in [Client -> {"idle", "replied"} \cup GrantSteps \cup RevokeSteps]
      /\ cmd' = cmd /\ reply' = reply /\ OnlyMoves(c) /\ pc'[c] = "g_guard"
  BY <1>3 DEF Goto, OnlyMoves, StoreInv, TypeOK, GrantSteps
<1>9. TypeOK'
  BY <1>3, <1>6, <1>8, ZenonT(30) DEF StoreInv, TypeOK
<1>10. RecordsSound'
  <2>1. HoldersFollowPointers'
    <3> SUFFICES ASSUME NEW t \in Scope, NEW r \in Role, NEW i \in Id, holders'[t][r][i] # None
        PROVE  pointers'[i] = [loc |-> [principal |-> holders'[t][r][i], scope |-> t], role |-> r]
      BY DEF HoldersFollowPointers
    <3>1. CASE t = s /\ r = g.role /\ i = g.id
      <4>1. g.loc = [principal |-> p, scope |-> s]
        BY <1>1, LocationForm
      <4>2. holders'[t][r][i] = p /\ pointers'[i] = TargetOf(g)
        BY <1>1, <1>5, <1>6, <3>1
      <4> QED BY <3>1, <4>1, <4>2 DEF TargetOf
    <3>2. CASE ~(t = s /\ r = g.role /\ i = g.id)
      <4>1. holders'[t][r][i] = holders[t][r][i] /\ pointers'[i] = pointers[i]
        BY <1>5, <1>6, <3>2
      <4> QED BY <4>1 DEF StoreInv, RecordsSound, HoldersFollowPointers
    <3> QED BY <3>1, <3>2
  <2> QED BY <1>3, <1>7, <2>1, IndexStep, Zenon DEF StoreInv
<1>11. Evolves
  BY <1>3, <1>7, IndexEvolves, Zenon DEF StoreInv
<1>12. CallSound(c)'
  <2>1. /\ pointers'[g.id] = TargetOf(g) /\ holders'[s][g.role][g.id] = p
    BY <1>1, <1>5, <1>6
  <2> QED BY <1>1, <1>8, <2>1 DEF CallSound, GrantInFlight, At, GrantSteps, RevokeSteps
<1>13. OneMakesOneEnds'
  <2>1. NoNewMaker(c)
    BY <1>8 DEF NoNewMaker, Made, Ended, At
  <2> QED BY <1>8, <2>1, NoneJoins DEF StoreInv
<1> QED BY <1>8, <1>9, <1>10, <1>11, <1>12, <1>13, WritingStep

LEMMA GrantGuardStep ==
    ASSUME StoreInv, NEW c \in Client, GrantGuard(c) PROVE StoreInv' /\ Evolves
<1> DEFINE g == cmd[c]
           guard == guards[g.loc][g.role]
<1>1. /\ GrantInFlight(c) /\ g \in GrantCommand /\ pc[c] = "g_guard"
      /\ g.id \in Id /\ g.loc \in Location /\ g.role \in Role
  BY DEF StoreInv, CallSound, GrantInFlight, GrantGuard, At, GrantSteps, GrantCommand
<1>2. CASE HeldByOther(g, guard)
  BY <1>1, <1>2, TupleConflict DEF GrantGuard, GrantSteps
<1>3. CASE ~HeldByOther(g, guard)
  <2>1. /\ Goto(c, "g_existing") /\ seen' = [seen EXCEPT ![c].guard = guard]
        /\ UNCHANGED stored
    BY <1>3 DEF GrantGuard
  <2>2. guard \in Guard
    BY <1>1 DEF StoreInv, TypeOK
  <2>3. /\ seen' \in [Client -> Seen] /\ seen'[c].guard = guard
        /\ pc' \in [Client -> {"idle", "replied"} \cup GrantSteps \cup RevokeSteps]
        /\ cmd' = cmd /\ reply' = reply /\ OnlyMoves(c) /\ pc'[c] = "g_existing"
    BY <2>1, <2>2, ZenonT(30) DEF Goto, OnlyMoves, StoreInv, TypeOK, GrantSteps, Seen
  <2>4. TypeOK'
    BY <2>1, <2>3 DEF StoreInv, TypeOK, stored
  <2>5. CallSound(c)'
    BY <1>1, <1>3, <2>1, <2>2, <2>3, SMTT(30) DEF CallSound, GrantInFlight, At, GrantSteps, RevokeSteps,
       NotBefore, Guard, stored
  <2>6. NoNewMaker(c)
    BY <2>3 DEF NoNewMaker, Made, Ended, At
  <2> QED BY <2>1, <2>3, <2>4, <2>5, <2>6, ReadingStep
<1> QED BY <1>2, <1>3

LEMMA GrantExistingStep ==
    ASSUME StoreInv, NEW c \in Client, GrantExisting(c) PROVE StoreInv' /\ Evolves
<1> DEFINE g == cmd[c]
           found == RecordAt(g.loc, g.id)
<1>1. /\ GrantInFlight(c) /\ g \in GrantCommand /\ pc[c] = "g_existing"
      /\ g.id \in Id /\ g.loc \in Location /\ g.role \in Role
  BY Zenon DEF StoreInv, CallSound, GrantInFlight, GrantExisting, At, GrantSteps, GrantCommand
<1>2. CASE found # None
  <2>1. SettleFound(c, found, "event_id") /\ UNCHANGED stored
    BY <1>2 DEF GrantExisting, RecordAt
  <2> QED BY <1>1, <1>2, <2>1, SettledFound DEF GrantSteps, At
<1>3. CASE found = None
  <2>1. Goto(c, "g_transact") /\ UNCHANGED <<stored, seen>>
    BY <1>3 DEF GrantExisting, RecordAt
  <2>2. /\ pc' \in [Client -> {"idle", "replied"} \cup GrantSteps \cup RevokeSteps]
        /\ cmd' = cmd /\ reply' = reply /\ OnlyMoves(c) /\ pc'[c] = "g_transact"
    BY <2>1 DEF Goto, OnlyMoves, StoreInv, TypeOK, GrantSteps
  <2>3. TypeOK'
    BY <2>1, <2>2 DEF StoreInv, TypeOK, stored
  <2>4. CallSound(c)'
    BY <1>1, <1>3, <2>1, <2>2 DEF CallSound, GrantInFlight, At, GrantSteps, RevokeSteps,
       RecordAt, stored
  <2>5. NoNewMaker(c)
    BY <2>2 DEF NoNewMaker, Made, Ended, At
  <2> QED BY <2>1, <2>2, <2>3, <2>4, <2>5, ReadingStep
<1> QED BY <1>2, <1>3

LEMMA GrantRefusedStep ==
    ASSUME StoreInv, NEW c \in Client, GrantRefused(c) PROVE StoreInv' /\ Evolves
<1> DEFINE g == cmd[c]
<1>1. /\ GrantInFlight(c) /\ g \in GrantCommand /\ pc[c] = "g_transact"
  BY DEF StoreInv, CallSound, GrantInFlight, GrantRefused, At, GrantSteps
<1>2. CASE Conflict(c, "active_tuple")
  BY <1>1, <1>2, TupleConflict DEF GrantRefused, GrantSteps
<1>3. CASE Goto(c, "g_landed") /\ UNCHANGED seen
  <2>1. UNCHANGED stored
    BY DEF GrantRefused
  <2>2. /\ pc' \in [Client -> {"idle", "replied"} \cup GrantSteps \cup RevokeSteps]
        /\ cmd' = cmd /\ reply' = reply /\ OnlyMoves(c) /\ pc'[c] = "g_landed"
    BY <1>3 DEF Goto, OnlyMoves, StoreInv, TypeOK, GrantSteps
  <2>3. TypeOK'
    BY <1>3, <2>1, <2>2 DEF StoreInv, TypeOK, stored
  <2>4. CallSound(c)'
    BY <1>1, <1>3, <2>1, <2>2 DEF CallSound, GrantInFlight, At, GrantSteps, RevokeSteps, stored
  <2>5. NoNewMaker(c)
    BY <2>2 DEF NoNewMaker, Made, Ended, At
  <2> QED BY <2>1, <2>2, <2>3, <2>4, <2>5, ReadingStep
<1> QED BY <1>2, <1>3 DEF GrantRefused

LEMMA GrantLandedStep ==
    ASSUME StoreInv, NEW c \in Client, GrantLanded(c) PROVE StoreInv' /\ Evolves
<1> DEFINE found == RecordAt(cmd[c].loc, cmd[c].id)
<1>1. pc[c] = "g_landed" /\ UNCHANGED stored
  BY DEF GrantLanded, At
<1>2. CASE found # None /\ SettleFound(c, found, "assignment_id")
  BY <1>1, <1>2, SettledFound DEF GrantSteps, At
<1>3. CASE Conflict(c, "active_tuple")
  BY <1>1, <1>3, TupleConflict DEF GrantSteps
<1> QED BY <1>2, <1>3 DEF GrantLanded, RecordAt

LEMMA GrantWrittenStep ==
    ASSUME StoreInv, NEW c \in Client, GrantWritten(c) PROVE StoreInv' /\ Evolves
<1> DEFINE g == cmd[c]
           found == RecordAt(g.loc, g.id)
<1>1. /\ GrantInFlight(c) /\ g \in GrantCommand /\ pc[c] = "g_written"
      /\ g.id \in Id /\ g.loc \in Location /\ g.role \in Role
      /\ pointers[g.id] = TargetOf(g)
      /\ found # None /\ found.grantEvent = g.event /\ found.grantedAt = g.at
      /\ UNCHANGED stored
  BY Zenon DEF StoreInv, CallSound, GrantInFlight, GrantWritten, At, GrantSteps, GrantCommand
<1>2. /\ pointers[g.id] = [loc |-> g.loc, role |-> found.role]
      /\ found.id = g.id /\ found.loc = g.loc
  BY <1>1 DEF StoreInv, RecordsSound, LifecyclesFollowPointers
<1>3. Agrees(found, g.id, TargetOf(g)) /\ found.role = g.role
  BY <1>1, <1>2 DEF TargetOf, Agrees
<1>4. Answer(c, "granted", "none", found)
  BY <1>1, <1>3 DEF GrantWritten, RecordAt
<1>5. [status |-> "granted", reason |-> "none", value |-> found] \in Reply
  BY <1>1, LifecyclePointed DEF StoreInv, Reply
<1>6. GrantReplyTrue(c)'
  BY <1>1, <1>3, <1>4, Zenon DEF Answer, stored, GrantReplyTrue, RecordAt, SameGrant, StoreInv, TypeOK
<1> QED BY <1>1, <1>4, <1>5, <1>6, GrantAnswered DEF GrantSteps, At

LEMMA AuditUpdate ==
    ASSUME audit \in [Location -> [Id -> [1..2 -> Event \cup {None}]]],
           NEW k \in Location, NEW j \in Id, NEW n \in 1..2, NEW e \in Event,
           audit' = [audit EXCEPT ![k][j][n] = e]
    PROVE  /\ audit' \in [Location -> [Id -> [1..2 -> Event \cup {None}]]]
           /\ \A l \in Location, i \in Id, q \in 1..2 :
                audit'[l][i][q] = IF l = k /\ i = j /\ q = n THEN e ELSE audit[l][i][q]
  OBVIOUS

\* What the commit of a grant finds and writes: the guard is the one read, so it
\* is free, and the id is fresh.
GrantEffect(c) ==
    LET g == cmd[c]
        k == g.loc
        form == GrantedForm(g)
        guard == guards[k][g.role]
    IN /\ g \in GrantCommand
       /\ g.id \in Id /\ k \in Location /\ g.role \in Role /\ g.event \in Event
       /\ pointers[g.id] = TargetOf(g) /\ holders[k.scope][g.role][g.id] = k.principal
       /\ assignments[k][g.id].version = 0 /\ RecordAt(k, g.id) = None
       /\ guard \in Guard /\ guard.version \in Nat /\ guard.occupant = None
       /\ form \in Assignment /\ form # None /\ Active(form) /\ ~Revoked(form)
       /\ form.id = g.id /\ form.loc = k /\ form.role = g.role
       /\ form.grantEvent = g.event /\ form.grantedAt = g.at
       /\ assignments' \in [Location -> [Id -> Versioned]]
       /\ \A l \in Location, i \in Id :
            assignments'[l][i] = IF l = k /\ i = g.id THEN [version |-> 1, value |-> form]
                                                      ELSE assignments[l][i]
       /\ guards' \in [Location -> [Role -> Guard]]
       /\ \A l \in Location, r \in Role :
            guards'[l][r] = IF l = k /\ r = g.role
                              THEN [version |-> guard.version + 1, occupant |-> g.id]
                              ELSE guards[l][r]
       /\ audit' \in [Location -> [Id -> [1..2 -> Event \cup {None}]]]
       /\ \A l \in Location, i \in Id :
            /\ audit'[l][i][1] = IF l = k /\ i = g.id THEN g.event ELSE audit[l][i][1]
            /\ audit'[l][i][2] = audit[l][i][2]
       /\ pointers' = pointers /\ holders' = holders

LEMMA GrantCommitEffect ==
    ASSUME StoreInv, NEW c \in Client, GrantCommit(c) PROVE GrantEffect(c)
<1> DEFINE g == cmd[c]
           k == g.loc
           form == GrantedForm(g)
           read == seen[c].guard
           guard == guards[k][g.role]
<1>1. /\ GrantInFlight(c) /\ g \in GrantCommand /\ pc[c] = "g_transact"
      /\ g.id \in Id /\ k \in Location /\ g.role \in Role /\ g.event \in Event /\ g.at \in Time
      /\ pointers[g.id] = TargetOf(g) /\ holders[k.scope][g.role][g.id] = k.principal
      /\ NotBefore(guard, read) /\ ~HeldByOther(g, read)
  BY DEF StoreInv, CallSound, GrantInFlight, GrantCommit, At, GrantSteps, GrantCommand
<1>2. /\ assignments[k][g.id].version = 0 /\ guard.version = read.version
      /\ audit[k][g.id][1] = None
  BY Zenon DEF GrantCommit, GrantFailures
<1>3. RecordAt(k, g.id) = None
  BY <1>1, <1>2 DEF StoreInv, RecordsSound, VersionsAgree
<1>4. guard.occupant = None
  <2>1. guard.occupant \in {None, g.id}
    BY <1>1, <1>2 DEF NotBefore, HeldByOther
  <2>2. guard.occupant # g.id
    BY <1>1, <1>3 DEF StoreInv, RecordsSound, GuardNamesActive, Active
  <2> QED BY <2>1, <2>2
<1>5. guard \in Guard /\ guard.version \in Nat
  BY <1>1 DEF StoreInv, TypeOK, Guard
<1>6. /\ form \in Assignment /\ form # None /\ Active(form) /\ ~Revoked(form)
      /\ form.id = g.id /\ form.loc = k /\ form.role = g.role
      /\ form.grantEvent = g.event /\ form.grantedAt = g.at
  BY <1>1, RecordsAssumption DEF GrantedForm, Assignment, Active, Revoked
<1>7. /\ assignments' \in [Location -> [Id -> Versioned]]
      /\ \A l \in Location, i \in Id :
           assignments'[l][i] = IF l = k /\ i = g.id THEN [version |-> 1, value |-> form]
                                                     ELSE assignments[l][i]
  BY <1>1, <1>6 DEF GrantCommit, StoreInv, TypeOK, Versioned
<1>8. /\ guards' \in [Location -> [Role -> Guard]]
      /\ \A l \in Location, r \in Role :
           guards'[l][r] = IF l = k /\ r = g.role
                             THEN [version |-> guard.version + 1, occupant |-> g.id]
                             ELSE guards[l][r]
  <2>1. guards' = [guards EXCEPT ![k][g.role] =
                     [version |-> guard.version + 1, occupant |-> g.id]]
    BY DEF GrantCommit
  <2>2. guards \in [Location -> [Role -> Guard]]
    BY DEF StoreInv, TypeOK
  <2>3. [version |-> guard.version + 1, occupant |-> g.id] \in Guard
    BY <1>1, <1>5 DEF Guard
  <2> QED BY <1>1, <2>1, <2>2, <2>3, Zenon
<1>9. /\ audit' \in [Location -> [Id -> [1..2 -> Event \cup {None}]]]
      /\ \A l \in Location, i \in Id :
           /\ audit'[l][i][1] = IF l = k /\ i = g.id THEN g.event ELSE audit[l][i][1]
           /\ audit'[l][i][2] = audit[l][i][2]
  <2>1. audit' = [audit EXCEPT ![k][g.id][1] = g.event]
    BY DEF GrantCommit
  <2>2. audit \in [Location -> [Id -> [1..2 -> Event \cup {None}]]]
    BY DEF StoreInv, TypeOK
  <2> HIDE DEF k, g
  <2>3. /\ audit' \in [Location -> [Id -> [1..2 -> Event \cup {None}]]]
        /\ \A l \in Location, i \in Id, q \in 1..2 :
             audit'[l][i][q] = IF l = k /\ i = g.id /\ q = 1 THEN g.event ELSE audit[l][i][q]
    BY <1>1, <2>1, <2>2, AuditUpdate, SMTT(30)
  <2> QED BY <2>3
<1> QED BY <1>1, <1>2, <1>3, <1>4, <1>5, <1>6, <1>7, <1>8, <1>9, ZenonT(30) DEF GrantEffect, GrantCommit

LEMMA GrantCommitStep ==
    ASSUME StoreInv, NEW c \in Client, GrantCommit(c) PROVE StoreInv' /\ Evolves
<1> DEFINE g == cmd[c]
           k == g.loc
           form == GrantedForm(g)
           guard == guards[k][g.role]
<1>1. /\ g \in GrantCommand
      /\ g.id \in Id /\ k \in Location /\ g.role \in Role /\ g.event \in Event
      /\ pointers[g.id] = TargetOf(g) /\ holders[k.scope][g.role][g.id] = k.principal
  BY GrantCommitEffect, Zenon DEF GrantEffect
<1>2. assignments[k][g.id].version = 0 /\ RecordAt(k, g.id) = None
  BY GrantCommitEffect, Zenon DEF GrantEffect
<1>3. guard \in Guard /\ guard.version \in Nat /\ guard.occupant = None
  BY GrantCommitEffect, Zenon DEF GrantEffect
<1>4. /\ form \in Assignment /\ form # None /\ Active(form) /\ ~Revoked(form)
      /\ form.id = g.id /\ form.loc = k /\ form.role = g.role
      /\ form.grantEvent = g.event /\ form.grantedAt = g.at
  BY GrantCommitEffect, Zenon DEF GrantEffect
<1>5. /\ assignments' \in [Location -> [Id -> Versioned]]
      /\ \A l \in Location, i \in Id :
           assignments'[l][i] = IF l = k /\ i = g.id THEN [version |-> 1, value |-> form]
                                                     ELSE assignments[l][i]
  BY GrantCommitEffect, Zenon DEF GrantEffect
<1>6. /\ guards' \in [Location -> [Role -> Guard]]
      /\ \A l \in Location, r \in Role :
           guards'[l][r] = IF l = k /\ r = g.role
                             THEN [version |-> guard.version + 1, occupant |-> g.id]
                             ELSE guards[l][r]
  BY GrantCommitEffect, Zenon DEF GrantEffect
<1>7. /\ audit' \in [Location -> [Id -> [1..2 -> Event \cup {None}]]]
      /\ \A l \in Location, i \in Id :
           /\ audit'[l][i][1] = IF l = k /\ i = g.id THEN g.event ELSE audit[l][i][1]
           /\ audit'[l][i][2] = audit[l][i][2]
  BY GrantCommitEffect, Zenon DEF GrantEffect
<1> HIDE DEF form
<1>8. /\ pc' \in [Client -> {"idle", "replied"} \cup GrantSteps \cup RevokeSteps]
       /\ cmd' = cmd /\ reply' = reply /\ seen' = seen /\ OnlyMoves(c) /\ pc'[c] = "g_written"
       /\ pointers' = pointers /\ holders' = holders
  BY DEF GrantCommit, Goto, OnlyMoves, StoreInv, TypeOK, GrantSteps
<1>9. TypeOK'
  BY <1>5, <1>6, <1>7, <1>8 DEF StoreInv, TypeOK
<1>10. RecordsSound'
  <2>1. LifecyclesFollowPointers'
    <3> SUFFICES ASSUME NEW l \in Location, NEW i \in Id, assignments'[l][i].value # None
        PROVE  LET a == assignments'[l][i].value IN
               /\ pointers[i] = [loc |-> l, role |-> a.role]
               /\ a.id = i /\ a.loc = l
      BY <1>8 DEF LifecyclesFollowPointers, RecordAt
    <3>1. CASE l = k /\ i = g.id
      <4>1. assignments'[l][i].value = form
        BY <1>5, <3>1
      <4> QED BY <1>1, <1>4, <3>1, <4>1 DEF TargetOf
    <3>2. CASE ~(l = k /\ i = g.id)
      BY <1>5, <3>2 DEF StoreInv, RecordsSound, LifecyclesFollowPointers, RecordAt
    <3> QED BY <3>1, <3>2
  <2>2. HoldersFollowPointers'
    BY <1>8 DEF StoreInv, RecordsSound, HoldersFollowPointers
  <2>3. VersionsAgree'
    <3> SUFFICES ASSUME NEW l \in Location, NEW i \in Id
        PROVE  LET a == assignments'[l][i] IN
               /\ a.version = 0 <=> a.value = None
               /\ a.value # None => guards'[l][a.value.role].version # 0
      BY DEF VersionsAgree, RecordAt
    <3>1. CASE l = k /\ i = g.id
      <4>1. assignments'[l][i].version = 1 /\ assignments'[l][i].value = form
        BY <1>5, <3>1
      <4>2. guards'[l][g.role].version = guard.version + 1
        BY <1>1, <1>6, <3>1, SMTT(30)
      <4> QED BY <1>3, <1>4, <4>1, <4>2
    <3>2. CASE ~(l = k /\ i = g.id)
      <4>1. /\ assignments'[l][i] = assignments[l][i]
            /\ assignments[l][i].version = 0 <=> assignments[l][i].value = None
            /\ assignments[l][i].value # None =>
                 guards[l][assignments[l][i].value.role].version # 0
        BY <1>5, <3>2 DEF StoreInv, RecordsSound, VersionsAgree, RecordAt
      <4>2. ASSUME assignments[l][i].value # None
            PROVE  guards'[l][assignments[l][i].value.role].version # 0
        <5>1. assignments[l][i].value.role \in Role
          BY <4>2, LifecyclePointed DEF StoreInv, RecordAt, Assignment
        <5> QED BY <1>3, <1>6, <4>1, <4>2, <5>1, SMTT(30)
      <4> QED BY <4>1, <4>2
    <3> QED BY <3>1, <3>2
  <2>4. GuardNamesActive'
    <3> SUFFICES ASSUME NEW l \in Location, NEW i \in Id, NEW r \in Role
        PROVE  LET a == assignments'[l][i].value IN
               guards'[l][r].occupant = i <=> Active(a) /\ a.role = r
      BY DEF GuardNamesActive, RecordAt
    <3>1. guards[l][r].occupant = i
            <=> Active(assignments[l][i].value) /\ assignments[l][i].value.role = r
      BY DEF StoreInv, RecordsSound, GuardNamesActive, RecordAt
    <3>2. CASE l = k /\ i = g.id
      <4>1. assignments'[l][i].value = form
        BY <1>5, <3>2
      <4>2. CASE r = g.role
        <5>1. guards'[l][r].occupant = i
          BY <1>6, <3>2, <4>2
        <5> QED BY <1>4, <4>1, <4>2, <5>1
      <4>3. CASE r # g.role
        <5>1. guards'[l][r].occupant # i
          BY <1>2, <1>6, <3>1, <3>2, <4>3 DEF RecordAt, Active
        <5> QED BY <1>4, <4>1, <4>3, <5>1
      <4> QED BY <4>2, <4>3
    <3>3. CASE ~(l = k /\ i = g.id)
      <4>1. assignments'[l][i] = assignments[l][i]
        BY <1>5, <3>3
      <4>2. CASE l = k /\ r = g.role
        BY <1>3, <1>6, <3>1, <3>3, <4>1, <4>2, RecordsAssumption
      <4>3. CASE ~(l = k /\ r = g.role)
        BY <1>6, <3>1, <4>1, <4>3
      <4> QED BY <4>2, <4>3
    <3> QED BY <3>2, <3>3
  <2>5. AuditMatchesLifecycle'
    <3> SUFFICES ASSUME NEW l \in Location, NEW i \in Id
        PROVE  LET a == assignments'[l][i].value IN
               /\ audit'[l][i][1] = IF a = None THEN None ELSE a.grantEvent
               /\ audit'[l][i][2] = IF Revoked(a) THEN a.revocation.event ELSE None
      BY DEF AuditMatchesLifecycle, RecordAt
    <3>1. LET a == assignments[l][i].value IN
          /\ audit[l][i][1] = IF a = None THEN None ELSE a.grantEvent
          /\ audit[l][i][2] = IF Revoked(a) THEN a.revocation.event ELSE None
      BY DEF StoreInv, RecordsSound, AuditMatchesLifecycle, RecordAt
    <3>2. CASE l = k /\ i = g.id
      <4>1. assignments'[l][i].value = form /\ audit'[l][i][1] = g.event
        BY <1>5, <1>7, <3>2
      <4>2. audit'[l][i][2] = None
        BY <1>2, <1>7, <3>1, <3>2 DEF RecordAt, Revoked
      <4> QED BY <1>4, <4>1, <4>2
    <3>3. CASE ~(l = k /\ i = g.id)
      BY <1>5, <1>7, <3>1, <3>3
    <3> QED BY <3>2, <3>3
  <2> QED BY <2>1, <2>2, <2>3, <2>4, <2>5 DEF RecordsSound
<1>11. Evolves
  <2>1. ASSUME NEW l \in Location, NEW r \in Role
        PROVE  /\ NotBefore(guards'[l][r], guards[l][r])
               /\ None \in {guards[l][r].occupant, guards'[l][r].occupant}
                    \/ guards'[l][r].occupant = guards[l][r].occupant
    BY <1>3, <1>6 DEF NotBefore, StoreInv, TypeOK, Guard
  <2>2. ASSUME NEW l \in Location, NEW i \in Id
        PROVE  LET was == assignments[l][i]
                   now == assignments'[l][i]
               IN /\ NotBefore(now, was)
                  /\ was.value # None => now.value # None /\ SameGrant(was.value, now.value)
                  /\ Revoked(was.value) => now = was
                  /\ was.value = None /\ now.value # None =>
                       guards'[l][now.value.role].version > guards[l][now.value.role].version
                  /\ Active(was.value) /\ now.version = was.version =>
                       guards'[l][was.value.role] = guards[l][was.value.role]
    <3>1. CASE l = k /\ i = g.id
      <4>1. assignments'[l][i].version = 1 /\ assignments'[l][i].value = form
        BY <1>5, <3>1
      <4>2. assignments[l][i].version = 0 /\ assignments[l][i].value = None
        BY <1>2, <3>1 DEF RecordAt
      <4>3. guards'[l][g.role].version = guard.version + 1
        BY <1>1, <1>6, <3>1, SMTT(30)
      <4> QED BY <1>3, <1>4, <3>1, <4>1, <4>2, <4>3 DEF NotBefore, Active, Revoked
    <3>2. CASE ~(l = k /\ i = g.id)
      <4>1. assignments'[l][i] = assignments[l][i] /\ assignments[l][i].version \in Nat
        BY <1>5, <3>2 DEF StoreInv, TypeOK, Versioned
      <4>2. ASSUME Active(assignments[l][i].value)
            PROVE  guards'[l][assignments[l][i].value.role] = guards[l][assignments[l][i].value.role]
        <5>1. assignments[l][i].value.role \in Role
          BY <4>2, LifecyclePointed DEF StoreInv, RecordAt, Assignment, Active
        <5>2. guards[l][assignments[l][i].value.role].occupant = i
          BY <4>2, <5>1 DEF StoreInv, RecordsSound, GuardNamesActive, RecordAt
        <5> QED BY <1>3, <1>6, <5>1, <5>2, RecordsAssumption
      <4> QED BY <4>1, <4>2 DEF NotBefore, SameGrant
    <3> QED BY <3>1, <3>2
  <2> QED BY <1>8, <2>1, <2>2 DEF Evolves
<1>12. CallSound(c)'
  <2>1. assignments'[k][g.id].value = form
    BY <1>1, <1>5
  <2> QED BY <1>1, <1>4, <1>8, <2>1 DEF CallSound, GrantInFlight, At, GrantSteps, RevokeSteps,
     RecordAt, GrantedForm, Active
\* Another maker of this id would have left a record where this one found none.
<1>13. OneMakesOneEnds'
  <2>1. ASSUME NEW d \in Client, d # c, cmd[d].id = g.id, Made(d)
        PROVE  FALSE
    <3>1. CallSound(d)
      BY DEF StoreInv
    <3>2. cmd[d] \in GrantCommand /\ RecordAt(cmd[d].loc, g.id) # None
      <4>1. CASE pc[d] = "g_written"
        BY <2>1, <3>1, <4>1 DEF At, CallSound, GrantSteps, GrantInFlight
      <4>2. CASE pc[d] = "replied" /\ reply[d].status = "granted"
        BY <2>1, <3>1, <4>2 DEF At, CallSound, GrantReplyTrue
      <4> QED BY <2>1, <4>1, <4>2 DEF Made, At
    <3>3. cmd[d].loc \in Location
      BY <3>2 DEF GrantCommand
    <3>4. pointers[g.id].loc = cmd[d].loc
      <4>1. pointers[g.id] = [loc |-> cmd[d].loc, role |-> RecordAt(cmd[d].loc, g.id).role]
        BY <1>1, <3>2, <3>3 DEF StoreInv, RecordsSound, LifecyclesFollowPointers
      <4> QED BY <4>1
    <3> QED BY <1>1, <1>2, <3>2, <3>4 DEF TargetOf
  <2>2. \A d \in Client : Ended(d)' => Ended(d)
    BY <1>8 DEF Ended, At, OnlyMoves
  <2>3. \A d \in Client : d # c /\ Made(d)' => Made(d)
    BY <1>8 DEF Made, At, OnlyMoves
  <2> QED BY <1>8, <2>1, <2>2, <2>3 DEF StoreInv, OneMakesOneEnds
<1> QED BY <1>8, <1>9, <1>10, <1>11, <1>12, <1>13, WritingStep

-----------------------------------------------------------------------------
\* The steps of a revoke.

LEMMA RevokeLocateStep ==
    ASSUME StoreInv, NEW c \in Client, RevokeLocate(c) PROVE StoreInv' /\ Evolves
<1> DEFINE r == cmd[c]
           p == pointers[r.id]
<1>1. /\ RevokeInFlight(c) /\ r \in RevokeCommand /\ pc[c] = "r_locate" /\ r.id \in Id
      /\ UNCHANGED stored
  BY DEF StoreInv, CallSound, RevokeInFlight, RevokeLocate, At, RevokeSteps, RevokeCommand
<1>2. CASE p = None
  BY <1>1, <1>2, NotFoundAnswer DEF RevokeLocate, RevokeSteps
<1>3. CASE p # None
  <2>1. Goto(c, "r_existing") /\ seen' = [seen EXCEPT ![c].pointer = p]
    BY <1>3 DEF RevokeLocate
  <2>2. p \in Pointer
    BY <1>1, <1>3 DEF StoreInv, TypeOK
  <2>3. /\ seen' \in [Client -> Seen] /\ seen'[c].pointer = p
        /\ pc' \in [Client -> {"idle", "replied"} \cup GrantSteps \cup RevokeSteps]
        /\ cmd' = cmd /\ reply' = reply /\ OnlyMoves(c) /\ pc'[c] = "r_existing"
    BY <2>1, <2>2, Zenon DEF Goto, OnlyMoves, StoreInv, TypeOK, RevokeSteps, Seen
  <2>4. TypeOK'
    BY <1>1, <2>3 DEF StoreInv, TypeOK, stored
  <2>5. CallSound(c)'
    BY <1>1, <1>3, <2>3 DEF CallSound, RevokeInFlight, TokenHeld, TokensHeld, At,
       GrantSteps, RevokeSteps, stored
  <2>6. NoNewMaker(c)
    BY <2>3 DEF NoNewMaker, Made, Ended, At
  <2> QED BY <1>1, <2>3, <2>4, <2>5, <2>6, ReadingStep
<1> QED BY <1>2, <1>3

LEMMA RevokeExistingStep ==
    ASSUME StoreInv, NEW c \in Client, RevokeExisting(c) PROVE StoreInv' /\ Evolves
<1> DEFINE r == cmd[c]
           p == seen[c].pointer
           read == assignments[p.loc][r.id]
           found == read.value
<1>1. /\ RevokeInFlight(c) /\ r \in RevokeCommand /\ pc[c] = "r_existing"
      /\ r.id \in Id /\ r.token \in Nat /\ UNCHANGED stored
      /\ p # None /\ p = pointers[r.id] /\ TokenHeld(r)
  BY Zenon DEF StoreInv, CallSound, RevokeInFlight, RevokeExisting, At, RevokeSteps, RevokeCommand
<1>2. p \in Pointer /\ p.loc \in Location /\ p.role \in Role
  BY <1>1 DEF StoreInv, TypeOK, Pointer
<1>3. read \in Versioned /\ read.version \in Nat
  BY <1>1, <1>2 DEF StoreInv, TypeOK, Versioned
<1>4. CASE found = None
  BY <1>1, <1>4, NotFoundAnswer DEF RevokeExisting, RevokeSteps
<1>5. CASE found # None
  <2>1. found \in Assignment /\ Agrees(found, r.id, p)
    <3>0. LifecyclesFollowPointers
      BY DEF StoreInv, RecordsSound
    <3>1. /\ pointers[r.id] = [loc |-> p.loc, role |-> found.role]
          /\ found.id = r.id /\ found.loc = p.loc
      <4> HIDE DEF p
      <4> QED BY <3>0, <1>1, <1>2, <1>5 DEF LifecyclesFollowPointers, RecordAt
    <3>2. found \in Assignment
      BY <1>3, <1>5 DEF Versioned
    <3>3. p.role = found.role
      BY <1>1, <3>1, SMTT(30)
    <3> QED BY <3>1, <3>2, <3>3 DEF Agrees
  <2>2. CASE Revoked(found) /\ IsCompleted(found, r) /\ Answer(c, "unchanged", "none", found)
    <3>1. [status |-> "unchanged", reason |-> "none", value |-> found] \in Reply
      BY <2>1, ZenonT(30) DEF Reply
    <3>2. RevokeReplyTrue(c)'
      BY <1>1, <2>2, Zenon DEF Answer, stored, RevokeReplyTrue, IsCompleted, StoreInv, TypeOK
    <3>3. pc[c] \in RevokeSteps
      BY <1>1 DEF RevokeSteps
    <3> HIDE DEF found
    <3> QED BY <1>1, <2>2, <3>1, <3>2, <3>3, RevokeAnswered
  <2>3. CASE /\ Conflict(c, "lifecycle")
             /\ \/ Revoked(found) /\ ~IsCompleted(found, r)
                \/ BeforeGrant(found, r)
    <3>1. Answer(c, "conflict", "lifecycle", None)
      BY <2>3 DEF Conflict
    <3>2. [status |-> "conflict", reason |-> "lifecycle", value |-> None] \in Reply
      BY DEF Reply
    <3>3. RevokeReplyTrue(c)'
      BY <1>1, <1>5, <2>3, <3>1, ZenonT(30) DEF Answer, stored, RevokeReplyTrue, IsCompleted, StoreInv, TypeOK
    <3> QED BY <1>1, <3>1, <3>2, <3>3, RevokeAnswered DEF RevokeSteps
  <2>4. CASE Conflict(c, "concurrency") /\ Active(found) /\ StaleToken(read.version, r)
    \* The token was held, so a version that differs from it is beyond it.
    <3>1. read.version > r.token
      <4>1. r.token <= read.version
        BY <1>1, <1>2, <1>5, TokenBehind DEF RecordAt, StoreInv
      <4>2. read.version # r.token /\ r.token \in Nat /\ read.version \in Nat
        BY <1>1, <1>3, <2>4, Zenon DEF StaleToken
      <4> HIDE DEF read, r
      <4> QED BY <4>1, <4>2
    <3> QED BY <1>1, <2>4, <3>1, OvertakenAnswer, Zenon DEF RevokeSteps
  <2>5. CASE /\ Active(found) /\ ~StaleToken(read.version, r) /\ ~BeforeGrant(found, r)
             /\ seen' = [seen EXCEPT ![c].existing = read] /\ Goto(c, "r_guard")
    <3>1. /\ seen' \in [Client -> Seen] /\ seen'[c].pointer = p /\ seen'[c].existing = read
          /\ pc' \in [Client -> {"idle", "replied"} \cup GrantSteps \cup RevokeSteps]
          /\ cmd' = cmd /\ reply' = reply /\ OnlyMoves(c) /\ pc'[c] = "r_guard"
      BY <1>3, <2>5, ZenonT(30) DEF Goto, OnlyMoves, StoreInv, TypeOK, RevokeSteps, Seen
    <3>2. TypeOK'
      BY <1>1, <3>1 DEF StoreInv, TypeOK, stored
    <3>3. read.version # 0
      BY <1>1, <1>2, <1>5 DEF StoreInv, RecordsSound, VersionsAgree, RecordAt
    <3>4. CallSound(c)'
      <4>1. TokenHeld(r)'
        BY <1>1, <3>1 DEF TokenHeld, TokensHeld, stored
      <4>2. found.role = p.role /\ read.version = r.token
        BY <2>1, <2>5, Zenon DEF Agrees, StaleToken
      <4>3. NotBefore(read, read)
        BY <1>3 DEF NotBefore
      <4>4. RevokeInFlight(c)'
        BY <1>1, <2>5, <3>1, <3>3, <4>1, <4>2, <4>3, ZenonT(30) DEF RevokeInFlight, At, stored
      <4> QED BY <3>1, <4>4 DEF CallSound, At, GrantSteps, RevokeSteps
    <3>5. NoNewMaker(c)
      BY <3>1 DEF NoNewMaker, Made, Ended, At
    <3> QED BY <1>1, <3>1, <3>2, <3>4, <3>5, ReadingStep
  <2> QED BY <1>5, <2>1, <2>2, <2>3, <2>4, <2>5, ZenonT(30) DEF RevokeExisting
<1> QED BY <1>4, <1>5

LEMMA RevokeGuardStep ==
    ASSUME StoreInv, NEW c \in Client, RevokeGuard(c) PROVE StoreInv' /\ Evolves
<1> DEFINE r == cmd[c]
           p == seen[c].pointer
           was == seen[c].existing
           now == assignments[p.loc][r.id]
           guard == guards[p.loc][p.role]
<1>1. /\ RevokeInFlight(c) /\ r \in RevokeCommand /\ pc[c] = "r_guard"
      /\ r.id \in Id /\ UNCHANGED stored /\ p # None /\ p = pointers[r.id] /\ TokenHeld(r)
      /\ Active(was.value) /\ was.value.role = p.role /\ NotBefore(now, was)
  BY Zenon DEF StoreInv, CallSound, RevokeInFlight, RevokeGuard, At, RevokeSteps, RevokeCommand
<1>2. p \in Pointer /\ p.loc \in Location /\ p.role \in Role /\ guard \in Guard
  BY <1>1 DEF StoreInv, TypeOK, Pointer
\* A record once read is still there, so its tuple has a guard.
<1>3. guard.version # 0
  <2>1. now.value # None
    <3>1. now \in Versioned /\ was \in Versioned /\ was.version # 0
      BY <1>1, <1>2, ZenonT(30) DEF StoreInv, TypeOK, Seen, RevokeInFlight
    <3>2. now.version # 0
      BY <1>1, <3>1, SMTT(30) DEF NotBefore, Versioned
    <3> QED BY <1>1, <1>2, <3>2, ZenonT(30) DEF StoreInv, RecordsSound, VersionsAgree, RecordAt
  <2>2. pointers[r.id] = [loc |-> p.loc, role |-> now.value.role]
    BY <1>1, <1>2, <2>1, ZenonT(30) DEF StoreInv, RecordsSound, LifecyclesFollowPointers, RecordAt
  <2>3. now.value.role = p.role
    <3>1. p = [loc |-> p.loc, role |-> now.value.role]
      BY <1>1, <2>2, ZenonT(30)
    <3> QED BY <3>1, SMTT(30)
  <2> QED BY <1>1, <1>2, <2>1, <2>3, ZenonT(30) DEF StoreInv, RecordsSound, VersionsAgree, RecordAt
<1>4. seen' = [seen EXCEPT ![c].guard = guard] /\ Goto(c, "r_transact")
  BY <1>1, <1>3, Zenon DEF RevokeGuard
<1>5. /\ seen' \in [Client -> Seen] /\ seen'[c].pointer = p /\ seen'[c].existing = was
      /\ seen'[c].guard = guard
      /\ pc' \in [Client -> {"idle", "replied"} \cup GrantSteps \cup RevokeSteps]
      /\ cmd' = cmd /\ reply' = reply /\ OnlyMoves(c) /\ pc'[c] = "r_transact"
  BY <1>2, <1>4, Zenon DEF Goto, OnlyMoves, StoreInv, TypeOK, RevokeSteps, Seen
<1>6. TypeOK'
  BY <1>1, <1>5 DEF StoreInv, TypeOK, stored
<1>7. NotBefore(guard, guard)
  BY <1>2 DEF NotBefore, Guard
<1>8. CallSound(c)'
  BY ZenonT(30), <1>1, <1>5, <1>7 DEF CallSound, RevokeInFlight, TokenHeld, TokensHeld, At,
     GrantSteps, RevokeSteps, stored
<1>9. NoNewMaker(c)
  BY <1>5 DEF NoNewMaker, Made, Ended, At
<1> QED BY <1>1, <1>5, <1>6, <1>8, <1>9, ReadingStep

LEMMA RevokeRefusedStep ==
    ASSUME StoreInv, NEW c \in Client, RevokeRefused(c) PROVE StoreInv' /\ Evolves
<1> DEFINE r == cmd[c]
           p == seen[c].pointer
           was == seen[c].existing
           now == assignments[p.loc][r.id]
<1>1. /\ RevokeInFlight(c) /\ r \in RevokeCommand /\ pc[c] = "r_transact"
      /\ r.id \in Id /\ UNCHANGED stored /\ p # None /\ p = pointers[r.id]
      /\ was.version = r.token /\ was.value.role = p.role
  BY DEF StoreInv, CallSound, RevokeInFlight, RevokeRefused, At, RevokeSteps, RevokeCommand
<1>2. CASE "changed" \in RevokeFailures(c) /\ Conflict(c, "concurrency")
  \* Whichever version moved, that of the record did.
  <2>1. now.version # was.version \/ guards[p.loc][p.role].version # seen[c].guard.version
    BY <1>1, <1>2 DEF RevokeFailures
  <2>2. p.loc \in Location
    BY <1>1 DEF StoreInv, TypeOK, Pointer
  <2>3. now \in Versioned /\ was \in Versioned
    BY <1>1, <2>2 DEF StoreInv, TypeOK, Seen
  <2>4. now.version > r.token
    <3>1. now.version \in Nat /\ was.version \in Nat
      BY <2>3 DEF Versioned
    <3>2. NotBefore(now, was) /\ (now.version > was.version \/ guards[p.loc][p.role] = seen[c].guard)
      BY <1>1, Zenon DEF RevokeInFlight, At
    <3> QED BY <1>1, <2>1, <3>1, <3>2, SMTT(30) DEF NotBefore
  <2> QED BY <1>1, <1>2, <2>4, OvertakenAnswer, ZenonT(30) DEF RevokeSteps
<1>3. CASE Conflict(c, "event_id")
  <2>1. Answer(c, "conflict", "event_id", None)
    BY <1>3 DEF Conflict
  <2>2. [status |-> "conflict", reason |-> "event_id", value |-> None] \in Reply
    BY DEF Reply
  <2>3. RevokeReplyTrue(c)'
    BY <2>1 DEF Answer, RevokeReplyTrue, StoreInv, TypeOK
  <2> QED BY <1>1, <2>1, <2>2, <2>3, RevokeAnswered DEF RevokeSteps
<1> QED BY <1>2, <1>3 DEF RevokeRefused

LEMMA RevokeWrittenStep ==
    ASSUME StoreInv, NEW c \in Client, RevokeWritten(c) PROVE StoreInv' /\ Evolves
<1> DEFINE r == cmd[c]
           p == seen[c].pointer
           found == assignments[p.loc][r.id].value
<1>1. /\ RevokeInFlight(c) /\ r \in RevokeCommand /\ pc[c] = "r_written"
      /\ r.id \in Id /\ UNCHANGED stored /\ p # None /\ p = pointers[r.id]
      /\ Revoked(found) /\ found.revocation = EvidenceOf(r)
  BY ZenonT(30) DEF StoreInv, CallSound, RevokeInFlight, RevokeWritten, At, RevokeSteps, RevokeCommand
<1>2. p \in Pointer /\ p.loc \in Location /\ p.role \in Role
  BY <1>1 DEF StoreInv, TypeOK, Pointer
<1>3. /\ pointers[r.id] = [loc |-> p.loc, role |-> found.role]
      /\ found.id = r.id /\ found.loc = p.loc
  BY <1>1, <1>2, ZenonT(30) DEF StoreInv, RecordsSound, LifecyclesFollowPointers, RecordAt, Revoked
<1>4. Agrees(found, r.id, p)
  <2>1. p = [loc |-> p.loc, role |-> found.role]
    BY <1>1, <1>3, ZenonT(30)
  <2>2. p.role = found.role
    BY <2>1, SMTT(30)
  <2> QED BY <1>3, <2>2 DEF Agrees
<1>5. Answer(c, "revoked", "none", found)
  BY <1>1, <1>4, ZenonT(30) DEF RevokeWritten
<1>6. [status |-> "revoked", reason |-> "none", value |-> found] \in Reply
  BY <1>1, <1>2, LifecyclePointed, ZenonT(30) DEF StoreInv, Reply, RecordAt, Revoked
<1>7. RevokeReplyTrue(c)'
  BY <1>1, <1>5, ZenonT(30) DEF Answer, stored, RevokeReplyTrue, StoreInv, TypeOK
<1>8. pc[c] \in RevokeSteps /\ At(c, "r_written")
  BY <1>1, Zenon DEF RevokeSteps, At
<1> HIDE DEF found
<1> QED BY <1>1, <1>5, <1>6, <1>7, <1>8, RevokeAnswered

\* What the commit of a revoke finds and writes: record and guard are those read,
\* so the record is active and the guard names it.
RevokeEffect(c) ==
    LET r == cmd[c]
        p == seen[c].pointer
        k == p.loc
        was == seen[c].existing
        form == RevokedForm(was.value, r)
        guard == guards[k][p.role]
    IN /\ r \in RevokeCommand /\ At(c, "r_transact")
       /\ r.id \in Id /\ r.event \in Event /\ EvidenceOf(r) \in Revocation
       /\ p # None /\ p = pointers[r.id] /\ p \in Pointer /\ k \in Location /\ p.role \in Role
       /\ TokenHeld(r) /\ was.version = r.token /\ was.version # 0 /\ ~BeforeGrant(was.value, r)
       /\ was = assignments[k][r.id]
       /\ was \in Versioned /\ was.version \in Nat /\ was.value \in Assignment
       /\ Active(was.value) /\ was.value.role = p.role
       /\ guard \in Guard /\ guard.version \in Nat /\ guard.occupant = r.id
       /\ form \in Assignment /\ form # None /\ Revoked(form) /\ ~Active(form)
       /\ SameGrant(was.value, form) /\ form.revocation = EvidenceOf(r) /\ form.role = p.role
       /\ assignments' \in [Location -> [Id -> Versioned]]
       /\ \A l \in Location, i \in Id :
            assignments'[l][i] = IF l = k /\ i = r.id
                                   THEN [version |-> was.version + 1, value |-> form]
                                   ELSE assignments[l][i]
       /\ guards' \in [Location -> [Role -> Guard]]
       /\ \A l \in Location, o \in Role :
            guards'[l][o] = IF l = k /\ o = p.role
                              THEN [version |-> guard.version + 1, occupant |-> None]
                              ELSE guards[l][o]
       /\ audit' \in [Location -> [Id -> [1..2 -> Event \cup {None}]]]
       /\ \A l \in Location, i \in Id :
            /\ audit'[l][i][1] = audit[l][i][1]
            /\ audit'[l][i][2] = IF l = k /\ i = r.id THEN r.event ELSE audit[l][i][2]
       /\ pointers' = pointers /\ holders' = holders

LEMMA RevokeCommitEffect ==
    ASSUME StoreInv, NEW c \in Client, RevokeCommit(c) PROVE RevokeEffect(c)
<1> DEFINE r == cmd[c]
           p == seen[c].pointer
           k == p.loc
           was == seen[c].existing
           guard == guards[k][p.role]
           form == RevokedForm(was.value, r)
<1>1. /\ RevokeInFlight(c) /\ r \in RevokeCommand /\ pc[c] = "r_transact"
      /\ r.id \in Id /\ r.event \in Event /\ r.by \in Actor /\ r.at \in Time
      /\ p # None /\ p = pointers[r.id] /\ TokenHeld(r)
      /\ Active(was.value) /\ was.value.role = p.role /\ was.version = r.token /\ was.version # 0
      /\ At(c, "r_transact") /\ ~BeforeGrant(was.value, r)
      /\ NotBefore(assignments[k][r.id], was) /\ NotBefore(guard, seen[c].guard)
  BY ZenonT(30) DEF StoreInv, CallSound, RevokeInFlight, RevokeCommit, At, RevokeSteps, RevokeCommand
<1>2. /\ assignments[k][r.id].version = was.version
      /\ guard.version = seen[c].guard.version
      /\ audit[k][r.id][2] = None
  BY <1>1, ZenonT(30) DEF RevokeCommit, RevokeFailures
<1>3. /\ assignments[k][r.id] = was /\ seen[c].guard = guard
  BY <1>1, <1>2 DEF NotBefore
<1>4. p \in Pointer /\ k \in Location /\ p.role \in Role
  BY <1>1 DEF StoreInv, TypeOK, Pointer
<1>5. /\ guard \in Guard /\ guard.version \in Nat
      /\ was \in Versioned /\ was.version \in Nat /\ was.value \in Assignment
  <2>1. guard \in Guard /\ was \in Versioned
    BY <1>4 DEF StoreInv, TypeOK, Seen
  <2> HIDE DEF guard, was
  <2> QED BY <1>1, <2>1 DEF Guard, Versioned, Active
<1>6. guard.occupant = r.id
  <2>1. guard.occupant = r.id <=> /\ Active(assignments[k][r.id].value)
                                  /\ assignments[k][r.id].value.role = p.role
    <3> HIDE DEF k, p, r
    <3> QED BY <1>1, <1>4 DEF StoreInv, RecordsSound, GuardNamesActive, RecordAt
  <2> QED BY <1>1, <1>3, <2>1, Zenon
<1>7. /\ form \in Assignment /\ form # None /\ Revoked(form) /\ ~Active(form)
      /\ SameGrant(was.value, form) /\ form.revocation = EvidenceOf(r)
      /\ form.role = p.role /\ EvidenceOf(r) \in Revocation
  <2>1. EvidenceOf(r) \in Revocation /\ EvidenceOf(r).event = r.event
    BY <1>1 DEF EvidenceOf, Revocation
  <2>2. form = [was.value EXCEPT !.revocation = EvidenceOf(r)]
    BY DEF RevokedForm
  <2>3. form \in Assignment
    BY <1>5, <2>1, <2>2 DEF Assignment
  <2> QED BY <1>1, <1>5, <2>1, <2>2, <2>3, RecordsAssumption, ZenonT(30)
          DEF Assignment, Revoked, Active, SameGrant
<1>8. /\ assignments' \in [Location -> [Id -> Versioned]]
      /\ \A l \in Location, i \in Id :
           assignments'[l][i] = IF l = k /\ i = r.id
                                  THEN [version |-> was.version + 1, value |-> form]
                                  ELSE assignments[l][i]
  <2>1. assignments' = [assignments EXCEPT ![k][r.id] =
                          [version |-> was.version + 1, value |-> form]]
    BY <1>2, Zenon DEF RevokeCommit
  <2>2. assignments \in [Location -> [Id -> Versioned]]
    BY DEF StoreInv, TypeOK
  <2>3. [version |-> was.version + 1, value |-> form] \in Versioned
    BY <1>5, <1>7 DEF Versioned
  <2> HIDE DEF form, was, k, r
  <2> QED BY <1>1, <1>4, <2>1, <2>2, <2>3
<1>9. /\ guards' \in [Location -> [Role -> Guard]]
      /\ \A l \in Location, o \in Role :
           guards'[l][o] = IF l = k /\ o = p.role
                             THEN [version |-> guard.version + 1, occupant |-> None]
                             ELSE guards[l][o]
  <2>1. guards' = [guards EXCEPT ![k][p.role] =
                     [version |-> guard.version + 1, occupant |-> None]]
    BY <1>1, <1>3, <1>6, Zenon DEF RevokeCommit, GuardAfterRevoke
  <2>2. guards \in [Location -> [Role -> Guard]]
    BY DEF StoreInv, TypeOK
  <2>3. [version |-> guard.version + 1, occupant |-> None] \in Guard
    BY <1>5 DEF Guard
  <2> HIDE DEF guard, k, p
  <2> QED BY <1>4, <2>1, <2>2, <2>3
<1>10. /\ audit' \in [Location -> [Id -> [1..2 -> Event \cup {None}]]]
       /\ \A l \in Location, i \in Id :
            /\ audit'[l][i][1] = audit[l][i][1]
            /\ audit'[l][i][2] = IF l = k /\ i = r.id THEN r.event ELSE audit[l][i][2]
  <2>1. audit' = [audit EXCEPT ![k][r.id][2] = r.event]
    BY Zenon DEF RevokeCommit
  <2>2. audit \in [Location -> [Id -> [1..2 -> Event \cup {None}]]]
    BY DEF StoreInv, TypeOK
  <2>3. k \in Location /\ r.id \in Id /\ r.event \in Event
    BY <1>1, <1>4
  <2> HIDE DEF k, r, p, was, guard, form
  <2>4. /\ audit' \in [Location -> [Id -> [1..2 -> Event \cup {None}]]]
        /\ \A l \in Location, i \in Id, q \in 1..2 :
             audit'[l][i][q] = IF l = k /\ i = r.id /\ q = 2 THEN r.event ELSE audit[l][i][q]
    BY <2>1, <2>2, <2>3, AuditUpdate
  <2> QED BY <2>4
<1> QED BY <1>1, <1>2, <1>3, <1>4, <1>5, <1>6, <1>7, <1>8, <1>9, <1>10, ZenonT(30) DEF RevokeEffect, RevokeCommit

LEMMA RevokeCommitStep ==
    ASSUME StoreInv, NEW c \in Client, RevokeCommit(c) PROVE StoreInv' /\ Evolves
<1> DEFINE r == cmd[c]
           p == seen[c].pointer
           k == p.loc
           was == seen[c].existing
           form == RevokedForm(was.value, r)
           guard == guards[k][p.role]
<1>1. /\ r \in RevokeCommand /\ r.id \in Id /\ r.event \in Event
      /\ p # None /\ p = pointers[r.id] /\ p \in Pointer /\ k \in Location /\ p.role \in Role
  BY RevokeCommitEffect, Zenon DEF RevokeEffect
<1>2. /\ assignments[k][r.id] = was /\ TokenHeld(r) /\ was.version = r.token /\ was.version # 0
      /\ was \in Versioned /\ was.version \in Nat /\ was.value \in Assignment
      /\ Active(was.value) /\ was.value.role = p.role
  BY RevokeCommitEffect, Zenon DEF RevokeEffect
<1>3. guard \in Guard /\ guard.version \in Nat /\ guard.occupant = r.id
  BY RevokeCommitEffect, Zenon DEF RevokeEffect
<1>4. /\ form \in Assignment /\ form # None /\ Revoked(form) /\ ~Active(form)
      /\ SameGrant(was.value, form) /\ form.revocation = EvidenceOf(r)
      /\ form.role = p.role
  BY RevokeCommitEffect, Zenon DEF RevokeEffect, SameGrant
<1>5. /\ assignments' \in [Location -> [Id -> Versioned]]
      /\ \A l \in Location, i \in Id :
           assignments'[l][i] = IF l = k /\ i = r.id
                                  THEN [version |-> was.version + 1, value |-> form]
                                  ELSE assignments[l][i]
  BY RevokeCommitEffect, Zenon DEF RevokeEffect
<1>6. /\ guards' \in [Location -> [Role -> Guard]]
      /\ \A l \in Location, o \in Role :
           guards'[l][o] = IF l = k /\ o = p.role
                             THEN [version |-> guard.version + 1, occupant |-> None]
                             ELSE guards[l][o]
  BY RevokeCommitEffect, Zenon DEF RevokeEffect
<1>7. /\ audit' \in [Location -> [Id -> [1..2 -> Event \cup {None}]]]
      /\ \A l \in Location, i \in Id :
           /\ audit'[l][i][1] = audit[l][i][1]
           /\ audit'[l][i][2] = IF l = k /\ i = r.id THEN r.event ELSE audit[l][i][2]
  BY RevokeCommitEffect, Zenon DEF RevokeEffect
<1> HIDE DEF form
<1>8. /\ pc' \in [Client -> {"idle", "replied"} \cup GrantSteps \cup RevokeSteps]
       /\ cmd' = cmd /\ reply' = reply /\ seen' = seen /\ OnlyMoves(c) /\ pc'[c] = "r_written"
       /\ pointers' = pointers /\ holders' = holders
  BY DEF RevokeCommit, Goto, OnlyMoves, StoreInv, TypeOK, RevokeSteps
<1>9. TypeOK'
  BY <1>5, <1>6, <1>7, <1>8 DEF StoreInv, TypeOK
<1>10. RecordsSound'
  <2>1. LifecyclesFollowPointers'
    <3> SUFFICES ASSUME NEW l \in Location, NEW i \in Id, assignments'[l][i].value # None
        PROVE  LET a == assignments'[l][i].value IN
               /\ pointers[i] = [loc |-> l, role |-> a.role]
               /\ a.id = i /\ a.loc = l
      BY <1>8 DEF LifecyclesFollowPointers, RecordAt
    <3>1. LET a == assignments[l][i].value IN
          a # None => /\ pointers[i] = [loc |-> l, role |-> a.role]
                      /\ a.id = i /\ a.loc = l
      BY DEF StoreInv, RecordsSound, LifecyclesFollowPointers, RecordAt
    <3>2. CASE l = k /\ i = r.id
      <4>1. assignments'[l][i].value = form /\ assignments[l][i].value = was.value
        BY <1>2, <1>5, <3>2, SMTT(30)
      <4> QED BY <1>1, <1>2, <1>4, <3>1, <4>1, Zenon DEF SameGrant, Active
    <3>3. CASE ~(l = k /\ i = r.id)
      BY <1>5, <3>1, <3>3
    <3> QED BY <3>2, <3>3
  <2>2. HoldersFollowPointers'
    BY <1>8 DEF StoreInv, RecordsSound, HoldersFollowPointers
  <2>3. VersionsAgree'
    <3> SUFFICES ASSUME NEW l \in Location, NEW i \in Id
        PROVE  LET a == assignments'[l][i] IN
               /\ a.version = 0 <=> a.value = None
               /\ a.value # None => guards'[l][a.value.role].version # 0
      BY DEF VersionsAgree, RecordAt
    <3>1. CASE l = k /\ i = r.id
      <4>1. assignments'[l][i].version = was.version + 1 /\ assignments'[l][i].value = form
        BY <1>5, <3>1
      <4>2. guards'[l][p.role].version = guard.version + 1
        BY <1>1, <1>6, <3>1, SMTT(30)
      <4> QED BY <1>2, <1>3, <1>4, <4>1, <4>2, SMTT(30)
    <3>2. CASE ~(l = k /\ i = r.id)
      <4>1. /\ assignments'[l][i] = assignments[l][i]
            /\ assignments[l][i].version = 0 <=> assignments[l][i].value = None
            /\ assignments[l][i].value # None =>
                 guards[l][assignments[l][i].value.role].version # 0
        BY <1>5, <3>2 DEF StoreInv, RecordsSound, VersionsAgree, RecordAt
      <4>2. ASSUME assignments[l][i].value # None
            PROVE  guards'[l][assignments[l][i].value.role].version # 0
        <5>1. assignments[l][i].value.role \in Role
          BY <4>2, LifecyclePointed DEF StoreInv, RecordAt, Assignment
        <5> QED BY <1>3, <1>6, <4>1, <4>2, <5>1, SMTT(30)
      <4> QED BY <4>1, <4>2
    <3> QED BY <3>1, <3>2
  <2>4. GuardNamesActive'
    <3> SUFFICES ASSUME NEW l \in Location, NEW i \in Id, NEW o \in Role
        PROVE  LET a == assignments'[l][i].value IN
               guards'[l][o].occupant = i <=> Active(a) /\ a.role = o
      BY DEF GuardNamesActive, RecordAt
    <3>1. guards[l][o].occupant = i
            <=> Active(assignments[l][i].value) /\ assignments[l][i].value.role = o
      BY DEF StoreInv, RecordsSound, GuardNamesActive, RecordAt
    <3>2. CASE l = k /\ i = r.id
      <4>1. assignments'[l][i].value = form /\ assignments[l][i].value = was.value
        BY <1>2, <1>5, <3>2
      <4>2. guards'[l][o].occupant # i
        <5>1. CASE o = p.role
          BY <1>6, <3>2, <5>1, RecordsAssumption
        <5>2. CASE o # p.role
          <6>1. guards'[l][o] = guards[l][o]
            BY <1>6, <5>2
          <6> QED BY <1>2, <3>1, <4>1, <5>2, <6>1
        <5> QED BY <5>1, <5>2
      <4> QED BY <1>4, <4>1, <4>2
    <3>3. CASE ~(l = k /\ i = r.id)
      <4>1. assignments'[l][i] = assignments[l][i]
        BY <1>5, <3>3
      <4>2. CASE l = k /\ o = p.role
        <5>1. guards[l][o].occupant = r.id /\ i # r.id
          BY <1>3, <3>3, <4>2
        <5>2. ~(Active(assignments'[l][i].value) /\ assignments'[l][i].value.role = o)
          BY <3>1, <4>1, <5>1
        <5>3. guards'[l][o].occupant = None
          BY <1>6, <4>2
        <5>4. guards'[l][o].occupant # i
          BY <5>3, RecordsAssumption
        <5> QED BY <5>2, <5>4
      <4>3. CASE ~(l = k /\ o = p.role)
        BY <1>6, <3>1, <4>1, <4>3
      <4> QED BY <4>2, <4>3
    <3> QED BY <3>2, <3>3
  <2>5. AuditMatchesLifecycle'
    <3> SUFFICES ASSUME NEW l \in Location, NEW i \in Id
        PROVE  LET a == assignments'[l][i].value IN
               /\ audit'[l][i][1] = IF a = None THEN None ELSE a.grantEvent
               /\ audit'[l][i][2] = IF Revoked(a) THEN a.revocation.event ELSE None
      BY DEF AuditMatchesLifecycle, RecordAt
    <3>1. LET a == assignments[l][i].value IN
          /\ audit[l][i][1] = IF a = None THEN None ELSE a.grantEvent
          /\ audit[l][i][2] = IF Revoked(a) THEN a.revocation.event ELSE None
      BY DEF StoreInv, RecordsSound, AuditMatchesLifecycle, RecordAt
    <3>2. CASE l = k /\ i = r.id
      <4>1. assignments'[l][i].value = form /\ assignments[l][i].value = was.value
        BY <1>2, <1>5, <3>2
      <4>2. audit'[l][i][1] = audit[l][i][1] /\ audit'[l][i][2] = r.event
        BY <1>7, <3>2
      <4>3. form.revocation.event = r.event
        BY <1>4 DEF EvidenceOf
      <4> QED BY <1>2, <1>4, <3>1, <4>1, <4>2, <4>3 DEF SameGrant, Active
    <3>3. CASE ~(l = k /\ i = r.id)
      BY <1>5, <1>7, <3>1, <3>3
    <3> QED BY <3>2, <3>3
  <2> QED BY <2>1, <2>2, <2>3, <2>4, <2>5 DEF RecordsSound
<1>11. Evolves
  <2>1. ASSUME NEW l \in Location, NEW o \in Role
        PROVE  /\ NotBefore(guards'[l][o], guards[l][o])
               /\ None \in {guards[l][o].occupant, guards'[l][o].occupant}
                    \/ guards'[l][o].occupant = guards[l][o].occupant
    BY <1>3, <1>6, SMTT(30) DEF NotBefore, StoreInv, TypeOK, Guard
  <2>2. ASSUME NEW l \in Location, NEW i \in Id
        PROVE  LET old == assignments[l][i]
                   now == assignments'[l][i]
               IN /\ NotBefore(now, old)
                  /\ old.value # None => now.value # None /\ SameGrant(old.value, now.value)
                  /\ Revoked(old.value) => now = old
                  /\ old.value = None /\ now.value # None =>
                       guards'[l][now.value.role].version > guards[l][now.value.role].version
                  /\ Active(old.value) /\ now.version = old.version =>
                       guards'[l][old.value.role] = guards[l][old.value.role]
    <3>1. CASE l = k /\ i = r.id
      <4>1. /\ assignments'[l][i].version = was.version + 1 /\ assignments'[l][i].value = form
            /\ assignments[l][i] = was
        BY <1>2, <1>5, <3>1
      <4> QED BY <1>1, <1>2, <1>4, <4>1 DEF NotBefore, Active, Revoked
    <3>2. CASE ~(l = k /\ i = r.id)
      <4>1. assignments'[l][i] = assignments[l][i] /\ assignments[l][i].version \in Nat
        BY <1>5, <3>2 DEF StoreInv, TypeOK, Versioned
      <4>2. ASSUME Active(assignments[l][i].value)
            PROVE  guards'[l][assignments[l][i].value.role] = guards[l][assignments[l][i].value.role]
        <5>1. assignments[l][i].value.role \in Role
          BY <4>2, LifecyclePointed DEF StoreInv, RecordAt, Assignment, Active
        <5>2. guards[l][assignments[l][i].value.role].occupant = i
          BY <4>2, <5>1 DEF StoreInv, RecordsSound, GuardNamesActive, RecordAt
        <5> QED BY <1>3, <1>6, <3>2, <5>1, <5>2, Zenon
      <4> QED BY <4>1, <4>2 DEF NotBefore, SameGrant
    <3> QED BY <3>1, <3>2
  <2> QED BY <1>8, <2>1, <2>2 DEF Evolves
<1>12. CallSound(c)'
  <2>1. /\ assignments'[k][r.id].value = form
        /\ assignments'[k][r.id].version = was.version + 1
    <3> HIDE DEF k, was
    <3> QED BY <1>1, <1>5
  <2>2. r.token \in 1..assignments'[k][r.id].version
    <3> HIDE DEF k, was
    <3> QED BY <1>1, <1>2, <2>1
  <2>3. TokenHeld(r)'
    BY <1>1, <1>8, <2>2 DEF TokenHeld, TokensHeld
  <2>4. RevokeInFlight(c)'
    BY <1>1, <1>4, <1>8, <2>1, <2>3, Zenon DEF RevokeInFlight, At
  <2> QED BY <1>8, <2>4 DEF CallSound, At, GrantSteps, RevokeSteps
\* Another ender of this id would have left it revoked.
<1>13. OneMakesOneEnds'
  <2>1. ASSUME NEW d \in Client, d # c, cmd[d].id = r.id, Ended(d)
        PROVE  FALSE
    <3>1. CallSound(d)
      BY DEF StoreInv
    <3>2. Revoked(assignments[k][r.id].value)
      <4>1. CASE pc[d] = "r_written"
        BY <1>1, <2>1, <3>1, <4>1, ZenonT(30) DEF At, CallSound, RevokeSteps, RevokeInFlight
      <4>2. CASE pc[d] = "replied" /\ reply[d].status = "revoked"
        BY <1>1, <2>1, <3>1, <4>2, Zenon DEF At, CallSound, RevokeReplyTrue
      <4> QED BY <2>1, <4>1, <4>2 DEF Ended, At
    <3> QED BY <1>1, <1>2, <3>2 DEF Active, Revoked
  <2>2. \A d \in Client : Made(d)' => Made(d)
    BY <1>8 DEF Made, At, OnlyMoves
  <2>3. \A d \in Client : d # c /\ Ended(d)' => Ended(d)
    BY <1>8 DEF Ended, At, OnlyMoves
  <2> QED BY <1>8, <2>1, <2>2, <2>3 DEF StoreInv, OneMakesOneEnds
<1> QED BY <1>8, <1>9, <1>10, <1>11, <1>12, <1>13, WritingStep

-----------------------------------------------------------------------------
\* Calls begin and end.

LEMMA StartGrantStep ==
    ASSUME StoreInv, NEW c \in Client, StartGrant(c) PROVE StoreInv' /\ Evolves
<1>1. PICK g \in GrantCommand : Start(c, g, "g_pointer")
  BY DEF StartGrant
<1>2. /\ UNCHANGED stored /\ pc' = [pc EXCEPT ![c] = "g_pointer"]
      /\ cmd' = [cmd EXCEPT ![c] = g] /\ seen' = seen /\ reply' = reply
  BY <1>1 DEF Start
<1>3. TypeOK' /\ OnlyMoves(c) /\ pc'[c] = "g_pointer" /\ cmd'[c] = g
  BY <1>2 DEF StoreInv, TypeOK, OnlyMoves, stored, GrantSteps
<1>4. NoNewMaker(c)
  BY <1>3 DEF NoNewMaker, Made, Ended, At
<1>5. CallSound(c)'
  BY <1>3 DEF CallSound, GrantInFlight, At, GrantSteps, RevokeSteps
<1> QED BY <1>2, <1>3, <1>4, <1>5, ReadingStep

LEMMA StartRevokeStep ==
    ASSUME StoreInv, NEW c \in Client, StartRevoke(c) PROVE StoreInv' /\ Evolves
<1>1. PICK i \in Id, by \in Actor, at \in Time, event \in Event :
        \E t \in TokensHeld(i) :
          Start(c, [op |-> "revoke", id |-> i, token |-> t, by |-> by,
                    at |-> at, event |-> event], "r_locate")
  BY DEF StartRevoke
<1>2. PICK t \in TokensHeld(i) :
        Start(c, [op |-> "revoke", id |-> i, token |-> t, by |-> by,
                  at |-> at, event |-> event], "r_locate")
  BY <1>1
<1> DEFINE r == [op |-> "revoke", id |-> i, token |-> t, by |-> by, at |-> at, event |-> event]
<1>3. t \in Nat
  <2>1. CASE t = 0
    BY <2>1
  <2>2. CASE t # 0
    <3>1. PICK l \in Location : t \in 1..assignments[l][i].version
      BY <1>2, <2>2 DEF TokensHeld
    <3> QED BY <3>1
  <2> QED BY <2>1, <2>2
<1>4. r \in RevokeCommand
  BY <1>3 DEF RevokeCommand
<1>5. /\ UNCHANGED stored /\ pc' = [pc EXCEPT ![c] = "r_locate"]
      /\ cmd' = [cmd EXCEPT ![c] = r] /\ seen' = seen /\ reply' = reply
  BY <1>2 DEF Start
<1>6. TypeOK' /\ OnlyMoves(c) /\ pc'[c] = "r_locate" /\ cmd'[c] = r
  <2> HIDE DEF r
  <2> QED BY <1>4, <1>5 DEF StoreInv, TypeOK, OnlyMoves, stored, RevokeSteps
<1>7. NoNewMaker(c)
  BY <1>6 DEF NoNewMaker, Made, Ended, At
<1>8. CallSound(c)'
  <2>1. TokenHeld(r)'
    BY <1>2, <1>5 DEF TokenHeld, TokensHeld, stored
  <2> HIDE DEF r
  <2> QED BY <1>4, <1>6, <2>1 DEF CallSound, RevokeInFlight, At, GrantSteps, RevokeSteps
<1> QED BY <1>5, <1>6, <1>7, <1>8, ReadingStep

LEMMA ForgetStep ==
    ASSUME StoreInv, NEW c \in Client, Forget(c) PROVE StoreInv' /\ Evolves
<1>1. NothingSeen \in Seen
  BY DEF NothingSeen, Seen, NoAssignment, NoGuard, Versioned, Guard
<1>2. TypeOK' /\ OnlyMoves(c) /\ pc'[c] = "idle"
  BY <1>1 DEF Forget, StoreInv, TypeOK, OnlyMoves, stored
<1>3. NoNewMaker(c)
  BY <1>2 DEF NoNewMaker, Made, Ended, At
<1>4. CallSound(c)'
  BY <1>2 DEF CallSound, At, GrantSteps, RevokeSteps
<1> QED BY <1>2, <1>3, <1>4, ReadingStep DEF Forget

-----------------------------------------------------------------------------
\* The invariant.

LEMMA InitSound == Init => StoreInv
<1> SUFFICES ASSUME Init PROVE StoreInv
  OBVIOUS
<1>1. NothingSeen \in Seen /\ NoAssignment \in Versioned /\ NoGuard \in Guard
  BY DEF NothingSeen, Seen, NoAssignment, NoGuard, Versioned, Guard
<1>2. TypeOK
  BY <1>1 DEF Init, TypeOK
<1>3. RecordsSound
  <2>1. \A l \in Location, i \in Id : RecordAt(l, i) = None /\ assignments[l][i].version = 0
    BY Zenon DEF Init, RecordAt, NoAssignment
  <2>2. \A l \in Location, r \in Role : guards[l][r].occupant = None
    BY DEF Init, NoGuard
  <2>3. \A l \in Location, i \in Id : audit[l][i][1] = None /\ audit[l][i][2] = None
    <3>1. 1 \in 1..2 /\ 2 \in 1..2
      OBVIOUS
    <3> QED BY <3>1, Zenon DEF Init
  <2>4. HoldersFollowPointers
    BY DEF Init, HoldersFollowPointers
  <2> QED BY <2>1, <2>2, <2>3, <2>4, RecordsAssumption DEF RecordsSound, LifecyclesFollowPointers,
          VersionsAgree, GuardNamesActive, AuditMatchesLifecycle, Active, Revoked
<1>4. \A c \in Client : pc[c] = "idle"
  BY DEF Init
<1>5. (\A c \in Client : CallSound(c)) /\ OneMakesOneEnds
  BY <1>4 DEF CallSound, At, GrantSteps, RevokeSteps, OneMakesOneEnds, Made, Ended
<1> QED BY <1>2, <1>3, <1>5 DEF StoreInv

LEMMA StepSound == StoreInv /\ [Next]_vars => StoreInv' /\ Evolves
<1> SUFFICES ASSUME StoreInv, [Next]_vars PROVE StoreInv' /\ Evolves
  OBVIOUS
<1>1. CASE UNCHANGED vars
  <2>1. TypeOK'
    BY <1>1 DEF vars, stored, StoreInv, TypeOK
  <2>2. RecordsSound'
    BY <1>1, SMTT(30) DEF vars, stored, StoreInv, RecordsSound, LifecyclesFollowPointers, HoldersFollowPointers,
       VersionsAgree, GuardNamesActive, AuditMatchesLifecycle, RecordAt
  <2>3. ASSUME NEW c \in Client PROVE CallSound(c)'
    <3>1. CallSound(c)
      BY DEF StoreInv
    <3>2. GrantInFlight(c) => GrantInFlight(c)'
      BY <1>1 DEF vars, stored, GrantInFlight, At, RecordAt
    <3>3. RevokeInFlight(c) => RevokeInFlight(c)'
      BY <1>1 DEF vars, stored, RevokeInFlight, At, TokenHeld, TokensHeld
    <3>4. GrantReplyTrue(c) => GrantReplyTrue(c)'
      BY <1>1 DEF vars, stored, GrantReplyTrue, RecordAt
    <3>5. RevokeReplyTrue(c) => RevokeReplyTrue(c)'
      BY <1>1, Zenon DEF vars, stored, RevokeReplyTrue
    <3> QED BY <1>1, <3>1, <3>2, <3>3, <3>4, <3>5 DEF CallSound, At, vars
  <2>4. OneMakesOneEnds'
    BY <1>1 DEF vars, StoreInv, OneMakesOneEnds, Made, Ended, At
  <2>5. Evolves
    BY <1>1, RestEvolves DEF vars, StoreInv
  <2> QED BY <2>1, <2>2, <2>3, <2>4, <2>5 DEF StoreInv
<1>2. ASSUME NEW c \in Client, StartGrant(c) \/ StartRevoke(c)
      PROVE  StoreInv' /\ Evolves
  BY <1>2, StartGrantStep, StartRevokeStep
<1>3. ASSUME NEW c \in Client, GrantStep(c)
      PROVE  StoreInv' /\ Evolves
  BY <1>3, GrantPointerStep, GrantHolderStep, GrantGuardStep, GrantExistingStep,
     GrantCommitStep, GrantRefusedStep, GrantLandedStep, GrantWrittenStep DEF GrantStep
<1>4. ASSUME NEW c \in Client, RevokeStep(c)
      PROVE  StoreInv' /\ Evolves
  BY <1>4, RevokeLocateStep, RevokeExistingStep, RevokeGuardStep, RevokeCommitStep,
     RevokeRefusedStep, RevokeWrittenStep DEF RevokeStep
<1>5. ASSUME NEW c \in Client, Return(c) \/ Abandon(c)
      PROVE  StoreInv' /\ Evolves
  BY <1>5, ForgetStep DEF Return, Abandon
<1> QED BY <1>1, <1>2, <1>3, <1>4, <1>5 DEF Next

LEMMA StoreInvariance == Spec => []StoreInv
<1> QED BY InitSound, StepSound, PTL DEF Spec

-----------------------------------------------------------------------------
\* Every lifecycle has its holder row.

\* Only the two commits change a lifecycle record, a guard or an audit row.
Commits(c) == GrantCommit(c) \/ RevokeCommit(c)

LEMMA OnlyCommitsWrite ==
    ASSUME [Next]_vars
    PROVE  UNCHANGED <<assignments, guards, audit>> \/ \E c \in Client : Commits(c)
<1>1. CASE UNCHANGED vars
  BY <1>1 DEF vars, stored
<1>2. ASSUME NEW c \in Client, StartGrant(c) \/ StartRevoke(c)
      PROVE  UNCHANGED <<assignments, guards, audit>>
  BY <1>2 DEF StartGrant, StartRevoke, Start, stored
<1>3. ASSUME NEW c \in Client, GrantStep(c)
      PROVE  UNCHANGED <<assignments, guards, audit>> \/ Commits(c)
  BY <1>3 DEF GrantStep, GrantPointer, GrantHolder, GrantGuard, GrantExisting, GrantRefused,
     GrantLanded, GrantWritten, Commits, stored
<1>4. ASSUME NEW c \in Client, RevokeStep(c)
      PROVE  UNCHANGED <<assignments, guards, audit>> \/ Commits(c)
  BY <1>4 DEF RevokeStep, RevokeLocate, RevokeExisting, RevokeGuard, RevokeRefused,
     RevokeWritten, Commits, stored
<1>5. ASSUME NEW c \in Client, Return(c) \/ Abandon(c)
      PROVE  UNCHANGED <<assignments, guards, audit>>
  BY <1>5 DEF Return, Abandon, Forget, stored
<1> QED BY <1>1, <1>2, <1>3, <1>4, <1>5 DEF Next

\* A grant of this store that takes effect has written its holder row.
LEMMA NewLifecycleHeld ==
    ASSUME StoreInv, [Next]_vars, NEW l \in Location, NEW i \in Id,
           RecordAt(l, i) = None, RecordAt(l, i)' # None
    PROVE  holders'[l.scope][RecordAt(l, i)'.role][i] = l.principal
<1>1. PICK c \in Client : Commits(c)
  BY OnlyCommitsWrite DEF RecordAt
<1>2. CASE GrantCommit(c)
  <2> DEFINE g == cmd[c]
  <2>1. GrantEffect(c)
    BY <1>2, GrantCommitEffect
  <2>2. /\ \A m \in Location, j \in Id :
             assignments'[m][j] = IF m = g.loc /\ j = g.id
                                  THEN [version |-> 1, value |-> GrantedForm(g)]
                                  ELSE assignments[m][j]
        /\ GrantedForm(g).role = g.role /\ holders' = holders
        /\ holders[g.loc.scope][g.role][g.id] = g.loc.principal
    BY <2>1, Zenon DEF GrantEffect
  <2> HIDE DEF g
  <2>3. l = g.loc /\ i = g.id
    BY <2>2 DEF RecordAt
  <2>4. RecordAt(l, i)' = GrantedForm(g)
    BY <2>2, <2>3 DEF RecordAt
  <2> QED BY <2>2, <2>3, <2>4
<1>3. CASE RevokeCommit(c)
  <2> DEFINE r == cmd[c]
             k == seen[c].pointer.loc
  <2>1. RevokeEffect(c)
    BY <1>3, RevokeCommitEffect
  <2>2. /\ \A m \in Location, j \in Id :
             ~(m = k /\ j = r.id) => assignments'[m][j] = assignments[m][j]
        /\ assignments[k][r.id].value \in Assignment
    BY <2>1, ZenonT(30) DEF RevokeEffect
  <2> HIDE DEF r, k
  <2> QED BY <2>2, RecordsAssumption DEF RecordAt
<1> QED BY <1>1, <1>2, <1>3 DEF Commits

LEMMA LocatedStep ==
    ASSUME StoreInv, LifecycleLocated, [Next]_vars PROVE LifecycleLocated'
<1>1. StoreInv' /\ Evolves
  BY StepSound
<1> SUFFICES ASSUME NEW l \in Location, NEW i \in Id, RecordAt(l, i)' # None
             PROVE  holders'[l.scope][RecordAt(l, i)'.role][i] = l.principal
  BY <1>1 DEF LifecycleLocated, StoreInv, RecordsSound, LifecyclesFollowPointers, RecordAt
<1>2. CASE RecordAt(l, i) = None
  BY <1>2, NewLifecycleHeld
<1>3. CASE RecordAt(l, i) # None
  <2>1. /\ RecordAt(l, i) \in Assignment /\ SameGrant(RecordAt(l, i), RecordAt(l, i)')
        /\ holders[l.scope][RecordAt(l, i).role][i] = l.principal
    BY <1>1, <1>3, LifecyclePointed DEF StoreInv, Evolves, RecordAt, LifecycleLocated
  <2>2. /\ l.principal \in Principal /\ l.scope \in Scope /\ RecordAt(l, i).role \in Role
        /\ RecordAt(l, i)'.role = RecordAt(l, i).role
    BY <2>1 DEF Location, Assignment, SameGrant
  <2> QED BY <1>1, <2>1, <2>2, RecordsAssumption DEF Evolves
<1> QED BY <1>2, <1>3

\* The invariant holds in every state of every execution, for any number of
\* clients, ids, principals, scopes, roles and events.
THEOREM Invariance == Spec => []IInv
<1>1. Init => IInv
  BY InitSound DEF IInv, Init, LifecycleLocated, RecordAt, NoAssignment
<1>2. IInv /\ [Next]_vars => IInv'
  BY StepSound, LocatedStep DEF IInv
<1> QED BY <1>1, <1>2, PTL DEF Spec

-----------------------------------------------------------------------------
\* What follows from the invariant in one state.

LEMMA TypesFollow == StoreInv => TypeOK
  BY DEF StoreInv

LEMMA TupleFollows == StoreInv => OneActivePerTuple
<1> SUFFICES ASSUME StoreInv, NEW l \in Location, NEW i \in Id, NEW j \in Id,
                    Active(RecordAt(l, i)), Active(RecordAt(l, j)),
                    RecordAt(l, i).role = RecordAt(l, j).role
             PROVE  i = j
  BY DEF OneActivePerTuple
<1>1. RecordAt(l, i).role \in Role
  BY LifecyclePointed DEF StoreInv, Active, Assignment
<1>2. /\ guards[l][RecordAt(l, i).role].occupant = i
      /\ guards[l][RecordAt(l, i).role].occupant = j
  BY <1>1 DEF StoreInv, RecordsSound, GuardNamesActive
<1> QED BY <1>2

LEMMA RecordsFollow ==
    StoreInv => GuardNamesActive /\ AuditMatchesLifecycle
  BY DEF StoreInv, RecordsSound

LEMMA NeverCorruptFollows == StoreInv => NeverCorrupt
  BY DEF StoreInv, CallSound, NeverCorrupt

LEMMA GrantRepliesFollow == StoreInv => GrantRepliesTruthful
<1> SUFFICES ASSUME StoreInv, NEW c \in Client, IsGrant(c) PROVE GrantReplyTrue(c)
  BY DEF GrantRepliesTruthful, GrantReplyTrue
<1> QED BY DEF StoreInv, CallSound, IsGrant, At, RevokeCommand

LEMMA RevokeRepliesFollow == StoreInv => RevokeRepliesTruthful
<1> SUFFICES ASSUME StoreInv, NEW c \in Client, IsRevoke(c)
             PROVE  /\ reply[c].status \in {"revoked", "unchanged"} =>
                         LET p == pointers[cmd[c].id]
                             a == RecordAt(p.loc, cmd[c].id)
                         IN /\ p # None /\ Revoked(a) /\ a.revocation = EvidenceOf(cmd[c])
                            /\ reply[c].value = a
                    /\ reply[c].reason = "concurrency" =>
                         LET p == pointers[cmd[c].id]
                         IN p # None /\ assignments[p.loc][cmd[c].id].version # cmd[c].token
                    /\ reply[c].reason = "lifecycle" =>
                         LET p == pointers[cmd[c].id]
                             a == RecordAt(p.loc, cmd[c].id)
                         IN /\ p # None /\ a # None
                            /\ \/ Revoked(a) /\ a.revocation # EvidenceOf(cmd[c])
                               \/ cmd[c].at < a.grantedAt
  BY DEF RevokeRepliesTruthful
<1>1. cmd[c] \in RevokeCommand /\ RevokeReplyTrue(c)
  BY DEF StoreInv, CallSound, IsRevoke, At, GrantCommand
<1>2. cmd[c].id \in Id /\ cmd[c].token \in Nat
  BY <1>1 DEF RevokeCommand
<1>3. pointers[cmd[c].id] # None =>
        assignments[pointers[cmd[c].id].loc][cmd[c].id].version \in Nat
  BY <1>2 DEF StoreInv, TypeOK, Pointer, Versioned
<1>4. reply[c].reason = "concurrency" =>
        /\ pointers[cmd[c].id] # None
        /\ assignments[pointers[cmd[c].id].loc][cmd[c].id].version # cmd[c].token
  BY <1>1, <1>2, <1>3, SMTT(30) DEF RevokeReplyTrue
<1> QED BY <1>1, <1>4, Zenon DEF RevokeReplyTrue, RecordAt, BeforeGrant

LEMMA SingleWinnerFollows == StoreInv => SingleWinner
<1> SUFFICES ASSUME StoreInv, NEW c \in Client, NEW d \in Client,
                    At(c, "replied"), At(d, "replied"), cmd[c].id = cmd[d].id,
                    reply[c].status = reply[d].status,
                    reply[c].status \in {"granted", "revoked"}
             PROVE  c = d
  BY DEF SingleWinner
<1> QED BY DEF StoreInv, OneMakesOneEnds, Made, Ended

LEMMA RefusalFollows == StoreInv => RefusalNeedsCompetitor
<1> SUFFICES ASSUME StoreInv, NEW c \in Client
             PROVE  /\ (/\ At(c, "g_transact")
                        /\ guards[cmd[c].loc][cmd[c].role] = seen[c].guard)
                          => GrantFailures(c) = {}
                    /\ (/\ At(c, "r_transact")
                        /\ assignments[seen[c].pointer.loc][cmd[c].id] = seen[c].existing)
                          => RevokeFailures(c) = {}
  BY DEF RefusalNeedsCompetitor
<1>1. ASSUME At(c, "g_transact"), guards[cmd[c].loc][cmd[c].role] = seen[c].guard
      PROVE  GrantFailures(c) = {}
  <2> DEFINE g == cmd[c]
  <2>1. GrantInFlight(c) /\ g \in GrantCommand /\ g.loc \in Location /\ g.id \in Id /\ g.role \in Role
    BY <1>1 DEF StoreInv, CallSound, At, GrantSteps, GrantInFlight, GrantCommand
  <2>2. guards[g.loc][g.role].version \in Nat
    BY <2>1 DEF StoreInv, TypeOK, Guard
  <2>3. RecordAt(g.loc, g.id) = None
    BY <1>1, <2>1, <2>2 DEF GrantInFlight
  <2>4. assignments[g.loc][g.id].version = 0 /\ audit[g.loc][g.id][1] = None
    BY <2>1, <2>3 DEF StoreInv, RecordsSound, VersionsAgree, AuditMatchesLifecycle
  <2> QED BY <1>1, <2>4 DEF GrantFailures
<1>2. ASSUME At(c, "r_transact"), assignments[seen[c].pointer.loc][cmd[c].id] = seen[c].existing
      PROVE  RevokeFailures(c) = {}
  <2> DEFINE r == cmd[c]
             p == seen[c].pointer
             was == seen[c].existing
  <2>1. /\ RevokeInFlight(c) /\ r.id \in Id /\ p # None /\ p.loc \in Location
        /\ Active(was.value) /\ was.value.role = p.role /\ was.version \in Nat
    BY ZenonT(30), <1>2 DEF StoreInv, CallSound, At, RevokeSteps, RevokeInFlight, RevokeCommand,
       TypeOK, Seen, Pointer, Versioned
  <2>2. guards[p.loc][p.role] = seen[c].guard
    BY <1>2, <2>1 DEF RevokeInFlight, At
  <2>3. audit[p.loc][r.id][2] = None
    BY <1>2, <2>1 DEF StoreInv, RecordsSound, AuditMatchesLifecycle, RecordAt, Active, Revoked
  <2>4. /\ assignments[p.loc][r.id].version = was.version
        /\ guards[p.loc][was.value.role].version = seen[c].guard.version
    BY <1>2, <2>1, <2>2
  <2>5. RevokeFailures(c) =
          {why \in {"exists", "changed"} :
             \/ why = "changed" /\ assignments[p.loc][r.id].version # was.version
             \/ why = "changed" /\ guards[p.loc][was.value.role].version # seen[c].guard.version
             \/ why = "exists" /\ audit[p.loc][r.id][2] # None}
    BY DEF RevokeFailures
  <2>6. ASSUME NEW why \in RevokeFailures(c) PROVE FALSE
    <3> HIDE DEF p, r, was
    <3> QED BY <2>3, <2>4, <2>5, <2>6
  <2> QED BY <2>6
<1> QED BY <1>1, <1>2

\* The records and the calls always have their types: no step reads or writes
\* a field of a record that is not there.
THEOREM Typed == Spec => []TypeOK
<1> QED BY StoreInvariance, TypesFollow, PTL

\* One active assignment for each principal, scope and role, however many
\* callers race (the guard in the transaction of grantRoleAssignmentWithAudit).
THEOREM TupleExclusion == Spec => []OneActivePerTuple
<1> QED BY StoreInvariance, TupleFollows, PTL

\* The tuple guard that grant and revoke put names exactly the active assignment.
THEOREM GuardTruth == Spec => []GuardNamesActive
<1> QED BY StoreInvariance, RecordsFollow, PTL

\* One lifecycle for each id, where the pointer and the holder row that a grant
\* inserts before its transaction say it is.
THEOREM Located == Spec => []LifecycleLocated
<1> QED BY Invariance, PTL DEF IInv

\* The audit rows of an id are the events of its lifecycle: both transactions
\* insert their row with the record they write.
THEOREM AuditTruth == Spec => []AuditMatchesLifecycle
<1> QED BY StoreInvariance, RecordsFollow, PTL

\* No interleaving of legal calls reaches one of the corrupt errors of a grant
\* or a revoke.
THEOREM NoCorruption == Spec => []NeverCorrupt
<1> QED BY StoreInvariance, NeverCorruptFollows, PTL

\* What the answer of a grant says is so, and stays so.
THEOREM GrantTruth == Spec => []GrantRepliesTruthful
<1> QED BY StoreInvariance, GrantRepliesFollow, PTL

\* What the answer of a revoke says is so, and stays so.
THEOREM RevokeTruth == Spec => []RevokeRepliesTruthful
<1> QED BY StoreInvariance, RevokeRepliesFollow, PTL

\* Of the calls answered for one id, one granted it and one revoked it.
THEOREM OneWinner == Spec => []SingleWinner
<1> QED BY StoreInvariance, SingleWinnerFollows, PTL

\* A transaction fails only for a call that was overtaken: nothing an abandoned
\* attempt leaves behind wedges its id or its tuple.
THEOREM RefusalsEarned == Spec => []RefusalNeedsCompetitor
<1> QED BY StoreInvariance, RefusalFollows, PTL
=============================================================================
