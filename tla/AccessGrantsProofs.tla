------------------------- MODULE AccessGrantsProofs -------------------------
(***************************************************************************)
(* The properties of AccessGrants for every number of sessions, issuers    *)
(* and verifications, every length of a second, lifetime, suspension and   *)
(* lead of a clock.  The invariant follows a grant from the read of its    *)
(* source to its acceptance: each clause bounds the next by real time, so  *)
(* that the clocks of issuer and verifier never have to be compared.       *)
(***************************************************************************)
EXTENDS AccessGrants, TLAPS

\* Sessions that hold authorization of a source, a reserved identifier, a
\* signed grant; verifications that have a grant, and that have consumed it.
Holding   == {"read", "bound", "reserving", "reserved", "signing", "issued"}
Drawing   == {"reserving", "reserved", "signing", "issued"}
Reserving == {"reserved", "signing", "issued"}
Signing   == {"signing", "issued"}
Showing   == {"resolving", "inserting", "inserted", "accepted"}
Consuming == {"inserted", "accepted"}

\* A read began before now, on the clock of its issuer.
ReadsBegan ==
    \A s \in Session : pc[s] = "reading" =>
      owner[s] \in Issuer /\ deadline[s] + owner[s] <= now

\* The deadline, in real time, is no later than the source's promise.
DeadlinesVouched ==
    \A s \in Session : pc[s] \in Holding =>
      owner[s] \in Issuer /\ deadline[s] + owner[s] <= vouched[s]

\* A grant ends at the slowest verifier before the deadline.
GrantsBounded ==
    \A s \in Session : pc[s] \in Signing =>
      (grant[s].exp + Offset) * Second <= deadline[s] + owner[s]

\* A reserved identifier is in the Store, and is one session's.
IdentifiersReserved ==
    /\ \A s \in Session : pc[s] \in Drawing => jti[s] \in Jti
    /\ \A s \in Session : pc[s] \in Reserving => jti[s] \in reserved
    /\ \A s, t \in Session :
         pc[s] \in Reserving /\ pc[t] \in Reserving /\ jti[s] = jti[t] => s = t

IssuerInv ==
    ReadsBegan /\ DeadlinesVouched /\ GrantsBounded /\ IdentifiersReserved

\* What a verification was shown stays issued.
ShownIssued ==
    \A v \in Verify : vpc[v] \in Showing =>
      shown[v] \in Session /\ pc[shown[v]] = "issued"

AcceptedInTime ==
    \A v \in Verify : vpc[v] = "accepted" =>
      accepted[v] \in Int /\ accepted[v] < vouched[shown[v]]

\* A consumed grant has its replay row until it has expired everywhere.
RowsOutlive ==
    \A v \in Verify : vpc[v] \in Consuming =>
      \/ spent[jti[shown[v]]] = RetainThrough(shown[v])
      \/ NumericDate(now) > RetainThrough(shown[v])

\* A grant consumed again has expired everywhere, and is not accepted again.
ConsumedAgainLate ==
    \A v, u \in Verify :
      v # u /\ vpc[v] \in Consuming /\ vpc[u] \in Consuming /\ shown[v] = shown[u] =>
        /\ NumericDate(now) > RetainThrough(shown[v])
        /\ ~(vpc[v] = "accepted" /\ vpc[u] = "accepted")

VerifierInv == ShownIssued /\ AcceptedInTime /\ RowsOutlive /\ ConsumedAgainLate

GInv == TypeOK /\ IssuerInv /\ VerifierInv

-----------------------------------------------------------------------------
\* A floored instant is before a second iff the instant is.
LEMMA FloorBelow ==
    ASSUME NEW S \in Nat \ {0}, NEW a \in Int, NEW n \in Int
    PROVE  a \div S \in Int /\ (a \div S < n <=> a < n * S)
OBVIOUS

\* Flooring to seconds keeps the order of instants.
LEMMA FloorMonotone ==
    ASSUME NEW S \in Nat \ {0}, NEW a \in Int, NEW b \in Int, a <= b
    PROVE  a \div S <= b \div S
OBVIOUS

\* Two floors lose nothing to the unsafe side.
LEMMA FloorSum ==
    ASSUME NEW S \in Nat \ {0}, NEW a \in Int, NEW b \in Int, NEW n \in Int,
           n <= (a \div S) + (b \div S)
    PROVE  n * S <= a + b
OBVIOUS

\* What readGrantWindow returns ends, at a verifier slow by the whole offset,
\* before the deadline: the wall clock is read no later than the monotonic one,
\* and both floors are to the safe side.
LEMMA WindowBounded ==
    ASSUME TypeOK, NEW s \in Session, NEW i \in Issuer, NEW w \in Windows(s, i)
    PROVE  /\ w \in [iat : Int, exp : Int]
           /\ (w.exp + Offset) * Second <= deadline[s] + i
<1> USE TimeAssumption, IssuerAssumption
<1>1. PICK r \in Readings(i) :
         w = [iat |-> NumericDate(r.wall),
              exp |-> NumericDate(r.wall) + Nominal(deadline[s] - r.mono)]
  BY DEF Windows
<1>2. PICK t \in now - Stall .. now : r = [wall |-> t, mono |-> Sample(i)]
  BY <1>1 DEF Readings
<1>3. /\ now \in Int /\ i \in Int /\ deadline[s] \in Int
      /\ t \in Int /\ t <= now
  BY <1>2 DEF TypeOK
<1> DEFINE rest == deadline[s] - (now - i)
<1>4. /\ r.wall = t
      /\ deadline[s] - r.mono = rest /\ rest \in Int
  BY <1>2, <1>3 DEF Sample
<1>5. NumericDate(t) \in Int /\ rest \div Second \in Int
  BY <1>3, <1>4 DEF NumericDate
<1> HIDE DEF rest
<1>6. Nominal(rest) \in Int /\ Nominal(rest) + Offset <= rest \div Second
  BY <1>5 DEF Nominal, Least
<1>7. w = [iat |-> NumericDate(t), exp |-> NumericDate(t) + Nominal(rest)]
  BY <1>1, <1>4
<1>8. w.exp + Offset \in Int /\ w.exp + Offset <= (t \div Second) + (rest \div Second)
  BY <1>5, <1>6, <1>7 DEF NumericDate
<1>9. (w.exp + Offset) * Second <= t + rest
  BY <1>3, <1>4, <1>8, FloorSum
<1>10. t + rest <= deadline[s] + i
  BY <1>3 DEF rest
<1>11. (w.exp + Offset) * Second \in Int
  BY <1>8
<1> QED BY <1>3, <1>4, <1>5, <1>6, <1>7, <1>9, <1>10, <1>11

\* A window that is open at a permitted verifier has not ended: not by real
\* time, and so not by its deadline.
LEMMA OpenWindow ==
    ASSUME TypeOK, NEW s \in Session, NEW wall \in VerifierWalls, InWindow(s, wall)
    PROVE  /\ now < (grant[s].exp + Offset) * Second
           /\ NumericDate(now) < RetainThrough(s)
<1> USE TimeAssumption, LeadAssumption
<1>1. now \in Int /\ grant[s].exp \in Int
  BY DEF TypeOK
<1>2. wall \in Int /\ now - Offset * Second <= wall
  BY <1>1 DEF VerifierWalls
<1>3. wall < grant[s].exp * Second
  BY <1>1, <1>2, FloorBelow DEF InWindow, NumericDate
<1>4. (grant[s].exp + Offset) * Second = grant[s].exp * Second + Offset * Second
  BY <1>1
<1>5. grant[s].exp * Second \in Int /\ Offset * Second \in Int
  BY <1>1
<1>6. now < (grant[s].exp + Offset) * Second
  BY <1>1, <1>2, <1>3, <1>4, <1>5
<1> QED BY <1>1, <1>6, FloorBelow DEF NumericDate, RetainThrough

-----------------------------------------------------------------------------
\* The steps of the two sides; each leaves the variables of the other alone.

IssuerStep ==
    \E s \in Session :
      \/ \E i \in Issuer : \/ StartRead(s, i) \/ Bind(s, i) \/ Issue(s, i)
                           \/ ClockFails(s, i)
      \/ \E t \in Session, i \in Issuer : Rebind(s, t, i)
      \/ EndRead(s) \/ StoreReserve(s) \/ Sign(s) \/ Issued(s) \/ Refuse(s)

VerifierStep ==
    \/ \E v \in Verify :
         \/ \E s \in Session : Show(v, s)
         \/ Check(v) \/ StoreConsume(v) \/ Accept(v) \/ Deny(v)
    \/ \E j \in Jti : Prune(j)

\* The issuer's part of the invariant, and its types, at each step of it.
LEMMA IssuerKeeps ==
    ASSUME TypeOK, IssuerInv, IssuerStep
    PROVE  TypeOK' /\ IssuerInv'
<1> USE TimeAssumption, IssuerAssumption, NoneAssumption
<1>1. PICK s \in Session :
        \/ \E i \in Issuer : \/ StartRead(s, i) \/ Bind(s, i) \/ Issue(s, i)
                             \/ ClockFails(s, i)
        \/ \E t \in Session, i \in Issuer : Rebind(s, t, i)
        \/ EndRead(s) \/ StoreReserve(s) \/ Sign(s) \/ Issued(s) \/ Refuse(s)
  BY DEF IssuerStep
<1>2. ASSUME NEW i \in Issuer, StartRead(s, i) PROVE TypeOK' /\ IssuerInv'
  BY <1>2 DEF StartRead, IssuerInv, ReadsBegan, DeadlinesVouched, GrantsBounded,
     IdentifiersReserved, Holding, Drawing, Reserving, Signing, TypeOK, AtIssue,
        Goto, verifying, Sample
<1>3. ASSUME EndRead(s) PROVE TypeOK' /\ IssuerInv'
  <2>1. PICK lifetime \in Lifetime, t \in deadline[s] + owner[s] .. now :
          /\ deadline' = [deadline EXCEPT ![s] = DeadlineFrom(s, lifetime)]
          /\ vouched' = [vouched EXCEPT ![s] = t + lifetime]
    BY <1>3 DEF EndRead
  <2>2. owner[s] \in Int /\ deadline[s] \in Int /\ now \in Int /\ lifetime \in Nat
    BY <1>3 DEF EndRead, IssuerInv, ReadsBegan, TypeOK
  <2>3. /\ deadline[s] + lifetime \in Int /\ t + lifetime \in Int
        /\ (deadline[s] + lifetime) + owner[s] <= t + lifetime
    BY <2>2
  <2>4. /\ deadline' = [deadline EXCEPT ![s] = deadline[s] + lifetime]
        /\ vouched' = [vouched EXCEPT ![s] = t + lifetime]
    BY <2>1 DEF DeadlineFrom
  <2> QED BY <1>3, <2>3, <2>4 DEF EndRead, IssuerInv, ReadsBegan, DeadlinesVouched,
     GrantsBounded, IdentifiersReserved, Holding, Drawing, Reserving, Signing,
        TypeOK, AtIssue, Goto, verifying
<1>4. ASSUME NEW i \in Issuer, Bind(s, i) PROVE TypeOK' /\ IssuerInv'
  BY <1>4 DEF Bind, IssuerInv, ReadsBegan, DeadlinesVouched, GrantsBounded,
     IdentifiersReserved, Holding, Drawing, Reserving, Signing, TypeOK, AtIssue,
        Goto, verifying, Owns
<1>5. ASSUME NEW t \in Session, NEW i \in Issuer, Rebind(s, t, i) PROVE TypeOK' /\ IssuerInv'
  BY <1>5 DEF Rebind, IssuerInv, ReadsBegan, DeadlinesVouched, GrantsBounded,
     IdentifiersReserved, Holding, Drawing, Reserving, Signing, TypeOK, AtIssue,
        Goto, verifying, Owns
<1>6. ASSUME NEW i \in Issuer, Issue(s, i) PROVE TypeOK' /\ IssuerInv'
  BY <1>6 DEF Issue, IssuerInv, ReadsBegan, DeadlinesVouched, GrantsBounded,
     IdentifiersReserved, Holding, Drawing, Reserving, Signing, TypeOK, AtIssue,
        Goto, verifying, Owns
<1>7. ASSUME StoreReserve(s) PROVE TypeOK' /\ IssuerInv'
  BY <1>7 DEF StoreReserve, IssuerInv, ReadsBegan, DeadlinesVouched, GrantsBounded,
     IdentifiersReserved, Holding, Drawing, Reserving, Signing, TypeOK, AtIssue,
        Goto, verifying, MayReserve
<1>8. ASSUME Sign(s) PROVE TypeOK' /\ IssuerInv'
  <2>1. PICK w \in Windows(s, owner[s]) : grant' = [grant EXCEPT ![s] = w]
    BY <1>8 DEF Sign
  <2>2. owner[s] \in Issuer
    BY <1>8 DEF Sign, IssuerInv, DeadlinesVouched, Holding
  <2>3. w \in [iat : Int,
     exp : Int] /\ (w.exp + Offset) * Second <= deadline[s] + owner[s]
    BY <2>2, WindowBounded
  <2> QED BY <1>8, <2>1, <2>3 DEF Sign, IssuerInv, ReadsBegan, DeadlinesVouched,
     GrantsBounded, IdentifiersReserved, Holding, Drawing, Reserving, Signing,
        TypeOK, AtIssue, Goto, verifying
<1>9. ASSUME Issued(s) PROVE TypeOK' /\ IssuerInv'
  BY <1>9 DEF Issued, IssuerInv, ReadsBegan, DeadlinesVouched, GrantsBounded,
     IdentifiersReserved, Holding, Drawing, Reserving, Signing, TypeOK, AtIssue,
        Goto, verifying
<1>10. ASSUME Refuse(s) PROVE TypeOK' /\ IssuerInv'
  BY <1>10 DEF Refuse, IssuerInv, ReadsBegan, DeadlinesVouched, GrantsBounded,
     IdentifiersReserved, Holding, Drawing, Reserving, Signing, TypeOK, AtIssue,
        Goto, verifying, Reject, NoGrant
<1>11. ASSUME NEW i \in Issuer, ClockFails(s, i) PROVE TypeOK' /\ IssuerInv'
  BY <1>11 DEF ClockFails, IssuerInv, ReadsBegan, DeadlinesVouched, GrantsBounded,
     IdentifiersReserved, Holding, Drawing, Reserving, Signing, TypeOK, AtIssue,
        Goto, verifying, Reject, NoGrant
<1> QED BY <1>1, <1>2, <1>3, <1>4, <1>5, <1>6, <1>7, <1>8, <1>9, <1>10, <1>11

\* The issuer's steps leave the verifier's part: what is issued stays so.
LEMMA IssuerLeavesVerifier ==
    ASSUME TypeOK, VerifierInv, IssuerStep
    PROVE  VerifierInv'
<1> USE NoneAssumption
<1>1. UNCHANGED <<now, verifying>>
  BY DEF IssuerStep, StartRead, EndRead, Bind, Rebind, Issue, StoreReserve, Sign,
     Issued, Refuse, ClockFails, Reject
<1>2. \A t \in Session : pc[t] = "issued" =>
        pc'[t] = "issued" /\ jti'[t] = jti[t] /\ grant'[t] = grant[t] /\ vouched'[t] = vouched[t]
  BY DEF IssuerStep, StartRead, EndRead, Bind, Rebind, Issue, StoreReserve, Sign,
     Issued, Refuse, ClockFails, Reject, Goto, TypeOK
<1> QED BY <1>1, <1>2 DEF VerifierInv, ShownIssued, AcceptedInTime, RowsOutlive,
   ConsumedAgainLate, Showing, Consuming, RetainThrough, verifying

\* The verifier's part, and its types, at each step of it.
LEMMA VerifierKeeps ==
    ASSUME TypeOK, IssuerInv, VerifierInv, VerifierStep
    PROVE  TypeOK' /\ IssuerInv' /\ VerifierInv'
<1> USE TimeAssumption, NoneAssumption
<1>1. UNCHANGED <<now, issuing>>
  BY DEF VerifierStep, Show, Check, StoreConsume, Accept, Deny, Prune
<1>2. IssuerInv'
  BY <1>1 DEF IssuerInv, ReadsBegan, DeadlinesVouched, GrantsBounded,
     IdentifiersReserved, issuing
<1>3. \A s \in Session : /\ RetainThrough(s) \in Int
                         /\ RetainThrough(s)' = RetainThrough(s)
                         /\ pc[s] = "issued" => jti[s] \in Jti
  BY <1>1 DEF RetainThrough, TypeOK, issuing, IssuerInv, IdentifiersReserved,
     Drawing
<1>4. \A s, t \in Session :
        pc[s] = "issued" /\ pc[t] = "issued" /\ jti[s] = jti[t] => s = t
  BY DEF IssuerInv, IdentifiersReserved, Reserving
<1>5. NumericDate(now)' = NumericDate(now)
  BY <1>1 DEF NumericDate
<1> HIDE DEF RetainThrough
<1> HIDE DEF NumericDate
<1>6. ASSUME NEW v \in Verify, NEW s \in Session, Show(v, s)
      PROVE  TypeOK' /\ VerifierInv'
  BY <1>1, <1>3, <1>5, <1>6 DEF Show, VerifierInv, ShownIssued, AcceptedInTime,
     RowsOutlive, ConsumedAgainLate, Showing, Consuming, TypeOK, AtVerify, issuing
<1>7. ASSUME NEW v \in Verify, Check(v)
      PROVE  TypeOK' /\ VerifierInv'
  BY <1>1, <1>3, <1>5, <1>7 DEF Check, VerifierInv, ShownIssued, AcceptedInTime,
     RowsOutlive, ConsumedAgainLate, Showing, Consuming, TypeOK, AtVerify, issuing
<1>8. ASSUME NEW v \in Verify, StoreConsume(v)
      PROVE  TypeOK' /\ VerifierInv'
  <2>1. shown[v] \in Session /\ pc[shown[v]] = "issued" /\ jti[shown[v]] \in Jti
    BY <1>3, <1>8 DEF StoreConsume, VerifierInv, ShownIssued, Showing
  <2>2. spent[jti[shown[v]]] = None
    BY <1>8 DEF StoreConsume, Unspent
  <2>3. /\ spent' = [spent EXCEPT ![jti[shown[v]]] = RetainThrough(shown[v])]
        /\ vpc' = [vpc EXCEPT ![v] = "inserted"]
        /\ UNCHANGED <<now, issuing, shown, accepted>>
    BY <1>8 DEF StoreConsume
  <2>4. TypeOK' /\ ShownIssued' /\ AcceptedInTime'
    BY <1>3, <2>1, <2>3, <1>8 DEF StoreConsume, VerifierInv, ShownIssued,
       AcceptedInTime, Showing, TypeOK, AtVerify, issuing
  <2>5. \A u \in Verify : vpc[u] \in Consuming =>
          shown[u] \in Session /\ pc[shown[u]] = "issued" /\ jti[shown[u]] \in Jti
    BY <1>3 DEF VerifierInv, ShownIssued, Showing, Consuming
  <2>6. RowsOutlive'
    BY <1>1, <1>3, <1>4, <1>5, <2>1, <2>3, <2>5 DEF VerifierInv, RowsOutlive,
       Consuming, TypeOK, issuing
  <2>7. ConsumedAgainLate'
    BY <1>1, <1>3, <1>4, <1>5, <2>1, <2>2, <2>3, <2>5 DEF VerifierInv, RowsOutlive,
       ConsumedAgainLate, Consuming, TypeOK, issuing
  <2> QED BY <2>4, <2>6, <2>7 DEF VerifierInv
<1>9. ASSUME NEW v \in Verify, Accept(v)
      PROVE  TypeOK' /\ VerifierInv'
  <2>1. shown[v] \in Session /\ pc[shown[v]] = "issued"
    BY <1>9 DEF Accept, VerifierInv, ShownIssued, Showing
  <2>2. /\ now < (grant[shown[v]].exp + Offset) * Second
        /\ NumericDate(now) < RetainThrough(shown[v])
    BY <1>9, <2>1, OpenWindow DEF Accept, WindowAgain
  <2>3. (grant[shown[v]].exp + Offset) * Second <= vouched[shown[v]]
    <3>1. /\ (grant[shown[v]].exp + Offset) * Second <= deadline[shown[v]] + owner[shown[v]]
          /\ deadline[shown[v]] + owner[shown[v]] <= vouched[shown[v]]
          /\ owner[shown[v]] \in Int
      BY <2>1, IssuerAssumption DEF IssuerInv, GrantsBounded, DeadlinesVouched,
         Signing, Holding
    <3>2. /\ grant[shown[v]].exp \in Int /\ deadline[shown[v]] \in Int
          /\ vouched[shown[v]] \in Int
      BY <2>1 DEF TypeOK
    <3>3. (grant[shown[v]].exp + Offset) * Second \in Int
      BY <3>2
    <3> QED BY <3>1, <3>2, <3>3
  <2>4. now \in Int /\ now < vouched[shown[v]]
    <3>1. /\ grant[shown[v]].exp \in Int /\ now \in Int /\ vouched[shown[v]] \in Int
      BY <2>1 DEF TypeOK
    <3>2. (grant[shown[v]].exp + Offset) * Second \in Int
      BY <3>1
    <3> QED BY <2>2, <2>3, <3>1, <3>2
  <2>5. /\ accepted' = [accepted EXCEPT ![v] = now]
        /\ vpc' = [vpc EXCEPT ![v] = "accepted"]
        /\ vpc[v] = "inserted"
        /\ UNCHANGED <<now, issuing, shown, spent>>
    BY <1>9 DEF Accept
  <2>6. TypeOK' /\ ShownIssued' /\ AcceptedInTime' /\ RowsOutlive'
    BY <1>3, <1>5, <2>1, <2>4, <2>5 DEF VerifierInv, ShownIssued, AcceptedInTime,
       RowsOutlive, Showing, Consuming, TypeOK, AtVerify, issuing
  <2>7. NumericDate(now) \in Int
    BY <2>4 DEF NumericDate
  <2>8. ConsumedAgainLate'
    <3>1. RetainThrough(shown[v]) \in Int /\ ~(NumericDate(now) > RetainThrough(shown[v]))
      BY <1>3, <2>1, <2>2, <2>7
    <3>2. \A u \in Verify : u # v /\ vpc[u] \in Consuming => shown[u] # shown[v]
      BY <2>5, <3>1 DEF VerifierInv, ConsumedAgainLate, Consuming
    <3>3. \A u \in Verify : vpc[u] \in Consuming => shown[u] \in Session
      BY DEF VerifierInv, ShownIssued, Showing, Consuming
    <3> QED BY <1>3, <1>5, <2>5, <3>2, <3>3 DEF VerifierInv, ConsumedAgainLate,
       Consuming, TypeOK
  <2> QED BY <2>6, <2>8 DEF VerifierInv
<1>10. ASSUME NEW v \in Verify, Deny(v)
      PROVE  TypeOK' /\ VerifierInv'
  BY <1>1, <1>3, <1>5, <1>10 DEF Deny, VerifierInv, ShownIssued, AcceptedInTime,
     RowsOutlive, ConsumedAgainLate, Showing, Consuming, TypeOK, AtVerify, issuing
<1>11. ASSUME NEW j \in Jti, Prune(j)
      PROVE  TypeOK' /\ VerifierInv'
  BY <1>1, <1>3, <1>5, <1>11 DEF Prune, VerifierInv, ShownIssued, AcceptedInTime,
     RowsOutlive, ConsumedAgainLate, Showing, Consuming, TypeOK, issuing
<1> QED BY <1>2, <1>6, <1>7, <1>8, <1>9, <1>10, <1>11 DEF VerifierStep

\* Time passes: what was begun stays begun, what had expired stays expired.
LEMMA TickKeeps ==
    ASSUME GInv, Tick
    PROVE  GInv'
<1> USE TimeAssumption
<1>1. now \in Int /\ now' = now + 1 /\ UNCHANGED <<issuing, verifying>>
  BY DEF Tick, GInv, TypeOK
<1>2. NumericDate(now) \in Int /\ NumericDate(now') \in Int
      /\ NumericDate(now) <= NumericDate(now')
  BY <1>1, FloorMonotone, FloorBelow DEF NumericDate
<1>3. TypeOK'
  BY <1>1 DEF GInv, TypeOK, issuing, verifying
<1>4. IssuerInv'
  <2>1. \A s \in Session : pc[s] = "reading" =>
          owner[s] \in Int /\ deadline[s] \in Int
    BY IssuerAssumption DEF GInv, TypeOK, IssuerInv, ReadsBegan
  <2>2. ReadsBegan'
    BY <1>1, <2>1 DEF GInv, IssuerInv, ReadsBegan, issuing
  <2> QED BY <1>1, <2>2 DEF GInv, IssuerInv, DeadlinesVouched, GrantsBounded,
     IdentifiersReserved, issuing
<1>5. VerifierInv'
  <2>1. \A v \in Verify : vpc[v] \in Consuming => RetainThrough(shown[v]) \in Int
    BY DEF GInv, TypeOK, VerifierInv, ShownIssued, Showing, Consuming, RetainThrough
  <2>2. \A v \in Verify : RetainThrough(shown[v])' = RetainThrough(shown[v])
    BY <1>1 DEF RetainThrough, issuing, verifying
  <2> HIDE DEF NumericDate
  <2>3. NumericDate(now)' = NumericDate(now')
    BY DEF NumericDate
  <2> QED BY <1>1, <1>2, <2>1, <2>2, <2>3 DEF GInv, VerifierInv, ShownIssued,
     AcceptedInTime, RowsOutlive, ConsumedAgainLate, Showing, Consuming, issuing,
        verifying
<1> QED BY <1>3, <1>4, <1>5 DEF GInv

\* The invariant holds at the start.
LEMMA InitGInv == Init => GInv
<1> USE TimeAssumption, IssuerAssumption, NoneAssumption DEF Init
<1>1. Init => TypeOK
  BY DEF TypeOK, AtIssue, AtVerify, NoGrant
<1>2. Init => IssuerInv
  BY DEF IssuerInv, ReadsBegan, DeadlinesVouched, GrantsBounded,
     IdentifiersReserved, Holding, Drawing, Reserving, Signing
<1>3. Init => VerifierInv
  BY DEF VerifierInv, ShownIssued, AcceptedInTime, RowsOutlive, ConsumedAgainLate,
     Showing, Consuming
<1> QED BY <1>1, <1>2, <1>3 DEF GInv

\* Every step keeps the invariant.
LEMMA NextGInv == GInv /\ [Next]_vars => GInv'
<1> SUFFICES ASSUME GInv, [Next]_vars PROVE GInv'
  OBVIOUS
<1>1. CASE Tick
  BY <1>1, TickKeeps
<1>2. CASE IssuerStep
  BY <1>2, IssuerKeeps, IssuerLeavesVerifier DEF GInv
<1>3. CASE VerifierStep
  BY <1>3, VerifierKeeps DEF GInv
<1>4. CASE UNCHANGED vars
  <2>1. TypeOK'
    BY <1>4 DEF GInv, TypeOK, vars, issuing, verifying
  <2>2. IssuerInv'
    BY <1>4 DEF GInv, IssuerInv, ReadsBegan, DeadlinesVouched, GrantsBounded,
       IdentifiersReserved, vars, issuing, verifying
  <2>3. VerifierInv'
    BY <1>4 DEF GInv, VerifierInv, ShownIssued, AcceptedInTime, RowsOutlive,
       ConsumedAgainLate, RetainThrough, NumericDate, vars, issuing, verifying
  <2> QED BY <2>1, <2>2, <2>3 DEF GInv
<1>5. Next => Tick \/ IssuerStep \/ VerifierStep
  BY DEF Next, IssuerStep, VerifierStep
<1> QED BY <1>1, <1>2, <1>3, <1>4, <1>5

\* It holds throughout.
LEMMA Invariant == Spec => []GInv
<1> QED BY InitGInv, NextGInv, PTL DEF Spec

\* Sessions, verifications and the two tables keep their types.
THEOREM Typed == Spec => []TypeOK
<1>1. GInv => TypeOK
  BY DEF GInv
<1> QED BY <1>1, Invariant, PTL

\* However long every await takes, and however slow the verifier within its
\* permitted offset, no grant is accepted after its source's promise.
THEOREM GrantsDieWithTheirSource == Spec => []GrantDiesWithItsSource
<1>1. GInv => GrantDiesWithItsSource
  BY DEF GInv, VerifierInv, AcceptedInTime, GrantDiesWithItsSource
<1> QED BY <1>1, Invariant, PTL

\* No two verifications accept one grant, also when its replay row is dropped
\* after its retention.
THEOREM GrantsConsumedOnce == Spec => []ConsumedOnce
<1>1. GInv => ConsumedOnce
  BY DEF GInv, VerifierInv, ConsumedAgainLate, Consuming, ConsumedOnce
<1> QED BY <1>1, Invariant, PTL

\* Signed grants have identifiers of their own, whoever issued them.
THEOREM IdentifiersUnique == Spec => []IdentifiersAreUnique
<1>1. GInv => IdentifiersAreUnique
  BY DEF GInv, IssuerInv, IdentifiersReserved, Reserving, IdentifiersAreUnique
<1> QED BY <1>1, Invariant, PTL

\* A dead clock lets no call of its issuer advance, those in flight included.
THEOREM DeadClocksIssueNothing == Spec => DeadClockIssuesNothing
<1> DEFINE Advance ==
             \A s \in Session :
               pc'[s] # pc[s] /\ pc'[s] \in {"bound", "reserving", "signing",
                  "issued"}
                 => ~failed[owner'[s]]
<1>1. GInv /\ [Next]_vars => [Advance]_vars
  <2> SUFFICES ASSUME GInv, Next PROVE Advance
    OBVIOUS
  <2>1. CASE Tick
    BY <2>1 DEF Tick, issuing
  <2>2. CASE VerifierStep
    BY <2>2 DEF VerifierStep, Show, Check, StoreConsume, Accept, Deny, Prune,
       issuing
  <2>3. CASE IssuerStep
    <3>1. \A s \in Session, i \in Issuer : Windows(s, i) # {} => ~failed[i]
      BY DEF Windows, Live
    <3>2. \A s \in Session : pc[s] \in {"reserved",
       "signing"} => owner[s] \in Issuer
      BY DEF GInv, IssuerInv, DeadlinesVouched, Holding
    <3> QED BY <2>3, <3>1, <3>2 DEF GInv, TypeOK, IssuerStep, StartRead, EndRead,
       Bind, Rebind, Issue, StoreReserve, Sign, Issued, Refuse, ClockFails, Reject,
          Goto
  <2>4. Next => Tick \/ IssuerStep \/ VerifierStep
    BY DEF Next, IssuerStep, VerifierStep
  <2> QED BY <2>1, <2>2, <2>3, <2>4
<1> QED BY <1>1, Invariant, PTL DEF Spec, DeadClockIssuesNothing

=============================================================================
