-------------------------- MODULE JwksCacheProofs --------------------------
(***************************************************************************)
(* The properties of JwksCache for every number of verifiers, set of key   *)
(* ids, ages and cooldown.  A set is counted from before it was served, so *)
(* its age at a verifier never understates; and no caller's stale sample   *)
(* precedes the refresh it waited for, so the cooldown never moves back    *)
(* behind the refresh that last began it.                                  *)
(***************************************************************************)
EXTENDS JwksCache, TLAPS

\* What the cache holds, or is about to, was served after its age began.
SetsServed ==
    /\ keys # None =>
         /\ loaded \in Nat /\ served \in Nat
         /\ loaded <= served /\ served <= now
    /\ flight # None =>
         /\ flight.start <= now
         /\ flight.body # None =>
              /\ flight.start <= flight.served /\ flight.served <= now
              /\ keys # None => served <= flight.served

\* The shared age is no longer than any verifier's own.
AgesTight ==
    \A v \in Verifier : pc[v] # "new" =>
      age[v] \in Nat /\ maxAge \in Nat /\ maxAge <= age[v]

\* A key in use came from the set held, or from one that set replaced.
KeysFollowSets ==
    \A v \in Verifier : pc[v] \in {"resolved", "checked"} /\ ~dead =>
      keys # None /\ ask[v].from \in Nat /\ ask[v].from <= served

AcceptedFresh ==
    \A v \in Verifier : pc[v] = "accepted" =>
      /\ accepted[v].at - accepted[v].held < age[v]
      /\ accepted[v].from <= accepted[v].held

\* A dead domain holds no keys.
DeadHoldsNothing == dead => keys = None

\* The cooldown covers the last refresh for an unknown key id, and who waits
\* for a refresh sampled its clock after it began.
CooldownCovers ==
    /\ begun # None => begun <= now /\ begun + Cooldown <= next
    /\ begun # None /\ flight # None => begun <= flight.start
    /\ \A v \in Verifier : pc[v] = "waiting" =>
         flight # None /\ flight.start <= ask[v].at
    /\ \A v \in Verifier : pc[v] = "woken" /\ begun # None => begun <= ask[v].at

CInv == /\ SetsServed
        /\ AgesTight
        /\ KeysFollowSets
        /\ AcceptedFresh
        /\ DeadHoldsNothing
        /\ CooldownCovers
JInv == TypeOK /\ CInv

-----------------------------------------------------------------------------
\* Every step keeps the types.
LEMMA NextTyped == JInv /\ [Next]_vars => TypeOK'
<1> SUFFICES ASSUME JInv, [Next]_vars PROVE TypeOK'
  OBVIOUS
<1> USE AgeAssumption, NoneAssumption DEF JInv
<1>1. ASSUME NEW v \in Verifier, Construct(v) PROVE TypeOK'
  BY <1>1 DEF Construct, TypeOK, Where, Ask, NoAsk, Flight, Goto, Quiet, endpoint,
     cache, calls, Tightened
<1>2. ASSUME NEW v \in Verifier, NEW k \in Kid, Resolve(v, k) PROVE TypeOK'
  <2>1. /\ now \in Nat /\ Fresh \in BOOLEAN /\ Has(k) \in BOOLEAN
        /\ served \in Nat \cup {None}
    BY DEF Fresh, Has, TypeOK
  <2>2. pc' \in [Verifier -> Where]
    BY <1>2 DEF Resolve, TypeOK, Where, Goto, End
  <2>3. ask' \in [Verifier -> Ask]
    <3>1. NoAsk \in Ask
      BY DEF NoAsk, Ask
    <3>2. [kid |-> k, at |-> now, fresh |-> TRUE, known |-> TRUE,
          from |-> served] \in Ask
      BY <2>1 DEF Ask
    <3>3. [kid |-> k, at |-> now, fresh |-> Fresh, known |-> Has(k),
          from |-> None] \in Ask
      BY <2>1 DEF Ask
    <3> HIDE DEF Fresh, Has
    <3>4. \/ ask' = [ask EXCEPT ![v] = NoAsk]
          \/ ask' = [ask EXCEPT ![v] = [kid |-> k, at |-> now, fresh |-> TRUE,
                                       known |-> TRUE, from |-> served]]
          \/ ask' = [ask EXCEPT ![v] = [kid |-> k, at |-> now, fresh |-> Fresh,
                                       known |-> Has(k), from |-> None]]
      BY <1>2 DEF Resolve, End
    <3>5. \E x \in Ask : ask' = [ask EXCEPT ![v] = x]
      BY <3>1, <3>2, <3>3, <3>4
    <3>6. ask \in [Verifier -> Ask]
      BY DEF TypeOK
    <3> QED BY <3>5, <3>6
  <2>4. /\ next' \in Nat /\ begun' \in Nat \cup {None}
        /\ flight' \in Flight \cup {None}
    <3>1. [start |-> now, body |-> None, served |-> 0] \in Flight
      BY <2>1 DEF Flight
    <3>2. CooldownSet \in Nat
      BY <2>1 DEF CooldownSet
    <3> HIDE DEF Fresh, Has, CooldownSet
    <3> QED BY <1>2, <2>1, <3>1, <3>2 DEF Resolve, Refresh, TypeOK
  <2>5. UNCHANGED <<now, endpoint, keys, loaded, served, maxAge, dead, age, accepted>>
    BY <1>2 DEF Resolve
  <2> QED BY <2>2, <2>3, <2>4, <2>5 DEF TypeOK, endpoint
<1>3. ASSUME Serve PROVE TypeOK'
  BY <1>3 DEF Serve, TypeOK, Where, Ask, NoAsk, Flight, Goto, Quiet, endpoint,
     cache, calls
<1>4. ASSUME Land PROVE TypeOK'
  BY <1>4 DEF Land, TypeOK, Where, Ask, NoAsk, Flight, Goto, Quiet, endpoint,
     cache, calls, LoadedAt, Wake
<1>5. ASSUME LandFailed PROVE TypeOK'
  BY <1>5 DEF LandFailed, TypeOK, Where, Ask, NoAsk, Flight, Goto, Quiet, endpoint,
     cache, calls, Wake
<1>6. ASSUME NEW v \in Verifier, Woken(v) PROVE TypeOK'
  <2>1. ask[v].at + Cooldown \in Nat
    BY DEF TypeOK, Ask
  <2>2. next' \in Nat
    BY <1>6, <2>1 DEF Woken, TypeOK
  <2>3. pc' \in [Verifier -> Where]
    BY <1>6 DEF Woken, TypeOK, Where, Goto, End
  <2>4. ask' \in [Verifier -> Ask]
    <3>1. NoAsk \in Ask
      BY DEF NoAsk, Ask
    <3>2. ask[v] \in Ask /\ served \in Nat \cup {None}
      BY DEF TypeOK
    <3>3. [ask[v] EXCEPT !.from = served] \in Ask
      BY <3>2 DEF Ask
    <3>4. \/ ask' = [ask EXCEPT ![v] = NoAsk]
          \/ ask' = [ask EXCEPT ![v] = [ask[v] EXCEPT !.from = served]]
      BY <1>6 DEF Woken, End
    <3> QED BY <3>1, <3>3, <3>4 DEF TypeOK
  <2>5. UNCHANGED <<now, endpoint, keys, loaded, served, maxAge, dead, flight, begun,
                    age, accepted>>
    BY <1>6 DEF Woken
  <2> QED BY <2>2, <2>3, <2>4, <2>5 DEF TypeOK, endpoint
<1>7. ASSUME NEW v \in Verifier, Failing(v) PROVE TypeOK'
  BY <1>7 DEF Failing, TypeOK, Where, Ask, NoAsk, Flight, Goto, Quiet, endpoint,
     cache, calls, End
<1>8. ASSUME NEW v \in Verifier, Check(v) PROVE TypeOK'
  BY <1>8 DEF Check, TypeOK, Where, Ask, NoAsk, Flight, Goto, Quiet, endpoint,
     cache, calls
<1>9. ASSUME NEW v \in Verifier, Accept(v) PROVE TypeOK'
  <2>1. served \in Nat /\ ask[v].from \in Nat
    BY <1>9 DEF Accept, Fresh, JInv, CInv, SetsServed, KeysFollowSets
  <2>2. NoAsk \in Ask
    BY DEF NoAsk, Ask
  <2>3. [at |-> now, from |-> ask[v].from, held |-> served] \in Acceptance
    BY <2>1 DEF TypeOK, Acceptance
  <2>4. /\ pc' \in [Verifier -> Where] /\ ask' \in [Verifier -> Ask]
        /\ accepted' \in [Verifier -> Acceptance \cup {None}]
    BY <1>9, <2>2, <2>3 DEF Accept, TypeOK, Where, Goto
  <2>5. UNCHANGED <<now, endpoint, cache, age>>
    BY <1>9 DEF Accept
  <2> QED BY <2>4, <2>5 DEF TypeOK, endpoint, cache
<1>10. ASSUME NEW v \in Verifier, Again(v) PROVE TypeOK'
  BY <1>10 DEF Again, TypeOK, Where, Ask, NoAsk, Flight, Goto, Quiet, endpoint,
     cache, calls, End
<1>11. ASSUME NEW v \in Verifier, Deny(v) PROVE TypeOK'
  BY <1>11 DEF Deny, TypeOK, Where, Ask, NoAsk, Flight, Goto, Quiet, endpoint,
     cache, calls, End
<1>12. ASSUME NEW v \in Verifier, ClockFails(v) PROVE TypeOK'
  <2>1. NoAsk \in Ask
    BY DEF NoAsk, Ask
  <2>2. /\ pc' \in [Verifier -> Where] /\ ask' \in [Verifier -> Ask]
        /\ dead' \in BOOLEAN
        /\ keys' = None /\ loaded' = None /\ served' = None
    BY <1>12, <2>1 DEF ClockFails, TypeOK, Where, Goto, End
  <2>3. UNCHANGED <<now, endpoint, maxAge, next, flight, begun, age, accepted>>
    BY <1>12 DEF ClockFails
  <2> QED BY <2>2, <2>3 DEF TypeOK, endpoint
<1>13. ASSUME NEW k \in Kid, Publish(k) PROVE TypeOK'
  BY <1>13 DEF Publish, TypeOK, Where, Ask, NoAsk, Flight, Goto, Quiet, endpoint,
     cache, calls
<1>14. ASSUME NEW k \in Kid, Withdraw(k) PROVE TypeOK'
  BY <1>14 DEF Withdraw, TypeOK, Where, Ask, NoAsk, Flight, Goto, Quiet, endpoint,
     cache, calls
<1>15. ASSUME Tick PROVE TypeOK'
  BY <1>15 DEF Tick, TypeOK, Where, Ask, NoAsk, Flight, Goto, Quiet, endpoint,
     cache, calls
<1>16. CASE UNCHANGED vars
  BY <1>16 DEF TypeOK, vars, endpoint, cache, calls
<1> QED BY <1>1, <1>2, <1>3, <1>4, <1>5, <1>6, <1>7, <1>8, <1>9, <1>10, <1>11,
   <1>12, <1>13, <1>14, <1>15, <1>16 DEF Next

\* Every step keeps the invariant.
LEMMA NextCInv == JInv /\ [Next]_vars => CInv'
<1> SUFFICES ASSUME JInv, [Next]_vars PROVE CInv'
  OBVIOUS
<1> USE AgeAssumption, NoneAssumption DEF JInv
<1>1. ASSUME NEW v \in Verifier, Construct(v) PROVE CInv'
  BY <1>1 DEF Construct, CInv, SetsServed, AgesTight, KeysFollowSets, AcceptedFresh,
     DeadHoldsNothing, CooldownCovers, TypeOK, Where, Ask, NoAsk, Flight, Goto,
        Quiet, endpoint, cache, calls, Tightened
<1>2. ASSUME NEW v \in Verifier, NEW k \in Kid, Resolve(v, k) PROVE CInv'
  <2>1. /\ now \in Nat /\ next \in Nat /\ Cooldown \in Nat
        /\ begun \in Nat \cup {None} /\ flight \in Flight \cup {None}
        /\ \A u \in Verifier : ask[u].at \in Nat
    BY DEF TypeOK, Ask
  <2>2. /\ UNCHANGED <<now, endpoint, keys, loaded, served, maxAge, dead, age, accepted>>
        /\ Quiet /\ pc[v] = "idle"
    BY <1>2 DEF Resolve
  <2>3. /\ pc' = [pc EXCEPT ![v] = pc'[v]]
        /\ pc'[v] \in {"resolved", "idle", "waiting"}
        /\ \A u \in Verifier : u # v => ask'[u] = ask[u]
    BY <1>2 DEF Resolve, Goto, End, TypeOK
  <2>4. \/ /\ UNCHANGED <<next, flight, begun>>
           /\ pc'[v] # "waiting"
        \/ /\ next' \in {now + Cooldown, next}
           /\ begun' = begun \/ (begun' = now /\ flight = None /\ next' = now + Cooldown)
           /\ flight' = IF flight = None THEN [start |-> now, body |-> None, served |-> 0]
                                         ELSE flight
           /\ ask'[v].at = now
    BY <1>2 DEF Resolve, Goto, End, TypeOK, CooldownSet, Refresh
  <2>5. [start |-> now, body |-> None, served |-> 0] \in Flight
    BY <2>1 DEF Flight
  <2>6. SetsServed'
    BY <2>1, <2>2, <2>4 DEF CInv, SetsServed
  <2>7. AgesTight' /\ AcceptedFresh' /\ DeadHoldsNothing'
    BY <2>2, <2>3 DEF CInv, AgesTight, AcceptedFresh, DeadHoldsNothing, TypeOK
  <2>8. KeysFollowSets'
    <3>1. pc'[v] = "resolved" => keys # None /\ ask'[v].from = served
      BY <1>2 DEF Resolve, Goto, End, TypeOK, Has
    <3>2. keys # None => served \in Nat
      BY DEF CInv, SetsServed
    <3> QED BY <2>2, <2>3, <3>1, <3>2 DEF CInv, KeysFollowSets, TypeOK
  <2>9. CooldownCovers'
    <3>1. CASE UNCHANGED <<next, flight, begun>> /\ pc'[v] # "waiting"
      BY <2>2, <2>3, <3>1 DEF CInv, CooldownCovers, TypeOK, Quiet
    <3>2. CASE /\ next' \in {now + Cooldown, next}
               /\ begun' = begun \/ (begun' = now /\ flight = None /\ next' = now + Cooldown)
               /\ flight' = IF flight = None THEN [start |-> now, body |-> None, served |-> 0]
                                             ELSE flight
               /\ ask'[v].at = now
      <4>1. flight' # None /\ flight'.start <= now
        BY <2>1, <2>5, <3>2 DEF CInv, SetsServed
      <4>2. /\ begun' # None => begun' <= now /\ begun' + Cooldown <= next'
            /\ begun' # None => begun' <= flight'.start
        BY <2>1, <3>2 DEF CInv, CooldownCovers
      <4>3. \A u \in Verifier : pc'[u] = "waiting" => flight'.start <= ask'[u].at
        <5> SUFFICES ASSUME NEW u \in Verifier, pc'[u] = "waiting"
                     PROVE  flight'.start <= ask'[u].at
          OBVIOUS
        <5>1. CASE u = v
          BY <3>2, <4>1, <5>1
        <5>2. CASE u # v
          BY <2>3, <3>2, <5>2 DEF CInv, CooldownCovers, TypeOK
        <5> QED BY <5>1, <5>2
      <4>4. \A u \in Verifier : pc'[u] # "woken"
        BY <2>2, <2>3 DEF Quiet, TypeOK
      <4> QED BY <2>2, <4>1, <4>2, <4>3, <4>4 DEF CooldownCovers
    <3> QED BY <2>4, <3>1, <3>2
  <2> QED BY <2>6, <2>7, <2>8, <2>9 DEF CInv
<1>3. ASSUME Serve PROVE CInv'
  <2>1. /\ flight # None /\ flight \in Flight /\ now \in Nat
        /\ flight' = [flight EXCEPT !.body = live, !.served = now]
        /\ UNCHANGED <<now, keys, loaded, served, maxAge, dead, next, begun, age>>
        /\ UNCHANGED <<pc, ask, accepted>>
    BY <1>3 DEF Serve, calls, TypeOK
  <2>2. flight'.start = flight.start /\ flight'.served = now /\ flight.start \in Nat
    BY <2>1 DEF Flight
  <2>3. flight' \in Flight
    BY <2>1 DEF Flight, TypeOK
  <2>4. SetsServed'
    BY <2>1, <2>2 DEF CInv, SetsServed
  <2>5. CooldownCovers'
    BY <2>1, <2>2, <2>3 DEF CInv, CooldownCovers
  <2> QED BY <2>1, <2>4, <2>5 DEF CInv, AgesTight, KeysFollowSets,
     AcceptedFresh, DeadHoldsNothing
<1>4. ASSUME Land PROVE CInv'
  BY <1>4 DEF Land, CInv, SetsServed, AgesTight, KeysFollowSets,
     AcceptedFresh, DeadHoldsNothing,
     CooldownCovers, TypeOK, Where, Ask, NoAsk, Flight, Goto, Quiet, endpoint,
        cache, calls, LoadedAt, Wake, MayPublish
<1>5. ASSUME LandFailed PROVE CInv'
  BY <1>5 DEF LandFailed, CInv, SetsServed, AgesTight, KeysFollowSets,
     AcceptedFresh,
     DeadHoldsNothing, CooldownCovers, TypeOK, Where, Ask, NoAsk, Flight, Goto,
        Quiet, endpoint, cache, calls, Wake
<1>6. ASSUME NEW v \in Verifier, Woken(v) PROVE CInv'
  <2>1. /\ UNCHANGED <<now, endpoint, keys, loaded, served, maxAge, dead, flight, begun,
                       age, accepted>>
        /\ pc[v] = "woken"
        /\ pc' = [pc EXCEPT ![v] = pc'[v]] /\ pc'[v] \in {"resolved", "idle"}
        /\ \A u \in Verifier : u # v => ask'[u] = ask[u]
        /\ next' \in {next, ask[v].at + Cooldown}
    BY <1>6 DEF Woken, Goto, End, TypeOK
  <2>2. /\ ask[v].at \in Nat /\ begun \in Nat \cup {None} /\ next \in Nat
        /\ Cooldown \in Nat
    BY DEF TypeOK, Ask
  <2>3. begun # None => begun + Cooldown <= next'
    BY <2>1, <2>2 DEF CInv, CooldownCovers
  <2>4. CooldownCovers'
    BY <2>1, <2>3 DEF CInv, CooldownCovers, TypeOK
  <2>5. KeysFollowSets'
    <3>1. pc'[v] = "resolved" => keys # None /\ ask'[v].from = served
      BY <1>6 DEF Woken, Goto, End, TypeOK, Has, Ask
    <3>2. keys # None => served \in Nat
      BY DEF CInv, SetsServed
    <3> QED BY <2>1, <3>1, <3>2 DEF CInv, KeysFollowSets, TypeOK
  <2> QED BY <2>1, <2>4, <2>5 DEF CInv, SetsServed, AgesTight, AcceptedFresh,
                                  DeadHoldsNothing, TypeOK
<1>7. ASSUME NEW v \in Verifier, Failing(v) PROVE CInv'
  BY <1>7 DEF Failing, CInv, SetsServed, AgesTight, KeysFollowSets, AcceptedFresh,
     DeadHoldsNothing, CooldownCovers, TypeOK, Where, Ask, NoAsk, Flight, Goto,
        Quiet, endpoint, cache, calls, End
<1>8. ASSUME NEW v \in Verifier, Check(v) PROVE CInv'
  BY <1>8 DEF Check, CInv, SetsServed, AgesTight, KeysFollowSets,
     AcceptedFresh, DeadHoldsNothing,
     CooldownCovers, TypeOK, Where, Ask, NoAsk, Flight, Goto, Quiet, endpoint,
        cache, calls
<1>9. ASSUME NEW v \in Verifier, Accept(v) PROVE CInv'
  BY <1>9 DEF Accept, CInv, SetsServed, AgesTight, KeysFollowSets,
     AcceptedFresh, DeadHoldsNothing,
     CooldownCovers, TypeOK, Where, Ask, NoAsk, Flight, Goto, Quiet, endpoint,
        cache, calls, Fresh
<1>10. ASSUME NEW v \in Verifier, Again(v) PROVE CInv'
  BY <1>10 DEF Again, CInv, SetsServed, AgesTight, KeysFollowSets,
     AcceptedFresh, DeadHoldsNothing,
     CooldownCovers, TypeOK, Where, Ask, NoAsk, Flight, Goto, Quiet, endpoint,
        cache, calls, End
<1>11. ASSUME NEW v \in Verifier, Deny(v) PROVE CInv'
  BY <1>11 DEF Deny, CInv, SetsServed, AgesTight, KeysFollowSets,
     AcceptedFresh, DeadHoldsNothing,
     CooldownCovers, TypeOK, Where, Ask, NoAsk, Flight, Goto, Quiet, endpoint,
        cache, calls, End
<1>12. ASSUME NEW v \in Verifier, ClockFails(v) PROVE CInv'
  BY <1>12 DEF ClockFails, CInv, SetsServed, AgesTight, KeysFollowSets,
     AcceptedFresh,
     DeadHoldsNothing, CooldownCovers, TypeOK, Where, Ask, NoAsk, Flight, Goto,
        Quiet, endpoint, cache, calls, End
<1>13. ASSUME NEW k \in Kid, Publish(k) PROVE CInv'
  BY <1>13 DEF Publish, CInv, SetsServed, AgesTight, KeysFollowSets, AcceptedFresh,
     DeadHoldsNothing, CooldownCovers, TypeOK, Where, Ask, NoAsk, Flight, Goto,
        Quiet, endpoint, cache, calls
<1>14. ASSUME NEW k \in Kid, Withdraw(k) PROVE CInv'
  BY <1>14 DEF Withdraw, CInv, SetsServed, AgesTight, KeysFollowSets, AcceptedFresh,
     DeadHoldsNothing, CooldownCovers, TypeOK, Where, Ask, NoAsk, Flight, Goto,
        Quiet, endpoint, cache, calls
<1>15. ASSUME Tick PROVE CInv'
  BY <1>15 DEF Tick, CInv, SetsServed, AgesTight, KeysFollowSets,
     AcceptedFresh, DeadHoldsNothing,
     CooldownCovers, TypeOK, Where, Ask, NoAsk, Flight, Goto, Quiet, endpoint,
        cache, calls
<1>16. CASE UNCHANGED vars
  BY <1>16 DEF CInv, SetsServed, AgesTight, KeysFollowSets,
     AcceptedFresh, DeadHoldsNothing,
     CooldownCovers, vars, endpoint, cache, calls
<1> QED BY <1>1, <1>2, <1>3, <1>4, <1>5, <1>6, <1>7, <1>8, <1>9, <1>10, <1>11,
   <1>12, <1>13, <1>14, <1>15, <1>16 DEF Next

\* The invariant holds throughout.
LEMMA Invariant == Spec => []JInv
<1>1. Init => TypeOK /\ CInv
  <2> SUFFICES ASSUME Init PROVE TypeOK /\ CInv
    OBVIOUS
  <2>1. NoAsk \in Ask
    BY DEF NoAsk, Ask
  <2>2. TypeOK
    BY <2>1, AgeAssumption, NoneAssumption DEF Init, TypeOK, Where
  <2>3. CInv
    BY AgeAssumption, NoneAssumption
       DEF Init, CInv, SetsServed, AgesTight, KeysFollowSets,
     AcceptedFresh, DeadHoldsNothing, CooldownCovers
  <2> QED BY <2>2, <2>3
<1>2. JInv /\ [Next]_vars => JInv'
  BY NextTyped, NextCInv DEF JInv
<1> QED BY <1>1, <1>2, PTL DEF Spec, JInv

\* The cache, its verifiers and the fetch in flight keep their types.
THEOREM Typed == Spec => []TypeOK
<1>1. JInv => TypeOK
  BY DEF JInv
<1> QED BY <1>1, Invariant, PTL

\* A grant is accepted only beside a set no older than its own verifier allows,
\* whatever the other verifiers allow and however long the fetch took; its key
\* comes from that set or from an earlier one.
THEOREM HeldSetsYoung == Spec => []HeldSetIsYoung
<1>1. JInv => HeldSetIsYoung
  BY DEF JInv, CInv, AcceptedFresh, HeldSetIsYoung
<1> QED BY <1>1, Invariant, PTL

\* Refreshes for unknown key ids begin at least a cooldown apart.
THEOREM UnknownKidsApart == Spec => UnknownKidsSpaced
<1>1. JInv /\ [Next]_vars =>
        [begun' # begun /\ begun # None => begun' >= begun + Cooldown]_vars
  <2> SUFFICES ASSUME JInv, Next, begun' # begun, begun # None
               PROVE  begun' >= begun + Cooldown
    OBVIOUS
  <2>1. PICK v \in Verifier, k \in Kid : Resolve(v, k)
    BY DEF Next, Construct, Woken, Failing, Check, Accept, Again, Deny, ClockFails,
       Serve, Land, LandFailed, Publish, Withdraw, Tick, cache
  <2>2. begun' = now /\ ~CoolingDown
    BY <2>1 DEF Resolve
  <2>3. now \in Nat /\ begun \in Nat /\ next \in Nat /\ Cooldown \in Nat
    BY AgeAssumption DEF JInv, TypeOK
  <2>4. begun + Cooldown <= next
    BY DEF JInv, CInv, CooldownCovers
  <2> QED BY <2>2, <2>3, <2>4 DEF CoolingDown
<1> QED BY <1>1, Invariant, PTL DEF Spec, UnknownKidsSpaced

\* A dead domain stays dead, takes no keys and accepts nothing.
THEOREM DeadDomainsAreSilent == Spec => DeadDomainIsSilent
<1> DEFINE Silent ==
             dead => dead' /\ keys' = None
                     /\ \A v \in Verifier : pc'[v] = "accepted" => pc[v] = "accepted"
<1>1. JInv /\ [Next]_vars => [Silent]_vars
  <2> SUFFICES ASSUME JInv, Next, dead PROVE Silent
    OBVIOUS
  <2>1. keys = None
    BY DEF JInv, CInv, DeadHoldsNothing
  <2>2. \/ \E v \in Verifier : Construct(v) \/ Failing(v) \/ Again(v) \/ Deny(v)
        \/ Serve \/ LandFailed \/ Tick
        \/ \E k \in Kid : Publish(k) \/ Withdraw(k)
    BY DEF Next, Resolve, Woken, Check, Accept, ClockFails, Land, MayPublish
  <2>3. UNCHANGED <<dead, keys>>
    BY <2>2 DEF Construct, Failing, Again, Deny, Serve, LandFailed, Tick, Publish,
                Withdraw, cache
  <2>4. pc \in [Verifier -> Where]
    BY DEF JInv, TypeOK
  <2>5. ASSUME NEW v \in Verifier, pc'[v] = "accepted" PROVE pc[v] = "accepted"
    BY <2>2, <2>4, <2>5 DEF Construct, Failing, Again, Deny, Serve, LandFailed, Tick,
                            Publish, Withdraw, Wake, Goto, End, calls
  <2> QED BY <2>1, <2>3, <2>5
<1> QED BY <1>1, Invariant, PTL DEF Spec, DeadDomainIsSilent

=============================================================================
