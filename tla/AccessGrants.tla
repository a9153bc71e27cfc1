---------------------------- MODULE AccessGrants ----------------------------
(***************************************************************************)
(* packages/tokens: an issuer reads the authorization of a principal from  *)
(* an authoritative source and signs a short grant from it; a verifier     *)
(* accepts the grant once.  The two share no state: what bounds a grant is *)
(* the arithmetic of three clocks (the issuer's monotonic clock and wall   *)
(* clock, the verifier's wall clock) read before and after every await.    *)
(*                                                                         *)
(* Instants are ticks of real time; a NumericDate second has Second ticks. *)
(* A step is what runs between two awaits.  A Store operation commits in a *)
(* step of its own, so its answer can be late, or lost.                    *)
(***************************************************************************)
EXTENDS Integers

CONSTANTS
    Issuer,       \* issuer instances: each is the instant its clock read zero
    Session,      \* read, bind and issue, for one grant
    Jti,          \* what the random source returns
    Verify,       \* calls of verifyAndConsume
    Second,       \* ticks in a second
    MaxLifetime,  \* MAX_ACCESS_GRANT_LIFETIME_SECONDS
    Offset,       \* MAX_NEGATIVE_VERIFIER_OFFSET_SECONDS
    Lifetime,     \* what a source may say of maximumLifetimeMs, in ticks
    Lead,         \* ticks a verifier's clock is ahead of the slowest permitted
    Stall,        \* longest suspension between two clock readings, in ticks
    Start, Last,  \* the bounds of a run's instants
    None

ASSUME TimeAssumption ==
    /\ Second \in Nat \ {0} /\ MaxLifetime \in Nat /\ Offset \in Nat
    /\ Stall \in Nat /\ Start \in Nat /\ Last \in Nat
ASSUME IssuerAssumption == Issuer \subseteq Int /\ Lifetime \subseteq Nat \ {0}
\* A deployment keeps no verifier more than Offset seconds behind the issuer.
ASSUME LeadAssumption == Lead \subseteq Nat
ASSUME NoneAssumption == None \notin Int /\ None \notin Jti /\ None \notin Session

VARIABLES
    now,       \* real time, which the issuer's wall clock shows
    failed,    \* issuer -> domain.failed
    pc,        \* session -> the await it is at
    owner,     \* session -> the issuer at work on it
    deadline,  \* session -> expiresAtMonotonicMs; before the read ends, its start
    vouched,   \* session -> until when the source vouched for what it said
    jti,       \* session -> the identifier drawn
    grant,     \* session -> iat and exp, signed
    reserved,  \* the identifiers in the Store
    vpc,       \* verification -> the await it is at
    shown,     \* verification -> the session whose grant it was given
    spent,     \* identifier -> retainThrough of its replay row, or None
    accepted   \* verification -> when it accepted, or None

issuing   == <<failed, pc, owner, deadline, vouched, jti, grant, reserved>>
verifying == <<vpc, shown, spent, accepted>>
vars == <<now, issuing, verifying>>

AtIssue  == {"idle", "reading", "read", "bound", "reserving", "reserved",
             "signing", "issued", "refused"}
AtVerify == {"idle", "resolving", "inserting", "inserted", "accepted", "denied"}

TypeOK ==
    /\ now \in Int
    /\ failed \in [Issuer -> BOOLEAN]
    /\ pc \in [Session -> AtIssue]
    /\ owner \in [Session -> Issuer \cup {None}]
    /\ deadline \in [Session -> Int]
    /\ vouched \in [Session -> Int]
    /\ jti \in [Session -> Jti \cup {None}]
    /\ grant \in [Session -> [iat : Int, exp : Int]]
    /\ reserved \subseteq Jti
    /\ vpc \in [Verify -> AtVerify]
    /\ shown \in [Verify -> Session \cup {None}]
    /\ spent \in [Jti -> Int \cup {None}]
    /\ accepted \in [Verify -> Int \cup {None}]

NoGrant == [iat |-> 0, exp |-> 0]

Init ==
    /\ now \in Start .. Start + Second - 1
    /\ failed = [i \in Issuer |-> FALSE]
    /\ pc = [s \in Session |-> "idle"]
    /\ owner = [s \in Session |-> None]
    /\ deadline = [s \in Session |-> 0]
    /\ vouched = [s \in Session |-> 0]
    /\ jti = [s \in Session |-> None]
    /\ grant = [s \in Session |-> NoGrant]
    /\ reserved = {}
    /\ vpc = [v \in Verify |-> "idle"]
    /\ shown = [v \in Verify |-> None]
    /\ spent = [j \in Jti |-> None]
    /\ accepted = [v \in Verify |-> None]

NumericDate(t) == t \div Second
Least(a, b) == IF a <= b THEN a ELSE b

-----------------------------------------------------------------------------
\* The issuer.

Goto(s, label) == pc' = [pc EXCEPT ![s] = label]

\* What GuardedMonotonicClock.sample returns while the domain lives.
Sample(i) == now - i

\* Slip: a failed domain is only looked at where a capability is presented.
LiveUnguarded(i) == TRUE
\* sample() of a domain that has failed throws.
Live(i) == ~failed[i]

\* The wall clock is read first, and the process may be suspended in between.
Readings(i) ==
    {[wall |-> t, mono |-> Sample(i)] : t \in now - Stall .. now}

\* Seconds of life: less than what remains by the offset of a slow verifier.
Nominal(remaining) == Least(MaxLifetime, (remaining \div Second) - Offset)

\* readGrantWindow at issuer i: the windows it may return, none if it throws.
Windows(s, i) ==
    {[iat |-> NumericDate(r.wall),
      exp |-> NumericDate(r.wall) + Nominal(deadline[s] - r.mono)] :
        r \in {x \in Readings(i) :
                 /\ Live(i)
                 /\ x.mono < deadline[s]
                 /\ Nominal(deadline[s] - x.mono) >= 1
                 /\ NumericDate(x.wall) >= 1}}

\* readSourceAuthorization up to its await: the sample precedes the read.
StartRead(s, i) ==
    /\ pc[s] = "idle"
    /\ Live(i)
    /\ owner' = [owner EXCEPT ![s] = i]
    /\ deadline' = [deadline EXCEPT ![s] = Sample(i)]
    /\ Goto(s, "reading")
    /\ UNCHANGED <<now, failed, vouched, jti, grant, reserved, verifying>>

\* Slip: the lifetime counts from when the answer arrived.
DeadlineFromAnswer(s, lifetime) == Sample(owner[s]) + lifetime
DeadlineFrom(s, lifetime) == deadline[s] + lifetime

\* The source answers: what it says was true at an instant of the read.
EndRead(s) ==
    /\ pc[s] = "reading"
    /\ \E lifetime \in Lifetime, t \in deadline[s] + owner[s] .. now :
         /\ deadline' = [deadline EXCEPT ![s] = DeadlineFrom(s, lifetime)]
         /\ vouched' = [vouched EXCEPT ![s] = t + lifetime]
    /\ Goto(s, "read")
    /\ UNCHANGED <<now, failed, owner, jti, grant, reserved, verifying>>

\* owner and domain of what is presented are this issuer's.
Owns(i, s) == owner[s] = i

\* bindSourceAuthorization: the deadline stays the read's.
Bind(s, i) ==
    /\ pc[s] = "read"
    /\ Owns(i, s) /\ ~failed[i]
    /\ owner' = [owner EXCEPT ![s] = i]
    /\ Goto(s, "bound")
    /\ UNCHANGED <<now, failed, deadline, vouched, jti, grant, reserved, verifying>>

\* A read, or what another session bound, is bound again: nothing restarts.
Rebind(s, t, i) ==
    /\ pc[s] = "idle"
    /\ pc[t] \notin {"idle", "reading", "refused"}
    /\ Owns(i, t) /\ ~failed[i]
    /\ owner' = [owner EXCEPT ![s] = i]
    /\ deadline' = [deadline EXCEPT ![s] = deadline[t]]
    /\ vouched' = [vouched EXCEPT ![s] = vouched[t]]
    /\ Goto(s, "bound")
    /\ UNCHANGED <<now, failed, jti, grant, reserved, verifying>>

\* issue up to the reservation: the window must open, and is thrown away.
Issue(s, i) ==
    /\ pc[s] = "bound"
    /\ Owns(i, s) /\ ~failed[i]
    /\ Windows(s, i) # {}
    /\ owner' = [owner EXCEPT ![s] = i]
    /\ \E j \in Jti : jti' = [jti EXCEPT ![s] = j]
    /\ Goto(s, "reserving")
    /\ UNCHANGED <<now, failed, deadline, vouched, grant, reserved, verifying>>

\* Slip: an identifier found in the Store is taken for one's own.
MayReserveAny(j) == TRUE
\* insertIfAbsent inserts; what it finds instead is refused.
MayReserve(j) == j \notin reserved

\* The Store commits the reservation; the answer is on its way.
StoreReserve(s) ==
    /\ pc[s] = "reserving"
    /\ MayReserve(jti[s])
    /\ reserved' = reserved \cup {jti[s]}
    /\ Goto(s, "reserved")
    /\ UNCHANGED <<now, failed, owner, deadline, vouched, jti, grant, verifying>>

\* issue after the reservation: the window that is signed.
Sign(s) ==
    /\ pc[s] = "reserved"
    /\ \E w \in Windows(s, owner[s]) : grant' = [grant EXCEPT ![s] = w]
    /\ Goto(s, "signing")
    /\ UNCHANGED <<now, failed, owner, deadline, vouched, jti, reserved, verifying>>

\* issue after the signature: the grant must not have expired meanwhile.
Issued(s) ==
    /\ pc[s] = "signing"
    /\ \E w \in Windows(s, owner[s]) : w.iat < grant[s].exp
    /\ Goto(s, "issued")
    /\ UNCHANGED <<now, failed, owner, deadline, vouched, jti, grant, reserved, verifying>>

\* A call that rejects leaves what is in the Store, and nothing else.
Reject(s) ==
    /\ Goto(s, "refused")
    /\ owner' = [owner EXCEPT ![s] = None]
    /\ deadline' = [deadline EXCEPT ![s] = 0]
    /\ vouched' = [vouched EXCEPT ![s] = 0]
    /\ jti' = [jti EXCEPT ![s] = None]
    /\ grant' = [grant EXCEPT ![s] = NoGrant]
    /\ UNCHANGED <<now, reserved, verifying>>

\* A rejection: of the source, of the request, of the Store (which may have
\* committed), of the signature, of a window.
Refuse(s) ==
    /\ pc[s] \in {"reading", "read", "bound", "reserving", "reserved", "signing"}
    /\ UNCHANGED failed
    /\ Reject(s)

\* A sample is invalid or has regressed: the domain of the issuer is lost.
ClockFails(s, i) ==
    /\ \/ pc[s] = "idle"
       \/ pc[s] \in {"bound", "reserved", "signing"} /\ owner[s] = i
    /\ Live(i)
    /\ failed' = [failed EXCEPT ![i] = TRUE]
    /\ Reject(s)

-----------------------------------------------------------------------------
\* The verifier.

\* What the clocks of a verifier may show.
VerifierWalls == {t \in {(now - Offset * Second) + k : k \in Lead} : t >= 0}

\* requireGrantTimeWindow, the verifier's clock showing wall.
InWindow(s, wall) ==
    /\ grant[s].iat <= NumericDate(wall) + Offset
    /\ NumericDate(wall) < grant[s].exp

\* The replay row outlives the grant at the slowest verifier.
RetainThrough(s) == grant[s].exp + Offset

\* A bearer shows a grant; parsed, its key is being resolved.
Show(v, s) ==
    /\ vpc[v] = "idle" /\ pc[s] = "issued"
    /\ shown' = [shown EXCEPT ![v] = s]
    /\ vpc' = [vpc EXCEPT ![v] = "resolving"]
    /\ UNCHANGED <<now, issuing, spent, accepted>>

\* The key found, the signature and the claims good: the window, then the
\* clock of the replay store, then the insertion begins.
Check(v) ==
    /\ vpc[v] = "resolving"
    /\ \E wall \in VerifierWalls : InWindow(shown[v], wall)
    /\ \E wall \in VerifierWalls : NumericDate(wall) <= RetainThrough(shown[v])
    /\ vpc' = [vpc EXCEPT ![v] = "inserting"]
    /\ UNCHANGED <<now, issuing, shown, spent, accepted>>

\* Slip: consumption does not look at what the Store had.
UnspentAny(j) == TRUE
Unspent(j) == spent[j] = None

\* The Store commits the replay row; one it finds instead denies.
StoreConsume(v) ==
    LET j == jti[shown[v]]
    IN /\ vpc[v] = "inserting"
       /\ Unspent(j)
       /\ spent' = [spent EXCEPT ![j] = RetainThrough(shown[v])]
       /\ vpc' = [vpc EXCEPT ![v] = "inserted"]
       /\ UNCHANGED <<now, issuing, shown, accepted>>

\* The window is read again after the await.
WindowAgain(v) == \E wall \in VerifierWalls : InWindow(shown[v], wall)

Accept(v) ==
    /\ vpc[v] = "inserted"
    /\ WindowAgain(v)
    /\ accepted' = [accepted EXCEPT ![v] = now]
    /\ vpc' = [vpc EXCEPT ![v] = "accepted"]
    /\ UNCHANGED <<now, issuing, shown, spent>>

\* Every failure is one error; a row the Store committed stays.
Deny(v) ==
    /\ vpc[v] \in {"resolving", "inserting", "inserted"}
    /\ vpc' = [vpc EXCEPT ![v] = "denied"]
    /\ shown' = [shown EXCEPT ![v] = None]
    /\ UNCHANGED <<now, issuing, spent, accepted>>

\* The host may drop a replay row once its retention has passed.
Prune(j) ==
    /\ spent[j] # None
    /\ NumericDate(now) > spent[j]
    /\ spent' = [spent EXCEPT ![j] = None]
    /\ UNCHANGED <<now, issuing, vpc, shown, accepted>>

-----------------------------------------------------------------------------
Tick == /\ now < Last
        /\ now' = now + 1
        /\ UNCHANGED <<issuing, verifying>>

Next ==
    \/ Tick
    \/ \E s \in Session :
         \/ \E i \in Issuer : \/ StartRead(s, i) \/ Bind(s, i) \/ Issue(s, i)
                              \/ ClockFails(s, i)
         \/ \E t \in Session, i \in Issuer : Rebind(s, t, i)
         \/ EndRead(s) \/ StoreReserve(s) \/ Sign(s) \/ Issued(s) \/ Refuse(s)
    \/ \E v \in Verify :
         \/ \E s \in Session : Show(v, s)
         \/ Check(v) \/ StoreConsume(v) \/ Accept(v) \/ Deny(v)
    \/ \E j \in Jti : Prune(j)

Spec == Init /\ [][Next]_vars

-----------------------------------------------------------------------------
\* Properties.

\* A grant is accepted only while the source still vouches for it, whatever
\* the reads, the suspensions, the store and the signature took, and however
\* far behind a permitted verifier is (issuer.ts readGrantWindow, verifier.ts
\* requireGrantTimeWindow).
GrantDiesWithItsSource ==
    \A v \in Verify : vpc[v] = "accepted" => accepted[v] < vouched[shown[v]]

\* A grant is accepted once, though verifiers race, the Store loses answers
\* and the host drops rows whose retention has passed (replay.ts consume).
ConsumedOnce ==
    \A v, u \in Verify :
      vpc[v] = "accepted" /\ vpc[u] = "accepted" /\ shown[v] = shown[u] => v = u

\* Two grants never share an identifier, not even of issuers that share only
\* the Store, or one would be spent by the other (jti-reservation.ts reserve).
IdentifiersAreUnique ==
    \A s, t \in Session :
      pc[s] \in {"signing", "issued"} /\ pc[t] \in {"signing", "issued"}
        /\ jti[s] = jti[t] => s = t

\* Once the clock of an issuer has failed no call of it gets any further,
\* those under way included (internal.ts GuardedMonotonicClock.sample).
DeadClockIssuesNothing ==
    [][\A s \in Session :
         pc'[s] # pc[s] /\ pc'[s] \in {"bound", "reserving", "signing", "issued"}
           => ~failed[owner'[s]]]_vars
=============================================================================
