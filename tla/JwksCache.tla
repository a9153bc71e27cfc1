----------------------------- MODULE JwksCache -----------------------------
(***************************************************************************)
(* packages/tokens/src/jwks.ts: the key set that the verifiers of one      *)
(* issuer and endpoint share.  Verifiers find a key in it, or wait for a   *)
(* refresh they begin or join, and look at the age of the set the cache    *)
(* holds by then after each of their own awaits, while the endpoint        *)
(* rotates its keys.  The key a verifier found stays with its call, also   *)
(* when another caller's refresh has replaced the set it came from.        *)
(*                                                                         *)
(* A step is what runs between two awaits.  The callers a settled refresh  *)
(* wakes all run, in any order, before anything new happens.               *)
(***************************************************************************)
EXTENDS Integers

CONSTANTS
    Kid,       \* key ids
    Verifier,  \* verifiers that share the cache, each called once at a time
    Age,       \* ages a verifier may configure
    Cooldown,  \* UNKNOWN_KID_REFRESH_INTERVAL_MS
    Last,      \* the last instant of a run
    None

ASSUME AgeAssumption == Age \subseteq Nat \ {0} /\ Cooldown \in Nat

\* #refreshInFlight: its sample, what it fetched and when that was served.
Flight == [start : Nat, body : (SUBSET Kid) \cup {None}, served : Nat]

ASSUME NoneAssumption == None \notin Nat /\ None \notin Kid /\ None \notin Flight

VARIABLES
    now,      \* monotonic time
    live,     \* the keys the endpoint publishes
    gone,     \* the keys it has withdrawn, never to publish again
    keys,     \* #keys: a set of key ids, or None
    loaded,   \* #loadedAtMs
    served,   \* when the endpoint gave what the cache holds
    maxAge,   \* #maxAgeMs, None before the first verifier
    dead,     \* #clockFailed
    next,     \* #nextUnknownKidRefreshAtMs, 0 before the first
    flight,   \* #refreshInFlight, or None
    begun,    \* when a refresh for an unknown key id last began, or None
    pc,       \* verifier -> where it stands
    age,      \* verifier -> the age its verifier configured
    ask,      \* verifier -> the key id, what resolve sampled, and when the set
              \* its key came from was served
    accepted  \* verifier -> when it accepted, and when the set its key came from and
              \* the set held by then were served

endpoint == <<live, gone>>
cache    == <<keys, loaded, served, maxAge, dead, next, flight, begun>>
calls    == <<pc, ask, accepted>>
vars     == <<now, endpoint, cache, age, calls>>

Where == {"new", "idle", "waiting", "woken", "failing", "resolved", "checked",
          "accepted"}
NoAsk == [kid |-> None, at |-> 0, fresh |-> FALSE, known |-> FALSE, from |-> None]
Ask   == [kid : Kid \cup {None}, at : Nat, fresh : BOOLEAN, known : BOOLEAN,
          from : Nat \cup {None}]
Acceptance == [at : Nat, from : Nat, held : Nat]

TypeOK ==
    /\ now \in Nat
    /\ live \subseteq Kid /\ gone \subseteq Kid
    /\ keys \in (SUBSET Kid) \cup {None}
    /\ loaded \in Nat \cup {None} /\ served \in Nat \cup {None}
    /\ maxAge \in Age \cup {None}
    /\ dead \in BOOLEAN
    /\ next \in Nat
    /\ flight \in Flight \cup {None}
    /\ begun \in Nat \cup {None}
    /\ pc \in [Verifier -> Where]
    /\ age \in [Verifier -> Age \cup {None}]
    /\ ask \in [Verifier -> Ask]
    /\ accepted \in [Verifier -> Acceptance \cup {None}]

Init ==
    /\ now = 0
    /\ live \in SUBSET Kid /\ gone = {}
    /\ keys = None /\ loaded = None /\ served = None
    /\ maxAge = None /\ dead = FALSE /\ next = 0 /\ flight = None /\ begun = None
    /\ pc = [v \in Verifier |-> "new"]
    /\ age = [v \in Verifier |-> None]
    /\ ask = [v \in Verifier |-> NoAsk]
    /\ accepted = [v \in Verifier |-> None]

\* No callback of a settled refresh is left to run.
Quiet == \A v \in Verifier : pc[v] \notin {"woken", "failing"}

Goto(v, label) == pc' = [pc EXCEPT ![v] = label]

-----------------------------------------------------------------------------
\* tightenMaxAge: the shortest of the verifiers' ages.
Tightened(a) == IF maxAge = None \/ a < maxAge THEN a ELSE maxAge

\* getSharedJwksCache: a verifier is made.
Construct(v) ==
    /\ Quiet /\ pc[v] = "new"
    /\ \E a \in Age : /\ age' = [age EXCEPT ![v] = a]
                      /\ maxAge' = Tightened(a)
    /\ Goto(v, "idle")
    /\ UNCHANGED <<now, endpoint, keys, loaded, served, dead, next, flight,
                   begun, ask, accepted>>

Fresh == keys # None /\ loaded # None /\ now - loaded < maxAge
Has(k) == keys # None /\ k \in keys

\* Slip: the cooldown begins when a refresh has failed to find the key.
CooldownUnset == next
\* beginUnknownKidRefresh, before any I/O.
CooldownSet == now + Cooldown

CoolingDown == next # 0 /\ now < next

\* refresh: join the one in flight, or begin one that counts from now.
Refresh ==
    flight' = IF flight = None THEN [start |-> now, body |-> None, served |-> 0]
                               ELSE flight

\* A call that ends leaves nothing behind; its verifier may be called again.
End(v) == /\ Goto(v, "idle")
          /\ ask' = [ask EXCEPT ![v] = NoAsk]

\* resolve up to its first await.
Resolve(v, k) ==
    /\ Quiet /\ pc[v] = "idle" /\ ~dead
    /\ LET unknown == ~Has(k) /\ (Fresh \/ flight = None)
       IN \/ /\ Fresh /\ Has(k)
             /\ Goto(v, "resolved")
             /\ ask' = [ask EXCEPT ![v] = [kid |-> k, at |-> now, fresh |-> TRUE,
                                           known |-> TRUE, from |-> served]]
             /\ UNCHANGED <<next, flight, begun>>
          \/ /\ ~Fresh \/ ~Has(k)
             /\ unknown /\ CoolingDown
             /\ End(v)
             /\ UNCHANGED <<next, flight, begun>>
          \/ /\ ~Fresh \/ ~Has(k)
             /\ ~(unknown /\ CoolingDown)
             /\ next' = IF unknown THEN CooldownSet ELSE next
             /\ begun' = IF unknown /\ flight = None THEN now ELSE begun
             /\ Refresh
             /\ Goto(v, "waiting")
             /\ ask' = [ask EXCEPT ![v] = [kid |-> k, at |-> now, fresh |-> Fresh,
                                           known |-> Has(k), from |-> None]]
    /\ UNCHANGED <<now, endpoint, keys, loaded, served, maxAge, dead, age, accepted>>

-----------------------------------------------------------------------------
\* The fetch, and its end.

\* The endpoint reads its document; the response is on its way.
Serve ==
    /\ Quiet /\ flight # None /\ flight.body = None
    /\ flight' = [flight EXCEPT !.body = live, !.served = now]
    /\ UNCHANGED <<now, endpoint, keys, loaded, served, maxAge, dead, next, begun,
                   age, calls>>

Wake(label) ==
    pc' = [v \in Verifier |-> IF pc[v] = "waiting" THEN label ELSE pc[v]]

\* Slip: the set is as old as its answer.
LoadedAtLanding == now
\* load: the age counts from the sample of whoever began it.
LoadedAt == flight.start

\* Slip: the domain is not looked at again after the fetch.
MayPublishDead == TRUE
MayPublish == ~dead

\* The response is validated and replaces the set.
Land ==
    /\ Quiet /\ flight # None /\ flight.body # None
    /\ MayPublish
    /\ keys' = flight.body /\ served' = flight.served
    /\ loaded' = LoadedAt
    /\ flight' = None
    /\ Wake("woken")
    /\ UNCHANGED <<now, endpoint, maxAge, dead, next, begun, age, ask, accepted>>

\* No response in time, another origin, a bad document, or a dead domain.
LandFailed ==
    /\ Quiet /\ flight # None
    /\ flight' = None
    /\ Wake("failing")
    /\ UNCHANGED <<now, endpoint, keys, loaded, served, maxAge, dead, next, begun,
                   age, ask, accepted>>

\* resolve after its refresh.
Woken(v) ==
    /\ pc[v] = "woken" /\ ~dead
    /\ \/ /\ Has(ask[v].kid)
          /\ Goto(v, "resolved")
          /\ ask' = [ask EXCEPT ![v].from = served]
          /\ UNCHANGED next
       \/ /\ ~Has(ask[v].kid)
          /\ next' = IF ~ask[v].fresh /\ ask[v].known THEN ask[v].at + Cooldown
                                                       ELSE next
          /\ End(v)
    /\ UNCHANGED <<now, endpoint, keys, loaded, served, maxAge, dead, flight,
                   begun, age, accepted>>

Failing(v) ==
    /\ pc[v] = "failing"
    /\ End(v)
    /\ UNCHANGED <<now, endpoint, cache, age, accepted>>

-----------------------------------------------------------------------------
\* verifyAndConsume after it has a key.

\* assertActive, before the grant is consumed and again after: the age of the
\* set held now, which need not be the one the key came from.
Check(v) ==
    /\ Quiet /\ pc[v] = "resolved" /\ ~dead /\ Fresh
    /\ Goto(v, "checked")
    /\ UNCHANGED <<now, endpoint, cache, age, ask, accepted>>

Accept(v) ==
    /\ Quiet /\ pc[v] = "checked" /\ ~dead /\ Fresh
    /\ Goto(v, "accepted")
    /\ ask' = [ask EXCEPT ![v] = NoAsk]
    /\ accepted' = [accepted EXCEPT ![v] = [at |-> now, from |-> ask[v].from,
                                            held |-> served]]
    /\ UNCHANGED <<now, endpoint, cache, age>>

\* The verifier is called again.
Again(v) ==
    /\ Quiet /\ pc[v] = "accepted"
    /\ End(v)
    /\ accepted' = [accepted EXCEPT ![v] = None]
    /\ UNCHANGED <<now, endpoint, cache, age>>

\* The set is stale, the domain dead, the grant bad or already spent.
Deny(v) ==
    /\ Quiet /\ pc[v] \in {"resolved", "checked"}
    /\ End(v)
    /\ UNCHANGED <<now, endpoint, cache, age, accepted>>

\* A sample is invalid or has regressed: the keys are forgotten for good.
ClockFails(v) ==
    /\ Quiet /\ pc[v] \in {"idle", "resolved", "checked"} /\ ~dead
    /\ dead' = TRUE /\ keys' = None /\ loaded' = None /\ served' = None
    /\ End(v)
    /\ UNCHANGED <<now, endpoint, maxAge, next, flight, begun, age, accepted>>

-----------------------------------------------------------------------------
\* The world outside.

Publish(k) ==
    /\ Quiet /\ k \notin live \cup gone
    /\ live' = live \cup {k}
    /\ UNCHANGED <<now, gone, cache, age, calls>>

Withdraw(k) ==
    /\ Quiet /\ k \in live
    /\ live' = live \ {k} /\ gone' = gone \cup {k}
    /\ UNCHANGED <<now, cache, age, calls>>

Tick ==
    /\ Quiet /\ now < Last
    /\ now' = now + 1
    /\ UNCHANGED <<endpoint, cache, age, calls>>

Next ==
    \/ \E v \in Verifier :
         \/ Construct(v) \/ Woken(v) \/ Failing(v) \/ Check(v) \/ Accept(v)
         \/ Again(v) \/ Deny(v) \/ ClockFails(v)
         \/ \E k \in Kid : Resolve(v, k)
    \/ Serve \/ Land \/ LandFailed
    \/ \E k \in Kid : Publish(k) \/ Withdraw(k)
    \/ Tick

Spec == Init /\ [][Next]_vars

-----------------------------------------------------------------------------
\* Properties.

\* A grant is accepted only while the cache holds a set that the endpoint served
\* within the age the grant's own verifier configured, however long the fetch
\* took, whoever began it and whatever ages the others configured; and the key
\* comes from that set or from one it replaced, whose own age nobody looks at
\* again (jwks.ts load, tightenMaxAge, assertActive).
HeldSetIsYoung ==
    \A v \in Verifier : pc[v] = "accepted" =>
      /\ accepted[v].at - accepted[v].held < age[v]
      /\ accepted[v].from <= accepted[v].held

\* Refreshes begun for key ids the cache does not hold are a cooldown apart,
\* though fetches fail, callers join and keys vanish (jwks.ts
\* beginUnknownKidRefresh).
UnknownKidsSpaced ==
    [][begun' # begun /\ begun # None => begun' >= begun + Cooldown]_vars

\* A domain whose clock failed has no keys again and accepts nothing, a fetch
\* that was in flight included (jwks.ts requireClockAlive).
DeadDomainIsSilent ==
    [][dead => dead' /\ keys' = None
               /\ \A v \in Verifier : pc'[v] = "accepted" => pc[v] = "accepted"]_vars
=============================================================================
