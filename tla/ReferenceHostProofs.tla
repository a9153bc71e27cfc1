------------------------- MODULE ReferenceHostProofs -------------------------
(***************************************************************************)
(* The properties of ReferenceHost for any policy, commands, requests and  *)
(* numbers of principals, keys and ids.  A key is prepared once, so what   *)
(* it grants has the id it is bound to; and each thing a request has read  *)
(* is vouched for by what held at an instant of it.                        *)
(***************************************************************************)
EXTENDS ReferenceHost, TLAPS

StripeState == [at : Nat, features : SUBSET Feature]
Lifecycles  == [principal : Principal, role : Role, scope : Scope,
                key : Key \cup {None}, status : {"active", "revoked"}]
Assignments == [role : Role, scope : Scope]
Entitlement == [names : SUBSET UNION {FeatureEntitlements[f] : f \in DOMAIN FeatureEntitlements},
                at : Nat]
Steps == {"idle", "resolving", "allowed", "preparing", "bound", "storing", "stored"}

TypeOK ==
    /\ now \in Nat
    /\ stripe \in [Principal -> StripeState]
    /\ confirmed \in [Principal -> [Feature -> Nat \cup {None}]]
    /\ life \in [Id \cup {Seed} -> Lifecycles \cup {None}]
    /\ binding \in [Key -> Bindings \cup {None}]
    /\ running \in [Key -> Request \cup {None}]
    /\ step \in [Request -> Steps]
    /\ command \in [Request -> Input \cup {None}]
    /\ awaiting \in [Request -> SUBSET (Scope \cup {"state", "answer"})]
    /\ roles \in [Request -> SUBSET Role]
    /\ state \in [Request -> StripeState \cup {None}]
    /\ entitled \in [Request -> Entitlement \cup {None}]
    /\ held \in [Request -> SUBSET Assignments]

\* A request under way has its command; one past its decision, no visit.
Commanded ==
    /\ \A r \in Request : step[r] # "idle" => command[r] \in Input
    /\ \A r \in Request : step[r] \in {"preparing", "bound", "storing", "stored"} =>
         command[r] \in Grants \cup Revokes

\* One request prepares the command of a key, and it is not prepared yet.
PreparedOnce ==
    /\ \A r \in Request : step[r] \in {"preparing", "bound", "storing", "stored"} =>
         binding[command[r].key] # None
    /\ \A r \in Request : step[r] = "preparing" =>
         binding[command[r].key].manifest = None
    /\ \A r, s \in Request :
         step[r] = "preparing" /\ step[s] = "preparing"
           /\ command[r].key = command[s].key => r = s

\* A lifecycle has the id its key is bound to.
LifecycleBound ==
    \A i \in Id \cup {Seed} : life[i] # None =>
      IF life[i].key = None THEN i = Seed
      ELSE /\ binding[life[i].key] # None
           /\ binding[life[i].key].manifest = i

KeysInv == Commanded /\ PreparedOnce /\ LifecycleBound

\* What Stripe confirmed is not of the future; a persisted state has nothing
\* that was not confirmed when it was made.
ConfirmedPast ==
    \A p \in Principal, f \in Feature :
      confirmed[p][f] \in Nat => confirmed[p][f] <= now

Vouched(s, p) ==
    \A f \in s.features : confirmed[p][f] \in Nat /\ s.at <= confirmed[p][f]

StripeConfirmed == \A p \in Principal : Vouched(stripe[p], p)

\* A request at rest has read nothing; one that resolves holds what its
\* principal did from its arrival on.
ResolvingHolds(r) ==
    /\ step[r] = "idle" => roles[r] = {}
    /\ step[r] = "resolving" =>
         /\ awaiting[r] \subseteq Reads(command[r]) \cup {"answer"}
         /\ ActiveOf(command[r].actor) \subseteq held[r]

\* A role it has read was held in a scope it asks about.
RolesHeld(r) ==
    step[r] \in {"resolving", "allowed"} =>
      \A x \in roles[r] : \E h \in held[r] :
        h.role = x /\ h.scope \in Reads(command[r])

\* A state that is loaded was confirmed.
StateConfirmed(r) ==
    step[r] = "resolving" /\ "answer" \in awaiting[r] =>
      state[r] \in StripeState /\ Vouched(state[r], command[r].actor)

\* An entitlement follows from a feature confirmed within the bound.
Earned(n, e, p) ==
    \E f \in Feature \cap DOMAIN FeatureEntitlements :
      /\ n \in FeatureEntitlements[f]
      /\ confirmed[p][f] \in Nat
      /\ e.at - MaxStateAge <= confirmed[p][f]

\* Its facts are read.
Ready(r) == \/ step[r] = "allowed"
            \/ step[r] = "resolving" /\ awaiting[r] \cap {"state", "answer"} = {}

EntitledConfirmed(r) ==
    Ready(r) =>
      /\ entitled[r].at \in Nat
      /\ \A n \in entitled[r].names : Earned(n, entitled[r], command[r].actor)

\* What it is allowed, its facts allow.
DecisionFollows(r) ==
    step[r] = "allowed" => Allowed(Asked(r), roles[r], entitled[r].names)

Sound(r) ==
    /\ ResolvingHolds(r) /\ RolesHeld(r)
    /\ StateConfirmed(r) /\ EntitledConfirmed(r) /\ DecisionFollows(r)

AccessInv == ConfirmedPast /\ StripeConfirmed /\ \A r \in Request : Sound(r)

HostInv == TypeOK /\ KeysInv /\ AccessInv

-----------------------------------------------------------------------------
\* Every step keeps the types.

\* A command has an actor, a kind of its own, and the parts of its kind.
LEMMA CommandTypes ==
  ASSUME NEW c \in Input
  PROVE  /\ c.actor \in Principal
         /\ c.kind \in {"grant", "revoke", "visit"}
         /\ c.kind # "visit" => c \in Grants \cup Revokes /\ c.key \in Key
         /\ c.kind = "grant" => c \in Grants
         /\ c.kind = "revoke" => c \in Revokes
BY InputAssumption DEF Grants, Revokes, Visits

\* What a request may hold, and what a commit makes of it.
LEMMA ActiveTypes ==
  ASSUME TypeOK, NEW p PROVE ActiveOf(p) \subseteq Assignments
BY DEF ActiveOf, TypeOK, Lifecycles, Assignments

LEMMA PutTypes ==
  ASSUME TypeOK, NEW i \in Id \cup {Seed}, NEW l \in Lifecycles, Put(i, l)
  PROVE  /\ life' \in [Id \cup {Seed} -> Lifecycles \cup {None}]
         /\ held' \in [Request -> SUBSET Assignments]
         /\ \A r \in Request : held[r] \subseteq held'[r]
BY DEF TypeOK, Put, Lifecycles, Assignments

\* What a command commits has the type of a lifecycle.
LEMMA GrantTypes ==
  ASSUME NEW c \in Grants PROVE Lifecycle(c, "active") \in Lifecycles
BY DEF Grants, Lifecycle, Lifecycles

LEMMA RevokedTypes ==
  ASSUME NEW l \in Lifecycles PROVE [l EXCEPT !.status = "revoked"] \in Lifecycles
BY DEF Lifecycles

\* Only the two commits change the lifecycles and what is held; every other
\* step keeps the types by its own assignments.
LEMMA NextTyped == HostInv /\ [Next]_vars => TypeOK'
<1> SUFFICES ASSUME HostInv, [Next]_vars PROVE TypeOK'
  OBVIOUS
<1> USE NamesAssumption, NoneAssumption DEF HostInv
<1>c. \A r \in Request : step[r] # "idle" => command[r] \in Input
  BY DEF KeysInv, Commanded
<1>1. ASSUME NEW r \in Request, NEW c \in Input, Arrive(r, c) PROVE TypeOK'
  <2>1. Reads(c) \subseteq Scope \cup {"state", "answer"}
    BY DEF Reads
  <2>2. ActiveOf(c.actor) \subseteq Assignments
    BY ActiveTypes
  <2> QED BY <1>1, <2>1, <2>2 DEF Arrive, TypeOK, Goto, Steps, facts, commands
<1>2. ASSUME NEW r \in Request, NEW s \in Scope, ListRoles(r, s) PROVE TypeOK'
  <2>1. {a.role : a \in {x \in ActiveOf(command[r].actor) : InScope(x, s)}} \subseteq Role
    BY ActiveTypes DEF Assignments
  <2> QED BY <1>2, <2>1 DEF ListRoles, TypeOK, facts, commands
<1>3. ASSUME NEW r \in Request, Load(r) PROVE TypeOK'
  <2>1. stripe[command[r].actor] \in StripeState
    BY <1>3, <1>c, CommandTypes DEF Load, TypeOK
  <2> QED BY <1>3, <2>1 DEF Load, TypeOK, facts, commands
<1>4. ASSUME NEW r \in Request, Loaded(r) PROVE TypeOK'
  <2>1. Translated(state[r].features)
          \subseteq UNION {FeatureEntitlements[f] : f \in DOMAIN FeatureEntitlements}
    BY DEF Translated, Assigned
  <2>2. [names |-> Translated(state[r].features), at |-> now] \in Entitlement
    BY <2>1 DEF Entitlement, TypeOK
  <2> QED BY <1>4, <2>2 DEF Loaded, TypeOK, facts, commands
<1>5. ASSUME NEW r \in Request, ResolveFails(r) \/ Visited(r) PROVE TypeOK'
  BY <1>5 DEF ResolveFails, Visited, Answer, Forget, TypeOK, Goto, Steps, facts, commands
<1>6. ASSUME NEW r \in Request, Decide(r) PROVE TypeOK'
  <2>1. CASE Answer(r)
    BY <1>6, <2>1 DEF Decide, Answer, Forget, TypeOK, Goto, Steps, facts, commands
  <2>2. CASE /\ Goto(r, "allowed")
             /\ UNCHANGED <<command, awaiting, roles, state, entitled, held>>
    BY <1>6, <2>2 DEF Decide, TypeOK, Goto, Steps, facts, commands
  <2> QED BY <1>6, <2>1, <2>2 DEF Decide
<1>7. ASSUME NEW r \in Request, Bind(r) PROVE TypeOK'
  <2>1. command[r] \in Input /\ command[r].key \in Key
    BY <1>7, <1>c, CommandTypes DEF Bind
  <2>2. [command |-> command[r], manifest |-> None] \in Bindings
    BY <2>1 DEF Bindings
  <2>3. binding' \in [Key -> Bindings \cup {None}]
    BY <1>7, <2>1, <2>2 DEF Bind, TypeOK
  <2> QED BY <1>7, <2>3 DEF Bind, Answer, Forget, TypeOK, Goto, Steps, facts
<1>8. ASSUME NEW r \in Request, Prepare(r) PROVE TypeOK'
  <2>1. command[r].key \in Key
    BY <1>8 DEF Prepare, KeysInv, Commanded, Grants, Revokes
  <2>2. binding[command[r].key] \in Bindings
    BY <1>8, <2>1 DEF Prepare, KeysInv, PreparedOnce, TypeOK
  <2>3. binding' \in [Key -> Bindings \cup {None}]
    BY <1>8, <2>1, <2>2 DEF Prepare, TypeOK, Bindings
  <2> QED BY <1>8, <2>3 DEF Prepare, TypeOK, Goto, Steps, facts, reads
<1>9. ASSUME NEW r \in Request, NotFound(r) PROVE TypeOK'
  BY <1>9 DEF NotFound, Answer, Forget, TypeOK, Goto, Steps, facts, commands
<1>10. ASSUME NEW r \in Request, Execute(r) PROVE TypeOK'
  <2>1. command[r].key \in Key
    BY <1>10 DEF Execute, KeysInv, Commanded, Grants, Revokes
  <2> QED BY <1>10, <2>1 DEF Execute, TypeOK, Goto, Steps, facts, reads
<1>11. ASSUME NEW r \in Request, StoreGrant(r) PROVE TypeOK'
  <2>1. Lifecycle(command[r], "active") \in Lifecycles
    BY <1>11, <1>c, CommandTypes, GrantTypes DEF StoreGrant
  <2>2. /\ life' \in [Id \cup {Seed} -> Lifecycles \cup {None}]
        /\ held' \in [Request -> SUBSET Assignments]
    BY <1>11, <2>1, PutTypes DEF StoreGrant, TypeOK
  <2> QED BY <1>11, <2>2 DEF StoreGrant, TypeOK, Goto, Steps, facts, commands, reads
<1>12. ASSUME NEW r \in Request, StoreRevoke(r) PROVE TypeOK'
  <2>1. command[r].id \in Id \cup {Seed}
    BY <1>12, <1>c, CommandTypes DEF StoreRevoke, Revokes
  <2>2. CASE UNCHANGED <<life, held>>
    BY <1>12, <2>2 DEF StoreRevoke, TypeOK, Goto, Steps, facts, commands, reads
  <2>3. CASE /\ life[command[r].id] # None
             /\ Put(command[r].id, [life[command[r].id] EXCEPT !.status = "revoked"])
    <3>1. [life[command[r].id] EXCEPT !.status = "revoked"] \in Lifecycles
      BY <2>1, <2>3, RevokedTypes DEF TypeOK
    <3>2. /\ life' \in [Id \cup {Seed} -> Lifecycles \cup {None}]
          /\ held' \in [Request -> SUBSET Assignments]
      BY <2>1, <2>3, <3>1, PutTypes
    <3> QED BY <1>12, <3>2 DEF StoreRevoke, TypeOK, Goto, Steps, facts, commands, reads
  <2> QED BY <1>12, <2>2, <2>3 DEF StoreRevoke
<1>13. ASSUME NEW r \in Request, Settle(r) PROVE TypeOK'
  <2>1. command[r].key \in Key
    BY <1>13 DEF Settle, KeysInv, Commanded, Grants, Revokes
  <2> QED BY <1>13, <2>1 DEF Settle, Answer, Forget, TypeOK, Goto, Steps, facts
<1>14. ASSUME NEW p \in Principal, Confirm(p) PROVE TypeOK'
  BY <1>14 DEF Confirm, TypeOK, StripeState, commands, reads
<1>15. CASE Tick
  BY <1>15 DEF Tick, TypeOK, facts, commands, reads
<1>16. CASE UNCHANGED vars
  BY <1>16 DEF TypeOK, vars, facts, commands, reads
<1> QED BY <1>1, <1>2, <1>3, <1>4, <1>5, <1>6, <1>7, <1>8, <1>9, <1>10, <1>11,
   <1>12, <1>13, <1>14, <1>15, <1>16 DEF Next

-----------------------------------------------------------------------------
\* Every step keeps a key and its lifecycle together.

\* A request that goes on without beginning to prepare.
Continues(r) ==
    \/ step'[r] = step[r] /\ command'[r] = command[r]
    \/ step'[r] = "idle"
    \/ step'[r] = "resolving" /\ command'[r] \in Input
    \/ /\ step[r] # "idle" /\ command'[r] = command[r]
       /\ \/ step'[r] = "allowed"
          \/ /\ step'[r] \in {"bound", "storing", "stored"}
             /\ command[r] \in Grants \cup Revokes
             /\ binding[command[r].key] # None

\* Where nobody begins to prepare and no key is bound anew, requests keep
\* their commands, and one at most prepares each.
LEMMA RequestsContinue ==
  ASSUME Commanded, PreparedOnce, UNCHANGED binding,
         \A r \in Request : Continues(r)
  PROVE  Commanded' /\ PreparedOnce'
BY DEF Commanded, PreparedOnce, Continues

\* Steps that read, decide, wait or answer.
LEMMA AtRestKeepsKeys ==
  ASSUME HostInv, UNCHANGED <<binding, life>>, \A r \in Request : Continues(r)
  PROVE  KeysInv'
BY RequestsContinue DEF HostInv, KeysInv, LifecycleBound

LEMMA NextKeys == HostInv /\ [Next]_vars => KeysInv'
<1> SUFFICES ASSUME HostInv, [Next]_vars PROVE KeysInv'
  OBVIOUS
<1> USE NamesAssumption, NoneAssumption DEF HostInv
<1>c. \A r \in Request : step[r] # "idle" => command[r] \in Input
  BY DEF KeysInv, Commanded
<1>1. ASSUME NEW r \in Request, NEW c \in Input, Arrive(r, c) PROVE KeysInv'
  BY <1>1, AtRestKeepsKeys DEF Arrive, Continues, Goto, TypeOK, commands
<1>2. ASSUME NEW r \in Request, NEW s \in Scope, ListRoles(r, s) PROVE KeysInv'
  BY <1>2, AtRestKeepsKeys DEF ListRoles, Continues, commands
<1>3. ASSUME NEW r \in Request, Load(r) \/ Loaded(r) PROVE KeysInv'
  BY <1>3, AtRestKeepsKeys DEF Load, Loaded, Continues, commands
<1>4. ASSUME NEW r \in Request, ResolveFails(r) \/ Visited(r) \/ NotFound(r)
      PROVE  KeysInv'
  BY <1>4, AtRestKeepsKeys
     DEF ResolveFails, Visited, NotFound, Answer, Forget, Continues, Goto, TypeOK, commands
<1>5. ASSUME NEW r \in Request, Decide(r) PROVE KeysInv'
  BY <1>5, AtRestKeepsKeys DEF Decide, Answer, Forget, Continues, Goto, TypeOK, commands
<1>6. ASSUME NEW r \in Request, Bind(r) PROVE KeysInv'
  <2> DEFINE k == command[r].key
  <2>1. command[r] \in Grants \cup Revokes /\ k \in Key
    BY <1>6, <1>c, CommandTypes DEF Bind
  <2>2. CASE UNCHANGED binding
    <3>1. CASE Bound(k) /\ Goto(r, "bound") /\ UNCHANGED command
      <4>1. \A s \in Request : Continues(s)
        BY <1>6, <2>1, <3>1 DEF Bind, Continues, Goto, TypeOK, Bound
      <4> QED BY <1>6, <2>2, <4>1, AtRestKeepsKeys DEF Bind
    <3>2. CASE Answer(r)
      <4>1. \A s \in Request : Continues(s)
        BY <3>2 DEF Answer, Continues, Goto, TypeOK
      <4> QED BY <1>6, <2>2, <4>1, AtRestKeepsKeys DEF Bind
    <3>3. CASE ~Bound(k)
      <4>1. binding'[k] = [command |-> command[r], manifest |-> None]
        BY <1>6, <2>1, <3>3 DEF Bind, TypeOK
      <4>2. binding'[k] # None
        BY <4>1, <1>c, <1>6 DEF Bind, Bindings
      <4> QED BY <2>2, <3>3, <4>2 DEF Bound
    <3> QED BY <1>6, <3>1, <3>2, <3>3 DEF Bind, Forget
  <2>3. CASE ~Bound(k)
    <3>1. /\ binding' = [binding EXCEPT ![k] = [command |-> command[r], manifest |-> None]]
          /\ step' = [step EXCEPT ![r] = "preparing"]
          /\ UNCHANGED <<command, life>>
      BY <1>6, <2>3 DEF Bind, Goto, facts
    <3>2. [command |-> command[r], manifest |-> None] # None
      BY <1>c, <1>6 DEF Bind, Bindings
    <3>3. Commanded'
      BY <2>1, <3>1, <1>c, <1>6 DEF Bind, KeysInv, Commanded, TypeOK
    <3>4. PreparedOnce'
      BY <2>1, <2>3, <3>1, <3>2 DEF KeysInv, Commanded, PreparedOnce, Bound, TypeOK
    <3>5. LifecycleBound'
      BY <2>1, <2>3, <3>1 DEF KeysInv, LifecycleBound, Bound, TypeOK
    <3> QED BY <3>3, <3>4, <3>5 DEF KeysInv
  <2> QED BY <1>6, <2>2, <2>3 DEF Bind
<1>7. ASSUME NEW r \in Request, Prepare(r) PROVE KeysInv'
  <2> DEFINE k == command[r].key
  <2>1. /\ command[r] \in Grants \cup Revokes /\ k \in Key
        /\ binding[k] # None /\ binding[k].manifest = None
    BY <1>7 DEF Prepare, KeysInv, Commanded, PreparedOnce, Grants, Revokes
  <2>2. PICK m \in Id \cup {Seed, "absent"} :
          binding' = [binding EXCEPT ![k].manifest = m]
    BY <1>7 DEF Prepare
  <2>3. binding[k] \in Bindings /\ binding'[k] \in Bindings
    BY <2>1, <2>2 DEF TypeOK, Bindings
  <2>4. /\ step' = [step EXCEPT ![r] = "bound"]
        /\ UNCHANGED <<command, life>>
    BY <1>7 DEF Prepare, Goto, facts
  <2>5. Commanded'
    BY <2>1, <2>4, <1>c, <1>7 DEF Prepare, KeysInv, Commanded, TypeOK
  <2>6. PreparedOnce'
    <3>1. ASSUME NEW s \in Request, step'[s] = "preparing"
          PROVE  step[s] = "preparing" /\ command[s].key # k
      BY <1>7, <2>4, <3>1 DEF Prepare, KeysInv, PreparedOnce, TypeOK
    <3>2. ASSUME NEW s \in Request,
                 step'[s] \in {"preparing", "bound", "storing", "stored"}
          PROVE  command[s].key \in Key /\ binding[command[s].key] # None
      BY <2>1, <2>4, <3>2 DEF KeysInv, Commanded, PreparedOnce, Grants, Revokes, TypeOK
    <3>3. ASSUME NEW s \in Request,
                 step'[s] \in {"preparing", "bound", "storing", "stored"}
          PROVE  binding'[command[s].key] # None
      <4>1. command[s].key \in Key /\ binding[command[s].key] # None
        BY <3>2, <3>3
      <4> QED BY <2>1, <2>2, <2>3, <4>1 DEF TypeOK
    <3>4. ASSUME NEW s \in Request, step'[s] = "preparing"
          PROVE  binding'[command[s].key].manifest = None
      <4>1. command[s].key \in Key /\ command[s].key # k /\ step[s] = "preparing"
        BY <3>1, <3>2, <3>4
      <4>2. binding'[command[s].key] = binding[command[s].key]
        BY <2>1, <2>2, <4>1 DEF TypeOK
      <4> QED BY <4>1, <4>2 DEF KeysInv, PreparedOnce
    <3>5. \A s, u \in Request :
             step'[s] = "preparing" /\ step'[u] = "preparing"
               /\ command[s].key = command[u].key => s = u
      BY <3>1 DEF KeysInv, PreparedOnce
    <3> QED BY <2>4, <3>3, <3>4, <3>5 DEF PreparedOnce
  <2>7. LifecycleBound'
    BY <2>1, <2>2, <2>4 DEF KeysInv, LifecycleBound, TypeOK
  <2> QED BY <2>5, <2>6, <2>7 DEF KeysInv
<1>8. ASSUME NEW r \in Request, Execute(r) \/ Settle(r) PROVE KeysInv'
  <2>1. /\ command[r] \in Grants \cup Revokes
        /\ binding[command[r].key] # None
    BY <1>8 DEF Execute, Settle, KeysInv, Commanded, PreparedOnce
  <2>2. \A s \in Request : Continues(s)
    BY <1>8, <2>1 DEF Execute, Settle, Answer, Continues, Goto, TypeOK
  <2> QED BY <1>8, <2>2, AtRestKeepsKeys DEF Execute, Settle
<1>9. ASSUME NEW r \in Request, StoreGrant(r) PROVE KeysInv'
  <2>1. command[r] \in Grants /\ UNCHANGED <<binding, command>>
    BY <1>9, <1>c, CommandTypes DEF StoreGrant, commands
  <2>2. \A s \in Request : Continues(s)
    BY <1>9, <2>1 DEF StoreGrant, Continues, Goto, TypeOK, KeysInv, PreparedOnce
  <2>3. CASE UNCHANGED life
    BY <2>1, <2>2, <2>3, AtRestKeepsKeys
  <2>4. ASSUME NEW i \in Id, binding[command[r].key].manifest = i, life[i] = None,
               Put(i, Lifecycle(command[r], "active"))
        PROVE  KeysInv'
    <3>1. /\ life' = [life EXCEPT ![i] = Lifecycle(command[r], "active")]
          /\ command[r].key \in Key
      BY <2>1, <2>4 DEF Put, Grants
    <3>2. binding[command[r].key] # None
      BY <1>9 DEF StoreGrant, KeysInv, PreparedOnce
    <3>3. LifecycleBound'
      BY <2>1, <2>4, <3>1, <3>2 DEF KeysInv, LifecycleBound, Lifecycle, TypeOK
    <3> QED BY <2>1, <2>2, <3>3, RequestsContinue DEF KeysInv
  <2> QED BY <1>9, <2>3, <2>4 DEF StoreGrant
<1>10. ASSUME NEW r \in Request, StoreRevoke(r) PROVE KeysInv'
  <2>1. /\ command[r] \in Revokes /\ command[r].id \in Id \cup {Seed}
        /\ UNCHANGED <<binding, command>>
    BY <1>10, <1>c, CommandTypes DEF StoreRevoke, Revokes, commands
  <2>2. \A s \in Request : Continues(s)
    BY <1>10, <2>1 DEF StoreRevoke, Continues, Goto, TypeOK, KeysInv, PreparedOnce
  <2>3. CASE UNCHANGED life
    BY <2>1, <2>2, <2>3, AtRestKeepsKeys
  <2>4. CASE /\ life[command[r].id] # None
             /\ life' = [life EXCEPT ![command[r].id] =
                           [life[command[r].id] EXCEPT !.status = "revoked"]]
    <3>1. life[command[r].id] \in Lifecycles
      BY <2>1, <2>4 DEF TypeOK
    <3>2. [life[command[r].id] EXCEPT !.status = "revoked"].key = life[command[r].id].key
      BY <3>1 DEF Lifecycles
    <3>3. LifecycleBound'
      BY <2>1, <2>4, <3>2 DEF KeysInv, LifecycleBound, TypeOK
    <3> QED BY <2>1, <2>2, <3>3, RequestsContinue DEF KeysInv
  <2> QED BY <1>10, <2>3, <2>4 DEF StoreRevoke, Put
<1>11. ASSUME NEW p \in Principal, Confirm(p) PROVE KeysInv'
  BY <1>11, AtRestKeepsKeys DEF Confirm, Continues, commands
<1>12. CASE Tick
  BY <1>12, AtRestKeepsKeys DEF Tick, Continues, commands
<1>13. CASE UNCHANGED vars
  BY <1>13, AtRestKeepsKeys DEF vars, Continues, commands
<1> QED BY <1>1, <1>2, <1>3, <1>4, <1>5, <1>6, <1>7, <1>8, <1>9, <1>10, <1>11,
   <1>12, <1>13 DEF Next

-----------------------------------------------------------------------------
\* Every step keeps what a request has read vouched for.

\* Confirmations only grow.
Confirms ==
    \A p \in Principal, f \in Feature : confirmed[p][f] \in Nat =>
      confirmed'[p][f] \in Nat /\ confirmed[p][f] <= confirmed'[p][f]

\* A request that does not move.
Waits(r) ==
    /\ step'[r] = step[r] /\ command'[r] = command[r] /\ awaiting'[r] = awaiting[r]
    /\ roles'[r] = roles[r] /\ state'[r] = state[r] /\ entitled'[r] = entitled[r]

\* What its actor holds goes on being counted.
Holds(r) ==
    /\ held[r] \subseteq held'[r]
    /\ step[r] = "resolving" => ActiveOf(command[r].actor)' \subseteq held'[r]

LEMMA EarnedStays ==
  ASSUME Confirms, MaxStateAge \in Nat, NEW n, NEW e, e.at \in Nat, NEW p \in Principal,
         Earned(n, e, p)
  PROVE  Earned(n, e, p)'
BY DEF Confirms, Earned

LEMMA VouchedStays ==
  ASSUME Confirms, NEW s \in StripeState, NEW p \in Principal, Vouched(s, p)
  PROVE  Vouched(s, p)'
BY DEF Confirms, Vouched, StripeState

\* A request that waits stays sound while others move.
LEMMA WaitingStaysSound ==
  ASSUME HostInv, NEW r \in Request, Waits(r), Holds(r), Confirms
  PROVE  Sound(r)'
<1>1. Sound(r)
  BY DEF HostInv, AccessInv
<1>2. step[r] # "idle" => command[r].actor \in Principal
  BY CommandTypes DEF HostInv, KeysInv, Commanded
<1>3. ResolvingHolds(r)'
  BY <1>1 DEF Sound, ResolvingHolds, Waits, Holds, Reads
<1>4. RolesHeld(r)'
  BY <1>1 DEF Sound, RolesHeld, Waits, Holds, Reads
<1>5. StateConfirmed(r)'
  BY <1>1, <1>2, VouchedStays DEF Sound, StateConfirmed, Waits, Vouched
<1>6. EntitledConfirmed(r)'
  BY <1>1, <1>2, EarnedStays, AgeAssumption
     DEF Sound, EntitledConfirmed, Ready, Waits, Earned
<1>7. DecisionFollows(r)'
  BY <1>1 DEF Sound, DecisionFollows, Waits, Asked
<1> QED BY <1>3, <1>4, <1>5, <1>6, <1>7 DEF Sound

\* Nothing is asked of a request past its decision, or answered.
LEMMA PastDecisionSound ==
  ASSUME NEW r \in Request,
         \/ step'[r] \in {"preparing", "bound", "storing", "stored"}
         \/ step'[r] = "idle" /\ roles'[r] = {}
  PROVE  Sound(r)'
BY DEF Sound, ResolvingHolds, RolesHeld, StateConfirmed, EntitledConfirmed, Ready,
           DecisionFollows

\* Facts that rest stay true.
LEMMA FactsRest ==
  ASSUME HostInv, UNCHANGED <<now, facts>>
  PROVE  Confirms /\ ConfirmedPast' /\ StripeConfirmed'
BY DEF HostInv, TypeOK, AccessInv, Confirms, ConfirmedPast, StripeConfirmed, Vouched, facts

\* A step of one request, the lifecycles and the facts at rest.
LEMMA OneMoves ==
  ASSUME HostInv, NEW r \in Request, UNCHANGED <<now, facts, life>>, Sound(r)',
         \A s \in Request \ {r} : Waits(s) /\ held'[s] = held[s]
  PROVE  AccessInv'
<1>1. ASSUME NEW s \in Request \ {r} PROVE Sound(s)'
  <2>1. Holds(s)
    BY <1>1 DEF HostInv, AccessInv, Sound, ResolvingHolds, Waits, Holds, ActiveOf
  <2> QED BY <1>1, <2>1, FactsRest, WaitingStaysSound
<1> QED BY <1>1, FactsRest DEF AccessInv

\* A commit changes what principals hold: who resolves is told.
LEMMA CommitCounted ==
  ASSUME HostInv, NEW i \in Id \cup {Seed}, NEW l \in Lifecycles, Put(i, l),
         l.status = "revoked" =>
           life[i] # None /\ life[i].status = "active"
             /\ l.principal = life[i].principal,
         NEW s \in Request, Waits(s)
  PROVE  Holds(s)
<1>1. /\ life' = [life EXCEPT ![i] = l]
      /\ life \in [Id \cup {Seed} -> Lifecycles \cup {None}]
      /\ held \in [Request -> SUBSET Assignments]
  BY DEF HostInv, TypeOK, Put
<1>2. held[s] \subseteq held'[s]
  BY PutTypes DEF HostInv
<1>3. ASSUME step[s] = "resolving" PROVE ActiveOf(command[s].actor)' \subseteq held'[s]
  <2> DEFINE p == command[s].actor
             what(x) == [role |-> x.role, scope |-> x.scope]
  <2>1. ActiveOf(p) \subseteq held[s]
    BY <1>3 DEF HostInv, AccessInv, Sound, ResolvingHolds
  <2>2. ASSUME NEW j \in Id \cup {Seed}, life'[j] # None,
               life'[j].status = "active", life'[j].principal = p
        PROVE  what(life'[j]) \in held'[s]
    <3>1. CASE j # i
      <4>1. what(life[j]) \in ActiveOf(p) /\ life'[j] = life[j]
        BY <1>1, <2>2, <3>1 DEF ActiveOf
      <4> QED BY <4>1, <1>2, <2>1
    <3>2. CASE j = i
      BY <1>1, <1>3, <2>2, <3>2 DEF Put
    <3> QED BY <3>1, <3>2
  <2>3. DOMAIN life' = Id \cup {Seed} /\ command'[s] = command[s]
    BY <1>1 DEF Waits
  <2> QED BY <2>2, <2>3 DEF ActiveOf
<1> QED BY <1>2, <1>3 DEF Holds

LEMMA NextAccess == HostInv /\ [Next]_vars => AccessInv'
<1> SUFFICES ASSUME HostInv, [Next]_vars PROVE AccessInv'
  OBVIOUS
<1>t. TypeOK /\ KeysInv /\ AccessInv
  BY DEF HostInv
<1>c. \A r \in Request : step[r] # "idle" => command[r] \in Input
  BY DEF HostInv, KeysInv, Commanded
<1>n. "state" \notin Scope /\ "answer" \notin Scope
  BY NamesAssumption
<1>1. ASSUME NEW r \in Request, NEW c \in Input, Arrive(r, c) PROVE AccessInv'
  <2>1. /\ step'[r] = "resolving" /\ command'[r] = c /\ awaiting'[r] = Reads(c)
        /\ held'[r] = ActiveOf(c.actor) /\ roles'[r] = {}
    BY <1>1, <1>t DEF Arrive, Goto, TypeOK, AccessInv, Sound, ResolvingHolds
  <2>2. "state" \in Reads(c) /\ "answer" \notin Reads(c)
    BY <1>n, NamesAssumption DEF Reads
  <2>3. ActiveOf(c.actor)' = ActiveOf(c.actor)
    BY <1>1 DEF Arrive, ActiveOf
  <2>4. ActiveOf(command[r].actor)' \subseteq held'[r]
    BY <1>1, <2>1 DEF Arrive, ActiveOf
  <2>5. Sound(r)'
    BY <2>1, <2>2, <2>4
       DEF Sound, ResolvingHolds, RolesHeld, StateConfirmed, EntitledConfirmed, Ready,
           DecisionFollows
  <2> QED BY <1>1, <1>t, <2>5, OneMoves DEF Arrive, Waits, Goto, TypeOK
<1>2. ASSUME NEW r \in Request, NEW s \in Scope, ListRoles(r, s) PROVE AccessInv'
  <2> DEFINE new == {a.role : a \in {x \in ActiveOf(command[r].actor) : InScope(x, s)}}
  <2>1. /\ step[r] = "resolving" /\ s \in awaiting[r]
        /\ step'[r] = "resolving" /\ command' = command /\ held' = held /\ life' = life
        /\ roles'[r] = roles[r] \cup new
        /\ awaiting'[r] = awaiting[r] \ {s}
        /\ state' = state /\ entitled' = entitled /\ confirmed' = confirmed
    BY <1>2, <1>t DEF ListRoles, TypeOK, facts
  <2>2. /\ ActiveOf(command[r].actor) \subseteq held[r]
        /\ awaiting[r] \subseteq Reads(command[r]) \cup {"answer"}
        /\ Sound(r)
    BY <2>1, <1>t DEF AccessInv, Sound, ResolvingHolds
  <2>3. s \in Reads(command[r])
    BY <2>1, <2>2, <1>n
  <2>4. \A x \in new : \E h \in held[r] : h.role = x /\ h.scope \in Reads(command[r])
    BY <2>2, <2>3 DEF InScope
  <2>5. ResolvingHolds(r)'
    BY <2>1, <2>2 DEF ResolvingHolds, ActiveOf, Reads
  <2>6. RolesHeld(r)'
    BY <2>1, <2>2, <2>4 DEF Sound, RolesHeld, Reads
  <2>7. StateConfirmed(r)' /\ EntitledConfirmed(r)'
    BY <2>1, <2>2, <1>n DEF Sound, StateConfirmed, EntitledConfirmed, Ready, Vouched, Earned
  <2> QED BY <1>2, <1>t, <2>5, <2>6, <2>7, OneMoves
          DEF ListRoles, Waits, TypeOK, Sound, DecisionFollows
<1>3. ASSUME NEW r \in Request, Load(r) PROVE AccessInv'
  <2> DEFINE p == command[r].actor
  <2>1. /\ step[r] = "resolving" /\ "state" \in awaiting[r]
        /\ step'[r] = "resolving" /\ command' = command /\ held' = held /\ life' = life
        /\ roles' = roles /\ confirmed' = confirmed
        /\ awaiting'[r] = (awaiting[r] \ {"state"}) \cup {"answer"}
        /\ state'[r] = stripe[p]
    BY <1>3, <1>t DEF Load, TypeOK, facts
  <2>2. Sound(r) /\ p \in Principal
    BY <2>1, <1>t, <1>c, CommandTypes DEF AccessInv
  <2>3. state'[r] \in StripeState /\ Vouched(state'[r], p)
    BY <2>1, <2>2, <1>t DEF AccessInv, StripeConfirmed, TypeOK
  <2>4. ResolvingHolds(r)' /\ RolesHeld(r)'
    BY <2>1, <2>2 DEF Sound, ResolvingHolds, RolesHeld, ActiveOf, Reads
  <2>5. StateConfirmed(r)' /\ EntitledConfirmed(r)'
    BY <2>1, <2>3 DEF StateConfirmed, EntitledConfirmed, Ready, Vouched
  <2> QED BY <1>3, <1>t, <2>4, <2>5, OneMoves DEF Load, Waits, TypeOK, Sound, DecisionFollows
<1>4. ASSUME NEW r \in Request, Loaded(r) PROVE AccessInv'
  <2> DEFINE p == command[r].actor
  <2>1. /\ step[r] = "resolving" /\ "answer" \in awaiting[r]
        /\ step'[r] = "resolving" /\ command' = command /\ held' = held /\ life' = life
        /\ roles' = roles /\ confirmed' = confirmed
        /\ awaiting'[r] = awaiting[r] \ {"answer"}
        /\ StateAccepted(state[r], now)
        /\ entitled'[r] = [names |-> Translated(state[r].features), at |-> now]
    BY <1>4, <1>t DEF Loaded, TypeOK, facts
  <2>2. Sound(r) /\ p \in Principal /\ now \in Nat
    BY <2>1, <1>t, <1>c, CommandTypes DEF AccessInv, TypeOK
  <2>3. state[r] \in StripeState /\ Vouched(state[r], p)
    BY <2>1, <2>2 DEF Sound, StateConfirmed
  <2>4. ASSUME NEW n \in entitled'[r].names PROVE Earned(n, entitled'[r], p)
    <3>1. PICK f \in state[r].features \cap DOMAIN FeatureEntitlements :
            n \in FeatureEntitlements[f]
      BY <2>1, <2>4 DEF Translated, Assigned
    <3>2. /\ f \in Feature /\ confirmed[p][f] \in Nat
          /\ state[r].at <= confirmed[p][f] /\ state[r].at \in Nat
      BY <2>3 DEF Vouched, StripeState
    <3>3. now - MaxStateAge <= confirmed[p][f]
      BY <2>1, <2>2, <3>2, AgeAssumption DEF StateAccepted
    <3> QED BY <2>1, <3>1, <3>2, <3>3 DEF Earned
  <2>5. ResolvingHolds(r)' /\ RolesHeld(r)' /\ StateConfirmed(r)'
    BY <2>1, <2>2
       DEF Sound, ResolvingHolds, RolesHeld, StateConfirmed, ActiveOf, Reads
  <2>6. EntitledConfirmed(r)'
    BY <2>1, <2>2, <2>4 DEF EntitledConfirmed, Earned
  <2> QED BY <1>4, <1>t, <2>5, <2>6, OneMoves DEF Loaded, Waits, TypeOK, Sound, DecisionFollows
<1>5. ASSUME NEW r \in Request, Answer(r), UNCHANGED <<now, facts, life>>
      PROVE  AccessInv'
  BY <1>5, <1>t, PastDecisionSound, OneMoves DEF Answer, Forget, Goto, Waits, TypeOK
<1>6. ASSUME NEW r \in Request,
             ResolveFails(r) \/ Visited(r) \/ NotFound(r) \/ Settle(r)
      PROVE  AccessInv'
  BY <1>5, <1>6 DEF ResolveFails, Visited, NotFound, Settle
<1>7. ASSUME NEW r \in Request, Decide(r) PROVE AccessInv'
  <2>1. CASE Answer(r)
    BY <1>5, <1>7, <2>1 DEF Decide
  <2>2. CASE /\ Goto(r, "allowed")
             /\ UNCHANGED <<command, awaiting, roles, state, entitled, held>>
    <3>1. step[r] = "resolving" /\ awaiting[r] = {} /\ step'[r] = "allowed"
      BY <1>7, <1>t, <2>2 DEF Decide, Goto, TypeOK
    <3>a. Allowed(Asked(r), roles[r], entitled[r].names)
      BY <1>7, <1>t, <2>2 DEF Decide, Answer, Goto, TypeOK, Steps
    <3>2. confirmed' = confirmed /\ Sound(r)
      BY <1>7, <1>t DEF Decide, facts, AccessInv
    <3>3. Sound(r)'
      BY <2>2, <3>1, <3>2, <3>a
         DEF Sound, ResolvingHolds, RolesHeld, StateConfirmed, EntitledConfirmed, Ready,
             Earned, Reads, DecisionFollows, Asked
    <3> QED BY <1>7, <1>t, <2>2, <3>3, OneMoves DEF Decide, Goto, Waits, TypeOK
  <2> QED BY <1>7, <2>1, <2>2 DEF Decide
<1>8. ASSUME NEW r \in Request, Bind(r) PROVE AccessInv'
  <2>1. CASE Answer(r)
    BY <1>5, <1>8, <2>1 DEF Bind
  <2>2. CASE (Goto(r, "bound") \/ Goto(r, "preparing")) /\ Forget(r) /\ UNCHANGED command
    BY <1>8, <1>t, <2>2, PastDecisionSound, OneMoves
       DEF Bind, Forget, Goto, Waits, TypeOK
  <2> QED BY <1>8, <2>1, <2>2 DEF Bind
<1>9. ASSUME NEW r \in Request, Prepare(r) \/ Execute(r) PROVE AccessInv'
  BY <1>9, <1>t, PastDecisionSound, OneMoves
     DEF Prepare, Execute, Goto, Waits, TypeOK, reads
<1>10. ASSUME NEW r \in Request, StoreGrant(r) \/ StoreRevoke(r) PROVE AccessInv'
  <2>1. /\ UNCHANGED <<now, facts, command, reads>> /\ step' = [step EXCEPT ![r] = "stored"]
        /\ command[r] \in Input
    BY <1>10, <1>c DEF StoreGrant, StoreRevoke, Goto
  <2>2. \A s \in Request \ {r} : Waits(s)
    BY <2>1, <1>t DEF Waits, TypeOK, reads
  <2>3. Sound(r)'
    BY <2>1, <1>t, PastDecisionSound DEF TypeOK
  <2>4. CASE UNCHANGED <<life, held>>
    BY <2>1, <2>2, <2>3, <2>4, OneMoves
  <2>5. ASSUME ~UNCHANGED <<life, held>>, NEW s \in Request \ {r} PROVE Holds(s)
    <3>1. CASE StoreGrant(r)
      <4>1. PICK i \in Id : Put(i, Lifecycle(command[r], "active"))
        BY <2>5, <3>1 DEF StoreGrant
      <4>2. Lifecycle(command[r], "active") \in Lifecycles
        BY <2>1, <3>1, CommandTypes, GrantTypes DEF StoreGrant
      <4> QED BY <2>2, <4>1, <4>2, CommitCounted DEF Lifecycle
    <3>2. CASE StoreRevoke(r)
      <4> DEFINE i == command[r].id
                 l == [life[i] EXCEPT !.status = "revoked"]
      <4>1. i \in Id \cup {Seed}
        BY <2>1, <3>2, CommandTypes DEF StoreRevoke, Revokes
      <4>2. life[i] # None /\ life[i].status = "active" /\ Put(i, l)
        BY <2>5, <3>2 DEF StoreRevoke
      <4>3. life[i] \in Lifecycles
        BY <1>t, <4>1, <4>2 DEF TypeOK
      <4>4. l \in Lifecycles /\ l.principal = life[i].principal
        BY <4>3, RevokedTypes DEF Lifecycles
      <4> QED BY <2>2, <4>1, <4>2, <4>4, CommitCounted
    <3> QED BY <1>10, <3>1, <3>2
  <2>6. CASE ~UNCHANGED <<life, held>>
    BY <2>1, <2>2, <2>3, <2>5, <2>6, FactsRest, WaitingStaysSound DEF AccessInv
  <2> QED BY <2>4, <2>6
<1>11. ASSUME NEW p \in Principal, Confirm(p) PROVE AccessInv'
  <2>1. PICK features \in SUBSET Feature :
          /\ stripe' = [stripe EXCEPT ![p] = [at |-> now, features |-> features]]
          /\ confirmed' = [confirmed EXCEPT ![p] =
                             [f \in Feature |-> IF f \in features THEN now ELSE @[f]]]
    BY <1>11 DEF Confirm
  <2>2. ConfirmedPast /\ StripeConfirmed /\ now \in Nat /\ now' = now
    BY <1>11, <1>t DEF Confirm, AccessInv, TypeOK
  <2>3. Confirms
    BY <2>1, <2>2, <1>t DEF Confirms, ConfirmedPast, TypeOK
  <2>4. ConfirmedPast'
    BY <2>1, <2>2, <1>t DEF ConfirmedPast, TypeOK
  <2>5. StripeConfirmed'
    <3>1. ASSUME NEW q \in Principal, q # p PROVE Vouched(stripe[q], q)'
      BY <2>1, <2>2, <3>1, <1>t DEF StripeConfirmed, Vouched, TypeOK
    <3>2. Vouched(stripe[p], p)'
      BY <2>1, <2>2, <1>t DEF Vouched, TypeOK
    <3> QED BY <3>1, <3>2 DEF StripeConfirmed
  <2>6. ASSUME NEW s \in Request PROVE Sound(s)'
    <3>1. Waits(s) /\ Holds(s)
      BY <1>11, <1>t DEF Confirm, Waits, Holds, AccessInv, Sound, ResolvingHolds, ActiveOf, reads
    <3> QED BY <2>3, <3>1, WaitingStaysSound
  <2> QED BY <2>4, <2>5, <2>6 DEF AccessInv
<1>12. CASE Tick
  <2>1. ConfirmedPast' /\ StripeConfirmed' /\ Confirms
    BY <1>12, <1>t
       DEF Tick, facts, AccessInv, ConfirmedPast, StripeConfirmed, Vouched, Confirms, TypeOK
  <2>2. ASSUME NEW s \in Request PROVE Sound(s)'
    <3>1. Waits(s) /\ Holds(s)
      BY <1>12, <1>t DEF Tick, Waits, Holds, AccessInv, Sound, ResolvingHolds, ActiveOf, reads
    <3> QED BY <2>1, <3>1, WaitingStaysSound
  <2> QED BY <2>1, <2>2 DEF AccessInv
<1>13. CASE UNCHANGED vars
  <2>1. ASSUME NEW s \in Request PROVE Sound(s)'
    <3>1. Waits(s) /\ Holds(s)
      BY <1>13, <1>t DEF vars, Waits, Holds, AccessInv, Sound, ResolvingHolds, ActiveOf, reads
    <3> QED BY <1>13, <3>1, FactsRest, WaitingStaysSound DEF vars
  <2> QED BY <1>13, <2>1, FactsRest DEF AccessInv, vars
<1> QED BY <1>1, <1>2, <1>3, <1>4, <1>6, <1>7, <1>8, <1>9, <1>10, <1>11,
   <1>12, <1>13, NamesAssumption DEF Next

-----------------------------------------------------------------------------
\* The invariant holds throughout.
LEMMA Invariant == Spec => []HostInv
<1>1. Init => HostInv
  <2> SUFFICES ASSUME Init PROVE HostInv
    OBVIOUS
  <2> USE NamesAssumption, NoneAssumption
  <2>1. TypeOK
    BY DEF Init, TypeOK, StripeState, Lifecycles, Assignments, Steps
  <2>2. KeysInv
    BY DEF Init, KeysInv, Commanded, PreparedOnce, LifecycleBound
  <2>3. ConfirmedPast /\ StripeConfirmed
    BY DEF Init, ConfirmedPast, StripeConfirmed, Vouched
  <2>4. ASSUME NEW r \in Request PROVE Sound(r)
    BY DEF Init, Sound, ResolvingHolds, RolesHeld, StateConfirmed, EntitledConfirmed, Ready,
           DecisionFollows
  <2> QED BY <2>1, <2>2, <2>3, <2>4 DEF HostInv, AccessInv
<1>2. HostInv /\ [Next]_vars => HostInv'
  BY NextTyped, NextKeys, NextAccess DEF HostInv
<1> QED BY <1>1, <1>2, PTL DEF Spec

\* The host, its requests and its tables keep their types.
THEOREM Typed == Spec => []TypeOK
<1>1. HostInv => TypeOK
  BY DEF HostInv
<1> QED BY <1>1, Invariant, PTL

\* A key makes one lifecycle, however many requests send its command, and
\* whatever has become of the lifecycle.
THEOREM KeysMakeOne == Spec => []OneLifecyclePerKey
<1>1. HostInv => OneLifecyclePerKey
  <2> SUFFICES ASSUME HostInv, NEW i \in Id \cup {Seed}, NEW j \in Id \cup {Seed},
                      life[i] # None, life[j] # None, life[i].key = life[j].key
               PROVE  i = j
    BY DEF OneLifecyclePerKey, HostInv, TypeOK
  <2> QED BY DEF HostInv, KeysInv, LifecycleBound
<1> QED BY <1>1, Invariant, PTL

\* Whatever a request is allowed follows from one fact that held while it ran,
\* for any policy and any movement of roles, entitlements and time.
THEOREM AllowedFollows == Spec => []AllowedWasGranted
<1>1. HostInv => AllowedWasGranted
  <2> SUFFICES ASSUME HostInv, NEW r \in Request, step[r] = "allowed",
                      Asked(r) \notin Defaults
      PROVE  \/ \E h \in held[r] :
                  /\ h.scope \in Reads(command[r])
                  /\ h.role \in DOMAIN RolePermissions
                  /\ Asked(r) \in RolePermissions[h.role]
             \/ \E f \in DOMAIN FeatureEntitlements, e \in DOMAIN EntitlementPermissions :
                  /\ confirmed[command[r].actor][f] # None
                  /\ entitled[r].at - MaxStateAge <= confirmed[command[r].actor][f]
                  /\ e \in FeatureEntitlements[f]
                  /\ Asked(r) \in EntitlementPermissions[e]
    BY DEF AllowedWasGranted
  <2>1. Sound(r)
    BY DEF HostInv, AccessInv
  <2>2. \/ \E x \in roles[r] \cap DOMAIN RolePermissions :
             Asked(r) \in RolePermissions[x]
        \/ \E e \in entitled[r].names \cap DOMAIN EntitlementPermissions :
             Asked(r) \in EntitlementPermissions[e]
    BY <2>1 DEF Sound, DecisionFollows, Allowed, Permissions, Assigned
  <2>3. ASSUME NEW x \in roles[r] \cap DOMAIN RolePermissions,
               Asked(r) \in RolePermissions[x]
        PROVE  \E h \in held[r] : /\ h.scope \in Reads(command[r])
                                  /\ h.role \in DOMAIN RolePermissions
                                  /\ Asked(r) \in RolePermissions[h.role]
    BY <2>1, <2>3 DEF Sound, RolesHeld
  <2>4. ASSUME NEW e \in entitled[r].names \cap DOMAIN EntitlementPermissions,
               Asked(r) \in EntitlementPermissions[e]
        PROVE  \E f \in DOMAIN FeatureEntitlements :
                 /\ confirmed[command[r].actor][f] # None
                 /\ entitled[r].at - MaxStateAge <= confirmed[command[r].actor][f]
                 /\ e \in FeatureEntitlements[f]
    BY <2>1, <2>4, NoneAssumption DEF Sound, EntitledConfirmed, Ready, Earned
  <2> QED BY <2>2, <2>3, <2>4
<1> QED BY <1>1, Invariant, PTL
=============================================================================
