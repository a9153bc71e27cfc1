---------------------------- MODULE ReferenceHost ----------------------------
(***************************************************************************)
(* examples/reference-api/reference-integration.ts: a host that resolves   *)
(* access from roles and entitlements at each request, and administers     *)
(* roles by commands bound to idempotency keys.                            *)
(*                                                                         *)
(* A step is what runs between two awaits of a request.  The role store is *)
(* atomic, as RoleStoreRefinement shows; its answer to a command can be    *)
(* lost.  Stripe state is confirmed from outside, and loads are answered   *)
(* late.                                                                   *)
(***************************************************************************)
EXTENDS AccessResolution

CONSTANTS
    Principal, Role, Scope, Id, Key, Feature,
    Application,  \* the scope of role administration
    Manage,       \* "roles.manage"
    Guarded,      \* the permission of a protected route
    Seed,         \* the assignment made before the host listens
    Founder,      \* its principal
    Admin,        \* its role
    Subscriber,   \* whose Stripe state is confirmed again in a run
    Input,        \* what requests ask
    Request,      \* requests at the same time
    Last,         \* the last instant of a run
    None

ASSUME NamesAssumption ==
    /\ Application \in Scope /\ Founder \in Principal /\ Admin \in Role
    /\ Subscriber \subseteq Principal
    /\ Seed \notin Id
    /\ Scope \cap {"state", "answer"} = {}

Grants  == [kind : {"grant"}, actor : Principal, key : Key,
            principal : Principal, role : Role, scope : Scope]
Revokes == [kind : {"revoke"}, actor : Principal, key : Key, id : Id \cup {Seed}]
Visits  == [kind : {"visit"}, actor : Principal]

ASSUME InputAssumption == Input \subseteq Grants \cup Revokes \cup Visits

\* What a key is bound to.
Bindings == [command : Input, manifest : Id \cup {Seed, "absent", None}]

ASSUME NoneAssumption ==
    None \notin Nat \cup Id \cup {Seed} \cup Key \cup Request \cup Bindings

VARIABLES
    now,
    stripe,     \* principal -> persisted state: at, features
    confirmed,  \* principal -> feature -> when Stripe last confirmed it, or None
    life,       \* id -> lifecycle, or None
    binding,    \* key -> administrativeCommandManifests: command, manifest
    running,    \* key -> the request whose execution is under way, or None
    step,       \* request -> the await it is at
    command,    \* request -> what it was asked
    awaiting,   \* request -> reads not answered yet
    roles,      \* request -> roles listed
    state,      \* request -> Stripe state loaded, or None
    entitled,   \* request -> its entitlements, and when they were read, or None
    held        \* request -> what its principal held at some instant of it

facts    == <<stripe, confirmed>>
commands == <<binding, running>>
reads    == <<awaiting, roles, state, entitled>>
vars == <<now, facts, life, commands, step, command, reads, held>>

Lifecycle(c, status) ==
    [principal |-> c.principal, role |-> c.role, scope |-> c.scope,
     key |-> c.key, status |-> status]

Init ==
    /\ now = 0
    /\ stripe = [p \in Principal |-> [at |-> 0, features |-> {}]]
    /\ confirmed = [p \in Principal |-> [f \in Feature |-> None]]
    /\ life = [i \in Id \cup {Seed} |->
                 IF i # Seed THEN None
                 ELSE [principal |-> Founder, role |-> Admin, scope |-> Application,
                       key |-> None, status |-> "active"]]
    /\ binding = [k \in Key |-> None]
    /\ running = [k \in Key |-> None]
    /\ step = [r \in Request |-> "idle"]
    /\ command = [r \in Request |-> None]
    /\ awaiting = [r \in Request |-> {}]
    /\ roles = [r \in Request |-> {}]
    /\ state = [r \in Request |-> None]
    /\ entitled = [r \in Request |-> None]
    /\ held = [r \in Request |-> {}]

Goto(r, label) == step' = [step EXCEPT ![r] = label]

\* What was read is not kept.
Forget(r) ==
    /\ awaiting' = [awaiting EXCEPT ![r] = {}]
    /\ roles' = [roles EXCEPT ![r] = {}]
    /\ state' = [state EXCEPT ![r] = None]
    /\ entitled' = [entitled EXCEPT ![r] = None]
    /\ held' = [held EXCEPT ![r] = {}]

Answer(r) ==
    /\ Goto(r, "idle")
    /\ command' = [command EXCEPT ![r] = None]
    /\ Forget(r)

ActiveOf(p) ==
    {[role |-> life[i].role, scope |-> life[i].scope] :
        i \in {x \in DOMAIN life : life[x] # None /\ life[x].status = "active"
                                                  /\ life[x].principal = p}}

-----------------------------------------------------------------------------
\* Resolution.

\* What resolveApplicationAccessForPrincipal, or resolveTargetAccess, reads.
Reads(c) == IF c.kind = "visit" THEN Scope \cup {"state"} ELSE {Application, "state"}

Arrive(r, c) ==
    /\ step[r] = "idle"
    /\ Goto(r, "resolving")
    /\ command' = [command EXCEPT ![r] = c]
    /\ awaiting' = [awaiting EXCEPT ![r] = Reads(c)]
    /\ held' = [held EXCEPT ![r] = ActiveOf(c.actor)]
    /\ UNCHANGED <<now, facts, life, commands, roles, state, entitled>>

\* Slip: the assignments of a principal are listed whatever their scope.
InAnyScope(assignment, scope) == TRUE
InScope(assignment, scope) == assignment.scope = scope

\* listActiveRoleAssignments of one scope.
ListRoles(r, s) ==
    /\ step[r] = "resolving" /\ s \in awaiting[r]
    /\ roles' = [roles EXCEPT ![r] = @ \cup
                   {a.role : a \in {x \in ActiveOf(command[r].actor) : InScope(x, s)}}]
    /\ awaiting' = [awaiting EXCEPT ![r] = @ \ {s}]
    /\ UNCHANGED <<now, facts, life, commands, step, command, state, entitled, held>>

\* The persisted state is read; for administration after the roles.
Load(r) ==
    /\ step[r] = "resolving" /\ "state" \in awaiting[r]
    /\ command[r].kind = "visit" \/ awaiting[r] = {"state"}
    /\ state' = [state EXCEPT ![r] = stripe[command[r].actor]]
    /\ awaiting' = [awaiting EXCEPT ![r] = (@ \ {"state"}) \cup {"answer"}]
    /\ UNCHANGED <<now, facts, life, commands, step, command, roles, entitled, held>>

\* The load is answered: its age counts at this instant.
Loaded(r) ==
    /\ step[r] = "resolving" /\ "answer" \in awaiting[r]
    /\ StateAccepted(state[r], now)
    /\ entitled' = [entitled EXCEPT ![r] =
                      [names |-> Translated(state[r].features), at |-> now]]
    /\ state' = [state EXCEPT ![r] = None]
    /\ awaiting' = [awaiting EXCEPT ![r] = @ \ {"answer"}]
    /\ UNCHANGED <<now, facts, life, commands, step, command, roles, held>>

\* The state is too old, or a read fails.
ResolveFails(r) ==
    /\ step[r] = "resolving" /\ awaiting[r] # {}
    /\ Answer(r)
    /\ UNCHANGED <<now, facts, life, commands>>

Asked(r) == IF command[r].kind = "visit" THEN Guarded ELSE Manage

\* Everything read: the decision; a command that is allowed has its body read.
Decide(r) ==
    /\ step[r] = "resolving" /\ awaiting[r] = {}
    /\ IF Allowed(Asked(r), roles[r], entitled[r].names)
       THEN /\ Goto(r, "allowed")
            /\ UNCHANGED <<command, awaiting, roles, state, entitled, held>>
       ELSE Answer(r)
    /\ UNCHANGED <<now, facts, life, commands>>

\* The protected handler, or a body that is no command.
Visited(r) ==
    /\ step[r] = "allowed"
    /\ Answer(r)
    /\ UNCHANGED <<now, facts, life, commands>>

-----------------------------------------------------------------------------
\* Commands.

\* Slip: a key counts as bound once its command has been prepared.
BoundPrepared(k) == binding[k] # None /\ binding[k].manifest # None
\* bindAdministrativeCommand: registered before the first await.
Bound(k) == binding[k] # None

Bind(r) ==
    LET c == command[r]
    IN /\ step[r] = "allowed" /\ c.kind # "visit"
       /\ \/ /\ Bound(c.key) /\ binding[c.key].command = c
             /\ Goto(r, "bound") /\ Forget(r)
             /\ UNCHANGED <<binding, command>>
          \/ /\ Bound(c.key) /\ binding[c.key].command # c
             /\ Answer(r)
             /\ UNCHANGED binding
          \/ /\ ~Bound(c.key)
             /\ binding' = [binding EXCEPT ![c.key] = [command |-> c, manifest |-> None]]
             /\ Goto(r, "preparing") /\ Forget(r)
             /\ UNCHANGED command
       /\ UNCHANGED <<now, facts, life, running>>

\* A grant draws an id of its own; a revoke reads the assignment: when there is
\* none, or the read fails, its key has nothing to do, for good.
Prepare(r) ==
    LET c == command[r]
        used == {binding[k].manifest : k \in {x \in Key : binding[x] # None}}
    IN /\ step[r] = "preparing"
       /\ \E m \in Id \cup {Seed, "absent"} :
            /\ IF c.kind = "grant" THEN m \in Id /\ life[m] = None /\ m \notin used
               ELSE m \in {"absent", c.id} /\ (m = c.id => life[c.id] # None)
            /\ binding' = [binding EXCEPT ![c.key].manifest = m]
       /\ Goto(r, "bound")
       /\ UNCHANGED <<now, facts, life, running, command, reads, held>>

\* A revoke of what was not there, or could not be read.
NotFound(r) ==
    /\ step[r] = "bound" /\ binding[command[r].key].manifest = "absent"
    /\ Answer(r)
    /\ UNCHANGED <<now, facts, life, commands>>

\* The queue of the key lets the next execution begin.
Execute(r) ==
    LET k == command[r].key
    IN /\ step[r] = "bound" /\ binding[k].manifest \notin {None, "absent"}
       /\ running[k] = None
       /\ running' = [running EXCEPT ![k] = r]
       /\ Goto(r, "storing")
       /\ UNCHANGED <<now, facts, life, binding, command, reads, held>>

TupleFree(c) ==
    [role |-> c.role, scope |-> c.scope] \notin ActiveOf(c.principal)

Put(i, lifecycle) ==
    /\ life' = [life EXCEPT ![i] = lifecycle]
    /\ held' = [r \in Request |->
                  IF lifecycle.status = "active" /\ step[r] = "resolving"
                       /\ command[r].actor = lifecycle.principal
                  THEN held[r] \cup {[role |-> lifecycle.role, scope |-> lifecycle.scope]}
                  ELSE held[r]]

\* grantRoleAssignmentWithAudit, by the manifest's id.
StoreGrant(r) ==
    LET c == command[r]
    IN /\ step[r] = "storing" /\ c.kind = "grant"
       /\ \E i \in Id :
            /\ binding[c.key].manifest = i
            /\ IF life[i] = None /\ TupleFree(c) THEN Put(i, Lifecycle(c, "active"))
                                                 ELSE UNCHANGED <<life, held>>
       /\ Goto(r, "stored")
       /\ UNCHANGED <<now, facts, commands, command, reads>>

\* revokeRoleAssignmentWithAudit, of the version the preparation read.
StoreRevoke(r) ==
    LET c == command[r]
    IN /\ step[r] = "storing" /\ c.kind = "revoke"
       /\ IF life[c.id] # None /\ life[c.id].status = "active"
          THEN Put(c.id, [life[c.id] EXCEPT !.status = "revoked"])
          ELSE UNCHANGED <<life, held>>
       /\ Goto(r, "stored")
       /\ UNCHANGED <<now, facts, commands, command, reads>>

\* An execution ends, its answer lost or not, with or without its write: the
\* queue goes on, and what was prepared stays.
Settle(r) ==
    /\ step[r] \in {"storing", "stored"}
    /\ running' = [running EXCEPT ![command[r].key] = None]
    /\ Answer(r)
    /\ UNCHANGED <<now, facts, life, binding>>

-----------------------------------------------------------------------------
\* Stripe is asked again, and what it says is persisted.
Confirm(p) ==
    \E features \in SUBSET Feature :
      /\ stripe' = [stripe EXCEPT ![p] = [at |-> now, features |-> features]]
      /\ confirmed' = [confirmed EXCEPT ![p] =
                         [f \in Feature |-> IF f \in features THEN now ELSE @[f]]]
      /\ UNCHANGED <<now, life, commands, step, command, reads, held>>

Tick ==
    /\ now < Last
    /\ now' = now + 1
    /\ UNCHANGED <<facts, life, commands, step, command, reads, held>>

Next ==
    \/ \E r \in Request :
         \/ \E c \in Input : Arrive(r, c)
         \/ \E s \in Scope : ListRoles(r, s)
         \/ Load(r) \/ Loaded(r) \/ ResolveFails(r) \/ Decide(r) \/ Visited(r)
         \/ Bind(r) \/ Prepare(r) \/ NotFound(r) \/ Execute(r)
         \/ StoreGrant(r) \/ StoreRevoke(r) \/ Settle(r)
    \/ \E p \in Subscriber : Confirm(p)
    \/ Tick

Spec == Init /\ [][Next]_vars

-----------------------------------------------------------------------------
\* Properties.

\* However often a command is sent, beside itself or after its lifecycle was
\* revoked, its key makes one lifecycle: an old grant is never granted again
\* (examples/reference-api/README.md, "Role administration").
OneLifecyclePerKey ==
    \A i, j \in DOMAIN life :
      life[i] # None /\ life[j] # None /\ life[i].key = life[j].key => i = j

\* What a request was allowed follows from a single fact that held while it
\* ran: a role its principal held, in a scope that was asked about, or an
\* entitlement Stripe confirmed within the bound of the instant it was read;
\* though roles, entitlements and time move between the reads (resolveAccess
\* over reads that are no snapshot).
AllowedWasGranted ==
    \A r \in Request : step[r] = "allowed" =>
      \/ Asked(r) \in Defaults
      \/ \E h \in held[r] :
           /\ h.scope \in Reads(command[r])
           /\ h.role \in DOMAIN RolePermissions
           /\ Asked(r) \in RolePermissions[h.role]
      \/ \E f \in DOMAIN FeatureEntitlements, e \in DOMAIN EntitlementPermissions :
           /\ confirmed[command[r].actor][f] # None
           /\ entitled[r].at - MaxStateAge <= confirmed[command[r].actor][f]
           /\ e \in FeatureEntitlements[f]
           /\ Asked(r) \in EntitlementPermissions[e]
=============================================================================
