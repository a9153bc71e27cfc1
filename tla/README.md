# Verification of authorization-core

This directory holds TLA+ models of the packages under `packages/`, the TLC
configurations that model-check them on small instances, and proofs TLAPS
checks for every instance. Every definition that models code is translated from
the source; `PROJECT.json` gives the lines each one stands for.

## 1. The system and its parts

The repository is a set of libraries a host application composes. They keep no
threads of their own: every concurrency is that of `async` calls which
interleave at each `await`, in one process or in several that share a `Store`
(`@pegma/storage-core`, an external key-value store with `get`,
`insertIfAbsent`, prefix listings that are not snapshots, and a
`transact` that is atomic inside one partition).

| component | state it keeps | operations | what is hard | what makes it correct |
|---|---|---|---|---|
| **Role store mutations** (`storage/src/role-store.ts`) | pointer rows (id -> place), holder rows (scope, role, id -> principal), and in the principal's partition: assignment records, tuple guards, audit rows | `grantRoleAssignmentWithAudit`, `revokeRoleAssignmentWithAudit` | up to seven Store operations per call, of which only one is a transaction; index rows are written before it; callers are cut off and retry; the answer is read back after the commit | one active assignment per principal, scope and role; one lifecycle per id, irreversible; audit rows = lifecycle; truthful answers; a transaction is refused only to a call that was overtaken |
| **Role store reads** (same file) | none (reads the above) | `getRoleAssignment`, `listActiveRoleAssignments`, `listRoleAssignments`, `listActiveRoleAssignmentsByRole`, `listRoleAssignmentAuditEvents`, `rebuildRoleHolderIndex` | listings are not snapshots and each row is confirmed by point reads while mutations run | a result row was true at some instant of the call; a stable row is never missed; a rebuild completes the index and disturbs nobody; no false report of corruption |
| **Role administration** (`admin/src/index.ts`) | a per-instance queue; the host's holder index | `revokeRole`, `assignRole`, `viewGrants`, `listHistory`, `ensureSeededAssignment` | the last-administrator guard reads, revokes, reads again and compensates, over instances that do not share a lock | at the end of every revoke an administrator is left, or the caller is told; a deliberate revocation is never undone by seeding |
| **Identity links** (`storage` `linkIdentity`, `resolvePrincipalId`; `identity-link`, `auth0`, `entra`) | link rows (issuer, tenant, subject -> principal) | link, resolve | concurrent links of one identity; seeding that is awaited lazily | an identity maps to one principal for good; two identities never share a key |
| **Storage keys and codecs** (`storage/src/collections.ts`) | none | escape, join, encode, decode | distinct names must not meet in one key | injective, prefix-free keys; a decode accepts only what an encode wrote |
| **Access-grant issuer** (`tokens/src/issuer.ts`, `jti-reservation.ts`, `internal.ts`) | a guarded monotonic clock; reservations of grant ids | `issue` | two clocks, a source read with a deadline, a reservation and a signature between the computing and the checking of the window | a grant never outlives its source, and its id is unique |
| **Access-grant verifier** (`tokens/src/verifier.ts`, `replay.ts`) | consumption rows per audience | `verifyAndConsume` | windows are checked before and after an await; consumption may commit while its answer is lost | a grant is accepted at most once, inside its window |
| **JWKS cache** (`tokens/src/jwks.ts`) | keys with the instant they were fetched, the refresh in flight, a cooldown, a disabled flag | `resolve`, `assertActive`, `tightenMaxAge` | callers share a refresh begun earlier; unknown key ids are throttled; a clock may fail or regress | nothing is accepted beside a set older than the absolute age; unknown ids cost at most one fetch per cooldown; a failed clock disables for good |
| **Access resolution** (`core/src/index.ts`) | none | `resolveAccess`, `hasPermission`, `decideAccess` | its facts are read at different instants and are no snapshot | what is allowed follows from one fact that held |
| **Policy validation** (`policy/src/index.ts`) | none | `validatePolicy` | many diagnostics over one small language | a policy with no diagnostic resolves as intended |
| **Stripe entitlements** (`stripe/src/index.ts`) | persisted entitlement state (host) | translate, read with an age bound | age at the boundary, clock read after a load | stale or future state is refused |
| **Host contracts** (`tests/role-revocation-cache.contract.test.ts`, `tests/administrator-bootstrap.contract.test.ts`) | a bounded cache with a generation fence; a one-shot gate | fill, evict; bootstrap | a fill racing an eviction; two bootstraps | a revoked role is not served after its eviction; one bootstrap |
| **Reference host** (`examples/reference-api/reference-integration.ts`) | a command bound to each idempotency key, with what was prepared for it; a queue per key | resolve access, bind a command, prepare, execute | the same command is sent again beside itself, after a crash of its execution, or after its lifecycle was revoked | a key makes one lifecycle; access follows from facts that held |
| **Release** (`scripts/release-packages.mjs`, `.github/workflows/publish.yml`) | the prepared artifact; what the registry holds and shows | prepare, publish, confirm, bootstrap a name | a run stops between two packages and is run again, with the same or fresh bytes; the registry shows versions late; tags move | what is published installs; one version is one release; a rerun completes what can be completed |
| API documentation script, contract types | none | - | - | not modelled |

They interact so: the **administration** calls the **mutations** and the
**reads**, and the host's holder index in between; **access resolution** reads
the active assignments, the identity link and the entitlements; the **issuer**
asks a source (resolution in the host) and the **verifier** asks the **JWKS
cache** for the issuer's keys and the **replay** store for one use; the
**reference host** binds resolution and the mutations behind its routes; the host's
**revocation cache** stands between resolution and the reads.

`PROJECT.json` lists every part with its status, and every hazard of the code
with the properties that would catch it.

## 2. What is modelled

### Modules

| module | content |
|---|---|
| `RoleRecords` | the record sets shared by the modules about role assignments, and the assumptions on the constants |
| `RoleLifecycle` | the abstract store: `life` and `history` per id, `Grant` and `Revoke` as single steps |
| `RoleStore` | the two mutations as the code runs them, one Store operation per action; properties; the mapping to `RoleLifecycle` |
| `RoleStoreInvariant` | the inductive invariants: `StoreInv` of any store, `IInv` of one that began empty |
| `RoleStoreProofs` | `Spec => []IInv` and the state properties |
| `RoleStoreRefinement` | the action properties and `Spec => RefinesLifecycle` |
| `RoleReads` | the reads and the index rebuild beside the mutations, over a store that may hold grants of an earlier release (EXTENDS `RoleStore`) |
| `RoleReadsProofs` | their safety, for any writers, readers, ids and legacy grants (EXTENDS `RoleStoreRefinement`) |
| `RoleAdministration` | several instances of the service over one store; store calls are the atomic steps of `RoleLifecycle`, which `RoleStore` is proved to implement (EXTENDS `RoleLifecycle`) |
| `RoleAdministrationProofs` | its safety, for any fleet and any other callers |
| `AccessGrants` | issuers and verifiers of access grants, over three clocks and one Store |
| `AccessGrantsProofs` | its safety, for any clocks, lifetimes and number of parties |
| `JwksCache` | the key cache the verifiers of one issuer share |
| `JwksCacheProofs` | its safety, for any ages, cooldown and number of verifiers |
| `AccessResolution` | resolution, decision, the Stripe translation and its age bound, as operators |
| `ReferenceHost` | requests and administrative commands of the reference host, over changing facts (EXTENDS `AccessResolution`) |
| `ReferenceHostProofs` | its safety, for any policy, commands, requests and keys |
| `ReleasePublication` | releases prepared, published, stopped and run again |
| `ReleasePublicationProofs` | its safety, for any packages of the inventory, commits, versions, reruns and faults |
| `MCRoleStore`, `MCRoleReads`, `MCRoleAdministration`, `MCAccessGrants`, `MCJwksCache`, `MCReferenceHost`, `MCReleasePublication` | the instances: symmetry and the tables of the reference policy |

A definition headed *Slip* is what a plausible mistake would make of the one
below it; nothing uses it. Each property of a run is broken by one.

`ReadTypeOK` and `AdminTypeOK` state the types of the two modules; they are
theorems (`ReadTypeCorrect`, `AdminTypeCorrect`) and no run checks them.

### The mutations: state and actions

`pointers`, `holders`, `assignments`, `guards` and `audit` are the five kinds of
row; each versioned row carries the version the Store gives it (0: absent).
`pc`, `cmd`, `seen` and `reply` are one call in flight per client: where it
stands, its command, what it read and still uses, what it answered. An action is
one Store operation with all the code up to the next `await`:

| code (`role-store.ts`) | actions |
|---|---|
| `grantRoleAssignmentWithAudit` | `StartGrant`, `GrantPointer`, `GrantHolder`, `GrantGuard`, `GrantExisting`, `GrantCommit` or `GrantRefused`, `GrantLanded`, `GrantWritten` |
| `revokeRoleAssignmentWithAudit` | `StartRevoke`, `RevokeLocate`, `RevokeExisting`, `RevokeGuard`, `RevokeCommit` or `RevokeRefused`, `RevokeWritten` |
| the caller takes the answer | `Return` |
| a Store operation rejects, the process dies, or the answer is lost | `Abandon`, at every await |

A retry is a fresh call with the same command. The Store names one failed
precondition of a refused transaction, and the model lets it be any. A client
starts a revoke with any token some read of the record could have given it, so
tokens may be stale.

Abstracted: the application id (one host application), key encoding, deep copies
and validation of arguments (their failures change nothing), the two parts of
grant evidence that are compared together (instant and actor), and the `Error`
objects of corrupt records (one reply, `corrupt`). Audit rows are the event ids.

### The mutations: runs

Both with `Abandon`, so every crash point is in every run.

| run | instance | shows |
|---|---|---|
| `store_safety` | 2 clients, 2 ids, 2 principals, 2 roles, 2 events | one active assignment per tuple, one lifecycle per id, one winner, only overtaken calls refused, audit rows that follow the lifecycle, truthful answers, no false corruption, irreversible, revoked by the caller's evidence; the strengthening the proofs use |
| `store_answers` | 2 clients, 2 ids of one tuple, instants 1 and 2, fair, no symmetry | every call not cut off is answered; the atomic store is implemented |

Two clients suffice for a property about a pair of calls, and the theorems hold
for any number. Two ids over four places give a tuple raced by two ids and an id
used in two places; two events give commands that differ in their evidence.
Three theorems have no run of their own: what `Typed` and `GuardTruth` state is
part of `IInv`, which `store_safety` checks, and `Handover` follows from it. The
run has one actor and one instant, so evidence differs in its event there; that
it may differ in the other two parts is left to the theorems.

`RefusalNeedsCompetitor` is about the transactions. The pointer of a call that was
cut off or refused binds its id to that place for good, and the id is refused
everywhere else (`PointsElsewhere`), as the code means it to be; at its place
the id, and the tuple, are still free.

State spaces are finite without further bounds: a version grows only with the
lifecycle of an id, and an id has one lifecycle of two steps.

### The reads

Each reader makes one call at a time: `ask` is its question, `step` where it
stands, `listed` the rows its listing returned, `left` what it has still to
confirm or follow, `located` the pointers it has read, `found` what it has
gathered. `began` is a history variable that properties compare with.

| code (`role-store.ts`) | actions |
|---|---|
| `records.list`, `holders.list`, `pointers.list` | `Begin`, `ListRow` (any number of times), `ListDone` |
| `confirmRecordListing`, `confirmHolderListing`, `confirmPointerListing` | `Confirm`, one point read each, in any order |
| `listActiveRoleAssignments`, `listRoleAssignments` | the answer when the last row is confirmed (`AfterConfirm`) |
| `listActiveRoleAssignmentsByRole` | `HolderLocate`, `HolderRead`, candidates side by side |
| `rebuildRoleHolderIndex` | `RebuildRead`, `RebuildInsert`, one pointer after another |
| `getRoleAssignment` | `Locate`, `ReadRecord` |
| `listRoleAssignmentAuditEvents` | `Locate`, `ReadRecord`, `AuditOrphans` or `AuditGranted` and `AuditRevoked` |
| the call is cut off, or its caller has the answer | `Leave` |

A listing is the weakest the Store may do: each row is what it was at some
instant between the call and the return, each row on its own. Batches bound how
many point reads run at once; all orders are allowed, so a batch of any size is
covered. Left out: the order of results, and that an exception stops the reads
still in flight, which change nothing.

The record of an assignment carries its own id and place, as the rows of the
code do. Rows a sound store cannot show are answered as in the code: a row of
another place or two rows of one key (`Misplaced`, before the rows are
confirmed, and `Elsewhere`, after it), and a record that is not its pointer's
(`SoundRecord`), are corrupt. `ListingsNeverCorrupt` says that no legal writer
leads there.

Grants of an earlier release (`ReadInit`, ids of `OldId`) have a pointer, a record, a guard and an audit row,
and no holder row. A writer is one client of `RoleStore`: readers see rows only,
and the row changes of one client that begins call after call, cut off anywhere,
already reach every order in which rows of different ids appear and change, save
the refusals of overtaken calls, which write nothing.

| run | instance | shows |
|---|---|---|
| `reads` | all six calls; 1 writer, 1 reader, 2 ids, 2 principals, each id perhaps of an earlier release | nothing revoked before is reported; no role twice, though the tuple is handed on while the listing runs; no lifecycle forgotten; a retry is asked only when a lifecycle moved; a stable holder is never missed; no attempt under way reads as damage; a rebuild leaves every lifecycle indexed; reads by id answer what was true at one instant |
| `reads_corrupt` | audit listing beside one writer | refutes the claim that a corruption error means corruption (section 5) |

Readers write holder rows only, and those a rebuild inserts are those the writer
would have; so two readers disturb each other no more than one disturbs the writer.

### The administration service

`life`, `history` are those of `RoleLifecycle`; `grantedBy` is the part of the
grantor the policy looks at; `rows` is the host's holder index, when it keeps
one (`HostIndex`). A call (`step`, `job`, `seen`, `candidates`, `fresh`,
`answer`) belongs to an instance, which runs one revocation at a time
(`revokeChain`), or is one of the other calls, which nothing serialises.

| code (`admin/src/index.ts`) | actions |
|---|---|
| `revokeRole` | `StartRevoke`, `RevokeGet`, the check before, `RevokeCommit`, the check after, `RecordGuard`, `Compensate`, the last check |
| `anotherActiveHolderExists` | `ListHolders`, `VerifyHolder`, at each of its three places |
| `assignRole` | `StartAssign`, `AssignList`, `AssignRecord`, `AssignGrant` |
| `viewGrants` | `StartView`, `ViewList`, `ViewRecord` |
| `ensureSeededAssignment` | `StartSeed`, `SeedHistory`, `SeedRecord`, `SeedGrant` |
| a store call rejects, or the instance dies | `Leave` |

The by-role listing of the store (`Listing`) returns what `ByRoleAnswers` proves
of `RoleReads`: all that held the role throughout, perhaps some that did for a
part, also one granted and revoked meanwhile. Every lifecycle has its holder row,
as after a rebuild (`RebuildCovers`). The host's index returns every row it was
given. The clocks of instances are the members of
`Time`, chosen anew at each use, so they may disagree. `listHistory` only
reformats `listRoleAssignments` and is left out, as are the revocations system
actors make for themselves by the store, outside the service. Before the service
starts, any assignments may have been made, by people or by ongoing system
actors (`Earlier`), and the host's index may have any part of them.

| run | instance | shows |
|---|---|---|
| `admin_race` | 2 instances, 1 other caller (assignments, seeds), the store's index | the guard and its compensation lose no administrator, unless a call is cut off after its commit; nobody is overlooked; a seed run again grants nothing |
| `admin_single` | 1 instance, 1 other caller (assignments, views, seeds), host index, 2 scopes, clocks that disagree | with one instance an administrator is there at every instant, wherever it dies; what is assigned or seeded is indexed before it is active; a view heals the index |
| `admin_host` | 2 instances, host index, a second role the guard does not cover, fair, no symmetry | administration lost to a race returns |
| `admin_seed_resurrects` | a seed beside an operator | refutes a sentence on seeding (section 5) |

Assignment ids are used once and are finite, so calls that need a fresh one stop
being started when they run out; ids are kept back for the compensations of
revocations already running, so that the bound never stands in the way of the
guard. In `admin_race` and `admin_host` nothing more can be
started when all ids are used, and deadlock is not checked there.

`HostIndexCovers` speaks of all that the service grants. One instance never
compensates, so `admin_single` exercises it on assignments and seeds; `IndexCovers`
proves it for compensations too.

### Access grants

`now` is real time in ticks, `Second` ticks to a NumericDate second. An issuer is
the instant its monotonic clock read zero; its wall clock shows `now`, and a
verifier's is at most `Offset` seconds behind it, which is what the package asks
of a deployment. `pc`, `owner`, `deadline`, `jti`, `grant` are one grant in the
making; `vpc`, `shown` one call of a verifier; `reserved` and `spent` are the rows
of the Store. `vouched` and `accepted` are history variables.

| code (`packages/tokens/src`) | actions |
|---|---|
| `readSourceAuthorization` (`issuer.ts`) | `StartRead`, `EndRead`: the clock is sampled before the read |
| `bindSourceAuthorization` | `Bind`, `Rebind` |
| `issue`, `readGrantWindow` | `Issue` (window computed and thrown away), `StoreReserve`, `Sign`, `Issued`: the window is read again after each await |
| `reserve` (`jti-reservation.ts`) | `StoreReserve`; its answer may be late, or lost (`Refuse`) |
| `GuardedMonotonicClock.sample` (`internal.ts`) | `Live` in every window, `ClockFails` |
| `verifyAndConsume` (`verifier.ts`), `consume` (`replay.ts`) | `Show`, `Check`, `StoreConsume`, `Accept`, `Deny` |
| the host drops rows past `retainThrough` | `Prune` |

What the checks of configuration, request, context, signature and claims reject
is one rejection at the await where it happens (`Refuse`, `Deny`). Arithmetic is
exact: the code bounds every instant by the safe integers.

| run | instance | shows |
|---|---|---|
| `access_grants` | 2 issuers whose clocks differ, 2 grants, 1 identifier, 2 verifiers that may be behind, at the issuer's time, or ahead; 2 ticks to a second, grants of up to 2 seconds, suspensions of 1 tick, instants to 9 | a grant is accepted only while its source vouches for it, and once; identifiers are unique; a failed clock stops the calls under way |

The second of two ticks has an inside, so each flooring matters; the source is
good for 7 ticks, one more than the 3 seconds a grant and the offset can use, and
`Last` leaves room to be late. Breaking any of these breaks the first property: the
order of the two clock readings, the second of slack set aside for slow
verifiers, the window read after each await, the owner of what is presented.

### The JWKS cache

`keys`, `loaded`, `maxAge`, `next`, `dead`, `flight` are the fields of the cache;
`served` is when the endpoint gave what it holds and `begun` when a refresh for
an unknown key id last began (history). `pc`, `age`, `ask` are one call per verifier;
`live` and `gone` are the endpoint's keys.

| code (`jwks.ts`) | actions |
|---|---|
| `getSharedJwksCache`, `tightenMaxAge` | `Construct` |
| `resolve`, `beginUnknownKidRefresh`, `refresh` | `Resolve` up to the await; `Woken`, `Failing` after it |
| `load` and the fetch | `Serve`, `Land`, `LandFailed` |
| `assertActive` around the consumption (`verifier.ts`) | `Check`, `Accept`, `Deny` |
| the guarded sample (`#sample`, `#requireClockAlive`) | the `dead` guards, `ClockFails` |

When a fetch settles, all its waiters run before anything else begins (`Quiet`):
they are microtasks of one promise. A fetch may take any time, and a lost, late or
malformed response is one failure.

A call keeps from `resolve` the instant at which the set of its key was served
(`ask.from`). `assertActive` looks at the age of the set held now and not at
whether the key is still in it, and another caller's refresh may have replaced
the set meanwhile. An acceptance records both instants and whether the set held
then lists the key. `HeldSetIsYoung` is what the code keeps: the held set is
within the age, and no older than the key's. It does not keep more: see section 5.

| run | instance | shows |
|---|---|---|
| `jwks_cache` | 2 verifiers of ages 1 or 2, 2 keys that come and go, cooldown 2, instants 0 to 4 | nothing is accepted beside a set past the age its verifier configured, or with a key of a later set; refreshes for unknown ids are a cooldown apart; a dead domain keeps nothing |

Four instants hold a fetch that outlasts an age, its landing, the cooldown it set
and a second refresh.

### The reference host and access resolution

`AccessResolution` has resolution, the decision, the Stripe translation by
features and the age bound as operators on sets. `ReferenceHost` uses them on what
a request reads at different instants: `stripe`, `life` and `now` move in between.
`binding` is `administrativeCommandManifests` and `running` the tails of its
queues; `held` and `confirmed` are history variables.

| code (`reference-integration.ts`) | actions |
|---|---|
| a request arrives, its access is resolved | `Arrive`, `ListRoles`, `Load`, `Loaded`, `ResolveFails`, `Decide` |
| a guarded route | `Visited` |
| `bindAdministrativeCommand` | `Bind` |
| the manifest of a command | `Prepare`, `NotFound` |
| `enqueue`, one execution at a time for each key | `Execute`, `StoreGrant`, `StoreRevoke`, `Settle` |
| Stripe is asked again | `Confirm` |

The role store is atomic here, as `RoleStoreRefinement` proves it to be.
`Settle` may come before the write or after it, so an execution can be lost with or
without its effect. A revoke that found nothing, or could not read, is kept with
its key for good, as in the code.

| run | instance | shows |
|---|---|---|
| `reference` | 2 principals, 2 requests, 2 keys, 2 ids and the seed, 1 feature, instants 0 to 2, age bound 1 | a key makes one lifecycle, however often it is sent; what is allowed follows from one fact that held |

One of the two keys is sent with two commands of two actors, the other with a grant
and with revokes; both principals may become administrators. When all requests
wait, both ids and all time are used, so deadlock is not checked.

### The release

`tag`, `event`, `job`, `at` are a release and its workflow run; `artifact` is what
prepare uploaded, with the hashes of its manifest (`integrity`) and the bytes
(`tarballs`); `registry`, `shown`, `reserved` are what npm has accepted, what it
shows, and the names that exist.

| code (`release-packages.mjs`, `publish.yml`) | actions |
|---|---|
| `validateRepository`, `validateManifest`, `validateInternalDependencies`, `validateLockImporter` | the operators of the same names, over every checkout |
| `prepareRelease`, `validateReleaseTag` | `Prepare`, `PrepareFails` |
| `verifyPreparedReleaseManifest` | `StartPublish` |
| `publishPreparedRelease`, `decidePublication`, `confirmRegistryIntegrity` | `Skip`, `Stop`, `Publish`, `PublishRejected`, `Confirm`, `ConfirmFails` |
| "Re-run failed jobs", "Re-run all jobs" | `RerunFailed`, `RerunAll` |
| `preparePackageBootstrap`, then by hand | `PrepareBootstrap`, `PublishBootstrap` |
| what is outside | `Release`, `MoveTag`, `Damage`, `Fault`, `Show` |

The registry shows a version to everybody or to nobody yet. The checks of a
commit (its ancestry, a clean tree, files, metadata, the smoke test) are
`PrepareFails`: they see the same commit, so they fail at its first preparation or
not at all.

| run | instance | shows |
|---|---|---|
| `release` | 3 of the 10 packages with every internal edge among them, one of them to be bootstrapped; 2 commits, 1 version released of 2 that manifests name, 2 preparations, 1 fault, fair | all that is published installs; bytes of two preparations never mix in a version; a rerun completes what can be completed |

Two preparations of two commits already give four different artifacts for one
version; one fault lets a run stop between any two commands, a tag move or a
tarball change. Dropping `InternalDependencies` or `UnchangedTarballs` breaks
the first two properties. When everything is released or stopped and no fault is left,
nothing need happen, so deadlock is not checked.

### Fairness

`FairSpec` asks for weak fairness of each client's next step and of nothing
else: every Store operation settles, so an `await` that began ends. No caller is
bound to begin a call or take its answer, and `Abandon` is never required.
`AdminFairSpec` asks the same of the revocations of each instance: the store
calls a revocation awaits settle. Other calls may stop, and nothing makes a call
be cut off or its answer be taken.

The release asks weak fairness of a publish job that began (its commands end) and
of the registry showing what it accepted; and strong fairness of preparing and
of "Re-run failed jobs" for each commit, since the workflow is serialised and
another release may hold it again and again: somebody keeps rerunning, which is
what `docs/RELEASING.md` ("Workflow recovery") tells the operator to do. Full
reruns, releases and faults are never required.

## 3. What is proved

For every value of the constants that satisfies `RecordsAssumption` (instants
are naturals; null is not an id, principal, event or record), with no bound on
the number of clients:

- `Spec => []IInv` (`Invariance`), and from it each state property of the runs above, one
  theorem each (`Typed` to `RefusalsEarned` in `RoleStoreProofs`);
- `Spec => LifecycleIrreversible`, `TupleHandover`, `RevocationIsTheCallers`;
- `Spec => RefinesLifecycle`.

The safety properties are not inductive: that the two transactions keep the
records consistent depends on what the call read before. `IInv` adds, about
records at rest, that holder rows follow pointers (`HoldersFollowPointers`) and
that versions tell absence and guards exist (`VersionsAgree`); about each call
(`CallSound`), that what it read is what is there or has been overtaken
(`NotBefore`), that a revoke's guard cannot be overtaken alone, and that its
token was never ahead; and that one call made and one ended each lifecycle.

The argument is by rely and guarantee. `Evolves` says what a step may do to the
records (index rows stay, versions only grow and tell a change, evidence stays,
a guard changes hands by way of nobody). `OthersStaySound`: a call that does not
move stays sound while the records evolve. So each action needs only its own
call and its own writes (`ReadingStep`, `WritingStep`); the two commits have a
lemma of what they find and write (`GrantCommitEffect`, `RevokeCommitEffect`)
which the refinement uses again.

For the access grants (`AccessGrantsProofs`), with any numbers of issuers,
sessions, verifiers and identifiers and any instants, from `TimeAssumption` (a
second has ticks), `IssuerAssumption` (lifetimes are positive), `LeadAssumption`
(no verifier is further behind than `Offset`) and `NoneAssumption`:
`GrantsDieWithTheirSource`, `GrantsConsumedOnce`, `IdentifiersUnique`,
`DeadClocksIssueNothing`, `Typed`. None of the properties is inductive. The
invariant `GInv` follows a grant in real time: a read began before its answer
(`ReadsBegan`), its deadline is no later than the source's promise
(`DeadlinesVouched`), the grant ends at the slowest verifier before that
deadline (`GrantsBounded`), so a verifier that accepts by its own clock accepts in
time (`AcceptedInTime`); a replay row is there until the grant has expired
everywhere (`RowsOutlive`, `ConsumedAgainLate`). The floorings are three lemmas
(`FloorBelow`, `FloorMonotone`, `FloorSum`), the window of a grant one
(`WindowBounded`); sessions and verifiers are then proved apart
(`IssuerKeeps`, `IssuerLeavesVerifier`, `VerifierKeeps`, `TickKeeps`).

For the key cache (`JwksCacheProofs`), with any ages, cooldown and number of
verifiers, from `AgeAssumption` and `NoneAssumption`: `HeldSetsYoung`,
`UnknownKidsApart`, `DeadDomainsAreSilent`, `Typed`. `JInv` says that a set was
served after its age began to count (`SetsServed`), that the shared age is no
longer than any verifier's own (`AgesTight`), that the set of a resolved key is
no newer than the one held (`KeysFollowSets`), and that the cooldown covers the
last refresh for an unknown id, because no waiter's sample is older than the
refresh it waits for (`CooldownCovers`); without the last part a waiter of
an old refresh could set the cooldown back.

For the reference host (`ReferenceHostProofs`), with any policy, commands and
numbers of requests, principals, keys and ids, from `NamesAssumption`,
`InputAssumption`, `NoneAssumption` and `AgeAssumption`: `KeysMakeOne`,
`AllowedFollows`, `Typed`. `HostInv` has two parts. `KeysInv`: one request at most
prepares the command of a key (`PreparedOnce`), so a lifecycle has the id its key
is bound to (`LifecycleBound`). `AccessInv`: each thing a request has read is
vouched for by itself (`RolesHeld`, `StateConfirmed`, `EntitledConfirmed`), which
needs that what its principal holds is counted while it resolves
(`ResolvingHolds`); a request that waits stays sound while the facts move
(`WaitingStaysSound`), so each action is about the request that moves.

### The reads

`RoleReadsProofs` is about any number of writers, readers, ids and grants of an
earlier release, from `RecordsAssumption` and `ReadsAssumption` (null is not a
question; ids are finitely many, which only the count of a rebuild needs). Each
property of `reads` is a theorem: `ReportsRolesOnce`, `RevocationsAreSeen`,
`NothingActiveMissed`, `HistoriesComplete`, `RetriesEarned`, `ListingsSound`,
`RebuildComplete`, `PointReadsUntorn`; and `ReadTypeCorrect`. Two more state
properties of the proofs alone: `ListingsKeepToTheQuestion` (nothing of another
partition, scope or role) and `ByRoleAnswers`, which is what the administration
relies on.

A store with legacy grants has lifecycles without holder rows, so `IInv` does not
hold of it. `StoreInv` is `IInv` without that one part; `StoreInvariance`
proves it from any store that satisfies it, and `LegacySound` proves that the
stores a reader may begin with do. The argument about the reads:

- *The store only advances* (`Advance`, `EvolvesAdvances`, `WriterAdvances`,
  `RowAdvances`): a lifecycle goes from none to active to revoked (`Since`),
  holder rows and pointers stay. A rebuild's own insert is such a step.
- *What was read was so once* (`WasOnce`, `Instant`): each row a listing has is
  the row of the lifecycles as they were at one instant between the call's
  beginning and now. That stays true while the store advances (`ReaderStays`), so
  only the reader's own steps need an argument. `BetweenCases` and `Squeezed` say
  what can lie between two states of a lifecycle; what was active and still is
  never changed.
- *All rows are confirmed after all are listed.* The rows alone do not rule out
  one role twice, since they are of different instants. The last part of
  `ListingRecords` does: of two listed rows, active and of one role, one is
  revoked by now and is still to be confirmed, where it will be found
  changed (`OneIsRevoked`: two lifecycles of one tuple cannot both have gone on).
- *Nothing is dropped*: a candidate of a call by role, and a lifecycle a rebuild has
  to index, is still to be followed or has been dealt with (`ListingHolders`,
  `ListingPointers`); what a rebuild has counted is no more than what it missed
  and no longer has to follow (`MissingFinite`).

The other direction, that readers and rebuilds disturb no mutation, is proved over
the same stores: `MutationsStayAtomic` (the step simulation of `Refinement`; its
initial states are not, since the abstract store begins empty),
`MutationsStaySafe`, `LifecyclesStayIrreversible`, `TuplesStayHandedOver`.

### The administration

`RoleAdministrationProofs` is about any number of instances and other callers and
any store at the beginning, from `RecordsAssumption` and
`AdministrationAssumption` (the fleet is finite, which `SingleNeverEmpty` needs to
tell what one instance is). The theorems: `AdministratorsRemain`,
`SingleNeverEmpty`, `IndexCovers`, `ViewsHeal`, `NobodyOverlooked`,
`SeedsRespectHistory`, `AdminTypeCorrect`. `StoreStepsOnly` says that the service
moves lifecycles by `RoleLifecycle`'s steps alone, so what holds of every store
holds under it.

`AdminInv` is about each call (`Sound`: what it has read and still relies on lies
behind what is there, `Behind`), about ids given to calls (`FreshDistinct`) and
about administrators. `AdministratorRemains` is not inductive by itself:
`AdministratorInHand` says more, that the scope without an administrator is in the
hands of a revocation whose compensation has not yet been refused. That the
last check of a revocation is no longer needed for it is what makes a refused
compensation harmless: a grant is refused only where another holds the tuple. With one
instance a guarded revocation about to commit leaves another holder
(`LeavesAnother`), since only its own commits take holders away.

### The release

`ReleasePublicationProofs` is about any packages of the inventory, any commits,
versions, faults and reruns, from `VersionAssumption`, `InventoryAssumption` and
`NoneAssumption`: `PublishedInstalls` and `PublishesOwn`. `ReleaseInv` says that a
run past its preparation has bytes for the version of its release
(`PreparedFor`, from `validateRepository`: `ValidPacked`), and that the registry
shows, byte for byte, what it prepared at each place before the one the job is at
(`Behind`). `InventoryOrder`, that a package is listed after all it depends on,
is computed from the ten entries.

### What is only model-checked

- Liveness (`CallsAnswered`, `AdministratorReturns`, `RerunCompletes`): TLAPS has no
  rules for `ENABLED`, which weak and strong fairness are about.
- The two refutations of section 5, which are counterexamples.

Every other property of a run is a theorem.

## 4. Plan

Done: the mutations, reads, administration, access grants, key cache, reference
host and release, each with its runs and its proofs. What is left, in order of
weight:

1. `IdentityLinks` with in-memory seeding; theorem: links never change.
2. `KeyEncoding` as operators over bounded strings, checked to be injective.
3. `RoleRevocationCache`, `AdministratorBootstrap` (host contracts).
4. `PolicyValidation` against a reference definition.

Modules that theorems are about use no `RECURSIVE` operator.

## 5. Where code and text disagree

A run refutes each of these statements:

- `CorruptMeansCorrupt`: the audit listing reads the record, then its positions,
  and does not confirm the record again. A revoke (or a grant, when no record
  was read) that commits in between is reported as a corrupt store; the other
  listings answer the same race with an error that asks for a retry.
- `SeedNeverResurrects`: a seed reads the history and grants later. A role that an
  operator grants and deliberately revokes in between is granted again. Seeds that
  begin later do respect it (`SeedRespectsHistory`).

Smaller ones, met while modelling, have no run of their own:

- ACCESS_GRANTS.md lets a verifier use a set, and a known key, until the set's age
  is up. A verifier resolves its key, waits for the signature check or the
  consumption, and then asks for the age of the set held by then. If another
  caller's refresh replaced the set meanwhile by one that no longer lists the key,
  the grant is accepted with a key of a set past its age (`accepted.from` in
  `JwksCache`; `HeldSetIsYoung` states what is left);
- STORAGE.md says a refused transaction is re-read, so that a competing identical
  grant is `unchanged`; the code re-reads only when the Store names `exists`. When
  both an insert and the guard's put fail, the Store may name the other, and the
  identical grant is told `active_tuple`;
- a grant refused because the tuple guard moved answers `active_tuple`, with the
  comment that someone else holds the tuple now; that holder may be revoked by
  then and the tuple free;
- a `granted` result is typed to carry an active record; a revoke between the
  commit and the read-back makes it a revoked one;
- STORAGE.md says a version that moved before the transaction landed is
  `concurrency`; when a competing revoke landed, its audit row is there too, so
  it can be `event_id`;
- a seed's `conflict` is documented to mean a contradictory manifest; an
  assignment of the same role under another id, made after the history was read,
  gives it too, and so does a concurrent run of the same manifest over the guard
  an earlier holder left.

## 6. Not modelled

- The Store and its adapters: external, taken by their contract; so are npm, the
  artifact store and Stripe.
- Cryptography, HTTP and JSON parsing: a token or a response is good or rejected.
- Identity links (`linkIdentity`, `resolvePrincipalId` and the projections of
  claims in `auth0` and `entra`): one `insertIfAbsent` with no interleaving of its own.
- Storage keys and codecs: string processing; the modules take injective keys for
  granted.
- Policy validation: a pure check of the shape of one document.
- Conformance fixtures, diagnostics and the JSON snapshot of a resolution: data
  about one call. Price mode of the Stripe translation is the code of the feature
  mode over another table.
- The host contracts (revocation cache, administrator bootstrap): the tests bring
  their own implementation, no package has one.
- `listHistory`, which sorts one read; the access-grant routes and the identity
  lookup of the reference host, which add no state to what `AccessGrants` has.
- The inspection of the registry, which changes nothing; the rules on files,
  metadata and version ranges of other packages; the API documentation script.
