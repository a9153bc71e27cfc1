------------------------- MODULE ReleasePublication -------------------------
(***************************************************************************)
(* scripts/release-packages.mjs in its workflow (.github/workflows/        *)
(* publish.yml): a release of a commit is prepared as one artifact, whose  *)
(* tarballs are then published one by one, in the order of the inventory.  *)
(* The workflow may stop anywhere and is run again, with the artifact it   *)
(* had or with fresh bytes; a new package first has its name reserved by a *)
(* bootstrap made by hand.                                                 *)
(*                                                                         *)
(* A step is one command (git, npm, the artifact store) with the code up   *)
(* to the next.  External: the npm registry accepts a version once, for a  *)
(* name that is reserved, and shows it to everybody some time later.       *)
(***************************************************************************)
EXTENDS Naturals, Functions

CONSTANTS
    Package,    \* the packages of the inventory in this instance
    Named,      \* versions a manifest may name; 0 is that of a bootstrap
    Version,    \* those that are released
    Commit,     \* each may be released once
    Text,       \* what a build may make of a package, its manifest aside
    Reserved,   \* names reserved before the instance begins
    MaxBuilds,  \* how often a commit is prepared
    MaxFaults,  \* how often something outside fails
    None

\* RELEASE_PACKAGES: the order of publication.
Inventory == <<"contracts", "auth0", "entra", "identity-link", "core",
               "policy", "stripe", "storage", "admin", "tokens">>

ASSUME VersionAssumption == Version \subseteq Named /\ 0 \notin Named
ASSUME InventoryAssumption == Package \subseteq Range(Inventory)

VARIABLES
    tag,       \* version -> the target of its signed annotated tag
    event,     \* commit -> the version of its GitHub release
    job,       \* commit -> where the workflow run of its release stands
    at,        \* commit -> the place the publish job is at
    artifact,  \* commit -> the prepared directory
    builds,    \* commit -> how often it was prepared
    registry,  \* version -> package -> tarball
    shown,     \* version -> the packages the registry shows
    reserved,  \* names that exist and trust the workflow
    bootstrap, \* package -> the prepared bootstrap tarball
    faults

outside   == <<tag, faults>>
runs      == <<event, job, at>>
prepared  == <<artifact, builds>>
published == <<registry, shown, reserved>>
vars == <<outside, runs, prepared, published, bootstrap>>

-----------------------------------------------------------------------------
\* The inventory and a checkout.

\* Where the inventory lists the packages of this instance, and the first of some
\* places.
Places == {n \in DOMAIN Inventory : Inventory[n] \in Package}
First(places) == {n \in places : \A m \in places : n <= m}

\* The internal dependencies of the ten manifests.
Depends(p) == Package \cap
    CASE p = "contracts" -> {}
      [] p = "admin" -> {"contracts", "storage"}
      [] OTHER -> {"contracts"}

Edges == {e \in Package \X Package : e[2] \in Depends(e[1])}

\* Package -> dependency -> the version its range names.
Ranges == {[p \in Package |-> [d \in Depends(p) |-> r[<<p, d>>]]] :
             r \in [Edges -> Named]}

Tree == [version : Named, versions : [Package -> Named],
         ranges : Ranges, lock : Ranges]

\* validateInternalDependencies: each is the exact common version.
InternalDependencies(ranges, version) ==
    \A d \in DOMAIN ranges : ranges[d] = version

\* validateManifest, as far as versions go.
ValidManifest(t, p) ==
    /\ t.versions[p] = t.version
    /\ InternalDependencies(t.ranges[p], t.version)

\* validateLockImporter: the specifiers of the lockfile are the manifest's.
ValidLock(t, p) ==
    /\ t.lock[p] = t.ranges[p]
    /\ InternalDependencies(t.lock[p], t.version)

\* validateRepository: what the checkouts that pass have to publish.
ValidRepository ==
    {[version |-> t.version, ranges |-> t.ranges] :
        t \in {u \in Tree : \A p \in Package : ValidManifest(u, p) /\ ValidLock(u, p)}}

Tarball(t, p, text) == [text |-> text, needs |-> t.ranges[p]]

\* The tarballs there may be of p, and the directory prepared of all packages: the
\* tarballs, and what was hashed.
Tarballs(p) == [text : Text \cup {None}, needs : [Depends(p) -> Named]]
AnyTarball == UNION {Tarballs(p) : p \in Package}
Packed == [Package -> AnyTarball]
Artifact == [integrity : Packed, tarballs : Packed]

\* Nothing is none of them.
ASSUME NoneAssumption ==
    None \notin Artifact /\ \A p \in Package : None \notin Tarballs(p)

Init ==
    /\ tag = [v \in Version |-> None] /\ faults = 0
    /\ event = [c \in Commit |-> None]
    /\ job = [c \in Commit |-> "none"]
    /\ at = [c \in Commit |-> 1]
    /\ artifact = [c \in Commit |-> None]
    /\ builds = [c \in Commit |-> 0]
    /\ registry = [v \in Named \cup {0} |-> [p \in Package |-> None]]
    /\ shown = [v \in Named |-> {}]
    /\ reserved = Reserved
    /\ bootstrap = [p \in Package |-> None]

-----------------------------------------------------------------------------
\* The repository and its releases.

\* A signed annotated tag is made, and a GitHub release of it.
Release(c, v) ==
    /\ job[c] = "none" /\ tag[v] \in {None, c}
    /\ tag' = [tag EXCEPT ![v] = c]
    /\ event' = [event EXCEPT ![c] = v]
    /\ job' = [job EXCEPT ![c] = "queued"]
    /\ UNCHANGED <<at, faults, prepared, published, bootstrap>>

\* A tag is moved, against the rules of the repository.
MoveTag(v, c) ==
    /\ faults < MaxFaults /\ faults' = faults + 1
    /\ tag[v] \notin {None, c}
    /\ tag' = [tag EXCEPT ![v] = c]
    /\ UNCHANGED <<runs, prepared, published, bootstrap>>

Goto(c, label) == job' = [job EXCEPT ![c] = label]

\* The concurrency group of the workflow.
NoRunActive == \A c \in Commit : job[c] \notin {"prepared", "publishing", "confirming"}

-----------------------------------------------------------------------------
\* The prepare job.

\* validateReleaseTag: tag, checkout and event name one commit.
Authenticated(c) == tag[event[c]] = c

\* prepareRelease: validated, packed, hashed, tried out and uploaded.
Prepare(c) ==
    /\ job[c] = "queued" /\ NoRunActive
    /\ Authenticated(c)
    /\ builds[c] < MaxBuilds
    /\ builds' = [builds EXCEPT ![c] = @ + 1]
    /\ \E t \in ValidRepository, text \in [Package -> Text] :
         LET tarballs == [p \in Package |-> Tarball(t, p, text[p])]
         IN /\ t.version = event[c]
            /\ artifact' = [artifact EXCEPT ![c] =
                              [integrity |-> tarballs, tarballs |-> tarballs]]
    /\ Goto(c, "prepared")
    /\ UNCHANGED <<event, at, outside, published, bootstrap>>

\* The commit fails a check, at its first preparation, or the tag moved: what
\* is uploaded stays.
PrepareFails(c) ==
    /\ job[c] = "queued" /\ NoRunActive
    /\ builds[c] = 0 \/ ~Authenticated(c)
    /\ Goto(c, "unprepared")
    /\ UNCHANGED <<event, at, outside, prepared, published, bootstrap>>

-----------------------------------------------------------------------------
\* The publish job.

\* verifyPreparedReleaseManifest: the bytes are those that were hashed.
UnchangedTarballs(c) == artifact[c].tarballs = artifact[c].integrity

\* The tag still names the commit, and so does the manifest.
StartPublish(c) ==
    /\ job[c] = "prepared"
    /\ IF tag[event[c]] = c /\ UnchangedTarballs(c)
       THEN \E n \in First(Places) :
              at' = [at EXCEPT ![c] = n] /\ Goto(c, "publishing")
       ELSE UNCHANGED at /\ Goto(c, "stopped")
    /\ UNCHANGED <<event, outside, prepared, published, bootstrap>>

\* queryRegistryIntegrity: null for what the registry does not show.
Shows(v, p) == IF p \in shown[v] THEN registry[v][p] ELSE None

\* Slip: an existing version is taken for the prepared one.
DecisionExisting(local, found) == IF found = None THEN "publish" ELSE "skip"

\* Slip: an identical version counts as a failure too.
DecisionAbsentOnly(local, found) == IF found = None THEN "publish" ELSE "fail"

\* decidePublication
Decision(local, found) ==
    IF found = None THEN "publish" ELSE IF found = local THEN "skip" ELSE "fail"

Current(c)  == Inventory[at[c]]
Prepared(c) == artifact[c].integrity[Current(c)]
Decided(c)  == Decision(Prepared(c), Shows(event[c], Current(c)))

Advance(c) ==
    LET later == {n \in Places : at[c] < n} IN
    \/ later = {} /\ UNCHANGED at /\ Goto(c, "done")
    \/ \E n \in First(later) :
         at' = [at EXCEPT ![c] = n] /\ Goto(c, "publishing")

Skip(c) ==
    /\ job[c] = "publishing" /\ Decided(c) = "skip"
    /\ Advance(c)
    /\ UNCHANGED <<event, outside, prepared, published, bootstrap>>

Stop(c) ==
    /\ job[c] = "publishing" /\ Decided(c) = "fail"
    /\ Goto(c, "stopped")
    /\ UNCHANGED <<event, at, outside, prepared, published, bootstrap>>

\* The registry takes a version of a reserved name once.
Accepts(v, p) == p \in reserved /\ registry[v][p] = None

\* npm publish of the tarball; its answer may be lost.
Publish(c) ==
    /\ job[c] = "publishing" /\ Decided(c) = "publish"
    /\ Accepts(event[c], Current(c))
    /\ registry' = [registry EXCEPT ![event[c]][Current(c)] =
                      artifact[c].tarballs[Current(c)]]
    /\ \/ Goto(c, "confirming") /\ UNCHANGED faults
       \/ faults < MaxFaults /\ faults' = faults + 1 /\ Goto(c, "stopped")
    /\ UNCHANGED <<event, at, tag, prepared, shown, reserved, bootstrap>>

PublishRejected(c) ==
    /\ job[c] = "publishing" /\ Decided(c) = "publish"
    /\ ~Accepts(event[c], Current(c))
    /\ Goto(c, "stopped")
    /\ UNCHANGED <<event, at, outside, prepared, published, bootstrap>>

\* Slip: a publish that npm accepted is taken for visible.
ConfirmedBlindly(c) == TRUE
\* confirmRegistryIntegrity: the registry shows the prepared integrity.
Confirmed(c) == Shows(event[c], Current(c)) = Prepared(c)

Confirm(c) ==
    /\ job[c] = "confirming" /\ Confirmed(c)
    /\ Advance(c)
    /\ UNCHANGED <<event, outside, prepared, published, bootstrap>>

\* Six attempts without it.
ConfirmFails(c) ==
    /\ job[c] = "confirming" /\ ~Confirmed(c)
    /\ Goto(c, "stopped")
    /\ UNCHANGED <<event, at, outside, prepared, published, bootstrap>>

-----------------------------------------------------------------------------
\* What stops a run, and how it is run again.

Fault(c) ==
    /\ faults < MaxFaults /\ faults' = faults + 1
    /\ \/ job[c] = "queued" /\ NoRunActive /\ Goto(c, "unprepared")
       \/ job[c] \in {"prepared", "publishing", "confirming"} /\ Goto(c, "stopped")
    /\ UNCHANGED <<event, at, tag, prepared, published, bootstrap>>

\* A tarball of the artifact changes on its way.
Damage(c, p) ==
    /\ faults < MaxFaults /\ faults' = faults + 1
    /\ job[c] \in {"prepared", "stopped"}
    /\ \E text \in Text : artifact' = [artifact EXCEPT ![c].tarballs[p].text = text]
    /\ artifact' # artifact
    /\ UNCHANGED <<runs, tag, builds, published, bootstrap>>

\* "Re-run failed jobs": a failed publish job finds the artifact it had.
RerunFailed(c) ==
    /\ NoRunActive
    /\ \/ job[c] = "stopped" /\ Goto(c, "prepared")
       \/ job[c] = "unprepared" /\ Goto(c, "queued")
    /\ UNCHANGED <<event, at, outside, prepared, published, bootstrap>>

\* "Re-run all jobs": prepared again, with bytes that may be others.
RerunAll(c) ==
    /\ job[c] \in {"stopped", "unprepared", "done"}
    /\ builds[c] < MaxBuilds
    /\ Goto(c, "queued")
    /\ UNCHANGED <<event, at, outside, prepared, published, bootstrap>>

\* The registry shows what it has accepted.
Show(v, p) ==
    /\ registry[v][p] # None /\ p \notin shown[v]
    /\ shown' = [shown EXCEPT ![v] = @ \cup {p}]
    /\ UNCHANGED <<outside, runs, prepared, registry, reserved, bootstrap>>

-----------------------------------------------------------------------------
\* The bootstrap of a name.

\* smokeTestPackageBootstrapTarball: a clean consumer installs the tarball.
Installs(tarball) ==
    \A d \in DOMAIN tarball.needs : d \in shown[tarball.needs[d]]

\* preparePackageBootstrap, in a checkout by hand.
PrepareBootstrap(p) ==
    /\ p \notin reserved /\ bootstrap[p] = None
    /\ \E t \in ValidRepository :
         /\ Installs(Tarball(t, p, None))
         /\ bootstrap' = [bootstrap EXCEPT ![p] = Tarball(t, p, None)]
    /\ UNCHANGED <<outside, runs, prepared, published>>

\* The tarball is published by hand and the workflow is made its publisher.
PublishBootstrap(p) ==
    /\ bootstrap[p] # None /\ registry[0][p] = None
    /\ registry' = [registry EXCEPT ![0][p] = bootstrap[p]]
    /\ reserved' = reserved \cup {p}
    /\ UNCHANGED <<outside, runs, prepared, shown, bootstrap>>

-----------------------------------------------------------------------------
Proceed(c) ==
    \/ StartPublish(c) \/ Skip(c) \/ Publish(c) \/ Confirm(c)
    \/ Stop(c) \/ PublishRejected(c) \/ ConfirmFails(c)

Next ==
    \/ \E c \in Commit :
         \/ Prepare(c) \/ PrepareFails(c) \/ Proceed(c)
         \/ Fault(c) \/ RerunFailed(c) \/ RerunAll(c)
         \/ \E v \in Version : Release(c, v) \/ MoveTag(v, c)
         \/ \E p \in Package : Damage(c, p)
    \/ \E p \in Package : \/ PrepareBootstrap(p) \/ PublishBootstrap(p)
                          \/ \E v \in Version : Show(v, p)

\* A job that began ends, the registry shows what it accepted, and somebody
\* runs failed jobs again, however often another release has the workflow.
Fairness ==
    /\ WF_vars(\E c \in Commit : Proceed(c))
    /\ \A c \in Commit : SF_vars(Prepare(c)) /\ SF_vars(RerunFailed(c))
    /\ WF_vars(\E v \in Version, p \in Package : Show(v, p))

Spec == Init /\ [][Next]_vars /\ Fairness

-----------------------------------------------------------------------------
\* Properties.

\* Whatever is published can be installed: each exact version it needs is shown
\* by the registry, though runs stop between two packages and names are reserved
\* by hand meanwhile (confirmRegistryIntegrity, validateInternalDependencies).
Installable ==
    \A v \in Named \cup {0}, p \in Package :
      registry[v][p] # None => Installs(registry[v][p])

\* A package is published only onto what is, byte for byte, the same prepared
\* release: attempts with fresh bytes never mix theirs into a version that
\* another attempt began (decidePublication).
PublishesIntoItsOwnRelease ==
    [][\A v \in Version, i \in Places :
         registry'[v][Inventory[i]] # registry[v][Inventory[i]] =>
           \E c \in Commit :
             /\ event[c] = v /\ artifact[c] # None
             /\ registry'[v][Inventory[i]] = artifact[c].integrity[Inventory[i]]
             /\ \A k \in Places : k < i =>
                  registry[v][Inventory[k]] = artifact[c].integrity[Inventory[k]]]_vars

\* The artifact of c is the one the registry has begun to publish.
Recoverable(c) ==
    /\ artifact[c] # None /\ UnchangedTarballs(c)
    /\ tag[event[c]] = c
    /\ Package \subseteq reserved
    /\ \A p \in Package :
         registry[event[c]][p] \in {None, artifact[c].integrity[p]}

\* A release stopped half way is completed by running it again, as long as its
\* artifact, its tag and what it has published stand (docs/RELEASING.md,
\* "Workflow recovery").
RerunCompletes ==
    \A c \in Commit : Recoverable(c) ~> job[c] = "done" \/ ~Recoverable(c)
=============================================================================
