------------------------ MODULE ReleasePublicationProofs ------------------------
(***************************************************************************)
(* The safety properties of ReleasePublication, for any packages of the    *)
(* inventory, versions, commits, bounds and faults.  A job that publishes  *)
(* has behind it what it prepared, accepted and shown; the inventory lists *)
(* a package after what it depends on; and what is shown stays.            *)
(***************************************************************************)
EXTENDS ReleasePublication, TLAPS

JobStates == {"none", "queued", "unprepared", "prepared", "publishing", "confirming",
              "stopped", "done"}

\* What a package may be packed to in version v.
PackedFor(v, p, tarball) ==
    tarball \in Tarballs(p) /\ \A d \in Depends(p) : tarball.needs[d] = v

Types ==
    /\ event \in [Commit -> Version \cup {None}]
    /\ job \in [Commit -> JobStates]
    /\ at \in [Commit -> Nat]
    /\ artifact \in [Commit -> Artifact \cup {None}]
    /\ registry \in [Named \cup {0} -> [Package -> AnyTarball \cup {None}]]
    /\ \A v \in Named \cup {0}, p \in Package : registry[v][p] \in Tarballs(p) \cup {None}
    /\ shown \in [Named -> SUBSET Package]
    /\ bootstrap \in [Package -> AnyTarball \cup {None}]
    /\ \A p \in Package : bootstrap[p] \in Tarballs(p) \cup {None}

\* A run is of a release, and past its prepare job it has what was prepared.
Released(c) ==
    /\ job[c] # "none" => event[c] \in Version
    /\ job[c] = "none" => artifact[c] = None
    /\ job[c] \in {"prepared", "publishing", "confirming", "stopped", "done"} =>
         artifact[c] \in Artifact

\* What is prepared is of the version of the release.
PreparedFor(c) ==
    artifact[c] \in Artifact =>
      \A p \in Package : /\ PackedFor(event[c], p, artifact[c].integrity[p])
                         /\ PackedFor(event[c], p, artifact[c].tarballs[p])

\* A job that publishes is at a place of the inventory, with the bytes that were
\* hashed, and the registry shows the packages behind it as they were prepared.
Behind(c) ==
    job[c] \in {"publishing", "confirming"} =>
      /\ at[c] \in Places
      /\ UnchangedTarballs(c)
      /\ \A n \in Places : n < at[c] =>
           /\ Inventory[n] \in shown[event[c]]
           /\ registry[event[c]][Inventory[n]] = artifact[c].integrity[Inventory[n]]

BootstrapInstalls ==
    \A p \in Package : bootstrap[p] # None => Installs(bootstrap[p])

ReleaseInv ==
    /\ Types
    /\ \A c \in Commit : Released(c) /\ PreparedFor(c) /\ Behind(c)
    /\ BootstrapInstalls /\ Installable

-----------------------------------------------------------------------------
\* The inventory and a checkout.

\* A package is listed once, and after what it depends on.
LEMMA InventoryOrder ==
  /\ DOMAIN Inventory = 1 .. 10
  /\ \A m, n \in 1 .. 10 : Inventory[m] = Inventory[n] => m = n
  /\ \A n \in Places : \A d \in Depends(Inventory[n]) :
       \E m \in Places : m < n /\ Inventory[m] = d
<1>1. DOMAIN Inventory = 1 .. 10
  BY DEF Inventory
<1>2. /\ Inventory[1] = "contracts" /\ Inventory[2] = "auth0" /\ Inventory[3] = "entra"
      /\ Inventory[4] = "identity-link" /\ Inventory[5] = "core"
      /\ Inventory[6] = "policy" /\ Inventory[7] = "stripe" /\ Inventory[8] = "storage"
      /\ Inventory[9] = "admin" /\ Inventory[10] = "tokens"
  BY DEF Inventory
<1>3. \A n \in 1 .. 10 : n = 1 \/ n = 2 \/ n = 3 \/ n = 4 \/ n = 5 \/ n = 6 \/ n = 7
                         \/ n = 8 \/ n = 9 \/ n = 10
  OBVIOUS
<1>4. \A m, n \in 1 .. 10 : Inventory[m] = Inventory[n] => m = n
  BY <1>2, <1>3
<1>5. ASSUME NEW n \in Places, NEW d \in Depends(Inventory[n])
      PROVE  \E m \in Places : m < n /\ Inventory[m] = d
  <2>1. n \in 1 .. 10 /\ d \in Package
    BY <1>1 DEF Places, Depends
  <2>2. CASE d = "contracts"
    <3>1. n # 1
      BY <1>2, <2>2 DEF Depends
    <3>2. 1 \in Places /\ 1 < n
      BY <1>1, <1>2, <2>1, <2>2, <3>1 DEF Places
    <3>. QED  BY <1>2, <2>2, <3>2
  <2>3. CASE d # "contracts"
    <3>1. Inventory[n] = "admin" /\ d = "storage"
      BY <2>3 DEF Depends
    <3>2. n = 9
      BY <1>2, <1>3, <2>1, <3>1
    <3>3. 8 \in Places
      BY <1>1, <1>2, <2>1, <3>1 DEF Places
    <3>. QED  BY <1>2, <3>1, <3>2, <3>3
  <2>. QED  BY <2>2, <2>3
<1>. QED  BY <1>1, <1>4, <1>5

\* What passes the validation of the repository is packed for its version.
LEMMA ValidPacked ==
  ASSUME NEW t \in ValidRepository, NEW p \in Package, NEW text \in Text \cup {None}
  PROVE  PackedFor(t.version, p, Tarball(t, p, text))
<1>1. PICK u \in Tree : /\ t = [version |-> u.version, ranges |-> u.ranges]
                        /\ \A q \in Package : ValidManifest(u, q) /\ ValidLock(u, q)
  BY DEF ValidRepository
<1>2. PICK r \in [Edges -> Named] :
        u.ranges = [q \in Package |-> [d \in Depends(q) |-> r[<<q, d>>]]]
  BY DEF Tree, Ranges
<1>3. u.ranges[p] = [d \in Depends(p) |-> r[<<p, d>>]]
  BY <1>2
<1>4. ASSUME NEW d \in Depends(p) PROVE r[<<p, d>>] \in Named
  BY <1>2, <1>4 DEF Edges, Depends
<1>5. u.ranges[p] \in [Depends(p) -> Named]
  BY <1>3, <1>4
<1>6. \A d \in Depends(p) : u.ranges[p][d] = u.version
  BY <1>1, <1>3 DEF ValidManifest, InternalDependencies
<1>. QED  BY <1>1, <1>5, <1>6 DEF PackedFor, Tarball, Tarballs

-----------------------------------------------------------------------------
\* What every step keeps.

\* What the registry has it keeps, and shows it still.
Grows ==
    /\ \A v \in Named \cup {0}, p \in Package :
         registry[v][p] # None => registry'[v][p] = registry[v][p]
    /\ \A v \in Named : shown[v] \subseteq shown'[v]

StillRun(c) ==
    /\ event'[c] = event[c] /\ job'[c] = job[c] /\ at'[c] = at[c]
    /\ artifact'[c] = artifact[c]

StillOthers(c) == \A d \in Commit \ {c} : StillRun(d)

Sound(c) == Released(c) /\ PreparedFor(c) /\ Behind(c)

LEMMA PlacesArePackages ==
  \A n \in Places : Inventory[n] \in Package /\ n \in Nat
BY InventoryOrder DEF Places

\* The packages behind a job stay there.
LEMMA StillBehind ==
  ASSUME ReleaseInv, Grows, NEW c \in Commit, job[c] \in {"publishing", "confirming"},
         NEW n \in Places, n < at[c]
  PROVE  /\ Inventory[n] \in shown'[event[c]]
         /\ registry'[event[c]][Inventory[n]] = artifact[c].integrity[Inventory[n]]
<1>1. event[c] \in Named /\ artifact[c] \in Artifact /\ Inventory[n] \in Package
  BY PlacesArePackages, VersionAssumption DEF ReleaseInv, Released
<1>2. artifact[c].integrity[Inventory[n]] # None
  BY <1>1, NoneAssumption DEF ReleaseInv, PreparedFor, PackedFor
<1>. QED  BY <1>1, <1>2 DEF ReleaseInv, Behind, Grows

LEMMA StillSound ==
  ASSUME ReleaseInv, Grows, NEW c \in Commit, StillRun(c)
  PROVE  Sound(c)'
<1>1. Released(c)' /\ PreparedFor(c)'
  BY DEF ReleaseInv, Released, PreparedFor, StillRun
<1>2. Behind(c)'
  <2>. SUFFICES ASSUME job'[c] \in {"publishing", "confirming"} PROVE Behind(c)'
    BY DEF Behind
  <2>1. /\ job[c] \in {"publishing", "confirming"} /\ at'[c] = at[c]
        /\ event'[c] = event[c] /\ artifact'[c] = artifact[c]
    BY DEF StillRun
  <2>2. at[c] \in Places /\ UnchangedTarballs(c)
    BY <2>1 DEF ReleaseInv, Behind
  <2>. QED  BY <2>1, <2>2, StillBehind DEF Behind, UnchangedTarballs
<1>. QED  BY <1>1, <1>2 DEF Sound

\* What is installable stays so as more is shown.
LEMMA StaysInstallable ==
  ASSUME Grows, NEW p \in Package, NEW tarball \in Tarballs(p), Installs(tarball)
  PROVE  Installs(tarball)'
BY DEF Installs, Tarballs, Grows

\* Nothing new is in the registry, and nothing is prepared by hand.
LEMMA NothingPublished ==
  ASSUME ReleaseInv, Types', Grows, registry' = registry, bootstrap' = bootstrap
  PROVE  BootstrapInstalls' /\ Installable'
<1>1. ASSUME NEW p \in Package, bootstrap'[p] # None PROVE Installs(bootstrap[p])'
  BY <1>1, StaysInstallable DEF ReleaseInv, BootstrapInstalls, Types
<1>2. ASSUME NEW v \in Named \cup {0}, NEW p \in Package, registry'[v][p] # None
      PROVE  Installs(registry[v][p])'
  BY <1>2, StaysInstallable DEF ReleaseInv, Installable, Types
<1>. QED  BY <1>1, <1>2 DEF BootstrapInstalls, Installable

LEMMA NothingGrows ==
  ASSUME registry' = registry, shown' = shown PROVE Grows
BY DEF Grows

LEMMA OneRunMoves ==
  ASSUME ReleaseInv, Grows, NEW c \in Commit, StillOthers(c), Sound(c)'
  PROVE  \A d \in Commit : Sound(d)'
BY StillSound DEF StillOthers

\* What a step of one run has to show.
LEMMA StepKeeps ==
  ASSUME ReleaseInv, Types', Grows, NEW c \in Commit, StillOthers(c), Sound(c)',
         BootstrapInstalls', Installable'
  PROVE  ReleaseInv'
BY OneRunMoves DEF ReleaseInv, Sound

-----------------------------------------------------------------------------
\* The steps of a run that move it and nothing else.

\* A run that is to publish nothing now.
LEMMA Moved ==
  ASSUME ReleaseInv, NEW c \in Commit,
         NEW label \in {"queued", "unprepared", "prepared", "stopped", "done"},
         Goto(c, label), job[c] # "none",
         label \in {"prepared", "stopped", "done"} => artifact[c] \in Artifact,
         UNCHANGED <<event, at, artifact, registry, shown, bootstrap>>
  PROVE  ReleaseInv'
<1>1. Types' /\ job'[c] = label /\ StillOthers(c)
  BY DEF ReleaseInv, Types, Goto, JobStates, StillOthers, StillRun
<1>2. Grows
  BY NothingGrows
<1>3. Sound(c)'
  BY <1>1 DEF ReleaseInv, Sound, Released, PreparedFor, Behind
<1>. QED  BY <1>1, <1>2, <1>3, NothingPublished, StepKeeps

\* A run comes to a place all before which is published and shown.
LEMMA Arrived ==
  ASSUME ReleaseInv, NEW c \in Commit, NEW n \in Places,
         job[c] \in {"prepared", "publishing", "confirming"},
         Goto(c, "publishing"), at' = [at EXCEPT ![c] = n], UnchangedTarballs(c),
         \A k \in Places : k < n =>
           /\ Inventory[k] \in shown[event[c]]
           /\ registry[event[c]][Inventory[k]] = artifact[c].integrity[Inventory[k]],
         UNCHANGED <<event, artifact, registry, shown, bootstrap>>
  PROVE  ReleaseInv'
<1>1. Types' /\ job'[c] = "publishing" /\ at'[c] = n /\ StillOthers(c)
  BY PlacesArePackages DEF ReleaseInv, Types, Goto, JobStates, StillOthers, StillRun
<1>2. Grows
  BY NothingGrows
<1>3. Released(c)' /\ PreparedFor(c)'
  BY <1>1 DEF ReleaseInv, Released, PreparedFor
<1>4. Behind(c)'
  BY <1>1 DEF Behind, UnchangedTarballs
<1>. QED  BY <1>1, <1>2, <1>3, <1>4, NothingPublished, StepKeeps DEF Sound

LEMMA StartPublishKeeps ==
  ASSUME ReleaseInv, NEW c \in Commit, StartPublish(c)
  PROVE  ReleaseInv'
<1>1. artifact[c] \in Artifact
  BY DEF ReleaseInv, Released, StartPublish
<1>2. CASE tag[event[c]] = c /\ UnchangedTarballs(c)
  <2>1. PICK n \in First(Places) : at' = [at EXCEPT ![c] = n] /\ Goto(c, "publishing")
    BY <1>2 DEF StartPublish
  <2>2. n \in Places /\ \A k \in Places : ~(k < n)
    BY PlacesArePackages DEF First
  <2>. QED  BY <1>2, <2>1, <2>2, Arrived DEF StartPublish, prepared, published
<1>3. CASE ~(tag[event[c]] = c /\ UnchangedTarballs(c))
  BY <1>1, <1>3, Moved DEF StartPublish, prepared, published
<1>. QED  BY <1>2, <1>3

\* The package at hand is in the inventory and was prepared for the release.
LEMMA AtHand ==
  ASSUME ReleaseInv, NEW c \in Commit, job[c] \in {"publishing", "confirming"}
  PROVE  /\ event[c] \in Version /\ event[c] \in Named /\ artifact[c] \in Artifact
         /\ at[c] \in Places /\ Current(c) \in Package
         /\ Prepared(c) \in Tarballs(Current(c)) /\ Prepared(c) # None
         /\ \A d \in Depends(Current(c)) : Prepared(c).needs[d] = event[c]
         /\ artifact[c].tarballs[Current(c)] = Prepared(c)
<1>1. /\ event[c] \in Version /\ event[c] \in Named /\ artifact[c] \in Artifact
      /\ at[c] \in Places /\ UnchangedTarballs(c)
  BY VersionAssumption DEF ReleaseInv, Released, Behind
<1>2. Current(c) \in Package
  BY <1>1, PlacesArePackages DEF Current
<1>. QED  BY <1>1, <1>2, NoneAssumption
          DEF ReleaseInv, PreparedFor, PackedFor, Prepared, UnchangedTarballs

\* Past a package the registry shows as it was prepared.
LEMMA AdvanceKeeps ==
  ASSUME ReleaseInv, NEW c \in Commit, job[c] \in {"publishing", "confirming"},
         Shows(event[c], Current(c)) = Prepared(c), Advance(c),
         UNCHANGED <<event, artifact, registry, shown, bootstrap>>
  PROVE  ReleaseInv'
<1>1. /\ artifact[c] \in Artifact /\ at[c] \in Places /\ at[c] \in Nat
      /\ Prepared(c) # None
  BY AtHand, PlacesArePackages
<1>2. /\ Current(c) \in shown[event[c]]
      /\ registry[event[c]][Current(c)] = Prepared(c)
  BY <1>1 DEF Shows
<1>3. CASE UNCHANGED at /\ Goto(c, "done")
  BY <1>1, <1>3, Moved
<1>4. CASE \E n \in First({n \in Places : at[c] < n}) :
             at' = [at EXCEPT ![c] = n] /\ Goto(c, "publishing")
  <2>1. PICK n \in First({n \in Places : at[c] < n}) :
               at' = [at EXCEPT ![c] = n] /\ Goto(c, "publishing")
    BY <1>4
  <2>2. /\ n \in Places
        /\ \A k \in Places : k < n => k < at[c] \/ k = at[c]
    BY <1>1, PlacesArePackages DEF First
  <2>3. \A k \in Places : k < n =>
           /\ Inventory[k] \in shown[event[c]]
           /\ registry[event[c]][Inventory[k]] = artifact[c].integrity[Inventory[k]]
    BY <1>2, <2>2 DEF ReleaseInv, Behind, Current, Prepared
  <2>4. UnchangedTarballs(c)
    BY DEF ReleaseInv, Behind
  <2>. QED  BY <2>1, <2>2, <2>3, <2>4, Arrived
<1>. QED  BY <1>3, <1>4 DEF Advance

LEMMA SkipKeeps ==
  ASSUME ReleaseInv, NEW c \in Commit, Skip(c)
  PROVE  ReleaseInv'
<1>1. Shows(event[c], Current(c)) = Prepared(c)
  BY DEF Skip, Decided, Decision
<1>. QED  BY <1>1, AdvanceKeeps DEF Skip, prepared, published

LEMMA ConfirmKeeps ==
  ASSUME ReleaseInv, NEW c \in Commit, Confirm(c)
  PROVE  ReleaseInv'
BY AdvanceKeeps DEF Confirm, Confirmed, prepared, published

-----------------------------------------------------------------------------
\* The steps that publish, or that change what is published.

\* The registry gets one tarball that can be installed now.
LEMMA Published ==
  ASSUME ReleaseInv, NEW v \in Named \cup {0}, NEW p \in Package, NEW t \in Tarballs(p),
         registry[v][p] = None, registry' = [registry EXCEPT ![v][p] = t],
         Installs(t), UNCHANGED <<shown, bootstrap>>
  PROVE  /\ Grows /\ BootstrapInstalls' /\ Installable'
         /\ registry' \in [Named \cup {0} -> [Package -> AnyTarball \cup {None}]]
         /\ \A w \in Named \cup {0}, q \in Package : registry'[w][q] \in Tarballs(q) \cup {None}
<1>1. \A w \in Named \cup {0}, q \in Package :
        registry'[w][q] = IF w = v /\ q = p THEN t ELSE registry[w][q]
  BY DEF ReleaseInv, Types
<1>2. Grows
  BY <1>1 DEF Grows
<1>3. BootstrapInstalls'
  <2>. SUFFICES ASSUME NEW q \in Package, bootstrap'[q] # None
                PROVE  Installs(bootstrap[q])'
    BY DEF BootstrapInstalls
  <2>. QED  BY <1>2, StaysInstallable DEF ReleaseInv, BootstrapInstalls, Types
<1>4. Installable'
  <2>. SUFFICES ASSUME NEW w \in Named \cup {0}, NEW q \in Package, registry'[w][q] # None
                PROVE  Installs(registry[w][q])'
    BY DEF Installable
  <2>1. /\ registry'[w][q] \in Tarballs(q) /\ Installs(registry'[w][q])
    BY <1>1 DEF ReleaseInv, Installable, Types
  <2>. QED  BY <2>1 DEF Installs
<1>5. t \in AnyTarball
  BY DEF AnyTarball
<1>. QED  BY <1>1, <1>2, <1>3, <1>4, <1>5 DEF ReleaseInv, Types

\* What the package at hand needs is behind it.
LEMMA PreparedInstalls ==
  ASSUME ReleaseInv, NEW c \in Commit, job[c] \in {"publishing", "confirming"}
  PROVE  Installs(Prepared(c))
<1>1. ASSUME NEW d \in Depends(Current(c)) PROVE d \in shown[event[c]]
  <2>1. at[c] \in Places
    BY AtHand
  <2>2. PICK m \in Places : m < at[c] /\ Inventory[m] = d
    BY <1>1, <2>1, InventoryOrder DEF Current
  <2>. QED  BY <2>2 DEF ReleaseInv, Behind
<1>2. DOMAIN Prepared(c).needs = Depends(Current(c))
  BY AtHand DEF Tarballs
<1>. QED  BY <1>1, <1>2, AtHand DEF Installs

LEMMA PublishKeeps ==
  ASSUME ReleaseInv, NEW c \in Commit, Publish(c)
  PROVE  ReleaseInv'
<1>1. /\ event[c] \in Named \cup {0} /\ Current(c) \in Package
      /\ Prepared(c) \in Tarballs(Current(c)) /\ artifact[c] \in Artifact
      /\ registry' = [registry EXCEPT ![event[c]][Current(c)] = Prepared(c)]
      /\ registry[event[c]][Current(c)] = None
      /\ UNCHANGED <<event, at, artifact, shown, bootstrap>>
  BY AtHand DEF Publish, Accepts, prepared
<1>2. /\ job \in [Commit -> JobStates]
      /\ job' = [job EXCEPT ![c] = "confirming"] \/ job' = [job EXCEPT ![c] = "stopped"]
  BY DEF Publish, Goto, ReleaseInv, Types
<1>3. /\ job'[c] \in {"confirming", "stopped"} /\ job' \in [Commit -> JobStates]
      /\ StillOthers(c)
  BY <1>1, <1>2 DEF JobStates, StillOthers, StillRun
<1>4. Types' /\ Grows /\ BootstrapInstalls' /\ Installable'
  BY <1>1, <1>3, PreparedInstalls, Published DEF Publish, ReleaseInv, Types
<1>5. Released(c)' /\ PreparedFor(c)'
  BY <1>1, <1>3 DEF Publish, ReleaseInv, Released, PreparedFor
<1>6. Behind(c)'
  <2>1. at[c] \in Places /\ UnchangedTarballs(c)
    BY DEF Publish, ReleaseInv, Behind
  <2>. QED  BY <1>1, <1>4, <2>1, StillBehind DEF Publish, Behind, UnchangedTarballs
<1>. QED  BY <1>3, <1>4, <1>5, <1>6, StepKeeps DEF Sound

LEMMA PublishBootstrapKeeps ==
  ASSUME ReleaseInv, NEW p \in Package, PublishBootstrap(p)
  PROVE  ReleaseInv'
<1>1. /\ bootstrap[p] \in Tarballs(p) /\ Installs(bootstrap[p])
      /\ registry[0][p] = None /\ registry' = [registry EXCEPT ![0][p] = bootstrap[p]]
      /\ UNCHANGED <<event, job, at, artifact, shown, bootstrap>>
  BY DEF PublishBootstrap, ReleaseInv, Types, BootstrapInstalls, runs, prepared
<1>2. Types' /\ Grows /\ BootstrapInstalls' /\ Installable'
  BY <1>1, Published DEF ReleaseInv, Types
<1>3. \A c \in Commit : Sound(c)'
  BY <1>1, <1>2, StillSound DEF StillRun
<1>. QED  BY <1>2, <1>3 DEF ReleaseInv, Sound

LEMMA PrepareBootstrapKeeps ==
  ASSUME ReleaseInv, NEW p \in Package, PrepareBootstrap(p)
  PROVE  ReleaseInv'
<1>1. PICK t \in ValidRepository :
        /\ Installs(Tarball(t, p, None))
        /\ bootstrap' = [bootstrap EXCEPT ![p] = Tarball(t, p, None)]
  BY DEF PrepareBootstrap
<1>2. UNCHANGED <<event, job, at, artifact, registry, shown>>
  BY DEF PrepareBootstrap, runs, prepared, published
<1>3. Tarball(t, p, None) \in Tarballs(p)
  BY ValidPacked DEF PackedFor
<1>4. \A q \in Package :
        bootstrap'[q] = IF q = p THEN Tarball(t, p, None) ELSE bootstrap[q]
  BY <1>1 DEF ReleaseInv, Types
<1>5. Types'
  <2>1. Tarball(t, p, None) \in AnyTarball
    BY <1>3 DEF AnyTarball
  <2>. QED  BY <1>1, <1>2, <1>3, <1>4, <2>1 DEF ReleaseInv, Types
<1>6. Grows
  BY <1>2, NothingGrows
<1>7. BootstrapInstalls'
  <2>. SUFFICES ASSUME NEW q \in Package, bootstrap'[q] # None
                PROVE  Installs(bootstrap[q])'
    BY DEF BootstrapInstalls
  <2>. QED  BY <1>1, <1>2, <1>4 DEF ReleaseInv, BootstrapInstalls, Installs
<1>8. Installable'
  BY <1>2 DEF ReleaseInv, Installable, Installs
<1>9. \A c \in Commit : Sound(c)'
  BY <1>2, <1>6, StillSound DEF StillRun
<1>. QED  BY <1>5, <1>7, <1>8, <1>9 DEF ReleaseInv, Sound

LEMMA ShowKeeps ==
  ASSUME ReleaseInv, NEW v \in Version, NEW p \in Package, Show(v, p)
  PROVE  ReleaseInv'
<1>1. /\ shown' = [shown EXCEPT ![v] = @ \cup {p}] /\ v \in Named
      /\ UNCHANGED <<event, job, at, artifact, registry, bootstrap>>
  BY VersionAssumption DEF Show, runs, prepared
<1>2. Grows /\ Types'
  BY <1>1 DEF ReleaseInv, Types, Grows
<1>3. \A c \in Commit : Sound(c)'
  BY <1>1, <1>2, StillSound DEF StillRun
<1>. QED  BY <1>1, <1>2, <1>3, NothingPublished DEF ReleaseInv, Sound

-----------------------------------------------------------------------------
\* The steps that prepare a release, or that nothing is published by.

LEMMA ReleaseKeeps ==
  ASSUME ReleaseInv, NEW c \in Commit, NEW v \in Version, Release(c, v)
  PROVE  ReleaseInv'
<1>1. /\ event' = [event EXCEPT ![c] = v] /\ job' = [job EXCEPT ![c] = "queued"]
      /\ UNCHANGED <<at, artifact, registry, shown, bootstrap>>
  BY DEF Release, prepared, published
<1>2. /\ Types' /\ job'[c] = "queued" /\ event'[c] = v /\ StillOthers(c) /\ Grows
  BY <1>1, NothingGrows DEF ReleaseInv, Types, JobStates, StillOthers, StillRun
<1>3. artifact'[c] = None /\ None \notin Artifact
  BY <1>1, NoneAssumption DEF Release, ReleaseInv, Released
<1>4. Sound(c)'
  BY <1>2, <1>3 DEF Sound, Released, PreparedFor, Behind
<1>. QED  BY <1>1, <1>2, <1>4, NothingPublished, StepKeeps

LEMMA MoveTagKeeps ==
  ASSUME ReleaseInv, NEW c \in Commit, NEW v \in Version, MoveTag(v, c)
  PROVE  ReleaseInv'
<1>1. UNCHANGED <<event, job, at, artifact, registry, shown, bootstrap>>
  BY DEF MoveTag, runs, prepared, published
<1>2. Types' /\ Grows
  BY <1>1, NothingGrows DEF ReleaseInv, Types
<1>3. \A d \in Commit : Sound(d)'
  BY <1>1, <1>2, StillSound DEF StillRun
<1>. QED  BY <1>1, <1>2, <1>3, NothingPublished DEF ReleaseInv, Sound

\* A run has another artifact, all packed for its version.
LEMMA Repacked ==
  ASSUME ReleaseInv, NEW c \in Commit, NEW a \in Artifact,
         artifact' = [artifact EXCEPT ![c] = a],
         \A p \in Package : /\ PackedFor(event[c], p, a.integrity[p])
                            /\ PackedFor(event[c], p, a.tarballs[p]),
         job' = job \/ Goto(c, "prepared"),
         job'[c] \in {"prepared", "stopped"}, job[c] # "none",
         UNCHANGED <<event, at, registry, shown, bootstrap>>
  PROVE  ReleaseInv'
<1>1. Types' /\ artifact'[c] = a /\ StillOthers(c) /\ Grows
  BY NothingGrows DEF ReleaseInv, Types, Goto, JobStates, StillOthers, StillRun
<1>2. Sound(c)'
  BY <1>1 DEF ReleaseInv, Sound, Released, PreparedFor, Behind
<1>. QED  BY <1>1, <1>2, NothingPublished, StepKeeps

LEMMA PrepareKeeps ==
  ASSUME ReleaseInv, NEW c \in Commit, Prepare(c)
  PROVE  ReleaseInv'
<1>1. PICK t \in ValidRepository, text \in [Package -> Text] :
        /\ t.version = event[c]
        /\ artifact' = [artifact EXCEPT ![c] =
             [integrity |-> [p \in Package |-> Tarball(t, p, text[p])],
              tarballs |-> [p \in Package |-> Tarball(t, p, text[p])]]]
  BY DEF Prepare
<1>. DEFINE tarballs == [p \in Package |-> Tarball(t, p, text[p])]
            a == [integrity |-> tarballs, tarballs |-> tarballs]
<1>2. \A p \in Package : PackedFor(event[c], p, tarballs[p])
  BY <1>1, ValidPacked
<1>3. a \in Artifact
  <2>1. \A p \in Package : tarballs[p] \in AnyTarball
    BY <1>2 DEF PackedFor, AnyTarball
  <2>2. tarballs \in Packed
    BY <2>1 DEF Packed
  <2>. QED  BY <2>2 DEF Artifact
<1>4. job[c] = "queued" /\ Goto(c, "prepared") /\ job'[c] = "prepared"
  BY DEF Prepare, Goto, ReleaseInv, Types
<1>5. UNCHANGED <<event, at, registry, shown, bootstrap>>
  BY DEF Prepare, published
<1>6. artifact' = [artifact EXCEPT ![c] = a] /\ a.integrity = tarballs /\ a.tarballs = tarballs
  BY <1>1
<1>. HIDE DEF a
<1>. QED  BY <1>2, <1>3, <1>4, <1>5, <1>6, Repacked

LEMMA DamageKeeps ==
  ASSUME ReleaseInv, NEW c \in Commit, NEW p \in Package, Damage(c, p)
  PROVE  ReleaseInv'
<1>1. PICK text \in Text : artifact' = [artifact EXCEPT ![c].tarballs[p].text = text]
  BY DEF Damage
<1>2. job[c] \in {"prepared", "stopped"} /\ artifact[c] \in Artifact
  BY DEF Damage, ReleaseInv, Released
<1>. DEFINE a == [artifact[c] EXCEPT !.tarballs[p].text = text]
<1>3. /\ a.integrity = artifact[c].integrity
      /\ \A q \in Package : q # p => a.tarballs[q] = artifact[c].tarballs[q]
      /\ a.tarballs[p] = [artifact[c].tarballs[p] EXCEPT !.text = text]
      /\ DOMAIN a.tarballs = Package
  BY <1>2 DEF Artifact, Packed
<1>4. \A q \in Package : /\ PackedFor(event[c], q, artifact[c].integrity[q])
                         /\ PackedFor(event[c], q, artifact[c].tarballs[q])
  BY <1>2 DEF ReleaseInv, PreparedFor
<1>5. PackedFor(event[c], p, a.tarballs[p])
  BY <1>3, <1>4 DEF PackedFor, Tarballs
<1>6. \A q \in Package : /\ PackedFor(event[c], q, a.integrity[q])
                         /\ PackedFor(event[c], q, a.tarballs[q])
  BY <1>3, <1>4, <1>5
<1>7. a \in Artifact
  <2>1. a = [artifact[c] EXCEPT !.tarballs = [artifact[c].tarballs EXCEPT ![p].text = text]]
    OBVIOUS
  <2>2. [artifact[c].tarballs EXCEPT ![p].text = text] \in Packed
    <3>1. [artifact[c].tarballs[p] EXCEPT !.text = text] \in AnyTarball
      BY <1>3, <1>5 DEF PackedFor, AnyTarball
    <3>. QED  BY <1>2, <3>1 DEF Artifact, Packed
  <2>. QED  BY <1>2, <2>1, <2>2 DEF Artifact
<1>8. artifact' = [artifact EXCEPT ![c] = a]
  BY <1>1
<1>9. job' = job /\ UNCHANGED <<event, at, registry, shown, bootstrap>>
  BY DEF Damage, runs, published
<1>. HIDE DEF a
<1>. QED  BY <1>2, <1>6, <1>7, <1>8, <1>9, Repacked

\* The other steps of a run stop it or send it back.
LEMMA StopsKeep ==
  ASSUME ReleaseInv, NEW c \in Commit,
         \/ PrepareFails(c) \/ Stop(c) \/ PublishRejected(c) \/ ConfirmFails(c)
         \/ Fault(c) \/ RerunFailed(c) \/ RerunAll(c)
  PROVE  ReleaseInv'
<1>1. UNCHANGED <<event, at, artifact, registry, shown, bootstrap>>
  BY DEF PrepareFails, Stop, PublishRejected, ConfirmFails, Fault, RerunFailed, RerunAll,
         prepared, published
<1>2. PICK label \in {"queued", "unprepared", "prepared", "stopped"} :
        /\ Goto(c, label) /\ job[c] # "none"
        /\ label \in {"prepared", "stopped"} =>
             job[c] \in {"prepared", "publishing", "confirming", "stopped"}
  BY DEF PrepareFails, Stop, PublishRejected, ConfirmFails, Fault, RerunFailed, RerunAll
<1>3. label \in {"prepared", "stopped", "done"} => artifact[c] \in Artifact
  BY <1>2 DEF ReleaseInv, Released
<1>. QED  BY <1>1, <1>2, <1>3, Moved

-----------------------------------------------------------------------------
\* The invariant.

LEMMA ReleaseInvInit == Init => ReleaseInv
<1>. SUFFICES ASSUME Init PROVE ReleaseInv
  OBVIOUS
<1>1. Types
  <2>1. /\ event \in [Commit -> Version \cup {None}] /\ job \in [Commit -> JobStates]
        /\ at \in [Commit -> Nat] /\ artifact \in [Commit -> Artifact \cup {None}]
    BY DEF Init, JobStates
  <2>. DEFINE nothing == [p \in Package |-> None]
  <2>2. nothing \in [Package -> AnyTarball \cup {None}] /\ \A p \in Package : nothing[p] = None
    BY ZenonT(20)
  <2>3. /\ registry = [v \in Named \cup {0} |-> nothing]
        /\ bootstrap = nothing /\ shown = [v \in Named |-> {}]
    BY DEF Init
  <2>. HIDE DEF nothing
  <2>4. /\ registry \in [Named \cup {0} -> [Package -> AnyTarball \cup {None}]]
        /\ \A v \in Named \cup {0}, p \in Package : registry[v][p] = None
    BY <2>2, <2>3
  <2>5. /\ shown \in [Named -> SUBSET Package]
        /\ bootstrap \in [Package -> AnyTarball \cup {None}]
        /\ \A p \in Package : bootstrap[p] = None
    BY <2>2, <2>3
  <2>. QED  BY <2>1, <2>4, <2>5 DEF Types
<1>2. \A c \in Commit : Released(c) /\ PreparedFor(c) /\ Behind(c)
  BY NoneAssumption DEF Init, Released, PreparedFor, Behind
<1>3. BootstrapInstalls /\ Installable
  BY DEF Init, BootstrapInstalls, Installable
<1>. QED  BY <1>1, <1>2, <1>3 DEF ReleaseInv

LEMMA ReleaseInvNext == ReleaseInv /\ [Next]_vars => ReleaseInv'
<1>. SUFFICES ASSUME ReleaseInv, [Next]_vars PROVE ReleaseInv'
  OBVIOUS
<1>1. CASE UNCHANGED vars
  <2>1. UNCHANGED <<event, job, at, artifact, registry, shown, bootstrap>>
    BY <1>1 DEF vars, runs, prepared, published
  <2>2. Types' /\ Grows
    BY <2>1, NothingGrows DEF ReleaseInv, Types
  <2>3. \A d \in Commit : Sound(d)'
    BY <2>1, <2>2, StillSound DEF StillRun
  <2>. QED  BY <2>1, <2>2, <2>3, NothingPublished DEF ReleaseInv, Sound
<1>2. ASSUME NEW c \in Commit, Prepare(c) \/ PrepareFails(c) PROVE ReleaseInv'
  BY <1>2, PrepareKeeps, StopsKeep
<1>3. ASSUME NEW c \in Commit, Proceed(c) PROVE ReleaseInv'
  BY <1>3, StartPublishKeeps, SkipKeeps, PublishKeeps, ConfirmKeeps, StopsKeep DEF Proceed
<1>4. ASSUME NEW c \in Commit, Fault(c) \/ RerunFailed(c) \/ RerunAll(c) PROVE ReleaseInv'
  BY <1>4, StopsKeep
<1>5. ASSUME NEW c \in Commit, NEW v \in Version, Release(c, v) \/ MoveTag(v, c)
      PROVE  ReleaseInv'
  BY <1>5, ReleaseKeeps, MoveTagKeeps
<1>6. ASSUME NEW c \in Commit, NEW p \in Package, Damage(c, p) PROVE ReleaseInv'
  BY <1>6, DamageKeeps
<1>7. ASSUME NEW p \in Package, PrepareBootstrap(p) \/ PublishBootstrap(p)
      PROVE  ReleaseInv'
  BY <1>7, PrepareBootstrapKeeps, PublishBootstrapKeeps
<1>8. ASSUME NEW p \in Package, NEW v \in Version, Show(v, p) PROVE ReleaseInv'
  BY <1>8, ShowKeeps
<1>. QED  BY <1>1, <1>2, <1>3, <1>4, <1>5, <1>6, <1>7, <1>8 DEF Next

LEMMA ReleaseInvAlways == Spec => []ReleaseInv
BY ReleaseInvInit, ReleaseInvNext, PTL DEF Spec

-----------------------------------------------------------------------------
\* The theorems.

\* Whatever the registry has can be installed: the exact versions it names are
\* shown (confirmRegistryIntegrity before the next place of the inventory).
THEOREM PublishedInstalls == Spec => []Installable
BY ReleaseInvAlways, PTL DEF ReleaseInv

\* The registry changes by a publish of the package at hand, or by that of a
\* bootstrap, which is of no released version.
LEMMA RegistrySteps ==
  ASSUME ReleaseInv, Next, registry' # registry
  PROVE  \/ \E c \in Commit : Publish(c)
         \/ \E p \in Package : PublishBootstrap(p)
<1>1. ASSUME NEW c \in Commit,
             \/ Prepare(c) \/ PrepareFails(c) \/ Fault(c) \/ RerunFailed(c) \/ RerunAll(c)
             \/ \E v \in Version : Release(c, v) \/ MoveTag(v, c)
             \/ \E p \in Package : Damage(c, p)
      PROVE  registry' = registry
  BY <1>1 DEF Prepare, PrepareFails, Fault, RerunFailed, RerunAll, Release, MoveTag,
              Damage, published
<1>2. \A c \in Commit : Proceed(c) => Publish(c) \/ registry' = registry
  BY DEF Proceed, StartPublish, Skip, Confirm, Stop, PublishRejected, ConfirmFails,
         published
<1>3. ASSUME NEW p \in Package, PrepareBootstrap(p) \/ \E v \in Version : Show(v, p)
      PROVE  registry' = registry
  BY <1>3 DEF PrepareBootstrap, Show, published
<1>. QED  BY <1>1, <1>2, <1>3 DEF Next

LEMMA OwnReleaseNext ==
  ASSUME ReleaseInv, [Next]_vars, NEW v \in Version, NEW i \in Places,
         registry'[v][Inventory[i]] # registry[v][Inventory[i]]
  PROVE  \E c \in Commit :
           /\ event[c] = v /\ artifact[c] # None
           /\ registry'[v][Inventory[i]] = artifact[c].integrity[Inventory[i]]
           /\ \A k \in Places : k < i =>
                registry[v][Inventory[k]] = artifact[c].integrity[Inventory[k]]
<1>1. registry' # registry /\ Next
  BY DEF vars, published
<1>2. v \in Named /\ v # 0 /\ Inventory[i] \in Package
  BY PlacesArePackages, VersionAssumption
<1>3. ASSUME NEW p \in Package, PublishBootstrap(p) PROVE FALSE
  BY <1>2, <1>3 DEF PublishBootstrap, ReleaseInv, Types
<1>4. PICK c \in Commit : Publish(c)
  BY <1>1, <1>3, RegistrySteps
<1>5. /\ event[c] \in Named /\ Current(c) \in Package /\ at[c] \in Places
      /\ artifact[c] \in Artifact
      /\ registry' = [registry EXCEPT ![event[c]][Current(c)] = Prepared(c)]
  BY <1>4, AtHand DEF Publish
<1>6. event[c] = v /\ Current(c) = Inventory[i] /\ registry'[v][Inventory[i]] = Prepared(c)
  BY <1>2, <1>5 DEF ReleaseInv, Types
<1>7. at[c] = i
  BY <1>5, <1>6, InventoryOrder DEF Current, Places
<1>8. \A k \in Places : k < at[c] =>
        registry[v][Inventory[k]] = artifact[c].integrity[Inventory[k]]
  BY <1>4, <1>6 DEF Publish, ReleaseInv, Behind
<1>. QED  BY <1>5, <1>6, <1>7, <1>8, NoneAssumption DEF Prepared

\* A publish goes onto the same prepared release, byte for byte, whichever
\* attempt began the version (decidePublication).
THEOREM PublishesOwn == Spec => PublishesIntoItsOwnRelease
<1>1. ReleaseInv /\ [Next]_vars =>
        [\A v \in Version, i \in Places :
         registry'[v][Inventory[i]] # registry[v][Inventory[i]] =>
           \E c \in Commit :
             /\ event[c] = v /\ artifact[c] # None
             /\ registry'[v][Inventory[i]] = artifact[c].integrity[Inventory[i]]
             /\ \A k \in Places : k < i =>
                  registry[v][Inventory[k]] = artifact[c].integrity[Inventory[k]]]_vars
  BY OwnReleaseNext
<1>. QED  BY <1>1, ReleaseInvAlways, PTL DEF Spec, PublishesIntoItsOwnRelease
=============================================================================
