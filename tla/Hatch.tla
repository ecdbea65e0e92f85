------------------------------- MODULE Hatch -------------------------------
(***************************************************************************)
(* `defn hatch` (lib/hatch/hatch.go): Cycle repeats a pass of the          *)
(* generation pipeline until a pass changes no file, or the limit on the   *)
(* passes is reached; CycleAndValidate makes one pass with tests.  A pass  *)
(* (runCycle) is RunFullPipeline (cmd/gen/service.go), lattice.Run and     *)
(* buildsync.Run.                                                          *)
(*                                                                         *)
(* The context is made once per Cycle.  Its catalog is loaded then, and    *)
(* again in the middle of every pass: the generators of a pass use the     *)
(* catalog the pass before it loaded, which may be older than the files.   *)
(* The overlay, through which the app generator sees the tenants' catalogs,*)
(* is also read again near the end of the pipeline.                        *)
(* Meanwhile a user edits the workspace, and hatch may be killed between   *)
(* any two writes and run again.                                           *)
(*                                                                         *)
(* The files are the ones that feed each other: the user's catalog (the    *)
(* apps it declares), a file of no special kind and the source directories,*)
(* and for each app its entry in chart_versions.cue, its line in           *)
(* gen-chart-digests.cue, its brick in the catalog, the render made for a  *)
(* chart version, the dispatch.cue and the files copied from the build;    *)
(* then the listing of the tree and gen-files.txt.  Version 0 is the one   *)
(* a seeded entry has, and the default of a chart without an entry.        *)
(***************************************************************************)
EXTENDS Lattice

CONSTANTS App,            \* the apps the user may declare
          Limits,         \* values of DEFN_HATCH_MAX_ITERATIONS
          MaxEdits,       \* bound on the user's edits
          MaxKills,       \* bound on the times hatch is killed or fails
          Undo,           \* edits may bring an earlier workspace back
          GitFails        \* git ls-files may fail before a pass

ASSUME LimitsPositive == Limits \subseteq 1..50 /\ Limits # {}
ASSUME BoundsNatural == MaxEdits \in Nat /\ MaxKills \in Nat

VARIABLES
  disk,          \* the files
  catalog, overlay,         \* the context: Catalog, overlay (its apps),
  tree, genLines,           \* SpecTree; the lines logged
  mode, maxIters, iter,     \* Cycle or CycleAndValidate; its loop
  pc, gens,      \* place in the pass; Phase A generators still to run
  snapshot,      \* mtimesBefore was taken
  changed,       \* the mtime of some tracked file is later than then
  result,        \* what the last hatch returned
  edited,        \* history: the workspace was edited since it began
  edits, kills

ctxVars == <<catalog, overlay, tree, genLines>>
loopVars == <<mode, maxIters, iter, snapshot>>
userVars == <<edited, edits, kills>>
vars == <<latticeVars, disk, ctxVars, loopVars, pc, gens, changed, result,
          userVars>>

MaxCycleIterations == 5
Brick == App \cup {"infra"}
Step == {"infra", "bricks", "render"}     \* infra.Run; app.Run's two parts
Empty == [a \in {} |-> 0]
NoCatalog == [apps |-> {}, versions |-> Empty, digests |-> Empty,
              bricks |-> {}]
NoLines == [outputs |-> {}, stamped |-> {}]
NoTree == [dirs |-> {}, renders |-> {}, dispatch |-> {}, shards |-> {}]

Version == 0..MaxEdits
NoDigest == -1
Partial(S, T) == UNION {[D -> T] : D \in SUBSET S}

TypeOK ==
  /\ disk.apps \subseteq App /\ disk.note \in 0..MaxEdits
  /\ disk.entries \in [App -> Nat] /\ disk.version \in [App -> Version]
  /\ disk.digests \in Partial(App, Version \cup {NoDigest})
  /\ disk.bricks \subseteq Brick /\ disk.dirs \subseteq Brick
  /\ disk.renders \in Partial(App, Version)
  /\ disk.dispatch \subseteq Brick /\ disk.synced \subseteq App
  /\ catalog.apps \subseteq App /\ catalog.bricks \subseteq Brick
  /\ catalog.versions \in Partial(App, Version)
  /\ catalog.digests \in Partial(App, Version \cup {NoDigest})
  /\ overlay \subseteq App
  /\ mode \in {"cycle", "validate"}
  /\ maxIters \in Limits /\ iter \in 0..maxIters
  /\ pc \in {"idle", "snapshot", "versions", "digests", "phaseA", "reload",
             "dispatch", "tree", "lattice", "writing", "buildsync", "finish"}
  /\ gens \subseteq Step
  /\ snapshot \in BOOLEAN /\ changed \in BOOLEAN /\ edited \in BOOLEAN
  /\ result \in {"none", "idempotent", "limit", "validated", "error"}
  /\ edits \in 0..MaxEdits /\ kills \in 0..MaxKills

Init ==
  /\ LatticeInit
  /\ disk = [apps |-> {}, note |-> 0, dirs |-> {},
             entries |-> [a \in App |-> 0], version |-> [a \in App |-> 0],
             digests |-> Empty, bricks |-> {}, renders |-> Empty,
             dispatch |-> {}, synced |-> {}, listing |-> NoTree,
             log |-> NoLines]
  /\ catalog = NoCatalog /\ overlay = {} /\ tree = NoTree
  /\ genLines = NoLines
  /\ mode = "cycle" /\ maxIters \in Limits /\ iter = 0
  /\ pc = "idle" /\ gens = {} /\ snapshot = FALSE /\ changed = FALSE
  /\ result = "none" /\ edited = FALSE /\ edits = 0 /\ kills = 0

----------------------------------------------------------------------------
(* What each part of a pass makes of the files d, with the catalog c       *)

MutLoad(d) ==
  [apps |-> d.apps,
   versions |-> Restrict(d.version, {a \in App : d.entries[a] > 0}),
   digests |-> d.digests, bricks |-> {}]

Load(d) ==
  [apps |-> d.apps,
   versions |-> Restrict(d.version, {a \in App : d.entries[a] > 0}),
   digests |-> d.digests, bricks |-> d.bricks]

(* An entry is appended for an app the catalog has none for, be it only a  *)
(* digest.                                                                 *)
seedChartVersions(d, c) ==
  [d EXCEPT !.entries =
     [a \in App |->
        IF a \in c.apps \ (DOMAIN c.versions \cup DOMAIN c.digests)
        THEN @[a] + 1 ELSE @[a]]]

(* The digests on disk are kept, for the apps the catalog has a version    *)
(* of; the file is left alone when there is none.                          *)
seedChartDigests(d, c) ==
  IF c.versions = Empty THEN d
  ELSE [d EXCEPT !.digests =
          [a \in DOMAIN c.versions |->
             IF a \in DOMAIN @ THEN @[a] ELSE NoDigest]]

infra(d) == [d EXCEPT !.bricks = @ \cup {"infra"}, !.dirs = @ \cup {"infra"}]

genAppBricks(d, apps) == [d EXCEPT !.bricks = @ \cup apps]

(* An app whose source directory is gone has no chart to render.           *)
Renderable(d, apps) == apps \subseteq d.apps

MutgenApp(d, c, apps) ==
  [d EXCEPT !.dirs = @ \cup apps,
            !.renders = [a \in DOMAIN @ \cup apps |->
                           IF a \notin apps THEN @[a]
                           ELSE IF a \in DOMAIN c.versions
                           THEN c.versions[a] ELSE NoDigest]]

genApp(d, c, apps) ==
  [d EXCEPT !.dirs = @ \cup apps,
            !.renders = [a \in DOMAIN @ \cup apps |->
                           IF a \notin apps THEN @[a]
                           ELSE IF a \in DOMAIN c.versions
                           THEN c.versions[a] ELSE 0]]

dispatchworker(d, c) == [d EXCEPT !.dispatch = @ \cup (c.bricks \cap d.dirs)]

(* git add -A, then the files git lists: the shards are listed too.        *)
Listing(d) == [dirs |-> d.dirs, renders |-> DOMAIN d.renders,
               dispatch |-> d.dispatch, shards |-> DOMAIN shards]

speclattice(d) == [d EXCEPT !.listing = Listing(d)]

(* The contents the files of the tree have now; of the shards only the     *)
(* names, or the lattice would hold its own digests.                       *)
enrichTree(d, t) ==
  [files |-> [apps |-> d.apps, note |-> d.note, entries |-> d.entries,
              version |-> d.version, digests |-> d.digests,
              bricks |-> d.bricks, listing |-> d.listing, log |-> d.log,
              shards |-> t.shards],
   dirs |-> [b \in t.dirs |->
               [dispatch |-> b \in t.dispatch,
                render |-> IF b \in t.renders \cap DOMAIN d.renders
                           THEN d.renders[b] ELSE NoDigest,
                synced |-> b \in d.synced]]]

buildLattice(d, c, t) == [catalog |-> c, tree |-> enrichTree(d, t)]

(* bazel builds what is on disk.                                           *)
Built(d, c) == DOMAIN c.versions \subseteq DOMAIN d.renders

syncFiles(d, c) == [d EXCEPT !.synced = @ \cup (c.apps \cap DOMAIN d.renders)]

genChartDigests(d, c) ==
  [d EXCEPT !.digests = [a \in DOMAIN c.versions |-> d.renders[a]]]

(* gen-files.txt: the lines the generators logged.  dispatchworker logs    *)
(* only what it wrote.                                                     *)
trackingFiles(d, lines) == [d EXCEPT !.log = lines]

----------------------------------------------------------------------------
(* A pass                                                                  *)

MutAdvances(old, new) == TRUE

(* WriteIfChanged, and the mtime of a file it does write.                  *)
Advances(old, new) == old # new

Write(d) == disk' = d /\ changed' = (changed \/ Advances(disk, d))

(* The process ends, and its context with it.                              *)
Return(r) ==
  /\ result' = r /\ pc' = "idle"
  /\ catalog' = NoCatalog /\ overlay' = {} /\ tree' = NoTree
  /\ genLines' = NoLines
  /\ gens' = {} /\ iter' = 0 /\ snapshot' = FALSE /\ changed' = FALSE
  /\ UNCHANGED <<mode, maxIters>>

(* NewGenContext.  The limit is read once.                                 *)
Start(m) ==
  /\ pc = "idle"
  /\ mode' = m /\ iter' = 1 /\ pc' = "snapshot"
  /\ catalog' = Load(disk) /\ overlay' = disk.apps
  /\ result' = "none" /\ edited' = FALSE
  /\ UNCHANGED <<latticeVars, disk, tree, genLines, maxIters, gens, snapshot,
                 changed, edits, kills>>

Snapshot ==
  /\ pc = "snapshot"
  /\ snapshot' \in IF GitFails THEN BOOLEAN ELSE {TRUE}
  /\ changed' = FALSE
  /\ pc' = "versions"
  /\ UNCHANGED <<latticeVars, disk, ctxVars, mode, maxIters, iter, gens,
                 result, userVars>>

Seed ==
  /\ \/ /\ pc = "versions" /\ pc' = "digests"
        /\ Write(seedChartVersions(disk, catalog))
        /\ gens' = gens
     \/ /\ pc = "digests" /\ pc' = "phaseA"
        /\ Write(seedChartDigests(disk, catalog))
        /\ gens' = Step
  /\ UNCHANGED <<latticeVars, ctxVars, loopVars, result, userVars>>

(* The generators of Phase A run in parallel; the pass waits for all.      *)
PhaseA(g) ==
  /\ pc = "phaseA" /\ g \in gens
  /\ g = "render" => "bricks" \notin gens /\ Renderable(disk, overlay)
  /\ Write(CASE g = "infra"  -> infra(disk)
             [] g = "bricks" -> genAppBricks(disk, overlay)
             [] g = "render" -> genApp(disk, catalog, overlay))
  /\ gens' = gens \ {g}
  /\ pc' = IF gens' = {} THEN "reload" ELSE "phaseA"
  /\ genLines' = [genLines EXCEPT !.outputs = overlay]
  /\ UNCHANGED <<latticeVars, catalog, overlay, tree, loopVars, result,
                 userVars>>

(* The error of one generator is returned when all have finished.          *)
RenderFails ==
  /\ pc = "phaseA" /\ gens = {"render"} /\ ~Renderable(disk, overlay)
  /\ Return("error")
  /\ UNCHANGED <<latticeVars, disk, userVars>>

MutReloadCatalog ==
  /\ pc = "reload" /\ pc' = "dispatch"
  /\ UNCHANGED <<latticeVars, disk, ctxVars, loopVars, gens, changed, result,
                 userVars>>

ReloadCatalog ==
  /\ pc = "reload" /\ pc' = "dispatch"
  /\ catalog' = Load(disk) /\ overlay' = disk.apps
  /\ UNCHANGED <<latticeVars, disk, tree, genLines, loopVars, gens, changed,
                 result, userVars>>

DispatchWorker ==
  /\ pc = "dispatch" /\ pc' = "tree"
  /\ Write(dispatchworker(disk, catalog))
  /\ genLines' = [genLines EXCEPT !.stamped = disk'.dispatch \ disk.dispatch]
  /\ UNCHANGED <<latticeVars, catalog, overlay, tree, loopVars, gens, result,
                 userVars>>

SpecLattice ==
  /\ pc = "tree" /\ pc' = "lattice"
  /\ Write(speclattice(disk))
  /\ tree' = Listing(disk) /\ overlay' = disk.apps
  /\ UNCHANGED <<latticeVars, catalog, genLines, loopVars, gens, result,
                 userVars>>

LatticeBegin ==
  /\ pc = "lattice"
  /\ Begin(buildLattice(disk, catalog, tree))
  /\ pc' = IF run'.step = "off" THEN "buildsync" ELSE "writing"
  /\ UNCHANGED <<disk, ctxVars, loopVars, gens, changed, result, userVars>>

(* A file that was removed has no mtime to compare.                        *)
LatticeWrite ==
  /\ pc = "writing"
  /\ LatticeStep
  /\ changed' =
       \/ changed \/ Advances(index, index') \/ Advances(sha, sha')
       \/ \E f \in DOMAIN shards' :
            Advances(IF f \in DOMAIN shards THEN shards[f] ELSE None,
                     shards'[f])
  /\ pc' = IF run'.step = "off" THEN "buildsync" ELSE "writing"
  /\ UNCHANGED <<disk, ctxVars, loopVars, gens, result, userVars>>

(* With tests, a test merges the shards.                                   *)
BuildPasses ==
  Built(disk, catalog) /\ (mode = "validate" => MergeShards # Corrupt)

BuildSync ==
  /\ pc = "buildsync" /\ BuildPasses
  /\ pc' = "finish"
  /\ Write(genChartDigests(syncFiles(disk, catalog), catalog))
  /\ UNCHANGED <<latticeVars, ctxVars, loopVars, gens, result, userVars>>

BuildFails ==
  /\ pc = "buildsync" /\ ~BuildPasses
  /\ Return("error") /\ run' = Idle
  /\ UNCHANGED <<shards, index, sha, disk, userVars>>

(* mtimeChanges: without the snapshot there is nothing to compare with.    *)
MutChanges == snapshot /\ changed

Changes ==
  snapshot /\ (changed \/ Advances(disk, trackingFiles(disk, genLines)))

LastPass == iter >= maxIters

Finish ==
  /\ pc = "finish"
  /\ disk' = trackingFiles(disk, genLines)
  /\ run' = Idle
  /\ \/ mode = "validate" /\ Return("validated")
     \/ mode = "cycle" /\ ~Changes /\ Return("idempotent")
     \/ mode = "cycle" /\ Changes /\ LastPass /\ Return("limit")
     \/ /\ mode = "cycle" /\ Changes /\ ~LastPass
        /\ pc' = "snapshot" /\ iter' = iter + 1
        /\ snapshot' = FALSE /\ changed' = FALSE /\ genLines' = NoLines
        /\ tree' = NoTree
        /\ UNCHANGED <<catalog, overlay, mode, maxIters, gens, result>>
  /\ UNCHANGED <<shards, index, sha, userVars>>

----------------------------------------------------------------------------
(* Around it                                                               *)

(* Hatch is killed, or a step of it returns an error: a file cannot be     *)
(* written, the catalog does not load, git or bazel fails.                 *)
Killed ==
  /\ pc # "idle" /\ kills < MaxKills
  /\ LatticeKilled
  /\ Return("error")
  /\ kills' = kills + 1
  /\ UNCHANGED <<disk, edited, edits>>

(* The user changes the declared apps, with the files of the ones removed, *)
(* or moves the chart of an app to a new version, and edits another file.  *)
Edit(d) ==
  /\ edits < MaxEdits
  /\ edits' = edits + 1
  /\ disk' = [d EXCEPT !.note = IF Undo THEN 1 - @ ELSE edits + 1]
  /\ changed' = (pc # "idle")
  /\ edited' = (pc # "idle")
  /\ result' = IF pc = "idle" THEN "none" ELSE result
  /\ UNCHANGED <<latticeVars, ctxVars, loopVars, pc, gens, kills>>

Declare(S) ==
  LET gone == disk.apps \ S IN
  Edit([disk EXCEPT
          !.apps = S, !.dirs = (@ \ gone) \cup S, !.bricks = @ \ gone,
          !.entries = [a \in App |-> IF a \in gone THEN 0 ELSE @[a]],
          !.version = [a \in App |-> IF a \in gone THEN 0 ELSE @[a]],
          !.renders = Restrict(@, DOMAIN @ \ gone),
          !.dispatch = @ \ gone, !.synced = @ \ gone])

Bump(a) ==
  /\ disk.entries[a] > 0
  /\ Edit([disk EXCEPT !.version[a] = edits + 1])

Hatch ==
  \/ \E m \in {"cycle", "validate"} : Start(m)
  \/ Snapshot \/ Seed \/ ReloadCatalog \/ DispatchWorker \/ SpecLattice
  \/ \E g \in Step : PhaseA(g)
  \/ RenderFails
  \/ LatticeBegin \/ LatticeWrite \/ BuildSync \/ BuildFails \/ Finish

User == (\E S \in SUBSET App : Declare(S)) \/ (\E a \in App : Bump(a))

Next == Hatch \/ Killed \/ User

Spec == Init /\ [][Next]_vars

----------------------------------------------------------------------------
(* Properties                                                              *)

(* When Cycle reports an idempotent workspace, a new hatch would change    *)
(* nothing: no step of a pass with the catalog as it is now writes a file, *)
(* whatever was edited while it ran (hatch.go, "the convergence guarantee  *)
(* is the contract").                                                      *)
FixpointOnSuccess ==
  result = "idempotent" =>
    LET c == Load(disk) IN
      /\ seedChartVersions(disk, c) = disk
      /\ seedChartDigests(disk, c) = disk
      /\ infra(disk) = disk
      /\ genAppBricks(disk, disk.apps) = disk
      /\ genApp(disk, c, disk.apps) = disk
      /\ dispatchworker(disk, c) = disk
      /\ speclattice(disk) = disk
      /\ Unchanged(buildLattice(disk, c, Listing(disk)))
      /\ syncFiles(disk, c) = disk /\ genChartDigests(disk, c) = disk
      /\ trackingFiles(disk, [outputs |-> disk.apps, stamped |-> {}]) = disk

(* Then, too, every app that is declared has an entry in                   *)
(* chart_versions.cue, was rendered for the version in it, has the digest  *)
(* of that build, its brick, and a dispatch.cue in its directory.          *)
CompleteOnSuccess ==
  result = "idempotent" =>
    \A a \in disk.apps :
      /\ disk.entries[a] > 0
      /\ disk.renders[a] = disk.version[a]
      /\ disk.digests[a] = disk.version[a]
      /\ a \in disk.bricks /\ a \in disk.dispatch

(* An app never has two entries in chart_versions.cue: seedChartVersions   *)
(* appends without looking at the file, and relies on the catalog having   *)
(* been loaded after the last pass, or the last hatch, appended.           *)
SeedOnce == \A a \in App : disk.entries[a] <= 1

(* Between lattice.Run and the end of the pass the shards can be merged,   *)
(* and give the lattice of the pass, whatever was killed before it: what   *)
(* the tests that buildsync runs rely on (hatch.go, "Order: lattice BEFORE *)
(* buildsync").                                                            *)
MergeGivesLattice ==
  pc \in {"buildsync", "finish"} => MergeShards = run.lattice

(* The passes MaxCycleIterations allows are enough: Cycle gives up only    *)
(* when somebody edited the workspace while it ran, or a smaller limit was *)
(* set; also when the hatch before it was killed.                          *)
BoundSuffices ==
  result = "limit" => edited \/ maxIters < MaxCycleIterations

(* lattice.go: "if the prior _index.sha256 matches, no shard's content     *)
(* changed, so neither did the manifest".                                  *)
ShortCircuitIsSound ==
  pc = "lattice" /\ Unchanged(buildLattice(disk, catalog, tree))
    => MergeShards = sha
============================================================================
