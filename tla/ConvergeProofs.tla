--------------------------- MODULE ConvergeProofs ---------------------------
(***************************************************************************)
(* Proof that when Cycle reports an idempotent workspace, a new hatch      *)
(* would change nothing and the files are complete, for any set of apps,   *)
(* limit, number of edits and of kills, when no edit brings an earlier     *)
(* workspace back and git does not fail.                                   *)
(*                                                                         *)
(* A pass that changes no file ran its generators with the catalog and the *)
(* overlay the pass before it read, so that it wrote nothing is not enough:*)
(* the catalog it reloads in the middle must be the one it started with.   *)
(* The lattice is what tells: it holds the catalog of the pass that wrote  *)
(* it and the note of the user's last edit, and a pass whose lattice       *)
(* differs from the one on disk writes a file.  In the first pass of a     *)
(* hatch the note shows an edit made since the catalog was read; in the    *)
(* later ones the lattice on disk holds the catalog of the pass before.    *)
(*                                                                         *)
(* The second half proves that five passes are enough for a hatch nobody   *)
(* disturbs, whatever an earlier hatch or a kill left behind.              *)
(***************************************************************************)
EXTENDS HatchProofs

\* The leaves are for Zenon, but for those that name another prover.
USE Zenon

----------------------------------------------------------------------------
(* The invariants                                                          *)

(* No lattice is newer than the last edit.                                 *)
NoteInv ==
  /\ disk.note = edits
  /\ sha # None => Note(sha) \in 0..edits
  /\ pc = "writing" => Note(run.lattice) \in 0..edits

(* From lattice.Run to the reload of the next pass, _index.sha256 has the  *)
(* catalog that is in use; while the shards are written it is to change.   *)
ShaInv ==
  /\ pc \in {"buildsync", "finish"} \/ (pc \in Pre /\ iter > 1)
       => sha # None /\ sha.catalog = catalog
  /\ pc = "writing" /\ run.step = "prune" => changed
  /\ pc = "writing" /\ run.step # "prune" => sha # run.lattice
  /\ pc = "writing" =>
       /\ run.lattice # None /\ run.lattice.catalog = catalog
       /\ run.step = "prune" => sha = run.lattice

(* The lines logged, the generators of Phase A, and the loop.              *)
Lines(l) == l = [outputs |-> l.outputs, stamped |-> l.stamped]

LinesInv ==
  /\ Lines(genLines)
  /\ pc \in Pre \cup {"idle"} => genLines.stamped = {}
  /\ pc \in {"phaseA", "reload"} => gens = Step \/ genLines.outputs = overlay
  /\ pc = "reload" => gens = {}
PlaceInv == pc # "idle" => iter >= 1 /\ result = "none"
SnapInv == ~GitFails /\ pc \notin {"idle", "snapshot"} => snapshot

(* A pass writes none of the user's files.                                 *)
LEMMA PassNote ==
  ASSUME HatchTypes, Before \/ After \/ Finish
  PROVE  disk'.note = disk.note
<1>1. Record(disk)
  BY ContextTyped
<1>2. \/ disk' = disk \/ disk' = seedChartVersions(disk, catalog)
      \/ disk' = seedChartDigests(disk, catalog) \/ disk' = infra(disk)
      \/ disk' = genAppBricks(disk, overlay) \/ disk' = genApp(disk, catalog, overlay)
      \/ disk' = dispatchworker(disk, catalog) \/ disk' = speclattice(disk)
      \/ disk' = genChartDigests(syncFiles(disk, catalog), catalog)
      \/ disk' = trackingFiles(disk, genLines)
  <2>1. CASE Before
    <3>1. CASE Snapshot \/ Seed
      BY <3>1 DEF Snapshot, Seed, Write
    <3>2. CASE \E g \in Step : PhaseA(g)
      BY <3>2 DEF PhaseA, Step, Write
    <3> QED BY <2>1, <3>1, <3>2 DEF Before
  <2>2. CASE After
    BY <2>2 DEF After, DispatchWorker, SpecLattice, BuildSync, Write
  <2>3. CASE Finish
    BY <2>3 DEF Finish
  <2> QED BY <2>1, <2>2, <2>3
<1> QED BY <1>1, <1>2, PartsNote, SMT

----------------------------------------------------------------------------
(* The lattices                                                            *)

(* lattice.Run keeps its record.                                           *)
LEMMA RunStep ==
  RunInv /\ [Next]_vars => RunInv'
<1> SUFFICES ASSUME RunInv, [Next]_vars PROVE RunInv'
  OBVIOUS
<1>1. CASE run' = run
  BY <1>1 DEF RunInv
<1>2. CASE run' = Idle
  BY <1>2 DEF RunInv, Idle
<1>3. CASE UNCHANGED vars
  BY <1>1, <1>3 DEF vars, latticeVars
<1> QED BY <1>1, <1>2, <1>3, Steps, StartMoves, BeforeMoves, ReloadMoves, AfterMoves,
         BeginMoves, WriteMoves, FinishMoves, EndedMoves, UserMoves

(* An edit is newer than every lattice, and stays so.                      *)
LEMMA NoteStep ==
  ASSUME ~Undo, HatchTypes, RunInv, NoteInv, [Next]_vars
  PROVE  NoteInv'
<1>0. edits \in Nat /\ disk.note = edits
  BY BoundsNatural, SMT DEF HatchTypes, UserTypes, NoteInv
<1>1. ASSUME disk'.note = disk.note, UNCHANGED <<sha, edits>>,
             pc' = "writing" => pc = "writing" /\ run' = run
      PROVE  NoteInv'
  BY <1>1 DEF NoteInv
<1>2. CASE \E m \in {"cycle", "validate"} : Start(m)
  BY <1>1, <1>2, StartMoves
<1>3. CASE Before
  BY <1>1, <1>3, BeforeMoves, PassNote DEF Pre
<1>4. CASE ReloadCatalog
  BY <1>1, <1>4, ReloadMoves
<1>5. CASE After
  BY <1>1, <1>5, AfterMoves, PassNote
<1>6. CASE Finish
  BY <1>1, <1>6, FinishMoves, PassNote
<1>7. CASE Ended
  BY <1>1, <1>7, EndedMoves
<1>8. CASE UNCHANGED vars
  BY <1>1, <1>8 DEF vars, latticeVars, userVars
<1>9. CASE LatticeBegin
  <2>1. UNCHANGED <<disk, sha, edits>> /\ run'.lattice = buildLattice(disk, catalog, tree)
    BY <1>9, BeginMoves DEF userVars
  <2>2. Note(run'.lattice) = edits
    BY <1>0, <2>1, NoteOf, SMT
  <2> QED BY <1>0, <2>1, <2>2, SMT DEF NoteInv
<1>10. CASE LatticeWrite
  <2>1. UNCHANGED <<disk, edits>> /\ pc = "writing" /\ run'.lattice = run.lattice
        /\ (sha' = sha \/ sha' = run.lattice)
    BY <1>10, WriteMoves DEF userVars
  <2>2. Note(run.lattice) \in 0..edits
    BY <2>1 DEF NoteInv
  <2> QED BY <1>0, <2>1, <2>2 DEF NoteInv
<1>11. CASE User
  <2>1. UNCHANGED <<sha, run, pc>> /\ edits' = edits + 1 /\ disk'.note = edits + 1
    BY <1>11, UserMoves, UserNote, ContextTyped
  <2>2. \A n \in 0..edits : n \in 0..edits'
    BY <1>0, <2>1, SMT
  <2> QED BY <2>1, <2>2 DEF NoteInv
<1> QED BY <1>2, <1>3, <1>4, <1>5, <1>6, <1>7, <1>8, <1>9, <1>10, <1>11, Steps

(* _index.sha256 has the catalog of the last lattice.Run.                  *)
LEMMA ShaStep ==
  ASSUME RunInv, ShaInv, [Next]_vars
  PROVE  ShaInv'
<1>1. ASSUME pc' \notin {"buildsync", "finish", "writing"} \cup Pre PROVE ShaInv'
  BY <1>1 DEF ShaInv
<1>2. CASE \E m \in {"cycle", "validate"} : Start(m)
  <2>1. pc' = "snapshot" /\ iter' = 1
    BY <1>2, StartMoves
  <2> QED BY <2>1, SMT DEF ShaInv
<1>3. CASE Before
  <2>1. pc \in Pre /\ pc' \in Pre /\ UNCHANGED <<sha, iter, catalog>>
    BY <1>3, BeforeMoves
  <2> QED BY <2>1 DEF ShaInv, Pre
<1>4. CASE ReloadCatalog
  BY <1>1, <1>4, ReloadMoves DEF Pre
<1>5. CASE After
  <2>1. CASE pc' = "finish"
    <3>1. pc = "buildsync" /\ UNCHANGED <<sha, iter, catalog>>
      BY <1>5, <2>1, AfterMoves
    <3> QED BY <2>1, <3>1 DEF ShaInv
  <2>2. CASE pc' # "finish"
    BY <1>1, <1>5, <2>2, AfterMoves DEF Pre
  <2> QED BY <2>1, <2>2
<1>6. CASE LatticeBegin
  <2> DEFINE lat == buildLattice(disk, catalog, tree)
  <2>1. /\ run'.lattice = lat /\ run'.step # "prune" /\ UNCHANGED <<sha, catalog>>
        /\ \/ sha = lat /\ pc' = "buildsync"
           \/ sha # lat /\ pc' = "writing"
    BY <1>6, BeginMoves DEF ctxVars
  <2>2. lat # None /\ lat.catalog = catalog
    BY NoteOf, SMT
  <2> HIDE DEF lat
  <2> QED BY <2>1, <2>2 DEF ShaInv, Pre
<1>7. CASE LatticeWrite
  <2>1. /\ run'.lattice = run.lattice /\ pc = "writing" /\ catalog' = catalog
        /\ \/ /\ run.step # "prune" /\ run'.step # "prune" /\ pc' = "writing"
              /\ sha' = sha
           \/ /\ run.step # "prune" /\ run'.step = "prune" /\ pc' = "writing"
              /\ sha' = run.lattice
           \/ run.step = "prune" /\ pc' = "buildsync" /\ sha' = sha
        /\ changed \/ sha' # sha => changed'
    BY <1>7, WriteMoves DEF ctxVars
  <2> QED BY <2>1 DEF ShaInv, Pre
<1>8. CASE Finish
  <2>1. CASE pc' = "idle"
    BY <1>1, <2>1 DEF Pre
  <2>2. CASE pc' = "snapshot" /\ UNCHANGED catalog
    <3>1. pc = "finish" /\ sha' = sha
      BY <1>8, FinishMoves
    <3> QED BY <2>2, <3>1 DEF ShaInv
  <2> QED BY <1>8, <2>1, <2>2, FinishMoves
<1>9. CASE Ended
  BY <1>1, <1>9, EndedMoves DEF Pre
<1>10. CASE User
  <2>1. UNCHANGED <<sha, run, pc, iter, catalog>> /\ (pc # "idle" => changed')
    BY <1>10, UserMoves
  <2> QED BY <2>1 DEF ShaInv
<1>11. CASE UNCHANGED vars
  <2>1. UNCHANGED <<sha, run, pc, iter, catalog, changed>>
    BY <1>11 DEF vars, latticeVars, loopVars, ctxVars
  <2> QED BY <2>1 DEF ShaInv
<1> QED BY <1>2, <1>3, <1>4, <1>5, <1>6, <1>7, <1>8, <1>9, <1>10, <1>11, Steps

----------------------------------------------------------------------------
(* The lines logged, and the loop                                          *)

(* The lines logged are those of the generators that have run.             *)
LEMMA LinesStep ==
  ASSUME LinesInv, [Next]_vars
  PROVE  LinesInv'
<1>0. Lines(NoLines) /\ NoLines.stamped = {}
  BY DEF NoLines, Lines
<1>1. ASSUME genLines' = NoLines, pc' \in {"idle", "snapshot"} PROVE LinesInv'
  BY <1>0, <1>1 DEF LinesInv
<1>2. ASSUME genLines' = genLines, pc' \in Pre => pc \in Pre \cup {"idle"},
             pc' \notin {"idle", "phaseA", "reload"}
      PROVE  LinesInv'
  BY <1>2 DEF LinesInv
<1>3. CASE \E m \in {"cycle", "validate"} : Start(m)
  BY <1>2, <1>3, StartMoves
<1>4. CASE Snapshot
  BY <1>2, <1>4 DEF Snapshot, ctxVars, Pre
<1>5. CASE Seed
  <2>1. CASE pc = "versions" /\ pc' = "digests"
    BY <1>2, <1>5, <2>1 DEF Seed, ctxVars, Pre
  <2>2. CASE pc = "digests" /\ pc' = "phaseA" /\ gens' = Step
    BY <1>5, <2>2 DEF Seed, ctxVars, LinesInv, Pre
  <2> QED BY <1>5, <2>1, <2>2 DEF Seed
<1>6. ASSUME NEW g \in Step, PhaseA(g) PROVE LinesInv'
  <2>1. /\ pc = "phaseA" /\ pc' = (IF gens' = {} THEN "reload" ELSE "phaseA")
        /\ genLines' = [genLines EXCEPT !.outputs = overlay] /\ overlay' = overlay
    BY <1>6 DEF PhaseA
  <2>2. Lines(genLines) /\ genLines.stamped = {}
    BY <2>1 DEF LinesInv, Pre
  <2>3. /\ Lines(genLines') /\ genLines'.outputs = overlay
        /\ genLines'.stamped = {}
    BY <2>1, <2>2 DEF Lines
  <2> QED BY <2>1, <2>3 DEF LinesInv
<1>7. CASE ReloadCatalog
  BY <1>2, <1>7, ReloadMoves DEF Pre
<1>8. CASE DispatchWorker
  <2>1. /\ pc' = "tree"
        /\ genLines' = [genLines EXCEPT !.stamped = disk'.dispatch \ disk.dispatch]
    BY <1>8 DEF DispatchWorker
  <2>2. Lines(genLines')
    BY <2>1 DEF LinesInv, Lines
  <2> QED BY <2>1, <2>2 DEF LinesInv, Pre
<1>9. CASE SpecLattice
  BY <1>2, <1>9 DEF SpecLattice, Pre
<1>10. CASE BuildSync
  BY <1>2, <1>10 DEF BuildSync, ctxVars, Pre
<1>11. CASE LatticeBegin
  BY <1>2, <1>11, BeginMoves DEF ctxVars, Pre
<1>12. CASE LatticeWrite
  <2>1. genLines' = genLines /\ pc' \in {"writing", "buildsync"}
    BY <1>12 DEF LatticeWrite, ctxVars
  <2> QED BY <1>2, <2>1 DEF Pre
<1>13. CASE Finish
  BY <1>1, <1>13, FinishMoves
<1>14. CASE Ended
  BY <1>1, <1>14, EndedMoves
<1>15. CASE User \/ UNCHANGED vars
  <2>1. UNCHANGED <<genLines, pc, gens, overlay>>
    BY <1>15, UserMoves DEF vars, ctxVars
  <2> QED BY <2>1 DEF LinesInv
<1> QED BY <1>3, <1>4, <1>5, <1>6, <1>7, <1>8, <1>9, <1>10, <1>11, <1>12, <1>13,
         <1>14, <1>15, Steps DEF Before, After

(* A hatch in progress has no result yet.                                  *)
LEMMA PlaceStep ==
  ASSUME HatchTypes, RunInv, PlaceInv, [Next]_vars
  PROVE  PlaceInv'
<1>0. iter \in Int
  BY LimitsPositive, SMT DEF HatchTypes, LoopTypes
<1>1. ASSUME UNCHANGED <<iter, result>>, pc # "idle" PROVE PlaceInv'
  BY <1>1 DEF PlaceInv
<1>2. ASSUME pc' = "idle" PROVE PlaceInv'
  BY <1>2 DEF PlaceInv
<1>3. CASE \E m \in {"cycle", "validate"} : Start(m)
  BY <1>3, StartMoves, SMT DEF PlaceInv
<1>4. CASE Finish
  <2>1. CASE pc' = "snapshot" /\ iter' = iter + 1 /\ UNCHANGED result
    <3>1. pc = "finish"
      BY <1>4, FinishMoves
    <3> QED BY <1>0, <2>1, <3>1, SMT DEF PlaceInv
  <2> QED BY <1>2, <1>4, <2>1, FinishMoves
<1>5. CASE Before
  BY <1>1, <1>5, BeforeMoves DEF Pre
<1>6. CASE LatticeBegin \/ LatticeWrite
  BY <1>1, <1>6, BeginMoves, WriteMoves DEF loopVars
<1>7. CASE User
  <2>1. pc' = pc /\ iter' = iter /\ (pc # "idle" => result' = result)
    BY <1>7, UserMoves
  <2> QED BY <2>1 DEF PlaceInv
<1>8. CASE UNCHANGED vars
  BY <1>8 DEF vars, loopVars, PlaceInv
<1> QED BY <1>1, <1>2, <1>3, <1>4, <1>5, <1>6, <1>7, <1>8, Steps, ReloadMoves, AfterMoves,
         EndedMoves

(* When git does not fail the mtimes were taken.                           *)
LEMMA SnapStep ==
  ASSUME HatchTypes, RunInv, SnapInv, [Next]_vars
  PROVE  SnapInv'
<1>1. ASSUME snapshot' = snapshot, pc \notin {"idle", "snapshot"} PROVE SnapInv'
  BY <1>1 DEF SnapInv
<1>2. ASSUME pc' \in {"idle", "snapshot"} PROVE SnapInv'
  BY <1>2 DEF SnapInv
<1>3. CASE Snapshot
  <2>1. ~GitFails => snapshot' = TRUE
    BY <1>3 DEF Snapshot
  <2> QED BY <2>1 DEF SnapInv
<1>4. CASE Seed \/ \E g \in Step : PhaseA(g)
  BY <1>1, <1>4 DEF Seed, PhaseA, loopVars
<1>5. CASE LatticeBegin \/ LatticeWrite
  BY <1>1, <1>5, BeginMoves, WriteMoves DEF loopVars
<1>6. CASE User \/ UNCHANGED vars
  <2>1. snapshot' = snapshot /\ pc' = pc
    BY <1>6, UserMoves DEF vars, loopVars
  <2> QED BY <2>1 DEF SnapInv
<1> QED BY <1>1, <1>2, <1>3, <1>4, <1>5, <1>6, Steps, StartMoves, ReloadMoves, AfterMoves,
         FinishMoves, EndedMoves DEF Before

----------------------------------------------------------------------------
(* The first pass of a hatch, and the apps the overlay shows               *)

(* The first pass has the catalog as it is now, unless the workspace was   *)
(* edited, and then no lattice on disk has the note of that edit.          *)
FirstInv ==
  pc \in Pre /\ iter = 1 =>
    /\ edited => sha = None \/ Note(sha) # disk.note
    /\ ~edited /\ (pc = "snapshot" \/ ~changed) =>
         catalog = Load(disk) /\ overlay = disk.apps

(* The first pass keeps the relation of the catalog to the note.           *)
LEMMA FirstStep ==
  ASSUME ~Undo, HatchTypes, RunInv, PlaceInv, NoteInv, FirstInv, [Next]_vars
  PROVE  FirstInv'
<1>1. ASSUME pc' \notin Pre PROVE FirstInv'
  BY <1>1 DEF FirstInv
<1>2. CASE \E m \in {"cycle", "validate"} : Start(m)
  <2>1. catalog' = Load(disk') /\ overlay' = disk'.apps /\ ~edited'
    BY <1>2, StartMoves
  <2> QED BY <2>1 DEF FirstInv
<1>3. CASE Before
  <2>1. /\ pc \in Pre /\ pc' \in Pre /\ pc' # "snapshot" /\ disk'.note = disk.note
        /\ UNCHANGED <<sha, iter, catalog, overlay, edited>>
    BY <1>3, BeforeMoves, PassNote
  <2>2. ASSUME ~changed' PROVE disk' = disk /\ (pc = "snapshot" \/ ~changed)
    <3>1. CASE Snapshot
      BY <3>1 DEF Snapshot
    <3>2. CASE Seed
      BY <2>2, <3>2, QuietWrite DEF Seed
    <3>3. CASE \E g \in Step : PhaseA(g)
      BY <2>2, <3>3, QuietWrite DEF PhaseA
    <3> QED BY <1>3, <3>1, <3>2, <3>3 DEF Before
  <2> QED BY <2>1, <2>2 DEF FirstInv
<1>4. CASE Finish
  <2>1. CASE pc' = "snapshot" /\ iter' = iter + 1
    <3>1. iter \in Int /\ iter >= 1
      BY <1>4, FinishMoves, LimitsPositive, SMT DEF HatchTypes, LoopTypes, PlaceInv
    <3>2. iter' # 1
      BY <2>1, <3>1, SMT
    <3> QED BY <3>2 DEF FirstInv
  <2> QED BY <1>1, <1>4, <2>1, FinishMoves DEF Pre
<1>5. CASE User
  <2>1. UNCHANGED <<sha, pc, iter>> /\ (pc # "idle" => edited') /\ disk'.note = edits + 1
    BY <1>5, UserMoves, UserNote, ContextTyped
  <2>2. edits \in Nat
    BY BoundsNatural, SMT DEF HatchTypes, UserTypes
  <2>3. sha # None => Note(sha) # disk'.note
    BY <2>1, <2>2, SMT DEF NoteInv
  <2> QED BY <2>1, <2>3 DEF FirstInv, Pre
<1>6. CASE UNCHANGED vars
  BY <1>6 DEF vars, latticeVars, ctxVars, loopVars, userVars, FirstInv
<1>7. CASE LatticeBegin \/ LatticeWrite
  BY <1>1, <1>7, BeginMoves, WriteMoves DEF Pre
<1> QED BY <1>1, <1>2, <1>3, <1>4, <1>5, <1>6, <1>7, Steps, ReloadMoves, AfterMoves,
         EndedMoves DEF Pre

(* An app of the catalog that the overlay does not show was removed since: *)
(* it has no entry.                                                        *)
Late(c, d, apps) == \A a \in c.apps \ apps : d.entries[a] = 0

LateInv ==
  /\ pc \in {"snapshot", "versions", "lattice", "writing", "buildsync", "finish"} =>
       Late(catalog, disk, overlay)
  /\ pc \in {"digests", "phaseA", "reload"} /\ ~changed => Late(catalog, disk, overlay)
  /\ pc \in {"dispatch", "tree"} => Late(catalog, disk, disk.apps)

(* What is written after the reload leaves the entries and the apps.       *)
LEMMA PartsEntries ==
  ASSUME NEW d, NEW c, NEW lines, Record(d)
  PROVE  /\ dispatchworker(d, c).entries = d.entries /\ dispatchworker(d, c).apps = d.apps
         /\ speclattice(d).entries = d.entries /\ speclattice(d).apps = d.apps
         /\ trackingFiles(d, lines).entries = d.entries
         /\ trackingFiles(d, lines).apps = d.apps
         /\ genChartDigests(syncFiles(d, c), c).entries = d.entries
         /\ genChartDigests(syncFiles(d, c), c).apps = d.apps
<1>1. ASSUME NEW e, NEW b, NEW F, "entries" \notin F, "apps" \notin F, Rest(e, b, F)
      PROVE  e.entries = b.entries /\ e.apps = b.apps
  BY <1>1 DEF Rest, DiskFields
<1>2. /\ dispatchworker(d, c).entries = d.entries /\ dispatchworker(d, c).apps = d.apps
      /\ speclattice(d).entries = d.entries /\ speclattice(d).apps = d.apps
      /\ trackingFiles(d, lines).entries = d.entries /\ trackingFiles(d, lines).apps = d.apps
  BY <1>1, OtherFields
<1>3. /\ genChartDigests(syncFiles(d, c), c).entries = d.entries
      /\ genChartDigests(syncFiles(d, c), c).apps = d.apps
  <2>1. Rest(syncFiles(d, c), d, {"synced"})
    BY BuildFields
  <2>2. Rest(genChartDigests(syncFiles(d, c), c), syncFiles(d, c), {"digests"})
    <3>1. Record(syncFiles(d, c))
      BY <2>1 DEF Rest
    <3> QED BY <3>1, BuildFields
  <2> QED BY <1>1, <2>1, <2>2
<1> QED BY <1>2, <1>3

(* A removed app loses its entry.                                          *)
LEMMA UserLate ==
  ASSUME HatchTypes, User, NEW apps, Late(catalog, disk, apps) 
  PROVE  /\ Late(catalog, disk', apps)
         /\ Late(catalog, disk, disk.apps) => Late(catalog, disk', disk'.apps)
<1>0. Record(disk) /\ catalog.apps \subseteq App
  BY ContextTyped DEF CatalogTypes
<1>1. ASSUME NEW S \in SUBSET App, Declare(S)
      PROVE  /\ Late(catalog, disk', apps)
             /\ Late(catalog, disk, disk.apps) => Late(catalog, disk', disk'.apps)
  <2> DEFINE gone == disk.apps \ S
  <2>1. disk'.entries = Without(disk.entries, gone) /\ disk'.apps = S
    BY <1>0, <1>1, DeclareFields
  <2>2. \A a \in App : disk'.entries[a] = IF a \in gone THEN 0 ELSE disk.entries[a]
    BY <2>1 DEF Without
  <2> QED BY <1>0, <2>1, <2>2 DEF Late
<1>2. ASSUME NEW b \in App, Bump(b)
      PROVE  disk'.entries = disk.entries /\ disk'.apps = disk.apps
  <2>1. Rest(disk', disk, {"version", "note"})
    BY <1>0, <1>2, BumpFields
  <2> QED BY <2>1 DEF Rest, DiskFields
<1> QED BY <1>1, <1>2 DEF User, Late

(* Every step keeps the relation of the overlay to the catalog.            *)
LEMMA LateStep ==
  ASSUME HatchTypes, RunInv, LateInv, [Next]_vars
  PROVE  LateInv'
<1>0. Record(disk)
  BY ContextTyped
<1>1. ASSUME pc' = "idle" PROVE LateInv'
  BY <1>1 DEF LateInv
<1>2. CASE \E m \in {"cycle", "validate"} : Start(m)
  <2>1. pc' = "snapshot" /\ catalog' = Load(disk) /\ overlay' = disk.apps
    BY <1>2, StartMoves
  <2> QED BY <2>1 DEF LateInv, Late, Load
<1>3. CASE Before
  <2>1. /\ pc \in Pre \ {"reload"} /\ pc' \in Pre \ {"snapshot"}
        /\ UNCHANGED <<catalog, overlay>>
    BY <1>3, BeforeMoves
  <2>2. CASE Snapshot
    <3>1. pc = "snapshot" /\ pc' = "versions" /\ disk' = disk
      BY <2>2 DEF Snapshot
    <3> QED BY <2>1, <3>1 DEF LateInv
  <2>3. CASE Seed \/ \E g \in Step : PhaseA(g)
    <3>1. pc \in {"versions", "digests", "phaseA"} /\ pc' \in {"digests", "phaseA", "reload"}
      BY <2>3 DEF Seed, PhaseA
    <3>2. ASSUME ~changed' PROVE disk' = disk /\ ~changed
      BY <2>3, <3>2, QuietWrite DEF Seed, PhaseA
    <3> QED BY <2>1, <3>1, <3>2 DEF LateInv
  <2> QED BY <1>3, <2>2, <2>3 DEF Before
<1>4. CASE ReloadCatalog
  <2>1. pc' = "dispatch" /\ catalog' = Load(disk) /\ disk' = disk
    BY <1>4, ReloadMoves
  <2> QED BY <2>1 DEF LateInv, Late, Load
<1>5. CASE DispatchWorker
  <2>1. pc = "dispatch" /\ pc' = "tree" /\ catalog' = catalog /\ disk' = dispatchworker(disk, catalog)
    BY <1>5 DEF DispatchWorker, Write
  <2>2. disk'.entries = disk.entries /\ disk'.apps = disk.apps
    BY <1>0, <2>1, PartsEntries
  <2> QED BY <2>1, <2>2 DEF LateInv, Late
<1>6. CASE SpecLattice
  <2>1. /\ pc = "tree" /\ pc' = "lattice" /\ catalog' = catalog /\ overlay' = disk.apps
        /\ disk' = speclattice(disk)
    BY <1>6 DEF SpecLattice, Write
  <2>2. disk'.entries = disk.entries /\ disk'.apps = disk.apps
    BY <1>0, <2>1, PartsEntries
  <2> QED BY <2>1, <2>2 DEF LateInv, Late
<1>7. CASE BuildSync
  <2>1. /\ pc = "buildsync" /\ pc' = "finish" /\ catalog' = catalog /\ overlay' = overlay
        /\ disk' = genChartDigests(syncFiles(disk, catalog), catalog)
    BY <1>7 DEF BuildSync, Write, ctxVars
  <2>2. disk'.entries = disk.entries
    BY <1>0, <2>1, PartsEntries
  <2> QED BY <2>1, <2>2 DEF LateInv, Late
<1>8. CASE LatticeBegin \/ LatticeWrite
  <2>1. /\ pc \in {"lattice", "writing"} /\ pc' \in {"writing", "buildsync"}
        /\ UNCHANGED <<catalog, overlay, disk>>
    BY <1>8, BeginMoves, WriteMoves DEF ctxVars
  <2> QED BY <2>1 DEF LateInv
<1>9. CASE Finish
  <2>1. CASE pc' = "snapshot" /\ UNCHANGED <<catalog, overlay>>
    <3>1. pc = "finish" /\ disk' = trackingFiles(disk, genLines)
      BY <1>9 DEF Finish
    <3>2. disk'.entries = disk.entries
      BY <1>0, <3>1, PartsEntries
    <3> QED BY <2>1, <3>1, <3>2 DEF LateInv, Late
  <2> QED BY <1>1, <1>9, <2>1, FinishMoves
<1>10. CASE Ended
  BY <1>1, <1>10, EndedMoves
<1>11. CASE User
  <2>1. UNCHANGED <<pc, catalog, overlay>> /\ (pc # "idle" => changed')
    BY <1>11, UserMoves
  <2> QED BY <1>11, <2>1, UserLate DEF LateInv
<1>12. CASE UNCHANGED vars
  <2>1. UNCHANGED <<pc, catalog, overlay, disk, changed>>
    BY <1>12 DEF vars, ctxVars
  <2> QED BY <2>1 DEF LateInv
<1> QED BY <1>2, <1>3, <1>4, <1>5, <1>6, <1>7, <1>8, <1>9, <1>10, <1>11, <1>12, Steps DEF After

----------------------------------------------------------------------------
(* A pass that has changed nothing so far                                  *)

(* The generators of Phase A that have run found their files in place.     *)
Ran(d, c, apps, left) ==
  /\ "infra" \notin left => infra(d) = d
  /\ "bricks" \notin left => genAppBricks(d, apps) = d
  /\ "render" \notin left => Renderable(d, apps) /\ genApp(d, c, apps) = d

WorkInv ==
  /\ pc \in {"digests", "phaseA", "reload"} /\ ~changed =>
       seedChartVersions(disk, catalog) = disk
  /\ pc \in {"phaseA", "reload"} /\ ~changed =>
       seedChartDigests(disk, catalog) = disk /\ Ran(disk, catalog, overlay, gens)

(* Every step keeps what a quiet pass has found out so far.                *)
LEMMA WorkStep ==
  ASSUME RunInv, WorkInv, [Next]_vars
  PROVE  WorkInv'
<1>1. ASSUME pc' \notin {"digests", "phaseA", "reload"} PROVE WorkInv'
  BY <1>1 DEF WorkInv
<1>2. CASE Seed
  <2>1. CASE pc = "versions" /\ pc' = "digests" /\ Write(seedChartVersions(disk, catalog))
    <3>1. catalog' = catalog
      BY <1>2 DEF Seed, ctxVars
    <3>2. ~changed' => seedChartVersions(disk, catalog) = disk /\ disk' = disk
      BY <2>1, QuietWrite
    <3> QED BY <2>1, <3>1, <3>2 DEF WorkInv
  <2>2. CASE /\ pc = "digests" /\ pc' = "phaseA" /\ Write(seedChartDigests(disk, catalog))
             /\ gens' = Step
    <3>1. catalog' = catalog /\ overlay' = overlay
      BY <1>2 DEF Seed, ctxVars
    <3>2. ~changed' => ~changed /\ seedChartDigests(disk, catalog) = disk /\ disk' = disk
      BY <2>2, QuietWrite
    <3>3. Ran(disk', catalog', overlay', gens')
      BY <2>2 DEF Ran, Step
    <3> QED BY <2>2, <3>1, <3>2, <3>3 DEF WorkInv
  <2> QED BY <1>2, <2>1, <2>2 DEF Seed
<1>3. ASSUME NEW g \in Step, PhaseA(g) PROVE WorkInv'
  <2>1. /\ pc = "phaseA" /\ pc' \in {"reload", "phaseA"} /\ UNCHANGED <<catalog, overlay>>
        /\ gens' = gens \ {g} /\ (g = "render" => Renderable(disk, overlay))
    BY <1>3 DEF PhaseA
  <2>2. /\ g = "infra" => Write(infra(disk))
        /\ g = "bricks" => Write(genAppBricks(disk, overlay))
        /\ g = "render" => Write(genApp(disk, catalog, overlay))
        /\ g \in {"infra", "bricks", "render"}
    BY <1>3 DEF PhaseA, Step
  <2>3. ASSUME ~changed'
        PROVE  /\ g = "infra" => infra(disk) = disk
               /\ g = "bricks" => genAppBricks(disk, overlay) = disk
               /\ g = "render" => genApp(disk, catalog, overlay) = disk
    BY <2>2, <2>3, QuietWrite
  <2>4. ASSUME ~changed' PROVE ~changed /\ disk' = disk
    BY <2>2, <2>4, QuietWrite
  <2>5. ASSUME ~changed' PROVE Ran(disk', catalog', overlay', gens')
    BY <2>1, <2>3, <2>4, <2>5 DEF Ran, WorkInv
  <2> QED BY <2>1, <2>4, <2>5 DEF WorkInv
<1>4. CASE User
  <2>1. pc' = pc /\ (pc # "idle" => changed')
    BY <1>4, UserMoves
  <2> QED BY <2>1 DEF WorkInv
<1>5. CASE UNCHANGED vars
  BY <1>5 DEF vars, ctxVars, WorkInv
<1>6. CASE Snapshot
  BY <1>1, <1>6 DEF Snapshot
<1>7. CASE LatticeBegin \/ LatticeWrite
  BY <1>1, <1>7, BeginMoves, WriteMoves
<1> QED BY <1>1, <1>2, <1>3, <1>4, <1>5, <1>6, <1>7, Steps, StartMoves, ReloadMoves, AfterMoves,
         FinishMoves, EndedMoves DEF Before

(* The lattice on disk is of this catalog and of the last edit.            *)
Matches == sha # None /\ Note(sha) = disk.note /\ sha.catalog = catalog

(* The seeds and Phase A would change nothing, for the apps they saw; the  *)
(* other ones have no entry.                                               *)
Seeded(d, c, apps) ==
  /\ seedChartVersions(d, c) = d /\ seedChartDigests(d, c) = d
  /\ Ran(d, c, apps, {})
  /\ \A a \in d.apps \ apps : d.entries[a] = 0

PostInv ==
  /\ pc \in Post /\ ~changed =>
       /\ catalog = Load(disk)
       /\ Matches => Seeded(disk, catalog, genLines.outputs)
  /\ pc \in Post \ {"dispatch"} /\ ~changed =>
       dispatchworker(disk, catalog) = disk /\ genLines.stamped = {}
  /\ pc \in {"lattice", "buildsync", "finish"} /\ ~changed =>
       speclattice(disk) = disk /\ tree = Listing(disk)
  /\ pc \in {"buildsync", "finish"} /\ ~changed => sha = buildLattice(disk, catalog, tree)
  /\ pc = "finish" /\ ~changed =>
       Built(disk, catalog) /\ genChartDigests(syncFiles(disk, catalog), catalog) = disk

(* At the reload: a lattice that matches the catalog read now is the proof *)
(* that the seeds and Phase A went by the same one.                        *)
LEMMA ReloadSeeded ==
  ASSUME HatchTypes, PlaceInv, LinesInv, ShaInv, FirstInv, LateInv, WorkInv,
         pc = "reload", ~changed,
         sha # None, Note(sha) = disk.note, sha.catalog = Load(disk)
  PROVE  Seeded(disk, Load(disk), genLines.outputs)
<1>1. iter \in Int /\ iter >= 1
  BY LimitsPositive, SMT DEF HatchTypes, LoopTypes, PlaceInv
<1>2. catalog = Load(disk)
  <2>1. CASE iter = 1
    BY <2>1 DEF FirstInv, Pre
  <2>2. CASE iter > 1
    BY <2>2 DEF ShaInv, Pre
  <2> QED BY <1>1, <2>1, <2>2, SMT
<1>3. gens = {} /\ genLines.outputs = overlay
  BY DEF LinesInv, Step
<1>4. catalog.apps = disk.apps
  BY <1>2 DEF Load
<1>5. \A a \in disk.apps \ overlay : disk.entries[a] = 0
  BY <1>4 DEF LateInv, Late
<1>6. /\ seedChartVersions(disk, catalog) = disk /\ seedChartDigests(disk, catalog) = disk
      /\ Ran(disk, catalog, overlay, {})
  BY <1>3 DEF WorkInv
<1> QED BY <1>2, <1>3, <1>5, <1>6 DEF Seeded

(* A pass that ends as it began is a pass over files in order.             *)
LEMMA PostStep ==
  ASSUME HatchTypes, RunInv, PlaceInv, LinesInv, ShaInv, FirstInv, LateInv, WorkInv, PostInv,
         [Next]_vars
  PROVE  PostInv'
<1> SUFFICES ASSUME ~changed' PROVE PostInv'
  BY DEF PostInv
<1>1. ASSUME pc' \notin Post PROVE PostInv'
  BY <1>1 DEF PostInv, Post
<1>2. CASE ReloadCatalog
  <2>1. /\ pc = "reload" /\ pc' = "dispatch" /\ catalog' = Load(disk)
        /\ UNCHANGED <<sha, disk, genLines>> /\ ~changed
    BY <1>2, ReloadMoves, SMT
  <2>2. Matches' => Seeded(disk, Load(disk), genLines.outputs)
    BY <2>1, ReloadSeeded DEF Matches
  <2>3. Matches' => Seeded(disk', catalog', genLines'.outputs)
    BY <2>1, <2>2
  <2> QED BY <2>1, <2>3 DEF PostInv
<1>3. CASE DispatchWorker
  <2>1. /\ pc = "dispatch" /\ pc' = "tree" /\ UNCHANGED <<catalog, sha>>
        /\ Write(dispatchworker(disk, catalog))
        /\ genLines' = [genLines EXCEPT !.stamped = disk'.dispatch \ disk.dispatch]
    BY <1>3 DEF DispatchWorker, latticeVars
  <2>2. ~changed /\ disk' = disk /\ dispatchworker(disk, catalog) = disk
    BY <2>1, QuietWrite
  <2>3. genLines'.outputs = genLines.outputs /\ genLines'.stamped = {}
    BY <2>1, <2>2 DEF LinesInv, Lines
  <2>4. /\ Matches => Seeded(disk, catalog, genLines.outputs)
        /\ catalog = Load(disk)
    BY <2>1, <2>2 DEF PostInv, Post
  <2>5. Matches' = Matches
    BY <2>1, <2>2 DEF Matches
  <2> QED BY <2>1, <2>2, <2>3, <2>4, <2>5 DEF PostInv
<1>4. CASE SpecLattice
  <2>1. /\ pc = "tree" /\ pc' = "lattice" /\ UNCHANGED <<catalog, sha, genLines, shards>>
        /\ Write(speclattice(disk)) /\ tree' = Listing(disk)
    BY <1>4 DEF SpecLattice, latticeVars
  <2>2. ~changed /\ disk' = disk /\ speclattice(disk) = disk
    BY <2>1, QuietWrite
  <2>3. speclattice(disk)' = disk' /\ tree' = Listing(disk)'
    BY <2>1, <2>2 DEF speclattice, Listing
  <2>4. /\ Matches => Seeded(disk, catalog, genLines.outputs)
        /\ catalog = Load(disk) /\ dispatchworker(disk, catalog) = disk /\ genLines.stamped = {}
    BY <2>1, <2>2 DEF PostInv, Post
  <2>5. Matches' = Matches
    BY <2>1, <2>2 DEF Matches
  <2> QED BY <2>1, <2>2, <2>3, <2>4, <2>5 DEF PostInv
<1>5. CASE LatticeBegin
  <2>1. /\ pc = "lattice" /\ UNCHANGED <<shards, sha, disk, catalog, tree, genLines>> /\ ~changed
        /\ \/ sha = buildLattice(disk, catalog, tree) /\ pc' = "buildsync"
           \/ pc' = "writing"
    BY <1>5, BeginMoves, SMT DEF ctxVars
  <2>2. speclattice(disk)' = speclattice(disk) /\ Listing(disk)' = Listing(disk)
    BY <2>1 DEF speclattice, Listing
  <2>3. /\ Matches => Seeded(disk, catalog, genLines.outputs)
        /\ catalog = Load(disk) /\ dispatchworker(disk, catalog) = disk /\ genLines.stamped = {}
        /\ speclattice(disk) = disk /\ tree = Listing(disk)
    BY <2>1 DEF PostInv, Post
  <2>4. Matches' = Matches
    BY <2>1 DEF Matches
  <2> QED BY <2>1, <2>2, <2>3, <2>4 DEF PostInv
<1>6. CASE LatticeWrite
  <2>1. /\ pc = "writing" /\ UNCHANGED <<disk, catalog, genLines>>
        /\ \/ run.step # "prune" /\ pc' = "writing" /\ sha' = sha
           \/ run.step # "prune" /\ sha' = run.lattice
           \/ run.step = "prune"
        /\ ~changed /\ sha' = sha
    BY <1>6, WriteMoves DEF ctxVars
  <2>2. pc' = "writing"
    BY <2>1 DEF ShaInv
  <2>3. /\ Matches => Seeded(disk, catalog, genLines.outputs)
        /\ catalog = Load(disk) /\ dispatchworker(disk, catalog) = disk /\ genLines.stamped = {}
    BY <2>1 DEF PostInv, Post
  <2>4. Matches' = Matches
    BY <2>1 DEF Matches
  <2> QED BY <2>1, <2>2, <2>3, <2>4 DEF PostInv
<1>7. CASE BuildSync
  <2>1. /\ pc = "buildsync" /\ pc' = "finish"
        /\ UNCHANGED <<catalog, sha, genLines, shards, tree>> /\ Built(disk, catalog)
        /\ Write(genChartDigests(syncFiles(disk, catalog), catalog))
    BY <1>7 DEF BuildSync, BuildPasses, latticeVars, ctxVars
  <2>2. ~changed /\ disk' = disk /\ genChartDigests(syncFiles(disk, catalog), catalog) = disk
    BY <2>1, QuietWrite
  <2>3. speclattice(disk)' = speclattice(disk) /\ Listing(disk)' = Listing(disk)
    BY <2>1, <2>2 DEF speclattice, Listing
  <2>4. /\ Matches => Seeded(disk, catalog, genLines.outputs)
        /\ catalog = Load(disk) /\ dispatchworker(disk, catalog) = disk /\ genLines.stamped = {}
        /\ speclattice(disk) = disk /\ tree = Listing(disk)
        /\ sha = buildLattice(disk, catalog, tree)
    BY <2>1, <2>2 DEF PostInv, Post
  <2>5. Matches' = Matches
    BY <2>1, <2>2 DEF Matches
  <2> QED BY <2>1, <2>2, <2>3, <2>4, <2>5 DEF PostInv
<1>8. CASE User
  <2>1. pc' = pc /\ (pc # "idle" => changed')
    BY <1>8, UserMoves
  <2> QED BY <1>1, <2>1 DEF Post
<1>9. CASE UNCHANGED vars
  <2>1. UNCHANGED <<pc, changed, disk, catalog, sha, genLines, shards, tree>>
    BY <1>9 DEF vars, latticeVars, ctxVars
  <2>2. speclattice(disk)' = speclattice(disk) /\ Listing(disk)' = Listing(disk)
    BY <2>1 DEF speclattice, Listing
  <2>3. Matches' = Matches
    BY <2>1 DEF Matches
  <2> QED BY <2>1, <2>2, <2>3 DEF PostInv
<1> QED BY <1>1, <1>2, <1>3, <1>4, <1>5, <1>6, <1>7, <1>8, <1>9, Steps, StartMoves, BeforeMoves,
         FinishMoves, EndedMoves DEF After, Pre, Post

----------------------------------------------------------------------------
(* The end                                                                 *)

(* Writing the copies and the digests changes nothing only when neither    *)
(* does.                                                                   *)
LEMMA BuildQuiet ==
  ASSUME NEW d, NEW c, Record(d), genChartDigests(syncFiles(d, c), c) = d
  PROVE  /\ syncFiles(d, c) = d /\ genChartDigests(d, c) = d
         /\ d.digests = [a \in DOMAIN c.versions |-> d.renders[a]]
<1> DEFINE e == syncFiles(d, c)
<1>1. Rest(e, d, {"synced"})
  BY BuildFields
<1>2. Record(e)
  BY <1>1 DEF Rest
<1>3. Rest(genChartDigests(e, c), e, {"digests"})
  BY <1>2, BuildFields
<1>4. ASSUME NEW f \in DiskFields PROVE e[f] = d[f]
  <2>1. CASE f = "synced"
    <3>1. genChartDigests(e, c)[f] = e[f]
      BY <1>3, <2>1 DEF Rest, DiskFields
    <3> QED BY <3>1
  <2>2. CASE f # "synced"
    BY <1>1, <1>4, <2>2 DEF Rest
  <2> QED BY <2>1, <2>2
<1>5. e = d
  BY <1>2, <1>4 DEF Record
<1>6. genChartDigests(d, c) = d
  BY <1>5
<1>7. d.digests = [a \in DOMAIN c.versions |-> d.renders[a]]
  <2>1. genChartDigests(d, c).digests = [a \in DOMAIN c.versions |-> d.renders[a]]
    BY BuildFields
  <2> QED BY <1>6, <2>1
<1> QED BY <1>5, <1>6, <1>7

(* A seed that adds no entry had none to add.                              *)
LEMMA SeedQuiet ==
  ASSUME NEW d, NEW c, DiskTypes(d), seedChartVersions(d, c) = d, NEW a \in App, a \in c.apps
  PROVE  a \in DOMAIN c.versions \cup DOMAIN c.digests
<1>1. /\ Record(d) /\ d.entries[a] \in Nat
  BY DEF DiskTypes
<1>2. d.entries = [b \in App |->
                     IF b \in c.apps \ (DOMAIN c.versions \cup DOMAIN c.digests)
                     THEN d.entries[b] + 1 ELSE d.entries[b]]
  BY <1>1, VersionsFields, SMT
<1>3. d.entries[a] = IF a \in c.apps \ (DOMAIN c.versions \cup DOMAIN c.digests)
                     THEN d.entries[a] + 1 ELSE d.entries[a]
  BY <1>2
<1> QED BY <1>1, <1>3, SMT

(* Every declared app has an entry when the seeds and the digests of the   *)
(* build leave the files alone.                                            *)
LEMMA AppsEntered ==
  ASSUME NEW d, DiskTypes(d), seedChartVersions(d, Load(d)) = d,
         d.digests = [a \in DOMAIN Load(d).versions |-> d.renders[a]],
         NEW a \in d.apps
  PROVE  d.entries[a] > 0 /\ a \in DOMAIN Load(d).versions
<1>1. a \in App /\ a \in Load(d).apps /\ Load(d).digests = d.digests
  BY DEF DiskTypes, Load
<1>2. a \in DOMAIN Load(d).versions \cup DOMAIN Load(d).digests
  BY <1>1, SeedQuiet
<1>3. DOMAIN d.digests = DOMAIN Load(d).versions
  OBVIOUS
<1>4. a \in DOMAIN Load(d).versions
  BY <1>1, <1>2, <1>3
<1>5. Load(d).versions = [b \in {b \in App : d.entries[b] > 0} |-> d.version[b]]
  BY DEF Load, Restrict
<1>6. d.entries[a] > 0
  BY <1>4, <1>5
<1> QED BY <1>4, <1>6

(* What hatch has found out when it reports success is what the property   *)
(* says.                                                                   *)
LEMMA SuccessFixed ==
  ASSUME HatchTypes, LinesInv, PostInv, pc = "finish", ~changed,
         trackingFiles(disk, genLines) = disk
  PROVE  /\ seedChartVersions(disk, Load(disk)) = disk
         /\ seedChartDigests(disk, Load(disk)) = disk
         /\ infra(disk) = disk
         /\ genAppBricks(disk, disk.apps) = disk
         /\ genApp(disk, Load(disk), disk.apps) = disk
         /\ dispatchworker(disk, Load(disk)) = disk
         /\ speclattice(disk) = disk
         /\ sha = buildLattice(disk, Load(disk), Listing(disk))
         /\ syncFiles(disk, Load(disk)) = disk /\ genChartDigests(disk, Load(disk)) = disk
         /\ trackingFiles(disk, [outputs |-> disk.apps, stamped |-> {}]) = disk
<1>1. /\ catalog = Load(disk) /\ (Matches => Seeded(disk, catalog, genLines.outputs))
      /\ dispatchworker(disk, catalog) = disk /\ genLines.stamped = {}
      /\ speclattice(disk) = disk /\ tree = Listing(disk)
      /\ sha = buildLattice(disk, catalog, tree)
      /\ genChartDigests(syncFiles(disk, catalog), catalog) = disk
  BY DEF PostInv, Post
<1>2. Matches
  BY <1>1, NoteOf, SMT DEF Matches
<1>3. Seeded(disk, Load(disk), genLines.outputs)
  BY <1>1, <1>2
<1>4. /\ seedChartVersions(disk, Load(disk)) = disk /\ seedChartDigests(disk, Load(disk)) = disk
      /\ infra(disk) = disk /\ genAppBricks(disk, genLines.outputs) = disk
      /\ genLines.outputs \subseteq disk.apps
      /\ genApp(disk, Load(disk), genLines.outputs) = disk
      /\ \A a \in disk.apps \ genLines.outputs : disk.entries[a] = 0
  BY <1>3 DEF Seeded, Ran, Renderable
<1>5. DiskTypes(disk) /\ Record(disk)
  BY ContextTyped
<1>6. /\ syncFiles(disk, Load(disk)) = disk /\ genChartDigests(disk, Load(disk)) = disk
      /\ disk.digests = [a \in DOMAIN Load(disk).versions |-> disk.renders[a]]
  BY <1>1, <1>5, BuildQuiet
<1>7. genLines.outputs = disk.apps
  <2>1. \A a \in disk.apps : disk.entries[a] > 0
    BY <1>4, <1>5, <1>6, AppsEntered
  <2>2. /\ genLines.outputs \subseteq disk.apps
        /\ \A a \in disk.apps \ genLines.outputs : ~(disk.entries[a] > 0)
    BY <1>4, SMT
  <2> QED BY <2>1, <2>2, Zenon
<1>8. genLines = [outputs |-> disk.apps, stamped |-> {}]
  BY <1>1, <1>7 DEF LinesInv, Lines
<1> QED BY <1>1, <1>4, <1>6, <1>7, <1>8

(* All of the invariant.                                                   *)
SuccessInv ==
  /\ RunInv /\ NoteInv /\ ShaInv /\ LinesInv /\ PlaceInv /\ SnapInv /\ FirstInv
  /\ LateInv /\ WorkInv /\ PostInv

(* The invariant holds at first.                                           *)
LEMMA SuccessInit ==
  Init => SuccessInv /\ FixpointOnSuccess
<1> SUFFICES ASSUME Init PROVE SuccessInv /\ FixpointOnSuccess
  OBVIOUS
<1>1. pc = "idle" /\ result = "none" /\ edits = 0 /\ genLines = NoLines
  BY DEF Init
<1>2. sha = None /\ run = Idle /\ disk.note = 0
  BY DEF Init, LatticeInit
<1>3. RunInv /\ NoteInv /\ LinesInv
  BY <1>1, <1>2 DEF RunInv, Idle, NoteInv, LinesInv, Lines, NoLines
<1>4. ShaInv /\ PlaceInv /\ SnapInv /\ FirstInv
  BY <1>1 DEF ShaInv, PlaceInv, SnapInv, FirstInv, Pre
<1>5. LateInv /\ WorkInv /\ PostInv
  BY <1>1 DEF LateInv, WorkInv, PostInv, Post
<1> QED BY <1>1, <1>3, <1>4, <1>5 DEF SuccessInv, FixpointOnSuccess

(* Every step keeps it.                                                    *)
LEMMA SuccessStep ==
  ASSUME ~Undo, HatchTypes, SuccessInv, [Next]_vars
  PROVE  SuccessInv'
BY RunStep, NoteStep, ShaStep, LinesStep, PlaceStep, SnapStep, FirstStep, LateStep, WorkStep,
   PostStep DEF SuccessInv

(* Only a pass that found nothing to change reports success, and what it   *)
(* found stays so until the next edit or the next hatch.                   *)
LEMMA FixpointStep ==
  ASSUME ~GitFails, HatchTypes, SuccessInv, FixpointOnSuccess, [Next]_vars
  PROVE  FixpointOnSuccess'
<1>1. ASSUME result' # "idempotent" PROVE FixpointOnSuccess'
  BY <1>1 DEF FixpointOnSuccess
<1>2. ASSUME UNCHANGED result, pc # "idle" PROVE FixpointOnSuccess'
  <2>1. result' # "idempotent"
    BY <1>2 DEF SuccessInv, PlaceInv
  <2> QED BY <1>1, <2>1
<1>3. CASE Finish
  <2>1. CASE Return("validated") \/ Return("limit")
    BY <1>1, <2>1 DEF Return
  <2>2. CASE UNCHANGED result
    BY <1>2, <1>3, <2>2, FinishMoves
  <2>3. CASE ~Changes
    <3>1. snapshot /\ pc = "finish"
      BY <1>3 DEF SuccessInv, SnapInv, Finish
    <3>2. ~changed /\ trackingFiles(disk, genLines) = disk
      BY <2>3, <3>1 DEF Changes, Advances
    <3>3. UNCHANGED <<disk, sha, shards>>
      BY <1>3, <3>2, FinishMoves DEF Finish
    <3>4. /\ seedChartVersions(disk, Load(disk)) = disk
          /\ seedChartDigests(disk, Load(disk)) = disk
          /\ infra(disk) = disk
          /\ genAppBricks(disk, disk.apps) = disk
          /\ genApp(disk, Load(disk), disk.apps) = disk
          /\ dispatchworker(disk, Load(disk)) = disk
          /\ speclattice(disk) = disk
          /\ sha = buildLattice(disk, Load(disk), Listing(disk))
          /\ syncFiles(disk, Load(disk)) = disk /\ genChartDigests(disk, Load(disk)) = disk
          /\ trackingFiles(disk, [outputs |-> disk.apps, stamped |-> {}]) = disk
      BY <3>1, <3>2, SuccessFixed DEF SuccessInv
    <3>5. speclattice(disk)' = speclattice(disk) /\ Listing(disk)' = Listing(disk)
      BY <3>3 DEF speclattice, Listing
    <3> QED BY <3>3, <3>4, <3>5 DEF FixpointOnSuccess, Unchanged
  <2> QED BY <1>3, <2>1, <2>2, <2>3 DEF Finish
<1>4. CASE User
  BY <1>1, <1>2, <1>4, UserMoves
<1>5. CASE UNCHANGED vars
  <2>1. UNCHANGED <<result, disk, sha, shards>>
    BY <1>5 DEF vars, latticeVars
  <2>2. speclattice(disk)' = speclattice(disk) /\ Listing(disk)' = Listing(disk)
    BY <2>1 DEF speclattice, Listing
  <2> QED BY <2>1, <2>2 DEF FixpointOnSuccess, Unchanged
<1>6. CASE \E m \in {"cycle", "validate"} : Start(m)
  BY <1>1, <1>6, StartMoves
<1>7. CASE Ended
  BY <1>1, <1>7, EndedMoves
<1>8. CASE LatticeBegin \/ LatticeWrite
  BY <1>2, <1>8 DEF LatticeBegin, LatticeWrite
<1> QED BY <1>2, <1>3, <1>4, <1>5, <1>6, <1>7, <1>8, Steps, BeforeMoves, ReloadMoves, AfterMoves
      DEF Pre

(* When Cycle reports an idempotent workspace a new hatch would change     *)
(* nothing, for any apps, limits, edits and kills, as long as an edit does *)
(* not bring an earlier workspace back and git lists the files before each *)
(* pass: the catalog and the overlay a pass used are then the ones on      *)
(* disk.                                                                   *)
THEOREM SuccessIsFixpoint ==
  ASSUME ~Undo, ~GitFails
  PROVE  Spec => []FixpointOnSuccess
<1>1. HatchTypes /\ SuccessInv /\ FixpointOnSuccess /\ [Next]_vars
        => HatchTypes' /\ SuccessInv' /\ FixpointOnSuccess'
  BY TypeStep, SuccessStep, FixpointStep
<1> QED BY <1>1, TypeInit, SuccessInit, PTL DEF Spec

(* Files that a hatch would not change are complete.                       *)
LEMMA FixpointComplete ==
  HatchTypes /\ FixpointOnSuccess => CompleteOnSuccess
<1> SUFFICES ASSUME HatchTypes, FixpointOnSuccess, result = "idempotent", NEW a \in disk.apps
             PROVE  /\ disk.entries[a] > 0
                    /\ disk.renders[a] = disk.version[a]
                    /\ disk.digests[a] = disk.version[a]
                    /\ a \in disk.bricks /\ a \in disk.dispatch
  BY DEF CompleteOnSuccess
<1> DEFINE c == Load(disk)
<1>1. /\ seedChartVersions(disk, c) = disk /\ genAppBricks(disk, disk.apps) = disk
      /\ genApp(disk, c, disk.apps) = disk /\ dispatchworker(disk, c) = disk
      /\ genChartDigests(disk, c) = disk
  BY DEF FixpointOnSuccess
<1>2. DiskTypes(disk) /\ Record(disk) /\ a \in App
  BY ContextTyped DEF DiskTypes
<1>3. c.versions = [b \in {b \in App : disk.entries[b] > 0} |-> disk.version[b]]
      /\ c.bricks = disk.bricks
  BY DEF Load, Restrict
<1> HIDE DEF c
<1>4. disk.digests = [b \in DOMAIN c.versions |-> disk.renders[b]]
  <2>1. genChartDigests(disk, c).digests = [b \in DOMAIN c.versions |-> disk.renders[b]]
    BY <1>2, BuildFields
  <2> QED BY <1>1, <2>1
<1>5. disk.entries[a] > 0 /\ a \in DOMAIN c.versions
  BY <1>1, <1>2, <1>4, AppsEntered DEF c
<1>6. c.versions[a] = disk.version[a]
  BY <1>2, <1>3, <1>5
<1>7. a \in disk.dirs /\ disk.renders = Renders(disk, c, disk.apps)
  <2>1. /\ genApp(disk, c, disk.apps).dirs = disk.dirs \cup disk.apps
        /\ genApp(disk, c, disk.apps).renders = Renders(disk, c, disk.apps)
    BY <1>2, RenderFields, SMT
  <2> QED BY <1>1, <2>1
<1>8. disk.renders[a] = disk.version[a]
  <2>1. Renders(disk, c, disk.apps)[a] = c.versions[a]
    BY <1>5 DEF Renders
  <2> QED BY <1>6, <1>7, <2>1
<1>9. disk.digests[a] = disk.version[a]
  BY <1>4, <1>5, <1>8
<1>10. a \in disk.bricks
  <2>1. genAppBricks(disk, disk.apps).bricks = disk.bricks \cup disk.apps
    BY <1>2, BrickFields
  <2> QED BY <1>1, <2>1
<1>11. a \in disk.dispatch
  <2>1. dispatchworker(disk, c).dispatch = disk.dispatch \cup (c.bricks \cap disk.dirs)
    BY <1>2, OtherFields
  <2> QED BY <1>1, <1>3, <1>7, <1>10, <2>1
<1> QED BY <1>5, <1>8, <1>9, <1>10, <1>11

(* Then, too, every app that is declared has its entry, its render for the *)
(* version in it, the digest of that build, its brick and its              *)
(* dispatch.cue.                                                           *)
THEOREM SuccessIsComplete ==
  ASSUME ~Undo, ~GitFails
  PROVE  Spec => []CompleteOnSuccess
<1>1. Spec => []HatchTypes
  BY TypeInit, TypeStep, PTL DEF Spec
<1> QED BY <1>1, SuccessIsFixpoint, FixpointComplete, PTL

----------------------------------------------------------------------------
(* The bound on the passes                                                 *)
(*                                                                         *)
(* A hatch that nobody disturbs settles its files one pass after another:  *)
(* the generators and the dispatch.cue files in the first, the log in the  *)
(* second, the entries of chart_versions.cue in the third at the latest    *)
(* (an app may have a digest and no entry left over from an earlier hatch, *)
(* and is then not seeded until the digests were written again), the       *)
(* catalog and the names of the shards in the fourth, whose listing and    *)
(* lattice the fifth then finds in place.  What a pass changes on its way  *)
(* to the lattice shows in it: that is why the names of the shards are     *)
(* those of a lattice written in this hatch.                               *)

(* A hatch is under way and nobody has edited the workspace since it began;*)
(* how far it has come.                                                    *)
Alone == pc # "idle" /\ ~edited
Second == iter >= 2
Third == iter >= 3
Fourth == iter >= 4
Fifth == iter >= 5

Entered(d) == {a \in App : d.entries[a] > 0}

(* The catalog in use holds the apps there are, and no version but the one *)
(* on disk.                                                                *)
ZeroInv == \A a \in App : a \notin Entered(disk) => disk.version[a] = 0

Agrees(c, d) ==
  \A a \in App : d.version[a] = IF a \in DOMAIN c.versions THEN c.versions[a] ELSE 0

AppsInv ==
  Alone =>
    /\ overlay = disk.apps /\ catalog.apps = disk.apps
    /\ DOMAIN catalog.versions \subseteq Entered(disk) /\ Agrees(catalog, disk)

(* What the generators of Phase A that are not among left have made.       *)
Made(d, left) ==
  /\ "infra" \notin left => "infra" \in d.bricks \cap d.dirs
  /\ "bricks" \notin left => d.apps \subseteq d.bricks
  /\ "render" \notin left =>
       /\ d.apps \subseteq d.dirs /\ d.apps \subseteq DOMAIN d.renders
       /\ \A a \in d.apps : d.renders[a] = d.version[a]

MadeInv ==
  Alone =>
    /\ pc = "phaseA" => Made(disk, gens)
    /\ Second \/ pc \in {"reload"} \cup Post => Made(disk, {})
    /\ Second \/ pc \in Post => catalog.bricks = disk.bricks

(* The dispatch.cue files, the copies of the build and the log.            *)
DoneInv ==
  Alone =>
    /\ Second \/ pc \in Post \ {"dispatch"} =>
         disk.bricks \cap disk.dirs \subseteq disk.dispatch
    /\ Second \/ pc = "finish" => disk.apps \subseteq disk.synced
    /\ pc \in Post => genLines.outputs = disk.apps
    /\ Second => genLines.stamped = {}
    /\ Third => disk.log = [outputs |-> disk.apps, stamped |-> {}]

(* The digests are those of the build, for the apps of a catalog.          *)
Digested(d, c) == d.digests = [a \in DOMAIN c.versions |-> d.renders[a]]

DigestInv ==
  Alone =>
    /\ pc = "finish" \/ (Second /\ pc \in Pre) => Digested(disk, catalog)
    /\ Second /\ pc \in {"dispatch", "tree", "lattice"} => Digested(disk, sha.catalog)
    /\ Second /\ pc = "buildsync" => changed \/ Digested(disk, catalog)
    /\ Third \/ (Second /\ pc \in Post) => DOMAIN catalog.digests \subseteq DOMAIN catalog.versions
    /\ Fourth \/ (Third /\ pc \notin {"snapshot", "versions"}) =>
         disk.apps \subseteq Entered(disk)
    /\ Fourth \/ (Third /\ pc \in Post) => Entered(disk) \subseteq DOMAIN catalog.versions

(* What a pass has changed when it comes to the lattice shows there.       *)
Shown(l) == l.tree.files

ShownInv ==
  Alone =>
    /\ pc \in {"writing", "buildsync", "finish"} =>
         Shown(run.lattice).entries = disk.entries /\ Shown(run.lattice).listing = disk.listing
    /\ Second /\ pc \in Pre \cup {"dispatch", "tree"} => Shown(sha).listing = disk.listing
    /\ Second /\ pc \in {"snapshot", "versions"} => Shown(sha).entries = disk.entries
    /\ Second /\ pc = "versions" => ~changed
    /\ Second /\ pc \in {"digests", "phaseA", "reload", "dispatch", "tree"} /\ changed =>
         Shown(sha).entries # disk.entries
    /\ Second /\ pc = "lattice" /\ changed =>
         Shown(sha).entries # disk.entries \/ Shown(sha).listing # disk.listing

(* The names of the shards go by the apps and the directories alone: no    *)
(* shard becomes so large that it is compressed, and no tree so large that *)
(* it is split, by what the generators write into the files.               *)
NamesByApps ==
  \A l, m : l.catalog.apps = m.catalog.apps /\ DOMAIN l.tree.dirs = DOMAIN m.tree.dirs
              => Files(l) = Files(m)

Bare(d) == [catalog |-> [apps |-> d.apps],
            tree |-> [files |-> {}, dirs |-> [b \in d.dirs |-> {}]]]
Named == DOMAIN shards = Files(Bare(disk))

NamesInv ==
  Alone =>
    /\ pc = "lattice" => tree.dirs = disk.dirs
    /\ pc = "writing" => Files(run.lattice) = Files(Bare(disk))
    /\ Second /\ pc \in {"buildsync", "finish"} => ~changed \/ Named
    /\ Fourth /\ pc # "writing" => Named

Target(d) == [dirs |-> d.dirs, renders |-> DOMAIN d.renders, dispatch |-> d.dispatch,
              shards |-> Files(Bare(d))]

SettledInv ==
  Alone /\ Fourth =>
    /\ Digested(disk, catalog)
    /\ pc \in Post => catalog = Load(disk)
    /\ pc \in {"lattice", "writing", "buildsync", "finish"} =>
         tree = Target(disk) /\ disk.listing = Target(disk)
    /\ pc \in {"writing", "buildsync", "finish"} => run.lattice = buildLattice(disk, catalog, tree)
    /\ Fifth =>
         /\ catalog = Load(disk) /\ disk.listing = Target(disk)
         /\ sha = buildLattice(disk, catalog, Target(disk))
         /\ pc # "writing" /\ (pc # "snapshot" => ~changed)

SamePass ==
  (Second' <=> Second) /\ (Third' <=> Third) /\ (Fourth' <=> Fourth) /\ (Fifth' <=> Fifth)

Again == Finish /\ pc' = "snapshot"

(* A later pass comes after the earlier ones.                              *)
LEMMA PassOrder ==
  ASSUME HatchTypes
  PROVE  (Fifth => Fourth) /\ (Fourth => Third) /\ (Third => Second) /\ (Second => iter > 1)
<1>1. iter \in Int
  BY LimitsPositive, SMT DEF HatchTypes, LoopTypes
<1> QED BY <1>1, SMT DEF Second, Third, Fourth, Fifth

(* A new hatch is at its first pass,                                       *)
LEMMA FirstPass ==
  ASSUME iter' = 1
  PROVE  ~Second' /\ ~Third' /\ ~Fourth' /\ ~Fifth'
BY SMT DEF Second, Third, Fourth, Fifth

(* and goes from one to the next.                                          *)
LEMMA NextPass ==
  ASSUME HatchTypes, iter' = iter + 1
  PROVE  (Third' => Second) /\ (Fourth' => Third) /\ (Fifth' => Fourth)
<1>1. iter \in Int
  BY LimitsPositive, SMT DEF HatchTypes, LoopTypes
<1> QED BY <1>1, SMT DEF Second, Third, Fourth, Fifth

(* The steps of a hatch that is left alone.                                *)
LEMMA AloneSteps ==
  ASSUME [Next]_vars, Alone'
  PROVE  \/ \E m \in {"cycle", "validate"} : Start(m)
         \/ /\ Alone
            /\ \/ Snapshot \/ Seed \/ (\E g \in Step : PhaseA(g)) \/ ReloadCatalog
               \/ DispatchWorker \/ SpecLattice \/ LatticeBegin \/ LatticeWrite
               \/ BuildSync \/ Again \/ UNCHANGED vars
<1>1. pc' # "idle" /\ ~edited'
  BY DEF Alone
<1>2. ~Ended /\ ~User
  BY <1>1, EndedMoves, UserMoves
<1>3. CASE Before
  BY <1>1, <1>3, BeforeMoves DEF Alone, Before, Pre
<1>4. CASE After
  BY <1>1, <1>4, AfterMoves DEF Alone, After
<1>5. CASE ReloadCatalog
  BY <1>1, <1>5 DEF Alone, ReloadCatalog, userVars
<1>6. CASE LatticeBegin
  BY <1>1, <1>6, BeginMoves DEF Alone, userVars
<1>7. CASE LatticeWrite
  BY <1>1, <1>7 DEF Alone, LatticeWrite, userVars
<1>8. CASE Finish
  BY <1>1, <1>8, FinishMoves DEF Alone, Again
<1>9. CASE UNCHANGED vars
  BY <1>1, <1>9 DEF Alone, vars, userVars
<1> QED BY <1>2, <1>3, <1>4, <1>5, <1>6, <1>7, <1>8, <1>9, Steps

----------------------------------------------------------------------------
(* What each step does to the files                                        *)

(* Files of which the part that is written stays are the same files.       *)
LEMMA RestSame ==
  ASSUME NEW d, NEW e, NEW F, Record(d), Rest(e, d, F), \A f \in F : e[f] = d[f]
  PROVE  e = d
BY DEF Record, Rest

(* The mtimes are taken: no file is written.                               *)
LEMMA SnapshotDoes ==
  ASSUME Snapshot
  PROVE  /\ pc = "snapshot" /\ pc' = "versions" /\ ~changed' /\ SamePass
         /\ UNCHANGED <<shards, sha, run, disk, catalog, overlay, tree, genLines, gens>>
BY DEF Snapshot, latticeVars, ctxVars, SamePass, Second, Third, Fourth, Fifth

(* seedChartVersions writes the entries.                                   *)
LEMMA VersionsDoes ==
  ASSUME HatchTypes, Seed, pc = "versions"
  PROVE  /\ pc' = "digests" /\ SamePass /\ (changed' <=> changed \/ disk' # disk)
         /\ UNCHANGED <<shards, sha, run, catalog, overlay, tree, genLines>>
         /\ Rest(disk', disk, {"entries"})
         /\ UNCHANGED <<disk.apps, disk.version, disk.digests, disk.bricks, disk.dirs,
                        disk.renders, disk.dispatch, disk.synced, disk.listing, disk.log>>
         /\ disk'.entries =
              [a \in App |->
                 IF a \in catalog.apps \ (DOMAIN catalog.versions \cup DOMAIN catalog.digests)
                 THEN disk.entries[a] + 1 ELSE disk.entries[a]]
<1>1. /\ pc' = "digests" /\ disk' = seedChartVersions(disk, catalog)
      /\ (changed' <=> changed \/ disk' # disk)
      /\ UNCHANGED <<shards, sha, run, catalog, overlay, tree, genLines>>
  BY DEF Seed, Write, Advances, latticeVars, ctxVars
<1>2. SamePass
  BY DEF Seed, loopVars, SamePass, Second, Third, Fourth, Fifth
<1>3. Rest(disk', disk, {"entries"})
  BY <1>1, ContextTyped, VersionsFields
<1>4. disk'.entries =
        [a \in App |->
           IF a \in catalog.apps \ (DOMAIN catalog.versions \cup DOMAIN catalog.digests)
           THEN disk.entries[a] + 1 ELSE disk.entries[a]]
  BY <1>1, ContextTyped, VersionsFields, SMT
<1>5. UNCHANGED <<disk.apps, disk.version, disk.digests, disk.bricks, disk.dirs,
                  disk.renders, disk.dispatch, disk.synced, disk.listing, disk.log>>
  BY <1>3 DEF Rest, DiskFields
<1> QED BY <1>1, <1>2, <1>3, <1>4, <1>5

(* seedChartDigests writes the digests.                                    *)
LEMMA DigestsDoes ==
  ASSUME HatchTypes, Seed, pc # "versions"
  PROVE  /\ pc = "digests" /\ pc' = "phaseA" /\ gens' = Step /\ SamePass
         /\ (changed' <=> changed \/ disk' # disk)
         /\ UNCHANGED <<shards, sha, run, catalog, overlay, tree, genLines>>
         /\ Rest(disk', disk, {"digests"})
         /\ UNCHANGED <<disk.apps, disk.version, disk.entries, disk.bricks, disk.dirs,
                        disk.renders, disk.dispatch, disk.synced, disk.listing, disk.log>>
         /\ \/ disk'.digests = disk.digests
            \/ disk'.digests = [a \in DOMAIN catalog.versions |->
                                  IF a \in DOMAIN disk.digests THEN disk.digests[a]
                                  ELSE NoDigest]
<1>1. /\ pc = "digests" /\ pc' = "phaseA" /\ gens' = Step
      /\ disk' = seedChartDigests(disk, catalog)
      /\ (changed' <=> changed \/ disk' # disk)
      /\ UNCHANGED <<shards, sha, run, catalog, overlay, tree, genLines>>
  BY DEF Seed, Write, Advances, latticeVars, ctxVars
<1>2. SamePass
  BY DEF Seed, loopVars, SamePass, Second, Third, Fourth, Fifth
<1>3. Rest(disk', disk, {"digests"})
  BY <1>1, ContextTyped, DigestsFields
<1>4. \/ disk'.digests = disk.digests
      \/ disk'.digests = [a \in DOMAIN catalog.versions |->
                            IF a \in DOMAIN disk.digests THEN disk.digests[a] ELSE NoDigest]
  BY <1>1, ContextTyped, DigestsFields
<1>5. UNCHANGED <<disk.apps, disk.version, disk.entries, disk.bricks, disk.dirs,
                  disk.renders, disk.dispatch, disk.synced, disk.listing, disk.log>>
  BY <1>3 DEF Rest, DiskFields
<1> QED BY <1>1, <1>2, <1>3, <1>4, <1>5

(* A generator of Phase A writes bricks, directories and renders.          *)
LEMMA PhaseDoes ==
  ASSUME HatchTypes, LinesInv, NEW g \in Step, PhaseA(g)
  PROVE  /\ pc = "phaseA" /\ gens' = gens \ {g} /\ SamePass
         /\ pc' = IF gens' = {} THEN "reload" ELSE "phaseA"
         /\ (changed' <=> changed \/ disk' # disk)
         /\ UNCHANGED <<shards, sha, run, catalog, overlay, tree>>
         /\ genLines'.outputs = overlay /\ genLines'.stamped = genLines.stamped
         /\ Rest(disk', disk, {"bricks", "dirs", "renders"})
         /\ UNCHANGED <<disk.apps, disk.version, disk.entries, disk.digests,
                        disk.dispatch, disk.synced, disk.listing, disk.log>>
         /\ \/ /\ g = "infra" /\ disk'.renders = disk.renders
               /\ disk'.bricks = disk.bricks \cup {"infra"}
               /\ disk'.dirs = disk.dirs \cup {"infra"}
            \/ /\ g = "bricks" /\ disk'.dirs = disk.dirs /\ disk'.renders = disk.renders
               /\ disk'.bricks = disk.bricks \cup overlay
            \/ /\ g = "render" /\ disk'.bricks = disk.bricks
               /\ disk'.dirs = disk.dirs \cup overlay
               /\ disk'.renders = Renders(disk, catalog, overlay)
<1>0. Record(disk)
  BY ContextTyped
<1>1. /\ pc = "phaseA" /\ gens' = gens \ {g}
      /\ pc' = (IF gens' = {} THEN "reload" ELSE "phaseA")
      /\ genLines' = [genLines EXCEPT !.outputs = overlay]
      /\ UNCHANGED <<shards, sha, run, catalog, overlay, tree>>
  BY DEF PhaseA, latticeVars
<1>2. SamePass
  BY DEF PhaseA, loopVars, SamePass, Second, Third, Fourth, Fifth
<1>3. genLines'.outputs = overlay /\ genLines'.stamped = genLines.stamped
  BY <1>1 DEF LinesInv, Lines
<1>4. /\ \/ g = "infra" /\ disk' = infra(disk)
         \/ g = "bricks" /\ disk' = genAppBricks(disk, overlay)
         \/ g = "render" /\ disk' = genApp(disk, catalog, overlay)
      /\ (changed' <=> changed \/ disk' # disk)
  BY DEF PhaseA, Step, Write, Advances
<1>5. ASSUME NEW F, F \subseteq {"bricks", "dirs", "renders"}, Rest(disk', disk, F)
      PROVE  Rest(disk', disk, {"bricks", "dirs", "renders"})
  BY <1>5 DEF Rest
<1>6. CASE g = "infra" /\ disk' = infra(disk)
  <2>1. /\ Rest(disk', disk, {"bricks", "dirs"}) /\ disk'.bricks = disk.bricks \cup {"infra"}
        /\ disk'.dirs = disk.dirs \cup {"infra"}
    BY <1>0, <1>6, InfraFields
  <2>2. disk'.renders = disk.renders
    BY <2>1 DEF Rest, DiskFields
  <2>3. Rest(disk', disk, {"bricks", "dirs", "renders"})
    BY <1>5, <2>1
  <2>4. UNCHANGED <<disk.apps, disk.version, disk.entries, disk.digests,
                    disk.dispatch, disk.synced, disk.listing, disk.log>>
    BY <2>1 DEF Rest, DiskFields
  <2> QED BY <1>1, <1>2, <1>3, <1>4, <1>6, <2>1, <2>2, <2>3, <2>4
<1>7. CASE g = "bricks" /\ disk' = genAppBricks(disk, overlay)
  <2>1. Rest(disk', disk, {"bricks"}) /\ disk'.bricks = disk.bricks \cup overlay
    BY <1>0, <1>7, BrickFields
  <2>2. disk'.renders = disk.renders /\ disk'.dirs = disk.dirs
    BY <2>1 DEF Rest, DiskFields
  <2>3. Rest(disk', disk, {"bricks", "dirs", "renders"})
    BY <1>5, <2>1
  <2>4. UNCHANGED <<disk.apps, disk.version, disk.entries, disk.digests,
                    disk.dispatch, disk.synced, disk.listing, disk.log>>
    BY <2>1 DEF Rest, DiskFields
  <2> QED BY <1>1, <1>2, <1>3, <1>4, <1>7, <2>1, <2>2, <2>3, <2>4
<1>8. CASE g = "render" /\ disk' = genApp(disk, catalog, overlay)
  <2>1. /\ Rest(disk', disk, {"dirs", "renders"}) /\ disk'.dirs = disk.dirs \cup overlay
        /\ disk'.renders = Renders(disk, catalog, overlay)
    BY <1>0, <1>8, RenderFields, SMT
  <2>2. disk'.bricks = disk.bricks
    BY <2>1 DEF Rest, DiskFields
  <2>3. Rest(disk', disk, {"bricks", "dirs", "renders"})
    BY <1>5, <2>1
  <2>4. UNCHANGED <<disk.apps, disk.version, disk.entries, disk.digests,
                    disk.dispatch, disk.synced, disk.listing, disk.log>>
    BY <2>1 DEF Rest, DiskFields
  <2> QED BY <1>1, <1>2, <1>3, <1>4, <1>8, <2>1, <2>2, <2>3, <2>4
<1> QED BY <1>4, <1>6, <1>7, <1>8

(* The reload writes no file.                                              *)
LEMMA ReloadDoes ==
  ASSUME ReloadCatalog
  PROVE  /\ pc = "reload" /\ pc' = "dispatch" /\ SamePass
         /\ catalog' = Load(disk) /\ overlay' = disk.apps /\ (changed' <=> changed)
         /\ UNCHANGED <<shards, sha, run, disk, tree, genLines>>
BY DEF ReloadCatalog, latticeVars, loopVars, SamePass, Second, Third, Fourth, Fifth

(* dispatchworker writes the dispatch.cue files that are missing.          *)
LEMMA DispatchDoes ==
  ASSUME HatchTypes, LinesInv, DispatchWorker
  PROVE  /\ pc = "dispatch" /\ pc' = "tree" /\ SamePass
         /\ (changed' <=> changed \/ disk' # disk)
         /\ UNCHANGED <<shards, sha, run, catalog, overlay, tree>>
         /\ genLines'.outputs = genLines.outputs
         /\ genLines'.stamped = disk'.dispatch \ disk.dispatch
         /\ Rest(disk', disk, {"dispatch"})
         /\ UNCHANGED <<disk.apps, disk.version, disk.entries, disk.digests, disk.bricks,
                        disk.dirs, disk.renders, disk.synced, disk.listing, disk.log>>
         /\ disk'.dispatch = disk.dispatch \cup (catalog.bricks \cap disk.dirs)
<1>1. /\ pc = "dispatch" /\ pc' = "tree" /\ disk' = dispatchworker(disk, catalog)
      /\ (changed' <=> changed \/ disk' # disk)
      /\ UNCHANGED <<shards, sha, run, catalog, overlay, tree>>
      /\ genLines' = [genLines EXCEPT !.stamped = disk'.dispatch \ disk.dispatch]
  BY DEF DispatchWorker, Write, Advances, latticeVars
<1>2. SamePass
  BY DEF DispatchWorker, loopVars, SamePass, Second, Third, Fourth, Fifth
<1>3. genLines'.outputs = genLines.outputs /\ genLines'.stamped = disk'.dispatch \ disk.dispatch
  BY <1>1 DEF LinesInv, Lines
<1>4. /\ Rest(disk', disk, {"dispatch"})
      /\ disk'.dispatch = disk.dispatch \cup (catalog.bricks \cap disk.dirs)
  BY <1>1, ContextTyped, OtherFields
<1>5. UNCHANGED <<disk.apps, disk.version, disk.entries, disk.digests, disk.bricks,
                  disk.dirs, disk.renders, disk.synced, disk.listing, disk.log>>
  BY <1>4 DEF Rest, DiskFields
<1> QED BY <1>1, <1>2, <1>3, <1>4, <1>5

(* speclattice writes the listing.                                         *)
LEMMA TreeDoes ==
  ASSUME HatchTypes, SpecLattice
  PROVE  /\ pc = "tree" /\ pc' = "lattice" /\ SamePass
         /\ (changed' <=> changed \/ disk' # disk)
         /\ UNCHANGED <<shards, sha, run, catalog, genLines>>
         /\ overlay' = disk.apps /\ tree' = Listing(disk) /\ disk'.listing = Listing(disk)
         /\ Rest(disk', disk, {"listing"})
         /\ UNCHANGED <<disk.apps, disk.version, disk.entries, disk.digests, disk.bricks,
                        disk.dirs, disk.renders, disk.dispatch, disk.synced, disk.log>>
<1>1. /\ pc = "tree" /\ pc' = "lattice" /\ disk' = speclattice(disk)
      /\ (changed' <=> changed \/ disk' # disk)
      /\ UNCHANGED <<shards, sha, run, catalog, genLines>>
      /\ overlay' = disk.apps /\ tree' = Listing(disk)
  BY DEF SpecLattice, Write, Advances, latticeVars
<1>2. SamePass
  BY DEF SpecLattice, loopVars, SamePass, Second, Third, Fourth, Fifth
<1>3. Rest(disk', disk, {"listing"}) /\ disk'.listing = Listing(disk)
  BY <1>1, ContextTyped, OtherFields
<1>4. UNCHANGED <<disk.apps, disk.version, disk.entries, disk.digests, disk.bricks,
                  disk.dirs, disk.renders, disk.dispatch, disk.synced, disk.log>>
  BY <1>3 DEF Rest, DiskFields
<1> QED BY <1>1, <1>2, <1>3, <1>4

(* lattice.Run writes none of these files; at its end the shards have the  *)
(* names its lattice gives them.                                           *)
LEMMA BeginDoes ==
  ASSUME LatticeBegin
  PROVE  /\ pc = "lattice" /\ SamePass /\ (changed' <=> changed)
         /\ UNCHANGED <<shards, sha, disk, catalog, overlay, tree, genLines>>
         /\ run'.lattice = buildLattice(disk, catalog, tree)
         /\ \/ sha = buildLattice(disk, catalog, tree) /\ pc' = "buildsync"
            \/ sha # buildLattice(disk, catalog, tree) /\ pc' = "writing"
BY BeginMoves, SMT DEF ctxVars, loopVars, SamePass, Second, Third, Fourth, Fifth

(* A step of lattice.Run.                                                  *)
LEMMA WriteDoes ==
  ASSUME MergeInv, ShaInv, LatticeWrite
  PROVE  /\ pc = "writing" /\ SamePass /\ run'.lattice = run.lattice
         /\ UNCHANGED <<disk, catalog, overlay, tree, genLines>>
         /\ \/ pc' = "writing"
            \/ /\ pc' = "buildsync" /\ changed'
               /\ DOMAIN shards' = Files(run'.lattice)
<1>1. /\ pc = "writing" /\ run'.lattice = run.lattice
      /\ UNCHANGED <<disk, catalog, overlay, tree, genLines>>
      /\ \/ pc' = "writing"
         \/ run.step = "prune" /\ pc' = "buildsync"
      /\ changed => changed'
  BY WriteMoves DEF MergeInv, ctxVars
<1>2. SamePass
  BY DEF LatticeWrite, loopVars, SamePass, Second, Third, Fourth, Fifth
<1>3. pc' = "buildsync" => DOMAIN shards' = Files(run'.lattice)
  <2>1. LatticeStep /\ pc' = IF run'.step = "off" THEN "buildsync" ELSE "writing"
    BY DEF LatticeWrite
  <2> QED BY <2>1, RunWrites DEF MergeInv
<1> QED BY <1>1, <1>2, <1>3 DEF ShaInv

(* buildsync writes the copies and the digests.                            *)
LEMMA BuildDoes ==
  ASSUME HatchTypes, BuildSync
  PROVE  /\ pc = "buildsync" /\ pc' = "finish" /\ SamePass
         /\ (changed' <=> changed \/ disk' # disk)
         /\ UNCHANGED <<shards, sha, run, catalog, overlay, tree, genLines>>
         /\ Rest(disk', disk, {"synced", "digests"})
         /\ UNCHANGED <<disk.apps, disk.version, disk.entries, disk.bricks, disk.dirs,
                        disk.renders, disk.dispatch, disk.listing, disk.log>>
         /\ disk'.synced = disk.synced \cup (catalog.apps \cap DOMAIN disk.renders)
         /\ disk'.digests = [a \in DOMAIN catalog.versions |-> disk.renders[a]]
<1> DEFINE e == syncFiles(disk, catalog)
<1>1. /\ pc = "buildsync" /\ pc' = "finish" /\ disk' = genChartDigests(e, catalog)
      /\ (changed' <=> changed \/ disk' # disk)
      /\ UNCHANGED <<shards, sha, run, catalog, overlay, tree, genLines>>
  BY DEF BuildSync, Write, Advances, latticeVars, ctxVars
<1>2. SamePass
  BY DEF BuildSync, loopVars, SamePass, Second, Third, Fourth, Fifth
<1>3. /\ Rest(e, disk, {"synced"})
      /\ e.synced = disk.synced \cup (catalog.apps \cap DOMAIN disk.renders)
  BY ContextTyped, BuildFields
<1> HIDE DEF e
<1>4. Record(e) /\ e.renders = disk.renders
  BY <1>3 DEF Rest, DiskFields
<1>5. /\ Rest(disk', e, {"digests"})
      /\ disk'.digests = [a \in DOMAIN catalog.versions |-> e.renders[a]]
  BY <1>1, <1>4, BuildFields
<1>6. Rest(disk', disk, {"synced", "digests"}) /\ disk'.synced = e.synced
  BY <1>3, <1>5 DEF Rest, DiskFields
<1>7. UNCHANGED <<disk.apps, disk.version, disk.entries, disk.bricks, disk.dirs,
                  disk.renders, disk.dispatch, disk.listing, disk.log>>
  BY <1>6 DEF Rest, DiskFields
<1> QED BY <1>1, <1>2, <1>3, <1>4, <1>5, <1>6, <1>7

(* The end of a pass writes the log.                                       *)
LEMMA AgainDoes ==
  ASSUME HatchTypes, Again
  PROVE  /\ pc = "finish" /\ pc' = "snapshot" /\ Changes
         /\ (Third' => Second) /\ (Fourth' => Third) /\ (Fifth' => Fourth)
         /\ UNCHANGED <<shards, sha, catalog, overlay>> /\ genLines' = NoLines
         /\ Rest(disk', disk, {"log"}) /\ disk'.log = genLines
         /\ UNCHANGED <<disk.apps, disk.version, disk.entries, disk.digests, disk.bricks,
                        disk.dirs, disk.renders, disk.dispatch, disk.synced, disk.listing>>
<1>1. /\ pc = "finish" /\ pc' = "snapshot" /\ Changes /\ iter' = iter + 1
      /\ UNCHANGED <<shards, sha, catalog, overlay>> /\ genLines' = NoLines
      /\ disk' = trackingFiles(disk, genLines)
  BY DEF Again, Finish, Return
<1>2. Rest(disk', disk, {"log"}) /\ disk'.log = genLines
  BY <1>1, ContextTyped, OtherFields
<1>3. UNCHANGED <<disk.apps, disk.version, disk.entries, disk.digests, disk.bricks,
                  disk.dirs, disk.renders, disk.dispatch, disk.synced, disk.listing>>
  BY <1>2 DEF Rest, DiskFields
<1> QED BY <1>1, <1>2, <1>3, NextPass

----------------------------------------------------------------------------
(* The apps and the generators                                             *)

(* What a load takes from the files.                                       *)
LEMMA LoadIs ==
  ASSUME NEW d
  PROVE  /\ Load(d).apps = d.apps /\ Load(d).digests = d.digests /\ Load(d).bricks = d.bricks
         /\ DOMAIN Load(d).versions = Entered(d)
         /\ \A a \in Entered(d) : Load(d).versions[a] = d.version[a]
BY DEF Load, Restrict, Entered

(* seedChartVersions takes no entry away.                                  *)
LEMMA EntriesGrow ==
  ASSUME HatchTypes, Seed, pc = "versions"
  PROVE  Entered(disk) \subseteq Entered(disk')
<1> SUFFICES ASSUME NEW a \in App, disk.entries[a] > 0 PROVE disk'.entries[a] > 0
  BY DEF Entered
<1>1. disk.entries[a] \in Nat
  BY ContextTyped DEF DiskTypes
<1>2. disk'.entries[a] = disk.entries[a] + 1 \/ disk'.entries[a] = disk.entries[a]
  BY VersionsDoes
<1> QED BY <1>1, <1>2, SMT

(* Only an entry gives a chart a version other than the first.             *)
LEMMA ZeroStep ==
  ASSUME HatchTypes, LinesInv, RunInv, ZeroInv, [Next]_vars
  PROVE  ZeroInv'
<1>0. Record(disk)
  BY ContextTyped
<1>1. ASSUME disk'.entries = disk.entries, disk'.version = disk.version PROVE ZeroInv'
  BY <1>1 DEF ZeroInv, Entered
<1>2. CASE Seed
  <2>1. CASE pc = "versions"
    <3>1. disk'.version = disk.version
      BY <1>2, <2>1, VersionsDoes
    <3> QED BY <1>2, <2>1, <3>1, EntriesGrow DEF ZeroInv
  <2> QED BY <1>1, <1>2, <2>1, DigestsDoes
<1>3. CASE Snapshot \/ \E g \in Step : PhaseA(g)
  BY <1>1, <1>3, SnapshotDoes, PhaseDoes
<1>4. CASE After
  BY <1>1, <1>4, DispatchDoes, TreeDoes, BuildDoes DEF After
<1>5. CASE Finish
  <2>1. Rest(disk', disk, {"log"})
    BY <1>0, <1>5, OtherFields DEF Finish
  <2> QED BY <1>1, <2>1 DEF Rest, DiskFields
<1>6. ASSUME NEW S \in SUBSET App, Declare(S) PROVE ZeroInv'
  <2> DEFINE gone == disk.apps \ S
  <2>1. /\ disk'.entries = Without(disk.entries, gone)
        /\ disk'.version = Without(disk.version, gone)
    BY <1>0, <1>6, DeclareFields
  <2> HIDE DEF gone
  <2> QED BY <2>1 DEF ZeroInv, Entered, Without
<1>7. ASSUME NEW b \in App, Bump(b) PROVE ZeroInv'
  <2>1. disk'.version = [disk.version EXCEPT ![b] = edits + 1]
    BY <1>0, <1>7, BumpFields
  <2>2. Rest(disk', disk, {"version", "note"})
    BY <1>0, <1>7, BumpFields
  <2>3. disk'.entries = disk.entries
    BY <2>2 DEF Rest, DiskFields
  <2>4. disk.entries[b] > 0 /\ disk.version \in [App -> Version]
    BY <1>7, ContextTyped DEF Bump, DiskTypes
  <2> QED BY <2>1, <2>3, <2>4 DEF ZeroInv, Entered
<1>8. CASE UNCHANGED vars
  BY <1>1, <1>8 DEF vars
<1>9. CASE LatticeBegin \/ LatticeWrite
  BY <1>1, <1>9, BeginMoves, WriteMoves
<1> QED BY <1>1, <1>2, <1>3, <1>4, <1>5, <1>6, <1>7, <1>8, <1>9, Steps, StartMoves,
         ReloadMoves, EndedMoves DEF Before, User

(* A catalog that was just loaded is up to date.                           *)
LEMMA LoadAgrees ==
  ASSUME ZeroInv
  PROVE  Agrees(Load(disk), disk)
BY LoadIs DEF ZeroInv, Agrees

(* No step of a hatch left alone makes the catalog differ from the files   *)
(* but in entries it lacks.                                                *)
LEMMA AppsStep ==
  ASSUME HatchTypes, LinesInv, MergeInv, ShaInv, ZeroInv, AppsInv, [Next]_vars
  PROVE  AppsInv'
<1> SUFFICES ASSUME Alone' PROVE AppsInv'
  BY DEF AppsInv
<1>1. ASSUME Alone, disk'.apps = disk.apps, disk'.entries = disk.entries,
             disk'.version = disk.version, catalog' = catalog, overlay' \in {overlay, disk.apps}
      PROVE  AppsInv'
  BY <1>1 DEF AppsInv, Agrees, Entered
<1>2. ASSUME disk' = disk, catalog' = Load(disk), overlay' = disk.apps PROVE AppsInv'
  BY <1>2, LoadIs, LoadAgrees DEF AppsInv
<1>3. CASE Alone /\ Seed
  <2>1. CASE pc = "versions"
    <3>1. UNCHANGED <<disk.apps, disk.version, catalog, overlay>>
      BY <1>3, <2>1, VersionsDoes
    <3> QED BY <1>3, <2>1, <3>1, EntriesGrow DEF AppsInv, Agrees
  <2> QED BY <1>1, <1>3, <2>1, DigestsDoes
<1>4. CASE Alone /\ UNCHANGED vars
  BY <1>1, <1>4 DEF vars, ctxVars
<1>5. CASE Alone /\ (LatticeBegin \/ LatticeWrite)
  BY <1>1, <1>5, BeginDoes, WriteDoes
<1>6. CASE Alone /\ (Snapshot \/ \E g \in Step : PhaseA(g))
  BY <1>1, <1>6, SnapshotDoes, PhaseDoes
<1>7. CASE Alone /\ (DispatchWorker \/ SpecLattice \/ BuildSync \/ Again)
  BY <1>1, <1>7, DispatchDoes, TreeDoes, BuildDoes, AgainDoes
<1> QED BY <1>2, <1>3, <1>4, <1>5, <1>6, <1>7, AloneSteps, StartMoves, ReloadDoes

(* A generator of Phase A makes its own files and keeps the others.        *)
LEMMA PhaseMakes ==
  ASSUME HatchTypes, LinesInv, AppsInv, Alone, NEW g \in Step, PhaseA(g), NEW left,
         Made(disk, left)
  PROVE  Made(disk', left \ {g})
<1>1. overlay = disk.apps /\ Agrees(catalog, disk) /\ disk.apps \subseteq App
  BY ContextTyped DEF AppsInv, DiskTypes
<1>2. disk'.apps = disk.apps /\ disk'.version = disk.version
  BY PhaseDoes
<1>3. CASE /\ g = "infra" /\ disk'.renders = disk.renders
           /\ disk'.bricks = disk.bricks \cup {"infra"} /\ disk'.dirs = disk.dirs \cup {"infra"}
  BY <1>2, <1>3 DEF Made
<1>4. CASE /\ g = "bricks" /\ disk'.dirs = disk.dirs /\ disk'.renders = disk.renders
           /\ disk'.bricks = disk.bricks \cup overlay
  BY <1>1, <1>2, <1>4 DEF Made
<1>5. CASE /\ g = "render" /\ disk'.bricks = disk.bricks /\ disk'.dirs = disk.dirs \cup overlay
           /\ disk'.renders = Renders(disk, catalog, overlay)
  <2>1. /\ disk.apps \subseteq DOMAIN disk'.renders
        /\ \A a \in disk.apps : disk'.renders[a] = disk.version[a]
    BY <1>1, <1>5 DEF Renders, Agrees
  <2> QED BY <1>1, <1>2, <1>5, <2>1 DEF Made
<1> QED BY <1>3, <1>4, <1>5, PhaseDoes

(* When they are all made, it writes nothing.                              *)
LEMMA PhaseSame ==
  ASSUME HatchTypes, LinesInv, AppsInv, Alone, NEW g \in Step, PhaseA(g), Made(disk, {})
  PROVE  disk' = disk
<1>1. overlay = disk.apps /\ Agrees(catalog, disk) /\ disk.apps \subseteq App
  BY ContextTyped DEF AppsInv, DiskTypes
<1>2. disk.renders = [a \in DOMAIN disk.renders |-> disk.renders[a]]
  BY ContextTyped, PartialIs DEF DiskTypes
<1>3. /\ "infra" \in disk.bricks \cap disk.dirs /\ disk.apps \subseteq disk.bricks
      /\ disk.apps \subseteq disk.dirs /\ disk.apps \subseteq DOMAIN disk.renders
      /\ \A a \in disk.apps : disk.renders[a] = disk.version[a]
  BY DEF Made
<1>4. Renders(disk, catalog, overlay) = disk.renders
  <2>1. DOMAIN disk.renders \cup overlay = DOMAIN disk.renders
    BY <1>1, <1>3
  <2>2. ASSUME NEW a \in DOMAIN disk.renders
        PROVE  disk.renders[a] = IF a \notin overlay THEN disk.renders[a]
                                 ELSE IF a \in DOMAIN catalog.versions THEN catalog.versions[a]
                                 ELSE 0
    BY <1>1, <1>3 DEF Agrees
  <2> QED BY <1>2, <2>1, <2>2, SMT DEF Renders
<1>5. disk'.bricks = disk.bricks /\ disk'.dirs = disk.dirs /\ disk'.renders = disk.renders
  <2>1. /\ disk.bricks \cup {"infra"} = disk.bricks /\ disk.dirs \cup {"infra"} = disk.dirs
        /\ disk.bricks \cup overlay = disk.bricks /\ disk.dirs \cup overlay = disk.dirs
    BY <1>1, <1>3
  <2> QED BY <1>4, <2>1, PhaseDoes
<1>6. Rest(disk', disk, {"bricks", "dirs", "renders"}) /\ Record(disk)
  BY ContextTyped, PhaseDoes
<1> QED BY <1>5, <1>6, RestSame, SMT

(* The first pass makes what the generators make, and it stays.            *)
LEMMA MadeStep ==
  ASSUME HatchTypes, LinesInv, MergeInv, ShaInv, AppsInv, MadeInv, [Next]_vars
  PROVE  MadeInv'
<1> SUFFICES ASSUME Alone' PROVE MadeInv'
  BY DEF MadeInv
<1>1. ASSUME Alone, SamePass, catalog' = catalog,
             UNCHANGED <<disk.apps, disk.version, disk.bricks, disk.dirs, disk.renders>>,
             pc' # "phaseA", pc' # "reload", pc' \in Post => pc \in Post
      PROVE  MadeInv'
  <2>1. Made(disk, {}) => Made(disk', {})
    BY <1>1 DEF Made
  <2> QED BY <1>1, <2>1 DEF MadeInv, SamePass
<1>2. CASE \E m \in {"cycle", "validate"} : Start(m)
  <2>1. pc' = "snapshot" /\ ~Second'
    BY <1>2, StartMoves, FirstPass
  <2> QED BY <2>1 DEF MadeInv, Post
<1>3. CASE Alone /\ Seed
  <2>1. CASE pc = "versions"
    BY <1>1, <1>3, <2>1, VersionsDoes DEF Post
  <2>2. CASE pc # "versions"
    <3>1. /\ pc' = "phaseA" /\ gens' = Step /\ SamePass /\ catalog' = catalog
          /\ UNCHANGED <<disk.apps, disk.version, disk.bricks, disk.dirs, disk.renders>>
      BY <1>3, <2>2, DigestsDoes
    <3>2. Made(disk', gens')
      BY <3>1 DEF Made, Step
    <3>3. Made(disk, {}) => Made(disk', {})
      BY <3>1 DEF Made
    <3> QED BY <1>3, <3>1, <3>2, <3>3 DEF MadeInv, SamePass, Post
  <2> QED BY <2>1, <2>2
<1>4. ASSUME Alone, NEW g \in Step, PhaseA(g) PROVE MadeInv'
  <2>1. /\ pc = "phaseA" /\ gens' = gens \ {g} /\ SamePass /\ catalog' = catalog
        /\ pc' = IF gens' = {} THEN "reload" ELSE "phaseA"
    BY <1>4, PhaseDoes
  <2>2. Made(disk, gens)
    BY <1>4, <2>1 DEF MadeInv
  <2>3. Made(disk', gens')
    BY <1>4, <2>1, <2>2, PhaseMakes
  <2>4. Second => Made(disk, {}) /\ disk' = disk /\ catalog.bricks = disk.bricks
    BY <1>4, PhaseSame DEF MadeInv
  <2>5. pc' # "phaseA" => Made(disk', {}) /\ pc' = "reload"
    BY <2>1, <2>3
  <2>6. Second' => Made(disk', {}) /\ catalog'.bricks = disk'.bricks
    BY <2>1, <2>4 DEF SamePass
  <2> QED BY <2>1, <2>3, <2>5, <2>6 DEF MadeInv, Post
<1>5. CASE Alone /\ ReloadCatalog
  <2>1. pc = "reload" /\ pc' = "dispatch" /\ disk' = disk /\ catalog' = Load(disk)
    BY <1>5, ReloadDoes
  <2>2. Made(disk', {}) /\ catalog'.bricks = disk'.bricks
    BY <1>5, <2>1, LoadIs DEF MadeInv
  <2> QED BY <2>1, <2>2 DEF MadeInv
<1>6. CASE Alone /\ Again
  <2>1. /\ pc = "finish" /\ pc' = "snapshot" /\ catalog' = catalog
        /\ UNCHANGED <<disk.apps, disk.version, disk.bricks, disk.dirs, disk.renders>>
    BY <1>6, AgainDoes
  <2>2. Made(disk, {}) /\ catalog.bricks = disk.bricks
    BY <1>6, <2>1 DEF MadeInv, Post
  <2>3. Made(disk', {})
    BY <2>1, <2>2 DEF Made
  <2> QED BY <2>1, <2>2, <2>3 DEF MadeInv
<1>7. CASE Alone /\ UNCHANGED vars
  <2>1. UNCHANGED <<pc, edited, iter, disk, gens, catalog>>
    BY <1>7 DEF vars, ctxVars, loopVars, userVars
  <2> QED BY <2>1 DEF MadeInv, Alone, Second, Made
<1>8. CASE Alone /\ (LatticeBegin \/ LatticeWrite)
  BY <1>1, <1>8, BeginDoes, WriteDoes DEF Post
<1>9. CASE Alone /\ (Snapshot \/ DispatchWorker \/ SpecLattice \/ BuildSync)
  BY <1>1, <1>9, SnapshotDoes, DispatchDoes, TreeDoes, BuildDoes DEF Post
<1> QED BY <1>2, <1>3, <1>4, <1>5, <1>6, <1>7, <1>8, <1>9, AloneSteps

----------------------------------------------------------------------------
(* The dispatch.cue files, the log and the copies                          *)

(* No dispatch.cue is missing after the first pass.                        *)
LEMMA DispatchSame ==
  ASSUME HatchTypes, LinesInv, MadeInv, DoneInv, Alone, Second, DispatchWorker
  PROVE  disk' = disk
<1>1. catalog.bricks = disk.bricks /\ disk.bricks \cap disk.dirs \subseteq disk.dispatch
  BY DEF MadeInv, DoneInv
<1>2. disk.dispatch \cup (catalog.bricks \cap disk.dirs) = disk.dispatch
  BY <1>1
<1>3. /\ Rest(disk', disk, {"dispatch"}) /\ Record(disk)
      /\ disk'.dispatch = disk.dispatch
  BY <1>2, ContextTyped, DispatchDoes
<1> QED BY <1>3, RestSame, SMT

(* They and the copies are made in the first pass, and the log of the      *)
(* second is the one every later pass writes.                              *)
LEMMA DoneStep ==
  ASSUME HatchTypes, LinesInv, MergeInv, ShaInv, AppsInv, MadeInv, DoneInv, [Next]_vars
  PROVE  DoneInv'
<1> SUFFICES ASSUME Alone' PROVE DoneInv'
  BY DEF DoneInv
<1>0. (Fifth => Fourth) /\ (Fourth => Third) /\ (Third => Second)
  BY PassOrder
<1>1. ASSUME Alone, SamePass, genLines' = genLines,
             UNCHANGED <<disk.apps, disk.bricks, disk.dirs, disk.dispatch, disk.synced, disk.log>>,
             pc' \in Post => pc \in Post \ {"dispatch"}, pc' # "finish"
      PROVE  DoneInv'
  BY <1>1 DEF DoneInv, SamePass
<1>2. CASE \E m \in {"cycle", "validate"} : Start(m)
  <2>1. pc' = "snapshot" /\ ~Second' /\ ~Third'
    BY <1>2, StartMoves, FirstPass
  <2> QED BY <2>1 DEF DoneInv, Post
<1>3. ASSUME Alone, NEW g \in Step, PhaseA(g) PROVE DoneInv'
  <2>1. /\ SamePass /\ pc' \in {"phaseA", "reload"} /\ genLines'.stamped = genLines.stamped
    BY <1>3, PhaseDoes
  <2>2. Second => disk' = disk
    BY <1>3, PhaseSame DEF MadeInv
  <2> QED BY <1>0, <1>3, <2>1, <2>2 DEF DoneInv, SamePass, Post
<1>4. CASE Alone /\ ReloadCatalog
  <2>1. pc = "reload" /\ pc' = "dispatch" /\ disk' = disk /\ genLines' = genLines /\ SamePass
    BY <1>4, ReloadDoes
  <2>2. genLines.outputs = disk.apps
    <3>1. gens = {} /\ (gens = Step \/ genLines.outputs = overlay)
      BY <2>1 DEF LinesInv
    <3>2. overlay = disk.apps
      BY <1>4 DEF AppsInv
    <3> QED BY <3>1, <3>2 DEF Step
  <2> QED BY <1>4, <2>1, <2>2 DEF DoneInv, SamePass
<1>5. CASE Alone /\ DispatchWorker
  <2>1. /\ pc = "dispatch" /\ pc' = "tree" /\ SamePass
        /\ genLines'.outputs = genLines.outputs
        /\ genLines'.stamped = disk'.dispatch \ disk.dispatch
        /\ UNCHANGED <<disk.apps, disk.bricks, disk.dirs, disk.synced, disk.log>>
        /\ disk'.dispatch = disk.dispatch \cup (catalog.bricks \cap disk.dirs)
    BY <1>5, DispatchDoes
  <2>2. genLines.outputs = disk.apps /\ catalog.bricks = disk.bricks
    BY <1>5, <2>1 DEF DoneInv, MadeInv, Post
  <2>3. disk'.bricks \cap disk'.dirs \subseteq disk'.dispatch
    BY <2>1, <2>2
  <2>4. Second' => genLines'.stamped = {}
    <3>1. Second => disk' = disk
      BY <1>5, DispatchSame
    <3> QED BY <2>1, <3>1 DEF SamePass
  <2> QED BY <1>5, <2>1, <2>2, <2>3, <2>4 DEF DoneInv, SamePass
<1>6. CASE Alone /\ BuildSync
  <2>1. /\ pc = "buildsync" /\ pc' = "finish" /\ SamePass /\ genLines' = genLines
        /\ UNCHANGED <<disk.apps, disk.bricks, disk.dirs, disk.dispatch, disk.log>>
        /\ disk'.synced = disk.synced \cup (catalog.apps \cap DOMAIN disk.renders)
    BY <1>6, BuildDoes
  <2>2. disk.apps \subseteq disk'.synced
    <3>1. catalog.apps = disk.apps /\ Made(disk, {})
      BY <1>6, <2>1 DEF AppsInv, MadeInv, Post
    <3> QED BY <2>1, <3>1 DEF Made
  <2> QED BY <1>6, <2>1, <2>2 DEF DoneInv, SamePass, Post
<1>7. CASE Alone /\ Again
  <2>1. /\ pc = "finish" /\ pc' = "snapshot" /\ (Third' => Second) /\ genLines' = NoLines
        /\ UNCHANGED <<disk.apps, disk.bricks, disk.dirs, disk.dispatch, disk.synced>>
        /\ disk'.log = genLines
    BY <1>7, AgainDoes
  <2>2. /\ disk.bricks \cap disk.dirs \subseteq disk.dispatch /\ disk.apps \subseteq disk.synced
        /\ genLines.outputs = disk.apps /\ (Second => genLines.stamped = {})
    BY <1>7, <2>1 DEF DoneInv, Post
  <2>3. Second => genLines = [outputs |-> disk.apps, stamped |-> {}]
    BY <2>2 DEF LinesInv, Lines
  <2>4. genLines'.stamped = {}
    BY <2>1 DEF NoLines
  <2> QED BY <2>1, <2>2, <2>3, <2>4 DEF DoneInv, Post
<1>8. CASE Alone /\ UNCHANGED vars
  <2>1. UNCHANGED <<pc, edited, iter, disk, genLines>>
    BY <1>8 DEF vars, ctxVars, loopVars, userVars
  <2> QED BY <2>1 DEF DoneInv, Alone, Second, Third
<1>9. CASE Alone /\ (LatticeBegin \/ LatticeWrite)
  BY <1>1, <1>9, BeginDoes, WriteDoes DEF Post
<1>10. CASE Alone /\ (Snapshot \/ Seed \/ SpecLattice)
  BY <1>1, <1>10, SnapshotDoes, VersionsDoes, DigestsDoes, TreeDoes DEF Post
<1> QED BY <1>2, <1>3, <1>4, <1>5, <1>6, <1>7, <1>8, <1>9, <1>10, AloneSteps

----------------------------------------------------------------------------
(* The entries and the digests                                             *)

(* Digests of the build are not seeded again.                              *)
LEMMA DigestsSame ==
  ASSUME HatchTypes, Seed, pc # "versions", Digested(disk, catalog)
  PROVE  disk' = disk
<1>1. disk.digests = [a \in DOMAIN catalog.versions |-> disk.renders[a]]
  BY DEF Digested
<1>2. [a \in DOMAIN catalog.versions |->
         IF a \in DOMAIN disk.digests THEN disk.digests[a] ELSE NoDigest] = disk.digests
  BY <1>1
<1>3. Rest(disk', disk, {"digests"}) /\ Record(disk) /\ disk'.digests = disk.digests
  BY <1>2, ContextTyped, DigestsDoes
<1> QED BY <1>3, RestSame, SMT

(* When every app has an entry the catalog knows, none is seeded.          *)
LEMMA VersionsSame ==
  ASSUME HatchTypes, Seed, pc = "versions", catalog.apps = disk.apps,
         disk.apps \subseteq DOMAIN catalog.versions
  PROVE  disk' = disk
<1>1. disk.entries = [a \in App |-> disk.entries[a]]
  BY ContextTyped DEF DiskTypes
<1>2. disk'.entries = disk.entries
  BY <1>1, VersionsDoes
<1>3. Rest(disk', disk, {"entries"}) /\ Record(disk)
  BY ContextTyped, VersionsDoes
<1> QED BY <1>2, <1>3, RestSame, SMT

(* buildsync finds its files in place when it has written them.            *)
LEMMA BuildSame ==
  ASSUME HatchTypes, BuildSync, Digested(disk, catalog), catalog.apps \subseteq disk.synced
  PROVE  disk' = disk
<1>1. disk.synced \cup (catalog.apps \cap DOMAIN disk.renders) = disk.synced
  OBVIOUS
<1>2. disk'.synced = disk.synced /\ disk'.digests = disk.digests
  BY <1>1, BuildDoes DEF Digested
<1>3. Rest(disk', disk, {"synced", "digests"}) /\ Record(disk)
  BY ContextTyped, BuildDoes
<1> QED BY <1>2, <1>3, RestSame, SMT

(* In the second pass the digests are the ones of the build; in the third  *)
(* every app has its entry, which the catalog then knows.                  *)
LEMMA DigestStep ==
  ASSUME HatchTypes, LinesInv, MergeInv, ShaInv, AppsInv, MadeInv, DigestInv, [Next]_vars
  PROVE  DigestInv'
<1> SUFFICES ASSUME Alone' PROVE DigestInv'
  BY DEF DigestInv
<1>0. (Fourth => Third) /\ (Third => Second) /\ (Second => iter > 1)
  BY PassOrder
<1>1. ASSUME SamePass, ~Second, pc' # "finish" PROVE DigestInv'
  BY <1>0, <1>1 DEF DigestInv, SamePass
<1>2. ASSUME Alone, SamePass, UNCHANGED <<catalog, sha>>,
             UNCHANGED <<disk.apps, disk.entries, disk.digests, disk.renders>>,
             pc' # "finish", pc' # "buildsync", pc' \in Pre => pc \in Pre,
             pc' \in {"dispatch", "tree", "lattice"} => pc \in {"dispatch", "tree", "lattice"},
             pc' \in Post => pc \in Post,
             pc' \notin {"snapshot", "versions"} => pc \notin {"snapshot", "versions"}
      PROVE  DigestInv'
  BY <1>2 DEF DigestInv, SamePass, Digested, Entered
<1>3. CASE \E m \in {"cycle", "validate"} : Start(m)
  <2>1. pc' = "snapshot" /\ ~Second' /\ ~Third' /\ ~Fourth'
    BY <1>3, StartMoves, FirstPass
  <2> QED BY <2>1 DEF DigestInv
<1>4. CASE Alone /\ Seed /\ pc = "versions"
  <2>1. /\ pc' = "digests" /\ SamePass /\ catalog' = catalog
        /\ UNCHANGED <<disk.apps, disk.digests, disk.renders>>
    BY <1>4, VersionsDoes
  <2>2. ASSUME Third PROVE disk.apps \subseteq Entered(disk')
    <3>1. /\ DOMAIN catalog.digests \subseteq DOMAIN catalog.versions
          /\ DOMAIN catalog.versions \subseteq Entered(disk) /\ catalog.apps = disk.apps
      BY <1>4, <2>2 DEF DigestInv, AppsInv
    <3>2. ASSUME NEW a \in disk.apps, a \notin DOMAIN catalog.versions PROVE a \in Entered(disk')
      <4>1. a \in App /\ disk.entries[a] \in Nat
        BY ContextTyped DEF DiskTypes
      <4>2. disk'.entries[a] = disk.entries[a] + 1
        BY <1>4, <3>1, <3>2, <4>1, VersionsDoes
      <4>3. disk'.entries[a] > 0
        BY <4>1, <4>2, SMT
      <4> QED BY <4>1, <4>3 DEF Entered
    <3> QED BY <1>4, <3>1, <3>2, EntriesGrow
  <2>3. ASSUME Fourth PROVE disk' = disk
    <3>1. disk.apps \subseteq DOMAIN catalog.versions /\ catalog.apps = disk.apps
      BY <1>4, <2>3 DEF DigestInv, AppsInv
    <3> QED BY <1>4, <3>1, VersionsSame
  <2>4. Second => Digested(disk', catalog)
    BY <1>4, <2>1 DEF DigestInv, Digested, Pre
  <2> QED BY <1>0, <1>4, <2>1, <2>2, <2>3, <2>4 DEF DigestInv, SamePass, Pre, Post
<1>5. CASE Alone /\ Seed /\ pc # "versions"
  <2>1. pc = "digests" /\ pc' = "phaseA" /\ SamePass /\ UNCHANGED <<catalog, sha>>
    BY <1>5, DigestsDoes
  <2>2. Second => disk' = disk
    BY <1>5, <2>1, DigestsSame DEF DigestInv, Pre
  <2> QED BY <1>1, <1>2, <1>5, <2>1, <2>2 DEF Pre, Post
<1>6. ASSUME Alone, NEW g \in Step, PhaseA(g) PROVE DigestInv'
  <2>1. /\ pc = "phaseA" /\ pc' \in {"phaseA", "reload"} /\ SamePass
        /\ UNCHANGED <<catalog, sha>>
    BY <1>6, PhaseDoes
  <2>2. Second => disk' = disk
    BY <1>6, PhaseSame DEF MadeInv
  <2> QED BY <1>1, <1>2, <1>6, <2>1, <2>2 DEF Pre, Post
<1>7. CASE Alone /\ ReloadCatalog
  <2>1. /\ pc = "reload" /\ pc' = "dispatch" /\ disk' = disk /\ sha' = sha /\ SamePass
        /\ catalog' = Load(disk)
    BY <1>7, ReloadDoes
  <2>2. /\ DOMAIN catalog'.versions = Entered(disk) /\ catalog'.digests = disk.digests
    BY <2>1, LoadIs
  <2>3. ASSUME Second
        PROVE  /\ sha.catalog = catalog /\ Digested(disk, catalog)
               /\ DOMAIN catalog'.digests \subseteq DOMAIN catalog'.versions
    <3>1. sha.catalog = catalog
      BY <1>0, <2>1, <2>3 DEF ShaInv, Pre
    <3>2. Digested(disk, catalog)
      BY <1>7, <2>1, <2>3 DEF DigestInv, Pre
    <3>3. DOMAIN disk.digests = DOMAIN catalog.versions
      BY <3>2 DEF Digested
    <3>4. DOMAIN catalog.versions \subseteq Entered(disk)
      BY <1>7 DEF AppsInv
    <3> QED BY <2>2, <3>1, <3>2, <3>3, <3>4
  <2>4. Third => disk.apps \subseteq Entered(disk)
    BY <1>7, <2>1 DEF DigestInv
  <2> QED BY <1>0, <2>1, <2>2, <2>3, <2>4 DEF DigestInv, SamePass, Pre
<1>8. CASE Alone /\ (DispatchWorker \/ SpecLattice)
  BY <1>2, <1>8, DispatchDoes, TreeDoes DEF Pre, Post
<1>9. CASE Alone /\ LatticeBegin
  <2>1. /\ pc = "lattice" /\ SamePass /\ UNCHANGED <<sha, disk, catalog>>
        /\ \/ sha = buildLattice(disk, catalog, tree) /\ pc' = "buildsync"
           \/ pc' = "writing"
    BY <1>9, BeginDoes
  <2>2. CASE pc' = "writing"
    BY <1>2, <1>9, <2>1, <2>2 DEF Pre, Post
  <2>3. CASE sha = buildLattice(disk, catalog, tree) /\ pc' = "buildsync"
    <3>1. sha.catalog = catalog
      BY <2>3, NoteOf, SMT
    <3>2. Second => Digested(disk, catalog)
      BY <1>9, <2>1, <3>1 DEF DigestInv
    <3> QED BY <1>9, <2>1, <2>3, <3>2 DEF DigestInv, SamePass, Pre, Post
  <2> QED BY <2>1, <2>2, <2>3
<1>10. CASE Alone /\ LatticeWrite
  <2>1. /\ pc = "writing" /\ SamePass /\ UNCHANGED <<disk, catalog>>
        /\ pc' \in {"writing", "buildsync"} /\ (pc' = "buildsync" => changed')
    BY <1>10, WriteDoes
  <2> QED BY <1>10, <2>1 DEF DigestInv, SamePass, Pre, Post
<1>11. CASE Alone /\ BuildSync
  <2>1. /\ pc = "buildsync" /\ pc' = "finish" /\ SamePass /\ catalog' = catalog
        /\ UNCHANGED <<disk.apps, disk.entries, disk.renders>>
        /\ disk'.digests = [a \in DOMAIN catalog.versions |-> disk.renders[a]]
    BY <1>11, BuildDoes
  <2>2. Digested(disk', catalog') /\ Entered(disk') = Entered(disk)
    BY <2>1 DEF Digested, Entered
  <2> QED BY <1>11, <2>1, <2>2 DEF DigestInv, SamePass, Pre, Post
<1>12. CASE Alone /\ Again
  <2>1. /\ pc = "finish" /\ pc' = "snapshot" /\ (Third' => Second) /\ (Fourth' => Third)
        /\ catalog' = catalog
        /\ UNCHANGED <<disk.apps, disk.entries, disk.renders, disk.digests>>
    BY <1>12, AgainDoes
  <2>2. Digested(disk, catalog)
    BY <1>12, <2>1 DEF DigestInv
  <2>3. Digested(disk', catalog') /\ Entered(disk') = Entered(disk)
    BY <2>1, <2>2 DEF Digested, Entered
  <2> QED BY <1>12, <2>1, <2>3 DEF DigestInv, Pre, Post
<1>13. CASE Alone /\ UNCHANGED vars
  <2>1. UNCHANGED <<pc, edited, iter, disk, catalog, sha, changed>>
    BY <1>13 DEF vars, latticeVars, ctxVars, loopVars, userVars
  <2> QED BY <2>1 DEF DigestInv, Alone, Second, Third, Fourth, Digested, Entered
<1>14. CASE Alone /\ Snapshot
  BY <1>2, <1>14, SnapshotDoes DEF Pre, Post
<1> QED BY <1>3, <1>4, <1>5, <1>6, <1>7, <1>8, <1>9, <1>10, <1>11, <1>12, <1>13, <1>14,
         AloneSteps

----------------------------------------------------------------------------
(* What shows in the lattice                                               *)

(* A lattice shows the entries and the listing.                            *)
LEMMA BuiltShows ==
  ASSUME NEW d, NEW c, NEW t
  PROVE  /\ Shown(buildLattice(d, c, t)).entries = d.entries
         /\ Shown(buildLattice(d, c, t)).listing = d.listing
BY DEF Shown, buildLattice, enrichTree

(* From the second pass on, a pass that has changed a file has changed the *)
(* entries or the listing the lattice on disk shows.                       *)
LEMMA ShownStep ==
  ASSUME HatchTypes, LinesInv, MergeInv, ShaInv, AppsInv, MadeInv, DoneInv, DigestInv,
         ShownInv, [Next]_vars
  PROVE  ShownInv'
<1> SUFFICES ASSUME Alone' PROVE ShownInv'
  BY DEF ShownInv
<1>1. ASSUME ~Second', pc' \notin {"writing", "buildsync", "finish"} PROVE ShownInv'
  BY <1>1 DEF ShownInv
<1>2. ASSUME Alone, SamePass, sha' = sha, changed' <=> changed \/ disk' # disk,
             Second => disk' = disk,
             pc \in {"digests", "phaseA", "reload", "dispatch"},
             pc' \in {"phaseA", "reload", "dispatch", "tree"}
      PROVE  ShownInv'
  <2>1. CASE Second
    BY <1>2, <2>1 DEF ShownInv, SamePass, Pre
  <2> QED BY <1>1, <1>2, <2>1 DEF SamePass
<1>3. CASE \E m \in {"cycle", "validate"} : Start(m)
  BY <1>1, <1>3, StartMoves, FirstPass
<1>4. CASE Alone /\ Snapshot
  <2>1. pc = "snapshot" /\ pc' = "versions" /\ ~changed' /\ SamePass /\ UNCHANGED <<sha, disk>>
    BY <1>4, SnapshotDoes
  <2> QED BY <1>4, <2>1 DEF ShownInv, SamePass, Pre
<1>5. CASE Alone /\ Seed /\ pc = "versions"
  <2>1. /\ pc' = "digests" /\ SamePass /\ (changed' <=> changed \/ disk' # disk) /\ sha' = sha
        /\ disk'.listing = disk.listing /\ Rest(disk', disk, {"entries"}) /\ Record(disk)
    BY <1>5, ContextTyped, VersionsDoes
  <2>2. disk'.entries = disk.entries => disk' = disk
    BY <2>1, RestSame, SMT
  <2> QED BY <1>5, <2>1, <2>2 DEF ShownInv, SamePass, Pre
<1>6. CASE Alone /\ Seed /\ pc # "versions"
  <2>1. /\ pc = "digests" /\ pc' = "phaseA" /\ SamePass /\ sha' = sha
        /\ (changed' <=> changed \/ disk' # disk)
    BY <1>6, DigestsDoes
  <2>2. Second => disk' = disk
    BY <1>6, <2>1, DigestsSame DEF DigestInv, Pre
  <2> QED BY <1>2, <1>6, <2>1, <2>2
<1>7. ASSUME Alone, NEW g \in Step, PhaseA(g) PROVE ShownInv'
  <2>1. /\ pc = "phaseA" /\ pc' \in {"phaseA", "reload"} /\ SamePass /\ sha' = sha
        /\ (changed' <=> changed \/ disk' # disk)
    BY <1>7, PhaseDoes
  <2>2. Second => disk' = disk
    BY <1>7, PhaseSame DEF MadeInv
  <2> QED BY <1>2, <1>7, <2>1, <2>2
<1>8. CASE Alone /\ ReloadCatalog
  <2>1. /\ pc = "reload" /\ pc' = "dispatch" /\ SamePass /\ sha' = sha
        /\ (changed' <=> changed) /\ disk' = disk
    BY <1>8, ReloadDoes
  <2> QED BY <1>2, <1>8, <2>1
<1>9. CASE Alone /\ DispatchWorker
  <2>1. /\ pc = "dispatch" /\ pc' = "tree" /\ SamePass /\ sha' = sha
        /\ (changed' <=> changed \/ disk' # disk)
    BY <1>9, DispatchDoes
  <2>2. Second => disk' = disk
    BY <1>9, DispatchSame
  <2> QED BY <1>2, <1>9, <2>1, <2>2
<1>10. CASE Alone /\ SpecLattice
  <2>1. /\ pc = "tree" /\ pc' = "lattice" /\ SamePass /\ (changed' <=> changed \/ disk' # disk)
        /\ sha' = sha /\ disk'.entries = disk.entries
        /\ Rest(disk', disk, {"listing"}) /\ Record(disk)
    BY <1>10, ContextTyped, TreeDoes
  <2>2. disk'.listing = disk.listing => disk' = disk
    BY <2>1, RestSame, SMT
  <2> QED BY <1>10, <2>1, <2>2 DEF ShownInv, SamePass, Pre
<1>11. CASE Alone /\ LatticeBegin
  <2>1. /\ pc' \in {"writing", "buildsync"} /\ disk' = disk
        /\ run'.lattice = buildLattice(disk, catalog, tree)
    BY <1>11, BeginDoes
  <2>2. /\ Shown(run'.lattice).entries = disk.entries
        /\ Shown(run'.lattice).listing = disk.listing
    BY <2>1, BuiltShows, SMT
  <2> QED BY <2>1, <2>2 DEF ShownInv, Pre
<1>12. CASE Alone /\ (LatticeWrite \/ BuildSync)
  <2>1. /\ pc \in {"writing", "buildsync"} /\ pc' \in {"writing", "buildsync", "finish"}
        /\ UNCHANGED <<disk.entries, disk.listing>> /\ run'.lattice = run.lattice
    BY <1>12, WriteDoes, BuildDoes
  <2> QED BY <1>12, <2>1 DEF ShownInv, Pre
<1>13. CASE Alone /\ Again
  <2>1. /\ pc = "finish" /\ pc' = "snapshot" /\ sha' = sha
        /\ UNCHANGED <<disk.entries, disk.listing>>
    BY <1>13, AgainDoes
  <2>2. sha = run.lattice
    BY <2>1 DEF MergeInv
  <2> QED BY <1>13, <2>1, <2>2 DEF ShownInv
<1>14. CASE Alone /\ UNCHANGED vars
  <2>1. UNCHANGED <<pc, edited, iter, disk, run, sha, changed>>
    BY <1>14 DEF vars, latticeVars, loopVars, userVars
  <2> QED BY <2>1 DEF ShownInv, Alone, Second
<1> QED BY <1>3, <1>4, <1>5, <1>6, <1>7, <1>8, <1>9, <1>10, <1>11, <1>12, <1>13, <1>14,
         AloneSteps

----------------------------------------------------------------------------
(* The names of the shards                                                 *)

(* The files of a lattice of these apps and directories.                   *)
LEMMA BuiltNames ==
  ASSUME NamesByApps, NEW d, NEW c, NEW t, c.apps = d.apps, t.dirs = d.dirs
  PROVE  Files(buildLattice(d, c, t)) = Files(Bare(d))
<1>1. /\ buildLattice(d, c, t).catalog.apps = d.apps
      /\ DOMAIN buildLattice(d, c, t).tree.dirs = d.dirs
  BY DEF buildLattice, enrichTree
<1>2. Bare(d).catalog.apps = d.apps /\ DOMAIN Bare(d).tree.dirs = d.dirs
  BY DEF Bare
<1> QED BY <1>1, <1>2 DEF NamesByApps

(* A log like the one of the pass is not written again.                    *)
LEMMA LogSame ==
  ASSUME HatchTypes, LinesInv, DoneInv, Alone, Third, pc = "finish"
  PROVE  trackingFiles(disk, genLines) = disk
<1>1. /\ genLines.outputs = disk.apps /\ genLines.stamped = {}
      /\ disk.log = [outputs |-> disk.apps, stamped |-> {}]
  BY PassOrder DEF DoneInv, Post
<1>2. genLines = disk.log
  BY <1>1 DEF LinesInv, Lines
<1>3. /\ Rest(trackingFiles(disk, genLines), disk, {"log"}) /\ Record(disk)
      /\ trackingFiles(disk, genLines).log = genLines
  BY ContextTyped, OtherFields
<1> QED BY <1>2, <1>3, RestSame, SMT

(* A pass of a hatch left alone that was not the last has written its      *)
(* shards, from the third on: nothing else is left to change.              *)
LEMMA NamesStep ==
  ASSUME NamesByApps, HatchTypes, LinesInv, MergeInv, ShaInv, AppsInv, MadeInv, DoneInv,
         DigestInv, ShownInv, NamesInv, [Next]_vars
  PROVE  NamesInv'
<1> SUFFICES ASSUME Alone' PROVE NamesInv'
  BY DEF NamesInv
<1>0. (Fourth => Third) /\ (Third => Second)
  BY PassOrder
<1>1. ASSUME Alone, SamePass, shards' = shards, Fourth => UNCHANGED <<disk.apps, disk.dirs>>,
             pc # "writing", pc' \notin {"lattice", "writing", "buildsync", "finish"}
      PROVE  NamesInv'
  BY <1>1 DEF NamesInv, Named, Bare, SamePass
<1>2. CASE \E m \in {"cycle", "validate"} : Start(m)
  <2>1. pc' = "snapshot" /\ ~Second' /\ ~Fourth'
    BY <1>2, StartMoves, FirstPass
  <2> QED BY <2>1 DEF NamesInv
<1>3. CASE Alone /\ (Snapshot \/ Seed)
  BY <1>1, <1>3, SnapshotDoes, VersionsDoes, DigestsDoes
<1>4. ASSUME Alone, NEW g \in Step, PhaseA(g) PROVE NamesInv'
  <2>1. pc = "phaseA" /\ pc' \in {"phaseA", "reload"} /\ SamePass /\ shards' = shards
    BY <1>4, PhaseDoes
  <2>2. Second => disk' = disk
    BY <1>4, PhaseSame DEF MadeInv
  <2> QED BY <1>0, <1>1, <1>4, <2>1, <2>2
<1>5. CASE Alone /\ (ReloadCatalog \/ DispatchWorker)
  BY <1>1, <1>5, ReloadDoes, DispatchDoes
<1>6. CASE Alone /\ SpecLattice
  <2>1. /\ pc = "tree" /\ pc' = "lattice" /\ SamePass /\ shards' = shards
        /\ tree' = Listing(disk) /\ UNCHANGED <<disk.apps, disk.dirs>>
    BY <1>6, TreeDoes
  <2>2. tree'.dirs = disk'.dirs
    BY <2>1 DEF Listing
  <2> QED BY <1>6, <2>1, <2>2 DEF NamesInv, Named, Bare, SamePass
<1>7. CASE Alone /\ LatticeBegin
  <2>1. /\ pc = "lattice" /\ SamePass /\ (changed' <=> changed)
        /\ UNCHANGED <<shards, disk>> /\ run'.lattice = buildLattice(disk, catalog, tree)
        /\ \/ sha = buildLattice(disk, catalog, tree) /\ pc' = "buildsync"
           \/ pc' = "writing"
    BY <1>7, BeginDoes
  <2>2. Files(run'.lattice) = Files(Bare(disk))
    <3>1. catalog.apps = disk.apps /\ tree.dirs = disk.dirs
      BY <1>7, <2>1 DEF AppsInv, NamesInv
    <3> QED BY <2>1, <3>1, BuiltNames
  <2>3. ASSUME Second, changed PROVE pc' # "buildsync"
    <3>1. Shown(sha).entries # disk.entries \/ Shown(sha).listing # disk.listing
      BY <1>7, <2>1, <2>3 DEF ShownInv
    <3> QED BY <2>1, <3>1, BuiltShows, SMT
  <2> QED BY <1>7, <2>1, <2>2, <2>3 DEF NamesInv, Named, SamePass
<1>8. CASE Alone /\ LatticeWrite
  <2>1. /\ pc = "writing" /\ run'.lattice = run.lattice /\ disk' = disk
        /\ pc' \in {"writing", "buildsync"}
        /\ pc' = "buildsync" => DOMAIN shards' = Files(run'.lattice)
    BY <1>8, WriteDoes
  <2>2. Files(run'.lattice) = Files(Bare(disk'))
    BY <1>8, <2>1 DEF NamesInv
  <2>3. pc' = "buildsync" => Named'
    BY <2>1, <2>2 DEF Named
  <2> QED BY <2>1, <2>2, <2>3 DEF NamesInv
<1>9. CASE Alone /\ BuildSync
  <2>1. /\ pc = "buildsync" /\ pc' = "finish" /\ SamePass /\ shards' = shards
        /\ (changed' <=> changed \/ disk' # disk) /\ UNCHANGED <<disk.apps, disk.dirs>>
    BY <1>9, BuildDoes
  <2>2. ASSUME Second, ~changed PROVE disk' = disk
    <3>1. Digested(disk, catalog) /\ catalog.apps = disk.apps /\ disk.apps \subseteq disk.synced
      BY <1>9, <2>1, <2>2 DEF DigestInv, AppsInv, DoneInv
    <3> QED BY <1>9, <3>1, BuildSame
  <2>3. Named => Named'
    BY <2>1 DEF Named, Bare
  <2> QED BY <1>9, <2>1, <2>2, <2>3 DEF NamesInv, SamePass
<1>10. CASE Alone /\ Again
  <2>1. /\ pc = "finish" /\ pc' = "snapshot" /\ (Fourth' => Third) /\ Changes
        /\ shards' = shards /\ UNCHANGED <<disk.apps, disk.dirs>>
    BY <1>10, AgainDoes
  <2>2. ASSUME Third PROVE Named
    <3>1. changed
      BY <1>10, <2>1, <2>2, LogSame DEF Changes, Advances
    <3> QED BY <1>0, <1>10, <2>1, <2>2, <3>1 DEF NamesInv
  <2>3. Named => Named'
    BY <2>1 DEF Named, Bare
  <2> QED BY <2>1, <2>2, <2>3 DEF NamesInv
<1>11. CASE Alone /\ UNCHANGED vars
  <2>1. UNCHANGED <<pc, edited, iter, disk, run, shards, tree, changed>>
    BY <1>11 DEF vars, latticeVars, ctxVars, loopVars, userVars
  <2> QED BY <2>1 DEF NamesInv, Named, Alone, Second, Fourth
<1> QED BY <1>2, <1>3, <1>4, <1>5, <1>6, <1>7, <1>8, <1>9, <1>10, <1>11, AloneSteps

----------------------------------------------------------------------------
(* The last passes                                                         *)

(* The listing of the shards that are named so is what the tree settles to.*)
LEMMA ListingIs ==
  ASSUME Named
  PROVE  Listing(disk) = Target(disk)
BY DEF Named, Listing, Target

(* The fourth pass changes nothing but the listing, the catalog it reloads *)
(* and the lattice; the fifth finds the lattice of the fourth.             *)
LEMMA SettledStep ==
  ASSUME HatchTypes, LinesInv, MergeInv, ShaInv, AppsInv, MadeInv, DoneInv, DigestInv,
         NamesInv, SettledInv, DigestInv', [Next]_vars
  PROVE  SettledInv'
<1> SUFFICES ASSUME Alone', Fourth' PROVE SettledInv'
  BY DEF SettledInv
<1>0. (Fifth => Fourth) /\ (Fourth => Third) /\ (Third => Second)
  BY PassOrder
<1>1. ASSUME Alone, Fourth, SamePass, UNCHANGED <<disk, catalog, sha>>,
             pc' \in Pre \cup {"tree"}, pc' = "tree" => pc \in Post, pc' # "snapshot",
             changed' => changed /\ pc # "snapshot"
      PROVE  SettledInv'
  BY <1>1 DEF SettledInv, SamePass, Pre, Post
<1>2. CASE \E m \in {"cycle", "validate"} : Start(m)
  BY <1>2, StartMoves, FirstPass
<1>3. CASE Alone /\ Snapshot
  <2>1. /\ pc' = "versions" /\ ~changed' /\ SamePass /\ UNCHANGED <<disk, catalog, sha>>
    BY <1>3, SnapshotDoes
  <2> QED BY <1>1, <1>3, <2>1 DEF SamePass, Pre
<1>4. CASE Alone /\ Seed /\ pc = "versions"
  <2>1. /\ pc' = "digests" /\ SamePass /\ (changed' <=> changed \/ disk' # disk)
        /\ UNCHANGED <<catalog, sha>>
    BY <1>4, VersionsDoes
  <2>2. disk' = disk
    <3>1. /\ catalog.apps = disk.apps /\ disk.apps \subseteq DOMAIN catalog.versions
      BY <1>4, <2>1 DEF AppsInv, DigestInv, SamePass
    <3> QED BY <1>4, <3>1, VersionsSame
  <2> QED BY <1>1, <1>4, <2>1, <2>2 DEF SamePass, Pre
<1>5. CASE Alone /\ Seed /\ pc # "versions"
  <2>1. /\ pc = "digests" /\ pc' = "phaseA" /\ SamePass /\ (changed' <=> changed \/ disk' # disk)
        /\ UNCHANGED <<catalog, sha>>
    BY <1>5, DigestsDoes
  <2>2. disk' = disk
    BY <1>5, <2>1, DigestsSame DEF SettledInv, SamePass
  <2> QED BY <1>1, <1>5, <2>1, <2>2 DEF SamePass, Pre
<1>6. ASSUME Alone, NEW g \in Step, PhaseA(g) PROVE SettledInv'
  <2>1. /\ pc = "phaseA" /\ pc' \in {"phaseA", "reload"} /\ SamePass
        /\ (changed' <=> changed \/ disk' # disk) /\ UNCHANGED <<catalog, sha>>
    BY <1>6, PhaseDoes
  <2>2. disk' = disk
    BY <1>0, <1>6, <2>1, PhaseSame DEF MadeInv, SamePass
  <2> QED BY <1>1, <1>6, <2>1, <2>2 DEF SamePass, Pre
<1>7. CASE Alone /\ ReloadCatalog
  <2>1. /\ pc = "reload" /\ pc' = "dispatch" /\ SamePass /\ catalog' = Load(disk)
        /\ (changed' <=> changed) /\ UNCHANGED <<disk, sha>>
    BY <1>7, ReloadDoes
  <2>2. DOMAIN catalog'.versions = DOMAIN catalog.versions
    BY <1>7, <2>1, LoadIs DEF AppsInv, DigestInv, SamePass
  <2>3. Digested(disk', catalog')
    BY <1>7, <2>1, <2>2 DEF SettledInv, Digested, SamePass
  <2>4. Fifth => catalog' = catalog
    BY <1>0, <1>7, <2>1 DEF SettledInv
  <2> QED BY <1>0, <1>7, <2>1, <2>3, <2>4 DEF SettledInv, SamePass
<1>8. CASE Alone /\ DispatchWorker
  <2>1. /\ pc = "dispatch" /\ pc' = "tree" /\ SamePass
        /\ (changed' <=> changed \/ disk' # disk) /\ UNCHANGED <<catalog, sha>>
    BY <1>8, DispatchDoes
  <2>2. disk' = disk
    BY <1>0, <1>8, <2>1, DispatchSame DEF SamePass
  <2> QED BY <1>1, <1>8, <2>1, <2>2 DEF SamePass, Post
<1>9. CASE Alone /\ SpecLattice
  <2>1. /\ pc = "tree" /\ pc' = "lattice" /\ SamePass /\ (changed' <=> changed \/ disk' # disk)
        /\ UNCHANGED <<catalog, sha>> /\ tree' = Listing(disk) /\ disk'.listing = Listing(disk)
        /\ Rest(disk', disk, {"listing"}) /\ Record(disk)
        /\ UNCHANGED <<disk.apps, disk.version, disk.entries, disk.digests, disk.bricks,
                       disk.dirs, disk.renders, disk.dispatch, disk.synced, disk.log>>
    BY <1>9, ContextTyped, TreeDoes
  <2>2. Fourth /\ Listing(disk) = Target(disk)
    BY <1>9, <2>1, ListingIs DEF NamesInv, SamePass
  <2>3. Target(disk') = Target(disk) /\ Load(disk') = Load(disk)
    BY <2>1 DEF Target, Bare, Load
  <2>4. Digested(disk', catalog')
    BY <1>9, <2>1, <2>2 DEF SettledInv, Digested
  <2>5. Fifth => disk' = disk /\ ~changed
    <3>1. Fifth => disk'.listing = disk.listing
      BY <1>9, <2>1, <2>2 DEF SettledInv
    <3>2. disk'.listing = disk.listing => disk' = disk
      BY <2>1, RestSame, SMT
    <3> QED BY <1>9, <2>1, <2>2, <3>1, <3>2 DEF SettledInv
  <2> QED BY <1>9, <2>1, <2>2, <2>3, <2>4, <2>5 DEF SettledInv, SamePass, Post
<1>10. CASE Alone /\ LatticeBegin
  <2>1. /\ pc = "lattice" /\ SamePass /\ (changed' <=> changed)
        /\ UNCHANGED <<sha, disk, catalog, tree>>
        /\ run'.lattice = buildLattice(disk, catalog, tree)
        /\ \/ pc' = "buildsync"
           \/ sha # buildLattice(disk, catalog, tree) /\ pc' = "writing"
    BY <1>10, BeginDoes
  <2>2. Fourth /\ tree = Target(disk)
    BY <1>10, <2>1 DEF SettledInv, SamePass
  <2>3. Fifth => pc' # "writing"
    BY <1>10, <2>1, <2>2 DEF SettledInv
  <2> QED BY <1>10, <2>1, <2>2, <2>3 DEF SettledInv, SamePass, Post
<1>11. CASE Alone /\ LatticeWrite
  <2>1. /\ pc = "writing" /\ SamePass /\ run'.lattice = run.lattice
        /\ UNCHANGED <<disk, catalog, tree>> /\ pc' \in {"writing", "buildsync"}
    BY <1>11, WriteDoes
  <2>2. ~Fifth
    BY <1>0, <1>11, <2>1 DEF SettledInv
  <2> QED BY <1>11, <2>1, <2>2 DEF SettledInv, SamePass, Post
<1>12. CASE Alone /\ BuildSync
  <2>1. /\ pc = "buildsync" /\ pc' = "finish" /\ SamePass
        /\ (changed' <=> changed \/ disk' # disk) /\ UNCHANGED <<sha, run, catalog, tree>>
    BY <1>12, BuildDoes
  <2>2. disk' = disk
    <3>1. Digested(disk, catalog) /\ catalog.apps = disk.apps /\ disk.apps \subseteq disk.synced
      BY <1>0, <1>12, <2>1 DEF SettledInv, AppsInv, DoneInv, SamePass
    <3> QED BY <1>12, <3>1, BuildSame
  <2> QED BY <1>12, <2>1, <2>2 DEF SettledInv, SamePass, Post
<1>13. CASE Alone /\ Again
  <2>1. /\ pc = "finish" /\ pc' = "snapshot" /\ (Fourth' => Third) /\ (Fifth' => Fourth)
        /\ UNCHANGED <<sha, catalog>> /\ disk' = trackingFiles(disk, genLines)
    BY <1>13, AgainDoes DEF Again, Finish
  <2>2. disk' = disk
    BY <1>13, <2>1, LogSame
  <2>3. Digested(disk', catalog')
    BY <1>0, <1>13, <2>1, <2>2 DEF DigestInv
  <2>4. Fifth' => /\ catalog = Load(disk) /\ disk.listing = Target(disk)
                  /\ sha = buildLattice(disk, catalog, Target(disk))
    BY <1>13, <2>1 DEF SettledInv, MergeInv, Post
  <2> QED BY <2>1, <2>2, <2>3, <2>4 DEF SettledInv, Post
<1>14. CASE Alone /\ UNCHANGED vars
  <2>1. UNCHANGED <<pc, edited, iter, disk, run, sha, catalog, tree, changed>>
    BY <1>14 DEF vars, latticeVars, ctxVars, loopVars, userVars
  <2> QED BY <2>1 DEF SettledInv, Alone, Fourth, Fifth
<1> QED BY <1>2, <1>3, <1>4, <1>5, <1>6, <1>7, <1>8, <1>9, <1>10, <1>11, <1>12, <1>13, <1>14,
         AloneSteps

----------------------------------------------------------------------------
(* The bound                                                               *)

AloneInv ==
  /\ RunInv /\ MergeInv /\ ShaInv /\ LinesInv /\ PlaceInv /\ ZeroInv /\ AppsInv
  /\ MadeInv /\ DoneInv /\ DigestInv /\ ShownInv /\ NamesInv /\ SettledInv

(* The invariant holds at first.                                           *)
LEMMA AloneInit ==
  Init => AloneInv /\ BoundSuffices
<1> SUFFICES ASSUME Init PROVE AloneInv /\ BoundSuffices
  OBVIOUS
<1>1. RunInv /\ ShaInv /\ LinesInv /\ PlaceInv
  BY SuccessInit DEF SuccessInv
<1>2. pc = "idle" /\ result = "none" /\ disk.version = [a \in App |-> 0]
  BY DEF Init
<1>3. ZeroInv
  BY <1>2 DEF ZeroInv
<1> QED BY <1>1, <1>2, <1>3, MergeInit
        DEF AloneInv, Alone, AppsInv, MadeInv, DoneInv, DigestInv, ShownInv, NamesInv,
            SettledInv, BoundSuffices

(* Every step keeps it.                                                    *)
LEMMA AloneStep ==
  ASSUME NamesByApps, HatchTypes, AloneInv, [Next]_vars
  PROVE  AloneInv'
<1>1. RunInv' /\ MergeInv' /\ ShaInv' /\ LinesInv' /\ PlaceInv'
  BY RunStep, MergeStep, ShaStep, LinesStep, PlaceStep DEF AloneInv
<1>2. ZeroInv' /\ AppsInv' /\ MadeInv' /\ DoneInv' /\ DigestInv'
  BY ZeroStep, AppsStep, MadeStep, DoneStep, DigestStep DEF AloneInv
<1>3. ShownInv' /\ NamesInv' /\ SettledInv'
  BY <1>2, ShownStep, NamesStep, SettledStep DEF AloneInv
<1> QED BY <1>1, <1>2, <1>3 DEF AloneInv

(* A fifth pass of a hatch left alone finds nothing to change.             *)
LEMMA BoundStep ==
  ASSUME HatchTypes, AloneInv, BoundSuffices, [Next]_vars
  PROVE  BoundSuffices'
<1>1. ASSUME result' # "limit" PROVE BoundSuffices'
  BY <1>1 DEF BoundSuffices
<1>2. ASSUME UNCHANGED result, pc # "idle" PROVE BoundSuffices'
  BY <1>1, <1>2 DEF AloneInv, PlaceInv
<1>3. CASE Finish
  <2>1. CASE Return("validated") \/ Return("idempotent")
    BY <1>1, <2>1 DEF Return
  <2>2. CASE UNCHANGED result
    BY <1>2, <1>3, <2>2, FinishMoves
  <2>3. CASE Changes /\ LastPass /\ Return("limit")
    <3> SUFFICES ASSUME ~edited', ~(maxIters' < MaxCycleIterations) PROVE FALSE
      BY DEF BoundSuffices
    <3>1. pc = "finish" /\ edited' = edited /\ maxIters' = maxIters
      BY <1>3, <2>3, FinishMoves DEF Return
    <3>2. Fifth
      <4>1. iter \in Int /\ maxIters \in Int
        BY LimitsPositive, SMT DEF HatchTypes, LoopTypes
      <4> QED BY <2>3, <3>1, <4>1, SMT DEF LastPass, Fifth, MaxCycleIterations
    <3>3. Alone /\ Fourth /\ Third
      BY <3>1, <3>2, PassOrder DEF Alone
    <3>4. ~changed
      BY <3>1, <3>2, <3>3 DEF AloneInv, SettledInv
    <3>5. trackingFiles(disk, genLines) = disk
      BY <3>1, <3>3, LogSame DEF AloneInv
    <3> QED BY <2>3, <3>4, <3>5 DEF Changes, Advances
  <2> QED BY <1>3, <2>1, <2>2, <2>3 DEF Finish
<1>4. CASE User
  BY <1>1, <1>2, <1>4, UserMoves
<1>5. CASE UNCHANGED vars
  BY <1>5 DEF vars, loopVars, userVars, BoundSuffices
<1>6. CASE \E m \in {"cycle", "validate"} : Start(m)
  BY <1>1, <1>6, StartMoves
<1>7. CASE Ended
  BY <1>1, <1>7, EndedMoves
<1>8. CASE LatticeBegin \/ LatticeWrite
  BY <1>2, <1>8 DEF LatticeBegin, LatticeWrite
<1> QED BY <1>2, <1>3, <1>4, <1>5, <1>6, <1>7, <1>8, Steps, BeforeMoves, ReloadMoves, AfterMoves
      DEF Pre

(* The passes MaxCycleIterations allows are enough, for any apps, edits    *)
(* and kills: a Cycle that gives up ran with a smaller limit, or somebody  *)
(* edited the workspace while it ran.  It is assumed that the names of the *)
(* shards go by the apps and the directories.                              *)
THEOREM FivePassesSuffice ==
  ASSUME NamesByApps
  PROVE  Spec => []BoundSuffices
<1>1. HatchTypes /\ AloneInv /\ BoundSuffices /\ [Next]_vars
        => HatchTypes' /\ AloneInv' /\ BoundSuffices'
  BY TypeStep, AloneStep, BoundStep
<1> QED BY <1>1, TypeInit, AloneInit, PTL DEF Spec
============================================================================
