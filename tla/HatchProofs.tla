---------------------------- MODULE HatchProofs ----------------------------
(***************************************************************************)
(* The types of Hatch; the proof that chart_versions.cue never gets two    *)
(* entries for one app; and the proof that the shards lattice.Run has      *)
(* written can be merged and give the lattice of the pass: for any set of  *)
(* apps, limit, number of edits and of kills, any division of the tree     *)
(* into shards and any choice of the shards that are compressed.           *)
(*                                                                         *)
(* The files are one record, so first come the fields each part of a pass  *)
(* writes; the types follow from them field by field.                      *)
(*                                                                         *)
(* seedChartVersions appends by what the catalog lacks, so the invariant   *)
(* relates the catalog in memory to the file: from the moment a catalog is *)
(* loaded until the next append, every entry of the file is known to it.   *)
(* Edits only take entries away; appending breaks the relation, and the    *)
(* reload in the middle of the pass, or the load of the next hatch, is     *)
(* what brings it back.                                                    *)
(*                                                                         *)
(* Splitting a lattice gives shards with distinct paths, whose files and   *)
(* their siblings (.json for .json.gz) are distinct too, and grafting them *)
(* gives the lattice back.  So writing one shard, and removing its sibling,*)
(* leaves the shards written before it, removing the stale files leaves    *)
(* them all, and after the last step the manifest, the digest and the      *)
(* files agree.  As long as no hatch is killed they go on agreeing, also   *)
(* for the passes that find their digest and write nothing.                *)
(***************************************************************************)
EXTENDS Hatch, TLAPS

\* The leaves are for Zenon, but for those that name another prover.
USE Zenon

----------------------------------------------------------------------------
(* The files as a record                                                   *)

DiskFields == {"apps", "note", "dirs", "entries", "version", "digests",
               "bricks", "renders", "dispatch", "synced", "listing", "log"}

Record(d) == d = [f \in DiskFields |-> d[f]]

(* What a part of a pass or an edit leaves of the files: all but the ones  *)
(* named.                                                                  *)
Rest(e, d, F) == Record(e) /\ \A f \in DiskFields \ F : e[f] = d[f]

(* seedChartVersions writes chart_versions.cue only.                       *)
LEMMA VersionsFields ==
  ASSUME NEW d, NEW c, Record(d)
  PROVE  /\ Rest(seedChartVersions(d, c), d, {"entries"})
         /\ seedChartVersions(d, c).entries =
              [a \in App |->
                 IF a \in c.apps \ (DOMAIN c.versions \cup DOMAIN c.digests)
                 THEN d.entries[a] + 1 ELSE d.entries[a]]
BY DEF Record, Rest, seedChartVersions, DiskFields

(* seedChartDigests writes gen-chart-digests.cue only.                     *)
LEMMA DigestsFields ==
  ASSUME NEW d, NEW c, Record(d)
  PROVE  /\ Rest(seedChartDigests(d, c), d, {"digests"})
         /\ \/ seedChartDigests(d, c).digests = d.digests
            \/ seedChartDigests(d, c).digests =
                 [a \in DOMAIN c.versions |->
                    IF a \in DOMAIN d.digests THEN d.digests[a]
                    ELSE NoDigest]
BY DEF Record, Rest, seedChartDigests, DiskFields

(* The generators of Phase A: the infrastructure's brick,                  *)
LEMMA InfraFields ==
  ASSUME NEW d, Record(d)
  PROVE  /\ Rest(infra(d), d, {"bricks", "dirs"})
         /\ infra(d).bricks = d.bricks \cup {"infra"}
         /\ infra(d).dirs = d.dirs \cup {"infra"}
BY DEF Record, Rest, infra, DiskFields

(* the bricks of the apps,                                                 *)
LEMMA BrickFields ==
  ASSUME NEW d, NEW apps, Record(d)
  PROVE  /\ Rest(genAppBricks(d, apps), d, {"bricks"})
         /\ genAppBricks(d, apps).bricks = d.bricks \cup apps
BY DEF Record, Rest, genAppBricks, DiskFields

(* and their renders.                                                      *)
Renders(d, c, apps) ==
  [a \in DOMAIN d.renders \cup apps |->
     IF a \notin apps THEN d.renders[a]
     ELSE IF a \in DOMAIN c.versions THEN c.versions[a] ELSE 0]

(* app.Run writes renders and their directories only.                      *)
LEMMA RenderFields ==
  ASSUME NEW d, NEW c, NEW apps, Record(d)
  PROVE  /\ Rest(genApp(d, c, apps), d, {"dirs", "renders"})
         /\ genApp(d, c, apps).dirs = d.dirs \cup apps
         /\ genApp(d, c, apps).renders = Renders(d, c, apps)
BY DEF Record, Rest, genApp, DiskFields, Renders

(* dispatchworker, speclattice and the log.                                *)
LEMMA OtherFields ==
  ASSUME NEW d, NEW c, NEW lines, Record(d)
  PROVE  /\ Rest(dispatchworker(d, c), d, {"dispatch"})
         /\ dispatchworker(d, c).dispatch = d.dispatch \cup (c.bricks \cap d.dirs)
         /\ Rest(speclattice(d), d, {"listing"})
         /\ speclattice(d).listing = Listing(d)
         /\ Rest(trackingFiles(d, lines), d, {"log"})
         /\ trackingFiles(d, lines).log = lines
<1>1. /\ Rest(dispatchworker(d, c), d, {"dispatch"})
      /\ dispatchworker(d, c).dispatch = d.dispatch \cup (c.bricks \cap d.dirs)
  BY DEF Record, Rest, dispatchworker, DiskFields
<1>2. /\ Rest(speclattice(d), d, {"listing"})
      /\ speclattice(d).listing = Listing(d)
  BY DEF Record, Rest, speclattice, DiskFields
<1>3. /\ Rest(trackingFiles(d, lines), d, {"log"})
      /\ trackingFiles(d, lines).log = lines
  BY DEF Record, Rest, trackingFiles, DiskFields
<1> QED BY <1>1, <1>2, <1>3

(* The two parts of buildsync.                                             *)
LEMMA BuildFields ==
  ASSUME NEW d, NEW c, Record(d)
  PROVE  /\ Rest(syncFiles(d, c), d, {"synced"})
         /\ syncFiles(d, c).synced = d.synced \cup (c.apps \cap DOMAIN d.renders)
         /\ Rest(genChartDigests(d, c), d, {"digests"})
         /\ genChartDigests(d, c).digests = [a \in DOMAIN c.versions |-> d.renders[a]]
<1>1. /\ Rest(syncFiles(d, c), d, {"synced"})
      /\ syncFiles(d, c).synced = d.synced \cup (c.apps \cap DOMAIN d.renders)
  BY DEF Record, Rest, syncFiles, DiskFields
<1>2. /\ Rest(genChartDigests(d, c), d, {"digests"})
      /\ genChartDigests(d, c).digests = [a \in DOMAIN c.versions |-> d.renders[a]]
  BY DEF Record, Rest, genChartDigests, DiskFields
<1> QED BY <1>1, <1>2

(* The user's two edits: which apps are declared,                          *)
Without(f, gone) == [a \in App |-> IF a \in gone THEN 0 ELSE f[a]]

(* Declaring apps changes these files, and the note, and no other.         *)
LEMMA DeclareFields ==
  ASSUME Record(disk), NEW S, Declare(S), NEW gone, gone = disk.apps \ S
  PROVE  /\ Record(disk')
         /\ UNCHANGED <<disk.digests, disk.listing, disk.log>>
         /\ disk'.apps = S /\ disk'.dirs = (disk.dirs \ gone) \cup S
         /\ disk'.bricks = disk.bricks \ gone
         /\ disk'.entries = Without(disk.entries, gone)
         /\ disk'.version = Without(disk.version, gone)
         /\ disk'.renders = [a \in DOMAIN disk.renders \ gone |-> disk.renders[a]]
         /\ disk'.dispatch = disk.dispatch \ gone /\ disk'.synced = disk.synced \ gone
         /\ disk'.note = IF Undo THEN 1 - disk.note ELSE edits + 1
BY DEF Record, Declare, Edit, DiskFields, Restrict, Without

(* and a bump, which touches the version of one app and the other file.    *)
LEMMA BumpFields ==
  ASSUME Record(disk), NEW b, Bump(b)
  PROVE  /\ Rest(disk', disk, {"version", "note"})
         /\ disk'.version = [disk.version EXCEPT ![b] = edits + 1]
         /\ disk'.note = IF Undo THEN 1 - disk.note ELSE edits + 1
BY DEF Record, Rest, Bump, Edit, DiskFields

----------------------------------------------------------------------------
(* Types                                                                   *)

(* The fields of the files.                                                *)
DiskTypes(d) ==
  /\ Record(d)
  /\ d.apps \subseteq App /\ d.note \in 0..MaxEdits
  /\ d.entries \in [App -> Nat] /\ d.version \in [App -> Version]
  /\ d.digests \in Partial(App, Version \cup {NoDigest})
  /\ d.bricks \subseteq Brick /\ d.dirs \subseteq Brick
  /\ d.renders \in Partial(App, Version)
  /\ d.dispatch \subseteq Brick /\ d.synced \subseteq App

CatalogTypes(c) ==
  /\ c.apps \subseteq App /\ c.bricks \subseteq Brick
  /\ c.versions \in Partial(App, Version)
  /\ c.digests \in Partial(App, Version \cup {NoDigest})

LoopTypes ==
  /\ mode \in {"cycle", "validate"}
  /\ maxIters \in Limits /\ iter \in 0..maxIters
  /\ pc \in {"idle", "snapshot", "versions", "digests", "phaseA", "reload",
             "dispatch", "tree", "lattice", "writing", "buildsync", "finish"}
  /\ gens \subseteq Step
  /\ snapshot \in BOOLEAN /\ changed \in BOOLEAN
  /\ result \in {"none", "idempotent", "limit", "validated", "error"}

UserTypes ==
  /\ edited \in BOOLEAN /\ edits \in 0..MaxEdits /\ kills \in 0..MaxKills
  /\ Undo => disk.note \in 0..1

HatchTypes ==
  /\ DiskTypes(disk) /\ CatalogTypes(catalog) /\ overlay \subseteq App
  /\ LoopTypes /\ UserTypes

(* The parts say what TypeOK says, and that an edit that is undone leaves  *)
(* one of two notes.                                                       *)
LEMMA TypeParts ==
  HatchTypes => TypeOK
BY DEF HatchTypes, DiskTypes, CatalogTypes, LoopTypes, UserTypes, TypeOK

(* The functions on a part of a set.                                       *)
LEMMA PartialIs ==
  ASSUME NEW S, NEW T, NEW f
  PROVE  f \in Partial(S, T) <=> DOMAIN f \subseteq S /\ f \in [DOMAIN f -> T]
BY DEF Partial

(* What a load gives is typed,                                             *)
LEMMA LoadTyped ==
  ASSUME NEW d, DiskTypes(d)
  PROVE  CatalogTypes(Load(d))
<1>1. Load(d).versions \in Partial(App, Version)
  BY PartialIs DEF Load, Restrict, DiskTypes
<1> QED BY <1>1 DEF Load, DiskTypes, CatalogTypes

(* and so is the catalog there is before it.                               *)
LEMMA NoCatalogTyped ==
  CatalogTypes(NoCatalog)
<1>1. Empty \in Partial(App, Version) /\ Empty \in Partial(App, Version \cup {NoDigest})
  BY PartialIs DEF Empty
<1> QED BY <1>1 DEF NoCatalog, CatalogTypes

(* Files that differ from typed ones in typed fields.                      *)
LEMMA RestTyped ==
  ASSUME NEW d, NEW e, NEW F, DiskTypes(d), Rest(e, d, F),
         "apps" \notin F, "note" \notin F, "version" \notin F,
         "entries" \in F => e.entries \in [App -> Nat],
         "digests" \in F => e.digests \in Partial(App, Version \cup {NoDigest}),
         "bricks" \in F => e.bricks \subseteq Brick,
         "dirs" \in F => e.dirs \subseteq Brick,
         "renders" \in F => e.renders \in Partial(App, Version),
         "dispatch" \in F => e.dispatch \subseteq Brick,
         "synced" \in F => e.synced \subseteq App
  PROVE  DiskTypes(e)
<1>1. /\ e.apps = d.apps /\ e.note = d.note /\ e.version = d.version
      /\ "entries" \notin F => e.entries = d.entries
      /\ "digests" \notin F => e.digests = d.digests
      /\ "bricks" \notin F => e.bricks = d.bricks
      /\ "dirs" \notin F => e.dirs = d.dirs
      /\ "renders" \notin F => e.renders = d.renders
      /\ "dispatch" \notin F => e.dispatch = d.dispatch
      /\ "synced" \notin F => e.synced = d.synced
  BY DEF Rest, DiskFields
<1> QED BY <1>1 DEF DiskTypes, Rest

(* Each part of a pass keeps the types of the files, with whatever catalog *)
(* and apps it goes by.                                                    *)
LEMMA PartsTyped ==
  ASSUME NEW d, NEW c, NEW apps, NEW lines,
         DiskTypes(d), CatalogTypes(c), apps \subseteq App
  PROVE  /\ DiskTypes(seedChartVersions(d, c))
         /\ DiskTypes(seedChartDigests(d, c))
         /\ DiskTypes(infra(d)) /\ DiskTypes(genAppBricks(d, apps))
         /\ DiskTypes(genApp(d, c, apps))
         /\ DiskTypes(dispatchworker(d, c)) /\ DiskTypes(speclattice(d))
         /\ DiskTypes(trackingFiles(d, lines)) /\ DiskTypes(syncFiles(d, c))
         /\ Built(d, c) => DiskTypes(genChartDigests(d, c))
<1>0. /\ Record(d) /\ d.entries \in [App -> Nat]
      /\ d.bricks \subseteq Brick /\ d.dirs \subseteq Brick
      /\ d.dispatch \subseteq Brick /\ d.synced \subseteq App
      /\ App \subseteq Brick /\ "infra" \in Brick
      /\ c.apps \subseteq App /\ c.bricks \subseteq Brick
  BY DEF DiskTypes, CatalogTypes, Brick
<1>1. DiskTypes(seedChartVersions(d, c))
  <2>1. seedChartVersions(d, c).entries \in [App -> Nat]
    <3> DEFINE new == [a \in App |->
                        IF a \in c.apps \ (DOMAIN c.versions \cup DOMAIN c.digests)
                        THEN d.entries[a] + 1 ELSE d.entries[a]]
    <3>1. seedChartVersions(d, c).entries = new
      BY <1>0, VersionsFields, SMT
    <3>2. new \in [App -> Nat]
      BY <1>0, SMT
    <3> QED BY <3>1, <3>2
  <2> QED BY <1>0, <2>1, VersionsFields, RestTyped
<1>2. DiskTypes(seedChartDigests(d, c))
  <2>1. DOMAIN c.versions \subseteq App
    BY PartialIs DEF CatalogTypes
  <2>2. \A a \in DOMAIN d.digests : d.digests[a] \in Version \cup {NoDigest}
    BY PartialIs, SMT DEF DiskTypes
  <2>3. [a \in DOMAIN c.versions |->
           IF a \in DOMAIN d.digests THEN d.digests[a] ELSE NoDigest]
          \in Partial(App, Version \cup {NoDigest})
    BY <2>1, <2>2, PartialIs
  <2>4. seedChartDigests(d, c).digests \in Partial(App, Version \cup {NoDigest})
    BY <1>0, <2>3, DigestsFields DEF DiskTypes
  <2> QED BY <1>0, <2>4, DigestsFields, RestTyped
<1>3. DiskTypes(infra(d))
  <2>1. infra(d).bricks \subseteq Brick /\ infra(d).dirs \subseteq Brick
    <3>1. /\ infra(d).bricks = d.bricks \cup {"infra"}
          /\ infra(d).dirs = d.dirs \cup {"infra"}
      BY <1>0, InfraFields
    <3> QED BY <1>0, <3>1
  <2> QED BY <1>0, <2>1, InfraFields, RestTyped
<1>4. DiskTypes(genAppBricks(d, apps))
  <2>1. genAppBricks(d, apps).bricks \subseteq Brick
    <3>1. genAppBricks(d, apps).bricks = d.bricks \cup apps
      BY <1>0, BrickFields
    <3> QED BY <1>0, <3>1
  <2> QED BY <1>0, <2>1, BrickFields, RestTyped
<1>5. DiskTypes(genApp(d, c, apps))
  <2>1. genApp(d, c, apps).dirs \subseteq Brick
    <3>1. genApp(d, c, apps).dirs = d.dirs \cup apps
      BY <1>0, RenderFields
    <3> QED BY <1>0, <3>1
  <2>2. /\ \A a \in DOMAIN c.versions : c.versions[a] \in Version
        /\ \A a \in DOMAIN d.renders : d.renders[a] \in Version
        /\ DOMAIN d.renders \subseteq App /\ 0 \in Version
    BY PartialIs, BoundsNatural, SMT DEF CatalogTypes, DiskTypes, Version
  <2>3. Renders(d, c, apps) \in Partial(App, Version)
    BY <2>2, PartialIs, SMT DEF Renders
  <2>4. genApp(d, c, apps).renders = Renders(d, c, apps)
    BY <1>0, RenderFields
  <2> QED BY <1>0, <2>1, <2>3, <2>4, RenderFields, RestTyped
<1>6. DiskTypes(dispatchworker(d, c))
  <2>1. dispatchworker(d, c).dispatch \subseteq Brick
    <3>1. dispatchworker(d, c).dispatch = d.dispatch \cup (c.bricks \cap d.dirs)
      BY <1>0, OtherFields
    <3> QED BY <1>0, <3>1
  <2> QED BY <1>0, <2>1, OtherFields, RestTyped
<1>7. DiskTypes(speclattice(d))
  BY <1>0, OtherFields, RestTyped
<1>8. DiskTypes(trackingFiles(d, lines))
  BY <1>0, OtherFields, RestTyped
<1>9. DiskTypes(syncFiles(d, c))
  <2>1. syncFiles(d, c).synced \subseteq App
    <3>1. syncFiles(d, c).synced = d.synced \cup (c.apps \cap DOMAIN d.renders)
      BY <1>0, BuildFields
    <3> QED BY <1>0, <3>1
  <2> QED BY <1>0, <2>1, BuildFields, RestTyped
<1>10. ASSUME Built(d, c) PROVE DiskTypes(genChartDigests(d, c))
  <2>1. /\ DOMAIN c.versions \subseteq App
        /\ \A a \in DOMAIN c.versions : d.renders[a] \in Version
    BY <1>10, PartialIs, SMT DEF CatalogTypes, DiskTypes, Built
  <2>2. [a \in DOMAIN c.versions |-> d.renders[a]] \in Partial(App, Version \cup {NoDigest})
    BY <2>1, PartialIs
  <2>3. genChartDigests(d, c).digests \in Partial(App, Version \cup {NoDigest})
    BY <1>0, <2>2, BuildFields
  <2> QED BY <1>0, <2>3, BuildFields, RestTyped
<1> QED BY <1>1, <1>2, <1>3, <1>4, <1>5, <1>6, <1>7, <1>8, <1>9, <1>10

(* buildsync copies files before it writes the digests; both leave the     *)
(* renders alone.                                                          *)
LEMMA BuildTyped ==
  ASSUME NEW d, NEW c, DiskTypes(d), CatalogTypes(c), Built(d, c)
  PROVE  DiskTypes(genChartDigests(syncFiles(d, c), c))
<1>1. DiskTypes(syncFiles(d, c))
  BY PartsTyped
<1>2. syncFiles(d, c).renders = d.renders
  <2>1. Rest(syncFiles(d, c), d, {"synced"})
    BY BuildFields DEF DiskTypes
  <2> QED BY <2>1 DEF Rest, DiskFields
<1>3. Built(syncFiles(d, c), c)
  BY <1>2 DEF Built
<1> QED BY <1>1, <1>3, PartsTyped

(* The fresh workspace.                                                    *)
LEMMA TypeInit ==
  Init => HatchTypes
<1> SUFFICES ASSUME Init PROVE HatchTypes
  OBVIOUS
<1>1. Record(disk)
  BY DEF Init, Record, DiskFields
<1>2. /\ disk.apps = {} /\ disk.note = 0 /\ disk.entries = [a \in App |-> 0]
      /\ disk.version = [a \in App |-> 0] /\ disk.digests = Empty
      /\ disk.bricks = {} /\ disk.dirs = {} /\ disk.renders = Empty
      /\ disk.dispatch = {} /\ disk.synced = {}
  BY DEF Init
<1>3. Empty \in Partial(App, Version) /\ Empty \in Partial(App, Version \cup {NoDigest})
  BY PartialIs DEF Empty
<1>4. DiskTypes(disk)
  BY <1>1, <1>2, <1>3, BoundsNatural, SMT DEF DiskTypes, Version
<1>5. CatalogTypes(catalog) /\ overlay \subseteq App
  BY NoCatalogTyped DEF Init
<1>6. LoopTypes
  <2>1. snapshot \in BOOLEAN /\ changed \in BOOLEAN
    BY DEF Init
  <2>2. /\ mode = "cycle" /\ maxIters \in Limits /\ iter = 0 /\ pc = "idle"
        /\ gens = {} /\ result = "none"
    BY DEF Init
  <2>3. maxIters \in 1..50
    BY <2>2, LimitsPositive
  <2> QED BY <2>1, <2>2, <2>3, SMT DEF LoopTypes
<1>7. UserTypes
  <2>1. edited \in BOOLEAN
    BY DEF Init
  <2>2. edits = 0 /\ kills = 0
    BY DEF Init
  <2> QED BY <1>2, <2>1, <2>2, BoundsNatural, SMT DEF UserTypes
<1> QED BY <1>4, <1>5, <1>6, <1>7 DEF HatchTypes

(* A step of hatch leaves what the user counts.                            *)
LEMMA UserStays ==
  ASSUME HatchTypes, DiskTypes(disk'), disk'.note = disk.note, UNCHANGED userVars
  PROVE  UserTypes'
BY DEF HatchTypes, UserTypes, userVars

(* The end of the process.                                                 *)
LEMMA ReturnTyped ==
  ASSUME HatchTypes, NEW r \in {"none", "idempotent", "limit", "validated", "error"}, Return(r)
  PROVE  CatalogTypes(catalog') /\ overlay' \subseteq App /\ LoopTypes'
<1>1. CatalogTypes(catalog') /\ overlay' \subseteq App
  BY NoCatalogTyped DEF Return
<1>2. snapshot' \in BOOLEAN /\ changed' \in BOOLEAN
  BY DEF Return
<1>3. /\ result' = r /\ pc' = "idle" /\ gens' = {} /\ iter' = 0
      /\ UNCHANGED <<mode, maxIters>>
  BY DEF Return
<1>4. maxIters \in 1..50
  BY LimitsPositive DEF HatchTypes, LoopTypes
<1>5. LoopTypes'
  BY <1>2, <1>3, <1>4, SMT DEF HatchTypes, LoopTypes
<1> QED BY <1>1, <1>5

(* The parts of a pass leave the user's own files alone.                   *)
LEMMA PartsNote ==
  ASSUME NEW d, NEW c, NEW apps, NEW lines, Record(d)
  PROVE  /\ seedChartVersions(d, c).note = d.note
         /\ seedChartDigests(d, c).note = d.note
         /\ infra(d).note = d.note /\ genAppBricks(d, apps).note = d.note
         /\ genApp(d, c, apps).note = d.note
         /\ dispatchworker(d, c).note = d.note /\ speclattice(d).note = d.note
         /\ trackingFiles(d, lines).note = d.note
         /\ genChartDigests(syncFiles(d, c), c).note = d.note
<1>1. ASSUME NEW e, NEW b, NEW F, "note" \notin F, Rest(e, b, F) PROVE e.note = b.note
  BY <1>1 DEF Rest, DiskFields
<1>2. seedChartVersions(d, c).note = d.note /\ seedChartDigests(d, c).note = d.note
  BY <1>1, VersionsFields, DigestsFields
<1>3. infra(d).note = d.note /\ genAppBricks(d, apps).note = d.note
  BY <1>1, InfraFields, BrickFields
<1>4. genApp(d, c, apps).note = d.note
  BY <1>1, RenderFields
<1>5. /\ dispatchworker(d, c).note = d.note /\ speclattice(d).note = d.note
      /\ trackingFiles(d, lines).note = d.note
  BY <1>1, OtherFields
<1>6. genChartDigests(syncFiles(d, c), c).note = d.note
  <2>1. Rest(syncFiles(d, c), d, {"synced"})
    BY BuildFields
  <2>2. Rest(genChartDigests(syncFiles(d, c), c), syncFiles(d, c), {"digests"})
    <3>1. Record(syncFiles(d, c))
      BY <2>1 DEF Rest
    <3> QED BY <3>1, BuildFields
  <2> QED BY <1>1, <2>1, <2>2
<1> QED BY <1>2, <1>3, <1>4, <1>5, <1>6

(* A step within a pass keeps the types when what it writes is typed.      *)
LEMMA PassTyped ==
  ASSUME HatchTypes, UNCHANGED <<mode, maxIters, iter, result, userVars>>,
         DiskTypes(disk'), disk'.note = disk.note,
         CatalogTypes(catalog'), overlay' \subseteq App,
         pc' \in {"idle", "snapshot", "versions", "digests", "phaseA", "reload",
             "dispatch", "tree", "lattice", "writing", "buildsync", "finish"},
         gens' \subseteq Step, snapshot' \in BOOLEAN, changed' \in BOOLEAN
  PROVE  HatchTypes'
<1>1. LoopTypes
  BY DEF HatchTypes
<1>2. LoopTypes'
  BY <1>1 DEF LoopTypes
<1> QED BY <1>2, UserStays DEF HatchTypes

(* WriteIfChanged.                                                         *)
LEMMA WriteTyped ==
  ASSUME HatchTypes, NEW d, Write(d)
  PROVE  disk' = d /\ changed' \in BOOLEAN
BY DEF HatchTypes, LoopTypes, Write, Advances

(* The types of the catalog and of the flags, for a step that leaves them. *)
LEMMA ContextTyped ==
  ASSUME HatchTypes
  PROVE  /\ DiskTypes(disk) /\ Record(disk) /\ CatalogTypes(catalog)
         /\ overlay \subseteq App /\ gens \subseteq Step
         /\ snapshot \in BOOLEAN /\ changed \in BOOLEAN
BY DEF HatchTypes, LoopTypes, DiskTypes

(* The start of a hatch and of a pass.                                     *)
LEMMA StartTyped ==
  ASSUME HatchTypes, NEW m \in {"cycle", "validate"}, Start(m)
  PROVE  HatchTypes'
<1>1. CatalogTypes(catalog') /\ overlay' \subseteq App /\ DiskTypes(disk')
  <2>1. catalog' = Load(disk) /\ overlay' = disk.apps /\ disk' = disk
    BY DEF Start
  <2> QED BY <2>1, ContextTyped, LoadTyped DEF DiskTypes
<1>2. LoopTypes'
  <2>1. snapshot' \in BOOLEAN /\ changed' \in BOOLEAN
    BY ContextTyped DEF Start
  <2>2. /\ mode' = m /\ iter' = 1 /\ pc' = "snapshot" /\ result' = "none"
        /\ maxIters' = maxIters /\ gens' = gens
    BY DEF Start
  <2>3. maxIters \in Limits /\ maxIters \in 1..50 /\ gens \subseteq Step
    BY LimitsPositive DEF HatchTypes, LoopTypes
  <2> QED BY <2>1, <2>2, <2>3, SMT DEF LoopTypes
<1>3. UserTypes'
  <2>1. edited' \in BOOLEAN
    BY DEF Start
  <2>2. UNCHANGED <<edits, kills, disk>>
    BY DEF Start
  <2> QED BY <2>1, <2>2 DEF HatchTypes, UserTypes
<1> QED BY <1>1, <1>2, <1>3 DEF HatchTypes

(* Taking the mtimes keeps the types.                                      *)
LEMMA SnapshotTyped ==
  ASSUME HatchTypes, Snapshot
  PROVE  HatchTypes'
<1>1. snapshot' \in BOOLEAN /\ changed' \in BOOLEAN
  BY DEF Snapshot
<1>2. /\ UNCHANGED <<mode, maxIters, iter, result, userVars, disk, catalog, overlay, gens>>
      /\ pc' = "versions"
  BY DEF Snapshot, ctxVars
<1> QED BY <1>1, <1>2, ContextTyped, PassTyped

(* The seeds and the generators of Phase A.                                *)
LEMMA SeedTyped ==
  ASSUME HatchTypes, Seed
  PROVE  HatchTypes'
<1>1. UNCHANGED <<mode, maxIters, iter, snapshot, result, userVars, catalog, overlay>>
  BY DEF Seed, ctxVars, loopVars
<1>2. /\ \/ Write(seedChartVersions(disk, catalog)) /\ gens' = gens
         \/ Write(seedChartDigests(disk, catalog)) /\ gens' = Step
      /\ pc' \in {"digests", "phaseA"}
  BY DEF Seed
<1>3. /\ DiskTypes(disk') /\ disk'.note = disk.note /\ changed' \in BOOLEAN
      /\ gens' \subseteq Step
  BY <1>2, ContextTyped, WriteTyped, PartsTyped, PartsNote, SMT
<1> QED BY <1>1, <1>2, <1>3, ContextTyped, PassTyped

(* So does a generator of Phase A.                                         *)
LEMMA PhaseATyped ==
  ASSUME HatchTypes, NEW g \in Step, PhaseA(g)
  PROVE  HatchTypes'
<1>1. /\ UNCHANGED <<mode, maxIters, iter, snapshot, result, userVars, catalog, overlay>>
      /\ gens' = gens \ {g} /\ pc' \in {"reload", "phaseA"}
  BY DEF PhaseA, loopVars
<1>2. \/ Write(infra(disk)) \/ Write(genAppBricks(disk, overlay))
      \/ Write(genApp(disk, catalog, overlay))
  BY DEF PhaseA, Step
<1>3. DiskTypes(disk') /\ disk'.note = disk.note /\ changed' \in BOOLEAN
  BY <1>2, ContextTyped, WriteTyped, PartsTyped, PartsNote, SMT
<1> QED BY <1>1, <1>3, ContextTyped, PassTyped

(* The reload takes its catalog from the files.                            *)
LEMMA ReloadTyped ==
  ASSUME HatchTypes, ReloadCatalog
  PROVE  HatchTypes'
<1>1. /\ UNCHANGED <<mode, maxIters, iter, snapshot, result, userVars, disk, gens, changed>>
      /\ catalog' = Load(disk) /\ overlay' = disk.apps /\ pc' = "dispatch"
  BY DEF ReloadCatalog, loopVars
<1>2. CatalogTypes(catalog') /\ overlay' \subseteq App
  BY <1>1, ContextTyped, LoadTyped DEF DiskTypes
<1> QED BY <1>1, <1>2, ContextTyped, PassTyped

(* The files written after the reload.                                     *)
LEMMA PhaseBTyped ==
  ASSUME HatchTypes, DispatchWorker \/ SpecLattice
  PROVE  HatchTypes'
<1>1. /\ UNCHANGED <<mode, maxIters, iter, snapshot, result, userVars, catalog, gens>>
      /\ pc' \in {"tree", "lattice"} /\ overlay' \in {overlay, disk.apps}
  BY DEF DispatchWorker, SpecLattice, loopVars
<1>2. Write(dispatchworker(disk, catalog)) \/ Write(speclattice(disk))
  BY DEF DispatchWorker, SpecLattice
<1>3. DiskTypes(disk') /\ disk'.note = disk.note /\ changed' \in BOOLEAN
  BY <1>2, ContextTyped, WriteTyped, PartsTyped, PartsNote, SMT
<1>4. overlay' \subseteq App
  BY <1>1, ContextTyped DEF DiskTypes
<1> QED BY <1>1, <1>3, <1>4, ContextTyped, PassTyped

(* lattice.Run writes none of these files.                                 *)
LEMMA LatticeTyped ==
  ASSUME HatchTypes, LatticeBegin \/ LatticeWrite
  PROVE  HatchTypes'
<1>1. /\ UNCHANGED <<mode, maxIters, iter, snapshot, result, userVars, catalog,
                     overlay, disk, gens>>
      /\ pc' \in {"buildsync", "writing"}
  BY DEF LatticeBegin, LatticeWrite, loopVars, ctxVars
<1>2. changed' \in BOOLEAN
  BY ContextTyped DEF LatticeBegin, LatticeWrite, Advances
<1> QED BY <1>1, <1>2, ContextTyped, PassTyped

(* buildsync keeps the types.                                              *)
LEMMA BuildSyncTyped ==
  ASSUME HatchTypes, BuildSync
  PROVE  HatchTypes'
<1>1. /\ UNCHANGED <<mode, maxIters, iter, snapshot, result, userVars, catalog,
                     overlay, gens>>
      /\ pc' = "finish" /\ Built(disk, catalog)
      /\ Write(genChartDigests(syncFiles(disk, catalog), catalog))
  BY DEF BuildSync, BuildPasses, loopVars, ctxVars
<1>2. DiskTypes(disk') /\ disk'.note = disk.note /\ changed' \in BOOLEAN
  <2>1. disk' = genChartDigests(syncFiles(disk, catalog), catalog) /\ changed' \in BOOLEAN
    BY <1>1, WriteTyped
  <2>2. disk'.note = disk.note
    BY <2>1, ContextTyped, PartsNote
  <2>3. DiskTypes(disk')
    BY <1>1, <2>1, ContextTyped, BuildTyped
  <2> QED BY <2>1, <2>2, <2>3
<1> QED BY <1>1, <1>2, ContextTyped, PassTyped

(* The ways a hatch ends.                                                  *)
LEMMA FailTyped ==
  ASSUME HatchTypes, RenderFails \/ BuildFails \/ Killed
  PROVE  HatchTypes'
<1>1. Return("error") /\ disk' = disk
  BY DEF RenderFails, BuildFails, Killed
<1>2. CatalogTypes(catalog') /\ overlay' \subseteq App /\ LoopTypes'
  BY <1>1, ReturnTyped
<1>3. UserTypes'
  <2>1. CASE RenderFails \/ BuildFails
    <3>1. UNCHANGED userVars
      BY <2>1 DEF RenderFails, BuildFails
    <3> QED BY <1>1, <3>1, ContextTyped, UserStays
  <2>2. CASE Killed
    <3>1. kills < MaxKills /\ kills' = kills + 1 /\ UNCHANGED <<edited, edits>>
      BY <2>2 DEF Killed
    <3>2. kills' \in 0..MaxKills
      BY <3>1, BoundsNatural, SMT DEF HatchTypes, UserTypes
    <3> QED BY <1>1, <3>1, <3>2 DEF HatchTypes, UserTypes
  <2> QED BY <2>1, <2>2
<1> QED BY <1>1, <1>2, <1>3, ContextTyped DEF HatchTypes

(* The end of a pass keeps the types.                                      *)
LEMMA FinishTyped ==
  ASSUME HatchTypes, Finish
  PROVE  HatchTypes'
<1>1. disk' = trackingFiles(disk, genLines) /\ UNCHANGED userVars
  BY DEF Finish
<1>2. DiskTypes(disk') /\ disk'.note = disk.note
  BY <1>1, ContextTyped, PartsTyped, PartsNote
<1>3. UserTypes'
  BY <1>1, <1>2, UserStays
<1>4. CatalogTypes(catalog') /\ overlay' \subseteq App /\ LoopTypes'
  <2>1. CASE \E r \in {"validated", "idempotent", "limit"} : Return(r)
    BY <2>1, ReturnTyped
  <2>2. CASE /\ ~LastPass /\ pc' = "snapshot" /\ iter' = iter + 1
             /\ snapshot' = FALSE /\ changed' = FALSE
             /\ UNCHANGED <<catalog, overlay, mode, maxIters, gens, result>>
    <3>1. snapshot' \in BOOLEAN /\ changed' \in BOOLEAN
      BY <2>2
    <3>2. /\ pc' = "snapshot" /\ iter' = iter + 1 /\ ~(iter >= maxIters)
          /\ UNCHANGED <<catalog, overlay, mode, maxIters, gens, result>>
      BY <2>2 DEF LastPass
    <3>3. maxIters \in 1..50
      BY LimitsPositive DEF HatchTypes, LoopTypes
    <3>4. iter' \in 0..maxIters'
      BY <3>2, <3>3, SMT DEF HatchTypes, LoopTypes
    <3>5. LoopTypes'
      BY <3>1, <3>2, <3>4 DEF HatchTypes, LoopTypes
    <3> QED BY <3>2, <3>5, ContextTyped
  <2> QED BY <2>1, <2>2 DEF Finish
<1> QED BY <1>2, <1>3, <1>4 DEF HatchTypes

(* The user's edits: what an edit does beside the files.                   *)
LEMMA EditTyped ==
  ASSUME HatchTypes, NEW d, Edit(d)
  PROVE  /\ CatalogTypes(catalog') /\ overlay' \subseteq App /\ LoopTypes'
         /\ edited' \in BOOLEAN /\ edits' \in 0..MaxEdits /\ edits' = edits + 1
         /\ edits \in Nat /\ kills' \in 0..MaxKills
<1>1. changed' \in BOOLEAN /\ edited' \in BOOLEAN
  BY DEF Edit
<1>2. /\ UNCHANGED <<mode, maxIters, iter, snapshot, pc, gens, kills, catalog, overlay>>
      /\ edits < MaxEdits /\ edits' = edits + 1 /\ result' \in {"none", result}
  BY DEF Edit, loopVars, ctxVars
<1>3. LoopTypes'
  BY <1>1, <1>2 DEF HatchTypes, LoopTypes
<1>4. edits' \in 0..MaxEdits /\ edits \in Nat
  BY <1>2, BoundsNatural, SMT DEF HatchTypes, UserTypes
<1> QED BY <1>1, <1>2, <1>3, <1>4 DEF HatchTypes, UserTypes

(* The note of an edit.                                                    *)
LEMMA NoteTyped ==
  ASSUME HatchTypes, edits + 1 \in 0..MaxEdits,
         disk'.note = IF Undo THEN 1 - disk.note ELSE edits + 1
  PROVE  disk'.note \in 0..MaxEdits /\ (Undo => disk'.note \in 0..1)
<1>1. /\ edits \in 0..MaxEdits /\ disk.note \in 0..MaxEdits
      /\ Undo => disk.note \in 0..1
  BY DEF HatchTypes, UserTypes, DiskTypes
<1>2. MaxEdits \in Nat /\ MaxEdits >= 1
  BY <1>1, BoundsNatural, SMT
<1> QED BY <1>1, <1>2, SMT

(* Declaring apps keeps the types.                                         *)
LEMMA DeclareTyped ==
  ASSUME HatchTypes, NEW S \in SUBSET App, Declare(S)
  PROVE  HatchTypes'
<1> DEFINE gone == disk.apps \ S
<1>1. /\ CatalogTypes(catalog') /\ overlay' \subseteq App /\ LoopTypes'
      /\ edited' \in BOOLEAN /\ edits' \in 0..MaxEdits /\ edits' = edits + 1
      /\ edits \in Nat /\ kills' \in 0..MaxKills
  BY EditTyped DEF Declare
<1>2. Record(disk) /\ DiskTypes(disk)
  BY ContextTyped
<1>3. disk'.note \in 0..MaxEdits /\ (Undo => disk'.note \in 0..1)
  BY <1>1, <1>2, DeclareFields, NoteTyped
<1>4. Record(disk') /\ disk'.apps \subseteq App
  <2>1. Record(disk') /\ disk'.apps = S
    BY <1>2, DeclareFields
  <2> QED BY <2>1
<1>5. disk'.entries \in [App -> Nat] /\ disk'.version \in [App -> Version]
  <2>1. /\ disk.entries \in [App -> Nat] /\ disk.version \in [App -> Version]
        /\ 0 \in Version
    BY <1>2, BoundsNatural, SMT DEF DiskTypes, Version
  <2>2. /\ disk'.entries = Without(disk.entries, gone)
        /\ disk'.version = Without(disk.version, gone)
    BY <1>2, DeclareFields
  <2> QED BY <2>1, <2>2, SMT DEF Without
<1>6. disk'.digests \in Partial(App, Version \cup {NoDigest})
  BY <1>2, DeclareFields DEF DiskTypes
<1>7. disk'.renders \in Partial(App, Version)
  <2>1. disk'.renders = [a \in DOMAIN disk.renders \ gone |-> disk.renders[a]]
    BY <1>2, DeclareFields
  <2>2. DOMAIN disk.renders \subseteq App /\ \A a \in DOMAIN disk.renders : disk.renders[a] \in Version
    BY <1>2, PartialIs, SMT DEF DiskTypes
  <2> QED BY <2>1, <2>2, PartialIs, SMT
<1>8. /\ disk'.bricks \subseteq Brick /\ disk'.dirs \subseteq Brick
      /\ disk'.dispatch \subseteq Brick /\ disk'.synced \subseteq App
  <2>1. /\ disk.bricks \subseteq Brick /\ disk.dirs \subseteq Brick
        /\ disk.dispatch \subseteq Brick /\ disk.synced \subseteq App /\ S \subseteq Brick
    BY <1>2 DEF DiskTypes, Brick
  <2>2. /\ disk'.bricks = disk.bricks \ gone /\ disk'.dirs = (disk.dirs \ gone) \cup S
        /\ disk'.dispatch = disk.dispatch \ gone /\ disk'.synced = disk.synced \ gone
    BY <1>2, DeclareFields
  <2> HIDE DEF gone
  <2> QED BY <2>1, <2>2
<1>9. DiskTypes(disk')
  BY <1>3, <1>4, <1>5, <1>6, <1>7, <1>8 DEF DiskTypes
<1>10. UserTypes'
  BY <1>1, <1>3 DEF UserTypes
<1> QED BY <1>1, <1>9, <1>10 DEF HatchTypes

(* A new chart version keeps the types.                                    *)
LEMMA BumpTyped ==
  ASSUME HatchTypes, NEW b \in App, Bump(b)
  PROVE  HatchTypes'
<1>1. /\ CatalogTypes(catalog') /\ overlay' \subseteq App /\ LoopTypes'
      /\ edited' \in BOOLEAN /\ edits' \in 0..MaxEdits /\ edits' = edits + 1
      /\ edits \in Nat /\ kills' \in 0..MaxKills
  BY EditTyped DEF Bump
<1>2. Record(disk) /\ DiskTypes(disk)
  BY ContextTyped
<1>3. disk'.note \in 0..MaxEdits /\ (Undo => disk'.note \in 0..1)
  BY <1>1, <1>2, BumpFields, NoteTyped
<1>4. disk'.version \in [App -> Version]
  <2>1. disk'.version = [disk.version EXCEPT ![b] = edits + 1]
    BY <1>2, BumpFields
  <2> QED BY <1>1, <1>2, <2>1 DEF DiskTypes, Version
<1>5. Rest(disk', disk, {"version", "note"})
  BY <1>2, BumpFields
<1>6. /\ disk'.apps = disk.apps /\ disk'.entries = disk.entries
      /\ disk'.digests = disk.digests /\ disk'.bricks = disk.bricks
      /\ disk'.dirs = disk.dirs /\ disk'.renders = disk.renders
      /\ disk'.dispatch = disk.dispatch /\ disk'.synced = disk.synced
  BY <1>5 DEF Rest, DiskFields
<1>7. DiskTypes(disk')
  BY <1>2, <1>3, <1>4, <1>5, <1>6 DEF DiskTypes, Rest
<1>8. UserTypes'
  BY <1>1, <1>3 DEF UserTypes
<1> QED BY <1>1, <1>7, <1>8 DEF HatchTypes

(* Every step keeps the types,                                             *)
LEMMA TypeStep ==
  HatchTypes /\ [Next]_vars => HatchTypes'
<1> SUFFICES ASSUME HatchTypes, [Next]_vars PROVE HatchTypes'
  OBVIOUS
<1>1. CASE Hatch
  BY <1>1, StartTyped, SnapshotTyped, SeedTyped, PhaseATyped, ReloadTyped, PhaseBTyped,
     LatticeTyped, BuildSyncTyped, FailTyped, FinishTyped DEF Hatch
<1>2. CASE Killed
  BY <1>2, FailTyped
<1>3. CASE User
  BY <1>3, DeclareTyped, BumpTyped DEF User
<1>4. CASE UNCHANGED vars
  <2>1. UNCHANGED <<disk, catalog, overlay, mode, maxIters, iter, pc, gens, snapshot,
                    changed, result, edited, edits, kills>>
    BY <1>4 DEF vars, ctxVars, loopVars, userVars
  <2> QED BY <2>1, SMT DEF HatchTypes, DiskTypes, Record, CatalogTypes, LoopTypes, UserTypes
<1> QED BY <1>1, <1>2, <1>3, <1>4 DEF Next

(* so the state of a hatch, of the files and of the user is what TypeOK    *)
(* says, whatever was edited or killed when.                               *)
THEOREM HatchStateTyped == Spec => []TypeOK
<1>1. Spec => []HatchTypes
  BY TypeInit, TypeStep, PTL DEF Spec
<1> QED BY <1>1, TypeParts, PTL

----------------------------------------------------------------------------
(* chart_versions.cue                                                      *)

(* The entries of the file are counts, at most one for an app.             *)
EntriesInv ==
  /\ "entries" \in DOMAIN disk
  /\ disk.entries \in [App -> 0..1]

(* The places of a pass between a load of the catalog and the next append. *)
Loaded == {"snapshot", "versions", "dispatch", "tree", "lattice", "writing",
           "buildsync", "finish"}

(* The catalog knows the entries that are in the file.                     *)
Known(c) == {a \in App : disk.entries[a] > 0} \subseteq DOMAIN c.versions

SeedInv == EntriesInv /\ (pc \in Loaded => Known(catalog))

----------------------------------------------------------------------------
(* A catalog just loaded knows every entry (NewGenContext, ReloadCatalog). *)
LEMMA LoadKnows ==
  Known(Load(disk))
BY DEF Known, Load, Restrict

(* A step that adds no entry, and keeps the catalog or ends the pass,      *)
(* keeps the invariant.                                                    *)
LEMMA Fewer ==
  ASSUME SeedInv, "entries" \in DOMAIN disk',
         disk'.entries \in [App -> 0..1],
         \A a \in App : disk'.entries[a] <= disk.entries[a],
         pc' \in Loaded => pc \in Loaded /\ catalog' = catalog
  PROVE  SeedInv'
<1>1. EntriesInv'
  BY DEF EntriesInv
<1>2. ASSUME pc' \in Loaded PROVE Known(catalog)'
  <2>1. Known(catalog) /\ catalog' = catalog
    BY <1>2 DEF SeedInv
  <2>2. ASSUME NEW a \in App, disk'.entries[a] > 0
        PROVE  a \in DOMAIN catalog.versions
    <3>1. disk.entries[a] \in 0..1 /\ disk'.entries[a] \in 0..1
      BY DEF SeedInv, EntriesInv
    <3>2. disk.entries[a] > 0
      BY <2>2, <3>1, SMT
    <3> QED BY <2>1, <3>2 DEF Known
  <2> QED BY <2>1, <2>2 DEF Known
<1> QED BY <1>1, <1>2 DEF SeedInv

(* The same for a step that leaves the entries as they are.                *)
LEMMA Same ==
  ASSUME SeedInv, "entries" \in DOMAIN disk', disk'.entries = disk.entries,
         pc' \in Loaded => pc \in Loaded /\ catalog' = catalog
  PROVE  SeedInv'
<1>1. disk.entries \in [App -> 0..1]
  BY DEF SeedInv, EntriesInv
<1>2. \A a \in App : disk'.entries[a] <= disk.entries[a]
  BY <1>1, SMT
<1> QED BY <1>1, <1>2, Fewer

----------------------------------------------------------------------------
(* The fresh workspace has no entries.                                     *)
LEMMA SeedInit ==
  Init => SeedInv
BY SMT DEF Init, SeedInv, EntriesInv, Loaded

(* seedChartVersions appends only for apps without an entry, because the   *)
(* catalog it goes by knows them all; the catalog is then behind the file. *)
LEMMA SeedStep ==
  SeedInv /\ Seed => SeedInv'
<1> SUFFICES ASSUME SeedInv, Seed PROVE SeedInv'
  OBVIOUS
<1>1. CASE pc = "versions" /\ pc' = "digests"
           /\ Write(seedChartVersions(disk, catalog))
  <2>1. Known(catalog) /\ EntriesInv
    BY <1>1 DEF SeedInv, Loaded
  <2>2. /\ "entries" \in DOMAIN disk'
        /\ disk'.entries =
             [a \in App |->
                IF a \in catalog.apps \ (DOMAIN catalog.versions
                                           \cup DOMAIN catalog.digests)
                THEN disk.entries[a] + 1 ELSE disk.entries[a]]
    BY <1>1, <2>1 DEF Write, seedChartVersions, EntriesInv
  <2>3. \A a \in App : a \notin DOMAIN catalog.versions =>
                         disk.entries[a] = 0
    BY <2>1, SMT DEF Known, EntriesInv
  <2>4. disk'.entries \in [App -> 0..1]
    BY <2>1, <2>2, <2>3, SMT DEF EntriesInv
  <2> QED BY <1>1, <2>2, <2>4 DEF SeedInv, EntriesInv, Loaded
<1>2. CASE pc = "digests" /\ pc' = "phaseA"
           /\ Write(seedChartDigests(disk, catalog))
  <2>1. "entries" \in DOMAIN disk' /\ disk'.entries = disk.entries
    BY <1>2 DEF Write, seedChartDigests, SeedInv, EntriesInv
  <2> QED BY <1>2, <2>1, Same DEF Loaded
<1> QED BY <1>1, <1>2 DEF Seed

(* Loading restores the relation, whatever happened to the file before.    *)
LEMMA LoadStep ==
  ASSUME SeedInv, catalog' = Load(disk), disk' = disk
  PROVE  SeedInv'
BY LoadKnows DEF SeedInv, EntriesInv, Known

(* The generators, buildsync and the log write other files.                *)
LEMMA WritesElsewhere ==
  ASSUME SeedInv
  PROVE  /\ \A g \in Step : PhaseA(g) => SeedInv'
         /\ DispatchWorker => SeedInv'
         /\ SpecLattice => SeedInv'
         /\ BuildSync => SeedInv'
         /\ Finish => SeedInv'
<1> USE DEF EntriesInv
<1>0. "entries" \in DOMAIN disk
  BY DEF SeedInv
<1>1. ASSUME NEW g \in Step, PhaseA(g) PROVE SeedInv'
  <2>1. /\ disk' \in {infra(disk), genAppBricks(disk, overlay),
                      genApp(disk, catalog, overlay)}
        /\ pc' \in {"reload", "phaseA"}
    BY <1>1 DEF PhaseA, Write, Step
  <2>2. "entries" \in DOMAIN disk' /\ disk'.entries = disk.entries
    BY <1>0, <2>1 DEF infra, genAppBricks, genApp
  <2>3. pc' \notin Loaded
    BY <2>1 DEF Loaded
  <2> QED BY <2>2, <2>3, Same
<1>2. ASSUME DispatchWorker PROVE SeedInv'
  <2>1. "entries" \in DOMAIN disk' /\ disk'.entries = disk.entries
    BY <1>0, <1>2 DEF DispatchWorker, Write, dispatchworker
  <2>2. pc \in Loaded /\ catalog' = catalog
    BY <1>2 DEF DispatchWorker, Loaded
  <2> QED BY <2>1, <2>2, Same
<1>3. ASSUME SpecLattice PROVE SeedInv'
  <2>1. "entries" \in DOMAIN disk' /\ disk'.entries = disk.entries
    BY <1>0, <1>3 DEF SpecLattice, Write, speclattice
  <2>2. pc \in Loaded /\ catalog' = catalog
    BY <1>3 DEF SpecLattice, Loaded
  <2> QED BY <2>1, <2>2, Same
<1>4. ASSUME BuildSync PROVE SeedInv'
  <2>1. "entries" \in DOMAIN disk' /\ disk'.entries = disk.entries
    BY <1>0, <1>4 DEF BuildSync, Write, genChartDigests, syncFiles
  <2>2. pc \in Loaded /\ catalog' = catalog
    BY <1>4 DEF BuildSync, ctxVars, Loaded
  <2> QED BY <2>1, <2>2, Same
<1>5. ASSUME Finish PROVE SeedInv'
  <2>1. "entries" \in DOMAIN disk' /\ disk'.entries = disk.entries
    BY <1>0, <1>5 DEF Finish, trackingFiles
  <2>2. pc \in Loaded /\ (pc' = "idle" \/ catalog' = catalog)
    BY <1>5 DEF Finish, Return, Loaded
  <2> QED BY <2>1, <2>2, Same DEF Loaded
<1> QED BY <1>1, <1>2, <1>3, <1>4, <1>5

(* Steps that write no file of the workspace.                              *)
LEMMA WritesNothing ==
  ASSUME SeedInv
  PROVE  /\ Snapshot => SeedInv'
         /\ RenderFails => SeedInv'
         /\ LatticeBegin => SeedInv'
         /\ LatticeWrite => SeedInv'
         /\ BuildFails => SeedInv'
         /\ Killed => SeedInv'
         /\ UNCHANGED vars => SeedInv'
<1>0. "entries" \in DOMAIN disk
  BY DEF SeedInv, EntriesInv
<1>1. ASSUME disk' = disk, pc' \in Loaded => pc \in Loaded /\ catalog' = catalog
      PROVE  SeedInv'
  BY <1>0, <1>1, Same
<1>2. Snapshot => SeedInv'
  BY <1>1 DEF Snapshot, ctxVars, Loaded
<1>3. RenderFails => SeedInv'
  BY <1>1 DEF RenderFails, Return, Loaded
<1>4. LatticeBegin => SeedInv'
  BY <1>1 DEF LatticeBegin, ctxVars, Loaded
<1>5. LatticeWrite => SeedInv'
  BY <1>1 DEF LatticeWrite, ctxVars, Loaded
<1>6. BuildFails => SeedInv'
  BY <1>1 DEF BuildFails, Return, Loaded
<1>7. Killed => SeedInv'
  BY <1>1 DEF Killed, Return, Loaded
<1>8. UNCHANGED vars => SeedInv'
  BY <1>1 DEF vars, ctxVars
<1> QED BY <1>2, <1>3, <1>4, <1>5, <1>6, <1>7, <1>8

(* An edit takes entries away or leaves them, at any point of a pass.      *)
LEMMA UserStep ==
  ASSUME SeedInv, User
  PROVE  SeedInv'
<1>0. "entries" \in DOMAIN disk /\ disk.entries \in [App -> 0..1]
  BY DEF SeedInv, EntriesInv
<1>1. ASSUME NEW S \in SUBSET App, Declare(S) PROVE SeedInv'
  <2> DEFINE gone == disk.apps \ S
  <2>1. /\ "entries" \in DOMAIN disk'
        /\ disk'.entries =
             [a \in App |-> IF a \in gone THEN 0 ELSE disk.entries[a]]
    BY <1>0, <1>1 DEF Declare, Edit
  <2>2. pc' = pc /\ catalog' = catalog
    BY <1>1 DEF Declare, Edit, ctxVars
  <2>3. /\ disk'.entries \in [App -> 0..1]
        /\ \A a \in App : disk'.entries[a] <= disk.entries[a]
    BY <1>0, <2>1, SMT
  <2> QED BY <2>1, <2>2, <2>3, Fewer
<1>2. ASSUME NEW a \in App, Bump(a) PROVE SeedInv'
  <2>1. "entries" \in DOMAIN disk' /\ disk'.entries = disk.entries
    BY <1>0, <1>2 DEF Bump, Edit
  <2>2. pc' = pc /\ catalog' = catalog
    BY <1>2 DEF Bump, Edit, ctxVars
  <2> QED BY <2>1, <2>2, Same
<1> QED BY <1>1, <1>2 DEF User

(* SeedInv is inductive.                                                   *)
LEMMA SeedInvariant ==
  Spec => []SeedInv
<1>1. SeedInv /\ [Next]_vars => SeedInv'
  <2> SUFFICES ASSUME SeedInv, [Next]_vars PROVE SeedInv'
    OBVIOUS
  <2>1. ASSUME NEW m \in {"cycle", "validate"}, Start(m) PROVE SeedInv'
    BY <2>1, LoadStep DEF Start
  <2>2. ASSUME ReloadCatalog PROVE SeedInv'
    BY <2>2, LoadStep DEF ReloadCatalog
  <2>3. Hatch => SeedInv'
    BY <2>1, <2>2, SeedStep, WritesElsewhere, WritesNothing DEF Hatch
  <2> QED BY <2>3, UserStep, WritesNothing DEF Next
<1> QED BY SeedInit, <1>1, PTL DEF Spec

(* An app never has two entries in chart_versions.cue, whatever is edited  *)
(* while hatch runs and wherever it is killed: what seedChartVersions      *)
(* relies on when it appends without looking at the file.                  *)
THEOREM EntriesSeededOnce ==
  Spec => []SeedOnce
<1>1. SeedInv => SeedOnce
  BY SMT DEF SeedInv, EntriesInv, SeedOnce
<1> QED BY SeedInvariant, <1>1, PTL

----------------------------------------------------------------------------
(* What the steps do to lattice.Run, and to a pass that has changed        *)
(* nothing so far.                                                         *)

(* The note in a lattice.                                                  *)
Note(lattice) == lattice.tree.files.note

(* What a lattice shows of the files and of the catalog.                   *)
LEMMA NoteOf ==
  ASSUME NEW d, NEW c, NEW t
  PROVE  /\ Note(buildLattice(d, c, t)) = d.note
         /\ buildLattice(d, c, t).catalog = c
         /\ buildLattice(d, c, t) # None
<1>1. Note(buildLattice(d, c, t)) = d.note
  BY DEF Note, buildLattice, enrichTree
<1>2. "none" \in DOMAIN None /\ "none" \notin DOMAIN buildLattice(d, c, t)
  BY DEF buildLattice, None
<1>3. buildLattice(d, c, t).catalog = c
  BY DEF buildLattice
<1> QED BY <1>1, <1>2, <1>3

Pre == {"snapshot", "versions", "digests", "phaseA", "reload"}
Post == {"dispatch", "tree", "lattice", "writing", "buildsync", "finish"}

(* The record of lattice.Run.                                              *)
RunInv == run = [step |-> run.step, lattice |-> run.lattice, left |-> run.left]

(* A step of lattice.Run goes on to the next part; _index.sha256 is        *)
(* written in one.                                                         *)
LEMMA LatticeMoves ==
  ASSUME RunInv, LatticeStep
  PROVE  /\ RunInv' /\ run'.lattice = run.lattice
         /\ \/ /\ run.step \in {"shards", "manifest"}
               /\ run'.step \in {"shards", "manifest", "sha"} /\ sha' = sha
            \/ run.step = "sha" /\ run'.step = "prune" /\ sha' = run.lattice
            \/ run.step = "prune" /\ run'.step = "off" /\ sha' = sha
<1>1. CASE WriteShard
  <2>1. /\ run.step = "shards" /\ sha' = sha
        /\ \E step \in {"manifest", "shards"} :
             run' = [run EXCEPT !.left = @ \ {current}, !.step = step]
    BY <1>1 DEF WriteShard
  <2> QED BY <2>1 DEF RunInv
<1>2. CASE WriteManifest
  <2>1. run.step = "manifest" /\ sha' = sha /\ run' = [run EXCEPT !.step = "sha"]
    BY <1>2 DEF WriteManifest
  <2> QED BY <2>1 DEF RunInv
<1>3. CASE WriteSha
  <2>1. run.step = "sha" /\ sha' = run.lattice /\ run' = [run EXCEPT !.step = "prune"]
    BY <1>3 DEF WriteSha
  <2> QED BY <2>1 DEF RunInv
<1>4. CASE pruneStaleShards
  <2>1. run.step = "prune" /\ sha' = sha /\ run' = [run EXCEPT !.step = "off"]
    BY <1>4 DEF pruneStaleShards
  <2> QED BY <2>1 DEF RunInv
<1> QED BY <1>1, <1>2, <1>3, <1>4 DEF LatticeStep

(* The same for lattice.Run within a pass.                                 *)
LEMMA WriteMoves ==
  ASSUME RunInv, LatticeWrite
  PROVE  /\ RunInv' /\ run'.lattice = run.lattice /\ pc = "writing"
         /\ \/ /\ run.step # "prune" /\ run'.step # "prune" /\ pc' = "writing"
               /\ sha' = sha
            \/ /\ run.step # "prune" /\ run'.step = "prune" /\ pc' = "writing"
               /\ sha' = run.lattice
            \/ run.step = "prune" /\ pc' = "buildsync" /\ sha' = sha
         /\ changed \/ sha' # sha => changed'
         /\ UNCHANGED <<disk, ctxVars, loopVars, gens, result, userVars>>
<1>1. /\ RunInv' /\ run'.lattice = run.lattice
      /\ \/ /\ run.step \in {"shards", "manifest"}
            /\ run'.step \in {"shards", "manifest", "sha"} /\ sha' = sha
         \/ run.step = "sha" /\ run'.step = "prune" /\ sha' = run.lattice
         \/ run.step = "prune" /\ run'.step = "off" /\ sha' = sha
  BY LatticeMoves DEF LatticeWrite
<1>2. pc = "writing" /\ pc' = IF run'.step = "off" THEN "buildsync" ELSE "writing"
  BY DEF LatticeWrite
<1>3. changed \/ sha' # sha => changed'
  BY DEF LatticeWrite, Advances
<1>4. UNCHANGED <<disk, ctxVars, loopVars, gens, result, userVars>>
  BY DEF LatticeWrite
<1> QED BY <1>1, <1>2, <1>3, <1>4

(* lattice.Run takes the short cut, or has something to write.             *)
LEMMA BeginMoves ==
  ASSUME LatticeBegin
  PROVE  /\ RunInv' /\ run'.lattice = buildLattice(disk, catalog, tree)
         /\ run'.step # "prune" /\ pc = "lattice" /\ UNCHANGED <<shards, sha>>
         /\ \/ sha = buildLattice(disk, catalog, tree) /\ pc' = "buildsync"
            \/ sha # buildLattice(disk, catalog, tree) /\ pc' = "writing"
         /\ UNCHANGED <<disk, ctxVars, loopVars, gens, changed, result, userVars>>
<1>1. /\ run' = [step |-> IF sha = buildLattice(disk, catalog, tree) THEN "off" ELSE "shards",
                 lattice |-> buildLattice(disk, catalog, tree), left |-> run'.left]
      /\ UNCHANGED <<shards, sha>>
  BY DEF LatticeBegin, Begin, Unchanged
<1>2. /\ run'.step = IF sha = buildLattice(disk, catalog, tree) THEN "off" ELSE "shards"
      /\ run'.lattice = buildLattice(disk, catalog, tree) /\ RunInv'
  BY <1>1, SMT DEF RunInv
<1>3. pc = "lattice" /\ pc' = IF run'.step = "off" THEN "buildsync" ELSE "writing"
  BY DEF LatticeBegin
<1>4. UNCHANGED <<disk, ctxVars, loopVars, gens, changed, result, userVars>>
  BY DEF LatticeBegin
<1> QED BY <1>1, <1>2, <1>3, <1>4

(* A write after which nothing has changed yet wrote what was there.       *)
LEMMA QuietWrite ==
  ASSUME NEW d, Write(d), ~changed'
  PROVE  ~changed /\ d = disk /\ disk' = disk
BY DEF Write, Advances

(* An edit during a pass is seen, and is newer than every lattice.         *)
LEMMA UserMoves ==
  ASSUME User
  PROVE  /\ UNCHANGED <<shards, index, sha, run>>
         /\ UNCHANGED <<catalog, overlay, tree, genLines, iter, pc, gens>>
         /\ edits' = edits + 1
         /\ pc # "idle" => changed' /\ edited'
         /\ pc # "idle" => result' = result
         /\ pc = "idle" => result' = "none"
         /\ snapshot' = snapshot
<1>1. PICK d : Edit(d)
  BY DEF User, Declare, Bump
<1> QED BY <1>1 DEF Edit, latticeVars, ctxVars, loopVars

(* The note of an edit is its number, when no edit is undone.              *)
LEMMA UserNote ==
  ASSUME Record(disk), User, ~Undo
  PROVE  disk'.note = edits + 1
<1>1. CASE \E S \in SUBSET App : Declare(S)
  <2>1. PICK S : Declare(S)
    BY <1>1
  <2> QED BY <2>1, DeclareFields
<1>2. CASE \E b \in App : Bump(b)
  <2>1. PICK b : Bump(b)
    BY <1>2
  <2> QED BY <2>1, BumpFields
<1> QED BY <1>1, <1>2 DEF User

(* A hatch ends.                                                           *)
Ended == RenderFails \/ BuildFails \/ Killed

(* A hatch that ends in an error leaves the files and the digest.          *)
LEMMA EndedMoves ==
  ASSUME Ended
  PROVE  /\ pc' = "idle" /\ result' = "error" /\ genLines' = NoLines
         /\ UNCHANGED <<disk, sha, edits>> /\ (run' = Idle \/ run' = run)
BY DEF Ended, RenderFails, BuildFails, Killed, Return, LatticeKilled, latticeVars, userVars

(* The steps of a pass before the reload, and the ones after it that write *)
(* the files.                                                              *)
Before == Snapshot \/ Seed \/ \E g \in Step : PhaseA(g)
After == DispatchWorker \/ SpecLattice \/ BuildSync

(* The steps before the reload leave the context and the lattice.          *)
LEMMA BeforeMoves ==
  ASSUME Before
  PROVE  /\ pc \in Pre \ {"reload"} /\ pc' \in Pre \ {"snapshot"}
         /\ UNCHANGED <<shards, index, sha, run>>
         /\ UNCHANGED <<catalog, overlay, tree, iter, result, edited, edits>>
<1>1. CASE Snapshot
  BY <1>1 DEF Snapshot, Pre, latticeVars, ctxVars, userVars
<1>2. CASE Seed
  BY <1>2 DEF Seed, Pre, latticeVars, ctxVars, loopVars, userVars
<1>3. CASE \E g \in Step : PhaseA(g)
  BY <1>3 DEF PhaseA, Pre, latticeVars, loopVars, userVars
<1> QED BY <1>1, <1>2, <1>3 DEF Before

(* The steps after it leave the catalog and the lattice.                   *)
LEMMA AfterMoves ==
  ASSUME After
  PROVE  /\ pc \in {"dispatch", "tree", "buildsync"} /\ pc' \in {"tree", "lattice", "finish"}
         /\ pc = "buildsync" <=> pc' = "finish"
         /\ UNCHANGED <<shards, index, sha, run>>
         /\ UNCHANGED <<catalog, iter, snapshot, gens, result, edited, edits>>
<1>1. CASE DispatchWorker
  BY <1>1 DEF DispatchWorker, latticeVars, loopVars, userVars
<1>2. CASE SpecLattice
  BY <1>2 DEF SpecLattice, latticeVars, loopVars, userVars
<1>3. CASE BuildSync
  BY <1>3 DEF BuildSync, latticeVars, ctxVars, loopVars, userVars
<1> QED BY <1>1, <1>2, <1>3 DEF After

(* The end of a pass: of the hatch, or on to the next.                     *)
LEMMA FinishMoves ==
  ASSUME Finish
  PROVE  /\ pc = "finish" /\ run' = Idle /\ genLines' = NoLines
         /\ UNCHANGED <<shards, index, sha, edited, edits>>
         /\ \/ pc' = "idle"
            \/ pc' = "snapshot" /\ iter' = iter + 1 /\ UNCHANGED <<catalog, overlay, result>>
BY DEF Finish, Return, userVars

(* A hatch starts with the catalog that is on disk.                        *)
LEMMA StartMoves ==
  ASSUME NEW m, Start(m)
  PROVE  /\ pc = "idle" /\ pc' = "snapshot" /\ iter' = 1 /\ result' = "none"
         /\ catalog' = Load(disk) /\ overlay' = disk.apps /\ ~edited'
         /\ UNCHANGED <<shards, index, sha, run, disk, genLines, edits>>
BY DEF Start, latticeVars

(* The reload takes the catalog and the overlay from the files.            *)
LEMMA ReloadMoves ==
  ASSUME ReloadCatalog
  PROVE  /\ pc = "reload" /\ pc' = "dispatch"
         /\ catalog' = Load(disk) /\ overlay' = disk.apps
         /\ UNCHANGED <<shards, index, sha, run, disk, tree, genLines, changed, edits>>
         /\ UNCHANGED <<iter, snapshot, gens, result>>
BY DEF ReloadCatalog, latticeVars, loopVars, userVars

(* The steps are these.                                                    *)
LEMMA Steps ==
  ASSUME [Next]_vars
  PROVE  \/ \E m \in {"cycle", "validate"} : Start(m)
         \/ Before \/ ReloadCatalog \/ After \/ LatticeBegin \/ LatticeWrite
         \/ Finish \/ Ended \/ User \/ UNCHANGED vars
BY DEF Next, Hatch, Before, After, Ended

----------------------------------------------------------------------------
(* Splitting and grafting                                                  *)

(* What WriteShard makes of the files.                                     *)
LEMMA WrittenIs ==
  ASSUME NEW sh
  PROVE  /\ shardFilename(sh) \in DOMAIN written(sh)
         /\ written(sh)[shardFilename(sh)] = sh.value
         /\ \A f \in DOMAIN shards \ {sibling(sh), shardFilename(sh)} :
              f \in DOMAIN written(sh) /\ written(sh)[f] = shards[f]
<1>1. shardFilename(sh) # sibling(sh)
  BY DEF shardFilename, sibling
<1> QED BY <1>1 DEF written, withFile, Restrict

(* A lattice as buildLattice makes it.                                     *)
Shaped(l) ==
  /\ l = [catalog |-> l.catalog, tree |-> l.tree]
  /\ l.tree = [files |-> l.tree.files, dirs |-> l.tree.dirs]
  /\ l.tree.dirs = [b \in DOMAIN l.tree.dirs |-> l.tree.dirs[b]]

InOne(l) == ~TooLarge(l.tree) \/ DOMAIN l.tree.dirs = {}

Dir(l, b) == [path |-> below(<<"tree">>, b), value |-> l.tree.dirs[b]]
CatalogShard(l) == [path |-> <<"catalog">>, value |-> l.catalog]
TreeShard(l) == [path |-> <<"tree">>,
                 value |-> IF InOne(l) THEN l.tree ELSE [files |-> l.tree.files]]
Split(l) == {CatalogShard(l), TreeShard(l)} \cup
            IF InOne(l) THEN {} ELSE {Dir(l, b) : b \in DOMAIN l.tree.dirs}

(* The paths of the shards.                                                *)
LEMMA PathsAre ==
  /\ <<"catalog">> # <<"tree">> /\ Len(<<"catalog">>) = 1 /\ Len(<<"tree">>) = 1
  /\ \A b : /\ Len(below(<<"tree">>, b)) = 3 /\ below(<<"tree">>, b)[3] = b
            /\ below(<<"tree">>, b) # <<"tree">> /\ below(<<"tree">>, b) # <<"catalog">>
<1>1. <<"catalog">>[1] = "catalog" /\ <<"tree">>[1] = "tree"
  OBVIOUS
<1>2. Len(<<"catalog">>) = 1 /\ Len(<<"tree">>) = 1
  OBVIOUS
<1>3. ASSUME NEW b PROVE Len(below(<<"tree">>, b)) = 3 /\ below(<<"tree">>, b)[3] = b
  <2>1. /\ Len(<<"tree">> \o <<"dirs", b>>) = 3
        /\ (<<"tree">> \o <<"dirs", b>>)[3] = b
    BY SMT
  <2> QED BY <2>1 DEF below
<1>4. \A b : below(<<"tree">>, b) # <<"tree">> /\ below(<<"tree">>, b) # <<"catalog">>
  BY <1>2, <1>3, SMT
<1> QED BY <1>1, <1>2, <1>3, <1>4

(* The shards, one by one.                                                 *)
LEMMA SplitIs ==
  ASSUME NEW l
  PROVE  splitIntoShards(l) = Split(l)
<1>1. CASE InOne(l)
  BY <1>1 DEF splitIntoShards, splitTreeNode, InOne, Split, CatalogShard, TreeShard
<1>2. CASE ~InOne(l)
  <2>1. splitTreeNode(<<"tree">>, l.tree) = {TreeShard(l)} \cup {Dir(l, b) : b \in DOMAIN l.tree.dirs}
    BY <1>2 DEF splitTreeNode, InOne, TreeShard, Dir
  <2> QED BY <1>2, <2>1 DEF splitIntoShards, Split, CatalogShard
<1> QED BY <1>1, <1>2

(* The fields of a shard.                                                  *)
LEMMA ShardFields ==
  ASSUME NEW l
  PROVE  /\ CatalogShard(l).path = <<"catalog">> /\ CatalogShard(l).value = l.catalog
         /\ TreeShard(l).path = <<"tree">>
         /\ TreeShard(l).value = IF InOne(l) THEN l.tree ELSE [files |-> l.tree.files]
         /\ \A b : /\ Dir(l, b).path = below(<<"tree">>, b)
                  /\ Dir(l, b).value = l.tree.dirs[b]
BY DEF CatalogShard, TreeShard, Dir

(* No two shards have the same path.                                       *)
LEMMA PathsDiffer ==
  ASSUME NEW l, NEW sh \in splitIntoShards(l), NEW sg \in splitIntoShards(l), sh # sg
  PROVE  sh.path # sg.path
<1>1. ASSUME NEW x \in splitIntoShards(l)
      PROVE  \/ x = CatalogShard(l) \/ x = TreeShard(l)
             \/ \E b \in DOMAIN l.tree.dirs : x = Dir(l, b)
  BY <1>1, SplitIs DEF Split
<1>2. CatalogShard(l).path # TreeShard(l).path
  BY ShardFields, PathsAre
<1>3. ASSUME NEW b
      PROVE  /\ Dir(l, b).path # CatalogShard(l).path /\ Dir(l, b).path # TreeShard(l).path
             /\ Dir(l, b).path[3] = b
  <2>1. Dir(l, b).path = below(<<"tree">>, b)
    BY ShardFields
  <2>2. CatalogShard(l).path = <<"catalog">> /\ TreeShard(l).path = <<"tree">>
    BY ShardFields
  <2> QED BY <2>1, <2>2, PathsAre
<1>4. ASSUME NEW b, NEW c, Dir(l, b) # Dir(l, c)
      PROVE  Dir(l, b).path # Dir(l, c).path
  <2>1. b # c
    BY <1>4
  <2> QED BY <1>3, <2>1
<1>5. CASE sh = CatalogShard(l) \/ sh = TreeShard(l)
  BY <1>1, <1>2, <1>3, <1>5
<1>6. CASE \E b \in DOMAIN l.tree.dirs : sh = Dir(l, b)
  BY <1>1, <1>3, <1>4, <1>6, SMT
<1> QED BY <1>1, <1>5, <1>6

(* What splitting puts apart, grafting puts together.                      *)
LEMMA GraftIs ==
  ASSUME NEW l, Shaped(l)
  PROVE  graft(splitIntoShards(l)) = l
<1> DEFINE parts == splitIntoShards(l)
           D == DOMAIN l.tree.dirs
           at(path) == (CHOOSE sh \in parts : sh.path = path).value
           dirs == {sh.path[3] : sh \in {sh \in parts : Len(sh.path) = 3}}
<1>1. ASSUME NEW sh \in parts, NEW sg \in parts, sh.path = sg.path PROVE sh = sg
  BY <1>1, PathsDiffer
<1>2. parts = Split(l)
  BY SplitIs
<1>3. graft(parts) =
        [catalog |-> at(<<"catalog">>),
         tree |-> IF dirs = {} THEN at(<<"tree">>)
                  ELSE [files |-> at(<<"tree">>).files,
                        dirs |-> [d \in dirs |-> at(below(<<"tree">>, d))]]]
  BY DEF graft
<1> HIDE DEF parts
<1>4. ASSUME NEW sh \in parts PROVE at(sh.path) = sh.value
  <2>1. (CHOOSE sg \in parts : sg.path = sh.path) = sh
    BY <1>1
  <2> QED BY <2>1
<1>5. /\ at(<<"catalog">>) = l.catalog
      /\ at(<<"tree">>) = IF InOne(l) THEN l.tree ELSE [files |-> l.tree.files]
  <2>1. CatalogShard(l) \in parts /\ TreeShard(l) \in parts
    BY <1>2 DEF Split
  <2>2. at(CatalogShard(l).path) = CatalogShard(l).value /\ at(TreeShard(l).path) = TreeShard(l).value
    BY <1>4, <2>1
  <2> HIDE DEF at
  <2> QED BY <2>2, ShardFields
<1>6. Len(CatalogShard(l).path) # 3 /\ Len(TreeShard(l).path) # 3
  <2>1. Len(CatalogShard(l).path) = 1 /\ Len(TreeShard(l).path) = 1
    BY ShardFields, PathsAre
  <2> QED BY <2>1, SMT
<1>7. CASE InOne(l)
  <2>1. dirs = {}
    BY <1>2, <1>6, <1>7 DEF Split
  <2> HIDE DEF at, dirs
  <2>2. graft(parts) = [catalog |-> l.catalog, tree |-> l.tree]
    BY <1>3, <1>5, <1>7, <2>1
  <2> QED BY <2>2 DEF Shaped, parts
<1>8. CASE ~InOne(l)
  <2>1. parts = {CatalogShard(l), TreeShard(l)} \cup {Dir(l, b) : b \in D}
    BY <1>2, <1>8 DEF Split
  <2>2. ASSUME NEW b PROVE Len(Dir(l, b).path) = 3 /\ Dir(l, b).path[3] = b
    <3>1. Dir(l, b).path = below(<<"tree">>, b)
      BY ShardFields
    <3> QED BY <3>1, PathsAre
  <2>3. dirs = D
    <3>1. {sh \in parts : Len(sh.path) = 3} = {Dir(l, b) : b \in D}
      BY <1>6, <2>1, <2>2, SMT
    <3> QED BY <2>2, <3>1, SMT
  <2>4. ASSUME NEW b \in D PROVE at(below(<<"tree">>, b)) = l.tree.dirs[b]
    <3>1. at(Dir(l, b).path) = Dir(l, b).value
      BY <1>4, <2>1
    <3> HIDE DEF at
    <3> QED BY <3>1, ShardFields
  <2> HIDE DEF at, dirs
  <2>5. D # {}
    BY <1>8 DEF InOne
  <2>6. [d \in D |-> at(below(<<"tree">>, d))] = l.tree.dirs
    BY <2>4 DEF Shaped
  <2>7. at(<<"tree">>).files = l.tree.files
    BY <1>5, <1>8, SMT
  <2>8. graft(parts) = [catalog |-> l.catalog,
                        tree |-> [files |-> l.tree.files, dirs |-> l.tree.dirs]]
    BY <1>3, <1>5, <2>3, <2>5, <2>6, <2>7
  <2> QED BY <2>8 DEF Shaped, parts
<1> QED BY <1>7, <1>8

----------------------------------------------------------------------------
(* lattice.Run                                                             *)

(* _index.json of a lattice.                                               *)
Manifest(l) ==
  [lattice_sha256 |-> l,
   shards |-> {[path |-> sh.path, file |-> shardFilename(sh), sha256 |-> sh.value] :
                 sh \in splitIntoShards(l)}]

(* Shards are in their files.                                              *)
Stored(parts, f) ==
  \A sh \in parts : shardFilename(sh) \in DOMAIN f /\ f[shardFilename(sh)] = sh.value

(* All of a lattice is on disk.                                            *)
Whole(l) == Shaped(l) /\ index = Manifest(l) /\ Stored(splitIntoShards(l), shards)

(* What lattice.Run has written so far.                                    *)
WriteInv ==
  run.step # "off" =>
    /\ Shaped(run.lattice)
    /\ run.step = "shards" =>
         /\ run.left # {} /\ run.left \subseteq splitIntoShards(run.lattice)
         /\ Stored(splitIntoShards(run.lattice) \ run.left, shards)
    /\ run.step \in {"manifest", "sha", "prune"} =>
         Stored(splitIntoShards(run.lattice), shards)
    /\ run.step \in {"sha", "prune"} => index = Manifest(run.lattice)
    /\ run.step = "prune" => sha = run.lattice

(* A shard is its path and its value.                                      *)
LEMMA ShardRecord ==
  ASSUME NEW l, NEW sh \in splitIntoShards(l)
  PROVE  sh = [path |-> sh.path, value |-> sh.value]
<1>1. CASE sh \in {CatalogShard(l), TreeShard(l)}
  BY <1>1 DEF CatalogShard, TreeShard
<1>2. CASE \E b \in DOMAIN l.tree.dirs : sh = Dir(l, b)
  BY <1>2 DEF Dir
<1> QED BY <1>1, <1>2, SplitIs DEF Split

(* A lattice that is whole is what the merge gives.                        *)
LEMMA MergeIs ==
  Whole(sha) => MergeShards = sha
<1> SUFFICES ASSUME Whole(sha) PROVE MergeShards = sha
  OBVIOUS
<1> DEFINE S == splitIntoShards(sha)
           entry(sh) == [path |-> sh.path, file |-> shardFilename(sh), sha256 |-> sh.value]
<1>1. /\ index.lattice_sha256 = sha /\ index.shards = {entry(sh) : sh \in S}
      /\ "shards" \in DOMAIN index
  BY DEF Whole, Manifest
<1>2. index # None
  <2>1. "shards" \notin DOMAIN None
    BY DEF None
  <2> QED BY <1>1, <2>1
<1>3. ASSUME NEW sh \in S
      PROVE  /\ shardFilename(sh) \in DOMAIN shards
             /\ shards[shardFilename(sh)] = sh.value
  BY <1>3 DEF Whole, Stored
<1>4. ASSUME NEW sh
      PROVE  /\ entry(sh).path = sh.path /\ entry(sh).file = shardFilename(sh)
             /\ entry(sh).sha256 = sh.value
  OBVIOUS
<1>5. \A e \in index.shards : e.file \in DOMAIN shards /\ shards[e.file] = e.sha256
  <2> HIDE DEF entry
  <2> QED BY <1>1, <1>3, <1>4, SMT
<1>6. {[path |-> e.path, value |-> shards[e.file]] : e \in index.shards} = S
  <2>1. ASSUME NEW sh \in S
        PROVE  [path |-> entry(sh).path, value |-> shards[entry(sh).file]] = sh
    <3>1. sh = [path |-> sh.path, value |-> sh.value]
      BY ShardRecord DEF Whole
    <3>2. shards[entry(sh).file] = sh.value /\ entry(sh).path = sh.path
      BY <1>3, <1>4
    <3> HIDE DEF entry
    <3> QED BY <3>1, <3>2
  <2> HIDE DEF entry
  <2> QED BY <1>1, <2>1, SMT
<1>7. graft(S) = sha
  BY GraftIs DEF Whole
<1> QED BY <1>1, <1>2, <1>5, <1>6, <1>7 DEF MergeShards

(* Writing a shard leaves the ones written before it.                      *)
LEMMA ShardWritten ==
  ASSUME WriteInv, RunInv, WriteShard
  PROVE  /\ run'.lattice = run.lattice /\ RunInv'
         /\ run'.left \subseteq splitIntoShards(run.lattice)
         /\ Stored(splitIntoShards(run.lattice) \ run'.left, shards')
         /\ \/ run'.step = "manifest" /\ run'.left = {}
            \/ run'.step = "shards" /\ run'.left # {}
<1> DEFINE S == splitIntoShards(run.lattice)
<1>1. run.step = "shards"
  BY DEF WriteShard
<1>2. run.left # {} /\ run.left \subseteq S /\ Stored(S \ run.left, shards)
  BY <1>1 DEF WriteInv
<1>3. current \in run.left /\ current \in S /\ shards' = written(current)
  BY <1>2 DEF WriteShard, current, sortShards
<1>4. run' = [run EXCEPT !.left = @ \ {current},
                        !.step = IF run.left = {current} THEN "manifest" ELSE "shards"]
  BY DEF WriteShard
<1>5. /\ run'.lattice = run.lattice /\ run'.left = run.left \ {current} /\ RunInv'
      /\ run'.step = IF run.left = {current} THEN "manifest" ELSE "shards"
  BY <1>4 DEF RunInv
<1> HIDE DEF S
<1>6. ASSUME NEW sh \in S \ run.left
      PROVE  /\ shardFilename(sh) \in DOMAIN shards'
             /\ shards'[shardFilename(sh)] = sh.value
  <2>1. sh.path # current.path
    BY <1>3, <1>6, PathsDiffer DEF S
  <2>2. shardFilename(sh) \notin {sibling(current), shardFilename(current)}
    BY <2>1 DEF shardFilename, sibling
  <2>3. shardFilename(sh) \in DOMAIN shards /\ shards[shardFilename(sh)] = sh.value
    BY <1>2, <1>6 DEF Stored
  <2> QED BY <1>3, <2>2, <2>3, WrittenIs
<1>7. shardFilename(current) \in DOMAIN shards' /\ shards'[shardFilename(current)] = current.value
  BY <1>3, WrittenIs
<1>8. Stored(S \ run'.left, shards')
  BY <1>5, <1>6, <1>7 DEF Stored
<1>9. run'.left \subseteq S /\ (run.left = {current} <=> run'.left = {})
  BY <1>2, <1>3, <1>5
<1> QED BY <1>5, <1>8, <1>9 DEF S

(* A step of lattice.Run keeps what has been written, and at its last step *)
(* the lattice is whole.                                                   *)
LEMMA RunWrites ==
  ASSUME WriteInv, RunInv, LatticeStep
  PROVE  /\ WriteInv' /\ RunInv' /\ run'.lattice = run.lattice
         /\ run'.step = "off" => /\ sha' = run'.lattice /\ Whole(sha)'
                                 /\ DOMAIN shards' = Files(run'.lattice)
<1> DEFINE l == run.lattice
           S == splitIntoShards(l)
<1>1. CASE WriteShard
  <2>1. Shaped(l)
    BY <1>1 DEF WriteShard, WriteInv
  <2>2. run'.lattice = l /\ RunInv' /\ run'.left \subseteq S /\ Stored(S \ run'.left, shards')
    BY <1>1, ShardWritten
  <2>3. CASE run'.step = "manifest" /\ run'.left = {}
    <3>1. S \ run'.left = S
      BY <2>3
    <3> QED BY <2>1, <2>2, <2>3, <3>1 DEF WriteInv
  <2>4. CASE run'.step = "shards" /\ run'.left # {}
    BY <2>1, <2>2, <2>4 DEF WriteInv
  <2> QED BY <1>1, <2>3, <2>4, ShardWritten
<1>2. CASE WriteManifest
  <2>1. /\ run.step = "manifest" /\ run' = [run EXCEPT !.step = "sha"] /\ shards' = shards
        /\ index' = Manifest(l)
    BY <1>2 DEF WriteManifest, Manifest
  <2>2. run'.step = "sha" /\ run'.lattice = l /\ RunInv'
    BY <2>1 DEF RunInv
  <2>3. Shaped(l) /\ Stored(S, shards)
    BY <2>1 DEF WriteInv
  <2> QED BY <2>1, <2>2, <2>3 DEF WriteInv
<1>3. CASE WriteSha
  <2>1. /\ run.step = "sha" /\ run' = [run EXCEPT !.step = "prune"] /\ shards' = shards
        /\ index' = index /\ sha' = l
    BY <1>3 DEF WriteSha
  <2>2. run'.step = "prune" /\ run'.lattice = l /\ RunInv'
    BY <2>1 DEF RunInv
  <2>3. Shaped(l) /\ Stored(S, shards) /\ index = Manifest(l)
    BY <2>1 DEF WriteInv
  <2> QED BY <2>1, <2>2, <2>3 DEF WriteInv
<1>4. CASE pruneStaleShards
  <2>1. /\ run.step = "prune" /\ run' = [run EXCEPT !.step = "off"]
        /\ index' = index /\ sha' = sha /\ sha = l
        /\ shards' = Restrict(shards, DOMAIN shards \cap Files(l))
    BY <1>4 DEF pruneStaleShards, WriteInv
  <2>2. run'.step = "off" /\ run'.lattice = l /\ RunInv'
    BY <2>1 DEF RunInv
  <2>3. Shaped(l) /\ Stored(S, shards) /\ index = Manifest(l)
    BY <2>1 DEF WriteInv
  <2>4. \A f \in DOMAIN shards \cap Files(l) : f \in DOMAIN shards' /\ shards'[f] = shards[f]
    BY <2>1 DEF Restrict
  <2>5. \A sh \in S : shardFilename(sh) \in DOMAIN shards \cap Files(l)
    BY <2>3 DEF Files, Stored
  <2> HIDE DEF S
  <2>6. Stored(S, shards')
    BY <2>3, <2>4, <2>5 DEF Stored
  <2>7. DOMAIN shards' = Files(l)
    <3>1. DOMAIN shards' = DOMAIN shards \cap Files(l)
      BY <2>1 DEF Restrict
    <3> QED BY <2>5, <3>1 DEF Files, S
  <2> QED BY <2>1, <2>2, <2>3, <2>6, <2>7 DEF WriteInv, Whole, S
<1> QED BY <1>1, <1>2, <1>3, <1>4 DEF LatticeStep

----------------------------------------------------------------------------
(* Hatch                                                                   *)

(* lattice.Run is at work only at its place in the pass; once it has       *)
(* returned the digest on disk is the one of its lattice.  With no hatch   *)
(* killed yet, that lattice is whole whenever lattice.Run is not at work.  *)
MergeInv ==
  /\ RunInv /\ WriteInv
  /\ run.step # "off" => pc = "writing"
  /\ pc \in {"buildsync", "finish"} => sha = run.lattice /\ sha # None
  /\ kills = 0 /\ run.step = "off" /\ sha # None => Whole(sha)

(* The lattice of a pass has the shape that splitting expects.             *)
LEMMA BuiltShaped ==
  ASSUME NEW d, NEW c, NEW t
  PROVE  Shaped(buildLattice(d, c, t))
<1> DEFINE files == [apps |-> d.apps, note |-> d.note, entries |-> d.entries,
                     version |-> d.version, digests |-> d.digests,
                     bricks |-> d.bricks, listing |-> d.listing, log |-> d.log,
                     shards |-> t.shards]
           dirs == [b \in t.dirs |->
                      [dispatch |-> b \in t.dispatch,
                       render |-> IF b \in t.renders \cap DOMAIN d.renders
                                  THEN d.renders[b] ELSE NoDigest,
                       synced |-> b \in d.synced]]
<1>1. buildLattice(d, c, t) = [catalog |-> c, tree |-> [files |-> files, dirs |-> dirs]]
  BY DEF buildLattice, enrichTree
<1>2. DOMAIN dirs = t.dirs /\ dirs = [b \in DOMAIN dirs |-> dirs[b]]
  OBVIOUS
<1> HIDE DEF files, dirs
<1>4. /\ buildLattice(d, c, t).catalog = c
      /\ buildLattice(d, c, t).tree = [files |-> files, dirs |-> dirs]
      /\ buildLattice(d, c, t).tree.files = files /\ buildLattice(d, c, t).tree.dirs = dirs
  BY <1>1, SMT
<1> QED BY <1>1, <1>2, <1>4 DEF Shaped

(* No lattice has that shape when there is none.                           *)
LEMMA ShapedIsSome ==
  ASSUME NEW l, Shaped(l)
  PROVE  l # None
<1>1. "none" \notin DOMAIN l
  BY DEF Shaped
<1>2. "none" \in DOMAIN None
  BY DEF None
<1> QED BY <1>1, <1>2

(* What a step that writes no shard keeps.                                 *)
LEMMA QuietStep ==
  ASSUME MergeInv, UNCHANGED <<shards, index, sha>>, kills' = kills,
         \/ run' = run /\ (run.step # "off" => pc' = "writing")
         \/ run' = Idle /\ run.step = "off",
         pc' \in {"buildsync", "finish"} => pc \in {"buildsync", "finish"} /\ run' = run
  PROVE  MergeInv'
<1>1. CASE run' = run
  BY <1>1 DEF MergeInv, RunInv, WriteInv, Whole
<1>2. CASE run' = Idle /\ run.step = "off"
  <2>1. run'.step = "off" /\ RunInv'
    BY <1>2 DEF Idle, RunInv
  <2> QED BY <1>2, <2>1 DEF MergeInv, WriteInv, Whole
<1> QED BY <1>1, <1>2

(* The invariant holds at first.                                           *)
LEMMA MergeInit ==
  Init => MergeInv
<1> SUFFICES ASSUME Init PROVE MergeInv
  OBVIOUS
<1>1. pc = "idle" /\ sha = None /\ run = Idle
  BY DEF Init, LatticeInit
<1>2. run.step = "off" /\ RunInv
  BY <1>1 DEF Idle, RunInv
<1> QED BY <1>1, <1>2 DEF MergeInv, WriteInv

(* lattice.Run begins: with the short cut nothing is written, and without  *)
(* it nothing is written yet.                                              *)
LEMMA BeginMerge ==
  ASSUME MergeInv, LatticeBegin
  PROVE  MergeInv'
<1> DEFINE lat == buildLattice(disk, catalog, tree)
<1>1. Shaped(lat) /\ lat # None
  BY BuiltShaped, ShapedIsSome
<1>2. /\ run' = [step |-> IF sha = lat THEN "off" ELSE "shards", lattice |-> lat,
                 left |-> IF sha = lat THEN {} ELSE splitIntoShards(lat)]
      /\ UNCHANGED <<shards, index, sha>> /\ kills' = kills /\ run.step = "off"
  BY DEF LatticeBegin, Begin, Unchanged, userVars
<1>3. pc' = IF run'.step = "off" THEN "buildsync" ELSE "writing"
  BY DEF LatticeBegin
<1> HIDE DEF lat
<1>4. /\ run'.step = IF sha = lat THEN "off" ELSE "shards"
      /\ run'.lattice = lat /\ RunInv'
      /\ run'.left = IF sha = lat THEN {} ELSE splitIntoShards(lat)
  BY <1>2 DEF RunInv
<1>5. CASE sha = lat
  BY <1>1, <1>2, <1>3, <1>4, <1>5 DEF MergeInv, WriteInv, Whole
<1>6. CASE sha # lat
  <2>1. splitIntoShards(lat) # {}
    BY SplitIs DEF Split
  <2>2. Stored(splitIntoShards(lat) \ splitIntoShards(lat), shards)
    BY DEF Stored
  <2>3. WriteInv'
    BY <1>1, <1>2, <1>4, <1>6, <2>1, <2>2 DEF WriteInv
  <2> QED BY <1>3, <1>4, <1>6, <2>3 DEF MergeInv
<1> QED BY <1>5, <1>6

(* The invariant is kept.                                                  *)
LEMMA MergeStep ==
  ASSUME HatchTypes, MergeInv, [Next]_vars
  PROVE  MergeInv'
<1>2. CASE \E m \in {"cycle", "validate"} : Start(m)
  <2>1. pc = "idle" /\ pc' = "snapshot" /\ UNCHANGED <<shards, index, sha, run, kills>>
    BY <1>2 DEF Start, latticeVars
  <2> QED BY <2>1, QuietStep DEF MergeInv
<1>3. CASE Before
  <2>1. UNCHANGED <<shards, index, sha, run>> /\ pc \in Pre /\ pc' \in Pre
    BY <1>3, BeforeMoves
  <2>2. kills' = kills
    BY <1>3 DEF Before, Snapshot, Seed, PhaseA, userVars
  <2> QED BY <2>1, <2>2, QuietStep DEF MergeInv, Pre
<1>4. CASE ReloadCatalog
  <2>1. pc = "reload" /\ pc' = "dispatch" /\ UNCHANGED <<shards, index, sha, run, kills>>
    BY <1>4 DEF ReloadCatalog, latticeVars, userVars
  <2> QED BY <2>1, QuietStep DEF MergeInv
<1>5. CASE After
  <2>1. /\ UNCHANGED <<shards, index, sha, run>> /\ pc \in {"dispatch", "tree", "buildsync"}
        /\ pc' \in {"tree", "lattice", "finish"} /\ (pc = "buildsync" <=> pc' = "finish")
    BY <1>5, AfterMoves
  <2>2. kills' = kills
    BY <1>5 DEF After, DispatchWorker, SpecLattice, BuildSync, userVars
  <2> QED BY <2>1, <2>2, QuietStep DEF MergeInv
<1>6. CASE LatticeBegin
  BY <1>6, BeginMerge
<1>7. CASE LatticeWrite
  <2>1. LatticeStep /\ kills' = kills
    BY <1>7 DEF LatticeWrite, userVars
  <2>2. pc' = IF run'.step = "off" THEN "buildsync" ELSE "writing"
    BY <1>7 DEF LatticeWrite
  <2>3. /\ WriteInv' /\ RunInv'
        /\ run'.step = "off" => sha' = run'.lattice /\ Whole(sha)'
    BY <2>1, RunWrites DEF MergeInv
  <2>4. run'.step = "off" => sha' # None
    BY <2>3, ShapedIsSome DEF Whole
  <2> QED BY <2>2, <2>3, <2>4 DEF MergeInv
<1>8. CASE Finish
  <2>1. /\ pc = "finish" /\ run' = Idle /\ UNCHANGED <<shards, index, sha>>
        /\ pc' \in {"idle", "snapshot"}
    BY <1>8, FinishMoves
  <2>2. kills' = kills
    BY <1>8 DEF Finish, userVars
  <2> QED BY <2>1, <2>2, QuietStep DEF MergeInv
<1>9. CASE RenderFails
  <2>1. pc = "phaseA" /\ pc' = "idle" /\ UNCHANGED <<shards, index, sha, run, kills>>
    BY <1>9 DEF RenderFails, Return, latticeVars, userVars
  <2> QED BY <2>1, QuietStep DEF MergeInv
<1>10. CASE BuildFails
  <2>1. /\ pc = "buildsync" /\ pc' = "idle" /\ UNCHANGED <<shards, index, sha, kills>>
        /\ run' = Idle
    BY <1>10 DEF BuildFails, Return, userVars
  <2> QED BY <2>1, QuietStep DEF MergeInv
<1>11. CASE Killed
  <2>1. pc' = "idle" /\ run' = Idle /\ kills' = kills + 1
    BY <1>11 DEF Killed, LatticeKilled, Return
  <2>2. kills' # 0
    BY <2>1, SMT DEF HatchTypes, UserTypes
  <2>3. run'.step = "off" /\ RunInv'
    BY <2>1 DEF Idle, RunInv
  <2> QED BY <2>1, <2>2, <2>3 DEF MergeInv, WriteInv
<1>12. CASE User
  <2>1. UNCHANGED <<shards, index, sha, run, pc>>
    BY <1>12, UserMoves
  <2>2. kills' = kills
    BY <1>12 DEF User, Declare, Bump, Edit
  <2> QED BY <2>1, <2>2, QuietStep DEF MergeInv
<1>13. CASE UNCHANGED vars
  <2>1. UNCHANGED <<shards, index, sha, run, pc, kills>>
    BY <1>13 DEF vars, latticeVars, userVars
  <2> QED BY <2>1, QuietStep DEF MergeInv
<1>14. Ended => RenderFails \/ BuildFails \/ Killed
  BY DEF Ended
<1> QED BY <1>2, <1>3, <1>4, <1>5, <1>6, <1>7, <1>8, <1>9, <1>10, <1>11, <1>12, <1>13,
         <1>14, Steps

(* The invariant holds.                                                    *)
LEMMA MergeInvariant ==
  Spec => [](HatchTypes /\ MergeInv)
<1>1. Init => HatchTypes /\ MergeInv
  BY TypeInit, MergeInit
<1>2. HatchTypes /\ MergeInv /\ [Next]_vars => (HatchTypes /\ MergeInv)'
  BY TypeStep, MergeStep
<1> QED BY <1>1, <1>2, PTL DEF Spec

(* As long as no hatch was killed, the shards can be merged between        *)
(* lattice.Run and the end of every pass, and give the lattice of the pass:*)
(* the one it wrote, or the one an earlier pass wrote and it found in      *)
(* _index.sha256 (hatch.go, "Order: lattice BEFORE buildsync").            *)
THEOREM ShardsMerge ==
  Spec => [](kills = 0 => MergeGivesLattice)
<1>1. MergeInv => (kills = 0 => MergeGivesLattice)
  <2> SUFFICES ASSUME MergeInv, kills = 0, pc \in {"buildsync", "finish"}
               PROVE  MergeShards = run.lattice
    BY DEF MergeGivesLattice
  <2>1. run.step = "off" /\ sha = run.lattice /\ sha # None
    BY DEF MergeInv
  <2> QED BY <2>1, MergeIs DEF MergeInv
<1> QED BY <1>1, MergeInvariant, PTL

(* Whatever was killed before: when lattice.Run has written its shards, its*)
(* manifest and its digest and has removed the old shards, the shards can  *)
(* be merged and give its lattice.  So whatever an interrupted run left in *)
(* var/lattice, a pass that writes repairs it.                             *)
THEOREM WrittenShardsMerge ==
  Spec => [][pc = "writing" /\ pc' = "buildsync" => MergeGivesLattice']_vars
<1>1. ASSUME HatchTypes, MergeInv, [Next]_vars, pc = "writing", pc' = "buildsync"
      PROVE  Whole(sha)' /\ sha' = run'.lattice
  <2>1. LatticeWrite
    <3>1. ~UNCHANGED vars
      BY <1>1 DEF vars
    <3>2. ~\E m \in {"cycle", "validate"} : Start(m)
      BY <1>1 DEF Start
    <3>3. ~Before /\ ~ReloadCatalog /\ ~After /\ ~LatticeBegin /\ ~Finish /\ ~Ended /\ ~User
      BY <1>1, BeforeMoves, ReloadMoves, AfterMoves, BeginMoves, FinishMoves, EndedMoves,
         UserMoves DEF Pre
    <3> QED BY <1>1, <3>1, <3>2, <3>3, Steps
  <2>2. LatticeStep /\ run'.step = "off"
    BY <1>1, <2>1 DEF LatticeWrite
  <2> QED BY <1>1, <2>2, RunWrites DEF MergeInv
<1>2. (Whole(sha) => MergeShards = sha)'
  BY MergeIs, PTL
<1>3. HatchTypes /\ MergeInv /\ [Next]_vars
        => [pc = "writing" /\ pc' = "buildsync" => MergeGivesLattice']_vars
  BY <1>1, <1>2 DEF MergeGivesLattice
<1> QED BY <1>3, MergeInvariant, PTL DEF Spec
============================================================================
