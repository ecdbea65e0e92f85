-------------------------- MODULE ArtifactFSProofs --------------------------
(***************************************************************************)
(* Proofs, for every set of blobs, paths, commits and branches, any number *)
(* of requests at once and any number of workers, that the generation the  *)
(* resolver shows is never pruned, that the mount keeps its types, that a  *)
(* row of the overlay has its backing file whenever nothing is under way,  *)
(* and that with one worker over an intact cache no read and no promoted   *)
(* file is torn.                                                           *)
(*                                                                         *)
(* First comes what the requests and the daemon keep of the mount apart    *)
(* from what the hydrator does for them: the generations, the locks a      *)
(* request on its way holds, and the rows and files of the paths at which  *)
(* nothing is under way.  What the hydrator keeps is in HydratorProofs;    *)
(* the two are put together at the end.                                    *)
(***************************************************************************)
EXTENDS ArtifactFS, HydratorProofs

\* The leaves are for Zenon, but for those that name another prover.
USE Zenon

-----------------------------------------------------------------------------
(* The generations *)

\* Between two changes of HEAD the resolver shows the current generation, and
\* while onHEADChanged is at work it may show the one before: PublishGeneration
\* must find them in this relation to keep the right ones.
GenerationInv ==
  /\ current \in Nat /\ DOMAIN snap \subseteq 1..current
  /\ head \in Branch /\ tip \in [Branch -> Commit]
  /\ \A g \in DOMAIN snap : snap[g] \in Commit
  /\ current \in DOMAIN snap /\ gen \in DOMAIN snap
  /\ daemon \in {"watch", "changed"} => gen = current

\* PublishGeneration keeps the current generation and adds the next one.
LEMMA PublishKeeps ==
  ASSUME NEW k \in Commit, current \in Nat, current \in DOMAIN snap,
         DOMAIN snap \subseteq 1..current,
         \A g \in DOMAIN snap : snap[g] \in Commit, Publish(k)
  PROVE  /\ current' \in Nat /\ DOMAIN snap' \subseteq 1..current'
         /\ current' \in DOMAIN snap' /\ current \in DOMAIN snap'
         /\ \A g \in DOMAIN snap' : snap'[g] \in Commit
<1> DEFINE kept == {h \in DOMAIN snap : h >= current} \cup {current + 1}
<1>1. current' = current + 1 /\ snap' = [g \in kept |-> IF g = current + 1 THEN k ELSE snap[g]]
  BY DEF Publish
<1>2. current + 1 \in Nat /\ 1 \in Nat /\ current \in 1..current
  BY SMT
<1>3. kept \subseteq 1..(current + 1)
  BY <1>2, SMT
<1>4. current \in kept /\ current + 1 \in kept
  BY <1>2, SMT
<1>5. \A g \in kept : g = current + 1 \/ snap[g] \in Commit
  OBVIOUS
<1> HIDE DEF kept
<1> QED
  BY <1>1, <1>2, <1>3, <1>4, <1>5

\* The first generation is current and shown.
LEMMA GenerationInit == Init => GenerationInv
  BY CloneAssumption, SMT DEF Init, GenerationInv

\* A step of a request leaves the generations, git and the daemon alone.
LEMMA EngineFrame ==
  ASSUME NEW c \in Client, EngineStep(c)
  PROVE  UNCHANGED <<scope, snapVars, gitVars, watchVars, daemon, listed>>
<1>1. CASE Begin(c) \/ ResolvePath(c) \/ HydrateFails(c) \/ ReadCache(c) \/ CopyOnWrite(c)
  BY <1>1 DEF Begin, ResolvePath, HydrateFails, ReadCache, CopyOnWrite
<1>2. CASE Promote(c) \/ ReadFile(c) \/ CreateFile(c) \/ CreateRow(c) \/ GetRow(c)
  BY <1>2 DEF Promote, ReadFile, CreateFile, CreateRow, GetRow
<1>3. CASE WriteAt(c) \/ WriteRow(c) \/ Truncate(c) \/ RenameRows(c)
  BY <1>3 DEF WriteAt, WriteRow, Truncate, RenameRows
<1>4. CASE RenameFile(c) \/ RemoveFile(c) \/ RemoveRow(c)
  BY <1>4 DEF RenameFile, RemoveFile, RemoveRow
<1> QED
  BY <1>1, <1>2, <1>3, <1>4, Zenon DEF EngineStep

\* No step breaks the relation: HEADChanged publishes only from "changed",
\* where the generation shown is the current one.
LEMMA GenerationStep == GenerationInv /\ [Next]_vars => GenerationInv'
<1> SUFFICES ASSUME GenerationInv, [Next]_vars PROVE GenerationInv'
  OBVIOUS
<1>1. ASSUME UNCHANGED <<snapVars, gitVars, daemon>> PROVE GenerationInv'
  BY <1>1 DEF snapVars, gitVars, GenerationInv
<1>2. tip[head] \in Commit
  BY DEF GenerationInv
<1>3. CASE HEADChanged
  <2>1. daemon = "changed" /\ UNCHANGED <<gen, head, tip>>
    BY <1>3 DEF HEADChanged, gitVars
  <2>2. \/ daemon' = "watch" /\ UNCHANGED <<snap, current>>
        \/ Publish(tip[head]) /\ daemon' = "reconcile"
    BY <1>3 DEF HEADChanged
  <2>3. CASE daemon' = "watch" /\ UNCHANGED <<snap, current>>
    BY <2>1, <2>3 DEF GenerationInv
  <2>4. CASE Publish(tip[head]) /\ daemon' = "reconcile"
    <3>1. /\ current' \in Nat /\ DOMAIN snap' \subseteq 1..current'
          /\ current' \in DOMAIN snap' /\ current \in DOMAIN snap'
          /\ \A g \in DOMAIN snap' : snap'[g] \in Commit
      BY <1>2, <2>4, PublishKeeps DEF GenerationInv
    <3> QED
      BY <2>1, <2>4, <3>1 DEF GenerationInv
  <2> QED
    BY <2>2, <2>3, <2>4
<1>4. CASE Remount
  <2>1. gen' = current' /\ UNCHANGED <<head, tip>>
    BY <1>4 DEF Remount, gitVars
  <2>2. UNCHANGED <<snap, current>> \/ Publish(tip[head])
    BY <1>4 DEF Remount
  <2>3. /\ current' \in Nat /\ DOMAIN snap' \subseteq 1..current' /\ current' \in DOMAIN snap'
        /\ \A g \in DOMAIN snap' : snap'[g] \in Commit
    BY <1>2, <2>2, PublishKeeps DEF GenerationInv
  <2> QED
    BY <2>1, <2>3 DEF GenerationInv
<1>5. CASE Tick \/ PublishFails \/ ListRows \/ DeleteRows \/ RemoveFiles
  <2>1. /\ UNCHANGED <<snapVars, gitVars>>
        /\ daemon' \in {"watch", "changed"} => daemon \in {"watch", "changed"}
    BY <1>5 DEF Tick, PublishFails, ListRows, DeleteRows, RemoveFiles
  <2> QED
    BY <2>1 DEF snapVars, gitVars, GenerationInv
<1>6. CASE SetGeneration
  BY <1>6 DEF SetGeneration, gitVars, GenerationInv
<1>7. ASSUME NEW c \in Client, EngineStep(c) PROVE GenerationInv'
  BY <1>1, <1>7, EngineFrame
<1>8. ASSUME NEW c \in Client, NEW kind, NEW p, NEW to, Open(c, kind, p, to)
      PROVE  GenerationInv'
  BY <1>1, <1>8 DEF Open
<1>9. CASE \E p \in Path : PrefetchDir(p)
  BY <1>1, <1>9 DEF PrefetchDir
<1>10. ASSUME NEW k \in Commit, CommitTo(k) PROVE GenerationInv'
  <2>1. tip' = [tip EXCEPT ![head] = k] /\ UNCHANGED <<snapVars, head, daemon>>
    BY <1>10 DEF CommitTo
  <2> QED
    BY <2>1 DEF snapVars, GenerationInv
<1>11. ASSUME NEW b \in Branch, Checkout(b) PROVE GenerationInv'
  BY <1>11 DEF Checkout, snapVars, GenerationInv
<1>12. CASE UNCHANGED fsVars \/ UNCHANGED vars
  BY <1>1, <1>12 DEF fsVars, vars
<1> QED
  BY <1>3, <1>4, <1>5, <1>6, <1>7, <1>8, <1>9, <1>10, <1>11, <1>12, Zenon
  DEF Next, Progress, DaemonStep

\* The generation the resolver reads is always in the snapshot database: the
\* prune of PublishGeneration never takes it away, and SetGeneration, a kill
\* and a remount move to one that is there.
THEOREM ShownGenerationKept == Spec => []GenerationKept
<1>1. GenerationInv => GenerationKept
  BY DEF GenerationInv, GenerationKept
<1> QED
  BY <1>1, GenerationInit, GenerationStep, PTL DEF Spec

\* The watcher's and the daemon's own state.
WatchTypes ==
  /\ scope \in Scopes /\ headRef \in Branch
  /\ loose \subseteq Branch /\ firstSeenChange \subseteq Branch
  /\ stamp \in [RefFile -> Nat] /\ prev \in [RefFile -> Nat]
  /\ daemon \in {"watch", "changed", "reconcile", "delete", "remove", "show"}

\* The poller starts with what it has seen of HEAD and its branch, or with nothing.
LEMMA WatchInit == Init => WatchTypes
<1> SUFFICES ASSUME Init PROVE WatchTypes
  OBVIOUS
<1>1. /\ scope \in Scopes /\ headRef = Main /\ daemon = "watch"
      /\ loose \in IF scope.moves = 0 THEN {Branch} ELSE {{}, Branch}
      /\ stamp = [f \in RefFile |-> 1]
  BY DEF Init
<1>2. loose \subseteq Branch
  BY <1>1
<1>3. /\ firstSeenChange = {} \/ firstSeenChange = {Main} \ loose
      /\ \/ prev = [f \in RefFile |-> 0]
         \/ prev = [f \in RefFile |-> IF f \in (loose \cap {Main}) \cup {HeadFile}
                                      THEN 1 ELSE 0]
  BY DEF Init
<1>4. prev \in [RefFile -> Nat] /\ stamp \in [RefFile -> Nat]
  BY <1>1, <1>3, SMT
<1> QED
  BY <1>1, <1>2, <1>3, <1>4, CloneAssumption DEF WatchTypes

\* A look at HEAD copies mtimes, git only counts them up, and a remount starts anew.
LEMMA WatchStep == WatchTypes /\ GenerationInv /\ [Next]_vars => WatchTypes'
<1> SUFFICES ASSUME WatchTypes, GenerationInv, [Next]_vars PROVE WatchTypes'
  OBVIOUS
<1>1. head \in Branch /\ Branch \subseteq RefFile /\ HeadFile \in RefFile
  BY DEF GenerationInv, RefFile
<1>2. ASSUME UNCHANGED <<scope, headRef, loose, stamp, watchVars, daemon>> PROVE WatchTypes'
  BY <1>2 DEF watchVars, WatchTypes
<1>3. CASE Tick
  <2>1. /\ prev' = [f \in RefFile |-> Seen(f)]
        /\ firstSeenChange' \in {firstSeenChange \ {head}, firstSeenChange \cup {head}}
        /\ daemon' \in {"changed", "watch"}
        /\ UNCHANGED <<scope, headRef, loose, stamp>>
    BY <1>3 DEF Tick, snapVars, gitVars
  <2>2. \A f \in RefFile : Seen(f) \in Nat
    BY DEF WatchTypes, Seen
  <2>3. prev' \in [RefFile -> Nat]
    BY <2>1, <2>2
  <2> QED
    BY <1>1, <2>1, <2>3 DEF WatchTypes
<1>4. CASE HEADChanged
  <2>1. /\ headRef' = head /\ daemon' \in {"watch", "reconcile"}
        /\ UNCHANGED <<scope, loose, stamp, watchVars>>
    BY <1>4 DEF HEADChanged, gitVars
  <2> QED
    BY <1>1, <2>1 DEF watchVars, WatchTypes
<1>5. CASE PublishFails \/ ListRows \/ DeleteRows \/ RemoveFiles \/ SetGeneration
  <2>1. /\ daemon' \in {"watch", "delete", "remove", "show"}
        /\ UNCHANGED <<scope, headRef, loose, stamp, watchVars>>
    BY <1>5 DEF PublishFails, ListRows, DeleteRows, RemoveFiles, SetGeneration, snapVars, gitVars
  <2> QED
    BY <2>1 DEF watchVars, WatchTypes
<1>6. CASE Remount
  <2>1. /\ headRef' = head /\ daemon' = "watch" /\ firstSeenChange' = {}
        /\ prev' = [f \in RefFile |-> 0] /\ UNCHANGED <<scope, loose, stamp>>
    BY <1>6 DEF Remount, gitVars
  <2>2. prev' \in [RefFile -> Nat]
    BY <2>1
  <2> QED
    BY <1>1, <2>1, <2>2 DEF WatchTypes
<1>7. ASSUME NEW c \in Client, EngineStep(c) PROVE WatchTypes'
  BY <1>2, <1>7, EngineFrame DEF snapVars, gitVars
<1>8. ASSUME NEW c \in Client, NEW kind, NEW p, NEW to, Open(c, kind, p, to)
      PROVE  WatchTypes'
  BY <1>2, <1>8 DEF Open, snapVars, gitVars
<1>9. CASE \E p \in Path : PrefetchDir(p)
  BY <1>2, <1>9 DEF PrefetchDir, snapVars, gitVars
<1>10. ASSUME NEW f \in RefFile, stamp' = [stamp EXCEPT ![f] = @ + 1]
       PROVE  stamp' \in [RefFile -> Nat]
  BY <1>10, SMT DEF WatchTypes
<1>11. ASSUME NEW k \in Commit, CommitTo(k) PROVE WatchTypes'
  <2>1. /\ stamp' = [stamp EXCEPT ![head] = @ + 1] /\ loose' = loose \cup {head}
        /\ UNCHANGED <<scope, headRef, watchVars, daemon>>
    BY <1>11 DEF CommitTo, snapVars
  <2>2. stamp' \in [RefFile -> Nat]
    BY <1>1, <1>10, <2>1
  <2> QED
    BY <1>1, <2>1, <2>2 DEF watchVars, WatchTypes
<1>12. ASSUME NEW b \in Branch, Checkout(b) PROVE WatchTypes'
  <2>1. /\ stamp' = [stamp EXCEPT ![HeadFile] = @ + 1]
        /\ UNCHANGED <<scope, headRef, loose, watchVars, daemon>>
    BY <1>12 DEF Checkout, snapVars
  <2>2. stamp' \in [RefFile -> Nat]
    BY <1>1, <1>10, <2>1
  <2> QED
    BY <2>1, <2>2 DEF watchVars, WatchTypes
<1>13. CASE UNCHANGED fsVars \/ UNCHANGED vars
  BY <1>2, <1>13 DEF fsVars, vars, snapVars, gitVars
<1> QED
  BY <1>3, <1>4, <1>5, <1>6, <1>7, <1>8, <1>9, <1>11, <1>12, <1>13, Zenon
  DEF Next, Progress, DaemonStep

-----------------------------------------------------------------------------
(* The requests *)

\* A request on its way names paths.
RequestTypes ==
  /\ op \in [Client -> Request]
  /\ \A c \in Client : op[c].pc # "idle" => op[c].path \in Path /\ op[c].to \in Path

OverlayTypes ==
  /\ rows \in [Path -> Row] /\ listed \in [Path -> Row] /\ touched \subseteq Path
  /\ files \in [Path -> {"none", "own", "torn"} \cup Blob]

\* The request of c moves on to pc, or is answered; the others stay.
Moves(c, pc) ==
  /\ RequestTypes'
  /\ op'[c].pc = pc /\ op'[c].kind = op[c].kind
  /\ op'[c].path = op[c].path /\ op'[c].to = op[c].to
  /\ \A d \in Client \ {c} : op'[d] = op[d]
Ends(c) ==
  /\ RequestTypes'
  /\ op'[c] = NoOp /\ op'[c].pc = "idle" /\ op'[c].kind = "none"
  /\ \A d \in Client \ {c} : op'[d] = op[d]

\* The records for "nothing" have the types of the others.
LEMMA NoneTyped ==
  /\ NoRow \in Row /\ ~Live(NoRow) /\ Whiteout \in Row /\ ~Live(Whiteout)
  /\ NoOp \in Request /\ NoOp.pc = "idle" /\ NoOp.kind = "none"
<1>1. NoRow \in Row /\ ~Live(NoRow)
  BY DEF Row, NoRow, Live
<1>2. Whiteout \in Row /\ ~Live(Whiteout)
  BY DEF Row, Whiteout, Live
<1>3. NoOp \in Request /\ NoOp.pc = "idle" /\ NoOp.kind = "none"
  BY <1>1 DEF NoOp, Request, Place
<1> QED
  BY <1>1, <1>2, <1>3

\* A change of the request of c alone.
LEMMA RequestBecomes ==
  ASSUME RequestTypes, NEW c \in Client, NEW new \in Request, op' = [op EXCEPT ![c] = new],
         new.pc # "idle" => new.path \in Path /\ new.to \in Path
  PROVE  RequestTypes' /\ op'[c] = new /\ \A d \in Client \ {c} : op'[d] = op[d]
<1>1. /\ op' \in [Client -> Request] /\ op'[c] = new
      /\ \A d \in Client \ {c} : op'[d] = op[d]
  BY DEF RequestTypes
<1> QED
  BY <1>1 DEF RequestTypes

\* The ways in which the engine moves a request on.
LEMMA RequestMoves ==
  ASSUME RequestTypes, NEW c \in Client, NEW pc \in Place, op[c].pc # "idle", OpGoto(c, pc)
  PROVE  Moves(c, pc)
<1> DEFINE new == [op[c] EXCEPT !.pc = pc]
<1>1. op[c] \in Request /\ op[c].path \in Path /\ op[c].to \in Path
  BY DEF RequestTypes
<1>2. /\ new \in Request /\ new.pc = pc /\ new.kind = op[c].kind
      /\ new.path = op[c].path /\ new.to = op[c].to
  BY <1>1 DEF Request
<1>3. op' = [op EXCEPT ![c] = new]
  BY DEF OpGoto
<1> HIDE DEF new
<1>4. RequestTypes' /\ op'[c] = new /\ \A d \in Client \ {c} : op'[d] = op[d]
  BY <1>1, <1>2, <1>3, RequestBecomes
<1> QED
  BY <1>2, <1>4 DEF Moves

\* The same when it also keeps the row it has read.
LEMMA RequestKeepsRow ==
  ASSUME RequestTypes, NEW c \in Client, NEW pc \in Place, op[c].pc # "idle", NEW row \in Row,
         op' = [op EXCEPT ![c].pc = pc, ![c].row = row]
  PROVE  Moves(c, pc)
<1> DEFINE new == [op[c] EXCEPT !.pc = pc, !.row = row]
<1>1. op[c] \in Request /\ op[c].path \in Path /\ op[c].to \in Path
  BY DEF RequestTypes
<1>2. /\ new \in Request /\ new.pc = pc /\ new.kind = op[c].kind
      /\ new.path = op[c].path /\ new.to = op[c].to
  BY <1>1 DEF Request
<1>3. op' = [op EXCEPT ![c] = new]
  OBVIOUS
<1> HIDE DEF new
<1>4. RequestTypes' /\ op'[c] = new /\ \A d \in Client \ {c} : op'[d] = op[d]
  BY <1>1, <1>2, <1>3, RequestBecomes
<1> QED
  BY <1>2, <1>4 DEF Moves

\* The same when it is answered.
LEMMA RequestEnds ==
  ASSUME RequestTypes, NEW c \in Client, Done(c)
  PROVE  Ends(c)
<1>1. op' = [op EXCEPT ![c] = NoOp]
  BY DEF Done
<1>2. RequestTypes' /\ op'[c] = NoOp /\ \A d \in Client \ {c} : op'[d] = op[d]
  BY <1>1, NoneTyped, RequestBecomes
<1> QED
  BY <1>2, NoneTyped DEF Ends

\* Where each step of the engine leads.
LEMMA EngineMoves ==
  ASSUME RequestTypes, OverlayTypes, NEW c \in Client
  PROVE  /\ Begin(c) => \/ Ends(c) \/ Moves(c, "resolve") \/ Moves(c, "file")
                        \/ ~Reads(c) /\ \/ Moves(c, "unlink") \/ Moves(c, "create")
                                        \/ Moves(c, "apply")
         /\ ResolvePath(c) => \/ Ends(c) \/ Moves(c, "hydrate")
                              \/ ~Reads(c) /\ Moves(c, "create")
         /\ HydrateFails(c) \/ ReadCache(c) \/ ReadFile(c) => Ends(c)
         /\ CopyOnWrite(c) => Moves(c, "promote")
         /\ Promote(c) => Moves(c, "apply")
         /\ CreateFile(c) => Moves(c, "created")
         /\ CreateRow(c) => Ends(c) \/ Moves(c, "apply")
         /\ GetRow(c) => Ends(c) \/ (Live(rows[op[c].path]) /\ Moves(c, "put"))
         /\ WriteAt(c) => Moves(c, "written")
         /\ WriteRow(c) \/ Truncate(c) \/ RenameFile(c) \/ RemoveRow(c) => Ends(c)
         /\ RenameRows(c) => IF Live(rows[op[c].path]) /\ rows[op[c].to] = NoRow
                             THEN Moves(c, "move") ELSE Ends(c)
         /\ RemoveFile(c) => Moves(c, "whiteout")
<1>1. ASSUME Done(c) PROVE Ends(c)
  BY <1>1, RequestEnds
<1>2. ASSUME NEW pc \in Place, op[c].pc # "idle", OpGoto(c, pc) PROVE Moves(c, pc)
  BY <1>2, RequestMoves
<1>3. ASSUME NEW pc \in Place, op[c].pc # "idle", NEW row \in Row,
             op' = [op EXCEPT ![c].pc = pc, ![c].row = row]
      PROVE  Moves(c, pc)
  BY <1>3, RequestKeepsRow
<1>4. op[c].pc # "idle" => op[c].path \in Path /\ rows[op[c].path] \in Row
  BY DEF RequestTypes, OverlayTypes
<1>5. /\ "resolve" \in Place /\ "file" \in Place /\ "unlink" \in Place /\ "create" \in Place
      /\ "apply" \in Place /\ "hydrate" \in Place /\ "promote" \in Place
      /\ "created" \in Place /\ "put" \in Place /\ "written" \in Place /\ "move" \in Place
      /\ "whiteout" \in Place
  BY DEF Place
<1>6. ASSUME Begin(c)
      PROVE  \/ Ends(c) \/ Moves(c, "resolve") \/ Moves(c, "file")
             \/ ~Reads(c) /\ (Moves(c, "unlink") \/ Moves(c, "create") \/ Moves(c, "apply"))
  <2>1. op[c].pc = "open"
    BY <1>6 DEF Begin, OpAt
  <2>2. \/ Live(rows[op[c].path]) \/ rows[op[c].path] = Whiteout
        \/ rows[op[c].path] = NoRow
    BY <1>4, <2>1 DEF Row, Live
  <2>3. \/ Done(c) \/ OpGoto(c, "file") \/ OpGoto(c, "resolve")
        \/ ~Reads(c) /\ (OpGoto(c, "unlink") \/ OpGoto(c, "create") \/ OpGoto(c, "apply"))
    BY <1>6, <2>2 DEF Begin, Reads
  <2> QED
    BY <1>1, <1>2, <1>5, <2>1, <2>3
<1>7. ASSUME ResolvePath(c)
      PROVE  Ends(c) \/ Moves(c, "hydrate") \/ (~Reads(c) /\ Moves(c, "create"))
  <2>1. op[c].pc = "resolve"
    BY <1>7 DEF ResolvePath, OpAt
  <2>2. Done(c) \/ OpGoto(c, "hydrate") \/ (~Reads(c) /\ OpGoto(c, "create"))
    BY <1>7 DEF ResolvePath, Reads
  <2> QED
    BY <1>1, <1>2, <1>5, <2>1, <2>2
<1>8. ASSUME HydrateFails(c) \/ ReadCache(c) \/ ReadFile(c) PROVE Ends(c)
  BY <1>1, <1>8 DEF HydrateFails, ReadCache, ReadFile
<1>9. ASSUME CopyOnWrite(c) PROVE Moves(c, "promote")
  BY <1>2, <1>5, <1>9 DEF CopyOnWrite, OpAt
<1>10. ASSUME Promote(c) PROVE Moves(c, "apply")
  BY <1>2, <1>5, <1>10 DEF Promote, OpAt
<1>11. ASSUME CreateFile(c) PROVE Moves(c, "created")
  BY <1>2, <1>5, <1>11 DEF CreateFile, OpAt
<1>12. ASSUME CreateRow(c) PROVE Ends(c) \/ Moves(c, "apply")
  BY <1>1, <1>2, <1>5, <1>12 DEF CreateRow, OpAt
<1>13. ASSUME GetRow(c) PROVE Ends(c) \/ (Live(rows[op[c].path]) /\ Moves(c, "put"))
  <2>1. op[c].pc = "apply"
    BY <1>13 DEF GetRow, OpAt
  <2>2. \/ Done(c)
        \/ /\ Live(rows[op[c].path])
           /\ op' = [op EXCEPT ![c].pc = "put", ![c].row = rows[op[c].path]]
    BY <1>13 DEF GetRow
  <2> QED
    BY <1>1, <1>3, <1>4, <1>5, <2>1, <2>2
<1>14. ASSUME WriteAt(c) PROVE Moves(c, "written")
  BY <1>2, <1>5, <1>14 DEF WriteAt, OpAt
<1>15. ASSUME WriteRow(c) \/ Truncate(c) \/ RenameFile(c) \/ RemoveRow(c) PROVE Ends(c)
  BY <1>1, <1>15 DEF WriteRow, Truncate, RenameFile, RemoveRow
<1>16. ASSUME RenameRows(c)
       PROVE  IF Live(rows[op[c].path]) /\ rows[op[c].to] = NoRow
              THEN Moves(c, "move") ELSE Ends(c)
  <2>1. op[c].pc = "apply"
    BY <1>16 DEF RenameRows, OpAt
  <2>2. IF Live(rows[op[c].path]) /\ rows[op[c].to] = NoRow
        THEN op' = [op EXCEPT ![c].pc = "move", ![c].row = rows[op[c].path]] ELSE Done(c)
    BY <1>16 DEF RenameRows
  <2> QED
    BY <1>1, <1>3, <1>4, <1>5, <2>1, <2>2
<1>17. ASSUME RemoveFile(c) PROVE Moves(c, "whiteout")
  BY <1>2, <1>5, <1>17 DEF RemoveFile, OpAt
<1> QED
  BY <1>6, <1>7, <1>8, <1>9, <1>10, <1>11, <1>12, <1>13, <1>14, <1>15, <1>16, <1>17, Zenon

\* A request that takes a step is under way, and stays typed.
LEMMA EngineRequest ==
  ASSUME RequestTypes, OverlayTypes, NEW c \in Client, EngineStep(c)
  PROVE  op[c].pc # "idle" /\ op[c].path \in Path /\ op[c].to \in Path /\ RequestTypes'
<1>1. RequestTypes'
  BY EngineMoves, Zenon DEF EngineStep, Moves, Ends
<1>2. op[c].pc # "idle"
  <2>1. CASE Begin(c) \/ ResolvePath(c) \/ HydrateFails(c) \/ ReadCache(c) \/ CopyOnWrite(c)
    BY <2>1 DEF Begin, ResolvePath, HydrateFails, ReadCache, CopyOnWrite, OpAt
  <2>2. CASE Promote(c) \/ ReadFile(c) \/ CreateFile(c) \/ CreateRow(c) \/ GetRow(c)
    BY <2>2 DEF Promote, ReadFile, CreateFile, CreateRow, GetRow, OpAt
  <2>3. CASE WriteAt(c) \/ WriteRow(c) \/ Truncate(c) \/ RenameRows(c)
    BY <2>3 DEF WriteAt, WriteRow, Truncate, RenameRows, OpAt
  <2>4. CASE RenameFile(c) \/ RemoveFile(c) \/ RemoveRow(c)
    BY <2>4 DEF RenameFile, RemoveFile, RemoveRow, OpAt
  <2> QED
    BY <2>1, <2>2, <2>3, <2>4, Zenon DEF EngineStep
<1> QED
  BY <1>1, <1>2 DEF RequestTypes

-----------------------------------------------------------------------------
(* The calls of the requests *)

\* A request has a call while it hydrates, of the blob it resolved, and keeps
\* what it was told until the copy has its row.
CallInv ==
  \A c \in Client :
    /\ op[c].pc \notin {"hydrate", "promote"} => call[c].pc = "idle"
    /\ op[c].pc \in {"hydrate", "promote"} => call[c].oid \in Blob
    /\ op[c].pc = "promote" => call[c].pc = "ok"

-----------------------------------------------------------------------------
(* The rows and their files *)

Content == {"none", "own", "torn"} \cup Blob

\* Every step of a request keeps the overlay's types.
LEMMA EngineOverlay ==
  ASSUME RequestTypes, OverlayTypes, CallInv, NEW c \in Client, EngineStep(c)
  PROVE  OverlayTypes'
<1> DEFINE p == op[c].path
<1>1. p \in Path /\ op[c].to \in Path
  BY EngineRequest
<1>2. /\ rows \in [Path -> Row] /\ files \in [Path -> Content] /\ listed' = listed
  BY EngineFrame DEF OverlayTypes, Content
<1>3. ASSUME NEW row \in Row, Upsert(p, row), UNCHANGED files
      PROVE  OverlayTypes'
  <2>1. rows' \in [Path -> Row] /\ touched' \subseteq Path
    BY <1>1, <1>2, <1>3 DEF Upsert, OverlayTypes
  <2> QED
    BY <1>2, <1>3, <2>1 DEF OverlayTypes
<1>4. ASSUME NEW v \in Content, files' = files \/ files' = [files EXCEPT ![p] = v],
             UNCHANGED <<rows, touched>>
      PROVE  OverlayTypes'
  <2>1. files' \in [Path -> Content]
    BY <1>1, <1>2, <1>4
  <2> QED
    BY <1>2, <1>4, <2>1 DEF OverlayTypes, Content
<1>5. "none" \in Content /\ "own" \in Content /\ "torn" \in Content
  BY DEF Content
<1>6. CASE Begin(c) \/ ResolvePath(c) \/ HydrateFails(c) \/ ReadCache(c) \/ ReadFile(c)
           \/ GetRow(c)
  <2>1. UNCHANGED <<rows, files, touched>>
    BY <1>6 DEF Begin, ResolvePath, HydrateFails, ReadCache, ReadFile, GetRow
  <2> QED
    BY <1>4, <1>5, <2>1
<1>7. CASE CopyOnWrite(c)
  <2> DEFINE v == IF cache[call[c].oid] = "whole" THEN call[c].oid ELSE "torn"
  <2>1. /\ op[c].pc = "hydrate" /\ files' = [files EXCEPT ![p] = v]
        /\ UNCHANGED <<rows, touched>>
    BY <1>7 DEF CopyOnWrite, OpAt
  <2>2. v \in Content
    BY <2>1 DEF CallInv, Content
  <2> HIDE DEF v
  <2> QED
    BY <1>4, <2>1, <2>2
<1>8. CASE CreateFile(c)
  BY <1>4, <1>5, <1>8 DEF CreateFile
<1>9. CASE WriteAt(c)
  <2>1. /\ files' = [files EXCEPT ![p] = IF @ = "none" THEN "torn" ELSE @]
        /\ UNCHANGED <<rows, touched>>
    BY <1>9 DEF WriteAt
  <2>2. files' = [files EXCEPT ![p] = "torn"] \/ files' = files
    BY <1>1, <1>2, <2>1
  <2> QED
    BY <1>4, <1>5, <2>1, <2>2
<1>10. CASE Truncate(c)
  <2>1. /\ files' = [files EXCEPT ![p] = "own"] \/ files' = files
        /\ UNCHANGED <<rows, touched>>
    BY <1>10 DEF Truncate
  <2> QED
    BY <1>4, <1>5, <2>1
<1>11. CASE RemoveFile(c)
  <2>1. /\ files' = [files EXCEPT ![p] = "none"] \/ files' = files
        /\ UNCHANGED <<rows, touched>>
    BY <1>11 DEF RemoveFile
  <2> QED
    BY <1>4, <1>5, <2>1
<1>12. CASE Promote(c)
  <2> DEFINE row == [kind |-> "modify", source |-> call[c].oid]
  <2>1. op[c].pc = "promote" /\ Upsert(p, row) /\ UNCHANGED files
    BY <1>12 DEF Promote, OpAt
  <2>2. call[c].oid \in Blob
    BY <2>1 DEF CallInv
  <2>3. row \in Row
    BY <2>2 DEF Row
  <2> HIDE DEF row
  <2> QED
    BY <1>3, <2>1, <2>3
<1>13. CASE CreateRow(c)
  <2> DEFINE row == [kind |-> "create", source |-> NoBlob]
  <2>1. Upsert(p, row) /\ UNCHANGED files
    BY <1>13 DEF CreateRow
  <2>2. row \in Row
    BY DEF Row
  <2> HIDE DEF row
  <2> QED
    BY <1>3, <2>1, <2>2
<1>14. CASE WriteRow(c)
  <2> DEFINE row == [op[c].row EXCEPT !.kind = IF @ = "create" THEN @ ELSE "modify"]
  <2>1. Upsert(p, row) /\ UNCHANGED files
    BY <1>14 DEF WriteRow
  <2>2. op[c].row \in Row
    BY DEF RequestTypes, Request
  <2>3. row \in Row
    BY <2>2, SMT DEF Row, NoRow, Whiteout
  <2> HIDE DEF row
  <2> QED
    BY <1>3, <2>1, <2>3
<1>15. CASE RemoveRow(c)
  BY <1>3, <1>15, NoneTyped DEF RemoveRow
<1>16. CASE RenameRows(c)
  <2> DEFINE new == [kind |-> "rename", source |-> rows[p].source]
  <2>1. rows[p] \in Row
    BY <1>1, <1>2
  <2>2. Live(rows[p]) => rows[p].source \in Blob \cup {NoBlob}
    BY <2>1, NoneTyped DEF Row
  <2>3. Live(rows[p]) => new \in Row
    BY <2>2 DEF Row
  <2>4. /\ \/ UNCHANGED <<rows, touched>>
           \/ /\ Live(rows[p]) /\ touched' = touched \cup {p, op[c].to}
              /\ rows' = [rows EXCEPT ![p] = Whiteout, ![op[c].to] = new]
        /\ UNCHANGED files
    BY <1>16 DEF RenameRows
  <2> HIDE DEF new
  <2>5. CASE UNCHANGED <<rows, touched>>
    BY <1>2, <2>4, <2>5 DEF OverlayTypes
  <2>6. CASE /\ Live(rows[p]) /\ touched' = touched \cup {p, op[c].to}
             /\ rows' = [rows EXCEPT ![p] = Whiteout, ![op[c].to] = new]
    <3>1. new \in Row /\ Whiteout \in Row
      BY <2>3, <2>6, NoneTyped
    <3>2. rows \in [Path -> Row] /\ touched \subseteq Path
      BY <1>2 DEF OverlayTypes
    <3>3. rows' \in [Path -> Row]
      BY <2>6, <3>1, <3>2
    <3>4. touched' \subseteq Path
      BY <1>1, <1>2, <2>6, <3>2
    <3> QED
      BY <1>2, <2>4, <3>3, <3>4 DEF OverlayTypes
  <2> QED
    BY <2>4, <2>5, <2>6
<1>17. CASE RenameFile(c)
  <2>1. op[c].row \in Row
    BY DEF RequestTypes, Request
  <2>2. /\ \/ rows' = [rows EXCEPT ![op[c].to] = NoRow, ![p] = op[c].row] /\ UNCHANGED files
           \/ files' = [files EXCEPT ![op[c].to] = files[p], ![p] = "none"] /\ UNCHANGED rows
        /\ UNCHANGED touched
    BY <1>17 DEF RenameFile
  <2>3. rows' \in [Path -> Row]
    BY <1>1, <1>2, <2>1, <2>2, NoneTyped
  <2>4. files' \in [Path -> Content]
    BY <1>1, <1>2, <1>5, <2>2
  <2> QED
    BY <1>2, <2>2, <2>3, <2>4 DEF OverlayTypes, Content
<1> QED
  BY <1>6, <1>7, <1>8, <1>9, <1>10, <1>11, <1>12, <1>13, <1>14, <1>15, <1>16, <1>17, Zenon
  DEF EngineStep

Calm == env \notin {"overlap", "crash"}

\* Requests that change a path hold its lock, and those that read change none.
LockInv ==
  /\ \A c \in Client : Reads(c) => op[c].pc \in {"open", "resolve", "hydrate", "file"}
  /\ \A c \in Client : op[c].pc # "idle" /\ op[c].kind = "rename" => op[c].path # op[c].to
  /\ \A c, d \in Client :
       c # d /\ Changing(c) /\ Changing(d) =>
         /\ op[c].path # op[d].path /\ op[c].path # op[d].to /\ op[c].to # op[d].to
  /\ Reconciling => \A c \in Client : ~Changing(c)

\* A step of c that takes no lock.
LEMMA LocksStay ==
  ASSUME LockInv, NEW c \in Client, UNCHANGED daemon, \A d \in Client \ {c} : op'[d] = op[d],
         Reads(c)' => op'[c].pc \in {"open", "resolve", "hydrate", "file"},
         op'[c].pc # "idle" /\ op'[c].kind = "rename" => op'[c].path # op'[c].to,
         Changing(c)' => /\ Changing(c)
                         /\ op'[c].path = op[c].path /\ op'[c].to = op[c].to
  PROVE  LockInv'
<1>1. \A d \in Client \ {c} : (Reads(d)' <=> Reads(d)) /\ (Changing(d)' <=> Changing(d))
  BY DEF Reads, Changing
<1>2. \A d \in Client :
        Changing(d)' => Changing(d) /\ op'[d].path = op[d].path /\ op'[d].to = op[d].to
  BY <1>1
<1>3. ASSUME NEW d \in Client
      PROVE  /\ Reads(d)' => op'[d].pc \in {"open", "resolve", "hydrate", "file"}
             /\ op'[d].pc # "idle" /\ op'[d].kind = "rename" => op'[d].path # op'[d].to
  <2>1. CASE d = c
    BY <2>1
  <2>2. CASE d # c
    <3>1. op'[d] = op[d] /\ (Reads(d)' <=> Reads(d))
      BY <1>1, <2>2
    <3> QED
      BY <3>1 DEF LockInv
  <2> QED
    BY <2>1, <2>2
<1>4. ASSUME NEW d \in Client, NEW e \in Client, d # e, Changing(d)', Changing(e)'
      PROVE  /\ op'[d].path # op'[e].path /\ op'[d].path # op'[e].to
             /\ op'[d].to # op'[e].to
  <2>1. Changing(d) /\ Changing(e)
    BY <1>2, <1>4
  <2>2. /\ op'[d].path = op[d].path /\ op'[d].to = op[d].to
        /\ op'[e].path = op[e].path /\ op'[e].to = op[e].to
    BY <1>2, <1>4
  <2>3. /\ op[d].path # op[e].path /\ op[d].path # op[e].to /\ op[d].to # op[e].to
    BY <1>4, <2>1 DEF LockInv
  <2> QED
    BY <2>2, <2>3
<1>5. Reconciling' => \A d \in Client : ~Changing(d)'
  BY <1>2 DEF LockInv, Reconciling
<1> QED
  BY <1>3, <1>4, <1>5 DEF LockInv

\* The kernel gives a request its locks when nobody else has them, and once it has
\* them the request takes no others.
LEMMA EngineLocks ==
  ASSUME RequestTypes, OverlayTypes, Calm, LockInv, NEW c \in Client, EngineStep(c)
  PROVE  LockInv'
<1>1. UNCHANGED daemon
  BY EngineFrame
<1>2. ASSUME Ends(c) PROVE LockInv'
  <2>1. ~Reads(c)' /\ ~Changing(c)' /\ op'[c].pc = "idle"
    BY <1>2 DEF Ends, Reads, Changing
  <2> QED
    BY <1>1, <1>2, <2>1, LocksStay DEF Ends
<1>3. op[c].pc # "idle" /\ op[c].kind = "rename" => op[c].path # op[c].to
  BY DEF LockInv
<1>4. ASSUME NEW pc, Moves(c, pc), op[c].pc \notin {"idle", "open"}, Reads(c) => pc = "hydrate"
      PROVE  LockInv'
  <2>1. (Reads(c)' <=> Reads(c)) /\ (Changing(c)' => Changing(c))
    BY <1>4 DEF Moves, Reads, Changing
  <2>2. /\ op'[c].path = op[c].path /\ op'[c].to = op[c].to /\ op'[c].kind = op[c].kind
        /\ op'[c].pc = pc /\ \A d \in Client \ {c} : op'[d] = op[d]
    BY <1>4 DEF Moves
  <2> QED
    BY <1>1, <1>3, <1>4, <2>1, <2>2, LocksStay
<1>5. CASE Begin(c)
  <2>1. op[c].pc = "open"
    BY <1>5 DEF Begin, OpAt
  <2>2. ASSUME NEW pc \in {"resolve", "file"}, Moves(c, pc), Reads(c) PROVE LockInv'
    <3>1. ~Changing(c)'
      BY <2>2 DEF Moves, Reads, Changing
    <3>2. /\ op'[c].path = op[c].path /\ op'[c].to = op[c].to /\ op'[c].kind = op[c].kind
          /\ op'[c].pc = pc /\ \A d \in Client \ {c} : op'[d] = op[d]
      BY <2>2 DEF Moves
    <3> QED
      BY <1>1, <1>3, <2>1, <3>1, <3>2, LocksStay
  <2>3. ASSUME NEW pc, Moves(c, pc), ~Reads(c) PROVE LockInv'
    <3>1. Unlocked(c) /\ ~Reconciling
      BY <1>5, <2>3 DEF Begin, Calm
    <3>2. /\ op'[c].path = op[c].path /\ op'[c].to = op[c].to /\ op'[c].kind = op[c].kind
          /\ \A d \in Client \ {c} : op'[d] = op[d]
      BY <2>3 DEF Moves
    <3>3. /\ ~Reads(c)'
          /\ \A d \in Client \ {c} : (Reads(d)' <=> Reads(d)) /\ (Changing(d)' <=> Changing(d))
      BY <2>3, <3>2 DEF Reads, Changing
    <3>4. ASSUME NEW d \in Client
          PROVE  /\ Reads(d)' => op'[d].pc \in {"open", "resolve", "hydrate", "file"}
                 /\ op'[d].pc # "idle" /\ op'[d].kind = "rename" => op'[d].path # op'[d].to
      <4>1. CASE d = c
        BY <1>3, <2>1, <3>2, <3>3, <4>1
      <4>2. CASE d # c
        <5>1. op'[d] = op[d] /\ (Reads(d)' <=> Reads(d))
          BY <3>2, <3>3, <4>2
        <5> QED
          BY <5>1 DEF LockInv
      <4> QED
        BY <4>1, <4>2
    <3>5. ASSUME NEW d \in Client \ {c}, Changing(d)'
          PROVE  /\ op[c].path # op[d].path /\ op[c].path # op[d].to
                 /\ op[c].to # op[d].path /\ op[c].to # op[d].to
      BY <3>1, <3>3, <3>5 DEF Unlocked
    <3>6. ASSUME NEW d \in Client, NEW e \in Client, d # e, Changing(d)', Changing(e)'
          PROVE  /\ op'[d].path # op'[e].path /\ op'[d].path # op'[e].to
                 /\ op'[d].to # op'[e].to
      <4>1. CASE d # c /\ e # c
        <5>1. op'[d] = op[d] /\ op'[e] = op[e] /\ Changing(d) /\ Changing(e)
          BY <3>2, <3>3, <3>6, <4>1
        <5>2. op[d].path # op[e].path /\ op[d].path # op[e].to /\ op[d].to # op[e].to
          BY <3>6, <5>1 DEF LockInv
        <5> QED
          BY <5>1, <5>2
      <4>2. CASE d = c
        <5>1. op'[e] = op[e]
          BY <3>2, <3>6, <4>2
        <5> QED
          BY <3>2, <3>5, <3>6, <4>2, <5>1
      <4>3. CASE e = c
        <5>1. op'[d] = op[d]
          BY <3>2, <3>6, <4>3
        <5> QED
          BY <3>2, <3>5, <3>6, <4>3, <5>1
      <4> QED
        BY <4>1, <4>2, <4>3
    <3>7. ~Reconciling'
      BY <1>1, <3>1 DEF Reconciling
    <3> QED
      BY <3>4, <3>6, <3>7 DEF LockInv
  <2>4. \/ Ends(c) \/ Moves(c, "resolve") \/ Moves(c, "file")
        \/ ~Reads(c) /\ (Moves(c, "unlink") \/ Moves(c, "create") \/ Moves(c, "apply"))
    BY <1>5, EngineMoves, Zenon
  <2> QED
    BY <1>2, <2>2, <2>3, <2>4
<1>6. CASE ResolvePath(c)
  <2>1. op[c].pc = "resolve"
    BY <1>6 DEF ResolvePath, OpAt
  <2>2. Ends(c) \/ Moves(c, "hydrate") \/ (~Reads(c) /\ Moves(c, "create"))
    BY <1>6, EngineMoves, Zenon
  <2> QED
    BY <1>2, <1>4, <2>1, <2>2
<1>7. CASE HydrateFails(c) \/ ReadCache(c) \/ ReadFile(c) \/ WriteRow(c) \/ Truncate(c)
           \/ RenameFile(c) \/ RemoveRow(c)
  BY <1>2, <1>7, EngineMoves, Zenon
<1>8. CASE CopyOnWrite(c)
  <2>1. op[c].pc = "hydrate" /\ ~Reads(c)
    BY <1>8 DEF CopyOnWrite, OpAt
  <2>2. Moves(c, "promote")
    BY <1>8, EngineMoves, Zenon
  <2> QED
    BY <1>4, <2>1, <2>2
<1>9. CASE \/ Promote(c) \/ CreateFile(c) \/ CreateRow(c) \/ GetRow(c) \/ WriteAt(c)
           \/ RenameRows(c) \/ RemoveFile(c)
  <2>1. op[c].pc \in {"promote", "create", "created", "apply", "put", "unlink"}
    BY <1>9 DEF Promote, CreateFile, CreateRow, GetRow, WriteAt, RenameRows, RemoveFile, OpAt
  <2>2. ~Reads(c)
    BY <2>1 DEF LockInv
  <2>3. Ends(c) \/ \E pc : Moves(c, pc)
    BY <1>9, EngineMoves, Zenon
  <2> QED
    BY <1>2, <1>4, <2>1, <2>2, <2>3
<1> QED
  BY <1>5, <1>6, <1>7, <1>8, <1>9, Zenon DEF EngineStep

\* The file of p is there, or is the one a request is about to move or has just
\* removed.
HasFile(p) ==
  \/ files[p] # "none"
  \/ \E c \in Client : \/ op[c].pc = "move" /\ op[c].to = p
                       \/ op[c].pc = "whiteout" /\ op[c].path = p

\* The places of a request that knows of its file.
Filed == {"promote", "created", "put", "written", "move"}

\* Requests write the file before the row and Reconcile drops the row before
\* the file; in between, the request or the list remembers.
RowsFiled == \A p \in Path : Live(rows[p]) => HasFile(p)
RequestsFiled ==
  \A c \in Client : /\ op[c].pc \in Filed => files[op[c].path] # "none"
                    /\ op[c].pc = "move" => op[c].path # op[c].to /\ ~Live(rows[op[c].path])
ListFiled ==
  /\ daemon = "delete" =>
       touched = {} /\ \A p \in Path : listed[p] # NoRow => rows[p] = listed[p]
  /\ daemon = "remove" => \A p \in Path : listed[p] # NoRow => rows[p] = NoRow
FileInv == RowsFiled /\ RequestsFiled /\ ListFiled

\* A step of c alone after which no file is missing that was there.
LEMMA FilesGrow ==
  ASSUME RequestTypes, FileInv, NEW c \in Client,
         UNCHANGED <<rows, listed, touched, daemon>>,
         \A p \in Path : files[p] # "none" => files'[p] # "none",
         \A d \in Client \ {c} : op'[d] = op[d],
         op[c].pc \notin {"move", "whiteout"}, op'[c].pc # "move",
         op'[c].pc \in Filed => files'[op'[c].path] # "none"
  PROVE  FileInv'
<1>1. RowsFiled /\ RequestsFiled /\ ListFiled
  BY DEF FileInv
<1>2. ASSUME NEW p \in Path, Live(rows'[p]) PROVE HasFile(p)'
  <2>1. HasFile(p)
    BY <1>1, <1>2 DEF RowsFiled
  <2>2. CASE files[p] # "none"
    BY <2>2 DEF HasFile
  <2>3. CASE files[p] = "none"
    <3>1. PICK d \in Client : \/ op[d].pc = "move" /\ op[d].to = p
                              \/ op[d].pc = "whiteout" /\ op[d].path = p
      BY <2>1, <2>3 DEF HasFile
    <3>2. op'[d] = op[d]
      BY <3>1
    <3> QED
      BY <3>1, <3>2 DEF HasFile
  <2> QED
    BY <2>2, <2>3
<1>3. RowsFiled'
  BY <1>2 DEF RowsFiled
<1>4. ASSUME NEW d \in Client
      PROVE  /\ op'[d].pc \in Filed => files'[op'[d].path] # "none"
             /\ op'[d].pc = "move" => op'[d].path # op'[d].to /\ ~Live(rows'[op'[d].path])
  <2>1. CASE d = c
    BY <2>1
  <2>2. CASE d # c
    <3>1. op'[d] = op[d]
      BY <2>2
    <3>2. op[d].pc \in Filed => op[d].path \in Path
      BY DEF RequestTypes, Filed
    <3> QED
      BY <1>1, <3>1, <3>2 DEF RequestsFiled
  <2> QED
    BY <2>1, <2>2
<1>5. RequestsFiled'
  BY <1>4 DEF RequestsFiled
<1>6. ListFiled'
  BY <1>1 DEF ListFiled
<1> QED
  BY <1>3, <1>5, <1>6 DEF FileInv

\* A request past its lookup that changes something is alone with its paths.
LEMMA Alone ==
  ASSUME LockInv, NEW c \in Client,
         op[c].pc \notin {"idle", "open", "resolve", "hydrate", "file"}
  PROVE  /\ ~Reconciling
         /\ \A d \in Client \ {c} :
              op[d].pc \in Filed \cup {"whiteout"} =>
                /\ op[c].path # op[d].path /\ op[c].path # op[d].to
                /\ op[c].to # op[d].path /\ op[c].to # op[d].to
<1>1. \A d \in Client :
        op[d].pc \notin {"idle", "open", "resolve", "hydrate", "file"} => Changing(d)
  BY DEF LockInv, Changing
<1>2. ~Reconciling
  BY <1>1 DEF LockInv
<1>3. ASSUME NEW d \in Client \ {c}, op[d].pc \in Filed \cup {"whiteout"}
      PROVE  /\ op[c].path # op[d].path /\ op[c].path # op[d].to
             /\ op[c].to # op[d].path /\ op[c].to # op[d].to
  <2>1. Changing(c) /\ Changing(d)
    BY <1>1, <1>3 DEF Filed
  <2> QED
    BY <2>1 DEF LockInv
<1> QED
  BY <1>2, <1>3

\* Steps that write the row of p: it has its file, or it is a whiteout.
LEMMA RowWritten ==
  ASSUME RequestTypes, OverlayTypes, FileInv, NEW c \in Client, NEW p \in Path, NEW row,
         ~Reconciling, rows' = [rows EXCEPT ![p] = row], UNCHANGED <<files, daemon>>,
         \A d \in Client \ {c} : op'[d] = op[d],
         Live(row) => /\ files[p] # "none"
                      /\ op[c].pc # "whiteout"
                      /\ \A d \in Client \ {c} : op[d].pc = "move" => op[d].path # p,
         op[c].pc = "whiteout" => op[c].path = p,
         op[c].pc # "move", op'[c].pc \notin Filed
  PROVE  FileInv'
<1>1. RowsFiled /\ RequestsFiled
  BY DEF FileInv
<1>2. \A q \in Path : rows'[q] = IF q = p THEN row ELSE rows[q]
  BY DEF OverlayTypes
<1>3. ASSUME NEW q \in Path, Live(rows'[q]) PROVE HasFile(q)'
  <2>1. CASE q = p
    BY <1>2, <1>3, <2>1 DEF HasFile
  <2>2. CASE q # p /\ files[q] # "none"
    BY <2>2 DEF HasFile
  <2>3. CASE q # p /\ files[q] = "none"
    <3>1. HasFile(q)
      BY <1>1, <1>2, <1>3, <2>3 DEF RowsFiled
    <3>2. PICK d \in Client : \/ op[d].pc = "move" /\ op[d].to = q
                              \/ op[d].pc = "whiteout" /\ op[d].path = q
      BY <2>3, <3>1 DEF HasFile
    <3>3. op'[d] = op[d]
      BY <2>3, <3>2
    <3> QED
      BY <3>2, <3>3 DEF HasFile
  <2> QED
    BY <2>1, <2>2, <2>3
<1>4. RowsFiled'
  BY <1>3 DEF RowsFiled
<1>5. ASSUME NEW d \in Client
      PROVE  /\ op'[d].pc \in Filed => files'[op'[d].path] # "none"
             /\ op'[d].pc = "move" => op'[d].path # op'[d].to /\ ~Live(rows'[op'[d].path])
  <2>1. CASE d = c
    BY <2>1 DEF Filed
  <2>2. CASE d # c
    <3>1. op'[d] = op[d]
      BY <2>2
    <3>2. op[d].pc = "move" => op[d].path \in Path
      BY DEF RequestTypes
    <3>3. /\ op[d].pc \in Filed => files[op[d].path] # "none"
          /\ op[d].pc = "move" => op[d].path # op[d].to /\ ~Live(rows[op[d].path])
      BY <1>1 DEF RequestsFiled
    <3>4. ASSUME op[d].pc = "move" PROVE ~Live(rows'[op[d].path])
      <4>1. CASE op[d].path = p
        <5>1. rows'[op[d].path] = row
          BY <1>2, <3>2, <3>4, <4>1
        <5> QED
          BY <2>2, <3>4, <4>1, <5>1
      <4>2. CASE op[d].path # p
        <5>1. rows'[op[d].path] = rows[op[d].path]
          BY <1>2, <3>2, <3>4, <4>2
        <5> QED
          BY <3>3, <3>4, <5>1
      <4> QED
        BY <4>1, <4>2
    <3> QED
      BY <3>1, <3>3, <3>4
  <2> QED
    BY <2>1, <2>2
<1>6. RequestsFiled'
  BY <1>5 DEF RequestsFiled
<1>7. ListFiled'
  BY DEF ListFiled, Reconciling
<1> QED
  BY <1>4, <1>6, <1>7 DEF FileInv

\* A rename moves the rows: the new one waits for the file that is still at the
\* old path.
LEMMA RenameRowsFiles ==
  ASSUME RequestTypes, OverlayTypes, LockInv, FileInv, NEW c \in Client, RenameRows(c)
  PROVE  FileInv'
<1> DEFINE p == op[c].path
           q == op[c].to
           new == [kind |-> "rename", source |-> rows[p].source]
<1>1. /\ op[c].pc = "apply" /\ op[c].kind = "rename"
      /\ UNCHANGED <<files, listed, daemon>>
  BY DEF RenameRows, OpAt
<1>2. p \in Path /\ q \in Path /\ p # q
  BY <1>1 DEF RequestTypes, LockInv
<1>3. /\ ~Reconciling
      /\ \A d \in Client \ {c} :
           op[d].pc \in Filed \cup {"whiteout"} =>
             p # op[d].path /\ p # op[d].to /\ q # op[d].path /\ q # op[d].to
  BY <1>1, Alone
<1>4. RowsFiled /\ RequestsFiled
  BY DEF FileInv
<1>5. CASE ~(Live(rows[p]) /\ rows[q] = NoRow)
  <2>1. Ends(c)
    BY <1>5, EngineMoves, Zenon
  <2>2. UNCHANGED <<rows, touched>>
    BY <1>5 DEF RenameRows
  <2> QED
    BY <1>1, <2>1, <2>2, FilesGrow DEF Ends, Filed
<1>6. CASE Live(rows[p]) /\ rows[q] = NoRow
  <2>1. rows' = [rows EXCEPT ![p] = Whiteout, ![q] = new]
    BY <1>6 DEF RenameRows
  <2>2. Moves(c, "move")
    BY <1>6, EngineMoves, Zenon
  <2>3. /\ op'[c].pc = "move" /\ op'[c].path = p /\ op'[c].to = q
        /\ \A d \in Client \ {c} : op'[d] = op[d]
    BY <2>2 DEF Moves
  <2> HIDE DEF new
  <2>4. (\A r \in Path \ {p, q} : rows'[r] = rows[r]) /\ rows'[p] = Whiteout
    BY <1>2, <2>1 DEF OverlayTypes
  <2>5. ~Live(rows'[p])
    BY <2>4, NoneTyped
  <2>6. files[p] # "none"
    <3>1. HasFile(p)
      BY <1>2, <1>4, <1>6 DEF RowsFiled
    <3>2. \A d \in Client : /\ op[d].pc = "move" => op[d].to # p
                            /\ op[d].pc = "whiteout" => op[d].path # p
      BY <1>1, <1>3 DEF Filed
    <3> QED
      BY <3>1, <3>2 DEF HasFile
  <2>7. ASSUME NEW r \in Path, Live(rows'[r]) PROVE HasFile(r)'
    <3>1. CASE r = q
      BY <2>3, <3>1 DEF HasFile
    <3>2. CASE r # q
      <4>1. r # p /\ Live(rows[r])
        BY <2>4, <2>5, <2>7, <3>2
      <4>2. HasFile(r)
        BY <1>4, <4>1 DEF RowsFiled
      <4>3. CASE files[r] # "none"
        BY <1>1, <4>3 DEF HasFile
      <4>4. CASE files[r] = "none"
        <5>1. PICK d \in Client : \/ op[d].pc = "move" /\ op[d].to = r
                                  \/ op[d].pc = "whiteout" /\ op[d].path = r
          BY <4>2, <4>4 DEF HasFile
        <5>2. op'[d] = op[d]
          BY <1>1, <2>3, <5>1
        <5> QED
          BY <5>1, <5>2 DEF HasFile
      <4> QED
        BY <4>3, <4>4
    <3> QED
      BY <3>1, <3>2
  <2>8. RowsFiled'
    BY <2>7 DEF RowsFiled
  <2>9. ASSUME NEW d \in Client
        PROVE  /\ op'[d].pc \in Filed => files'[op'[d].path] # "none"
               /\ op'[d].pc = "move" => op'[d].path # op'[d].to /\ ~Live(rows'[op'[d].path])
    <3>1. CASE d = c
      BY <1>1, <1>2, <2>3, <2>5, <2>6, <3>1
    <3>2. CASE d # c
      <4>1. op'[d] = op[d]
        BY <2>3, <3>2
      <4>2. op[d].pc = "move" => op[d].path \in Path \ {p, q}
        BY <1>3, <3>2 DEF RequestTypes, Filed
      <4>3. /\ op[d].pc \in Filed => files[op[d].path] # "none"
            /\ op[d].pc = "move" => op[d].path # op[d].to /\ ~Live(rows[op[d].path])
        BY <1>4 DEF RequestsFiled
      <4>4. op[d].pc = "move" => ~Live(rows'[op[d].path])
        BY <2>4, <4>2, <4>3
      <4> QED
        BY <1>1, <4>1, <4>3, <4>4
    <3> QED
      BY <3>1, <3>2
  <2>10. RequestsFiled'
    BY <2>9 DEF RequestsFiled
  <2>11. ListFiled'
    BY <1>1, <1>3 DEF ListFiled, Reconciling
  <2> QED
    BY <2>8, <2>10, <2>11 DEF FileInv
<1> QED
  BY <1>5, <1>6

\* Then the file follows.
LEMMA RenameFileFiles ==
  ASSUME RequestTypes, OverlayTypes, LockInv, FileInv, NEW c \in Client, RenameFile(c)
  PROVE  /\ FileInv'
         /\ files' = [files EXCEPT ![op[c].to] = files[op[c].path], ![op[c].path] = "none"]
<1> DEFINE p == op[c].path
           q == op[c].to
<1>1. op[c].pc = "move" /\ UNCHANGED <<listed, touched, daemon>>
  BY DEF RenameFile, OpAt
<1>2. RowsFiled /\ RequestsFiled
  BY DEF FileInv
<1>3. /\ p \in Path /\ q \in Path
      /\ files[p] # "none" /\ p # q /\ ~Live(rows[p])
  BY <1>1, <1>2 DEF RequestTypes, RequestsFiled, Filed
<1>4. /\ ~Reconciling
      /\ \A d \in Client \ {c} :
           op[d].pc \in Filed \cup {"whiteout"} =>
             p # op[d].path /\ p # op[d].to /\ q # op[d].path /\ q # op[d].to
  BY <1>1, Alone
<1>5. files' = [files EXCEPT ![q] = files[p], ![p] = "none"] /\ UNCHANGED rows
  BY <1>3 DEF RenameFile
<1>6. op'[c].pc = "idle" /\ \A d \in Client \ {c} : op'[d] = op[d]
  BY EngineMoves DEF Ends
<1>7. files'[q] = files[p] /\ \A r \in Path \ {p, q} : files'[r] = files[r]
  BY <1>3, <1>5 DEF OverlayTypes
<1>8. ASSUME NEW r \in Path, Live(rows'[r]) PROVE HasFile(r)'
  <2>1. r # p /\ Live(rows[r])
    BY <1>3, <1>5, <1>8
  <2>2. CASE r = q
    BY <1>3, <1>7, <2>2 DEF HasFile
  <2>3. CASE r # q
    <3>1. HasFile(r) /\ files'[r] = files[r]
      BY <1>2, <1>7, <2>1, <2>3 DEF RowsFiled
    <3>2. CASE files[r] # "none"
      BY <3>1, <3>2 DEF HasFile
    <3>3. CASE files[r] = "none"
      <4>1. PICK d \in Client : \/ op[d].pc = "move" /\ op[d].to = r
                                \/ op[d].pc = "whiteout" /\ op[d].path = r
        BY <3>1, <3>3 DEF HasFile
      <4>2. op'[d] = op[d]
        BY <1>1, <1>6, <2>3, <4>1
      <4> QED
        BY <4>1, <4>2 DEF HasFile
    <3> QED
      BY <3>2, <3>3
  <2> QED
    BY <2>2, <2>3
<1>9. RowsFiled'
  BY <1>8 DEF RowsFiled
<1>10. ASSUME NEW d \in Client
       PROVE  /\ op'[d].pc \in Filed => files'[op'[d].path] # "none"
              /\ op'[d].pc = "move" => op'[d].path # op'[d].to /\ ~Live(rows'[op'[d].path])
  <2>1. CASE d = c
    BY <1>6, <2>1 DEF Filed
  <2>2. CASE d # c
    <3>1. op'[d] = op[d]
      BY <1>6, <2>2
    <3>2. op[d].pc \in Filed => op[d].path \in Path \ {p, q}
      BY <1>4, <2>2 DEF RequestTypes, Filed
    <3>3. /\ op[d].pc \in Filed => files[op[d].path] # "none"
          /\ op[d].pc = "move" => op[d].path # op[d].to /\ ~Live(rows[op[d].path])
      BY <1>2 DEF RequestsFiled
    <3> QED
      BY <1>5, <1>7, <3>1, <3>2, <3>3
  <2> QED
    BY <2>1, <2>2
<1>11. RequestsFiled'
  BY <1>10 DEF RequestsFiled
<1>12. ListFiled'
  BY <1>1, <1>4 DEF ListFiled, Reconciling
<1> QED
  BY <1>5, <1>9, <1>11, <1>12 DEF FileInv

\* A removal takes the file first; the whiteout is on its way.
LEMMA RemoveFileFiles ==
  ASSUME RequestTypes, OverlayTypes, LockInv, FileInv, NEW c \in Client, RemoveFile(c)
  PROVE  FileInv'
<1> DEFINE p == op[c].path
<1>1. /\ op[c].pc = "unlink" /\ UNCHANGED <<rows, listed, touched, daemon>>
      /\ files' = files \/ files' = [files EXCEPT ![p] = "none"]
  BY DEF RemoveFile, OpAt
<1>2. p \in Path
  BY <1>1 DEF RequestTypes
<1>3. /\ ~Reconciling
      /\ \A d \in Client \ {c} :
           op[d].pc \in Filed \cup {"whiteout"} => p # op[d].path /\ p # op[d].to
  BY <1>1, Alone
<1>4. RowsFiled /\ RequestsFiled
  BY DEF FileInv
<1>5. \A q \in Path \ {p} : files'[q] = files[q]
  BY <1>1, <1>2 DEF OverlayTypes
<1>6. /\ op'[c].pc = "whiteout" /\ op'[c].path = p
      /\ \A d \in Client \ {c} : op'[d] = op[d]
  BY EngineMoves DEF Moves
<1>7. ASSUME NEW q \in Path, Live(rows'[q]) PROVE HasFile(q)'
  <2>1. CASE q = p
    BY <1>6, <2>1 DEF HasFile
  <2>2. CASE q # p
    <3>1. HasFile(q) /\ files'[q] = files[q]
      BY <1>1, <1>4, <1>5, <1>7, <2>2 DEF RowsFiled
    <3>2. CASE files[q] # "none"
      BY <3>1, <3>2 DEF HasFile
    <3>3. CASE files[q] = "none"
      <4>1. PICK d \in Client : \/ op[d].pc = "move" /\ op[d].to = q
                                \/ op[d].pc = "whiteout" /\ op[d].path = q
        BY <3>1, <3>3 DEF HasFile
      <4>2. op'[d] = op[d]
        BY <1>1, <1>6, <4>1
      <4> QED
        BY <4>1, <4>2 DEF HasFile
    <3> QED
      BY <3>2, <3>3
  <2> QED
    BY <2>1, <2>2
<1>8. RowsFiled'
  BY <1>7 DEF RowsFiled
<1>9. ASSUME NEW d \in Client
      PROVE  /\ op'[d].pc \in Filed => files'[op'[d].path] # "none"
             /\ op'[d].pc = "move" => op'[d].path # op'[d].to /\ ~Live(rows'[op'[d].path])
  <2>1. CASE d = c
    BY <1>6, <2>1 DEF Filed
  <2>2. CASE d # c
    <3>1. op'[d] = op[d]
      BY <1>6, <2>2
    <3>2. op[d].pc \in Filed => op[d].path \in Path \ {p}
      BY <1>3, <2>2 DEF RequestTypes, Filed
    <3>3. /\ op[d].pc \in Filed => files[op[d].path] # "none"
          /\ op[d].pc = "move" => op[d].path # op[d].to /\ ~Live(rows[op[d].path])
      BY <1>4 DEF RequestsFiled
    <3> QED
      BY <1>1, <1>5, <3>1, <3>2, <3>3
  <2> QED
    BY <2>1, <2>2
<1>10. RequestsFiled'
  BY <1>9 DEF RequestsFiled
<1>11. ListFiled'
  BY <1>1, <1>3 DEF ListFiled, Reconciling
<1> QED
  BY <1>8, <1>10, <1>11 DEF FileInv

\* A write finds the file of the row it has read.
LEMMA GetRowFile ==
  ASSUME RequestTypes, LockInv, FileInv, NEW c \in Client, op[c].pc = "apply",
         Live(rows[op[c].path])
  PROVE  files[op[c].path] # "none"
<1>1. HasFile(op[c].path)
  BY DEF RequestTypes, FileInv, RowsFiled
<1>2. ASSUME NEW d \in Client
      PROVE  /\ op[d].pc = "move" => op[d].to # op[c].path
             /\ op[d].pc = "whiteout" => op[d].path # op[c].path
  <2>1. CASE d = c
    BY <2>1
  <2>2. CASE d # c
    BY <2>2, Alone DEF Filed
  <2> QED
    BY <2>1, <2>2
<1> QED
  BY <1>1, <1>2 DEF HasFile

\* A step of a request keeps files and rows together.
LEMMA EngineFiles ==
  ASSUME RequestTypes, OverlayTypes, CallInv, Calm, LockInv, FileInv, NEW c \in Client,
         EngineStep(c)
  PROVE  FileInv'
<1> DEFINE p == op[c].path
<1>1. p \in Path /\ UNCHANGED <<daemon, listed>>
  BY EngineRequest, EngineFrame
<1>2. ASSUME Ends(c), op[c].pc \notin {"move", "whiteout"}, UNCHANGED <<rows, touched>>,
             \A q \in Path : files[q] # "none" => files'[q] # "none"
      PROVE  FileInv'
  BY <1>1, <1>2, FilesGrow DEF Ends, Filed
<1>3. ASSUME NEW pc, Moves(c, pc), pc # "move", op[c].pc \notin {"move", "whiteout"},
             UNCHANGED <<rows, touched>>,
             \A q \in Path : files[q] # "none" => files'[q] # "none",
             pc \in Filed => files'[p] # "none"
      PROVE  FileInv'
  BY <1>1, <1>3, FilesGrow DEF Moves
<1>4. ASSUME NEW v, v # "none", files' = [files EXCEPT ![p] = v]
      PROVE  files'[p] # "none" /\ \A q \in Path : files[q] # "none" => files'[q] # "none"
  BY <1>1, <1>4 DEF OverlayTypes
<1>5. CASE Begin(c)
  <2>1. op[c].pc = "open" /\ UNCHANGED <<rows, touched, files>>
    BY <1>5 DEF Begin, OpAt
  <2>2. \/ Ends(c) \/ \E pc \in {"resolve", "file", "unlink", "create", "apply"} : Moves(c, pc)
    BY <1>5, EngineMoves
  <2> QED
    BY <1>2, <1>3, <2>1, <2>2 DEF Filed
<1>6. CASE ResolvePath(c)
  <2>1. op[c].pc = "resolve" /\ UNCHANGED <<rows, touched, files>>
    BY <1>6 DEF ResolvePath, OpAt
  <2>2. Ends(c) \/ \E pc \in {"hydrate", "create"} : Moves(c, pc)
    BY <1>6, EngineMoves
  <2> QED
    BY <1>2, <1>3, <2>1, <2>2 DEF Filed
<1>7. CASE HydrateFails(c) \/ ReadCache(c) \/ ReadFile(c)
  <2>1. op[c].pc \in {"hydrate", "file"} /\ UNCHANGED <<rows, touched, files>>
    BY <1>7 DEF HydrateFails, ReadCache, ReadFile, OpAt
  <2>2. Ends(c)
    BY <1>7, EngineMoves, Zenon
  <2> QED
    BY <1>2, <2>1, <2>2
<1>8. CASE CopyOnWrite(c)
  <2> DEFINE v == IF cache[call[c].oid] = "whole" THEN call[c].oid ELSE "torn"
  <2>1. /\ op[c].pc = "hydrate" /\ files' = [files EXCEPT ![p] = v]
        /\ UNCHANGED <<rows, touched>>
    BY <1>8 DEF CopyOnWrite, OpAt
  <2>2. call[c].oid \in Blob
    BY <2>1 DEF CallInv
  <2>3. v # "none"
    BY <2>2, BlobAssumption
  <2> HIDE DEF v
  <2>4. Moves(c, "promote")
    BY <1>8, EngineMoves, Zenon
  <2>5. files'[p] # "none" /\ \A q \in Path : files[q] # "none" => files'[q] # "none"
    BY <1>4, <2>1, <2>3
  <2> QED
    BY <1>3, <2>1, <2>4, <2>5
<1>9. CASE CreateFile(c)
  <2>1. /\ op[c].pc = "create" /\ files' = [files EXCEPT ![p] = "own"]
        /\ UNCHANGED <<rows, touched>>
    BY <1>9 DEF CreateFile, OpAt
  <2>2. Moves(c, "created")
    BY <1>9, EngineMoves, Zenon
  <2>3. files'[p] # "none" /\ \A q \in Path : files[q] # "none" => files'[q] # "none"
    BY <1>4, <2>1
  <2> QED
    BY <1>3, <2>1, <2>2, <2>3
<1>10. CASE WriteAt(c)
  <2> DEFINE v == IF files[p] = "none" THEN "torn" ELSE files[p]
  <2>1. /\ op[c].pc = "put" /\ files' = [files EXCEPT ![p] = v]
        /\ UNCHANGED <<rows, touched>>
    BY <1>10 DEF WriteAt, OpAt
  <2>2. Moves(c, "written")
    BY <1>10, EngineMoves, Zenon
  <2>3. v # "none"
    OBVIOUS
  <2> HIDE DEF v
  <2>4. files'[p] # "none" /\ \A q \in Path : files[q] # "none" => files'[q] # "none"
    BY <1>4, <2>1, <2>3
  <2> QED
    BY <1>3, <2>1, <2>2, <2>4
<1>11. CASE Truncate(c)
  <2>1. /\ op[c].pc = "apply" /\ UNCHANGED <<rows, touched>>
        /\ files' = files \/ files' = [files EXCEPT ![p] = "own"]
    BY <1>11 DEF Truncate, OpAt
  <2>2. Ends(c)
    BY <1>11, EngineMoves, Zenon
  <2>3. \A q \in Path : files[q] # "none" => files'[q] # "none"
    BY <1>4, <2>1
  <2> QED
    BY <1>2, <2>1, <2>2, <2>3
<1>12. CASE GetRow(c)
  <2>1. op[c].pc = "apply" /\ UNCHANGED <<rows, touched, files>>
    BY <1>12 DEF GetRow, OpAt
  <2>2. Ends(c) \/ (Live(rows[p]) /\ Moves(c, "put"))
    BY <1>12, EngineMoves, Zenon
  <2>3. Live(rows[p]) => files[p] # "none"
    BY <2>1, GetRowFile
  <2> QED
    BY <1>2, <1>3, <2>1, <2>2, <2>3
<1>13. ASSUME NEW row, Upsert(p, row), UNCHANGED files,
              op[c].pc \in {"promote", "created", "written", "whiteout"},
              Live(row) => op[c].pc # "whiteout",
              Ends(c) \/ Moves(c, "apply")
       PROVE  FileInv'
  <2>1. op'[c].pc \notin Filed /\ \A d \in Client \ {c} : op'[d] = op[d]
    BY <1>13 DEF Ends, Moves, Filed
  <2>2. op[c].pc # "whiteout" => files[p] # "none"
    BY <1>13 DEF FileInv, RequestsFiled, Filed
  <2>3. /\ ~Reconciling
        /\ \A d \in Client \ {c} : op[d].pc = "move" => op[d].path # p
    BY <1>13, Alone DEF Filed
  <2>4. rows' = [rows EXCEPT ![p] = row]
    BY <1>13 DEF Upsert
  <2> QED
    BY <1>1, <1>13, <2>1, <2>2, <2>3, <2>4, RowWritten
<1>14. CASE Promote(c)
  <2>1. /\ op[c].pc = "promote" /\ UNCHANGED files
        /\ \E row : Upsert(p, row)
    BY <1>14 DEF Promote, OpAt
  <2>2. Moves(c, "apply")
    BY <1>14, EngineMoves, Zenon
  <2> QED
    BY <1>13, <2>1, <2>2
<1>15. CASE CreateRow(c)
  <2>1. /\ op[c].pc = "created" /\ UNCHANGED files
        /\ \E row : Upsert(p, row)
    BY <1>15 DEF CreateRow, OpAt
  <2>2. Ends(c) \/ Moves(c, "apply")
    BY <1>15, EngineMoves, Zenon
  <2> QED
    BY <1>13, <2>1, <2>2
<1>16. CASE WriteRow(c)
  <2>1. /\ op[c].pc = "written" /\ UNCHANGED files
        /\ \E row : Upsert(p, row)
    BY <1>16 DEF WriteRow, OpAt
  <2>2. Ends(c)
    BY <1>16, EngineMoves, Zenon
  <2> QED
    BY <1>13, <2>1, <2>2
<1>17. CASE RemoveRow(c)
  <2>1. op[c].pc = "whiteout" /\ UNCHANGED files /\ Upsert(p, Whiteout)
    BY <1>17 DEF RemoveRow, OpAt
  <2>2. Ends(c)
    BY <1>17, EngineMoves, Zenon
  <2> QED
    BY <1>13, <2>1, <2>2, NoneTyped
<1>18. CASE RenameRows(c) \/ RenameFile(c) \/ RemoveFile(c)
  BY <1>18, RenameRowsFiles, RenameFileFiles, RemoveFileFiles, Zenon
<1> QED
  BY <1>5, <1>6, <1>7, <1>8, <1>9, <1>10, <1>11, <1>12, <1>14, <1>15, <1>16, <1>17, <1>18,
     Zenon DEF EngineStep

\* The requests and the overlay.
OverlayInv == RequestTypes /\ OverlayTypes /\ (Calm => LockInv /\ FileInv)

\* A mount begins with an empty overlay and no requests.
LEMMA OverlayInit == Init => OverlayInv
<1> SUFFICES ASSUME Init PROVE OverlayInv
  OBVIOUS
<1>1. /\ rows = [p \in Path |-> NoRow] /\ files = [p \in Path |-> "none"]
      /\ daemon = "watch" /\ listed = [p \in Path |-> NoRow] /\ touched = {}
      /\ op = [c \in Client |-> NoOp]
  BY DEF Init
<1>2. \A c \in Client : op[c] = NoOp /\ op[c].pc = "idle" /\ op[c].kind = "none"
  BY <1>1, NoneTyped
<1>3. RequestTypes
  BY <1>1, <1>2, NoneTyped DEF RequestTypes
<1>4. OverlayTypes
  BY <1>1, NoneTyped DEF OverlayTypes
<1>5. LockInv
  BY <1>1, <1>2 DEF LockInv, Reads, Changing, Reconciling
<1>6. RowsFiled
  BY <1>1, NoneTyped DEF RowsFiled
<1>7. RequestsFiled
  BY <1>2 DEF RequestsFiled, Filed
<1>8. ListFiled
  BY <1>1 DEF ListFiled
<1> QED
  BY <1>3, <1>4, <1>5, <1>6, <1>7, <1>8 DEF OverlayInv, FileInv

\* LockInv depends on the requests and on whether Reconcile is at work.
LEMMA LockFrame ==
  ASSUME LockInv, UNCHANGED op, Reconciling' => \A c \in Client : ~Changing(c)
  PROVE  LockInv'
<1>1. \A c \in Client : (Reads(c)' <=> Reads(c)) /\ (Changing(c)' <=> Changing(c))
  BY DEF Reads, Changing
<1>2. /\ \A c \in Client : Reads(c)' => op'[c].pc \in {"open", "resolve", "hydrate", "file"}
      /\ \A c \in Client :
           op'[c].pc # "idle" /\ op'[c].kind = "rename" => op'[c].path # op'[c].to
  BY <1>1 DEF LockInv
<1>3. ASSUME NEW c \in Client, NEW d \in Client, c # d, Changing(c)', Changing(d)'
      PROVE  /\ op'[c].path # op'[d].path /\ op'[c].path # op'[d].to
             /\ op'[c].to # op'[d].to
  BY <1>1, <1>3 DEF LockInv
<1>4. Reconciling' => \A c \in Client : ~Changing(c)'
  BY <1>1
<1> QED
  BY <1>2, <1>3, <1>4 DEF LockInv

\* So does FileInv, on the rows and files too.
LEMMA FilesFrame ==
  ASSUME RowsFiled, RequestsFiled, UNCHANGED <<op, rows, files>>
  PROVE  RowsFiled' /\ RequestsFiled'
<1>1. ASSUME NEW p \in Path, Live(rows'[p]) PROVE HasFile(p)'
  <2>1. HasFile(p)
    BY <1>1 DEF RowsFiled
  <2> QED
    BY <2>1 DEF HasFile
<1>2. RequestsFiled'
  BY DEF RequestsFiled
<1> QED
  BY <1>1, <1>2 DEF RowsFiled

\* Steps that leave all of the overlay alone keep OverlayInv.
LEMMA OverlayFrame ==
  ASSUME OverlayInv, UNCHANGED <<scope, rows, files, listed, touched, op>>,
         UNCHANGED daemon \/ daemon' \notin {"delete", "remove"}
  PROVE  OverlayInv'
<1>1. RequestTypes' /\ OverlayTypes'
  BY DEF OverlayInv, RequestTypes, OverlayTypes
<1>2. ASSUME Calm' PROVE LockInv' /\ FileInv'
  <2>1. LockInv /\ RowsFiled /\ RequestsFiled /\ ListFiled
    BY <1>2 DEF OverlayInv, Calm, env, FileInv
  <2>2. Reconciling' => \A c \in Client : ~Changing(c)
    BY <2>1 DEF LockInv, Reconciling
  <2>3. LockInv'
    BY <2>1, <2>2, LockFrame
  <2>4. RowsFiled' /\ RequestsFiled'
    BY <2>1, FilesFrame
  <2>5. ListFiled'
    BY <2>1 DEF ListFiled
  <2> QED
    BY <2>3, <2>4, <2>5 DEF FileInv
<1> QED
  BY <1>1, <1>2 DEF OverlayInv

\* A program may make a request that the scope has; it has no locks yet.
LEMMA OverlayOpen ==
  ASSUME scope \in Scopes, OverlayInv, NEW c \in Client, NEW kind \in scope.kinds,
         NEW p \in Path, NEW to \in Path, Open(c, kind, p, to)
  PROVE  OverlayInv' /\ op[c].pc = "idle" /\ op'[c].pc = "open"
         /\ \A d \in Client \ {c} : op'[d] = op[d]
<1> DEFINE new == [NoOp EXCEPT !.pc = "open", !.kind = kind, !.path = p, !.to = to]
<1>1. kind \in Kinds /\ RequestTypes /\ OverlayTypes
  BY ScopesAssumption DEF OverlayInv
<1>2. /\ new \in Request /\ new.pc = "open" /\ new.kind = kind
      /\ new.path = p /\ new.to = to
  BY <1>1, NoneTyped DEF NoOp, Request, Place
<1>3. /\ op' = [op EXCEPT ![c] = new] /\ op[c].pc = "idle" /\ (kind = "rename" => to # p)
      /\ UNCHANGED <<rows, files, listed, touched, daemon, scope>>
  BY DEF Open, OpAt
<1> HIDE DEF new
<1>4. RequestTypes' /\ op'[c] = new /\ \A d \in Client \ {c} : op'[d] = op[d]
  BY <1>1, <1>2, <1>3, RequestBecomes
<1>5. OverlayTypes'
  BY <1>1, <1>3 DEF OverlayTypes
<1>6. ASSUME Calm' PROVE LockInv' /\ FileInv'
  <2>1. LockInv /\ FileInv
    BY <1>3, <1>6 DEF OverlayInv, Calm, env
  <2>2. ~Changing(c)' /\ op'[c].pc = "open"
    BY <1>2, <1>4 DEF Changing
  <2>3. op'[c].kind = "rename" => op'[c].path # op'[c].to
    BY <1>2, <1>3, <1>4
  <2>4. LockInv'
    BY <1>3, <1>4, <2>1, <2>2, <2>3, LocksStay
  <2>5. FileInv'
    BY <1>1, <1>3, <1>4, <2>1, <2>2, FilesGrow DEF Filed
  <2> QED
    BY <2>4, <2>5
<1> QED
  BY <1>2, <1>3, <1>4, <1>5, <1>6 DEF OverlayInv

\* The daemon lists rows when no request changes one, and what it lists stays
\* as it is until it is deleted.
LEMMA OverlayDaemon ==
  ASSUME OverlayInv, DaemonStep
  PROVE  /\ OverlayInv' /\ UNCHANGED <<scope, op>>
         /\ \A p \in Path : files'[p] \in {files[p], "none"}
<1>1. RequestTypes /\ OverlayTypes /\ UNCHANGED <<scope, op>>
  BY DEF OverlayInv, DaemonStep, Tick, HEADChanged, PublishFails, ListRows, DeleteRows,
         RemoveFiles, SetGeneration
<1>2. RequestTypes' /\ (Calm' <=> Calm)
  BY <1>1 DEF RequestTypes, Calm, env
<1>3. CASE Tick \/ HEADChanged \/ PublishFails \/ SetGeneration
  <2>1. UNCHANGED <<rows, files, listed, touched>> /\ daemon' \notin {"delete", "remove"}
    BY <1>3 DEF Tick, HEADChanged, PublishFails, SetGeneration
  <2> QED
    BY <1>1, <2>1, OverlayFrame
<1>4. CASE ListRows
  <2>1. /\ UNCHANGED <<rows, files>> /\ touched' = {} /\ daemon' = "delete"
        /\ listed' = ToRemove(snap[current])
        /\ env # "overlap" => \A c \in Client : ~Changing(c)
    BY <1>4 DEF ListRows
  <2>2. \A p \in Path : ToRemove(snap[current])[p] \in {NoRow, rows[p]}
    BY DEF ToRemove
  <2>3. ToRemove(snap[current]) \in [Path -> Row]
    BY <1>1, NoneTyped DEF OverlayTypes, ToRemove
  <2>4. OverlayTypes'
    BY <1>1, <2>1, <2>3 DEF OverlayTypes
  <2>5. ASSUME Calm PROVE LockInv' /\ FileInv'
    <3>1. LockInv /\ RowsFiled /\ RequestsFiled
      BY <2>5 DEF OverlayInv, FileInv
    <3>2. \A c \in Client : ~Changing(c)
      BY <2>1, <2>5 DEF Calm
    <3>3. LockInv'
      BY <1>1, <3>1, <3>2, LockFrame
    <3>4. RowsFiled' /\ RequestsFiled'
      BY <1>1, <2>1, <3>1, FilesFrame
    <3>5. ListFiled'
      BY <2>1, <2>2 DEF ListFiled
    <3> QED
      BY <3>3, <3>4, <3>5 DEF FileInv
  <2> QED
    BY <1>1, <1>2, <2>1, <2>4, <2>5 DEF OverlayInv
<1>5. CASE DeleteRows
  <2> DEFINE new == [p \in Path |-> IF /\ listed[p] # NoRow /\ rows[p] = listed[p]
                                       /\ p \notin touched
                                    THEN NoRow ELSE rows[p]]
  <2>1. /\ UNCHANGED <<files, listed, touched>> /\ daemon = "delete" /\ daemon' = "remove"
        /\ rows' = new
    BY <1>5 DEF DeleteRows
  <2>2. new \in [Path -> Row]
    BY <1>1, NoneTyped DEF OverlayTypes
  <2>3. OverlayTypes'
    BY <1>1, <2>1, <2>2 DEF OverlayTypes
  <2>4. \A p \in Path : rows'[p] \in {NoRow, rows[p]}
    BY <2>1
  <2>5. \A p \in Path : Live(rows'[p]) => Live(rows[p])
    BY <2>4, NoneTyped
  <2>6. ASSUME Calm PROVE LockInv' /\ FileInv'
    <3>1. LockInv /\ RowsFiled /\ RequestsFiled /\ ListFiled
      BY <2>6 DEF OverlayInv, FileInv
    <3>2. \A c \in Client : ~Changing(c)
      BY <2>1, <3>1 DEF LockInv, Reconciling
    <3>3. LockInv'
      BY <1>1, <3>1, <3>2, LockFrame
    <3>4. ASSUME NEW p \in Path, Live(rows'[p]) PROVE HasFile(p)'
      <4>1. HasFile(p)
        BY <2>5, <3>1, <3>4 DEF RowsFiled
      <4> QED
        BY <1>1, <2>1, <4>1 DEF HasFile
    <3>5. RowsFiled'
      BY <3>4 DEF RowsFiled
    <3>6. ASSUME NEW c \in Client
          PROVE  /\ op[c].pc \in Filed => files[op[c].path] # "none"
                 /\ op[c].pc = "move" => op[c].path # op[c].to /\ ~Live(rows'[op[c].path])
      <4>1. op[c].pc = "move" => op[c].path \in Path
        BY <1>1 DEF RequestTypes
      <4> QED
        BY <2>5, <3>1, <4>1 DEF RequestsFiled
    <3>7. RequestsFiled'
      BY <1>1, <2>1, <3>6 DEF RequestsFiled
    <3>8. touched = {} /\ \A p \in Path : listed[p] # NoRow => rows[p] = listed[p]
      BY <2>1, <3>1 DEF ListFiled
    <3>9. \A p \in Path : listed[p] # NoRow => rows'[p] = NoRow
      BY <2>1, <3>8
    <3>10. ListFiled'
      BY <2>1, <3>9 DEF ListFiled
    <3> QED
      BY <3>3, <3>5, <3>7, <3>10 DEF FileInv
  <2> QED
    BY <1>1, <1>2, <2>1, <2>3, <2>6 DEF OverlayInv
<1>6. CASE RemoveFiles
  <2>1. /\ UNCHANGED rows /\ daemon = "remove" /\ daemon' = "show" /\ touched' = {}
        /\ files' = [p \in Path |-> IF Live(listed[p]) THEN "none" ELSE files[p]]
        /\ listed' = [p \in Path |-> NoRow]
    BY <1>6 DEF RemoveFiles
  <2>2. \A p \in Path : files'[p] = IF Live(listed[p]) THEN "none" ELSE files[p]
    BY <2>1
  <2>3. /\ files' \in [Path -> {"none", "own", "torn"} \cup Blob]
        /\ listed' \in [Path -> Row]
    BY <1>1, <2>1, NoneTyped DEF OverlayTypes
  <2>4. OverlayTypes'
    BY <1>1, <2>1, <2>3 DEF OverlayTypes
  <2>5. ASSUME Calm PROVE LockInv' /\ FileInv'
    <3>1. LockInv /\ RowsFiled /\ RequestsFiled /\ ListFiled
      BY <2>5 DEF OverlayInv, FileInv
    <3>2. \A c \in Client : ~Changing(c)
      BY <2>1, <3>1 DEF LockInv, Reconciling
    <3>3. LockInv'
      BY <1>1, <3>1, <3>2, LockFrame
    <3>4. \A c \in Client : op[c].pc \notin Filed
      BY <3>1, <3>2 DEF LockInv, Changing, Filed
    <3>5. RequestsFiled'
      BY <1>1, <3>4 DEF RequestsFiled, Filed
    <3>6. \A p \in Path : Live(listed[p]) => ~Live(rows[p])
      BY <2>1, <3>1, NoneTyped DEF ListFiled
    <3>7. ASSUME NEW p \in Path, Live(rows'[p]) PROVE HasFile(p)'
      <4>1. HasFile(p) /\ files'[p] = files[p]
        BY <2>1, <2>2, <3>1, <3>6, <3>7 DEF RowsFiled
      <4> QED
        BY <1>1, <4>1 DEF HasFile
    <3>8. RowsFiled'
      BY <3>7 DEF RowsFiled
    <3>9. ListFiled'
      BY <2>1 DEF ListFiled
    <3> QED
      BY <3>3, <3>5, <3>8, <3>9 DEF FileInv
  <2> QED
    BY <1>1, <1>2, <2>2, <2>4, <2>5 DEF OverlayInv
<1> QED
  BY <1>3, <1>4, <1>5, <1>6, Zenon DEF DaemonStep

-----------------------------------------------------------------------------
(* The calls of the requests *)

\* A step that moves c and leaves its call.
LEMMA CallStays ==
  ASSUME CallInv, NEW c \in Client, UNCHANGED call, \A d \in Client \ {c} : op'[d] = op[d],
         op'[c].pc \notin {"hydrate", "promote"} => call[c].pc = "idle",
         op'[c].pc \in {"hydrate", "promote"} => call[c].oid \in Blob,
         op'[c].pc = "promote" => call[c].pc = "ok"
  PROVE  CallInv'
<1> SUFFICES ASSUME NEW d \in Client
             PROVE  /\ op'[d].pc \notin {"hydrate", "promote"} => call[d].pc = "idle"
                    /\ op'[d].pc \in {"hydrate", "promote"} => call[d].oid \in Blob
                    /\ op'[d].pc = "promote" => call[d].pc = "ok"
  BY DEF CallInv
<1>1. CASE d = c
  BY <1>1
<1>2. CASE d # c
  <2>1. op'[d] = op[d]
    BY <1>2
  <2> QED
    BY <2>1 DEF CallInv
<1> QED
  BY <1>1, <1>2

\* Every step of a request keeps the hydrator in order: it calls from "resolve",
\* and drops a call that has returned.
LEMMA EngineCalls ==
  ASSUME RequestTypes, OverlayTypes, GenerationInv, HydratorInv, CallInv,
         NEW c \in Client, EngineStep(c)
  PROVE  /\ HydratorInv' /\ CallInv'
         /\ \A one \in Worker : CacheInv(one) => CacheInv(one)'
<1> DEFINE Goal == /\ HydratorInv' /\ CallInv'
                   /\ \A one \in Worker : CacheInv(one) => CacheInv(one)'
<1>1. known \subseteq Blob
  BY DEF HydratorInv, StoreTypes
<1>2. ASSUME UNCHANGED hydratorVars, \A d \in Client \ {c} : op'[d] = op[d],
             op[c].pc \notin {"hydrate", "promote"}, op'[c].pc \notin {"hydrate", "promote"}
      PROVE  Goal
  <2>1. UNCHANGED <<cache, tmp, serviceVars, worker, call, known>>
    BY <1>2 DEF hydratorVars
  <2>2. HydratorInv' /\ \A one \in Worker : CacheInv(one) => CacheInv(one)'
    BY <1>1, <2>1, HydratorFrame
  <2>3. call[c].pc = "idle"
    BY <1>2 DEF CallInv
  <2>4. CallInv'
    BY <1>2, <2>1, <2>3, CallStays
  <2> QED
    BY <2>2, <2>4
<1>3. ASSUME op[c].pc \in {"hydrate", "promote"}, call[c].pc \in {"ok", "err"},
             op'[c].pc \notin {"hydrate", "promote"}, \A d \in Client \ {c} : op'[d] = op[d],
             call' = [call EXCEPT ![c] = NoCall],
             UNCHANGED <<cache, tmp, serviceVars, worker, known>>
      PROVE  Goal
  <2>1. /\ HydratorInv' /\ call'[c] = NoCall /\ \A d \in Client \ {c} : call'[d] = call[d]
        /\ \A one \in Worker : CacheInv(one) => CacheInv(one)'
    BY <1>3, NothingTyped, CallReplaced
  <2>2. ASSUME NEW d \in Client
        PROVE  /\ op'[d].pc \notin {"hydrate", "promote"} => call'[d].pc = "idle"
               /\ op'[d].pc \in {"hydrate", "promote"} => call'[d].oid \in Blob
               /\ op'[d].pc = "promote" => call'[d].pc = "ok"
    <3>1. CASE d = c
      BY <1>3, <2>1, <3>1, NothingTyped
    <3>2. CASE d # c
      <4>1. op'[d] = op[d] /\ call'[d] = call[d]
        BY <1>3, <2>1, <3>2
      <4> QED
        BY <4>1 DEF CallInv
    <3> QED
      BY <3>1, <3>2
  <2>3. CallInv'
    BY <2>2 DEF CallInv
  <2> QED
    BY <2>1, <2>3
<1> HIDE DEF Goal
<1>4. CASE Begin(c)
  <2>1. op[c].pc = "open" /\ UNCHANGED hydratorVars
    BY <1>4 DEF Begin, OpAt
  <2>2. /\ op'[c].pc \notin {"hydrate", "promote"} /\ \A d \in Client \ {c} : op'[d] = op[d]
    BY <1>4, EngineMoves DEF Moves, Ends
  <2> QED
    BY <1>2, <2>1, <2>2 DEF Goal
<1>5. CASE ResolvePath(c)
  <2> DEFINE p == op[c].path
             b == IF rows[p] = NoRow THEN Base(gen, p) ELSE NoBlob
             new == [pc |-> "stat", oid |-> b, sized |-> b \in known]
  <2>1. op[c].pc = "resolve" /\ UNCHANGED <<cache, tmp, serviceVars, worker, known>>
    BY <1>5 DEF ResolvePath, OpAt
  <2>2. p \in Path /\ gen \in DOMAIN snap /\ snap[gen] \in Commit
    BY <2>1 DEF RequestTypes, GenerationInv
  <2>3. b \in Blob \cup {NoBlob}
    BY <2>2, TreeAssumption DEF Base
  <2>4. call[c].pc = "idle"
    BY <2>1 DEF CallInv
  <2>5. CASE b # NoBlob
    <3>1. call' = [call EXCEPT ![c] = new] /\ OpGoto(c, "hydrate")
      BY <1>5, <2>5 DEF ResolvePath
    <3>2. b \in Blob
      BY <2>3, <2>5
    <3> HIDE DEF b
    <3>3. new \in HydrateCall /\ new.pc = "stat" /\ new.oid = b
      BY <3>2, SMT DEF HydrateCall, CallPlace
    <3>4. "hydrate" \in Place
      BY DEF Place
    <3>5. op'[c].pc = "hydrate" /\ \A d \in Client \ {c} : op'[d] = op[d]
      BY <2>1, <3>1, <3>4, RequestMoves DEF Moves
    <3> HIDE DEF new
    <3>6. /\ HydratorInv' /\ call'[c] = new /\ \A d \in Client \ {c} : call'[d] = call[d]
          /\ \A one \in Worker : CacheInv(one) => CacheInv(one)'
      BY <2>1, <2>4, <3>1, <3>2, <3>3, CallReplaced
    <3>7. ASSUME NEW d \in Client
          PROVE  /\ op'[d].pc \notin {"hydrate", "promote"} => call'[d].pc = "idle"
                 /\ op'[d].pc \in {"hydrate", "promote"} => call'[d].oid \in Blob
                 /\ op'[d].pc = "promote" => call'[d].pc = "ok"
      <4>1. CASE d = c
        BY <3>2, <3>3, <3>5, <3>6, <4>1
      <4>2. CASE d # c
        <5>1. op'[d] = op[d] /\ call'[d] = call[d]
          BY <3>5, <3>6, <4>2
        <5> QED
          BY <5>1 DEF CallInv
      <4> QED
        BY <4>1, <4>2
    <3>8. CallInv'
      BY <3>7 DEF CallInv
    <3> QED
      BY <3>6, <3>8 DEF Goal
  <2>6. CASE b = NoBlob
    <3>1. (OpGoto(c, "create") \/ Done(c)) /\ UNCHANGED call
      BY <1>5, <2>6 DEF ResolvePath
    <3>2. "create" \in Place
      BY DEF Place
    <3>3. op'[c].pc \notin {"hydrate", "promote"} /\ \A d \in Client \ {c} : op'[d] = op[d]
      BY <2>1, <3>1, <3>2, RequestMoves, RequestEnds DEF Moves, Ends
    <3> QED
      BY <1>2, <2>1, <3>1, <3>3 DEF Goal, hydratorVars
  <2> QED
    BY <2>5, <2>6
<1>6. CASE HydrateFails(c) \/ ReadCache(c)
  <2>1. /\ op[c].pc = "hydrate" /\ call[c].pc \in {"ok", "err"}
        /\ call' = [call EXCEPT ![c] = NoCall]
        /\ UNCHANGED <<cache, tmp, serviceVars, worker, known>>
    BY <1>6 DEF HydrateFails, ReadCache, OpAt
  <2>2. op'[c].pc = "idle" /\ \A d \in Client \ {c} : op'[d] = op[d]
    BY <1>6, EngineMoves DEF Ends
  <2> QED
    BY <1>3, <2>1, <2>2 DEF Goal
<1>7. CASE CopyOnWrite(c)
  <2>1. op[c].pc = "hydrate" /\ call[c].pc = "ok" /\ UNCHANGED hydratorVars
    BY <1>7 DEF CopyOnWrite, OpAt
  <2>2. op'[c].pc = "promote" /\ \A d \in Client \ {c} : op'[d] = op[d]
    BY <1>7, EngineMoves DEF Moves
  <2>3. UNCHANGED <<cache, tmp, serviceVars, worker, call, known>>
    BY <2>1 DEF hydratorVars
  <2>4. HydratorInv' /\ \A one \in Worker : CacheInv(one) => CacheInv(one)'
    BY <1>1, <2>3, HydratorFrame
  <2>5. call[c].oid \in Blob
    BY <2>1 DEF CallInv
  <2>6. CallInv'
    BY <2>1, <2>2, <2>3, <2>5, CallStays
  <2> QED
    BY <2>4, <2>6 DEF Goal
<1>8. CASE Promote(c)
  <2>1. /\ op[c].pc = "promote" /\ call' = [call EXCEPT ![c] = NoCall]
        /\ UNCHANGED <<cache, tmp, serviceVars, worker, known>>
    BY <1>8 DEF Promote, OpAt
  <2>2. call[c].pc = "ok"
    BY <2>1 DEF CallInv
  <2>3. op'[c].pc = "apply" /\ \A d \in Client \ {c} : op'[d] = op[d]
    BY <1>8, EngineMoves DEF Moves
  <2> QED
    BY <1>3, <2>1, <2>2, <2>3 DEF Goal
<1>9. CASE ReadFile(c) \/ CreateFile(c) \/ CreateRow(c) \/ GetRow(c) \/ WriteAt(c)
  <2>1. /\ op[c].pc \in {"file", "create", "created", "apply", "put"}
        /\ UNCHANGED hydratorVars
    BY <1>9 DEF ReadFile, CreateFile, CreateRow, GetRow, WriteAt, OpAt
  <2>2. \/ Ends(c) \/ Moves(c, "created") \/ Moves(c, "apply") \/ Moves(c, "put")
        \/ Moves(c, "written")
    BY <1>9, EngineMoves, Zenon
  <2>3. op'[c].pc \notin {"hydrate", "promote"} /\ \A d \in Client \ {c} : op'[d] = op[d]
    BY <2>2 DEF Moves, Ends
  <2> QED
    BY <1>2, <2>1, <2>3 DEF Goal
<1>10. CASE WriteRow(c) \/ Truncate(c) \/ RenameRows(c) \/ RenameFile(c) \/ RemoveFile(c)
            \/ RemoveRow(c)
  <2>1. /\ op[c].pc \in {"written", "apply", "move", "unlink", "whiteout"}
        /\ UNCHANGED hydratorVars
    BY <1>10 DEF WriteRow, Truncate, RenameRows, RenameFile, RemoveFile, RemoveRow, OpAt
  <2>2. Ends(c) \/ Moves(c, "move") \/ Moves(c, "whiteout")
    BY <1>10, EngineMoves, Zenon
  <2>3. op'[c].pc \notin {"hydrate", "promote"} /\ \A d \in Client \ {c} : op'[d] = op[d]
    BY <2>2 DEF Moves, Ends
  <2> QED
    BY <1>2, <2>1, <2>3 DEF Goal
<1> QED
  BY <1>4, <1>5, <1>6, <1>7, <1>8, <1>9, <1>10, Zenon DEF EngineStep

-----------------------------------------------------------------------------
(* What is read and copied *)

Solo == env \notin {"two", "corrupt", "overlap", "crash"}
One == CHOOSE w \in Worker : TRUE

\* With one worker over an intact cache nothing is torn.
WholeInv == CacheInv(One) /\ ~torn /\ \A p \in Path : files[p] # "torn"

\* A read and a copy of the cache follow an "ok", and a write finds its file.
LEMMA EngineWhole ==
  ASSUME RequestTypes, OverlayTypes, CallInv, LockInv, FileInv, WholeInv,
         NEW c \in Client, EngineStep(c)
  PROVE  ~torn' /\ \A p \in Path : files'[p] # "torn"
<1> DEFINE p == op[c].path
<1>1. p \in Path /\ op[c].to \in Path
  BY EngineRequest
<1>2. /\ ~torn /\ \A q \in Path : files[q] # "torn"
      /\ call[c].pc = "ok" => cache[call[c].oid] = "whole"
  BY DEF WholeInv, CacheInv, CallsWhole
<1>3. ASSUME NEW v, v # "torn", files' = files \/ files' = [files EXCEPT ![p] = v]
      PROVE  \A q \in Path : files'[q] # "torn"
  BY <1>1, <1>2, <1>3 DEF OverlayTypes
<1>4. CASE \/ Begin(c) \/ ResolvePath(c) \/ HydrateFails(c) \/ Promote(c) \/ CreateRow(c)
           \/ GetRow(c) \/ WriteRow(c) \/ RenameRows(c) \/ RemoveRow(c)
  <2>1. UNCHANGED <<torn, files>>
    BY <1>4 DEF Begin, ResolvePath, HydrateFails, Promote, CreateRow, GetRow, WriteRow,
                RenameRows, RemoveRow
  <2> QED
    BY <1>2, <2>1
<1>5. CASE ReadCache(c)
  <2>1. /\ torn' = (torn \/ cache[call[c].oid] = "part") /\ UNCHANGED files
        /\ call[c].pc = "ok"
    BY <1>5 DEF ReadCache
  <2> QED
    BY <1>2, <2>1
<1>6. CASE ReadFile(c)
  <2>1. torn' = (torn \/ files[p] = "torn") /\ UNCHANGED files
    BY <1>6 DEF ReadFile
  <2> QED
    BY <1>1, <1>2, <2>1
<1>7. CASE CopyOnWrite(c)
  <2>1. /\ op[c].pc = "hydrate" /\ call[c].pc = "ok" /\ UNCHANGED torn
        /\ files' = [files EXCEPT ![p] = IF cache[call[c].oid] = "whole" THEN call[c].oid
                                                                         ELSE "torn"]
    BY <1>7 DEF CopyOnWrite, OpAt
  <2>2. call[c].oid \in Blob
    BY <2>1 DEF CallInv
  <2>3. call[c].oid # "torn"
    BY <2>2, BlobAssumption
  <2>4. files' = [files EXCEPT ![p] = call[c].oid]
    BY <1>2, <2>1
  <2> QED
    BY <1>2, <1>3, <2>1, <2>3, <2>4
<1>8. CASE CreateFile(c) \/ Truncate(c) \/ RemoveFile(c)
  <2>1. /\ UNCHANGED torn
        /\ \/ files' = files \/ files' = [files EXCEPT ![p] = "own"]
           \/ files' = [files EXCEPT ![p] = "none"]
    BY <1>8 DEF CreateFile, Truncate, RemoveFile
  <2> QED
    BY <1>2, <1>3, <2>1
<1>9. CASE WriteAt(c)
  <2>1. /\ op[c].pc = "put" /\ UNCHANGED torn
        /\ files' = [files EXCEPT ![p] = IF files[p] = "none" THEN "torn" ELSE files[p]]
    BY <1>9 DEF WriteAt, OpAt
  <2>2. files[p] # "none"
    BY <2>1 DEF FileInv, RequestsFiled, Filed
  <2>3. files' = [files EXCEPT ![p] = files[p]] /\ files[p] # "torn"
    BY <1>1, <1>2, <2>1, <2>2
  <2> QED
    BY <1>2, <1>3, <2>1, <2>3
<1>10. CASE RenameFile(c)
  <2>1. files' = [files EXCEPT ![op[c].to] = files[p], ![p] = "none"]
    BY <1>10, RenameFileFiles
  <2>2. UNCHANGED torn
    BY <1>10 DEF RenameFile
  <2>3. files[p] # "torn"
    BY <1>1, <1>2
  <2> QED
    BY <1>1, <1>2, <2>1, <2>2, <2>3 DEF OverlayTypes
<1> QED
  BY <1>4, <1>5, <1>6, <1>7, <1>8, <1>9, <1>10, Zenon DEF EngineStep

-----------------------------------------------------------------------------
(* The mount *)

MountInv ==
  /\ GenerationInv /\ WatchTypes /\ HydratorInv /\ CallInv /\ OverlayInv
  /\ torn \in BOOLEAN
  /\ Solo => WholeInv

\* A mount begins in order, over whatever is in the cache unless it is "corrupt".
LEMMA MountInit == Init => MountInv
<1> SUFFICES ASSUME Init PROVE MountInv
  OBVIOUS
<1>1. /\ HydratorInit /\ torn = FALSE /\ op = [c \in Client |-> NoOp]
      /\ files = [p \in Path |-> "none"]
      /\ env # "corrupt" => \A b \in Blob : cache[b] # "part"
  BY DEF Init
<1>2. HydratorInv /\ GenerationInv /\ WatchTypes /\ OverlayInv
  BY <1>1, HydratorStarts, GenerationInit, WatchInit, OverlayInit
<1>3. /\ cache \in [Blob -> FileState] /\ verified = {} /\ checks = [b \in Blob |-> {}]
      /\ worker = [w \in Worker |-> NoFetch] /\ call = [c \in Client |-> NoCall]
  BY <1>1 DEF HydratorInit
<1>4. CallInv
  BY <1>1, <1>3, NoneTyped, NothingTyped DEF CallInv
<1>5. ASSUME Solo PROVE WholeInv
  <2>1. \A b \in Blob : cache[b] \in {"none", "whole"}
    BY <1>1, <1>3, <1>5 DEF Solo, FileState
  <2>2. BlobsWhole
    BY <1>3, <2>1 DEF BlobsWhole
  <2>3. CallsWhole
    BY <1>3, NothingTyped DEF CallsWhole
  <2>4. One \in Worker
    BY WorkerAssumption DEF One
  <2>5. worker[One].pc = "idle"
    BY <1>3, <2>4, NothingTyped
  <2>6. FetchWhole(One)
    BY <2>5 DEF FetchWhole
  <2>7. ~torn /\ \A p \in Path : files[p] # "torn"
    BY <1>1
  <2> QED
    BY <2>2, <2>3, <2>6, <2>7 DEF WholeInv, CacheInv
<1> QED
  BY <1>1, <1>2, <1>4, <1>5 DEF MountInv

\* A step of a request.
LEMMA MountEngine ==
  ASSUME MountInv, NEW c \in Client, EngineStep(c)
  PROVE  HydratorInv' /\ CallInv' /\ OverlayInv' /\ torn' \in BOOLEAN /\ (Solo => WholeInv)'
<1>1. /\ GenerationInv /\ HydratorInv /\ CallInv /\ RequestTypes /\ OverlayTypes
      /\ torn \in BOOLEAN
  BY DEF MountInv, OverlayInv
<1>2. UNCHANGED scope
  BY EngineFrame
<1>3. /\ HydratorInv' /\ CallInv'
      /\ \A one \in Worker : CacheInv(one) => CacheInv(one)'
  BY <1>1, EngineCalls
<1>4. RequestTypes' /\ OverlayTypes'
  BY <1>1, EngineRequest, EngineOverlay
<1>5. ASSUME Calm' PROVE LockInv' /\ FileInv'
  <2>1. Calm
    BY <1>2, <1>5 DEF Calm, env
  <2>2. LockInv /\ FileInv
    BY <2>1 DEF MountInv, OverlayInv
  <2> QED
    BY <1>1, <2>1, <2>2, EngineLocks, EngineFiles
<1>6. torn' \in BOOLEAN
  <2>1. CASE ReadCache(c) \/ ReadFile(c)
    BY <2>1 DEF ReadCache, ReadFile
  <2>2. CASE ~ReadCache(c) /\ ~ReadFile(c)
    <3>1. UNCHANGED torn
      <4>1. CASE Begin(c) \/ ResolvePath(c) \/ HydrateFails(c) \/ CopyOnWrite(c) \/ Promote(c)
        BY <4>1 DEF Begin, ResolvePath, HydrateFails, CopyOnWrite, Promote
      <4>2. CASE CreateFile(c) \/ CreateRow(c) \/ GetRow(c) \/ WriteAt(c) \/ WriteRow(c)
        BY <4>2 DEF CreateFile, CreateRow, GetRow, WriteAt, WriteRow
      <4>3. CASE \/ Truncate(c) \/ RenameRows(c) \/ RenameFile(c) \/ RemoveFile(c)
                 \/ RemoveRow(c)
        BY <4>3 DEF Truncate, RenameRows, RenameFile, RemoveFile, RemoveRow
      <4> QED
        BY <2>2, <4>1, <4>2, <4>3, Zenon DEF EngineStep
    <3> QED
      BY <1>1, <3>1
  <2> QED
    BY <2>1, <2>2
<1>7. ASSUME Solo' PROVE WholeInv'
  <2>1. Solo /\ Calm
    BY <1>2, <1>7 DEF Solo, Calm, env
  <2>2. LockInv /\ FileInv /\ WholeInv
    BY <2>1 DEF MountInv, OverlayInv
  <2>3. ~torn' /\ \A p \in Path : files'[p] # "torn"
    BY <1>1, <2>2, EngineWhole
  <2>4. One \in Worker
    BY WorkerAssumption DEF One
  <2>5. CacheInv(One)'
    BY <1>3, <2>2, <2>4 DEF WholeInv
  <2> QED
    BY <2>3, <2>5 DEF WholeInv
<1> QED
  BY <1>3, <1>4, <1>5, <1>6, <1>7 DEF OverlayInv

\* A step of the hydrator, with one worker at most if nothing else is allowed.
LEMMA MountHydrator ==
  ASSUME MountInv, UNCHANGED <<scope, rows, files, daemon, listed, touched, op, torn>>,
         \/ \E c \in Client : CallStep(c) \/ Cancel(c)
         \/ \E b \in Blob : VerifyStep(b) \/ Enqueue(b)
         \/ \E w \in Started : WorkerStep(w)
  PROVE  HydratorInv' /\ CallInv' /\ OverlayInv' /\ torn' \in BOOLEAN /\ (Solo => WholeInv)'
<1>1. HydratorInv /\ CallInv /\ OverlayInv /\ torn \in BOOLEAN
  BY DEF MountInv
<1>2. One \in Worker /\ Started \subseteq Worker
  BY WorkerAssumption DEF One, Started
<1>3. HydratorInv' /\ CallsKept
  BY <1>1, <1>2, HydratorKeeps
<1>4. OverlayInv'
  BY <1>1, OverlayFrame
<1>5. ASSUME NEW c \in Client
      PROVE  /\ op'[c].pc \notin {"hydrate", "promote"} => call'[c].pc = "idle"
             /\ op'[c].pc \in {"hydrate", "promote"} => call'[c].oid \in Blob
             /\ op'[c].pc = "promote" => call'[c].pc = "ok"
  <2>1. /\ op'[c] = op[c] /\ call'[c].oid = call[c].oid
        /\ call[c].pc \in {"idle", "ok"} => call'[c] = call[c]
    BY <1>3 DEF CallsKept
  <2> QED
    BY <1>1, <2>1 DEF CallInv
<1>6. CallInv'
  BY <1>5 DEF CallInv
<1>7. ASSUME Solo' PROVE WholeInv'
  <2>1. Solo
    BY <1>7 DEF Solo, env
  <2>2. WholeInv /\ Started = {One}
    BY <2>1 DEF MountInv, Solo, Started, One
  <2>3. CacheInv(One)
    BY <2>2 DEF WholeInv
  <2>4. CacheInv(One)'
    <3>1. CASE \E c \in Client : CallStep(c) \/ Cancel(c)
      BY <1>1, <1>2, <2>3, <3>1, CallStepWhole, CancelWhole
    <3>2. CASE \E b \in Blob : VerifyStep(b) \/ Enqueue(b)
      BY <1>1, <1>2, <2>3, <3>2, VerifyStepWhole, EnqueueWhole
    <3>3. CASE \E w \in Started : WorkerStep(w)
      BY <1>1, <1>2, <2>2, <2>3, <3>3, WorkerStepWhole
    <3> QED
      BY <3>1, <3>2, <3>3
  <2> QED
    BY <2>2, <2>4 DEF WholeInv
<1> QED
  BY <1>1, <1>3, <1>4, <1>6, <1>7

\* Any other step that leaves the requests' calls and the cache alone.
LEMMA MountOther ==
  ASSUME MountInv, OverlayInv', CallInv', known' \subseteq Blob,
         UNCHANGED <<scope, cache, tmp, serviceVars, worker, call, torn>>,
         \A p \in Path : files'[p] \in {files[p], "none"}
  PROVE  HydratorInv' /\ torn' \in BOOLEAN /\ (Solo => WholeInv)'
<1>1. HydratorInv /\ torn \in BOOLEAN
  BY DEF MountInv
<1>2. HydratorInv' /\ \A one \in Worker : CacheInv(one) => CacheInv(one)'
  BY <1>1, HydratorFrame
<1>3. ASSUME Solo' PROVE WholeInv'
  <2>1. WholeInv
    BY <1>3 DEF MountInv, Solo, env
  <2>2. One \in Worker
    BY WorkerAssumption DEF One
  <2>3. CacheInv(One)'
    BY <1>2, <2>1, <2>2 DEF WholeInv
  <2>4. ~torn' /\ \A p \in Path : files'[p] # "torn"
    BY <2>1 DEF WholeInv
  <2> QED
    BY <2>3, <2>4 DEF WholeInv
<1> QED
  BY <1>1, <1>2, <1>3

\* A kill and a remount leave the cache and its .tmp files, and drop all else that
\* was in memory.
LEMMA MountRemount ==
  ASSUME MountInv, Remount
  PROVE  HydratorInv' /\ CallInv' /\ OverlayInv' /\ torn' \in BOOLEAN /\ (Solo => WholeInv)'
<1>1. HydratorInv /\ OverlayTypes /\ torn \in BOOLEAN
  BY DEF MountInv, OverlayInv
<1>2. /\ env = "crash" /\ NewService /\ UNCHANGED <<cache, tmp, scope, torn>>
      /\ op' = [c \in Client |-> NoOp] /\ listed' = [p \in Path |-> NoRow] /\ touched' = {}
  BY DEF Remount
<1>3. /\ known' = known \/ known' = {} \/ known' = Blob
      /\ rows' = [p \in Path |-> IF Stale(rows[p], Tree[tip[head]][p]) THEN NoRow
                                                                        ELSE rows[p]]
      /\ files' = [p \in Path |-> IF Live(ToRemove(tip[head])[p]) THEN "none" ELSE files[p]]
  BY DEF Remount
<1>4. /\ cache \in [Blob -> FileState] /\ tmp \in [Blob -> FileState] /\ known' \subseteq Blob
  BY <1>1, <1>3 DEF HydratorInv, StoreTypes
<1>5. HydratorInv'
  BY <1>2, <1>4, NewServiceKeeps
<1>6. call' = [c \in Client |-> NoCall]
  BY <1>2 DEF NewService
<1>7. CallInv'
  BY <1>2, <1>6, NoneTyped, NothingTyped DEF CallInv
<1>8. RequestTypes'
  BY <1>2, NoneTyped DEF RequestTypes
<1>9. rows' \in [Path -> Row] /\ listed' \in [Path -> Row]
  BY <1>1, <1>2, <1>3, NoneTyped DEF OverlayTypes
<1>10. files' \in [Path -> {"none", "own", "torn"} \cup Blob]
  BY <1>1, <1>3 DEF OverlayTypes
<1>11. OverlayTypes'
  BY <1>2, <1>9, <1>10 DEF OverlayTypes
<1>12. ~Calm' /\ ~Solo'
  BY <1>2 DEF Calm, Solo, env
<1> QED
  BY <1>1, <1>2, <1>5, <1>7, <1>8, <1>11, <1>12 DEF OverlayInv

\* No step of the mount breaks MountInv.
LEMMA MountStep == MountInv /\ [Next]_vars => MountInv'
<1> SUFFICES ASSUME MountInv, [Next]_vars PROVE MountInv'
  OBVIOUS
<1>1. /\ GenerationInv /\ WatchTypes /\ HydratorInv /\ CallInv /\ OverlayInv
      /\ known \subseteq Blob
  BY DEF MountInv, HydratorInv, StoreTypes
<1>2. GenerationInv' /\ WatchTypes'
  BY <1>1, GenerationStep, WatchStep
<1> DEFINE Rest == /\ HydratorInv' /\ CallInv' /\ OverlayInv' /\ torn' \in BOOLEAN
                   /\ (Solo => WholeInv)'
<1>3. ASSUME NEW c \in Client, EngineStep(c) PROVE Rest
  BY <1>3, MountEngine
<1>4. ASSUME UNCHANGED fsVars,
             \/ \E c \in Client : CallStep(c) \/ Cancel(c)
             \/ \E b \in Blob : VerifyStep(b)
             \/ \E w \in Started : WorkerStep(w)
      PROVE  Rest
  <2>1. UNCHANGED <<scope, rows, files, daemon, listed, touched, op, torn>>
    BY <1>4 DEF fsVars
  <2> QED
    BY <1>4, <2>1, MountHydrator
<1>5. ASSUME NEW p \in Path, PrefetchDir(p) PROVE Rest
  <2>1. /\ UNCHANGED <<scope, rows, files, daemon, listed, touched, op, torn>>
        /\ Base(gen, p) # NoBlob /\ Enqueue(Base(gen, p))
    BY <1>5 DEF PrefetchDir
  <2>2. Base(gen, p) \in Blob
    <3>1. gen \in DOMAIN snap /\ snap[gen] \in Commit
      BY <1>1 DEF GenerationInv
    <3> QED
      BY <2>1, <3>1, TreeAssumption DEF Base
  <2> QED
    BY <2>1, <2>2, MountHydrator
<1>6. CASE DaemonStep
  <2>1. /\ OverlayInv' /\ UNCHANGED <<scope, op>>
        /\ \A p \in Path : files'[p] \in {files[p], "none"}
    BY <1>1, <1>6, OverlayDaemon
  <2>2. /\ UNCHANGED <<cache, tmp, serviceVars, worker, call, torn>>
        /\ known' = known \/ known' \in {{}, Blob}
    BY <1>6 DEF DaemonStep, Tick, HEADChanged, PublishFails, ListRows, DeleteRows,
                RemoveFiles, SetGeneration, hydratorVars
  <2>3. known' \subseteq Blob
    BY <1>1, <2>2
  <2>4. CallInv'
    BY <1>1, <2>1, <2>2 DEF CallInv
  <2>5. Rest
    BY <2>1, <2>2, <2>3, <2>4, MountOther
  <2> QED
    BY <1>2, <2>5 DEF MountInv
<1>7. ASSUME NEW c \in Client, NEW kind \in scope.kinds, NEW p \in Path, NEW to \in Path,
             Open(c, kind, p, to)
      PROVE  Rest
  <2>1. /\ OverlayInv' /\ op[c].pc = "idle" /\ op'[c].pc = "open"
        /\ \A d \in Client \ {c} : op'[d] = op[d]
    BY <1>1, <1>7, OverlayOpen DEF WatchTypes
  <2>2. UNCHANGED <<scope, cache, tmp, serviceVars, worker, call, torn, known, files>>
    BY <1>7 DEF Open, hydratorVars
  <2>3. call[c].pc = "idle"
    BY <1>1, <2>1 DEF CallInv
  <2>4. CallInv'
    BY <1>1, <2>1, <2>2, <2>3, CallStays
  <2> QED
    BY <1>1, <2>1, <2>2, <2>4, MountOther
<1>8. CASE (\E k \in Commit : CommitTo(k)) \/ (\E b \in Branch : Checkout(b)) \/ UNCHANGED vars
  <2>1. /\ UNCHANGED <<scope, rows, files, daemon, listed, touched, op>>
        /\ UNCHANGED <<cache, tmp, serviceVars, worker, call, torn, known>>
    BY <1>8 DEF CommitTo, Checkout, vars, hydratorVars
  <2>2. OverlayInv' /\ CallInv'
    BY <1>1, <2>1, OverlayFrame DEF CallInv
  <2>3. Rest
    BY <1>1, <2>1, <2>2, MountOther
  <2> QED
    BY <1>2, <2>3 DEF MountInv
<1>9. CASE Remount
  <2>1. Rest
    BY <1>9, MountRemount
  <2> QED
    BY <1>2, <2>1 DEF MountInv
<1>10. Rest => MountInv'
  BY <1>2 DEF MountInv
<1> HIDE DEF Rest
<1> QED
  BY <1>3, <1>4, <1>5, <1>6, <1>7, <1>8, <1>9, <1>10, Zenon DEF Next, Progress

\* Every reachable state of the mount has the types of TypeOK: a request that is
\* past its lookup has its path and row, a call its blob, a worker its task, and
\* the generations in the database are numbered up to the current one.
THEOREM MountTyped == Spec => []TypeOK
<1>1. MountInv => TypeOK
  <2> SUFFICES ASSUME MountInv PROVE TypeOK
    OBVIOUS
  <2>1. HydratorTypeOK
    BY HydratorTyped DEF MountInv
  <2>2. gen \in Nat
    BY SMT DEF MountInv, GenerationInv
  <2> QED
    BY <2>1, <2>2 DEF MountInv, TypeOK, GenerationInv, WatchTypes, OverlayInv, RequestTypes,
                      OverlayTypes
<1> QED
  BY <1>1, MountInit, MountStep, PTL DEF Spec

\* Between requests, and outside a reconcile, every row that is no whiteout
\* has its backing file: WriteFile, Rename and Remove keep the two together, in
\* whatever order they run and whatever the snapshots are, and so does Reconcile.
THEOREM RowsKeepTheirFiles == Spec => []RowsHaveFiles
<1>1. MountInv => RowsHaveFiles
  <2> SUFFICES ASSUME MountInv, Calm, Quiet, NEW p \in Path, Live(rows[p])
               PROVE  files[p] # "none"
    BY DEF RowsHaveFiles, Calm
  <2>1. LockInv /\ RowsFiled
    BY DEF MountInv, OverlayInv, FileInv
  <2>2. HasFile(p)
    BY <2>1 DEF RowsFiled
  <2>3. \A c \in Client : op[c].pc \notin {"move", "whiteout"}
    BY <2>1 DEF LockInv, Quiet, Changing
  <2> QED
    BY <2>2, <2>3 DEF HasFile
<1> QED
  BY <1>1, MountInit, MountStep, PTL DEF Spec

\* With one worker over an intact cache, and no kill or overlap with Reconcile, no
\* read returns part of a blob and no file starts as less: .tmp files are renamed
\* whole, a verified blob is there, and a write finds the file of its row.
THEOREM NothingTorn == Spec => []NoTornContent
<1>1. MountInv => NoTornContent
  BY DEF MountInv, WholeInv, NoTornContent, Solo
<1> QED
  BY <1>1, MountInit, MountStep, PTL DEF Spec
=============================================================================
