----------------------------- MODULE ArtifactFS -----------------------------
(***************************************************************************)
(* One mounted repository of artifact-fs: the FUSE engine (fusefs/ops.go,  *)
(* merged.go) over the overlay store, the snapshot store and the hydrator, *)
(* and the daemon (daemon.go) whose watcher follows HEAD.                  *)
(*                                                                         *)
(* The tree a user sees is the snapshot of HEAD's commit with the overlay  *)
(* on top: a row of the overlay database per changed path, and a backing   *)
(* file per row that is not a whiteout, at a place that depends on the     *)
(* path alone.  A new HEAD makes a new generation of the snapshot;         *)
(* Reconcile then drops the rows it makes stale, in three steps (list the  *)
(* rows, delete them in a transaction, remove their files).                *)
(*                                                                         *)
(* The kernel holds the lock of an inode while a request changes it, and   *)
(* that of the directory while a request looks up and changes a name, so   *)
(* two requests that change one path, or two names of the one directory    *)
(* here, do not overlap; reads overlap with everything.  Subdirectories,   *)
(* modes, times and sizes are left out, except that the time of a row      *)
(* tells whether it was written since Reconcile listed it.                 *)
(*                                                                         *)
(* A behaviour has a scope: its bounds, the kinds of request it has, and   *)
(* env, what it may meet beyond the ordinary: "two" workers                *)
(* instead of one, "corrupt" blobs in the cache after a power loss, HEAD   *)
(* moving "early" (before the watcher has its first look), an indexing of  *)
(* the new HEAD that "fails", requests that "overlap" with Reconcile, a    *)
(* process that is killed ("crash"), or nothing of the kind ("plain").     *)
(***************************************************************************)
EXTENDS Hydrator

CONSTANTS Path, Commit, Branch,
          Main, First, \* the branch HEAD names at first, and its commit
          Tree,        \* [Commit -> [Path -> Blob \cup {NoBlob}]]
          Scopes       \* the scopes explored: env, and bounds on the requests,
                       \* the moves of HEAD and the times the daemon is killed

Kinds == {"read", "write", "truncate", "rename", "unlink", "create"}
Envs == {"plain", "two", "corrupt", "early", "fails", "overlap", "crash"}

ASSUME BlobAssumption == {NoBlob, "none", "own", "torn"} \cap Blob = {}
ASSUME CloneAssumption == Main \in Branch /\ First \in Commit
ASSUME ScopesAssumption ==
  Scopes \subseteq [env : Envs, ops : Nat, kinds : SUBSET Kinds, moves : Nat, kills : Nat]
ASSUME TreeAssumption == Tree \in [Commit -> [Path -> Blob \cup {NoBlob}]]

VARIABLES
  scope,
  rows, files,         \* the overlay: database and upper directory
  snap,                \* base_nodes: the commit of each generation kept
  gen,                 \* Resolver.generation
  current, headRef,    \* current_generation and head_ref in the database
  head, tip, stamp, loose,      \* HEAD, branches; mtimes; loose refs
  prev, firstSeenChange,        \* the Poller
  daemon,              \* place in onHEADChanged
  listed, touched,     \* Reconcile's toRemove; rows written since
  op,                  \* the request each client makes
  torn,                \* history: a read returned part of a blob
  ops, moves, kills    \* counted up to the bounds of the scope

gitVars == <<head, tip, stamp, loose, moves>>
watchVars == <<prev, firstSeenChange>>
snapVars == <<snap, gen, current, headRef>>
vars == <<hydratorVars, scope, rows, files, snapVars, gitVars, watchVars, daemon,
          listed, touched, op, torn, ops, kills>>

env == scope.env
NoRow == [kind |-> "none", source |-> NoBlob]
Whiteout == [kind |-> "delete", source |-> NoBlob]
NoOp == [pc |-> "idle", kind |-> "none", path |-> "none", to |-> "none", row |-> NoRow]
Live(row) == row.kind \notin {"none", "delete"}       \* has a row, not IsDeleted
Base(g, p) == Tree[snap[g]][p]                        \* GetNode
Exists(p) == \/ Live(rows[p])
             \/ rows[p] = NoRow /\ Base(gen, p) # NoBlob
Started == IF env = "two" THEN Worker ELSE {CHOOSE w \in Worker : TRUE}
HeadFile == "HEAD"
RefFile == Branch \cup {HeadFile}

Row == {NoRow, Whiteout} \cup
       [kind : {"create", "modify", "rename"}, source : Blob \cup {NoBlob}]
Place == {"idle", "open", "resolve", "hydrate", "promote", "file", "create", "created",
          "apply", "put", "written", "move", "unlink", "whiteout"}
Request == [pc : Place, kind : Kinds \cup {"none"}, path : Path \cup {"none"},
            to : Path \cup {"none"}, row : Row]

TypeOK ==
  /\ HydratorTypeOK
  /\ scope \in Scopes
  /\ rows \in [Path -> Row] /\ listed \in [Path -> Row] /\ touched \subseteq Path
  /\ files \in [Path -> {"none", "own", "torn"} \cup Blob]
  /\ current \in Nat /\ gen \in Nat /\ headRef \in Branch
  /\ DOMAIN snap \subseteq 1..current /\ \A g \in DOMAIN snap : snap[g] \in Commit
  /\ head \in Branch /\ tip \in [Branch -> Commit] /\ loose \subseteq Branch
  /\ stamp \in [RefFile -> Nat] /\ prev \in [RefFile -> Nat]
  /\ firstSeenChange \subseteq Branch
  /\ daemon \in {"watch", "changed", "reconcile", "delete", "remove", "show"}
  /\ op \in [Client -> Request]
  /\ torn \in BOOLEAN

Init ==
  /\ scope \in Scopes
  /\ HydratorInit
  /\ env # "corrupt" => \A b \in Blob : cache[b] # "part"
  /\ head = Main /\ tip = [b \in Branch |-> First]
  /\ loose \in IF scope.moves = 0 THEN {Branch} ELSE {{}, Branch}
  /\ stamp = [f \in RefFile |-> 1]
  /\ IF env = "early"
     THEN prev = [f \in RefFile |-> 0] /\ firstSeenChange = {}
     ELSE /\ prev = [f \in RefFile |-> IF f \in (loose \cap {Main}) \cup {HeadFile}
                                        THEN 1 ELSE 0]
          /\ firstSeenChange = {Main} \ loose
  /\ snap = [g \in {1} |-> First] /\ gen = 1 /\ current = 1 /\ headRef = Main
  /\ rows = [p \in Path |-> NoRow] /\ files = [p \in Path |-> "none"]
  /\ daemon = "watch" /\ listed = [p \in Path |-> NoRow] /\ touched = {}
  /\ op = [c \in Client |-> NoOp]
  /\ torn = FALSE /\ ops = 0 /\ moves = 0 /\ kills = 0

-----------------------------------------------------------------------------
(* The requests.  op.pc is the place in the engine, call the place in       *)
(* EnsureHydrated while the request is there.                               *)

Reads(c) == op[c].kind = "read"
Changing(c) == op[c].pc \notin {"idle", "open"} /\ ~Reads(c)
Names(c) == op[c].kind \in {"rename", "unlink", "create"}
Unlocked(c) ==
  \A d \in Client \ {c} :
    Changing(d) => /\ {op[c].path, op[c].to} \cap {op[d].path, op[d].to} = {}
                   /\ ~(Names(c) /\ Names(d))
Reconciling == daemon \in {"delete", "remove"}

OpAt(c, pc) == op[c].pc = pc
IdleSlots == {c \in Client : OpAt(c, "idle")}
FreeSlot == CHOOSE c \in Client : IdleSlots # {} => c \in IdleSlots
OpGoto(c, pc) == op' = [op EXCEPT ![c].pc = pc]
Done(c) == op' = [op EXCEPT ![c] = NoOp]
Upsert(p, row) == rows' = [rows EXCEPT ![p] = row] /\ touched' = touched \cup {p}

\* A program makes a request, in any slot that is free.
Open(c, kind, p, to) ==
  /\ OpAt(c, "idle") /\ c = FreeSlot /\ ops < scope.ops
  /\ IF kind = "create" THEN ~Exists(p) ELSE Exists(p)
  /\ IF kind = "rename" THEN to # p ELSE to = p
  /\ op' = [op EXCEPT ![c] = [NoOp EXCEPT !.pc = "open", !.kind = kind, !.path = p,
                                          !.to = to]]
  /\ ops' = ops + 1
  /\ UNCHANGED <<hydratorVars, scope, rows, files, snapVars, gitVars, watchVars, daemon,
                 listed, touched, torn, kills>>

\* The request has its locks; the kernel has looked the name up under them.
\* Then the first look at the overlay: Read's, ensureOverlay's and Rename's
\* Get.  Remove and CreateFile do not depend on one.
Begin(c) ==
  /\ OpAt(c, "open")
  /\ ~Reads(c) => /\ Unlocked(c)
                  /\ Reconciling => env = "overlap"
  /\ LET row == rows[op[c].path] IN
     CASE Names(c) /\ (Exists(op[c].path) = (op[c].kind = "create")) -> Done(c)
       [] op[c].kind = "unlink" -> OpGoto(c, "unlink")
       [] op[c].kind = "create" -> OpGoto(c, "create")
       [] Reads(c) /\ Live(row) -> OpGoto(c, "file")
       [] Reads(c) /\ row = Whiteout -> Done(c)
       [] row = NoRow -> OpGoto(c, "resolve")
       [] OTHER -> OpGoto(c, "apply")
  /\ UNCHANGED <<hydratorVars, scope, rows, files, snapVars, gitVars, watchVars, daemon,
                 listed, touched, torn, ops, kills>>

\* ResolvePath.  A read that finds a row now asks for the blob "" and fails;
\* a write to a path that is gone creates it.
ResolvePath(c) ==
  /\ OpAt(c, "resolve")
  /\ LET p == op[c].path
         b == IF rows[p] = NoRow THEN Base(gen, p) ELSE NoBlob IN
     IF b # NoBlob
     THEN /\ OpGoto(c, "hydrate")
          /\ call' = [call EXCEPT ![c] = [pc |-> "stat", oid |-> b,
                                          sized |-> b \in known]]
     ELSE /\ IF op[c].kind = "write" THEN OpGoto(c, "create") ELSE Done(c)
          /\ UNCHANGED call
  /\ UNCHANGED <<cache, tmp, serviceVars, worker, known, scope, rows, files, snapVars,
                 gitVars, watchVars, daemon, listed, touched, torn, ops, kills>>

\* EnsureHydrated returns an error, or success: what a read then finds in
\* the cache, and the copy EnsureCopyOnWrite makes, empty if it finds nothing.
HydrateFails(c) ==
  /\ OpAt(c, "hydrate") /\ call[c].pc = "err"
  /\ Done(c)
  /\ call' = [call EXCEPT ![c] = NoCall]
  /\ UNCHANGED <<cache, tmp, serviceVars, worker, known, scope, rows, files, snapVars,
                 gitVars, watchVars, daemon, listed, touched, torn, ops, kills>>

ReadCache(c) ==
  /\ OpAt(c, "hydrate") /\ call[c].pc = "ok" /\ Reads(c)
  /\ torn' = (torn \/ cache[call[c].oid] = "part")
  /\ Done(c)
  /\ call' = [call EXCEPT ![c] = NoCall]
  /\ UNCHANGED <<cache, tmp, serviceVars, worker, known, scope, rows, files, snapVars,
                 gitVars, watchVars, daemon, listed, touched, ops, kills>>

CopyOnWrite(c) ==
  /\ OpAt(c, "hydrate") /\ call[c].pc = "ok" /\ ~Reads(c)
  /\ LET b == call[c].oid IN
     files' = [files EXCEPT ![op[c].path] = IF cache[b] = "whole" THEN b ELSE "torn"]
  /\ OpGoto(c, "promote")
  /\ UNCHANGED <<hydratorVars, scope, rows, snapVars, gitVars, watchVars, daemon, listed,
                 touched, torn, ops, kills>>

Promote(c) ==
  /\ OpAt(c, "promote")
  /\ Upsert(op[c].path, [kind |-> "modify", source |-> call[c].oid])
  /\ call' = [call EXCEPT ![c] = NoCall]
  /\ OpGoto(c, "apply")
  /\ UNCHANGED <<cache, tmp, serviceVars, worker, known, scope, files, snapVars, gitVars,
                 watchVars, daemon, listed, torn, ops, kills>>

\* Read of a backing file.
ReadFile(c) ==
  /\ OpAt(c, "file")
  /\ torn' = (torn \/ files[op[c].path] = "torn")
  /\ Done(c)
  /\ UNCHANGED <<hydratorVars, scope, rows, files, snapVars, gitVars, watchVars, daemon,
                 listed, touched, ops, kills>>

\* CreateFile: the empty file, then the row; a write goes on to WriteFile.
CreateFile(c) ==
  /\ OpAt(c, "create")
  /\ files' = [files EXCEPT ![op[c].path] = "own"]
  /\ OpGoto(c, "created")
  /\ UNCHANGED <<hydratorVars, scope, rows, snapVars, gitVars, watchVars, daemon, listed,
                 touched, torn, ops, kills>>

CreateRow(c) ==
  /\ OpAt(c, "created")
  /\ Upsert(op[c].path, [kind |-> "create", source |-> NoBlob])
  /\ IF op[c].kind = "write" THEN OpGoto(c, "apply") ELSE Done(c)
  /\ UNCHANGED <<hydratorVars, scope, files, snapVars, gitVars, watchVars, daemon, listed,
                 torn, ops, kills>>

\* WriteFile: the row, the bytes (O_CREATE makes a missing file anew), the
\* row again.
GetRow(c) ==
  /\ OpAt(c, "apply") /\ op[c].kind = "write"
  /\ LET row == rows[op[c].path] IN
     IF Live(row) THEN op' = [op EXCEPT ![c].pc = "put", ![c].row = row] ELSE Done(c)
  /\ UNCHANGED <<hydratorVars, scope, rows, files, snapVars, gitVars, watchVars, daemon,
                 listed, touched, torn, ops, kills>>

WriteAt(c) ==
  /\ OpAt(c, "put")
  /\ files' = [files EXCEPT ![op[c].path] = IF @ = "none" THEN "torn" ELSE @]
  /\ OpGoto(c, "written")
  /\ UNCHANGED <<hydratorVars, scope, rows, snapVars, gitVars, watchVars, daemon, listed,
                 touched, torn, ops, kills>>

WriteRow(c) ==
  /\ OpAt(c, "written")
  /\ Upsert(op[c].path, [op[c].row EXCEPT !.kind = IF @ = "create" THEN @ ELSE "modify"])
  /\ Done(c)
  /\ UNCHANGED <<hydratorVars, scope, files, snapVars, gitVars, watchVars, daemon, listed,
                 torn, ops, kills>>

\* Truncate changes the file and not the row.
Truncate(c) ==
  /\ OpAt(c, "apply") /\ op[c].kind = "truncate"
  /\ LET p == op[c].path IN
     files' = IF Live(rows[p]) /\ files[p] # "none" THEN [files EXCEPT ![p] = "own"]
                                                    ELSE files
  /\ Done(c)
  /\ UNCHANGED <<hydratorVars, scope, rows, snapVars, gitVars, watchVars, daemon, listed,
                 touched, torn, ops, kills>>

\* Overlay.Rename: one transaction, which fails if the new path has a row of
\* any kind, and then the file; when that fails, the rows are put back.
RenameRows(c) ==
  /\ OpAt(c, "apply") /\ op[c].kind = "rename"
  /\ LET p == op[c].path  q == op[c].to IN
     IF Live(rows[p]) /\ rows[q] = NoRow
     THEN /\ rows' = [rows EXCEPT ![p] = Whiteout,
                                  ![q] = [kind |-> "rename", source |-> rows[p].source]]
          /\ touched' = touched \cup {p, q}
          /\ op' = [op EXCEPT ![c].pc = "move", ![c].row = rows[p]]
     ELSE Done(c) /\ UNCHANGED <<rows, touched>>
  /\ UNCHANGED <<hydratorVars, scope, files, snapVars, gitVars, watchVars, daemon, listed,
                 torn, ops, kills>>

RenameFile(c) ==
  /\ OpAt(c, "move")
  /\ LET p == op[c].path  q == op[c].to IN
     IF files[p] = "none"
     THEN /\ rows' = [rows EXCEPT ![q] = NoRow, ![p] = op[c].row]
          /\ UNCHANGED files
     ELSE /\ files' = [files EXCEPT ![q] = files[p], ![p] = "none"]
          /\ UNCHANGED rows
  /\ Done(c)
  /\ UNCHANGED <<hydratorVars, scope, snapVars, gitVars, watchVars, daemon, listed,
                 touched, torn, ops, kills>>

\* Remove: the backing file, then the whiteout, whether or not the snapshot
\* has the path.
RemoveFile(c) ==
  /\ OpAt(c, "unlink")
  /\ LET p == op[c].path IN
     files' = IF Live(rows[p]) THEN [files EXCEPT ![p] = "none"] ELSE files
  /\ OpGoto(c, "whiteout")
  /\ UNCHANGED <<hydratorVars, scope, rows, snapVars, gitVars, watchVars, daemon, listed,
                 touched, torn, ops, kills>>

\* The mutant of RemoveRow: no whiteout is written.
MutRemoveRow(c) ==
  /\ OpAt(c, "whiteout")
  /\ Done(c)
  /\ UNCHANGED <<hydratorVars, scope, rows, files, snapVars, gitVars, watchVars, daemon,
                 listed, touched, torn, ops, kills>>

RemoveRow(c) ==
  /\ OpAt(c, "whiteout")
  /\ Upsert(op[c].path, Whiteout)
  /\ Done(c)
  /\ UNCHANGED <<hydratorVars, scope, files, snapVars, gitVars, watchVars, daemon, listed,
                 torn, ops, kills>>

\* PrefetchDir, in a goroutine of OpenDir.
PrefetchDir(p) ==
  /\ Base(gen, p) # NoBlob /\ ops < scope.ops
  /\ Enqueue(Base(gen, p))
  /\ ops' = ops + 1
  /\ UNCHANGED <<scope, rows, files, snapVars, gitVars, watchVars, daemon, listed, touched,
                 op, torn, kills>>

EngineStep(c) ==
  \/ Begin(c) \/ ResolvePath(c) \/ HydrateFails(c) \/ ReadCache(c) \/ CopyOnWrite(c)
  \/ Promote(c) \/ ReadFile(c) \/ CreateFile(c) \/ CreateRow(c) \/ GetRow(c)
  \/ WriteAt(c) \/ WriteRow(c) \/ Truncate(c) \/ RenameRows(c) \/ RenameFile(c)
  \/ RemoveFile(c) \/ RemoveRow(c)

-----------------------------------------------------------------------------
(* The watcher and the daemon *)

\* git, in the mount or beside it, moves the branch or HEAD.
MayMove == moves < scope.moves /\ (env = "early" \/ prev[HeadFile] # 0)

CommitTo(k) ==
  /\ MayMove /\ k # tip[head]
  /\ tip' = [tip EXCEPT ![head] = k]
  /\ stamp' = [stamp EXCEPT ![head] = @ + 1]
  /\ loose' = loose \cup {head}
  /\ moves' = moves + 1
  /\ UNCHANGED <<hydratorVars, scope, rows, files, snapVars, head, watchVars, daemon,
                 listed, touched, op, torn, ops, kills>>

Checkout(b) ==
  /\ MayMove /\ b # head
  /\ head' = b
  /\ stamp' = [stamp EXCEPT ![HeadFile] = @ + 1]
  /\ moves' = moves + 1
  /\ UNCHANGED <<hydratorVars, scope, rows, files, snapVars, tip, loose, watchVars, daemon,
                 listed, touched, op, torn, ops, kills>>

\* changed: the file has a later mtime than the one seen before, or it is
\* seen for the first time after it was found missing.
changed(f) == IF prev[f] = 0 THEN f \in firstSeenChange ELSE stamp[f] > prev[f]

\* The mutant of Seen: a switch of HEAD does not prime the new branch's ref.
MutSeen(f) == IF f = HeadFile \/ (~changed(HeadFile) /\ f = head /\ head \in loose)
              THEN stamp[f] ELSE prev[f]

\* What the poller has seen of f after a look at HEAD and at the ref it names.
Seen(f) == IF f = HeadFile \/ (f = head /\ head \in loose) THEN stamp[f] ELSE prev[f]

\* headChanged.
Tick ==
  /\ daemon = "watch"
  /\ prev' = [f \in RefFile |-> Seen(f)]
  /\ firstSeenChange' = IF head \in loose THEN firstSeenChange \ {head}
                                          ELSE firstSeenChange \cup {head}
  /\ daemon' = IF changed(HeadFile) \/ (head \in loose /\ changed(head))
               THEN "changed" ELSE "watch"
  /\ UNCHANGED <<hydratorVars, scope, rows, files, snapVars, gitVars, listed, touched, op,
                 torn, ops, kills>>

\* The mutant of Publish: only the new generation is kept.
MutPublish(k) ==
  /\ current' = current + 1
  /\ snap' = [g \in {current + 1} |-> k]

\* Another: current_generation is not written.
MutPublishCurrent(k) ==
  /\ current' = current
  /\ snap' = [g \in {h \in DOMAIN snap : h >= current} \cup {current + 1} |->
                IF g = current + 1 THEN k ELSE snap[g]]

\* PublishGeneration: the new generation and the one before it are kept.
Publish(k) ==
  /\ current' = current + 1
  /\ snap' = [g \in {h \in DOMAIN snap : h >= current} \cup {current + 1} |->
                IF g = current + 1 THEN k ELSE snap[g]]

\* onHEADChanged up to publishSnapshot; the commit shown is the one to compare,
\* and of a switch to another branch at that commit only the ref is stored.
HEADChanged ==
  /\ daemon = "changed"
  /\ IF tip[head] = snap[gen]
     THEN daemon' = "watch" /\ UNCHANGED <<snap, current>>
     ELSE Publish(tip[head]) /\ daemon' = "reconcile"
  /\ headRef' = head
  /\ UNCHANGED <<hydratorVars, scope, rows, files, gen, gitVars, watchVars, listed, touched,
                 op, torn, ops, kills>>

\* BuildTreeIndex or PublishGeneration fails: the poller has seen the change.
PublishFails ==
  /\ daemon = "changed" /\ env = "fails" /\ tip[head] # snap[gen]
  /\ daemon' = "watch"
  /\ UNCHANGED <<hydratorVars, scope, rows, files, snapVars, gitVars, watchVars, listed,
                 touched, op, torn, ops, kills>>

\* Reconcile's rules: the row of p is stale when the snapshot has b there.
Stale(row, b) ==
  CASE row.kind = "delete" -> b = NoBlob
    [] row.kind = "create" -> b # NoBlob
    [] row.kind \in {"modify", "rename"} -> b = NoBlob \/ row.source # b
    [] OTHER -> FALSE

ToRemove(k) == [p \in Path |-> IF Stale(rows[p], Tree[k][p]) THEN rows[p] ELSE NoRow]

ListRows ==
  /\ daemon = "reconcile"
  /\ env # "overlap" => \A c \in Client : ~Changing(c)
  /\ listed' = ToRemove(snap[current])
  /\ touched' = {}
  /\ daemon' = "delete"
  /\ UNCHANGED <<hydratorVars, scope, rows, files, snapVars, gitVars, watchVars, op, torn,
                 ops, kills>>

\* The DELETE is guarded by kind, source_oid and mtime.
DeleteRows ==
  /\ daemon = "delete"
  /\ rows' = [p \in Path |-> IF listed[p] # NoRow /\ rows[p] = listed[p] /\ p \notin touched
                             THEN NoRow ELSE rows[p]]
  /\ daemon' = "remove"
  /\ UNCHANGED <<hydratorVars, scope, files, snapVars, gitVars, watchVars, listed, touched,
                 op, torn, ops, kills>>

\* The files of the listed rows go, deleted or not.
RemoveFiles ==
  /\ daemon = "remove"
  /\ files' = [p \in Path |-> IF Live(listed[p]) THEN "none" ELSE files[p]]
  /\ listed' = [p \in Path |-> NoRow] /\ touched' = {}
  /\ daemon' = "show"
  /\ UNCHANGED <<hydratorVars, scope, rows, snapVars, gitVars, watchVars, op, torn, ops,
                 kills>>

\* SetGeneration; the sizes of the new generation are all known or all not.
SetGeneration ==
  /\ daemon = "show"
  /\ gen' = current
  /\ known' \in {{}, Blob}
  /\ daemon' = "watch"
  /\ UNCHANGED <<cache, tmp, serviceVars, worker, call, scope, rows, files, snap, current,
                 headRef, gitVars, watchVars, listed, touched, op, torn, ops, kills>>

DaemonStep ==
  \/ Tick \/ HEADChanged \/ PublishFails \/ ListRows \/ DeleteRows \/ RemoveFiles
  \/ SetGeneration

\* The process is killed and started again: mountRepo publishes HEAD if the
\* database has another commit or ref, and reconciles before anyone can use the mount.
Remount ==
  /\ env = "crash" /\ kills < scope.kills
  /\ kills' = kills + 1
  /\ NewService
  /\ LET k == tip[head]  same == k = snap[current] /\ headRef = head IN
     /\ IF same THEN UNCHANGED <<snap, current>> ELSE Publish(k)
     /\ known' \in IF same THEN {known} ELSE {{}, Blob}
     /\ rows' = [p \in Path |-> IF Stale(rows[p], Tree[k][p]) THEN NoRow ELSE rows[p]]
     /\ files' = [p \in Path |-> IF Live(ToRemove(k)[p]) THEN "none" ELSE files[p]]
  /\ gen' = current' /\ headRef' = head
  /\ daemon' = "watch" /\ listed' = [p \in Path |-> NoRow] /\ touched' = {}
  /\ prev' = [f \in RefFile |-> 0] /\ firstSeenChange' = {}
  /\ op' = [c \in Client |-> NoOp]
  /\ UNCHANGED <<cache, tmp, scope, gitVars, torn, ops>>

-----------------------------------------------------------------------------
fsVars == <<scope, rows, files, snapVars, gitVars, watchVars, daemon, listed, touched, op,
            torn, ops, kills>>

\* A step of one of the goroutines.
Progress ==
  \/ \E c \in Client : EngineStep(c) \/ (CallStep(c) /\ UNCHANGED fsVars)
  \/ \E b \in Blob : VerifyStep(b) /\ UNCHANGED fsVars
  \/ \E w \in Started : WorkerStep(w) /\ UNCHANGED fsVars
  \/ DaemonStep

Next ==
  \/ Progress
  \/ \E c \in Client :
       \/ \E kind \in scope.kinds, p, to \in Path : Open(c, kind, p, to)
       \/ Cancel(c) /\ UNCHANGED fsVars
  \/ \E p \in Path : PrefetchDir(p)
  \/ \E k \in Commit : CommitTo(k)
  \/ \E b \in Branch : Checkout(b)
  \/ Remount

\* Some goroutine that can take a step takes one: git answers or fails, and
\* the ticker ticks.  Requests, moves of HEAD and kills are not assumed.
Fairness == WF_vars(Progress)

Spec == Init /\ [][Next]_vars /\ Fairness

-----------------------------------------------------------------------------
(* Properties *)

\* Every EnsureHydrated call returns: no task is left in the queue without a
\* worker that will come for it, and no request in a list nobody will notify.
HydrationAnswers == \A c \in Client : []<>~Hydrating(c)

\* With one worker and an intact cache, a read returns a whole blob and a
\* promoted file starts as the whole blob: the cache file is renamed into place
\* and EnsureCopyOnWrite never finds it missing after a successful hydration.
NoTornContent ==
  env \notin {"two", "corrupt", "overlap", "crash"} =>
    ~torn /\ \A p \in Path : files[p] # "torn"

\* The generation the resolver reads is always in the snapshot database, while
\* PublishGeneration drops old ones and until SetGeneration moves on.
GenerationKept == gen \in DOMAIN snap

\* The mount comes to show HEAD: the poller misses no move of HEAD or of the
\* branch it names, once it has its first look and unless the indexing fails.
HeadReaches ==
  []<>(env \notin {"early", "fails"} => snap[gen] = tip[head])

Quiet == daemon = "watch" /\ \A c \in Client : ~Changing(c)

\* A row that is no whiteout has its backing file when nothing is under way, if
\* requests do not overlap with Reconcile and the process is not killed.
RowsHaveFiles ==
  env \notin {"overlap", "crash"} /\ Quiet =>
    \A p \in Path : Live(rows[p]) => files[p] # "none"

\* "Stream blob content to a temp file, then atomic rename": whatever the number
\* of workers, what a read returns and what is copied from the cache is whole.
AtomicBlobs == ~torn /\ \A p \in Path : files[p] # "torn"
=============================================================================
