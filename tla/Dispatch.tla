------------------------------ MODULE Dispatch ------------------------------
(***************************************************************************)
(* One round of the `defn dispatch` coordinator: dispatch.Run in           *)
(* lib/dispatch/dispatch.go with cfg.PlanOnly unset.                       *)
(*                                                                         *)
(* Run creates one git worktree per brick, starts one goroutine per entry  *)
(* of its brick list, bounds how many of them run at a time with a         *)
(* buffered channel (sem), lets each of them snapshot the shared plan, run *)
(* its agent and land its result in the plan, collects one outcome per     *)
(* goroutine over a channel that a closer goroutine closes, reconciles the *)
(* agent branches, writes the plan and tears the worktrees down.           *)
(*                                                                         *)
(* A worker is an entry of the brick list, so a slug that the operator     *)
(* lists twice has two workers.  What an agent does to its brick is        *)
(* abstracted to the status it reports; what reconciliation does to the    *)
(* repository is the subject of LaneReconcile.                             *)
(***************************************************************************)
EXTENDS Integers, FiniteSets

CONSTANTS
  Slug,          \* catalog slugs
  Worker,        \* entries of the brick list, one goroutine each
  slugOf,        \* the slug of each entry
  NumCPU,        \* runtime.NumCPU()
  Status,        \* BrickResult.Status: idempotent, blocked, dirty, not-converged
  Config         \* the flags a round may be given: --worktree, whether
                 \* --acp-prompt is set, and --parallel as the operator gave it

ASSUME DispatchConstants ==
  /\ IsFiniteSet(Worker)
  /\ slugOf \in [Worker -> Slug]
  /\ NumCPU \in Nat \ {0}
  /\ "idempotent" \in Status
  /\ {"none", "error", "pending"} \cap Status = {}
  /\ Config \subseteq [worktree : BOOLEAN, acp : BOOLEAN, parallel : Int]

MaybeStatus == Status \cup {"none"}
Outcome == Status \cup {"error"}
PlanType == [Slug -> MaybeStatus]
EmptyPlan == [s \in Slug |-> "none"]

VARIABLES
  cfg,        \* the flags of this round
  phase,      \* where the coordinator goroutine is in Run
  worktrees,  \* keys of the worktrees map: slugs whose worktree was created
  torn,       \* slugs whose worktree removal has been attempted
  pending,    \* entries the coordinator's current loop has still to visit
  todo,       \* slugs the coordinator's current loop has still to visit
  pc,         \* where each worker goroutine is
  sem,        \* workers holding a slot of the semaphore channel
  wg,         \* workers counted by the WaitGroup
  closerUp,   \* the closer goroutine has been started
  plan,       \* plan.Bricks, by slug ("none": no entry)
  sidecar,    \* slugs whose plan entry names an out-of-lane patch
  snapshot,   \* each worker's clone of the plan
  snapFile,   \* snapshots/<slug>.cue
  seen,       \* the snapshot each in-process agent loaded
  outFile,    \* results/<slug>.cue ("none": absent)
  outcome,    \* the brickOutcome each worker sends
  results,    \* workers whose outcome is in the results channel
  closed,     \* close(results) has run
  collected,  \* workers whose outcome the collector has read
  failed,     \* the collector's failed flag
  mergeErr,   \* some reconcileLane returned an error
  code,       \* the exit code Run returns (-1 until then)
  procExit    \* the exit status of the process (-1 until then)

coordVars == <<cfg, phase, worktrees, torn, pending, todo, closerUp,
               collected, failed, mergeErr, code, procExit>>
fileVars == <<snapFile, outFile>>
workVars == <<pc, snapshot, seen, outcome>>
syncVars == <<sem, wg, results, closed>>
planVars == <<plan, sidecar>>
vars == <<coordVars, fileVars, workVars, syncVars, planVars>>

\* The clamp at the head of Run: at least one agent, at most four per CPU.
Parallel ==
  IF cfg.parallel < 1 THEN 1
  ELSE IF cfg.parallel > NumCPU * 4 THEN NumCPU * 4
  ELSE cfg.parallel

WorkerPC == {"unspawned", "start", "clone", "writesnap", "launch", "agent",
             "load", "land", "send", "release", "wgdone", "gone"}
Phase == {"preflight", "worktrees", "spawn", "collect", "reconcile",
          "teardown", "returned", "exited"}

Goto(w, from, to) == pc[w] = from /\ pc' = [pc EXCEPT ![w] = to]

Init ==
  /\ cfg \in Config
  /\ phase = "preflight"
  /\ worktrees = {} /\ torn = {} /\ pending = Worker /\ todo = {}
  /\ pc = [w \in Worker |-> "unspawned"]
  /\ sem = {} /\ wg = {} /\ closerUp = FALSE
  /\ plan = EmptyPlan /\ sidecar = {}
  /\ snapshot = [w \in Worker |-> EmptyPlan]
  /\ seen = [w \in Worker |-> EmptyPlan]
  /\ snapFile = [s \in Slug |-> EmptyPlan]
  /\ outFile = [s \in Slug |-> "none"]
  /\ outcome = [w \in Worker |-> "none"]
  /\ results = {} /\ closed = FALSE /\ collected = {}
  /\ failed = FALSE /\ mergeErr = FALSE
  /\ code = -1 /\ procExit = -1

-----------------------------------------------------------------------------
(* The coordinator before the fan-out.                                     *)

\* Flag checks, run directory, workspace root, lattice load and brick
\* selection: any of them may end the run with code 2.
Preflight ==
  /\ phase = "preflight"
  /\ \/ phase' = "returned" /\ code' = 2
     \/ /\ phase' = IF cfg.worktree THEN "worktrees" ELSE "spawn"
        /\ UNCHANGED code
  /\ UNCHANGED <<cfg, worktrees, torn, pending, todo, closerUp, collected, failed,
                 mergeErr, procExit, fileVars, workVars, syncVars, planVars>>

\* One turn of the worktree loop (the order of the list is the operator's).
\* `git worktree add -b` fails on a branch that exists, so a slug listed twice
\* always fails; any other creation may.
CreateWorktree(w) ==
  /\ phase = "worktrees" /\ w \in pending
  /\ slugOf[w] \notin worktrees
  /\ worktrees' = worktrees \cup {slugOf[w]}
  /\ pending' = pending \ {w}
  /\ UNCHANGED <<cfg, phase, torn, todo, closerUp, collected, failed, mergeErr, code,
                 procExit, fileVars, workVars, syncVars, planVars>>

\* A creation fails: the worktrees made so far are removed and Run returns 2.
CreateWorktreeFails(w) ==
  /\ phase = "worktrees" /\ w \in pending
  /\ phase' = "teardown" /\ code' = 2 /\ todo' = worktrees
  /\ UNCHANGED <<cfg, worktrees, torn, pending, closerUp, collected, failed, mergeErr,
                 procExit, fileVars, workVars, syncVars, planVars>>

\* The worktree loop is over; the cleanup is deferred and the fan-out begins.
WorktreesReady ==
  /\ phase = "worktrees" /\ pending = {}
  /\ phase' = "spawn" /\ pending' = Worker
  /\ UNCHANGED <<cfg, worktrees, torn, todo, closerUp, collected, failed, mergeErr,
                 code, procExit, fileVars, workVars, syncVars, planVars>>

\* One turn of the fan-out loop: wg.Add(1), then the goroutine is started.
Spawn(w) ==
  /\ phase = "spawn" /\ w \in pending
  /\ pending' = pending \ {w}
  /\ wg' = wg \cup {w}
  /\ Goto(w, "unspawned", "start")
  /\ UNCHANGED <<cfg, phase, worktrees, torn, todo, closerUp, collected, failed,
                 mergeErr, code, procExit, fileVars, snapshot, seen, outcome,
                 sem, results, closed, planVars>>

\* Mutated form: the closer goroutine is started before the fan-out loop.
MutStartCloser ==
  /\ phase = "spawn"
  /\ closerUp' = TRUE
  /\ phase' = IF pending = {} THEN "collect" ELSE phase
  /\ UNCHANGED <<cfg, worktrees, torn, pending, todo, collected, failed, mergeErr,
                 code, procExit, fileVars, workVars, syncVars, planVars>>

\* After the loop the closer is started and the coordinator ranges over results.
StartCloser ==
  /\ phase = "spawn" /\ pending = {}
  /\ closerUp' = TRUE
  /\ phase' = "collect"
  /\ UNCHANGED <<cfg, worktrees, torn, pending, todo, collected, failed, mergeErr,
                 code, procExit, fileVars, workVars, syncVars, planVars>>

-----------------------------------------------------------------------------
(* A worker goroutine.                                                     *)

workerStep == <<coordVars, wg, results, closed, planVars>>

\* Mutated form: the goroutine does not wait for a slot.
MutAcquire(w) ==
  /\ sem' = sem \cup {w}
  /\ Goto(w, "start", "clone")
  /\ UNCHANGED <<workerStep, fileVars, snapshot, seen, outcome>>

\* sem <- struct{}{}
Acquire(w) ==
  /\ Cardinality(sem) < Parallel
  /\ sem' = sem \cup {w}
  /\ Goto(w, "start", "clone")
  /\ UNCHANGED <<workerStep, fileVars, snapshot, seen, outcome>>

\* clonePlan under planMu.
ClonePlan(w) ==
  /\ Goto(w, "clone", "writesnap")
  /\ snapshot' = [snapshot EXCEPT ![w] = plan]
  /\ UNCHANGED <<workerStep, sem, fileVars, seen, outcome>>

\* Mutated form: the running plan is written in place of the clone.
MutWriteSnapshot(w) ==
  /\ Goto(w, "writesnap", "launch")
  /\ snapFile' = [snapFile EXCEPT ![slugOf[w]] = plan]
  /\ UNCHANGED <<workerStep, sem, outFile, snapshot, seen, outcome>>

\* WritePlanCUE(snap, snapshot).
WriteSnapshot(w) ==
  /\ Goto(w, "writesnap", "launch")
  /\ snapFile' = [snapFile EXCEPT ![slugOf[w]] = snapshot[w]]
  /\ UNCHANGED <<workerStep, sem, outFile, snapshot, seen, outcome>>

\* A step that ends the worker with an error outcome.
Fails(w, from) ==
  /\ Goto(w, from, "send")
  /\ outcome' = [outcome EXCEPT ![w] = "error"]
  /\ UNCHANGED <<workerStep, sem, fileVars, snapshot, seen>>

WriteSnapshotFails(w) == Fails(w, "writesnap")

\* hatch.CycleBrick begins: it loads the lattice and the snapshot file.
CycleBrickLoads(w) ==
  /\ ~cfg.acp
  /\ Goto(w, "launch", "agent")
  /\ seen' = [seen EXCEPT ![w] = snapFile[slugOf[w]]]
  /\ UNCHANGED <<workerStep, sem, fileVars, snapshot, outcome>>

\* hatch.CycleBrick returns nil: it has written a result with some status.
CycleBrickReports(w) ==
  /\ ~cfg.acp
  /\ Goto(w, "agent", "load")
  /\ \E st \in Status : outFile' = [outFile EXCEPT ![slugOf[w]] = st]
  /\ UNCHANGED <<workerStep, sem, snapFile, snapshot, seen, outcome>>

\* hatch.CycleBrick returns an error, before or after it loaded the snapshot.
CycleBrickFails(w) == ~cfg.acp /\ (Fails(w, "launch") \/ Fails(w, "agent"))

\* --acp-prompt needs a worktree: the agent is only started in one.
ACPLaunch(w) ==
  /\ cfg.acp /\ slugOf[w] \in worktrees
  /\ Goto(w, "launch", "agent")
  /\ UNCHANGED <<workerStep, sem, fileVars, snapshot, seen, outcome>>

\* The prompt and the commit succeed.  The result file says idempotent, or is
\* missing: the error of WriteResultCUE is dropped.
ACPReports(w) ==
  /\ cfg.acp
  /\ Goto(w, "agent", "load")
  /\ \/ outFile' = [outFile EXCEPT ![slugOf[w]] = "idempotent"]
     \/ UNCHANGED outFile
  /\ UNCHANGED <<workerStep, sem, snapFile, snapshot, seen, outcome>>

\* No worktree, or the bridge, the prompt or the commit fails.
ACPFails(w) ==
  /\ cfg.acp
  /\ \/ slugOf[w] \notin worktrees /\ Fails(w, "launch")
     \/ Fails(w, "agent")

\* LoadBrickResult finds the result file.
LoadResult(w) ==
  /\ outFile[slugOf[w]] # "none"
  /\ Goto(w, "load", "land")
  /\ outcome' = [outcome EXCEPT ![w] = outFile[slugOf[w]]]
  /\ UNCHANGED <<workerStep, sem, fileVars, snapshot, seen>>

\* Mutated form: the return after the error is missing, and the result lands.
MutLoadResultLands(w) ==
  /\ Goto(w, "load", "land")
  /\ outcome' = [outcome EXCEPT ![w] = "error"]
  /\ UNCHANGED <<workerStep, sem, fileVars, snapshot, seen>>

\* Mutated form: the agent is run again until its result can be loaded.
MutLoadResultRetries(w) ==
  /\ Goto(w, "load", "launch")
  /\ UNCHANGED <<workerStep, sem, fileVars, snapshot, seen, outcome>>

\* It is missing, or cannot be read.
LoadResultFails(w) == Fails(w, "load")

\* Mutated form: the worker writes back its own clone with its result added.
MutLand(w) ==
  /\ Goto(w, "land", "send")
  /\ plan' = [snapshot[w] EXCEPT ![slugOf[w]] = outcome[w]]
  /\ UNCHANGED <<coordVars, syncVars, sidecar, fileVars, snapshot, seen, outcome>>

\* plan.Bricks[slug] = result under planMu.
Land(w) ==
  /\ Goto(w, "land", "send")
  /\ plan' = [plan EXCEPT ![slugOf[w]] = outcome[w]]
  /\ UNCHANGED <<coordVars, syncVars, sidecar, fileVars, snapshot, seen, outcome>>

\* results <- outcome.  The channel holds one outcome per entry, so the send
\* blocks only when that many are queued; on a closed channel it panics.
Send(w) ==
  /\ ~closed
  /\ Cardinality(results) < Cardinality(Worker)
  /\ Goto(w, "send", "release")
  /\ results' = results \cup {w}
  /\ UNCHANGED <<coordVars, sem, wg, closed, planVars, fileVars, snapshot, seen,
                 outcome>>

\* The deferred <-sem.
Release(w) ==
  /\ Goto(w, "release", "wgdone")
  /\ sem' = sem \ {w}
  /\ UNCHANGED <<workerStep, fileVars, snapshot, seen, outcome>>

\* The deferred wg.Done().
WgDone(w) ==
  /\ Goto(w, "wgdone", "gone")
  /\ wg' = wg \ {w}
  /\ UNCHANGED <<coordVars, sem, results, closed, planVars, fileVars, snapshot,
                 seen, outcome>>

WorkerNext(w) ==
  \/ Acquire(w) \/ ClonePlan(w)
  \/ WriteSnapshot(w) \/ WriteSnapshotFails(w)
  \/ CycleBrickLoads(w) \/ CycleBrickReports(w) \/ CycleBrickFails(w)
  \/ ACPLaunch(w) \/ ACPReports(w) \/ ACPFails(w)
  \/ LoadResult(w) \/ LoadResultFails(w)
  \/ Land(w) \/ Send(w) \/ Release(w) \/ WgDone(w)

-----------------------------------------------------------------------------
(* The closer, the collector and the end of Run.                           *)

\* The closer goroutine: wg.Wait(), then close(results).
Close ==
  /\ closerUp /\ wg = {} /\ ~closed
  /\ closed' = TRUE
  /\ UNCHANGED <<coordVars, fileVars, workVars, sem, wg, results, planVars>>

\* Mutated form: the collector keeps only the outcome it read last.
MutCollect(w) ==
  /\ phase = "collect" /\ w \in results
  /\ results' = results \ {w}
  /\ collected' = {w}
  /\ failed' = (failed \/ outcome[w] # "idempotent")
  /\ UNCHANGED <<cfg, phase, worktrees, torn, pending, todo, closerUp, mergeErr, code,
                 procExit, fileVars, workVars, sem, wg, closed, planVars>>

\* One turn of `for o := range results`.  Outcomes are read in the order they
\* were sent, which neither the flag nor the counts depend on.
Collect(w) ==
  /\ phase = "collect" /\ w \in results
  /\ results' = results \ {w}
  /\ collected' = collected \cup {w}
  /\ failed' = (failed \/ outcome[w] # "idempotent")
  /\ UNCHANGED <<cfg, phase, worktrees, torn, pending, todo, closerUp, mergeErr, code,
                 procExit, fileVars, workVars, sem, wg, closed, planVars>>

\* Mutated form: the collector stops at the first moment the channel is empty.
MutCollectEnds ==
  /\ phase = "collect" /\ results = {}
  /\ phase' = "reconcile" /\ todo' = worktrees
  /\ UNCHANGED <<cfg, worktrees, torn, pending, closerUp, collected, failed, mergeErr,
                 code, procExit, fileVars, workVars, syncVars, planVars>>

\* The channel is closed and drained.  Without --worktree the worktrees map is
\* empty and the reconcile loop is not entered.
CollectEnds ==
  /\ phase = "collect" /\ closed /\ results = {}
  /\ phase' = "reconcile" /\ todo' = worktrees
  /\ UNCHANGED <<cfg, worktrees, torn, pending, closerUp, collected, failed, mergeErr,
                 code, procExit, fileVars, workVars, syncVars, planVars>>

\* Mutated form: a sidecar replaces the plan entry instead of extending it.
MutReconcile(s) ==
  /\ phase = "reconcile" /\ s \in todo
  /\ todo' = todo \ {s}
  /\ \E wrote \in BOOLEAN :
       /\ sidecar' = IF wrote THEN sidecar \cup {s} ELSE sidecar
       /\ plan' = IF wrote THEN [plan EXCEPT ![s] = "idempotent"] ELSE plan
  /\ UNCHANGED <<cfg, phase, worktrees, torn, pending, closerUp, collected, failed,
                 mergeErr, code, procExit, fileVars, workVars, syncVars>>

\* reconcileLane succeeds; a sidecar patch is recorded in the plan entry of the
\* slug, when it has one.
Reconcile(s) ==
  /\ phase = "reconcile" /\ s \in todo
  /\ todo' = todo \ {s}
  /\ \E wrote \in BOOLEAN :
       sidecar' = IF wrote /\ plan[s] # "none" THEN sidecar \cup {s} ELSE sidecar
  /\ UNCHANGED <<cfg, phase, worktrees, torn, pending, closerUp, collected, failed,
                 mergeErr, code, procExit, fileVars, workVars, syncVars, plan>>

\* Mutated form: the error of reconcileLane is logged and nothing else.
MutReconcileFails(s) ==
  /\ phase = "reconcile" /\ s \in todo
  /\ todo' = todo \ {s}
  /\ mergeErr' = TRUE
  /\ UNCHANGED <<cfg, phase, worktrees, torn, pending, closerUp, collected, failed, code,
                 procExit, fileVars, workVars, syncVars, planVars>>

\* reconcileLane fails: the loop goes on with the next slug.
ReconcileFails(s) ==
  /\ phase = "reconcile" /\ s \in todo
  /\ todo' = todo \ {s}
  /\ failed' = TRUE /\ mergeErr' = TRUE
  /\ UNCHANGED <<cfg, phase, worktrees, torn, pending, closerUp, collected, code,
                 procExit, fileVars, workVars, syncVars, planVars>>

\* The final plan is written (or not), the code is decided, and the deferred
\* teardown begins.
WritePlan ==
  /\ phase = "reconcile" /\ todo = {}
  /\ phase' = "teardown" /\ todo' = worktrees
  /\ code' \in {2, IF failed THEN 1 ELSE 0}
  /\ UNCHANGED <<cfg, worktrees, torn, pending, closerUp, collected, failed, mergeErr,
                 procExit, fileVars, workVars, syncVars, planVars>>

\* RemoveWorktree: its error is ignored.
Teardown(s) ==
  /\ phase = "teardown" /\ s \in todo
  /\ todo' = todo \ {s}
  /\ torn' = torn \cup {s}
  /\ UNCHANGED <<cfg, phase, worktrees, pending, closerUp, collected, failed, mergeErr,
                 code, procExit, fileVars, workVars, syncVars, planVars>>

\* Mutated form: Run returns without waiting for the deferred cleanup.
MutReturn ==
  /\ phase = "teardown"
  /\ phase' = "returned"
  /\ UNCHANGED <<cfg, worktrees, torn, pending, todo, closerUp, collected, failed,
                 mergeErr, code, procExit, fileVars, workVars, syncVars, planVars>>

Return ==
  /\ phase = "teardown" /\ todo = {}
  /\ phase' = "returned"
  /\ UNCHANGED <<cfg, worktrees, torn, pending, todo, closerUp, collected, failed,
                 mergeErr, code, procExit, fileVars, workVars, syncVars, planVars>>

\* Service.Run drops the code and returns only the error, which Run sets
\* exactly for code 2; app.Run exits 1 on an error and 0 otherwise.
Exit ==
  /\ phase = "returned"
  /\ phase' = "exited"
  /\ procExit' = IF code = 2 THEN 1 ELSE 0
  /\ UNCHANGED <<cfg, worktrees, torn, pending, todo, closerUp, collected, failed,
                 mergeErr, code, fileVars, workVars, syncVars, planVars>>

CoordNext ==
  \/ Preflight \/ WorktreesReady \/ StartCloser \/ CollectEnds
  \/ WritePlan \/ Return \/ Exit
  \/ \E w \in Worker : CreateWorktree(w) \/ CreateWorktreeFails(w)
                       \/ Spawn(w) \/ Collect(w)
  \/ \E s \in Slug : Reconcile(s) \/ ReconcileFails(s) \/ Teardown(s)

\* The process is gone.
Terminated == phase = "exited" /\ UNCHANGED vars

Next == CoordNext \/ Close \/ Terminated \/ \E w \in Worker : WorkerNext(w)

Spec == Init /\ [][Next]_vars

\* The Go scheduler runs every runnable goroutine, a goroutine waiting for a
\* slot included: each worker asks for one only once.  CycleBrick and the
\* prompt are assumed to return.
Fairness ==
  /\ WF_vars(CoordNext)
  /\ WF_vars(Close)
  /\ \A w \in Worker : WF_vars(WorkerNext(w))

FairSpec == Spec /\ Fairness

-----------------------------------------------------------------------------
(* Properties.                                                             *)

TypeOK ==
  /\ cfg \in Config
  /\ phase \in Phase
  /\ worktrees \subseteq Slug /\ torn \subseteq Slug /\ todo \subseteq Slug
  /\ pending \subseteq Worker
  /\ pc \in [Worker -> WorkerPC]
  /\ sem \subseteq Worker /\ wg \subseteq Worker /\ closerUp \in BOOLEAN
  /\ plan \in PlanType /\ sidecar \subseteq Slug
  /\ snapshot \in [Worker -> PlanType] /\ seen \in [Worker -> PlanType]
  /\ snapFile \in [Slug -> PlanType] /\ outFile \in [Slug -> MaybeStatus]
  /\ outcome \in [Worker -> Outcome \cup {"none"}]
  /\ results \subseteq Worker /\ collected \subseteq Worker
  /\ closed \in BOOLEAN /\ failed \in BOOLEAN /\ mergeErr \in BOOLEAN
  /\ code \in -1..2 /\ procExit \in -1..1

\* No slug is listed twice: --all and --target build duplicate-free lists.
UniqueSlugs == \A v, w \in Worker : slugOf[v] = slugOf[w] => v = w

InFlightPC == {"clone", "writesnap", "launch", "agent", "load", "land", "send",
               "release"}
InFlight == {w \in Worker : pc[w] \in InFlightPC}
AfterCollect == {"reconcile", "teardown", "returned", "exited"}

\* At most --parallel agents (clamped to 1..4*NumCPU) are ever in flight: the
\* semaphore channel bounds the goroutines between `sem <-` and the deferred
\* `<-sem`, on every error path too.
AgentsBounded == Cardinality(InFlight) <= Parallel

\* close(results) can never race a send: once the closer has closed the
\* channel, every goroutine has passed its last send and its wg.Done.
ClosedAfterLastSend == closed => \A w \in Worker : pc[w] = "gone"

\* The range loop over results ends only after it has read the outcome of every
\* entry of the brick list, however the sends and the close interleave.
EveryOutcomeCollected ==
  closerUp /\ phase \in AfterCollect => collected = Worker

\* What Run writes as the final plan is what the agents reported: a brick is in
\* it exactly when its worker succeeded, with the status the collector counted.
PlanMatchesOutcomes ==
  closerUp /\ phase \in AfterCollect =>
    \A w \in Worker :
      plan[slugOf[w]] = IF outcome[w] = "error" THEN "none" ELSE outcome[w]

\* "Subsequent completions don't retroactively appear in this brick's snapshot":
\* the file an in-process agent loads is the clone its own worker took, and
\* every entry of it is still the entry of the running plan.
SnapshotIsPast ==
  \A w \in Worker :
    /\ pc[w] = "agent" /\ ~cfg.acp => seen[w] = snapshot[w]
    /\ \A s \in Slug : snapshot[w][s] # "none" => plan[s] = snapshot[w][s]

\* The running plan is monotonic: once a brick has landed a result, no step of
\* any worker or of reconciliation reverses it.
PlanMonotone ==
  [][\A s \in Slug : plan[s] # "none" => plan'[s] = plan[s]]_vars

\* Run's code 0 means every brick came back idempotent and every merge worked,
\* and code 1 means that some brick or merge did not.
ExitCodeHonest ==
  phase \in {"returned", "exited"} =>
    /\ code = 0 => ~mergeErr /\ \A w \in Worker : outcome[w] = "idempotent"
    /\ code = 1 => mergeErr \/ \E w \in Worker : outcome[w] # "idempotent"

\* Run never returns before it has tried to remove each worktree it created,
\* on the failure path of worktree creation as well.
WorktreesTornDown ==
  phase \in {"returned", "exited"} => torn = worktrees

\* Every round comes to an end: no interleaving leaves a worker waiting for a
\* slot, the closer for the WaitGroup or the collector for the channel.
Termination == <>(phase = "exited")

\* Run keeps the promise of DispatchPromise: an entry settles when the collector
\* reads its outcome, and the verdict is given when Run returns.
Promise == INSTANCE DispatchPromise WITH
  settled <- [w \in Worker |-> IF w \in collected THEN outcome[w] ELSE "pending"],
  merged <- ~mergeErr,
  verdict <- IF phase \in {"returned", "exited"} THEN code ELSE -1
KeepsPromise == Promise!PSpec
PromiseSafety == Promise!PInit /\ [][Promise!PNext]_(Promise!pvars)

\* What the comment on Run says of its result, "returns the process exit code":
\* the process fails when the run's code is not 0.
ProcessExitReported == phase = "exited" => (procExit = 0 <=> code = 0)

=============================================================================
