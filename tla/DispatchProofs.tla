--------------------------- MODULE DispatchProofs ---------------------------
(***************************************************************************)
(* Proofs, for every brick list and every setting of the flags, of the     *)
(* safety properties of one dispatch round.                                *)
(***************************************************************************)
EXTENDS DispatchInv, FiniteSetTheorems, TLAPS

\* The leaves are for Zenon, but for those that name another prover.
USE Zenon

\* The clamp of --parallel always leaves room for at least one agent.
LEMMA ParallelPositive == TypeOK => Parallel \in Nat \ {0}
  BY DispatchConstants, SMT DEF TypeOK, Parallel

\* The flags, and the bound with them, are fixed when the round begins.
LEMMA ParallelFixed == cfg' = cfg => Parallel' = Parallel
  BY DEF Parallel

-----------------------------------------------------------------------------
(* Types.                                                                  *)

\* The initial state is type correct.
LEMMA TypeInit == Init => TypeInv
<1> SUFFICES ASSUME Init PROVE TypeInv
  OBVIOUS
<1>1. EmptyPlan \in PlanType
  BY DEF EmptyPlan, PlanType, MaybeStatus
<1>2. TypeOK
  <2>1. code \in -1..2 /\ procExit \in -1..1
    BY SMT DEF Init
  <2>2. /\ pc \in [Worker -> WorkerPC]
        /\ outFile \in [Slug -> MaybeStatus]
        /\ outcome \in [Worker -> Outcome \cup {"none"}]
    BY DEF Init, WorkerPC, MaybeStatus
  <2>3. /\ plan \in PlanType
        /\ snapshot \in [Worker -> PlanType] /\ seen \in [Worker -> PlanType]
        /\ snapFile \in [Slug -> PlanType]
    BY <1>1 DEF Init
  <2> QED
    BY Zenon, <2>1, <2>2, <2>3 DEF Init, TypeOK, Phase
<1>3. \A w \in Worker : pc[w] # "land"
  BY DEF Init
<1> QED
  BY <1>2, <1>3 DEF TypeInv

\* The steps of Run's main goroutine keep every variable in its type.
LEMMA TypeCoord == TypeInv /\ CoordNext => TypeInv'
<1> SUFFICES ASSUME TypeInv, CoordNext PROVE TypeInv'
  OBVIOUS
<1> USE DispatchConstants DEF TypeInv, TypeOK, Phase, coordVars, fileVars, workVars, syncVars, planVars
<1>1. CASE Preflight
  BY <1>1, SMT DEF Preflight
<1>2. CASE WorktreesReady
  BY <1>2 DEF WorktreesReady
<1>3. CASE StartCloser
  BY <1>3 DEF StartCloser
<1>4. CASE CollectEnds
  BY <1>4 DEF CollectEnds
<1>5. CASE WritePlan
  BY <1>5, SMT DEF WritePlan
<1>6. CASE Return
  BY <1>6 DEF Return
<1>7. CASE Exit
  BY <1>7, SMT DEF Exit
<1>8. ASSUME NEW w \in Worker, CreateWorktree(w) PROVE TypeInv'
  BY <1>8 DEF CreateWorktree
<1>9. ASSUME NEW w \in Worker, CreateWorktreeFails(w) PROVE TypeInv'
  BY <1>9, SMT DEF CreateWorktreeFails
<1>10. ASSUME NEW w \in Worker, Spawn(w) PROVE TypeInv'
  BY <1>10 DEF Spawn, Goto, WorkerPC
<1>11. ASSUME NEW w \in Worker, Collect(w) PROVE TypeInv'
  BY <1>11 DEF Collect
<1>12. ASSUME NEW s \in Slug, Reconcile(s) PROVE TypeInv'
  BY <1>12 DEF Reconcile
<1>13. ASSUME NEW s \in Slug, ReconcileFails(s) PROVE TypeInv'
  BY <1>13 DEF ReconcileFails
<1>14. ASSUME NEW s \in Slug, Teardown(s) PROVE TypeInv'
  BY <1>14 DEF Teardown
<1> QED
  BY <1>1, <1>2, <1>3, <1>4, <1>5, <1>6, <1>7, <1>8, <1>9, <1>10, <1>11, <1>12,
     <1>13, <1>14, Zenon DEF CoordNext

\* An agent that ends early on an error path stays type correct.
LEMMA TypeFails ==
  ASSUME TypeInv, NEW w \in Worker, NEW from \in WorkerPC, Fails(w, from)
  PROVE  TypeInv'
  BY DEF Fails, Goto, TypeInv, TypeOK, WorkerPC, Outcome, workerStep, coordVars, fileVars,
         planVars

\* The steps of a worker goroutine keep every variable in its type.
LEMMA TypeWorker ==
  ASSUME TypeInv, NEW w \in Worker, WorkerNext(w)
  PROVE  TypeInv'
<1> USE DispatchConstants DEF TypeInv, TypeOK, WorkerPC, Goto, workerStep, coordVars,
    fileVars, workVars, syncVars, planVars
<1>1. CASE Acquire(w)
  BY <1>1 DEF Acquire
<1>2. CASE ClonePlan(w)
  BY <1>2 DEF ClonePlan
<1>3. CASE WriteSnapshot(w)
  BY <1>3 DEF WriteSnapshot
<1>4. CASE WriteSnapshotFails(w)
  BY <1>4, TypeFails DEF WriteSnapshotFails
<1>5. CASE CycleBrickLoads(w)
  BY <1>5 DEF CycleBrickLoads
<1>6. CASE CycleBrickReports(w)
  BY <1>6, SMT DEF CycleBrickReports, MaybeStatus
<1>7. CASE CycleBrickFails(w)
  BY <1>7, TypeFails DEF CycleBrickFails
<1>8. CASE ACPLaunch(w)
  BY <1>8 DEF ACPLaunch
<1>9. CASE ACPReports(w)
  BY <1>9, SMT DEF ACPReports, MaybeStatus
<1>10. CASE ACPFails(w)
  BY <1>10, TypeFails DEF ACPFails
<1>11. CASE LoadResult(w)
  BY <1>11 DEF LoadResult, MaybeStatus, Outcome
<1>12. CASE LoadResultFails(w)
  BY <1>12, TypeFails DEF LoadResultFails
<1>13. CASE Land(w)
  BY <1>13 DEF Land, PlanType, MaybeStatus
<1>14. CASE Send(w)
  BY <1>14 DEF Send
<1>15. CASE Release(w)
  BY <1>15 DEF Release
<1>16. CASE WgDone(w)
  BY <1>16 DEF WgDone
<1> QED
  BY Zenon, <1>1, <1>2, <1>3, <1>4, <1>5, <1>6, <1>7, <1>8, <1>9, <1>10, <1>11, <1>12,
     <1>13, <1>14, <1>15, <1>16 DEF WorkerNext

\* Closing the results channel keeps every variable in its type.
LEMMA TypeClose == TypeInv /\ Close => TypeInv'
  BY DEF Close, TypeInv, TypeOK, coordVars, fileVars, workVars, planVars

\* A stuttering step keeps every variable in its type.
LEMMA TypeStutter == TypeInv /\ UNCHANGED vars => TypeInv'
  BY DEF TypeInv, TypeOK, vars, coordVars, fileVars, workVars, syncVars, planVars

\* Every variable keeps its type in every reachable state; in particular the
\* plan only ever holds statuses that an agent reported, never an error.
THEOREM TypeCorrect == Spec => []TypeOK
<1>1. TypeInv /\ [Next]_vars => TypeInv'
  BY TypeCoord, TypeWorker, TypeClose, TypeStutter DEF Next, Terminated
<1>2. TypeInv => TypeOK
  BY DEF TypeInv
<1> QED
  BY TypeInit, <1>1, <1>2, PTL DEF Spec

-----------------------------------------------------------------------------
(* Synchronisation.                                                        *)

\* Before Run starts, no slot is taken, no worker is registered, nothing is sent.
LEMMA SyncInit == Init => SyncInv
<1> SUFFICES ASSUME Init PROVE SyncInv
  OBVIOUS
<1>1. InFlight = {}
  BY DEF Init, InFlight, InFlightPC
<1>2. Cardinality(sem) <= Parallel
  BY FS_EmptySet, TypeInit, ParallelPositive, SMT DEF Init, TypeInv
<1> QED
  BY <1>1, <1>2 DEF Init, SyncInv, SentPC, AfterCollect

\* Run's main goroutine keeps semaphore, WaitGroup and channel in step with the
\* workers' program counters.
LEMMA SyncCoord == TypeInv /\ SyncInv /\ CoordNext => SyncInv'
<1> SUFFICES ASSUME TypeInv, SyncInv, CoordNext PROVE SyncInv'
  OBVIOUS
<1> USE ParallelFixed DEF TypeInv, TypeOK, SyncInv, SentPC, AfterCollect, InFlight,
    InFlightPC, coordVars, fileVars, workVars, syncVars, planVars
<1>1. CASE Preflight
  BY <1>1 DEF Preflight
<1>2. CASE WorktreesReady
  BY <1>2 DEF WorktreesReady
<1>3. CASE StartCloser
  BY <1>3 DEF StartCloser
<1>4. CASE CollectEnds
  BY <1>4 DEF CollectEnds
<1>5. CASE WritePlan
  BY <1>5 DEF WritePlan
<1>6. CASE Return
  BY <1>6 DEF Return
<1>7. CASE Exit
  BY <1>7 DEF Exit
<1>8. ASSUME NEW w \in Worker, CreateWorktree(w) PROVE SyncInv'
  BY <1>8 DEF CreateWorktree
<1>9. ASSUME NEW w \in Worker, CreateWorktreeFails(w) PROVE SyncInv'
  BY <1>9 DEF CreateWorktreeFails
<1>10. ASSUME NEW w \in Worker, Spawn(w) PROVE SyncInv'
  BY <1>10, SMT DEF Spawn, Goto
<1>11. ASSUME NEW w \in Worker, Collect(w) PROVE SyncInv'
  BY <1>11, SMT DEF Collect
<1>12. ASSUME NEW s \in Slug, Reconcile(s) PROVE SyncInv'
  BY <1>12 DEF Reconcile
<1>13. ASSUME NEW s \in Slug, ReconcileFails(s) PROVE SyncInv'
  BY <1>13 DEF ReconcileFails
<1>14. ASSUME NEW s \in Slug, Teardown(s) PROVE SyncInv'
  BY <1>14 DEF Teardown
<1> QED
  BY <1>1, <1>2, <1>3, <1>4, <1>5, <1>6, <1>7, <1>8, <1>9, <1>10, <1>11, <1>12,
     <1>13, <1>14, Zenon DEF CoordNext

\* What a worker's step does to the program counters.
LEMMA Going ==
  ASSUME TypeInv, NEW w \in Worker, NEW from, NEW to, Goto(w, from, to)
  PROVE  pc[w] = from /\ pc'[w] = to /\ \A v \in Worker : v # w => pc'[v] = pc[v]
<1>1. pc \in [Worker -> WorkerPC]
  BY Zenon DEF TypeInv, TypeOK
<1> QED
  BY <1>1 DEF Goto

\* A worker that moves on between its slot and its send keeps slot and registration.
LEMMA SyncMoves ==
  ASSUME TypeInv, SyncInv, NEW w \in Worker,
         NEW from \in InFlightPC \ {"release"}, NEW to \in InFlightPC \ {"release"},
         Goto(w, from, to), UNCHANGED <<coordVars, sem, wg, results, closed>>
  PROVE  SyncInv'
<1>1. /\ pc[w] = from /\ pc'[w] = to
      /\ \A v \in Worker : v # w => pc'[v] = pc[v]
  BY Going
<1>2. InFlight' = InFlight
  BY <1>1 DEF InFlight
<1>3. \A v \in Worker : /\ pc'[v] \in {"unspawned", "gone"} <=> pc[v] \in {"unspawned", "gone"}
                        /\ pc'[v] = "unspawned" <=> pc[v] = "unspawned"
                        /\ pc'[v] \in SentPC <=> pc[v] \in SentPC
  BY <1>1 DEF InFlightPC, SentPC
<1>4. /\ cfg' = cfg /\ sem' = sem /\ wg' = wg /\ results' = results /\ closed' = closed
      /\ phase' = phase /\ pending' = pending /\ closerUp' = closerUp
      /\ collected' = collected
  BY Zenon DEF coordVars
<1>5. Parallel' = Parallel
  BY <1>4, ParallelFixed
<1> QED
  BY <1>2, <1>3, <1>4, <1>5, SMT DEF SyncInv

\* An early end of an agent keeps its slot and its registration.
LEMMA SyncFails ==
  ASSUME TypeInv, SyncInv, NEW w \in Worker,
         NEW from \in {"writesnap", "launch", "agent", "load"}, Fails(w, from)
  PROVE  SyncInv'
<1>1. Goto(w, from, "send") /\ UNCHANGED <<coordVars, sem, wg, results, closed>>
  BY Zenon DEF Fails, workerStep
<1> QED
  BY <1>1, SyncMoves DEF InFlightPC

\* A worker's step moves its slot, registration and outcome together with its
\* program counter.
LEMMA SyncWorker ==
  ASSUME TypeInv, SyncInv, NEW w \in Worker, WorkerNext(w)
  PROVE  SyncInv'
<1>a. IsFiniteSet(sem) /\ Cardinality(sem) \in Nat
  BY DispatchConstants, FS_Subset, FS_CardinalityType DEF TypeInv, TypeOK
<1>0. /\ IsFiniteSet(sem) /\ Cardinality(sem) \in Nat
      /\ w \notin sem => Cardinality(sem \cup {w}) = Cardinality(sem) + 1
      /\ w \in sem => Cardinality(sem \ {w}) = Cardinality(sem) - 1
  BY <1>a, FS_AddElement, FS_RemoveElement
<1>1. CASE Acquire(w)
  <2> USE ParallelFixed DEF TypeInv, TypeOK, SyncInv, SentPC, AfterCollect, InFlight,
      InFlightPC, Goto, workerStep, coordVars, fileVars, workVars, syncVars, planVars
  <2>1. w \notin sem
    BY <1>1 DEF Acquire
  <2>2. Cardinality(sem \cup {w}) = Cardinality(sem) + 1
    BY <1>0, <2>1
  <2>3. sem' = sem \cup {w} /\ Cardinality(sem) < Parallel
    BY <1>1 DEF Acquire
  <2>4. Cardinality(sem') <= Parallel
    BY <1>0, <2>2, <2>3, ParallelPositive, SMT
  <2> QED
    BY <1>1, <2>4, SMT DEF Acquire
<1>2. CASE ClonePlan(w)
  <2>1. Goto(w, "clone", "writesnap") /\ UNCHANGED <<coordVars, sem, wg, results, closed>>
    BY Zenon, <1>2 DEF ClonePlan, workerStep
  <2> QED
    BY <2>1, SyncMoves DEF InFlightPC
<1>3. CASE WriteSnapshot(w)
  <2>1. Goto(w, "writesnap", "launch") /\ UNCHANGED <<coordVars, sem, wg, results, closed>>
    BY Zenon, <1>3 DEF WriteSnapshot, workerStep
  <2> QED
    BY <2>1, SyncMoves DEF InFlightPC
<1>4. CASE WriteSnapshotFails(w)
  BY Zenon, <1>4, SyncFails DEF WriteSnapshotFails
<1>5. CASE CycleBrickLoads(w)
  <2>1. Goto(w, "launch", "agent") /\ UNCHANGED <<coordVars, sem, wg, results, closed>>
    BY Zenon, <1>5 DEF CycleBrickLoads, workerStep
  <2> QED
    BY <2>1, SyncMoves DEF InFlightPC
<1>6. CASE CycleBrickReports(w)
  <2>1. Goto(w, "agent", "load") /\ UNCHANGED <<coordVars, sem, wg, results, closed>>
    BY Zenon, <1>6 DEF CycleBrickReports, workerStep
  <2> QED
    BY <2>1, SyncMoves DEF InFlightPC
<1>7. CASE CycleBrickFails(w)
  BY Zenon, <1>7, SyncFails DEF CycleBrickFails
<1>8. CASE ACPLaunch(w)
  <2>1. Goto(w, "launch", "agent") /\ UNCHANGED <<coordVars, sem, wg, results, closed>>
    BY Zenon, <1>8 DEF ACPLaunch, workerStep
  <2> QED
    BY <2>1, SyncMoves DEF InFlightPC
<1>9. CASE ACPReports(w)
  <2>1. Goto(w, "agent", "load") /\ UNCHANGED <<coordVars, sem, wg, results, closed>>
    BY Zenon, <1>9 DEF ACPReports, workerStep
  <2> QED
    BY <2>1, SyncMoves DEF InFlightPC
<1>10. CASE ACPFails(w)
  BY Zenon, <1>10, SyncFails DEF ACPFails
<1>11. CASE LoadResult(w)
  <2>1. Goto(w, "load", "land") /\ UNCHANGED <<coordVars, sem, wg, results, closed>>
    BY Zenon, <1>11 DEF LoadResult, workerStep
  <2> QED
    BY <2>1, SyncMoves DEF InFlightPC
<1>12. CASE LoadResultFails(w)
  BY Zenon, <1>12, SyncFails DEF LoadResultFails
<1>13. CASE Land(w)
  <2>1. Goto(w, "land", "send") /\ UNCHANGED <<coordVars, sem, wg, results, closed>>
    BY Zenon, <1>13 DEF Land, syncVars
  <2> QED
    BY <2>1, SyncMoves DEF InFlightPC
<1>14. CASE Send(w)
  <2> USE ParallelFixed DEF TypeInv, TypeOK, SyncInv, SentPC, AfterCollect, InFlight,
      InFlightPC, Goto, workerStep, coordVars, fileVars, workVars, syncVars, planVars
  <2>1. /\ UNCHANGED <<coordVars, sem, wg, closed>> /\ ~closed
        /\ results' = results \cup {w}
    BY Zenon, <1>14 DEF Send
  <2>2. /\ pc[w] = "send" /\ pc'[w] = "release"
        /\ \A v \in Worker : v # w => pc'[v] = pc[v]
    BY <1>14 DEF Send
  <2>3. InFlight' = InFlight /\ Parallel' = Parallel
    BY <2>1, <2>2
  <2>4. {v \in Worker : pc'[v] \notin {"unspawned", "gone"}} =
          {v \in Worker : pc[v] \notin {"unspawned", "gone"}}
    BY <2>2
  <2>5. {v \in Worker : pc'[v] = "unspawned"} = {v \in Worker : pc[v] = "unspawned"}
    BY <2>2
  <2>6. /\ results' \cap collected = {}
        /\ results' \cup collected = {v \in Worker : pc'[v] \in SentPC}
    BY <2>1, <2>2, SMT
  <2>7. phase \notin {"preflight", "worktrees"}
    BY <2>2
  <2> QED
    BY <2>1, <2>2, <2>3, <2>4, <2>5, <2>6, <2>7
<1>15. CASE Release(w)
  <2> USE ParallelFixed DEF TypeInv, TypeOK, SyncInv, SentPC, AfterCollect, InFlight,
      InFlightPC, Goto, workerStep, coordVars, fileVars, workVars, syncVars, planVars
  <2>1. w \in sem
    BY <1>15 DEF Release
  <2>2. Cardinality(sem \ {w}) = Cardinality(sem) - 1
    BY <1>0, <2>1
  <2>3. sem' = sem \ {w} /\ Cardinality(sem) <= Parallel
    BY <1>15 DEF Release
  <2>4. Cardinality(sem') <= Parallel
    BY <1>0, <2>2, <2>3, ParallelPositive, SMT
  <2>5. /\ pc[w] = "release" /\ pc'[w] = "wgdone"
        /\ \A v \in Worker : v # w => pc'[v] = pc[v]
    BY <1>15 DEF Release
  <2>6. InFlight' = InFlight \ {w} /\ Parallel' = Parallel
    BY <1>15, <2>5 DEF Release
  <2>7. {v \in Worker : pc'[v] \notin {"unspawned", "gone"}} =
          {v \in Worker : pc[v] \notin {"unspawned", "gone"}}
    BY <2>5
  <2>8. {v \in Worker : pc'[v] \in SentPC} = {v \in Worker : pc[v] \in SentPC}
    BY <2>5
  <2>9. {v \in Worker : pc'[v] = "unspawned"} = {v \in Worker : pc[v] = "unspawned"}
    BY <2>5
  <2>10. /\ sem' = InFlight' /\ Cardinality(sem') <= Parallel'
         /\ UNCHANGED <<wg, results, closed, phase, pending, closerUp, collected>>
    BY <1>15, <2>3, <2>4, <2>6 DEF Release
  <2>11. phase \notin {"preflight", "worktrees"}
    BY <2>5
  <2> QED
    BY <2>5, <2>7, <2>8, <2>9, <2>10, <2>11 DEF Release
<1>16. CASE WgDone(w)
  <2> USE ParallelFixed DEF TypeInv, TypeOK, SyncInv, SentPC, AfterCollect, InFlight,
      InFlightPC, Goto, workerStep, coordVars, fileVars, workVars, syncVars, planVars
  <2> QED
    BY <1>16 DEF WgDone
<1> QED
  BY Zenon, <1>1, <1>2, <1>3, <1>4, <1>5, <1>6, <1>7, <1>8, <1>9, <1>10, <1>11, <1>12,
     <1>13, <1>14, <1>15, <1>16 DEF WorkerNext

\* The channel is closed when wg is empty, when every worker has sent.
LEMMA SyncClose == TypeInv /\ SyncInv /\ Close => SyncInv'
  BY ParallelFixed, SMT DEF Close, TypeInv, TypeOK, SyncInv, SentPC, AfterCollect, InFlight, coordVars,
         fileVars, workVars, planVars

\* A stuttering step keeps SyncInv.
LEMMA SyncStutter == SyncInv /\ UNCHANGED vars => SyncInv'
  BY ParallelFixed, SMT DEF SyncInv, InFlight, vars, coordVars, fileVars, workVars, syncVars, planVars

\* The inductive core of the synchronisation argument.
THEOREM SyncCorrect == Spec => [](TypeInv /\ SyncInv)
<1>1. TypeInv /\ SyncInv /\ [Next]_vars => (TypeInv /\ SyncInv)'
  BY TypeCoord, TypeWorker, TypeClose, TypeStutter, SyncCoord, SyncWorker, SyncClose,
     SyncStutter DEF Next, Terminated
<1> QED
  BY TypeInit, SyncInit, <1>1, PTL DEF Spec

\* For every brick list and every --parallel: the semaphore channel keeps the
\* goroutines between `sem <-` and `<-sem` within the clamped bound.
THEOREM AgentsAlwaysBounded == Spec => []AgentsBounded
<1>1. SyncInv => AgentsBounded
  BY DEF SyncInv, AgentsBounded
<1> QED
  BY SyncCorrect, <1>1, PTL

\* For every brick list: close(results) runs only when every goroutine has
\* passed its send and its wg.Done, so no send can panic.
THEOREM NoSendAfterClose == Spec => []ClosedAfterLastSend
<1>1. TypeInv /\ SyncInv => ClosedAfterLastSend
  BY DEF TypeInv, TypeOK, SyncInv, ClosedAfterLastSend
<1> QED
  BY SyncCorrect, <1>1, PTL

\* For every brick list: the range over results ends with every outcome read.
THEOREM CollectorIsComplete == Spec => []EveryOutcomeCollected
<1>1. TypeInv /\ SyncInv => EveryOutcomeCollected
  BY DEF TypeInv, TypeOK, SyncInv, SentPC, EveryOutcomeCollected
<1> QED
  BY SyncCorrect, <1>1, PTL

-----------------------------------------------------------------------------
(* The verdict and the teardown.                                           *)

\* Before Run starts there is no verdict.
LEMMA VerdictInit == Init => VerdictInv
<1> SUFFICES ASSUME Init PROVE VerdictInv
  OBVIOUS
<1>1. /\ phase = "preflight" /\ collected = {} /\ ~failed /\ ~mergeErr
      /\ \A w \in Worker : pc[w] = "unspawned"
  BY Zenon DEF Init
<1> QED
  BY <1>1 DEF VerdictInv, SentPC, AfterCollect

\* VerdictInv reads nothing but the coordinator's state, sends and outcomes.
LEMMA VerdictFrame ==
  VerdictInv /\ UNCHANGED <<coordVars, pc, outcome>> => VerdictInv'
<1> SUFFICES ASSUME VerdictInv, UNCHANGED <<coordVars, pc, outcome>> PROVE VerdictInv'
  OBVIOUS
<1>1. /\ phase' = phase /\ closerUp' = closerUp /\ collected' = collected
      /\ failed' = failed /\ mergeErr' = mergeErr /\ code' = code
      /\ pc' = pc /\ outcome' = outcome
  BY Zenon DEF coordVars
<1> QED
  BY Zenon, <1>1 DEF VerdictInv

\* A step of Run that collects no outcome is judged by its phase and its code.
LEMMA VerdictPhase ==
  ASSUME VerdictInv, UNCHANGED <<collected, failed, mergeErr, pc, outcome>>,
         mergeErr => closerUp' /\ phase' \in AfterCollect,
         ~closerUp' /\ phase' \in AfterCollect => code' = 2,
         phase' \in {"teardown", "returned", "exited"} =>
           code' \in 0..2 /\ (code' = 0 => ~failed) /\ (code' = 1 => failed)
  PROVE  VerdictInv'
<1>1. /\ collected' = collected /\ failed' = failed /\ mergeErr' = mergeErr
      /\ pc' = pc /\ outcome' = outcome
  OBVIOUS
<1>2. /\ \A w \in Worker : pc[w] \in {"send"} \cup SentPC => outcome[w] \in Outcome
      /\ failed <=> mergeErr \/ \E w \in collected : outcome[w] # "idempotent"
  BY Zenon DEF VerdictInv
<1>3. /\ \A w \in Worker : pc'[w] \in {"send"} \cup SentPC => outcome'[w] \in Outcome
      /\ failed' <=> mergeErr' \/ \E w \in collected' : outcome'[w] # "idempotent"
  BY <1>1, <1>2, SMT
<1> QED
  BY <1>1, <1>3, SMT DEF VerdictInv

\* The collector's flag, the merge errors and the code follow the outcomes.
LEMMA VerdictCoord == TypeInv /\ SyncInv /\ VerdictInv /\ CoordNext => VerdictInv'
<1> SUFFICES ASSUME TypeInv, SyncInv, VerdictInv, CoordNext PROVE VerdictInv'
  OBVIOUS
<1>0. /\ closerUp => phase \in {"collect"} \cup AfterCollect
      /\ phase \in {"collect", "reconcile"} => closerUp
      /\ failed \in BOOLEAN
  BY Zenon DEF SyncInv, TypeInv, TypeOK
<1>a. /\ mergeErr => closerUp /\ phase \in AfterCollect
      /\ ~closerUp /\ phase \in AfterCollect => code = 2
      /\ phase \in {"teardown", "returned", "exited"} =>
           code \in 0..2 /\ (code = 0 => ~failed) /\ (code = 1 => failed)
  BY Zenon DEF VerdictInv
<1>1. CASE Preflight
  <2>1. /\ phase = "preflight"
        /\ \/ phase' = IF cfg.worktree THEN "worktrees" ELSE "spawn"
           \/ phase' = "returned" /\ code' = 2
        /\ closerUp' = closerUp
        /\ UNCHANGED <<collected, failed, mergeErr, pc, outcome>>
    BY Zenon, <1>1 DEF Preflight, workVars
  <2>2. ~mergeErr
    BY <1>a, <2>1 DEF AfterCollect
  <2>3. CASE phase' \in {"worktrees", "spawn"}
    BY <2>1, <2>2, <2>3, VerdictPhase DEF AfterCollect
  <2>4. CASE phase' = "returned" /\ code' = 2
    BY <2>1, <2>2, <2>4, VerdictPhase, SMT DEF AfterCollect
  <2> QED
    BY <2>1, <2>3, <2>4
<1>2. CASE WorktreesReady
  <2>1. /\ phase = "worktrees"
        /\ phase' = "spawn" /\ closerUp' = closerUp
        /\ UNCHANGED <<collected, failed, mergeErr, pc, outcome>>
    BY <1>2 DEF WorktreesReady, workVars
  <2> QED
    BY <1>0, <1>a, <2>1, VerdictPhase DEF AfterCollect
<1>3. CASE StartCloser
  <2>1. /\ phase = "spawn"
        /\ phase' = "collect" /\ closerUp' = TRUE
        /\ UNCHANGED <<collected, failed, mergeErr, pc, outcome>>
    BY <1>3 DEF StartCloser, workVars
  <2> QED
    BY <1>0, <1>a, <2>1, VerdictPhase DEF AfterCollect
<1>4. CASE CollectEnds
  <2>1. /\ phase = "collect"
        /\ phase' = "reconcile" /\ closerUp' = closerUp
        /\ UNCHANGED <<collected, failed, mergeErr, pc, outcome>>
    BY <1>4 DEF CollectEnds, workVars
  <2> QED
    BY <1>0, <1>a, <2>1, VerdictPhase DEF AfterCollect
<1>5. CASE WritePlan
  <2>1. /\ phase = "reconcile"
        /\ phase' = "teardown" /\ closerUp' = closerUp /\ code' \in {2, IF failed THEN 1 ELSE 0}
        /\ UNCHANGED <<collected, failed, mergeErr, pc, outcome>>
    BY <1>5 DEF WritePlan, workVars
  <2> QED
    BY <1>0, <1>a, <2>1, VerdictPhase, SMT DEF AfterCollect
<1>6. CASE Return
  <2>1. /\ phase = "teardown"
        /\ phase' = "returned" /\ closerUp' = closerUp /\ code' = code
        /\ UNCHANGED <<collected, failed, mergeErr, pc, outcome>>
    BY <1>6 DEF Return, workVars
  <2> QED
    BY <1>0, <1>a, <2>1, VerdictPhase DEF AfterCollect
<1>7. CASE Exit
  <2>1. /\ phase = "returned"
        /\ phase' = "exited" /\ closerUp' = closerUp /\ code' = code
        /\ UNCHANGED <<collected, failed, mergeErr, pc, outcome>>
    BY <1>7 DEF Exit, workVars
  <2> QED
    BY <1>0, <1>a, <2>1, VerdictPhase DEF AfterCollect
<1>8. ASSUME NEW w \in Worker, CreateWorktree(w) PROVE VerdictInv'
  <2>1. /\ phase = "worktrees"
        /\ phase' = phase /\ closerUp' = closerUp /\ code' = code
        /\ UNCHANGED <<collected, failed, mergeErr, pc, outcome>>
    BY <1>8 DEF CreateWorktree, workVars
  <2> QED
    BY <1>0, <1>a, <2>1, VerdictPhase DEF AfterCollect
<1>9. ASSUME NEW w \in Worker, CreateWorktreeFails(w) PROVE VerdictInv'
  <2>1. /\ phase = "worktrees"
        /\ phase' = "teardown" /\ closerUp' = closerUp /\ code' = 2
        /\ UNCHANGED <<collected, failed, mergeErr, pc, outcome>>
    BY <1>9 DEF CreateWorktreeFails, workVars
  <2> QED
    BY <1>0, <1>a, <2>1, VerdictPhase, SMT DEF AfterCollect
<1>10. ASSUME NEW w \in Worker, Spawn(w) PROVE VerdictInv'
  <2>1. /\ phase = "spawn" /\ phase' = phase /\ closerUp' = closerUp /\ code' = code
        /\ UNCHANGED <<collected, failed, mergeErr, outcome>> /\ Goto(w, "unspawned", "start")
    BY <1>10 DEF Spawn
  <2>2. \A v \in Worker : pc'[v] \in {"send"} \cup SentPC => pc'[v] = pc[v]
    BY <2>1, Going DEF SentPC
  <2> QED
    BY <2>1, <2>2 DEF VerdictInv, AfterCollect
<1>11. ASSUME NEW w \in Worker, Collect(w) PROVE VerdictInv'
  <2>1. /\ phase = "collect" /\ phase' = phase /\ closerUp' = closerUp /\ code' = code
        /\ collected' = collected \cup {w}
        /\ failed' = (failed \/ outcome[w] # "idempotent")
        /\ pc' = pc /\ outcome' = outcome /\ mergeErr' = mergeErr
    BY <1>11 DEF Collect, workVars
  <2>2. failed' <=> mergeErr' \/ \E v \in collected' : outcome'[v] # "idempotent"
    BY <2>1, Zenon DEF VerdictInv
  <2>3. phase' \notin AfterCollect
    BY <2>1 DEF AfterCollect
  <2>4. ~mergeErr
    BY <1>a, <2>1 DEF AfterCollect
  <2> QED
    BY <2>1, <2>2, <2>3, <2>4 DEF VerdictInv, AfterCollect
<1>12. ASSUME NEW s \in Slug, Reconcile(s) PROVE VerdictInv'
  <2>1. /\ phase = "reconcile"
        /\ phase' = phase /\ closerUp' = closerUp /\ code' = code
        /\ UNCHANGED <<collected, failed, mergeErr, pc, outcome>>
    BY <1>12 DEF Reconcile, workVars
  <2> QED
    BY <1>0, <1>a, <2>1, VerdictPhase DEF AfterCollect
<1>13. ASSUME NEW s \in Slug, ReconcileFails(s) PROVE VerdictInv'
  <2>1. /\ phase = "reconcile" /\ phase' = phase /\ closerUp' = closerUp /\ code' = code
        /\ failed' = TRUE /\ mergeErr' = TRUE
        /\ pc' = pc /\ outcome' = outcome /\ collected' = collected
    BY <1>13 DEF ReconcileFails, workVars
  <2> QED
    BY <1>0, <2>1 DEF VerdictInv, AfterCollect
<1>14. ASSUME NEW s \in Slug, Teardown(s) PROVE VerdictInv'
  <2>1. /\ phase = "teardown"
        /\ phase' = phase /\ closerUp' = closerUp /\ code' = code
        /\ UNCHANGED <<collected, failed, mergeErr, pc, outcome>>
    BY <1>14 DEF Teardown, workVars
  <2> QED
    BY <1>0, <1>a, <2>1, VerdictPhase DEF AfterCollect
<1> QED
  BY <1>1, <1>2, <1>3, <1>4, <1>5, <1>6, <1>7, <1>8, <1>9, <1>10, <1>11, <1>12,
     <1>13, <1>14, Zenon DEF CoordNext

\* A worker's own step keeps the verdict when it changes no outcome that was
\* already collected and knows its outcome by the time it sends.
LEMMA VerdictOwn ==
  ASSUME VerdictInv, TypeInv, NEW w \in Worker, NEW from, NEW to, Goto(w, from, to),
         UNCHANGED coordVars,
         to \in {"send"} \cup SentPC => outcome'[w] \in Outcome,
         \A v \in Worker : v # w \/ v \in collected => outcome'[v] = outcome[v]
  PROVE  VerdictInv'
<1>1. pc'[w] = to /\ \A v \in Worker : v # w => pc'[v] = pc[v]
  BY Going
<1>2. /\ phase' = phase /\ closerUp' = closerUp /\ collected' = collected
      /\ failed' = failed /\ mergeErr' = mergeErr /\ code' = code
  BY Zenon DEF coordVars
<1>3. collected \subseteq Worker
  BY Zenon DEF TypeInv, TypeOK
<1>4. \A v \in Worker : pc'[v] \in {"send"} \cup SentPC => outcome'[v] \in Outcome
  BY <1>1 DEF VerdictInv
<1>5. (\E v \in collected : outcome[v] # "idempotent")
        <=> \E v \in collected : outcome'[v] # "idempotent"
  BY <1>3
<1> QED
  BY <1>2, <1>4, <1>5 DEF VerdictInv

\* A worker that has not sent yet has not been collected.
LEMMA NotCollected ==
  ASSUME TypeInv, SyncInv, NEW w \in Worker, pc[w] \notin SentPC
  PROVE  w \notin collected
  BY DEF SyncInv

\* An early end of an agent leaves what was collected alone.
LEMMA VerdictFails ==
  ASSUME TypeInv, SyncInv, VerdictInv, NEW w \in Worker,
         NEW from \in {"writesnap", "launch", "agent", "load"}, Fails(w, from)
  PROVE  VerdictInv'
<1>1. /\ Goto(w, from, "send") /\ UNCHANGED coordVars
      /\ outcome' = [outcome EXCEPT ![w] = "error"]
  BY Zenon DEF Fails, workerStep
<1>2. w \notin collected
  BY <1>1, Going, NotCollected DEF SentPC
<1>3. outcome \in [Worker -> Outcome \cup {"none"}]
  BY Zenon DEF TypeInv, TypeOK
<1>4. outcome'[w] \in Outcome /\ \A v \in Worker : v # w => outcome'[v] = outcome[v]
  BY <1>1, <1>3 DEF Outcome
<1> QED
  BY <1>1, <1>2, <1>4, VerdictOwn

\* A worker's step changes no outcome that was already collected.
LEMMA VerdictWorker ==
  ASSUME TypeInv, SyncInv, VerdictInv, NEW w \in Worker, WorkerNext(w)
  PROVE  VerdictInv'
<1>1. CASE Acquire(w)
  <2>1. Goto(w, "start", "clone") /\ UNCHANGED <<coordVars, outcome>>
    BY Zenon, <1>1 DEF Acquire, workerStep
  <2> QED
    BY <2>1, VerdictOwn DEF SentPC
<1>2. CASE ClonePlan(w)
  <2>1. Goto(w, "clone", "writesnap") /\ UNCHANGED <<coordVars, outcome>>
    BY Zenon, <1>2 DEF ClonePlan, workerStep
  <2> QED
    BY <2>1, VerdictOwn DEF SentPC
<1>3. CASE WriteSnapshot(w)
  <2>1. Goto(w, "writesnap", "launch") /\ UNCHANGED <<coordVars, outcome>>
    BY Zenon, <1>3 DEF WriteSnapshot, workerStep
  <2> QED
    BY <2>1, VerdictOwn DEF SentPC
<1>4. CASE WriteSnapshotFails(w)
  BY Zenon, <1>4, VerdictFails DEF WriteSnapshotFails
<1>5. CASE CycleBrickLoads(w)
  <2>1. Goto(w, "launch", "agent") /\ UNCHANGED <<coordVars, outcome>>
    BY Zenon, <1>5 DEF CycleBrickLoads, workerStep
  <2> QED
    BY <2>1, VerdictOwn DEF SentPC
<1>6. CASE CycleBrickReports(w)
  <2>1. Goto(w, "agent", "load") /\ UNCHANGED <<coordVars, outcome>>
    BY Zenon, <1>6 DEF CycleBrickReports, workerStep
  <2> QED
    BY <2>1, VerdictOwn DEF SentPC
<1>7. CASE CycleBrickFails(w)
  BY Zenon, <1>7, VerdictFails DEF CycleBrickFails
<1>8. CASE ACPLaunch(w)
  <2>1. Goto(w, "launch", "agent") /\ UNCHANGED <<coordVars, outcome>>
    BY Zenon, <1>8 DEF ACPLaunch, workerStep
  <2> QED
    BY <2>1, VerdictOwn DEF SentPC
<1>9. CASE ACPReports(w)
  <2>1. Goto(w, "agent", "load") /\ UNCHANGED <<coordVars, outcome>>
    BY Zenon, <1>9 DEF ACPReports, workerStep
  <2> QED
    BY <2>1, VerdictOwn DEF SentPC
<1>10. CASE ACPFails(w)
  BY Zenon, <1>10, VerdictFails DEF ACPFails
<1>11. CASE LoadResult(w)
  <2>1. /\ Goto(w, "load", "land") /\ UNCHANGED coordVars
        /\ outcome' = [outcome EXCEPT ![w] = outFile[slugOf[w]]]
    BY Zenon, <1>11 DEF LoadResult, workerStep
  <2>2. w \notin collected
    BY <2>1, Going, NotCollected DEF SentPC
  <2>3. outcome \in [Worker -> Outcome \cup {"none"}]
    BY Zenon DEF TypeInv, TypeOK
  <2>4. \A v \in Worker : v # w => outcome'[v] = outcome[v]
    BY <2>1, <2>3
  <2> QED
    BY <2>1, <2>2, <2>4, VerdictOwn DEF SentPC
<1>12. CASE LoadResultFails(w)
  BY Zenon, <1>12, VerdictFails DEF LoadResultFails
<1>13. CASE Land(w)
  <2>1. Goto(w, "land", "send") /\ UNCHANGED <<coordVars, outcome>>
    BY Zenon, <1>13 DEF Land
  <2>2. outcome[w] \in Outcome
    BY <2>1, Going DEF TypeInv, Outcome
  <2> QED
    BY <2>1, <2>2, VerdictOwn
<1>14. CASE Send(w)
  <2>1. Goto(w, "send", "release") /\ UNCHANGED <<coordVars, outcome>>
    BY Zenon, <1>14 DEF Send
  <2>2. outcome[w] \in Outcome
    BY <2>1, Going DEF VerdictInv, SentPC
  <2> QED
    BY <2>1, <2>2, VerdictOwn
<1>15. CASE Release(w)
  <2>1. Goto(w, "release", "wgdone") /\ UNCHANGED <<coordVars, outcome>>
    BY Zenon, <1>15 DEF Release, workerStep
  <2>2. outcome[w] \in Outcome
    BY <2>1, Going DEF VerdictInv, SentPC
  <2> QED
    BY <2>1, <2>2, VerdictOwn
<1>16. CASE WgDone(w)
  <2>1. Goto(w, "wgdone", "gone") /\ UNCHANGED <<coordVars, outcome>>
    BY Zenon, <1>16 DEF WgDone
  <2>2. outcome[w] \in Outcome
    BY <2>1, Going DEF VerdictInv, SentPC
  <2> QED
    BY <2>1, <2>2, VerdictOwn
<1> QED
  BY Zenon, <1>1, <1>2, <1>3, <1>4, <1>5, <1>6, <1>7, <1>8, <1>9, <1>10, <1>11, <1>12,
     <1>13, <1>14, <1>15, <1>16 DEF WorkerNext

\* Closing the channel changes no verdict.
LEMMA VerdictClose == VerdictInv /\ Close => VerdictInv'
  BY VerdictFrame DEF Close, workVars

\* A stuttering step keeps VerdictInv.
LEMMA VerdictStutter == VerdictInv /\ UNCHANGED vars => VerdictInv'
  BY VerdictFrame DEF vars, workVars

\* Before Run starts no worktree exists.
LEMMA TornInit == Init => TornInv
  BY DEF Init, TornInv

\* A worktree that was created stays on the teardown list until it is removed.
LEMMA TornCoord == TypeInv /\ TornInv /\ CoordNext => TornInv'
<1> SUFFICES ASSUME TypeInv, TornInv, CoordNext PROVE TornInv'
  OBVIOUS
<1> USE DEF TypeInv, TypeOK, TornInv, Phase, coordVars, fileVars, workVars,
    syncVars, planVars
<1>1. CASE Preflight
  BY Zenon, <1>1 DEF Preflight
<1>2. CASE WorktreesReady
  BY <1>2 DEF WorktreesReady
<1>3. CASE StartCloser
  BY <1>3 DEF StartCloser
<1>4. CASE CollectEnds
  BY <1>4 DEF CollectEnds
<1>5. CASE WritePlan
  BY <1>5 DEF WritePlan
<1>6. CASE Return
  BY <1>6 DEF Return
<1>7. CASE Exit
  BY <1>7 DEF Exit
<1>8. ASSUME NEW w \in Worker, CreateWorktree(w) PROVE TornInv'
  BY <1>8 DEF CreateWorktree
<1>9. ASSUME NEW w \in Worker, CreateWorktreeFails(w) PROVE TornInv'
  BY <1>9 DEF CreateWorktreeFails
<1>10. ASSUME NEW w \in Worker, Spawn(w) PROVE TornInv'
  BY <1>10 DEF Spawn, Goto
<1>11. ASSUME NEW w \in Worker, Collect(w) PROVE TornInv'
  BY <1>11 DEF Collect
<1>12. ASSUME NEW s \in Slug, Reconcile(s) PROVE TornInv'
  BY <1>12 DEF Reconcile
<1>13. ASSUME NEW s \in Slug, ReconcileFails(s) PROVE TornInv'
  BY <1>13 DEF ReconcileFails
<1>14. ASSUME NEW s \in Slug, Teardown(s) PROVE TornInv'
  BY <1>14 DEF Teardown
<1> QED
  BY <1>1, <1>2, <1>3, <1>4, <1>5, <1>6, <1>7, <1>8, <1>9, <1>10, <1>11, <1>12,
     <1>13, <1>14, Zenon DEF CoordNext

\* No worker and no closer touches what the teardown argument is about.
LEMMA TornOther ==
  TornInv /\ UNCHANGED coordVars => TornInv'
  BY DEF TornInv, coordVars

\* No worker step changes a variable of the coordinator.
LEMMA WorkerFrame ==
  ASSUME NEW w \in Worker, WorkerNext(w)
  PROVE  UNCHANGED coordVars
  BY Zenon DEF WorkerNext, Acquire, ClonePlan, WriteSnapshot, WriteSnapshotFails,
         CycleBrickLoads, CycleBrickReports, CycleBrickFails, ACPLaunch, ACPReports,
         ACPFails, LoadResult, LoadResultFails, Land, Send, Release, WgDone, Fails,
         workerStep

\* In every reachable state the collector's flag and the code agree with the
\* outcomes sent, and the worktrees not yet removed are those still to be removed.
THEOREM VerdictCorrect == Spec => [](TypeInv /\ SyncInv /\ VerdictInv /\ TornInv)
<1> DEFINE Inv == TypeInv /\ SyncInv /\ VerdictInv /\ TornInv
<1>1. Inv /\ [Next]_vars => VerdictInv'
  BY VerdictCoord, VerdictWorker, VerdictClose, VerdictStutter DEF Next, Terminated
<1>2. Inv /\ [Next]_vars => TornInv'
  BY TornCoord, TornOther, WorkerFrame DEF Next, Terminated, Close, vars
<1>3. Init => VerdictInv /\ TornInv
  BY VerdictInit, TornInit
<1> QED
  BY SyncCorrect, <1>1, <1>2, <1>3, PTL DEF Spec

\* For every brick list: Run's code 0 means that every brick came back idempotent
\* and every merge worked, code 1 that some brick or merge did not.
THEOREM ExitCodeIsHonest == Spec => []ExitCodeHonest
<1>1. TypeInv /\ SyncInv /\ VerdictInv => ExitCodeHonest
  <2> SUFFICES ASSUME TypeInv, SyncInv, VerdictInv, phase \in {"returned", "exited"},
                      code \in {0, 1}
               PROVE  /\ code = 0 => ~mergeErr /\ \A w \in Worker : outcome[w] = "idempotent"
                      /\ code = 1 => mergeErr \/ \E w \in Worker : outcome[w] # "idempotent"
    BY DEF ExitCodeHonest
  <2>1. closerUp
    BY SMT DEF VerdictInv, AfterCollect
  <2>2. collected = Worker
    BY <2>1 DEF TypeInv, TypeOK, SyncInv, SentPC, AfterCollect
  <2> QED
    BY <2>2 DEF VerdictInv
<1> QED
  BY VerdictCorrect, <1>1, PTL

\* For every brick list: Run returns only after it has tried to remove each
\* worktree it created, whichever way it returns.
THEOREM WorktreesAlwaysTornDown == Spec => []WorktreesTornDown
<1>1. TornInv => WorktreesTornDown
  BY DEF TornInv, WorktreesTornDown
<1> QED
  BY VerdictCorrect, <1>1, PTL

-----------------------------------------------------------------------------
(* The plan, for lists that name no slug twice.                            *)

planView == <<cfg, pc, plan, outcome, snapshot, snapFile, seen>>

\* PlanInv, worker by worker: its entry, its snapshot file, what its agent
\* loaded, and what its clone still says of the plan.
Entry(w) == plan[slugOf[w]] = IF pc[w] \in LandedPC /\ outcome[w] # "error"
                              THEN outcome[w] ELSE "none"
OwnFile(w) == pc[w] \in {"launch", "agent"} => snapFile[slugOf[w]] = snapshot[w]
Loaded(w) == pc[w] = "agent" /\ ~cfg.acp => seen[w] = snapshot[w]
Past(w) == \A s \in Slug : snapshot[w][s] # "none" => plan[s] = snapshot[w][s]
Unlisted == \A s \in Slug : (\A w \in Worker : slugOf[w] # s) => plan[s] = "none"

\* The parts make up PlanInv.
LEMMA PlanParts ==
  PlanInv <=> /\ Unlisted
              /\ \A w \in Worker : Entry(w) /\ OwnFile(w) /\ Loaded(w) /\ Past(w)
  BY Zenon DEF PlanInv, SnapshotIsPast, Entry, OwnFile, Loaded, Past, Unlisted

\* The parts of the next state make up its PlanInv.
LEMMA PlanPartsNext ==
  ASSUME Unlisted', \A w \in Worker : Entry(w)' /\ OwnFile(w)' /\ Loaded(w)' /\ Past(w)'
  PROVE  PlanInv'
  BY Zenon DEF PlanInv, SnapshotIsPast, Entry, OwnFile, Loaded, Past, Unlisted

\* The plan of a round starts empty.
LEMMA PlanInit == Init => PlanInv
<1> SUFFICES ASSUME Init PROVE PlanInv
  OBVIOUS
<1>1. \A s \in Slug : plan[s] = "none"
  BY DEF Init, EmptyPlan
<1>2. ASSUME NEW w \in Worker PROVE Entry(w) /\ OwnFile(w) /\ Loaded(w) /\ Past(w)
  <2>1. pc[w] = "unspawned" /\ slugOf[w] \in Slug
    BY DispatchConstants DEF Init
  <2>2. \A s \in Slug : snapshot[w][s] = "none"
    BY DEF Init, EmptyPlan
  <2> QED
    BY <1>1, <2>1, <2>2 DEF Entry, OwnFile, Loaded, Past, LandedPC, SentPC
<1> QED
  BY <1>1, <1>2, PlanParts DEF Unlisted

\* PlanInv reads nothing but planView.
LEMMA PlanFrame == PlanInv /\ UNCHANGED planView => PlanInv'
<1> SUFFICES ASSUME PlanInv, UNCHANGED planView PROVE PlanInv'
  OBVIOUS
<1>1. Unlisted'
  BY Zenon, PlanParts DEF Unlisted, planView
<1>2. ASSUME NEW w \in Worker PROVE Entry(w)' /\ OwnFile(w)' /\ Loaded(w)' /\ Past(w)'
  <2>1. Entry(w) /\ OwnFile(w) /\ Loaded(w) /\ Past(w)
    BY PlanParts
  <2>2. /\ cfg' = cfg /\ pc' = pc /\ plan' = plan /\ outcome' = outcome
        /\ snapshot' = snapshot /\ snapFile' = snapFile /\ seen' = seen
    BY Zenon DEF planView
  <2> QED
    BY Zenon, <2>1, <2>2 DEF Entry, OwnFile, Loaded, Past
<1> QED
  BY <1>1, <1>2, PlanPartsNext

\* A step of one worker that leaves the plan and the files alone keeps PlanInv
\* when it keeps it for that worker.
LEMMA PlanOwn ==
  ASSUME PlanInv, NEW w \in Worker, UNCHANGED <<cfg, plan, snapFile>>,
         \A v \in Worker : v # w =>
           /\ pc'[v] = pc[v] /\ outcome'[v] = outcome[v]
           /\ snapshot'[v] = snapshot[v] /\ seen'[v] = seen[v],
         Entry(w)' /\ OwnFile(w)' /\ Loaded(w)' /\ Past(w)'
  PROVE  PlanInv'
<1>1. Unlisted'
  BY Zenon, PlanParts DEF Unlisted
<1>2. ASSUME NEW v \in Worker, v # w PROVE Entry(v)' /\ OwnFile(v)' /\ Loaded(v)' /\ Past(v)'
  <2>1. Entry(v) /\ OwnFile(v) /\ Loaded(v) /\ Past(v)
    BY PlanParts
  <2>2. /\ cfg' = cfg /\ plan' = plan /\ snapFile' = snapFile
        /\ pc'[v] = pc[v] /\ outcome'[v] = outcome[v]
        /\ snapshot'[v] = snapshot[v] /\ seen'[v] = seen[v]
    BY Zenon, <1>2
  <2> QED
    BY Zenon, <2>1, <2>2 DEF Entry, OwnFile, Loaded, Past
<1> QED
  BY Zenon, <1>1, <1>2, PlanPartsNext

\* The same for a step that only moves the worker on, not across its landing and
\* not to an agent that loads.
LEMMA PlanMoves ==
  ASSUME TypeInv, PlanInv, NEW w \in Worker, NEW from, NEW to, Goto(w, from, to),
         UNCHANGED <<cfg, plan, snapFile, snapshot, seen, outcome>>,
         from \in LandedPC <=> to \in LandedPC,
         to \in {"launch", "agent"} => from \in {"launch", "agent"} /\ cfg.acp
  PROVE  PlanInv'
<1>1. /\ pc[w] = from /\ pc'[w] = to
      /\ \A v \in Worker : v # w => pc'[v] = pc[v]
  BY Going
<1>2. Entry(w) /\ OwnFile(w) /\ Past(w)
  BY PlanParts
<1>3. Entry(w)' /\ OwnFile(w)' /\ Loaded(w)' /\ Past(w)'
  BY <1>1, <1>2 DEF Entry, OwnFile, Loaded, Past
<1> QED
  BY <1>1, <1>3, PlanOwn

\* Of the coordinator's steps only Spawn changes anything the plan depends on.
LEMMA PlanCoord == TypeInv /\ PlanInv /\ CoordNext => PlanInv'
<1> SUFFICES ASSUME TypeInv, PlanInv, CoordNext PROVE PlanInv'
  OBVIOUS
<1>1. ASSUME NEW w \in Worker, Spawn(w) PROVE PlanInv'
  <2>1. /\ Goto(w, "unspawned", "start")
        /\ UNCHANGED <<cfg, plan, snapFile, snapshot, seen, outcome>>
    BY Zenon, <1>1 DEF Spawn, fileVars, planVars
  <2>2. "unspawned" \notin LandedPC /\ "start" \notin LandedPC
    BY DEF LandedPC, SentPC
  <2> QED
    BY <2>1, <2>2, PlanMoves
<1>2. CASE \A w \in Worker : ~Spawn(w)
  <2>1. UNCHANGED planView
    BY Zenon, <1>2 DEF CoordNext, Preflight, WorktreesReady, StartCloser, CollectEnds, WritePlan,
       Return, Exit, CreateWorktree, CreateWorktreeFails, Collect, Reconcile,
       ReconcileFails, Teardown, planView, fileVars, workVars, planVars
  <2> QED
    BY <2>1, PlanFrame
<1> QED
  BY <1>1, <1>2

\* An early end of an agent leaves the plan and the snapshots alone.
LEMMA PlanFails ==
  ASSUME TypeInv, PlanInv, NEW w \in Worker,
         NEW from \in {"writesnap", "launch", "agent", "load"}, Fails(w, from)
  PROVE  PlanInv'
<1>1. UNCHANGED <<cfg, plan, snapshot, snapFile, seen>> /\ Goto(w, from, "send")
  BY Zenon DEF Fails, workerStep, coordVars, fileVars, planVars
<1>2. /\ pc[w] = from /\ pc'[w] = "send"
      /\ \A v \in Worker : v # w => pc'[v] = pc[v]
  BY <1>1, Going
<1>3. outcome'[w] = "error" /\ \A v \in Worker : v # w => outcome'[v] = outcome[v]
  BY DEF Fails, TypeInv, TypeOK
<1>4. from \notin LandedPC
  BY DEF LandedPC, SentPC
<1>5. Entry(w) /\ Past(w)
  BY PlanParts
<1>6. Entry(w)' /\ OwnFile(w)' /\ Loaded(w)' /\ Past(w)'
  BY <1>1, <1>2, <1>3, <1>4, <1>5 DEF Entry, OwnFile, Loaded, Past
<1> QED
  BY <1>1, <1>2, <1>3, <1>6, PlanOwn

\* A worker that clones the plan, or starts its agent on the clone.
LEMMA PlanSnapshots ==
  ASSUME UniqueSlugs, TypeInv, PlanInv, NEW w \in Worker
  PROVE  /\ ClonePlan(w) => PlanInv'
         /\ WriteSnapshot(w) => PlanInv'
         /\ CycleBrickLoads(w) => PlanInv'
<1>0. /\ Unlisted
      /\ \A v \in Worker : Entry(v) /\ OwnFile(v) /\ Loaded(v) /\ Past(v)
  BY PlanParts
<1>1. ASSUME ClonePlan(w) PROVE PlanInv'
  <2>1. /\ UNCHANGED <<cfg, plan, snapFile, seen, outcome>>
        /\ Goto(w, "clone", "writesnap")
    BY Zenon, <1>1 DEF ClonePlan, workerStep, coordVars, fileVars, planVars
  <2>2. /\ pc[w] = "clone" /\ pc'[w] = "writesnap"
        /\ \A v \in Worker : v # w => pc'[v] = pc[v]
    BY <2>1, Going
  <2>3. snapshot'[w] = plan /\ \A v \in Worker : v # w => snapshot'[v] = snapshot[v]
    BY <1>1 DEF ClonePlan, TypeInv, TypeOK
  <2>4. Entry(w)' /\ OwnFile(w)' /\ Loaded(w)' /\ Past(w)'
    BY <1>0, <2>1, <2>2, <2>3 DEF Entry, OwnFile, Loaded, Past, LandedPC, SentPC
  <2> QED
    BY <2>1, <2>2, <2>3, <2>4, PlanOwn
<1>2. ASSUME WriteSnapshot(w) PROVE PlanInv'
  <2>1. /\ UNCHANGED <<cfg, plan, snapshot, seen, outcome>>
        /\ Goto(w, "writesnap", "launch")
    BY Zenon, <1>2 DEF WriteSnapshot, workerStep, coordVars, planVars
  <2>2. /\ pc[w] = "writesnap" /\ pc'[w] = "launch"
        /\ \A v \in Worker : v # w => pc'[v] = pc[v]
    BY <2>1, Going
  <2>3. /\ snapFile'[slugOf[w]] = snapshot[w]
        /\ \A v \in Worker : v # w => snapFile'[slugOf[v]] = snapFile[slugOf[v]]
    BY <1>2, DispatchConstants DEF WriteSnapshot, UniqueSlugs, TypeInv, TypeOK
  <2>4. Unlisted'
    BY Zenon, <1>0, <2>1 DEF Unlisted
  <2>5. ASSUME NEW v \in Worker PROVE Entry(v)' /\ OwnFile(v)' /\ Loaded(v)' /\ Past(v)'
    <3>1. CASE v = w
      BY <1>0, <2>1, <2>2, <2>3, <3>1 DEF Entry, OwnFile, Loaded, Past, LandedPC, SentPC
    <3>2. CASE v # w
      <4>1. Entry(v) /\ OwnFile(v) /\ Loaded(v) /\ Past(v)
        BY <1>0
      <4>2. /\ pc'[v] = pc[v] /\ snapFile'[slugOf[v]] = snapFile[slugOf[v]]
            /\ cfg' = cfg /\ plan' = plan /\ snapshot' = snapshot /\ seen' = seen
            /\ outcome' = outcome
        BY Zenon, <2>1, <2>2, <2>3, <3>2
      <4> QED
        BY Zenon, <4>1, <4>2 DEF Entry, OwnFile, Loaded, Past
    <3> QED
      BY <3>1, <3>2
  <2> QED
    BY <2>4, <2>5, PlanPartsNext
<1>3. ASSUME CycleBrickLoads(w) PROVE PlanInv'
  <2>1. /\ UNCHANGED <<cfg, plan, snapFile, snapshot, outcome>>
        /\ Goto(w, "launch", "agent")
    BY Zenon, <1>3 DEF CycleBrickLoads, workerStep, coordVars, fileVars, planVars
  <2>2. /\ pc[w] = "launch" /\ pc'[w] = "agent"
        /\ \A v \in Worker : v # w => pc'[v] = pc[v]
    BY <2>1, Going
  <2>3. /\ seen'[w] = snapFile[slugOf[w]]
        /\ \A v \in Worker : v # w => seen'[v] = seen[v]
    BY <1>3 DEF CycleBrickLoads, TypeInv, TypeOK
  <2>4. Entry(w)' /\ OwnFile(w)' /\ Loaded(w)' /\ Past(w)'
    BY <1>0, <2>1, <2>2, <2>3 DEF Entry, OwnFile, Loaded, Past, LandedPC, SentPC
  <2> QED
    BY <2>1, <2>2, <2>3, <2>4, PlanOwn
<1> QED
  BY <1>1, <1>2, <1>3

\* A worker that loads its result, or lands it in a plan without its entry.
LEMMA PlanLands ==
  ASSUME UniqueSlugs, TypeInv, PlanInv, NEW w \in Worker
  PROVE  /\ LoadResult(w) => PlanInv'
         /\ Land(w) => PlanInv'
<1>0. /\ Unlisted
      /\ \A v \in Worker : Entry(v) /\ OwnFile(v) /\ Loaded(v) /\ Past(v)
  BY PlanParts
<1>1. ASSUME LoadResult(w) PROVE PlanInv'
  <2>1. /\ UNCHANGED <<cfg, plan, snapFile, snapshot, seen>>
        /\ Goto(w, "load", "land")
    BY Zenon, <1>1 DEF LoadResult, workerStep, coordVars, fileVars, planVars
  <2>2. /\ pc[w] = "load" /\ pc'[w] = "land"
        /\ \A v \in Worker : v # w => pc'[v] = pc[v]
    BY <2>1, Going
  <2>3. \A v \in Worker : v # w => outcome'[v] = outcome[v]
    BY <1>1 DEF LoadResult, TypeInv, TypeOK
  <2>4. Entry(w)' /\ OwnFile(w)' /\ Loaded(w)' /\ Past(w)'
    BY <1>0, <2>1, <2>2 DEF Entry, OwnFile, Loaded, Past, LandedPC, SentPC
  <2> QED
    BY <2>1, <2>2, <2>3, <2>4, PlanOwn
<1>2. ASSUME Land(w) PROVE PlanInv'
  <2>1. /\ UNCHANGED <<cfg, snapFile, snapshot, seen, outcome>>
        /\ Goto(w, "land", "send")
    BY Zenon, <1>2 DEF Land, coordVars, fileVars
  <2>2. /\ pc[w] = "land" /\ pc'[w] = "send"
        /\ \A v \in Worker : v # w => pc'[v] = pc[v]
    BY <2>1, Going
  <2>3. outcome[w] \in Status /\ outcome[w] # "error"
    BY <2>2, DispatchConstants DEF TypeInv
  <2>4. plan[slugOf[w]] = "none"
    BY <1>0, <2>2 DEF Entry, LandedPC, SentPC
  <2>5. /\ plan'[slugOf[w]] = outcome[w]
        /\ \A s \in Slug : s # slugOf[w] => plan'[s] = plan[s]
    BY <1>2, DispatchConstants DEF Land, TypeInv, TypeOK, PlanType
  <2>6. \A v \in Worker : slugOf[v] \in Slug /\ (v # w => slugOf[v] # slugOf[w])
    BY DispatchConstants DEF UniqueSlugs
  <2>7. Unlisted'
    BY <1>0, <2>5, <2>6 DEF Unlisted
  <2>8. ASSUME NEW v \in Worker PROVE Entry(v)' /\ OwnFile(v)' /\ Loaded(v)' /\ Past(v)'
    <3>1. Past(v)'
      BY <1>0, <2>1, <2>4, <2>5 DEF Past
    <3>2. CASE v = w
      BY <2>1, <2>2, <2>3, <2>5, <3>1, <3>2 DEF Entry, OwnFile, Loaded, LandedPC
    <3>3. CASE v # w
      <4>1. Entry(v) /\ OwnFile(v) /\ Loaded(v)
        BY <1>0
      <4>2. /\ pc'[v] = pc[v] /\ plan'[slugOf[v]] = plan[slugOf[v]]
            /\ cfg' = cfg /\ snapFile' = snapFile /\ snapshot' = snapshot /\ seen' = seen
            /\ outcome' = outcome
        BY Zenon, <2>1, <2>2, <2>5, <2>6, <3>3
      <4>3. Entry(v)' /\ OwnFile(v)' /\ Loaded(v)'
        BY Zenon, <4>1, <4>2 DEF Entry, OwnFile, Loaded
      <4> QED
        BY <3>1, <4>3
    <3> QED
      BY <3>2, <3>3
  <2> QED
    BY <2>7, <2>8, PlanPartsNext
<1> QED
  BY <1>1, <1>2

\* A worker's step adds at most its own entry to the plan, and its snapshot is a
\* copy of what the plan holds.
LEMMA PlanWorker ==
  ASSUME UniqueSlugs, TypeInv, PlanInv, NEW w \in Worker, WorkerNext(w)
  PROVE  PlanInv'
<1> DEFINE Moves(from, to) ==
             /\ Goto(w, from, to)
             /\ UNCHANGED <<cfg, plan, snapFile, snapshot, seen, outcome>>
<1>1. /\ Acquire(w) => Moves("start", "clone")
      /\ CycleBrickReports(w) => Moves("agent", "load")
      /\ ACPLaunch(w) => Moves("launch", "agent") /\ cfg.acp
      /\ ACPReports(w) => Moves("agent", "load")
      /\ Send(w) => Moves("send", "release")
      /\ Release(w) => Moves("release", "wgdone")
      /\ WgDone(w) => Moves("wgdone", "gone")
  BY Zenon DEF Acquire, CycleBrickReports, ACPLaunch, ACPReports, Send, Release, WgDone,
     workerStep, coordVars, fileVars, planVars
<1>2. /\ {"start", "clone", "agent", "load", "launch"} \cap LandedPC = {}
      /\ {"send", "release", "wgdone", "gone"} \subseteq LandedPC
  BY DEF LandedPC, SentPC
<1>3. /\ Moves("start", "clone") => PlanInv'
      /\ Moves("agent", "load") => PlanInv'
      /\ Moves("launch", "agent") /\ cfg.acp => PlanInv'
      /\ Moves("send", "release") => PlanInv'
      /\ Moves("release", "wgdone") => PlanInv'
      /\ Moves("wgdone", "gone") => PlanInv'
  BY <1>2, PlanMoves
<1>4. WriteSnapshotFails(w) \/ CycleBrickFails(w) \/ ACPFails(w) \/ LoadResultFails(w) => PlanInv'
  BY Zenon, PlanFails DEF WriteSnapshotFails, CycleBrickFails, ACPFails, LoadResultFails
<1> QED
  BY Zenon, <1>1, <1>3, <1>4, PlanSnapshots, PlanLands DEF WorkerNext

\* The inductive core of the argument about the plan.
THEOREM PlanCorrect ==
  ASSUME UniqueSlugs
  PROVE  Spec => [](TypeInv /\ SyncInv /\ VerdictInv /\ PlanInv)
<1>1. Init => PlanInv
  BY PlanInit
<1>2. TypeInv /\ PlanInv /\ [Next]_vars => PlanInv'
  BY UniqueSlugs, PlanCoord, PlanWorker, PlanFrame
  DEF Next, Terminated, Close, vars, coordVars, fileVars, workVars, planVars, planView
<1> QED
  BY VerdictCorrect, <1>1, <1>2, PTL DEF Spec

\* For every list that names no slug twice: the plan Run writes holds a brick
\* exactly when its worker succeeded, with the status the collector counted.
THEOREM FinalPlanMatches == ASSUME UniqueSlugs PROVE Spec => []PlanMatchesOutcomes
<1>1. TypeInv /\ SyncInv /\ PlanInv => PlanMatchesOutcomes
  <2> SUFFICES ASSUME TypeInv, SyncInv, PlanInv, closerUp, phase \in AfterCollect,
                      NEW w \in Worker
               PROVE  plan[slugOf[w]] = IF outcome[w] = "error" THEN "none" ELSE outcome[w]
    BY Zenon DEF PlanMatchesOutcomes
  <2>1. pc[w] \in LandedPC
    BY DEF TypeInv, TypeOK, SyncInv, SentPC, LandedPC
  <2> QED
    BY Zenon, <2>1 DEF PlanInv
<1> QED
  BY UniqueSlugs, PlanCorrect, <1>1, PTL

\* For every list that names no slug twice: the snapshot an agent loads is the
\* one its own worker took, and the running plan never departs from it.
THEOREM SnapshotsStayTrue == ASSUME UniqueSlugs PROVE Spec => []SnapshotIsPast
<1>1. PlanInv => SnapshotIsPast
  BY DEF PlanInv
<1> QED
  BY UniqueSlugs, PlanCorrect, <1>1, PTL

\* Only Land writes the plan.
LEMMA PlanStep ==
  ASSUME UniqueSlugs, TypeInv, PlanInv, [Next]_vars
  PROVE  \A s \in Slug : plan[s] # "none" => plan'[s] = plan[s]
<1>1. ASSUME NEW w \in Worker, Land(w) PROVE \A s \in Slug : plan[s] # "none" => plan'[s] = plan[s]
  <2>1. pc[w] = "land"
    BY <1>1, Going DEF Land
  <2>2. plan[slugOf[w]] = "none"
    BY <2>1, PlanParts DEF Entry, LandedPC, SentPC
  <2>3. plan \in PlanType
    BY Zenon DEF TypeInv, TypeOK
  <2>4. plan' = [plan EXCEPT ![slugOf[w]] = outcome[w]]
    BY Zenon, <1>1 DEF Land
  <2> QED
    BY <2>2, <2>3, <2>4 DEF PlanType
<1>2. ASSUME \A w \in Worker : ~Land(w) PROVE plan' = plan
  <2>1. CASE CoordNext
    BY Zenon, <2>1 DEF CoordNext, Preflight, WorktreesReady, StartCloser, CollectEnds, WritePlan,
       Return, Exit, CreateWorktree, CreateWorktreeFails, Spawn, Collect, Reconcile,
       ReconcileFails, Teardown, planVars
  <2>2. ASSUME NEW w \in Worker, WorkerNext(w) PROVE plan' = plan
    BY Zenon, <1>2, <2>2 DEF WorkerNext, Acquire, ClonePlan, WriteSnapshot, WriteSnapshotFails,
       CycleBrickLoads, CycleBrickReports, CycleBrickFails, ACPLaunch, ACPReports,
       ACPFails, LoadResult, LoadResultFails, Send, Release, WgDone, Fails, workerStep,
       planVars
  <2> QED
    BY <2>1, <2>2 DEF Next, Terminated, Close, vars, planVars
<1> QED
  BY <1>1, <1>2

\* For every list that names no slug twice: no step reverses a landed result.
THEOREM PlanIsMonotone == ASSUME UniqueSlugs PROVE Spec => PlanMonotone
<1>1. TypeInv /\ PlanInv /\ [Next]_vars
        => [\A s \in Slug : plan[s] # "none" => plan'[s] = plan[s]]_vars
  BY UniqueSlugs, PlanStep
<1> QED
  BY UniqueSlugs, PlanCorrect, <1>1, PTL DEF Spec, PlanMonotone

-----------------------------------------------------------------------------
(* Run implements its promise (the safety half: the verdict's liveness is  *)
(* checked by TLC).                                                        *)

\* The outcomes of collected workers are final.
LEMMA SettledFrame ==
  ASSUME TypeInv, SyncInv, NEW w \in Worker, WorkerNext(w)
  PROVE  \A v \in collected : outcome'[v] = outcome[v]
<1>1. \A v \in collected : pc[v] \in SentPC
  BY DEF SyncInv
<1> QED
  BY Zenon, <1>1 DEF TypeInv, TypeOK, SentPC, WorkerNext, Acquire, ClonePlan, WriteSnapshot,
     WriteSnapshotFails, CycleBrickLoads, CycleBrickReports, CycleBrickFails, ACPLaunch,
     ACPReports, ACPFails, LoadResult, LoadResultFails, Land, Send, Release, WgDone,
     Fails, Goto, workerStep, planVars

\* Every step of the coordinator is a step of the promise or a stutter.
LEMMA PromiseStep ==
  ASSUME TypeInv, SyncInv, VerdictInv, [Next]_vars
  PROVE  [Promise!PNext]_(Promise!pvars)
<1> DEFINE settled == [w \in Worker |-> IF w \in collected THEN outcome[w] ELSE "pending"]
           verdict == IF phase \in {"returned", "exited"} THEN code ELSE -1
<1> USE DEF Promise!pvars
<1>0. ASSUME UNCHANGED <<collected, mergeErr>>, \A v \in collected : outcome'[v] = outcome[v]
      PROVE  settled' = settled /\ (~mergeErr)' = ~mergeErr
  BY <1>0 DEF TypeInv, TypeOK
<1>1. closerUp /\ phase \in AfterCollect =>
        /\ collected = Worker
        /\ Promise!AllSettled
  <2> SUFFICES ASSUME closerUp, phase \in AfterCollect
               PROVE  collected = Worker /\ Promise!AllSettled
    OBVIOUS
  <2>1. collected = Worker /\ \A w \in Worker : pc[w] \in SentPC
    BY Zenon DEF TypeInv, TypeOK, SyncInv, SentPC
  <2>2. \A w \in Worker : outcome[w] \in Outcome
    BY Zenon, <2>1 DEF VerdictInv
  <2>3. "pending" \notin Outcome
    BY DispatchConstants DEF Outcome
  <2> QED
    BY <2>1, <2>2, <2>3 DEF Promise!AllSettled
<1>2. ASSUME NEW w \in Worker, Collect(w) PROVE Promise!Settle(w)
  <2>1. w \notin collected /\ outcome[w] \in Outcome /\ collected \subseteq Worker
    BY <1>2 DEF Collect, TypeInv, TypeOK, SyncInv, VerdictInv, SentPC
  <2>2. settled' = [settled EXCEPT ![w] = outcome[w]]
    BY Zenon, <1>2, <2>1 DEF Collect, workVars
  <2> QED
    BY Zenon, <1>2, <2>1, <2>2 DEF Collect, Promise!Settle
<1>3. ASSUME NEW s \in Slug, ReconcileFails(s) PROVE Promise!MergeFails
  <2>1. closerUp /\ phase \in AfterCollect
    BY <1>3 DEF ReconcileFails, SyncInv, AfterCollect
  <2> QED
    BY <1>1, <1>3, <2>1 DEF ReconcileFails, workVars, Promise!MergeFails
<1>4. CASE Return
  <2>1. code \in 0..2 /\ verdict = -1 /\ verdict' = code /\ UNCHANGED <<settled, ~mergeErr>>
    BY <1>4 DEF Return, VerdictInv, workVars
  <2>2. CASE code = 2
    BY <2>1, <2>2 DEF Promise!GiveUp, Promise!PNext
  <2>3. CASE code \in {0, 1}
    <3>1. closerUp /\ phase \in AfterCollect
      <4>1. phase \in AfterCollect
        BY <1>4 DEF Return, AfterCollect
      <4>2. ~closerUp /\ phase \in AfterCollect => code = 2
        BY Zenon DEF VerdictInv
      <4> QED
        BY <2>3, <4>1, <4>2, SMT
    <3>2. code = IF ~mergeErr /\ \A w \in Worker : settled[w] = "idempotent" THEN 0 ELSE 1
      BY <1>1, <1>4, <2>3, <3>1 DEF Return, VerdictInv
    <3> QED
      BY <1>1, <2>1, <3>1, <3>2 DEF Promise!Conclude, Promise!PNext
  <2>4. code = 2 \/ code \in {0, 1}
    <3>1. code \in 0..2
      BY <2>1
    <3> QED
      BY <3>1, SMT
  <2> QED
    BY <2>2, <2>3, <2>4
<1>5. CASE Preflight
  <2>1. CASE code' = 2 /\ phase' = "returned"
    BY <1>5, <2>1 DEF Preflight, workVars, Promise!GiveUp, Promise!PNext
  <2>2. CASE phase' # "returned"
    BY <1>5, <2>2 DEF Preflight, workVars
  <2> QED
    BY <1>5, <2>1, <2>2 DEF Preflight
<1>6. ASSUME NEW w \in Worker, WorkerNext(w) PROVE UNCHANGED Promise!pvars
  BY Zenon, <1>0, <1>6, SettledFrame, WorkerFrame DEF coordVars
<1>7. ASSUME WorktreesReady \/ StartCloser \/ CollectEnds \/ WritePlan \/ Exit
             \/ (\E w \in Worker : CreateWorktree(w) \/ CreateWorktreeFails(w) \/ Spawn(w))
             \/ (\E s \in Slug : Reconcile(s) \/ Teardown(s))
             \/ Close \/ UNCHANGED vars
      PROVE  UNCHANGED Promise!pvars
  <2>1. UNCHANGED <<collected, mergeErr, outcome>>
    BY Zenon, <1>7 DEF WorktreesReady, StartCloser, CollectEnds, WritePlan, Exit,
       CreateWorktree, CreateWorktreeFails, Spawn, Reconcile, Teardown, Close, vars,
       coordVars, workVars
  <2>2. verdict' = verdict
    BY Zenon, <1>7 DEF WorktreesReady, StartCloser, CollectEnds, WritePlan, Exit,
       CreateWorktree, CreateWorktreeFails, Spawn, Reconcile, Teardown, Close, vars,
       coordVars
  <2> QED
    BY <1>0, <2>1, <2>2
<1> QED
  BY Zenon, <1>2, <1>3, <1>4, <1>5, <1>6, <1>7 DEF Next, CoordNext, Terminated, Promise!PNext

\* For every brick list: each step of a round is a step of DispatchPromise or
\* leaves it alone (an entry settles once, one verdict, 0 only if all is well).
THEOREM KeepsPromiseSafety == Spec => PromiseSafety
<1>1. Init => Promise!PInit
  BY DEF Init, Promise!PInit
<1>2. TypeInv /\ SyncInv /\ VerdictInv /\ [Next]_vars => [Promise!PNext]_(Promise!pvars)
  BY PromiseStep
<1> QED
  BY VerdictCorrect, <1>1, <1>2, PTL DEF Spec, PromiseSafety
=============================================================================
