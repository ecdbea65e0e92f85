---------------------------- MODULE DispatchInv -----------------------------
(***************************************************************************)
(* The inductive invariants behind the safety properties of Dispatch, in   *)
(* five layers.  Each layer is preserved by every step given the layers    *)
(* before it; DispatchProofs proves it, MCDispatch checks it first.        *)
(***************************************************************************)
EXTENDS Dispatch

\* Types: TypeOK alone is not inductive, because Land copies outcome[w] into a
\* plan that has no room for "error"; only a loaded status ever reaches Land.
TypeInv ==
  /\ TypeOK
  /\ \A w \in Worker : pc[w] = "land" => outcome[w] \in Status

\* Synchronisation: who holds a slot, whom the WaitGroup counts, and how far
\* the channel, the closer and the collector can be ahead of the workers.
SentPC == {"release", "wgdone", "gone"}
SyncInv ==
  /\ sem = InFlight
  /\ Cardinality(sem) <= Parallel
  /\ wg = {w \in Worker : pc[w] \notin {"unspawned", "gone"}}
  /\ phase \in {"preflight", "worktrees"} => \A w \in Worker : pc[w] = "unspawned"
  /\ phase = "spawn" => pending = {w \in Worker : pc[w] = "unspawned"}
  /\ phase = "preflight" => pending = Worker
  /\ closerUp => \A w \in Worker : pc[w] # "unspawned"
  /\ closerUp => phase \in {"collect"} \cup AfterCollect
  /\ phase \in {"collect", "reconcile"} => closerUp
  /\ closed => closerUp /\ wg = {}
  /\ results \cap collected = {}
  /\ results \cup collected = {w \in Worker : pc[w] \in SentPC}
  /\ closerUp /\ phase \in AfterCollect => closed /\ results = {}

\* Verdict: what an outcome can be at each point, and what the flags and the
\* exit code remember of the outcomes already collected.
VerdictInv ==
  /\ \A w \in Worker : pc[w] \in {"send"} \cup SentPC => outcome[w] \in Outcome
  /\ failed <=> mergeErr \/ \E w \in collected : outcome[w] # "idempotent"
  /\ mergeErr => closerUp /\ phase \in AfterCollect
  /\ ~closerUp /\ phase \in AfterCollect => code = 2
  /\ phase \in {"teardown", "returned", "exited"} => code \in 0..2
  /\ phase \in {"teardown", "returned", "exited"} /\ code = 0 => ~failed
  /\ phase \in {"teardown", "returned", "exited"} /\ code = 1 => failed

\* Teardown: every created worktree has been removed or is still to be.
TornInv ==
  /\ phase = "preflight" => worktrees = {}
  /\ phase \notin {"teardown", "returned", "exited"} => torn = {}
  /\ phase = "teardown" => torn \cup todo = worktrees
  /\ phase \in {"returned", "exited"} => torn = worktrees

\* Plan (for a list that names no slug twice): the entry of a slug is exactly
\* what its one worker has landed, and the snapshot file of a slug is exactly
\* what its one worker has cloned.
LandedPC == {"send"} \cup SentPC
PlanInv ==
  /\ \A s \in Slug : (\A w \in Worker : slugOf[w] # s) => plan[s] = "none"
  /\ \A w \in Worker :
       plan[slugOf[w]] = IF pc[w] \in LandedPC /\ outcome[w] # "error"
                         THEN outcome[w] ELSE "none"
  /\ \A w \in Worker :
       pc[w] \in {"launch", "agent"} => snapFile[slugOf[w]] = snapshot[w]
  /\ SnapshotIsPast

IInv == TypeInv /\ SyncInv /\ VerdictInv /\ TornInv /\ PlanInv
=============================================================================
