--------------------------- MODULE LaneReconcile ----------------------------
(***************************************************************************)
(* What a `defn dispatch --worktree` round does to the repository once the *)
(* agents have worked: autoCommitWorktree (lib/dispatch/agent.go), the     *)
(* reconcile loop of Run and reconcileLane (lib/dispatch/dispatch.go),     *)
(* LaneDiff, LanePartition, WriteSidecarPatch and MergeAndRevert           *)
(* (coordmerge.go), MergeWorktree and RemoveWorktree (worktree.go).        *)
(*                                                                         *)
(* A tree gives every path its content.  git is external: a merge is the   *)
(* three-way merge with the commit the worktrees were forked from as base  *)
(* (a branch that was merged before does not move that base), a conflict   *)
(* leaves the checkout in the middle of the merge, and any further merge   *)
(* there is refused.  What a merge does about a file that one side moved   *)
(* and the other changed depends on how git matches the two, and is left   *)
(* out: no agent changes a file that another one moves.                    *)
(***************************************************************************)
EXTENDS Integers, Sequences, FiniteSets

CONSTANTS
  Path,        \* the repository's paths
  Content,     \* file contents, Absent included when files come and go
  Absent,      \* the content of a path that is not there
  Base,        \* the tree of the fork-point commit
  Agent,       \* slugs with a worktree
  Order,       \* the slugs as sort.Strings(mergeKeys) leaves them
  Repos        \* the repositories a round may be run in (see RepoType)

Tree == [Path -> Content]

\* lane: the paths under each agent's brickPath; outside: the paths outside the
\* workspace, which --relative leaves out; faulty: may a git command or a file
\* write fail for reasons outside the model?
RepoType == [lane : [Agent -> SUBSET Path], outside : SUBSET Path, faulty : BOOLEAN]

ASSUME LaneConstants ==
  /\ Base \in Tree
  /\ Order \in Seq(Agent)
  /\ \A i, j \in 1..Len(Order) : Order[i] = Order[j] => i = j
  /\ \A a \in Agent : \E i \in 1..Len(Order) : Order[i] = a
  /\ Repos \subseteq RepoType
  /\ \A r \in Repos : \A a \in Agent : r.lane[a] \cap r.outside = {}

VARIABLES
  repo,       \* the repository of this round
  phase,      \* "agents", "reconcile", "teardown", "done" or "crashed"
  turn,       \* index in Order of the agent being reconciled
  step,       \* where reconcileLane is
  work,       \* the files of each agent's worktree
  tip,        \* the tree of each agent branch's last commit
  waiting,    \* agents that have not finished
  head,       \* the tree of the coordinator's HEAD
  midMerge,   \* agents whose conflicted merge the coordinator's checkout holds
  sidecar,    \* the paths each agent's out-of-lane patch holds
  branches,   \* agents whose branch and worktree exist
  mergeWT,    \* state of each agent's merge worktree
  mergeTree,  \* the tree of each merge worktree's branch
  failures    \* agents whose reconcileLane returned an error

agentVars == <<work, tip, waiting>>
repoVars == <<head, midMerge, sidecar, branches, mergeWT, mergeTree>>
loopVars == <<phase, turn, step, failures>>
vars == <<repo, agentVars, repoVars, loopVars>>

Steps == {"diff", "sidecar", "merge", "addwt", "revert", "mergeback", "removewt"}
MergeWTState == {"none", "open", "conflict", "unpruned", "pruned"}

Init ==
  /\ repo \in Repos
  /\ phase = "agents" /\ turn = 1 /\ step = "diff"
  /\ work = [a \in Agent |-> Base] /\ tip = [a \in Agent |-> Base]
  /\ waiting = Agent
  /\ head = Base /\ midMerge = {}
  /\ sidecar = [a \in Agent |-> {}]
  /\ branches = Agent
  /\ mergeWT = [a \in Agent |-> "none"]
  /\ mergeTree = [a \in Agent |-> Base]
  /\ failures = {}

-----------------------------------------------------------------------------
(* git, as reconcileLane uses it.                                          *)

Changed(tree) == {p \in Path : tree[p] # Base[p]}

\* Paths whose deletion git reports under the name they were moved to.
RenamedFrom(tree) ==
  {p \in Path : /\ tree[p] = Absent /\ Base[p] # Absent
                /\ \E q \in Path : Base[q] = Absent /\ tree[q] = Base[p]}

Conflicts(ours, theirs) ==
  {p \in Changed(ours) \cap Changed(theirs) : ours[p] # theirs[p]}

Merge3(ours, theirs) ==
  [p \in Path |-> IF p \in Changed(theirs) THEN theirs[p] ELSE ours[p]]

\* Restoring from HEAD is done in the merge worktree's top directory with paths
\* relative to the workspace: it only finds them where the two are the same.
WorkspaceIsToplevel == repo.outside = {}

-----------------------------------------------------------------------------
(* The agents.                                                             *)

\* No file that t or an agent's commit moves is changed by the other of the two.
MovesApart(a, t) ==
  \A b \in Agent \ {a} : /\ RenamedFrom(t) \cap Changed(tip[b]) = {}
                         /\ Changed(t) \cap RenamedFrom(tip[b]) = {}

\* runAgentACP succeeds and autoCommitWorktree commits whatever the agent did.
AgentCommits(a) ==
  /\ phase = "agents" /\ a \in waiting
  /\ \E t \in Tree :
       /\ MovesApart(a, t)
       /\ work' = [work EXCEPT ![a] = t] /\ tip' = [tip EXCEPT ![a] = t]
  /\ waiting' = waiting \ {a}
  /\ UNCHANGED <<repo, repoVars, loopVars>>

\* The prompt or the commit fails after the agent has edited files: nothing is
\* committed.
AgentFails(a) ==
  /\ phase = "agents" /\ a \in waiting
  /\ \E t \in Tree : work' = [work EXCEPT ![a] = t]
  /\ waiting' = waiting \ {a}
  /\ UNCHANGED <<repo, tip, repoVars, loopVars>>

\* Every outcome is collected: the reconcile loop begins.
BeginReconcile ==
  /\ phase = "agents" /\ waiting = {}
  /\ phase' = "reconcile"
  /\ UNCHANGED <<repo, agentVars, repoVars, turn, step, failures>>

-----------------------------------------------------------------------------
(* reconcileLane, for the agent whose turn it is.                          *)

Cur == Order[turn]
At(st) == phase = "reconcile" /\ turn <= Len(Order) /\ step = st

\* LaneDiff: what git names of base..branch below the workspace.
LaneDiff(a) == (Changed(tip[a]) \ RenamedFrom(tip[a])) \ repo.outside

\* LanePartition.
InLane(a) == LaneDiff(a) \cap repo.lane[a]

OutOfLane(a) == LaneDiff(a) \ InLane(a)

\* The loop goes on with the next slug, or is over.
NextTurn == turn' = turn + 1 /\ step' = "diff"

\* The diff is partitioned.
Partition ==
  /\ At("diff")
  /\ \/ LaneDiff(Cur) = {} /\ NextTurn
     \/ OutOfLane(Cur) # {} /\ step' = "sidecar" /\ UNCHANGED turn
     \/ /\ LaneDiff(Cur) # {} /\ OutOfLane(Cur) = {}
        /\ step' = "merge" /\ UNCHANGED turn
  /\ UNCHANGED <<repo, agentVars, repoVars, phase, failures>>

\* Mutated form: no patch when there is something to merge.
MutWriteSidecar ==
  /\ At("sidecar")
  /\ sidecar' = IF InLane(Cur) = {} THEN [sidecar EXCEPT ![Cur] = OutOfLane(Cur)]
                ELSE sidecar
  /\ IF InLane(Cur) = {} THEN NextTurn ELSE step' = "addwt" /\ UNCHANGED turn
  /\ UNCHANGED <<repo, agentVars, head, midMerge, branches, mergeWT, mergeTree, phase,
                 failures>>

\* WriteSidecarPatch; an agent with nothing in its lane is done.
WriteSidecar ==
  /\ At("sidecar")
  /\ sidecar' = [sidecar EXCEPT ![Cur] = OutOfLane(Cur)]
  /\ IF InLane(Cur) = {} THEN NextTurn ELSE step' = "addwt" /\ UNCHANGED turn
  /\ UNCHANGED <<repo, agentVars, head, midMerge, branches, mergeWT, mergeTree, phase,
                 failures>>

\* MergeWorktree of the agent branch: the merge goes through, ...
MergeDirect ==
  /\ At("merge")
  /\ midMerge = {} /\ Conflicts(head, tip[Cur]) = {}
  /\ head' = Merge3(head, tip[Cur])
  /\ NextTurn
  /\ UNCHANGED <<repo, agentVars, midMerge, sidecar, branches, mergeWT, mergeTree, phase,
                 failures>>

\* Mutated form: git does not refuse a merge during a merge.
MutMergeDirectFails ==
  /\ At("merge")
  /\ Conflicts(head, tip[Cur]) # {}
  /\ midMerge' = midMerge \cup {Cur}
  /\ failures' = failures \cup {Cur}
  /\ NextTurn
  /\ UNCHANGED <<repo, agentVars, head, sidecar, branches, mergeWT, mergeTree, phase>>

\* ... conflicts and is left as it is, or is refused because of an earlier one.
MergeDirectFails ==
  /\ At("merge")
  /\ \/ midMerge # {} /\ UNCHANGED midMerge
     \/ midMerge = {} /\ Conflicts(head, tip[Cur]) # {} /\ midMerge' = {Cur}
  /\ failures' = failures \cup {Cur}
  /\ NextTurn
  /\ UNCHANGED <<repo, agentVars, head, sidecar, branches, mergeWT, mergeTree, phase>>

\* CreateMergeWorktree at the coordinator's HEAD.
AddMergeWorktree ==
  /\ At("addwt")
  /\ mergeWT' = [mergeWT EXCEPT ![Cur] = "open"]
  /\ mergeTree' = [mergeTree EXCEPT ![Cur] = head]
  /\ step' = "revert"
  /\ UNCHANGED <<repo, agentVars, head, midMerge, sidecar, branches, phase, turn, failures>>

\* Mutated form: the out-of-lane paths are restored from the fork point.
MutRevert ==
  /\ At("revert")
  /\ Conflicts(mergeTree[Cur], tip[Cur]) = {} /\ WorkspaceIsToplevel
  /\ mergeTree' = [mergeTree EXCEPT ![Cur] =
       [p \in Path |-> IF p \in OutOfLane(Cur) THEN Base[p]
                       ELSE Merge3(mergeTree[Cur], tip[Cur])[p]]]
  /\ mergeWT' = [mergeWT EXCEPT ![Cur] = "pruned"]
  /\ step' = "mergeback"
  /\ UNCHANGED <<repo, agentVars, head, midMerge, sidecar, branches, phase, turn, failures>>

\* Mutated form: nothing is restored before the commit.
MutKeepAll ==
  /\ At("revert")
  /\ Conflicts(mergeTree[Cur], tip[Cur]) = {}
  /\ mergeTree' = [mergeTree EXCEPT ![Cur] = Merge3(mergeTree[Cur], tip[Cur])]
  /\ mergeWT' = [mergeWT EXCEPT ![Cur] = "pruned"]
  /\ step' = "mergeback"
  /\ UNCHANGED <<repo, agentVars, head, midMerge, sidecar, branches, phase, turn, failures>>

\* MergeAndRevert: merge without committing, restore the out-of-lane paths from
\* HEAD, commit.
Revert ==
  /\ At("revert")
  /\ Conflicts(mergeTree[Cur], tip[Cur]) = {} /\ WorkspaceIsToplevel
  /\ mergeTree' = [mergeTree EXCEPT ![Cur] =
       [p \in Path |-> IF p \in OutOfLane(Cur) THEN mergeTree[Cur][p]
                       ELSE Merge3(mergeTree[Cur], tip[Cur])[p]]]
  /\ mergeWT' = [mergeWT EXCEPT ![Cur] = "pruned"]
  /\ step' = "mergeback"
  /\ UNCHANGED <<repo, agentVars, head, midMerge, sidecar, branches, phase, turn, failures>>

\* Mutated form: the merge worktree is removed on failure as well.
MutRevertFails ==
  /\ At("revert")
  /\ Conflicts(mergeTree[Cur], tip[Cur]) # {} \/ ~WorkspaceIsToplevel
  /\ mergeWT' = [mergeWT EXCEPT ![Cur] = "none"]
  /\ failures' = failures \cup {Cur}
  /\ NextTurn
  /\ UNCHANGED <<repo, agentVars, head, midMerge, sidecar, branches, mergeTree, phase>>

\* The merge conflicts, or the restore does not find its paths; the merge
\* worktree is retained.
RevertFails ==
  /\ At("revert")
  /\ \/ /\ Conflicts(mergeTree[Cur], tip[Cur]) # {}
        /\ mergeWT' = [mergeWT EXCEPT ![Cur] = "conflict"]
     \/ /\ Conflicts(mergeTree[Cur], tip[Cur]) = {} /\ ~WorkspaceIsToplevel
        /\ mergeWT' = [mergeWT EXCEPT ![Cur] = "unpruned"]
  /\ failures' = failures \cup {Cur}
  /\ NextTurn
  /\ UNCHANGED <<repo, agentVars, head, midMerge, sidecar, branches, mergeTree, phase>>

\* MergeWorktree of the pruned branch: HEAD is its first parent, so the result
\* is its tree.
MergeBack ==
  /\ At("mergeback") /\ midMerge = {}
  /\ head' = mergeTree[Cur]
  /\ step' = "removewt"
  /\ UNCHANGED <<repo, agentVars, midMerge, sidecar, branches, mergeWT, mergeTree, phase, turn,
                 failures>>

\* The coordinator's checkout is in the middle of a merge: the merge is refused.
MergeBackFails ==
  /\ At("mergeback") /\ midMerge # {}
  /\ failures' = failures \cup {Cur}
  /\ NextTurn
  /\ UNCHANGED <<repo, agentVars, repoVars, phase>>

\* RemoveWorktree of the merge worktree and its branch.
RemoveMergeWorktree ==
  /\ At("removewt")
  /\ mergeWT' = [mergeWT EXCEPT ![Cur] = "none"]
  /\ NextTurn
  /\ UNCHANGED <<repo, agentVars, head, midMerge, sidecar, branches, mergeTree, phase, failures>>

\* A git command or the write of the patch fails for a reason outside the model:
\* reconcileLane returns the error and leaves everything as it is.
GitFails ==
  /\ repo.faulty
  /\ phase = "reconcile" /\ turn <= Len(Order) /\ step # "removewt"
  /\ failures' = failures \cup {Cur}
  /\ NextTurn
  /\ UNCHANGED <<repo, agentVars, repoVars, phase>>

ReconcileLane ==
  \/ Partition \/ WriteSidecar \/ MergeDirect \/ MergeDirectFails
  \/ AddMergeWorktree \/ Revert \/ RevertFails
  \/ MergeBack \/ MergeBackFails \/ RemoveMergeWorktree

-----------------------------------------------------------------------------
(* The end of the round.                                                   *)

\* Run returns, and its deferred cleanup begins.
EndReconcile ==
  /\ phase = "reconcile" /\ turn = Len(Order) + 1
  /\ phase' = "teardown"
  /\ UNCHANGED <<repo, agentVars, repoVars, turn, step, failures>>

\* RemoveWorktree of an agent, in the order of the map: the directory is removed
\* by force and the branch is deleted, whatever became of the merge.
RemoveWorktree(a) ==
  /\ phase = "teardown" /\ a \in branches
  /\ branches' = branches \ {a}
  /\ UNCHANGED <<repo, agentVars, head, midMerge, sidecar, mergeWT, mergeTree, loopVars>>

Finish ==
  /\ phase = "teardown" /\ branches = {}
  /\ phase' = "done"
  /\ UNCHANGED <<repo, agentVars, repoVars, turn, step, failures>>

\* The process dies.  Nothing of the round is resumed, and nothing cleaned up.
Crash ==
  /\ phase \notin {"done", "crashed"}
  /\ phase' = "crashed"
  /\ UNCHANGED <<repo, agentVars, repoVars, turn, step, failures>>

Over == phase \in {"done", "crashed"} /\ UNCHANGED vars

Next ==
  \/ \E a \in Agent : AgentCommits(a) \/ AgentFails(a) \/ RemoveWorktree(a)
  \/ BeginReconcile \/ ReconcileLane \/ GitFails \/ EndReconcile \/ Finish
  \/ Crash \/ Over

Spec == Init /\ [][Next]_vars

-----------------------------------------------------------------------------
(* Properties.                                                             *)

TypeOK ==
  /\ repo \in Repos
  /\ phase \in {"agents", "reconcile", "teardown", "done", "crashed"}
  /\ turn \in 1..(Len(Order) + 1) /\ step \in Steps
  /\ work \in [Agent -> Tree] /\ tip \in [Agent -> Tree] /\ waiting \subseteq Agent
  /\ head \in Tree
  /\ midMerge \subseteq Agent /\ \A a, b \in midMerge : a = b
  /\ sidecar \in [Agent -> SUBSET Path]
  /\ branches \subseteq Agent
  /\ mergeWT \in [Agent -> MergeWTState] /\ mergeTree \in [Agent -> Tree]
  /\ failures \subseteq Agent

DisjointLanes ==
  \A a, b \in Agent : a # b => repo.lane[a] \cap repo.lane[b] = {}

\* Nothing that LaneDiff shows to be out of lane ever reaches the coordinator's
\* branch: a path of HEAD that differs from the fork point holds what some agent
\* committed, in its own lane or where LaneDiff does not look (outside the
\* workspace, or the source of a rename).
SeenSpillageNeverLands ==
  \A p \in Changed(head) :
    \E a \in Agent : head[p] = tip[a][p] /\ p \notin OutOfLane(a)

\* Where an edit that an agent committed can still be found: on HEAD, in its
\* patch, on its branch, in a retained merge worktree, or in the conflicted
\* merge of the coordinator's checkout.
Kept(a, p) ==
  \/ head[p] = tip[a][p] \/ p \in sidecar[a] \/ a \in branches
  \/ mergeWT[a] \in {"conflict", "unpruned", "pruned"} \/ a \in midMerge

\* No agent changes a path outside the workspace, where LaneDiff does not look.
StaysInside == \A a \in Agent : Changed(tip[a]) \cap repo.outside = {}

\* No edit that LaneDiff shows is lost, wherever the process dies and although
\* the teardown deletes every agent branch by force, unless a command fails for
\* outside reasons or a conflict leaves the coordinator's checkout in the middle
\* of a merge; that does not happen to agents with disjoint lanes that stay in
\* the workspace.
DisjointLanesLoseNothing ==
  ~repo.faulty /\ (midMerge # {} => DisjointLanes /\ StaysInside) =>
    \A a \in Agent : \A p \in LaneDiff(a) : Kept(a, p)

\* reconcileLane returns without an error only when all of the agent's in-lane
\* edits are on HEAD and all of its out-of-lane edits are in its patch.
SuccessMeansSettled ==
  phase \in {"teardown", "done"} =>
    \A a \in Agent \ failures :
      /\ \A p \in InLane(a) : head[p] = tip[a][p]
      /\ OutOfLane(a) \subseteq sidecar[a]

\* Sequential merges accumulate ("each wave sees prior waves"): no later merge
\* or restore takes back what an earlier one brought onto HEAD.
HeadAccumulates ==
  [][\A p \in Changed(head) : head'[p] = head[p]]_vars

-----------------------------------------------------------------------------
(* What comments of the code say and the code does not do.                 *)

\* "out-of-lane spillage never lands on the coord branch": every path of HEAD
\* that differs from the fork point was committed by an agent in its own lane.
SpillageNeverLands ==
  \A p \in Changed(head) : \E a \in Agent : p \in repo.lane[a] /\ head[p] = tip[a][p]
=============================================================================
