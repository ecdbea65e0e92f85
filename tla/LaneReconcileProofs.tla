------------------------ MODULE LaneReconcileProofs -------------------------
(***************************************************************************)
(* Proofs, for any repository, any agents and whatever they commit, of the *)
(* properties of the reconcile loop: nothing LaneDiff shows to be out of   *)
(* lane lands, merges accumulate, success means settled, and nothing is    *)
(* lost short of a conflict or an outside failure.                         *)
(***************************************************************************)
EXTENDS LaneReconcile, TLAPS

\* The leaves are for Zenon, but for those that name another prover.
USE Zenon

-----------------------------------------------------------------------------
(* The inductive invariant *)

Active == phase = "reconcile" /\ turn <= Len(Order)

\* Every changed path of t holds what an agent committed, not out of its lane.
Landed(t) ==
  \A p \in Changed(t) : \E a \in Agent : t[p] = tip[a][p] /\ p \notin OutOfLane(a)

Settled(a) == /\ \A p \in InLane(a) : head[p] = tip[a][p]
              /\ OutOfLane(a) \subseteq sidecar[a]

\* What reconcileLane knows at each of its steps.
StepInv ==
  Active =>
    /\ step = "merge" => OutOfLane(Cur) = {}
    /\ step \in {"addwt", "revert", "mergeback", "removewt"} =>
         OutOfLane(Cur) \subseteq sidecar[Cur]
    /\ step = "revert" => mergeTree[Cur] = head
    /\ step = "mergeback" =>
         /\ \A p \in Changed(head) : mergeTree[Cur][p] = head[p]
         /\ \A p \in InLane(Cur) : mergeTree[Cur][p] = tip[Cur][p]
         /\ Landed(mergeTree[Cur])
    /\ step = "removewt" => Settled(Cur)

\* Agents commit before anything is merged, and no branch is deleted before
\* every agent has had its turn.
PhaseInv ==
  /\ phase = "agents" => head = Base /\ turn = 1 /\ step = "diff" /\ midMerge = {}
  /\ phase \in {"teardown", "done"} => turn = Len(Order) + 1
  /\ branches # Agent => turn = Len(Order) + 1

Retained(a) == mergeWT[a] \in {"conflict", "unpruned"}

\* An agent that has had its turn is settled, or has failed; then its merge
\* worktree is there, if the failure is its own.
HadTurn(a) ==
  /\ a \notin failures => Settled(a)
  /\ a \in failures /\ ~repo.faulty /\ midMerge = {} => Retained(a)

\* An agent whose turn is still to come has not failed.
TurnInv == /\ \A i \in 1..(turn - 1) : HadTurn(Order[i])
           /\ \A i \in turn..Len(Order) : Order[i] \notin failures

\* Commits do not disturb each other's moves, and lanes that are disjoint do
\* not conflict.
ConflictInv ==
  /\ \A a, b \in Agent : a # b => RenamedFrom(tip[a]) \cap Changed(tip[b]) = {}
  /\ DisjointLanes /\ StaysInside => midMerge = {}

LaneInv == /\ TypeOK /\ StepInv /\ PhaseInv /\ TurnInv /\ ConflictInv
           /\ Landed(head)

-----------------------------------------------------------------------------
(* Facts about trees and turns *)

\* The agent whose turn it is, and those before it.
LEMMA Turns ==
  ASSUME TypeOK
  PROVE  /\ turn <= Len(Order) => Cur \in Agent
         /\ \A i \in 1..(turn - 1) : Order[i] \in Agent
         /\ turn <= Len(Order) => \A i \in 1..(turn - 1) : Order[i] # Cur
  BY LaneConstants, SMT DEF TypeOK, Cur

\* A merge gives a tree that has all of the branch's changes and, without a
\* conflict, all of the changes it is merged into.
LEMMA Merging ==
  ASSUME NEW ours \in Tree, NEW theirs \in Tree
  PROVE  /\ Merge3(ours, theirs) \in Tree
         /\ \A p \in Changed(theirs) : Merge3(ours, theirs)[p] = theirs[p]
         /\ \A p \in Path \ Changed(theirs) : Merge3(ours, theirs)[p] = ours[p]
         /\ Conflicts(ours, theirs) = {} =>
              \A p \in Changed(ours) : Merge3(ours, theirs)[p] = ours[p]
  BY DEF Tree, Merge3, Changed, Conflicts

\* The fork point has no changes and no moves.
LEMMA ForkPoint == Changed(Base) = {} /\ RenamedFrom(Base) = {}
  BY DEF Changed, RenamedFrom

\* The invariant holds before the agents begin.
LEMMA LaneInit == Init => LaneInv
<1> SUFFICES ASSUME Init PROVE LaneInv
  OBVIOUS
<1>1. TypeOK
  BY LaneConstants, SMT DEF Init, TypeOK, Steps, MergeWTState
<1>2. StepInv /\ PhaseInv /\ TurnInv
  BY SMT DEF Init, StepInv, PhaseInv, TurnInv, Active
<1>3. ConflictInv
  BY ForkPoint DEF Init, ConflictInv
<1>4. Landed(head)
  BY ForkPoint DEF Init, Landed
<1> QED
  BY <1>1, <1>2, <1>3, <1>4 DEF LaneInv

\* Every step keeps the types.
LEMMA LaneTypes == TypeOK /\ [Next]_vars => TypeOK'
<1> SUFFICES ASSUME TypeOK, [Next]_vars PROVE TypeOK'
  OBVIOUS
<1>1. Len(Order) \in Nat
  BY LaneConstants, SMT
<1>2. turn <= Len(Order) => Cur \in Agent
  BY Turns
<1> USE DEF TypeOK, Steps, MergeWTState, vars, agentVars, repoVars, loopVars, At, NextTurn
<1>3. ASSUME NEW a \in Agent, AgentCommits(a) \/ AgentFails(a) \/ RemoveWorktree(a)
      PROVE  TypeOK'
  BY <1>3, SMT DEF AgentCommits, AgentFails, RemoveWorktree
<1>4. CASE Partition \/ WriteSidecar
  <2>1. OutOfLane(Cur) \subseteq Path
    BY DEF OutOfLane, LaneDiff, Changed
  <2> QED
    BY <1>1, <1>2, <1>4, <2>1, SMT DEF Partition, WriteSidecar
<1>5. CASE MergeDirect
  BY <1>1, <1>2, <1>5, Merging, SMT DEF MergeDirect
<1>6. CASE MergeDirectFails \/ MergeBackFails \/ GitFails
  BY <1>1, <1>2, <1>6, SMT DEF MergeDirectFails, MergeBackFails, GitFails
<1>7. CASE AddMergeWorktree \/ RevertFails \/ RemoveMergeWorktree
  BY <1>1, <1>2, <1>7, SMT DEF AddMergeWorktree, RevertFails, RemoveMergeWorktree
<1>8. CASE Revert
  <2> DEFINE t == [p \in Path |-> IF p \in OutOfLane(Cur) THEN mergeTree[Cur][p]
                                  ELSE Merge3(mergeTree[Cur], tip[Cur])[p]]
  <2>1. t \in Tree
    <3>1. mergeTree[Cur] \in Tree /\ Merge3(mergeTree[Cur], tip[Cur]) \in Tree
      BY <1>2, <1>8, Merging DEF Revert
    <3> QED
      BY <3>1 DEF Tree
  <2>2. mergeTree' = [mergeTree EXCEPT ![Cur] = t]
    BY <1>8 DEF Revert
  <2> HIDE DEF t
  <2> QED
    BY <1>1, <1>2, <1>8, <2>1, <2>2, SMT DEF Revert
<1>9. CASE MergeBack
  BY <1>1, <1>2, <1>9 DEF MergeBack
<1>10. CASE BeginReconcile \/ EndReconcile \/ Finish \/ Crash \/ Over \/ UNCHANGED vars
  BY <1>1, <1>10 DEF BeginReconcile, EndReconcile, Finish, Crash, Over
<1> QED
  BY <1>3, <1>4, <1>5, <1>6, <1>7, <1>8, <1>9, <1>10 DEF Next, ReconcileLane

-----------------------------------------------------------------------------
(* The steps *)

\* Merges accumulate: MergeWorktree without a conflict keeps what HEAD has, and
\* so does the merge worktree that was made from HEAD.
LEMMA HeadKeeps ==
  LaneInv /\ [Next]_vars => \A p \in Changed(head) : head'[p] = head[p]
<1> SUFFICES ASSUME LaneInv, [Next]_vars, NEW p \in Changed(head)
             PROVE  head'[p] = head[p]
  OBVIOUS
<1>1. CASE MergeDirect
  <2>1. head \in Tree /\ tip[Cur] \in Tree
    BY <1>1, Turns DEF LaneInv, TypeOK, MergeDirect, At
  <2> QED
    BY <1>1, <2>1, Merging DEF MergeDirect
<1>2. CASE MergeBack
  BY <1>2 DEF MergeBack, At, LaneInv, StepInv, Active
<1>3. CASE ~MergeDirect /\ ~MergeBack
  <2>1. head' = head
    BY <1>3 DEF Next, ReconcileLane, vars, repoVars, AgentCommits, AgentFails, RemoveWorktree,
       BeginReconcile, Partition, WriteSidecar, MergeDirectFails, AddMergeWorktree, Revert,
       RevertFails, MergeBackFails, RemoveMergeWorktree, GitFails, EndReconcile, Finish,
       Crash, Over
  <2> QED
    BY <2>1
<1> QED
  BY <1>1, <1>2, <1>3

\* The agents' part of the round.
LEMMA AgentStep ==
  ASSUME LaneInv, TypeOK', NEW a \in Agent, AgentCommits(a) \/ AgentFails(a)
  PROVE  LaneInv'
<1>1. /\ phase = "agents" /\ phase' = phase /\ turn' = 1 /\ head' = Base /\ midMerge' = {}
      /\ step' = "diff" /\ UNCHANGED <<repo, branches, turn, failures>>
  BY DEF AgentCommits, AgentFails, LaneInv, PhaseInv, loopVars, repoVars
<1>2. StepInv' /\ PhaseInv' /\ TurnInv'
  BY <1>1, SMT DEF LaneInv, StepInv, PhaseInv, TurnInv, Active
<1>3. Landed(head)'
  BY <1>1, ForkPoint DEF Landed
<1>4. ASSUME NEW b \in Agent, NEW c \in Agent, b # c
      PROVE  RenamedFrom(tip'[b]) \cap Changed(tip'[c]) = {}
  <2>1. CASE AgentCommits(a)
    <3>1. PICK t \in Tree : MovesApart(a, t) /\ tip' = [tip EXCEPT ![a] = t]
      BY <2>1 DEF AgentCommits
    <3> QED
      BY <1>4, <3>1 DEF MovesApart, LaneInv, ConflictInv, TypeOK
  <2>2. CASE AgentFails(a)
    BY <1>4, <2>2 DEF AgentFails, LaneInv, ConflictInv
  <2> QED
    BY <2>1, <2>2
<1> QED
  BY <1>1, <1>2, <1>3, <1>4 DEF LaneInv, ConflictInv

\* After it the commits stay, and what LaneDiff shows with them.
LEMMA DiffsStay ==
  ASSUME UNCHANGED <<repo, tip>>
  PROVE  \A a : /\ LaneDiff(a)' = LaneDiff(a) /\ InLane(a)' = InLane(a)
                /\ OutOfLane(a)' = OutOfLane(a)
  BY DEF LaneDiff, InLane, OutOfLane

\* The agents that have had their turn stay settled or retained, while another
\* has its own.
LEMMA TurnsStay ==
  ASSUME LaneInv, [Next]_vars, UNCHANGED <<repo, tip>>, turn <= Len(Order),
         failures \subseteq failures', failures' \subseteq failures \cup {Cur},
         \A a \in Agent \ {Cur} : sidecar'[a] = sidecar[a] /\ mergeWT'[a] = mergeWT[a],
         midMerge' = {} => midMerge = {}
  PROVE  \A i \in 1..(turn - 1) : HadTurn(Order[i])'
<1> SUFFICES ASSUME NEW i \in 1..(turn - 1) PROVE HadTurn(Order[i])'
  OBVIOUS
<1> DEFINE a == Order[i]
<1>1. a \in Agent \ {Cur}
  BY Turns DEF LaneInv
<1>2. HadTurn(a)
  BY DEF LaneInv, TurnInv
<1> HIDE DEF a
<1>3. Settled(a) => Settled(a)'
  <2> SUFFICES ASSUME Settled(a) PROVE Settled(a)'
    OBVIOUS
  <2>1. \A p \in InLane(a) : p \in Changed(head)
    BY DEF Settled, InLane, LaneDiff, Changed
  <2>2. \A p \in InLane(a) : head'[p] = tip'[a][p]
    BY <2>1, HeadKeeps DEF Settled
  <2> QED
    BY <1>1, <2>2, DiffsStay DEF Settled
<1>4. HadTurn(a)'
  BY <1>1, <1>2, <1>3 DEF HadTurn, Retained
<1> QED
  BY <1>4 DEF a

\* reconcileLane returns for the agent a, and the loop goes on with the next.
LEMMA TurnEnds ==
  ASSUME LaneInv, [Next]_vars, TypeOK', UNCHANGED <<repo, tip, phase, branches>>, Active,
         NextTurn, failures \subseteq failures', failures' \subseteq failures \cup {Cur},
         \A a \in Agent \ {Cur} : sidecar'[a] = sidecar[a] /\ mergeWT'[a] = mergeWT[a],
         midMerge' = midMerge \/ (midMerge' # {} /\ ~(DisjointLanes /\ StaysInside)),
         Landed(head)', NEW a, a = Cur, HadTurn(a)'
  PROVE  LaneInv'
<1>1. turn \in Nat /\ turn <= Len(Order) /\ turn' = turn + 1 /\ step' = "diff"
      /\ Len(Order) \in Nat /\ phase = "reconcile"
  BY LaneConstants, SMT DEF LaneInv, TypeOK, Active, NextTurn
<1>2. \A i \in 1..(turn - 1) : HadTurn(Order[i])'
  BY <1>1, TurnsStay
<1>3. ASSUME NEW i \in 1..(turn' - 1) PROVE HadTurn(Order[i])'
  <2>1. i = turn \/ i \in 1..(turn - 1)
    BY <1>1, SMT
  <2>2. CASE i = turn
    BY <2>2 DEF Cur, HadTurn, Settled, Retained, InLane, OutOfLane, LaneDiff
  <2> QED
    BY <1>2, <2>1, <2>2
<1>4. ASSUME NEW i \in turn'..Len(Order) PROVE Order[i] \notin failures'
  <2>1. i \in turn..Len(Order) /\ i # turn
    BY <1>1, SMT
  <2>2. turn \in 1..Len(Order) /\ i \in 1..Len(Order)
    BY <1>1, <2>1, SMT DEF LaneInv, TypeOK
  <2>3. Order[i] # Cur
    BY <2>1, <2>2, LaneConstants DEF Cur
  <2> QED
    BY <2>1, <2>3 DEF LaneInv, TurnInv
<1>5. StepInv'
  BY <1>1 DEF StepInv
<1>6. PhaseInv'
  BY <1>1, SMT DEF LaneInv, PhaseInv
<1>7. ConflictInv'
  BY DEF LaneInv, ConflictInv, DisjointLanes, StaysInside
<1> QED
  BY <1>3, <1>4, <1>5, <1>6, <1>7 DEF LaneInv, TurnInv

\* It goes on with the same agent.
LEMMA TurnGoesOn ==
  ASSUME LaneInv, [Next]_vars, TypeOK', Active, StepInv', Landed(head)',
         UNCHANGED <<repo, tip, phase, turn, branches, failures, midMerge>>,
         \A a \in Agent \ {Cur} : sidecar'[a] = sidecar[a] /\ mergeWT'[a] = mergeWT[a]
  PROVE  LaneInv'
<1>1. \A i \in 1..(turn - 1) : HadTurn(Order[i])'
  BY TurnsStay DEF Active
<1>2. TurnInv'
  BY <1>1 DEF TurnInv, LaneInv
<1>3. PhaseInv'
  BY DEF LaneInv, PhaseInv, Active
<1>4. ConflictInv'
  BY DEF LaneInv, ConflictInv, DisjointLanes, StaysInside
<1> QED
  BY <1>2, <1>3, <1>4 DEF LaneInv

\* Phases change and branches are deleted outside the turns.
LEMMA PhaseStep ==
  ASSUME LaneInv, TypeOK',
         \/ BeginReconcile \/ EndReconcile \/ Finish \/ Crash \/ Over \/ UNCHANGED vars
         \/ \E a \in Agent : RemoveWorktree(a)
  PROVE  LaneInv'
<1> USE DEF BeginReconcile, EndReconcile, Finish, Crash, Over, RemoveWorktree
<1>1. UNCHANGED <<repo, tip, head, midMerge, sidecar, mergeWT, mergeTree, turn, step, failures>>
  BY DEF vars, agentVars, repoVars, loopVars
<1>2. PhaseInv'
  BY <1>1 DEF LaneInv, PhaseInv, vars, repoVars, loopVars
<1>3. TurnInv' /\ Landed(head)'
  <2>1. Landed(head)'
    BY <1>1 DEF LaneInv, Landed, InLane, OutOfLane, LaneDiff
  <2>2. ASSUME NEW a PROVE HadTurn(a)' = HadTurn(a)
    <3>1. Settled(a)' = Settled(a)
      BY <1>1 DEF Settled, InLane, OutOfLane, LaneDiff
    <3> QED
      BY <1>1, <3>1 DEF HadTurn, Retained
  <2>3. TurnInv'
    BY <1>1, <2>2 DEF LaneInv, TurnInv
  <2> QED
    BY <2>1, <2>3
<1>4. ConflictInv'
  BY <1>1 DEF LaneInv, ConflictInv, DisjointLanes, StaysInside
<1>5. Active' => Active \/ step = "diff"
  BY <1>1 DEF Active, vars, loopVars, LaneInv, PhaseInv
<1>6. StepInv'
  <2>1. CASE step = "diff"
    BY <1>1, <2>1 DEF StepInv
  <2>2. CASE step # "diff" /\ Active'
    <3>1. Active /\ StepInv
      BY <1>5, <2>2 DEF LaneInv
    <3>2. OutOfLane(Cur)' = OutOfLane(Cur) /\ InLane(Cur)' = InLane(Cur)
      BY <1>1 DEF Cur, InLane, OutOfLane, LaneDiff
    <3>3. Settled(Cur) => Settled(Cur)'
      BY <1>1, <3>2 DEF Settled, Cur
    <3>4. Landed(mergeTree[Cur]) => Landed(mergeTree[Cur])'
      BY <1>1 DEF Landed, Cur, InLane, OutOfLane, LaneDiff
    <3> QED
      BY <1>1, <3>1, <3>2, <3>3, <3>4 DEF StepInv, Cur
  <2> QED
    BY <2>1, <2>2 DEF StepInv
<1> QED
  BY <1>2, <1>3, <1>4, <1>6 DEF LaneInv

\* The agent whose turn it is has not failed.
LEMMA NotFailed == LaneInv /\ Active => Cur \notin failures
<1> SUFFICES ASSUME LaneInv, Active PROVE Cur \notin failures
  OBVIOUS
<1>1. turn \in Int /\ Len(Order) \in Int /\ turn <= Len(Order)
  BY LaneConstants, SMT DEF LaneInv, TypeOK, Active
<1>2. turn \in turn..Len(Order)
  BY <1>1, SMT
<1> QED
  BY <1>2 DEF LaneInv, TurnInv, Cur

\* The diff is partitioned, and the out-of-lane part written to the patch.
LEMMA PartitionStep ==
  ASSUME LaneInv, [Next]_vars, TypeOK', Partition \/ WriteSidecar
  PROVE  LaneInv'
<1>1. /\ Active /\ UNCHANGED <<repo, tip, phase, branches, failures, midMerge, head, mergeWT,
                               mergeTree>>
      /\ Cur \in Agent
  BY Turns DEF Partition, WriteSidecar, agentVars, repoVars, At, Active, LaneInv
<1>2. \A a \in Agent \ {Cur} : sidecar'[a] = sidecar[a] /\ mergeWT'[a] = mergeWT[a]
  BY <1>1 DEF Partition, WriteSidecar, repoVars, LaneInv, TypeOK
<1>3. Landed(head)'
  BY <1>1 DEF LaneInv, Landed, InLane, OutOfLane, LaneDiff
<1>4. CASE NextTurn
  <2>1. PICK a \in Agent : a = Cur
    BY <1>1
  <2>2. Settled(a)'
    <3>1. InLane(a) = {} /\ OutOfLane(a) \subseteq sidecar'[a]
      <4>1. CASE Partition
        BY <1>4, <2>1, <4>1 DEF Partition, NextTurn, LaneInv, TypeOK, InLane, OutOfLane
      <4>2. CASE WriteSidecar
        BY <1>4, <2>1, <4>2 DEF WriteSidecar, NextTurn, LaneInv, TypeOK
      <4> QED
        BY <4>1, <4>2
    <3> QED
      BY <1>1, <3>1 DEF Settled, InLane, OutOfLane, LaneDiff
  <2>3. HadTurn(a)'
    <3>1. a \notin failures
      BY <1>1, <2>1, NotFailed
    <3> QED
      BY <1>1, <2>2, <3>1 DEF HadTurn
  <2> QED
    BY <1>1, <1>2, <1>3, <1>4, <2>1, <2>3, TurnEnds
<1>5. CASE ~NextTurn
  <2>1. turn' = turn /\ step' \in {"sidecar", "merge", "addwt"}
        /\ (step' = "merge" => OutOfLane(Cur) = {})
        /\ (step' = "addwt" => OutOfLane(Cur) \subseteq sidecar'[Cur])
    BY <1>1, <1>5 DEF Partition, WriteSidecar, LaneInv, TypeOK
  <2>2. StepInv'
    BY <1>1, <2>1 DEF StepInv, Cur, InLane, OutOfLane, LaneDiff
  <2> QED
    BY <1>1, <1>2, <1>3, <2>1, <2>2, TurnGoesOn
<1> QED
  BY <1>4, <1>5

\* A tree that has taken from an agent nothing that is out of its lane.
LEMMA MergeLands ==
  ASSUME NEW a \in Agent, NEW t \in Tree, NEW ours \in Tree, Landed(ours),
         \A p \in Path : t[p] = ours[p] \/ (t[p] = tip[a][p] /\ p \notin OutOfLane(a))
  PROVE  Landed(t)
<1> SUFFICES ASSUME NEW p \in Changed(t)
             PROVE  \E b \in Agent : t[p] = tip[b][p] /\ p \notin OutOfLane(b)
  BY DEF Landed
<1>1. p \in Path /\ t[p] # Base[p]
  BY DEF Changed
<1>2. CASE t[p] = ours[p]
  BY <1>1, <1>2 DEF Landed, Changed
<1>3. CASE t[p] = tip[a][p] /\ p \notin OutOfLane(a)
  BY <1>3
<1> QED
  BY <1>1, <1>2, <1>3

\* Agents with disjoint lanes that stay in the workspace do not conflict: what
\* HEAD has came from the lane of another agent, and no agent moved it away.
LEMMA NoConflict ==
  ASSUME LaneInv, NEW c \in Agent, OutOfLane(c) = {}, DisjointLanes, StaysInside
  PROVE  Conflicts(head, tip[c]) = {}
<1> SUFFICES ASSUME NEW p \in Conflicts(head, tip[c]) PROVE FALSE
  OBVIOUS
<1>1. p \in Changed(head) /\ p \in Changed(tip[c]) /\ head[p] # tip[c][p]
  BY DEF Conflicts
<1>2. PICK a \in Agent : head[p] = tip[a][p] /\ p \notin OutOfLane(a)
  BY <1>1 DEF LaneInv, Landed
<1>3. a # c /\ p \in Changed(tip[a])
  BY <1>1, <1>2 DEF Changed
<1>4. p \notin RenamedFrom(tip[a]) /\ p \notin RenamedFrom(tip[c])
  BY <1>1, <1>3 DEF LaneInv, ConflictInv
<1>5. p \in LaneDiff(a) /\ p \in LaneDiff(c)
  BY <1>1, <1>3, <1>4 DEF LaneDiff, StaysInside
<1>6. p \in repo.lane[a] /\ p \in repo.lane[c]
  BY <1>2, <1>5 DEF InLane, OutOfLane
<1> QED
  BY <1>3, <1>6 DEF DisjointLanes

\* MergeWorktree of an agent branch that has nothing out of lane.
LEMMA DirectStep ==
  ASSUME LaneInv, [Next]_vars, TypeOK', MergeDirect \/ MergeDirectFails
  PROVE  LaneInv'
<1>1. /\ Active /\ UNCHANGED <<repo, tip, phase, branches, sidecar, mergeWT, mergeTree>>
      /\ NextTurn
  BY DEF MergeDirect, MergeDirectFails, agentVars, At, Active
<1>2. PICK a \in Agent : a = Cur
  BY <1>1, Turns DEF Active, LaneInv
<1>3. OutOfLane(a) = {} /\ head \in Tree /\ head' \in Tree /\ tip[a] \in Tree
  BY <1>1, <1>2 DEF MergeDirect, MergeDirectFails, At, LaneInv, StepInv, TypeOK
<1>4. CASE MergeDirect
  <2>1. head' = Merge3(head, tip[a]) /\ UNCHANGED <<midMerge, failures>>
    BY <1>2, <1>4 DEF MergeDirect
  <2>2. Landed(head')
    <3>1. \A p \in Path : head'[p] = head[p] \/ (head'[p] = tip[a][p] /\ p \notin OutOfLane(a))
      BY <1>3, <2>1, Merging, SMT
    <3> QED
      BY <1>3, <3>1, MergeLands DEF LaneInv
  <2>3. Landed(head)'
    BY <1>1, <2>2 DEF Landed, InLane, OutOfLane, LaneDiff
  <2>4. \A p \in InLane(a) : head'[p] = tip[a][p]
    BY <1>3, <2>1, Merging, SMT DEF InLane, LaneDiff
  <2>5. Settled(a)'
    BY <1>1, <1>3, <2>4 DEF Settled, InLane, OutOfLane, LaneDiff
  <2>6. HadTurn(a)'
    BY <1>1, <1>2, <2>1, <2>5, NotFailed DEF HadTurn
  <2> QED
    BY <1>1, <1>2, <2>1, <2>3, <2>6, TurnEnds
<1>5. CASE MergeDirectFails
  <2>1. /\ failures' = failures \cup {Cur} /\ head' = head /\ midMerge' # {}
        /\ midMerge' = midMerge \/ Conflicts(head, tip[a]) # {}
    BY <1>2, <1>5 DEF MergeDirectFails
  <2>2. Landed(head)'
    BY <1>1, <2>1 DEF LaneInv, Landed, InLane, OutOfLane, LaneDiff
  <2>3. HadTurn(a)'
    BY <1>2, <2>1 DEF HadTurn
  <2>4. midMerge' = midMerge \/ (midMerge' # {} /\ ~(DisjointLanes /\ StaysInside))
    BY <1>3, <2>1, NoConflict
  <2> QED
    BY <1>1, <1>2, <2>1, <2>2, <2>3, <2>4, TurnEnds
<1> QED
  BY <1>4, <1>5

\* MergeAndRevert in the merge worktree: made from HEAD, it keeps what HEAD has
\* and takes what is in the agent's lane.
LEMMA RevertStep ==
  ASSUME LaneInv, [Next]_vars, TypeOK', AddMergeWorktree \/ Revert \/ RevertFails
  PROVE  LaneInv'
<1>1. Active /\ UNCHANGED <<repo, tip, phase, branches, sidecar, head, midMerge>>
  BY DEF AddMergeWorktree, Revert, RevertFails, agentVars, At, Active
<1>2. PICK a \in Agent : a = Cur
  BY <1>1, Turns DEF Active, LaneInv
<1>3. Landed(head)'
  BY <1>1 DEF LaneInv, Landed, InLane, OutOfLane, LaneDiff
<1>4. \A b \in Agent \ {Cur} : sidecar'[b] = sidecar[b] /\ mergeWT'[b] = mergeWT[b]
  BY <1>1 DEF AddMergeWorktree, Revert, RevertFails, LaneInv, TypeOK
<1>5. OutOfLane(a) \subseteq sidecar[a]
  BY <1>1, <1>2 DEF AddMergeWorktree, Revert, RevertFails, At, LaneInv, StepInv
<1>6. CASE AddMergeWorktree
  <2>1. turn' = turn /\ step' = "revert" /\ failures' = failures /\ mergeTree'[a] = head
    BY <1>2, <1>6 DEF AddMergeWorktree, LaneInv, TypeOK
  <2>2. StepInv'
    BY <1>1, <1>2, <1>5, <2>1 DEF StepInv, Cur, InLane, OutOfLane, LaneDiff
  <2> QED
    BY <1>1, <1>3, <1>4, <2>1, <2>2, TurnGoesOn
<1>7. CASE Revert
  <2> DEFINE merged == Merge3(head, tip[a])
             t == [p \in Path |-> IF p \in OutOfLane(a) THEN head[p] ELSE merged[p]]
  <2>1. /\ turn' = turn /\ step' = "mergeback" /\ failures' = failures
        /\ mergeTree[a] = head /\ Conflicts(head, tip[a]) = {}
    BY <1>1, <1>2, <1>7 DEF Revert, At, LaneInv, StepInv
  <2>2. mergeTree'[a] = t
    BY <1>2, <1>7, <2>1 DEF Revert, LaneInv, TypeOK
  <2>3. head \in Tree /\ tip[a] \in Tree /\ t \in Tree
    BY <1>2, <2>2, SMT DEF LaneInv, TypeOK
  <2>4. \A p \in Changed(head) : t[p] = head[p]
    BY <2>1, <2>3, Merging, SMT DEF Changed
  <2>5. \A p \in InLane(a) : t[p] = tip[a][p]
    BY <2>3, Merging, SMT DEF InLane, OutOfLane, LaneDiff, Changed
  <2>6. \A p \in Path : t[p] = head[p] \/ (t[p] = tip[a][p] /\ p \notin OutOfLane(a))
    BY <2>3, Merging, SMT
  <2> HIDE DEF t
  <2>7. Landed(t)
    BY <2>3, <2>6, MergeLands DEF LaneInv
  <2>8. Landed(mergeTree[Cur])'
    BY <1>1, <1>2, <2>1, <2>2, <2>7 DEF Landed, InLane, OutOfLane, LaneDiff, Cur
  <2>9. StepInv'
    BY <1>1, <1>2, <1>5, <2>1, <2>2, <2>4, <2>5, <2>8
       DEF StepInv, Cur, InLane, OutOfLane, LaneDiff
  <2> QED
    BY <1>1, <1>3, <1>4, <2>1, <2>9, TurnGoesOn
<1>8. CASE RevertFails
  <2>1. NextTurn /\ failures' = failures \cup {Cur}
    BY <1>8 DEF RevertFails
  <2>2. Retained(a)'
    BY <1>2, <1>8 DEF RevertFails, Retained, LaneInv, TypeOK
  <2>3. HadTurn(a)'
    BY <1>2, <2>1, <2>2 DEF HadTurn
  <2> QED
    BY <1>1, <1>2, <1>3, <1>4, <2>1, <2>3, TurnEnds
<1> QED
  BY <1>6, <1>7, <1>8

\* The pruned branch is merged and its worktree removed, or a command fails.
LEMMA MergeBackStep ==
  ASSUME LaneInv, [Next]_vars, TypeOK',
         MergeBack \/ MergeBackFails \/ RemoveMergeWorktree \/ GitFails
  PROVE  LaneInv'
<1>1. Active /\ UNCHANGED <<repo, tip, phase, branches, sidecar, midMerge, mergeTree>>
  BY DEF MergeBack, MergeBackFails, RemoveMergeWorktree, GitFails, agentVars, repoVars, At, Active
<1>2. PICK a \in Agent : a = Cur
  BY <1>1, Turns DEF Active, LaneInv
<1>3. \A b \in Agent \ {Cur} : sidecar'[b] = sidecar[b] /\ mergeWT'[b] = mergeWT[b]
  BY <1>1 DEF MergeBack, MergeBackFails, RemoveMergeWorktree, GitFails, repoVars, LaneInv, TypeOK
<1>4. CASE MergeBack
  <2>1. /\ turn' = turn /\ step' = "removewt" /\ failures' = failures /\ head' = mergeTree[a]
        /\ step = "mergeback"
    BY <1>2, <1>4 DEF MergeBack, At
  <2>2. /\ OutOfLane(a) \subseteq sidecar[a] /\ Landed(mergeTree[a])
        /\ \A p \in InLane(a) : mergeTree[a][p] = tip[a][p]
    BY <1>1, <1>2, <2>1 DEF LaneInv, StepInv
  <2>3. Landed(head)'
    BY <1>1, <2>1, <2>2 DEF Landed, InLane, OutOfLane, LaneDiff
  <2>4. StepInv'
    BY <1>1, <1>2, <2>1, <2>2 DEF StepInv, Settled, Cur, InLane, OutOfLane, LaneDiff
  <2> QED
    BY <1>1, <1>3, <2>1, <2>3, <2>4, TurnGoesOn
<1>5. CASE MergeBackFails \/ RemoveMergeWorktree \/ GitFails
  <2>1. /\ NextTurn /\ head' = head
        /\ failures \subseteq failures' /\ failures' \subseteq failures \cup {Cur}
    BY <1>5 DEF MergeBackFails, RemoveMergeWorktree, GitFails, repoVars
  <2>2. Landed(head)'
    BY <1>1, <2>1 DEF LaneInv, Landed, InLane, OutOfLane, LaneDiff
  <2>3. HadTurn(a)'
    <3>1. CASE MergeBackFails
      BY <1>1, <1>2, <3>1 DEF MergeBackFails, HadTurn
    <3>2. CASE GitFails
      BY <1>1, <1>2, <3>2 DEF GitFails, HadTurn
    <3>3. CASE RemoveMergeWorktree
      <4>1. Settled(a)
        BY <1>1, <1>2, <3>3 DEF RemoveMergeWorktree, At, LaneInv, StepInv
      <4>2. Settled(a)'
        BY <1>1, <2>1, <4>1 DEF Settled, InLane, OutOfLane, LaneDiff
      <4> QED
        BY <1>1, <1>2, <3>3, <4>2, NotFailed DEF RemoveMergeWorktree, HadTurn
    <3> QED
      BY <1>5, <3>1, <3>2, <3>3
  <2> QED
    BY <1>1, <1>2, <1>3, <2>1, <2>2, <2>3, TurnEnds
<1> QED
  BY <1>4, <1>5

\* Every step keeps the invariant.
LEMMA LaneStep == LaneInv /\ [Next]_vars => LaneInv'
<1> SUFFICES ASSUME LaneInv, [Next]_vars PROVE LaneInv'
  OBVIOUS
<1>1. TypeOK'
  BY LaneTypes DEF LaneInv
<1>2. ASSUME NEW a \in Agent, AgentCommits(a) \/ AgentFails(a) PROVE LaneInv'
  BY <1>1, <1>2, AgentStep
<1>3. CASE \/ BeginReconcile \/ EndReconcile \/ Finish \/ Crash \/ Over \/ UNCHANGED vars
           \/ \E a \in Agent : RemoveWorktree(a)
  BY <1>1, <1>3, PhaseStep
<1>4. CASE Partition \/ WriteSidecar
  BY <1>1, <1>4, PartitionStep
<1>5. CASE MergeDirect \/ MergeDirectFails
  BY <1>1, <1>5, DirectStep
<1>6. CASE AddMergeWorktree \/ Revert \/ RevertFails
  BY <1>1, <1>6, RevertStep
<1>7. CASE MergeBack \/ MergeBackFails \/ RemoveMergeWorktree \/ GitFails
  BY <1>1, <1>7, MergeBackStep
<1> QED
  BY <1>2, <1>3, <1>4, <1>5, <1>6, <1>7 DEF Next, ReconcileLane

\* The invariant holds throughout a round.
LEMMA LaneInvariant == Spec => []LaneInv
  BY LaneInit, LaneStep, PTL DEF Spec

-----------------------------------------------------------------------------
(* What the round promises *)

\* Once the loop is over every agent has had its turn.
LEMMA AllHadTurn ==
  ASSUME LaneInv, turn = Len(Order) + 1, NEW a \in Agent
  PROVE  HadTurn(a)
<1>1. PICK i \in 1..Len(Order) : Order[i] = a
  BY LaneConstants
<1>2. i \in 1..(turn - 1)
  BY <1>1, LaneConstants, SMT
<1> QED
  BY <1>1, <1>2 DEF LaneInv, TurnInv

\* The loop's state is what reconcileLane can hold, and the coordinator's
\* checkout never holds the conflicted merges of two agents.
THEOREM LaneStateTyped == Spec => []TypeOK
<1>1. LaneInv => TypeOK
  BY DEF LaneInv
<1> QED
  BY <1>1, LaneInvariant, PTL

\* Nothing that LaneDiff shows to be out of lane reaches the coordinator's
\* branch, whatever the agents commit and whichever merges conflict.
THEOREM SpillageStaysOff == Spec => []SeenSpillageNeverLands
<1>1. LaneInv => SeenSpillageNeverLands
  BY DEF LaneInv, Landed, SeenSpillageNeverLands
<1> QED
  BY <1>1, LaneInvariant, PTL

\* No merge or restore of reconcileLane takes back what an earlier one brought
\* onto HEAD.
THEOREM MergesAccumulate == Spec => HeadAccumulates
<1>1. LaneInv /\ [Next]_vars => [\A p \in Changed(head) : head'[p] = head[p]]_vars
  BY HeadKeeps
<1> QED
  BY <1>1, LaneInvariant, PTL DEF Spec, HeadAccumulates

\* An agent for which reconcileLane returned no error has its in-lane edits on
\* HEAD and its out-of-lane edits in its patch, also after all later turns.
THEOREM SuccessIsSettled == Spec => []SuccessMeansSettled
<1>1. LaneInv => SuccessMeansSettled
  <2> SUFFICES ASSUME LaneInv, phase \in {"teardown", "done"}, NEW a \in Agent \ failures
               PROVE  Settled(a)
    BY DEF SuccessMeansSettled, Settled
  <2>1. turn = Len(Order) + 1
    BY DEF LaneInv, PhaseInv
  <2> QED
    BY <2>1, AllHadTurn DEF HadTurn
<1> QED
  BY <1>1, LaneInvariant, PTL

\* No edit that LaneDiff shows is lost by the loop and the forced teardown after
\* it, unless a command fails for outside reasons or agents conflict; agents with
\* disjoint lanes that stay in the workspace do not.
THEOREM NothingLost == Spec => []DisjointLanesLoseNothing
<1>1. LaneInv => DisjointLanesLoseNothing
  <2> SUFFICES ASSUME LaneInv, ~repo.faulty, midMerge # {} => DisjointLanes /\ StaysInside,
                      NEW a \in Agent, NEW p \in LaneDiff(a), a \notin branches
               PROVE  Kept(a, p)
    BY DEF DisjointLanesLoseNothing, Kept
  <2>1. midMerge = {} /\ turn = Len(Order) + 1
    BY DEF LaneInv, ConflictInv, PhaseInv
  <2>2. HadTurn(a)
    BY <2>1, AllHadTurn
  <2>3. CASE a \notin failures
    BY <2>2, <2>3 DEF HadTurn, Settled, OutOfLane, Kept
  <2>4. CASE a \in failures
    BY <2>1, <2>2, <2>4 DEF HadTurn, Retained, Kept
  <2> QED
    BY <2>3, <2>4
<1> QED
  BY <1>1, LaneInvariant, PTL

=============================================================================
