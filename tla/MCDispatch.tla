----------------------------- MODULE MCDispatch -----------------------------
(***************************************************************************)
(* Small instances of Dispatch: brick lists without duplicates, one agent  *)
(* per brick.                                                              *)
(***************************************************************************)
EXTENDS DispatchInv

CONSTANTS a, b

TwoSlugs == {a, b}

\* Entry i of the list is worker i.
TwoEntries == {1, 2}
OneEach2 == <<a, b>>

\* The coordinator only tells idempotent from the other three statuses.
TwoStatuses == {"idempotent", "blocked"}
AllStatuses == {"idempotent", "blocked", "dirty", "not-converged"}

\* Every flag combination, with a --parallel below, within and above what the
\* clamp allows; and one in-process agent at a time.
AnyFlags == [worktree : BOOLEAN, acp : BOOLEAN, parallel : {0, 2, 9}]
OneAtATime == {[worktree |-> FALSE, acp |-> FALSE, parallel |-> 1]}
=============================================================================
