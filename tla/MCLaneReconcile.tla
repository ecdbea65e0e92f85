-------------------------- MODULE MCLaneReconcile ---------------------------
(***************************************************************************)
(* Small repositories for LaneReconcile: two paths, three agents.  The     *)
(* file x1 is not there at the fork point and y1 is, so that agents can    *)
(* create, edit, delete and move files and can disagree about y1.          *)
(***************************************************************************)
EXTENDS LaneReconcile, TLC

CONSTANTS x, y, z, x1, y1, old, new, gone

Agents == {x, y, z}
SlugOrder == <<x, y, z>>
Paths == {x1, y1}
Contents == {old, new, gone}
ForkPoint == (x1 :> gone) @@ (y1 :> old)

OwnLanes == (x :> {x1}) @@ (y :> {y1}) @@ (z :> {})
\* The bricks of y and z are nested in that of x.
NestedLanes == (x :> {x1, y1}) @@ (y :> {y1}) @@ (z :> {x1})
XLaneOnly == (x :> {x1}) @@ (y :> {}) @@ (z :> {x1})

Repository(l, o, f) == [lane |-> l, outside |-> o, faulty |-> f]
Flat == Repository(OwnLanes, {}, FALSE)
Nested == Repository(NestedLanes, {}, FALSE)
Subdirectory == Repository(XLaneOnly, {y1}, FALSE)

JustSubdirectory == {Subdirectory}
AnyRepository == {Flat, Nested, Subdirectory, Repository(OwnLanes, {}, TRUE)}
=============================================================================
