------------------------------ MODULE MCHatch ------------------------------
(* Small instances of Hatch for TLC.  A tree node is too large with two    *)
(* directories, and the catalog is compressed with one app.                *)
EXTENDS Hatch, FiniteSets

MCTooLarge(node) == Cardinality(DOMAIN node.dirs) >= 2

MCGzipped(sh) ==
  sh.path = <<"catalog">> /\ Cardinality(sh.value.apps) >= 1
============================================================================
