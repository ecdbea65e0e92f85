---------------------------- MODULE MCJobRunner ----------------------------
(***************************************************************************)
(* Small instances of JobRunner.                                           *)
(***************************************************************************)
EXTENDS JobRunner

\* A pty with header times; pipes with ansi-timestamps.
AnyWriters == {[pty |-> TRUE, ansi |-> FALSE], [pty |-> FALSE, ansi |-> TRUE]}
Plain == {[pty |-> FALSE, ansi |-> TRUE]}
=============================================================================
