---------------------------- MODULE MCIndexCache ----------------------------
(***************************************************************************)
(* A few runs over one data file, in worlds that differ in what may happen *)
(* around them: edits between builds, overlapping builders over a file     *)
(* that moves, or an edit in the middle of a build.                        *)
(***************************************************************************)
EXTENDS IndexCache, TLC

CONSTANTS v1, v2, here, there, turtle, ntriples

MCRuns == 1 .. 3
TwoRuns == 1 .. 2

MCWorlds ==
    {[builders |-> 1, edits |-> "between", moves |-> FALSE],
     [builders |-> 3, edits |-> "never", moves |-> TRUE]}

EditedWorld == {[builders |-> 1, edits |-> "during", moves |-> FALSE]}
=============================================================================
