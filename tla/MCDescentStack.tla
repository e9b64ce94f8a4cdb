--------------------------- MODULE MCDescentStack ---------------------------
(***************************************************************************)
(* An instance of DescentStack for TLC: four shapes, two of which are      *)
(* recursive, two focus nodes, focus sets of up to two nodes (the same     *)
(* node twice included, as when a value is reached from two rows).         *)
(***************************************************************************)
EXTENDS DescentBounds

CONSTANTS A, B, C, D, m, n

MCShapes == {A, B, C, D}
MCNodes == {m, n}
MCFocusSets == UNION {[1..k -> MCNodes] : k \in 0..2}

\* A refers to B, and B to A, to itself and to C.  C refers to D, and below C
\* nothing is recursive.
MCRefs == [s \in MCShapes |->
    CASE s = A -> {B} [] s = B -> {A, B, C} [] s = C -> {D} [] s = D -> {}]
=============================================================================
