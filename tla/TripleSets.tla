------------------------------ MODULE TripleSets ------------------------------
(***************************************************************************)
(* A graph as both inference loops see it: a set of triples of terms, with *)
(* neither positions nor repeats.                                          *)
(***************************************************************************)
EXTENDS FiniteSets

CONSTANT Terms      \* the terms of the graphs and of their vocabulary

ASSUME TermsAssumption == IsFiniteSet(Terms)

Triple == Terms \X Terms \X Terms
=============================================================================
