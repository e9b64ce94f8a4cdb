------------------------------ MODULE ValueSets ------------------------------
(***************************************************************************)
(* The focus->values relation in compressed rows (valueset.rs): one array  *)
(* of focus nodes, one of all values and one of the boundaries between the *)
(* rows, built row by row.  Indexes start at 1 and a boundary is the       *)
(* number of values before it.                                             *)
(***************************************************************************)
EXTENDS Naturals, Sequences, FiniteSets, SequencesExt

\* The numbers of a set, the least first.
InOrder(S) ==
    [i \in 1..Cardinality(S) |-> CHOOSE x \in S : Cardinality({y \in S : y < x}) = i - 1]

Identity(nodes) ==
    [focus |-> nodes, offsets |-> [i \in 1..(Len(nodes) + 1) |-> i - 1], values |-> nodes]

Row(sets, i) ==
    [focus |-> sets.focus[i],
     values |-> SubSeq(sets.values, sets.offsets[i] + 1, sets.offsets[i + 1])]

Rows(sets) == [i \in DOMAIN sets.focus |-> Row(sets, i)]

-----------------------------------------------------------------------------
(* The builder. *)

WithCapacity == [focus |-> <<>>, offsets |-> <<0>>, values |-> <<>>, rowStart |-> 0, open |-> FALSE]

StartRow(b, node) ==
    [b EXCEPT !.focus = Append(@, node), !.rowStart = Len(b.values), !.open = TRUE]

PushValue(b, value) == [b EXCEPT !.values = Append(@, value)]

\* The open row becomes a set, and its end a boundary.
EndRow(b) ==
    LET row == SubSeq(b.values, b.rowStart + 1, Len(b.values))
        kept == SubSeq(b.values, 1, b.rowStart) \o InOrder(ToSet(row))
    IN  [b EXCEPT !.values = kept, !.offsets = Append(@, Len(kept)), !.open = FALSE]

\* push_row: a whole row.
PushRow(b, node, values) ==
    EndRow([StartRow(b, node) EXCEPT !.values = @ \o values])

Finish(b) == [focus |-> b.focus, offsets |-> b.offsets, values |-> b.values]
=============================================================================
