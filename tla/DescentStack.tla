---------------------------- MODULE DescentStack ----------------------------
(***************************************************************************)
(* The recursion guard of the validation engine (validate.rs): the Stack   *)
(* of (shape, node) pairs being validated, kept both in insertion order    *)
(* (pairs) and as a hash set (seen), the nesting depth, and the frames     *)
(* that add pairs to it and remove them again.                             *)
(*                                                                         *)
(* What the shapes check is left out: this module is the discipline that   *)
(* every run of the engine follows, and module Engine is shown to          *)
(* implement it.  A frame is pushed for a shape that the shape on top      *)
(* refers to, with the focus nodes that survive the visited-set filter;    *)
(* it is popped by removing, by value, the pairs above its mark.           *)
(***************************************************************************)
EXTENDS Naturals, Sequences, FiniteSets

CONSTANTS
    Shapes,     \* the compiled shapes (ShapeId)
    Nodes,      \* the terms that can be focus nodes (TermId)
    Refs,       \* Refs[s]: the shapes the constraints of s refer to
    MaxDepth,   \* MAX_DEPTH, the limit on nested invocations
    FocusSets   \* the focus sets that can be left by the filter

ASSUME DepthAssumption == MaxDepth \in Nat \ {0}
ASSUME FocusAssumption == FocusSets \subseteq Seq(Nodes)
ASSUME ShapesAssumption == IsFiniteSet(Shapes)
ASSUME RefsAssumption == Refs \in [Shapes -> SUBSET Shapes]

VARIABLES
    frames,     \* every standing frame, over all invocations: [id, mark]
    bases,      \* per standing invocation, how many frames it found standing
    pairs,      \* Stack::pairs
    seen,       \* Stack::seen
    depth,      \* Stack::depth
    failing     \* an error is on its way up

vars == <<frames, bases, pairs, seen, depth, failing>>

Pair == Shapes \X Nodes
Frame == [id: Shapes, mark: Nat]

Above(mark) == {pairs[i] : i \in (mark + 1)..Len(pairs)}

Top == frames[Len(frames)]
InvocationEmpty == bases # <<>> /\ Len(frames) = bases[Len(bases)]
Running == bases # <<>> /\ Len(frames) > bases[Len(bases)]

\* The shapes that can be entered now: any shape from outside, a shape the
\* one on top refers to from within.
Callable == IF frames = <<>> THEN Shapes ELSE Refs[Top.id]

\* A focus set as pairs of the visited set.
Tagged(s, kept) == [i \in 1..Len(kept) |-> <<s, kept[i]>>]
Fresh(s, kept) == \A i \in 1..Len(kept) : <<s, kept[i]>> \notin seen

-----------------------------------------------------------------------------

Init ==
    /\ frames = <<>>
    /\ bases = <<>>
    /\ pairs = <<>>
    /\ seen = {}
    /\ depth = 0
    /\ failing = FALSE

\* push_frame, after the filter: nothing when no focus node is left.
PushFrame(s, kept) ==
    IF kept = <<>>
    THEN UNCHANGED <<frames, pairs, seen>>
    ELSE /\ frames' = Append(frames, [id |-> s, mark |-> Len(pairs)])
         /\ pairs' = pairs \o Tagged(s, kept)
         /\ seen' = seen \cup {<<s, kept[i]>> : i \in 1..Len(kept)}

\* Mutant of PopFrame: the hash set is not unwound with the vector.
PopFrame_KeepsSeen ==
    /\ frames' = SubSeq(frames, 1, Len(frames) - 1)
    /\ pairs' = SubSeq(pairs, 1, Top.mark)
    /\ UNCHANGED seen

\* unwind, and the pop of the frame whose mark it is given.
PopFrame ==
    /\ frames' = SubSeq(frames, 1, Len(frames) - 1)
    /\ seen' = seen \ Above(Top.mark)
    /\ pairs' = SubSeq(pairs, 1, Top.mark)

\* Mutant of Enter: the call is not counted.
Enter_Uncounted(s, kept) ==
    /\ ~failing
    /\ bases = <<>> \/ Running
    /\ depth < MaxDepth
    /\ s \in Callable
    /\ Fresh(s, kept)
    /\ bases' = Append(bases, Len(frames))
    /\ PushFrame(s, kept)
    /\ UNCHANGED <<failing, depth>>

\* validate_shape is called: by the driver on an empty stack, or by a
\* constraint of the top frame that needs an answer.
Enter(s, kept) ==
    /\ ~failing
    /\ bases = <<>> \/ Running
    /\ depth < MaxDepth
    /\ s \in Callable
    /\ Fresh(s, kept)
    /\ depth' = depth + 1
    /\ bases' = Append(bases, Len(frames))
    /\ PushFrame(s, kept)
    /\ UNCHANGED failing

\* validate_shape is called, and the value nodes of the shape cannot be found:
\* the call stands without a frame, and its error is on the way up.
Falter(s) ==
    /\ ~failing
    /\ bases = <<>> \/ Running
    /\ depth < MaxDepth
    /\ s \in Callable
    /\ depth' = depth + 1
    /\ bases' = Append(bases, Len(frames))
    /\ failing' = TRUE
    /\ UNCHANGED <<frames, pairs, seen>>

\* validate_shape is called at the limit: Error::Recursion.
Refuse ==
    /\ ~failing
    /\ Running
    /\ depth >= MaxDepth
    /\ failing' = TRUE
    /\ UNCHANGED <<frames, bases, pairs, seen, depth>>

\* A constraint fails (a query that does not run, an expression that does
\* not evaluate, a nested shape whose value nodes cannot be found): the ?
\* operator hands the error up.
Fail ==
    /\ ~failing
    /\ Running
    /\ failing' = TRUE
    /\ UNCHANGED <<frames, bases, pairs, seen, depth>>

\* sh:property: the nested shape becomes a frame of the same invocation.
Descend(s, kept) ==
    /\ ~failing
    /\ Running
    /\ s \in Callable
    /\ Fresh(s, kept)
    /\ PushFrame(s, kept)
    /\ UNCHANGED <<bases, depth, failing>>

\* The top frame has run its constraints, or is dropped on the way out of an
\* error.
Leave ==
    /\ Running
    /\ PopFrame
    /\ UNCHANGED <<bases, depth, failing>>

\* Mutant of Return: the level is not given back.
Return_KeepsDepth ==
    /\ InvocationEmpty
    /\ bases' = SubSeq(bases, 1, Len(bases) - 1)
    /\ failing' = (failing /\ Len(bases) > 1)
    /\ UNCHANGED <<frames, pairs, seen, depth>>

\* The invocation's frames are gone: validate_shape returns.  The outermost
\* one hands an error to the driver, and the next run starts afresh.
Return ==
    /\ InvocationEmpty
    /\ bases' = SubSeq(bases, 1, Len(bases) - 1)
    /\ depth' = depth - 1
    /\ failing' = (failing /\ Len(bases) > 1)
    /\ UNCHANGED <<frames, pairs, seen>>

Next ==
    \/ \E s \in Shapes :
          /\ s \in Callable
          /\ \E kept \in FocusSets : Enter(s, kept) \/ Descend(s, kept)
    \/ \E s \in Shapes : Falter(s)
    \/ Refuse
    \/ Fail
    \/ Leave
    \/ Return

Spec == Init /\ [][Next]_vars

-----------------------------------------------------------------------------

\* Types of the stack's state.
TypeOK ==
    /\ frames \in Seq(Frame)
    /\ bases \in Seq(Nat)
    /\ pairs \in Seq(Pair)
    /\ seen \subseteq Pair
    /\ depth \in Nat
    /\ failing \in BOOLEAN

\* The hash set that is searched and the vector that is unwound never come
\* apart, although unwind removes by value: what is looked up is exactly what
\* is standing (validate.rs, struct Stack: "The same pairs, for membership").
SeenIsPairs == seen = {pairs[i] : i \in 1..Len(pairs)}

\* A finished validate_shape, whether it succeeded or failed, leaves nothing
\* behind for the next root shape to trip on ("an error leaves the visited
\* set exactly as it was found"), and nesting never passes the limit.
NothingLeftBehind ==
    /\ bases = <<>> => frames = <<>> /\ pairs = <<>> /\ seen = {} /\ depth = 0
    /\ depth = Len(bases)
    /\ depth <= MaxDepth
=============================================================================
