---------------------------- MODULE DescentBounds ----------------------------
(***************************************************************************)
(* What the recursion guard comes to below a shape from which no shape     *)
(* that reaches itself can be reached: it never filters, and nesting is    *)
(* bounded by the shapes.  This is the last of the three grounds of        *)
(* is_focus_separable, and the reason why Error::Recursion is about shapes *)
(* and not about data.                                                     *)
(***************************************************************************)
EXTENDS DescentStack

Ranks == [Shapes -> 0..(Cardinality(Shapes) - 1)]

\* A set of shapes that refer to each other only, and a rank that falls along
\* every reference: there is one iff none of them can reach itself.
IsRank(within, rank) ==
    \A s \in within : \A t \in Refs[s] : t \in within /\ rank[t] < rank[s]

\* The shapes from which no shape that reaches itself can be reached: all of
\* them, where has_cycle answers false.
Acyclic ==
    {s \in Shapes : \E within \in SUBSET Shapes : \E rank \in Ranks :
                        s \in within /\ IsRank(within, rank)}

\* The shape the driver called is such a one.
Calm == frames # <<>> /\ frames[1].id \in Acyclic

\* "The guard only ever filters when a shape is its own ancestor"
\* (is_focus_separable): where there is no cycle no shape that can be entered
\* from within has a pair in the visited set, so the filter never drops a node.
GuardIdle ==
    Calm => \A s \in Callable, n \in Nodes : <<s, n>> \notin seen

\* Where there is no cycle the depth is bounded by the shapes, whatever the
\* data: Error::Recursion needs at least MaxDepth shapes or a recursive one.
DepthByShapes == Calm => depth <= Cardinality(Shapes)
=============================================================================
