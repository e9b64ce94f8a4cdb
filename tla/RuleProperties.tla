--------------------------- MODULE RuleProperties ---------------------------
(***************************************************************************)
(* What a pass of rules promises: the result of running the levels one     *)
(* after the other, each on the graph the levels before it left, whatever  *)
(* the order of the shapes and of the rules in one level.                  *)
(***************************************************************************)
EXTENDS Rules

\* The rules that may run, each with its shape.
Runnable(shapes) ==
    UNION {{s} \X {s.rules[i] : i \in Active(s)} : s \in {t \in ToSet(shapes) : ~t.off}}

LevelOf(x) == <<x[1].order, x[2].order>>

Levels(shapes) == {LevelOf(x) : x \in Runnable(shapes)}

RunAt(shapes, l) == {x \in Runnable(shapes) : LevelOf(x) = l}

\* The levels from the first to the last: each place has the one with as many
\* before it.
InOrder(shapes) ==
    LET levels == Levels(shapes)
    IN  [i \in 1 .. Cardinality(levels) |->
            CHOOSE l \in levels :
                Cardinality({m \in levels : Precedes(m, l)}) = i - 1]

\* One level: everything its rules infer from the graph it finds.
AfterLevel(shapes, g, l) ==
    g \cup UNION {UNION {Inferred(x[2], n, g) : n \in FiringNodes(x[1], x[2], g)} :
                     x \in RunAt(shapes, l)}

\* The graphs that none, one, two, ... of the levels leave.
AfterLevels(shapes, g) ==
    LET levels == InOrder(shapes)
        after[i \in 0 .. Len(levels)] ==
            IF i = 0 THEN g ELSE AfterLevel(shapes, after[i - 1], levels[i])
    IN  after

ByLevel(shapes, g) == AfterLevels(shapes, g)[Len(InOrder(shapes))]

\* A rule cannot be run on a graph: the target of its shape cannot be selected,
\* or the rule fails at a node its shape selects.
FailsOn(x, g) == x[1].target.fails \/ \E n \in Focus(x[1], g) : Faults(x[2], n, g)

\* Some rule cannot be run when its level comes.
WouldBreak(shapes, g) ==
    LET levels == InOrder(shapes)
        after  == AfterLevels(shapes, g)
    IN  \E i \in DOMAIN levels : \E x \in RunAt(shapes, levels[i]) : FailsOn(x, after[i - 1])

-----------------------------------------------------------------------------
\* `apply` returns the graph its levels infer one after the other: rules of
\* one level never see each other's triples, rules of a later one see them
\* all, and neither the order of the shapes nor that of a level's rules shows.
\* And what is returned is within the limit, if anything was inferred at all.
\* (A pass that is refused need not have been too large: merge holds what is
\* pushed against the limit, and repeats are pushed, too.)
PassIsByLevel ==
    status = "done" =>
        /\ ~in.iterated => current = ByLevel(in.shapes, in.data)
        /\ current = in.data \/ Cardinality(current) <= in.max

\* A target, a condition, an expression or a rule that cannot be run is never
\* passed over in silence: a pass that returns a graph met none at its level,
\* and one that reports an error did.
BrokenIsHeard ==
    ~in.iterated =>
        /\ status = "done" => ~WouldBreak(in.shapes, in.data)
        /\ status = "broken" => WouldBreak(in.shapes, in.data)

\* `apply_iterated` returns only a graph another pass would leave alone.
FixpointReached ==
    status = "done" /\ in.iterated /\ in.rounds > 0 =>
        ByLevel(in.shapes, current) = current

\* A run of rules ends, each of its passes and the passes themselves.
Ends == <>(status # "running")

=============================================================================
