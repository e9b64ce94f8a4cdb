------------------------------ MODULE PathWalk ------------------------------
(***************************************************************************)
(* Walking a compiled path over a data graph (path.rs, Path::eval_sets and *)
(* walk): all focus nodes at once, as pairs of an origin (a position in    *)
(* the focus list) and a node reached from there.  A call of walk is a     *)
(* frame of a stack; what it gives back is a set, since every list of      *)
(* pairs is sorted and freed of repeats before it is used.                 *)
(***************************************************************************)
EXTENDS PathCompile, ValueSets

CONSTANTS
    PathGraph,      \* the shapes graph with the paths
    Roots,          \* the paths to walk
    DataGraphs,     \* the data graphs to walk them over
    FocusLists      \* the focus lists to start from

VARIABLES
    root, data, focus, reverse,     \* what is asked; reverse for eval_inverse
    pc,         \* compile, walk, rows, done, refused
    path,       \* the compiled path
    stack,      \* the calls of walk that have not returned, the last one on top
    reached,    \* what the last call gave back, if its caller has not taken it
    b           \* the builder, and then the value sets

question == <<g, root, data, focus, reverse>>
vars == <<question, pc, path, stack, reached, b>>

-----------------------------------------------------------------------------

\* probe: one predicate from every pair.
Probe(input, p, rev) ==
    {<<pair[1], IF rev THEN t[1] ELSE t[3]>> : <<pair, t>> \in
        {<<x, y>> \in input \X data : y[2] = p /\ x[2] = IF rev THEN y[3] ELSE y[1]}}

\* A call of walk.  taken is what it has put out, seen what a closure has found,
\* frontier what goes into the next call and at counts the calls of a list.
Frame(of, input, rev) ==
    [path |-> of, reverse |-> rev, at |-> 1, frontier |-> input, seen |-> {},
     taken |-> IF of.op \in {"zeroOrMore", "zeroOrOne"} THEN input ELSE {}]

Top == Last(stack)
Op == Top.path.op

\* The argument the top call walks next; a sequence runs backwards in reverse.
Arg(frame) ==
    LET args == frame.path.args
    IN  IF frame.path.op = "sequence" /\ frame.reverse
        THEN args[Len(args) + 1 - frame.at] ELSE args[frame.at]

\* What is left to be called from the top.
MoreToCall ==
    CASE Op \in {"sequence", "alternative"} ->
            Top.at <= Len(Top.path.args) /\ (Op = "sequence" => Top.frontier # {})
      [] Op \in {"zeroOrMore", "oneOrMore"} -> Top.frontier # {}
      [] OTHER -> Top.at = 1

Result == IF Op = "sequence" THEN Top.frontier ELSE Top.taken

\* Mutants of Found: only the nodes are remembered, not where they were
\* reached from; nothing is remembered.
Found_ByNode(next) == {pair \in next : \A q \in Top.seen : q[2] # pair[2]}
Found_Anything(next) == next

\* Dropping pairs already expanded is what terminates on a cycle.
Found(next) == next \ Top.seen

\* The top call with what its own call gave back.
Taking(next) ==
    CASE Op = "sequence" -> [Top EXCEPT !.frontier = next, !.at = @ + 1]
      [] Op \in {"alternative", "zeroOrOne", "inverse"} ->
            [Top EXCEPT !.taken = @ \cup next, !.at = @ + 1]
      [] OTHER ->
            [Top EXCEPT !.taken = @ \cup Found(next), !.seen = @ \cup Found(next),
                        !.frontier = Found(next)]

Pairs == {<<i, focus[i]>> : i \in DOMAIN focus}

-----------------------------------------------------------------------------

Init ==
    /\ g = PathGraph
    /\ root \in Roots
    /\ data \in DataGraphs
    /\ focus \in FocusLists
    /\ reverse \in BOOLEAN
    /\ pc = "compile"
    /\ path = {}
    /\ stack = <<>>
    /\ reached = {}
    /\ b = WithCapacity

Compile ==
    /\ pc = "compile"
    /\ path' = PathOf(root)
    /\ IF path' = {}
       THEN pc' = "refused" /\ UNCHANGED stack
       ELSE /\ pc' = "walk"
            /\ \E compiled \in path' : stack' = <<Frame(compiled, Pairs, reverse)>>
    /\ UNCHANGED <<question, reached, b>>

\* The top call has a pending answer to take.
Waiting == reached # {}
Walking == pc = "walk" /\ stack # <<>>

\* A predicate is looked up for the whole batch.
WalkPredicate ==
    /\ Walking /\ ~Waiting /\ Op = "predicate"
    /\ reached' = {Probe(Top.frontier, Top.path.p, Top.reverse)}
    /\ stack' = Front(stack)
    /\ UNCHANGED <<question, pc, path, b>>

\* A call of walk for an argument; an inverse path turns the direction round.
WalkArgument ==
    /\ Walking /\ ~Waiting /\ Op # "predicate" /\ MoreToCall
    /\ stack' = Append(stack, Frame(IF Op \in {"sequence", "alternative"} THEN Arg(Top)
                                                                      ELSE Top.path.args[1],
                                    Top.frontier, Top.reverse # (Op = "inverse")))
    /\ UNCHANGED <<question, pc, path, reached, b>>

TakeAnswer ==
    /\ Walking /\ Waiting
    /\ \E next \in reached : stack' = Append(Front(stack), Taking(next))
    /\ reached' = {}
    /\ UNCHANGED <<question, pc, path, b>>

ReturnFromWalk ==
    /\ Walking /\ ~Waiting /\ Op # "predicate" /\ ~MoreToCall
    /\ reached' = {Result}
    /\ stack' = Front(stack)
    /\ UNCHANGED <<question, pc, path, b>>

Walked == pc = "walk" /\ stack = <<>>

\* One row for each position of the focus list, in order.
GroupRow ==
    /\ Walked /\ Len(b.focus) < Len(focus)
    /\ LET origin == Len(b.focus) + 1
           mine == {pair \in UNION reached : pair[1] = origin}
       IN  b' = PushRow(b, focus[origin], InOrder({pair[2] : pair \in mine}))
    /\ UNCHANGED <<question, pc, path, stack, reached>>

FinishRows ==
    /\ Walked /\ Len(b.focus) = Len(focus)
    /\ b' = Finish(b)
    /\ pc' = "done"
    /\ UNCHANGED <<question, path, stack, reached>>

Next == \/ Compile \/ WalkPredicate \/ WalkArgument \/ TakeAnswer \/ ReturnFromWalk
        \/ GroupRow \/ FinishRows

\* One thread walks to the end.
Spec == Init /\ [][Next]_vars /\ WF_vars(Next)
=============================================================================
