----------------------------- MODULE PathCompile -----------------------------
(***************************************************************************)
(* Property paths read from a shapes graph (path.rs, Path::compile): a     *)
(* tree of operators over predicates, or a refusal.  A compiled path is a  *)
(* record [op, p, args].                                                   *)
(***************************************************************************)
EXTENDS ShapeReading

CONSTANT MaxPathDepth   \* compile_at's MAX_DEPTH

ASSUME MaxPathDepthAssumption == MaxPathDepth \in Nat

\* The predicates that make a blank node a path, in the order they are looked
\* for, and the path it is then.
Forms == <<
    [p |-> "inversePath", op |-> "inverse"],
    [p |-> "alternativePath", op |-> "alternative"],
    [p |-> "zeroOrMorePath", op |-> "zeroOrMore"],
    [p |-> "oneOrMorePath", op |-> "oneOrMore"],
    [p |-> "zeroOrOnePath", op |-> "zeroOrOne"]>>

Present(n) == SelectSeq(Forms, LAMBDA form : Object(n, form.p) # {})

\* The operator of a blank node and its operands: a list is a sequence, even
\* where the node carries an operator too.
Shape(n) ==
    IF Object(n, "first") # {} \/ Present(n) = <<>>
    THEN [op |-> "sequence", args |-> Members(n)]
    ELSE LET form == Head(Present(n))
             operand == CHOOSE t \in Object(n, form.p) : TRUE
         IN  [op |-> form.op,
              args |-> IF form.op = "alternative" THEN Members(operand) ELSE <<operand>>]

\* Mutant of EnoughArgs: a list of one will do.
EnoughArgs_One(shape) == shape.args # <<>>

\* Sequences and alternatives have two members at least.
EnoughArgs(shape) ==
    Len(shape.args) >= IF shape.op \in {"sequence", "alternative"} THEN 2 ELSE 1

IsLiteral(n) == n \in DOMAIN g.lex

\* The ways to pick one of what of gives for each member of a sequence: one way, or
\* none when some member gives nothing.
OneOfEach(seq, of(_)) ==
    FoldLeft(LAMBDA ways, x : {Append(way, y) : way \in ways, y \in of(x)}, {<<>>}, seq)

\* compile_at, from depth 0: the path, or nothing if it is refused.
PathOf(root) ==
    LET compiled[n \in Nat, depth \in Nat] ==
            IF depth > MaxPathDepth THEN {}
            ELSE IF n \in g.iris THEN {[op |-> "predicate", p |-> n, args |-> <<>>]}
            ELSE IF IsLiteral(n) THEN {}
            ELSE UNION {{[op |-> shape.op, p |-> 0, args |-> args] :
                            args \in OneOfEach(shape.args, LAMBDA arg : compiled[arg, depth + 1])} :
                        shape \in {s \in {Shape(n)} : EnoughArgs(s)}}
    IN  compiled[root, 0]
=============================================================================
