------------------------------ MODULE NodeExpr ------------------------------
(***************************************************************************)
(* Node expressions (nodeexpr.rs, eval_at): from a node of the shapes      *)
(* graph and a focus node, if there is one, to a sequence of terms.  The   *)
(* first operator a blank node carries decides what it is.                 *)
(*                                                                         *)
(* An operator first has operands evaluated (Leading), then perhaps more   *)
(* that depend on what those gave (More), and makes a sequence of all of   *)
(* them (Value).  A result is a set of at most one sequence: {} is an      *)
(* error, which ends the evaluation wherever it occurs.                    *)
(*                                                                         *)
(* The operators of the sh: namespace that share a local name with one of  *)
(* shnex: are written with "sh:", the SPARQL functions with "sparql:".     *)
(* Values of a path are taken from the relation the path describes, which  *)
(* is what walking it comes to (PathProperties, RowsAreImages).            *)
(***************************************************************************)
EXTENDS PathProperties, Integers

CONSTANTS
    MaxExprDepth,       \* eval_at's MAX_DEPTH
    Questions,          \* what to evaluate: [graph, data, expr, focus, shapes, vars]
    Functions,          \* the SPARQL functions, as predicates
    Holds(_, _),        \* node_conforms: {TRUE}, {FALSE}, or {} where it fails
    Solve(_, _),        \* the values a query has for a focus, or {}
    Apply(_, _)         \* the value of a SPARQL function, if it has one, or {}

ASSUME MaxExprDepthAssumption == MaxExprDepth \in Nat

VARIABLES
    asked,      \* what is to be evaluated
    given       \* the result

-----------------------------------------------------------------------------
(* Terms.  A computed literal is found or interned by its canonical form,  *)
(* so it is numbered by its value; the numbers are within 499 of zero.     *)

IntLiteral(n) == 1500 + n
DecimalLiteral(n) == 2500 + n
BoolLiteral(yes) == IF yes THEN 901 ELSE 900

IsInteger(t) == t \in 1001..1999
NumberOf(t) ==
    IF IsInteger(t) THEN {t - 1500} ELSE IF t \in 2001..2999 THEN {t - 2500} ELSE {}

\* Only the lexical form true counts, of whatever datatype.
IsTrue(t) == t = BoolLiteral(TRUE) \/ (t \in DOMAIN g.lex /\ g.lex[t] = "true")
Truthy(seq) == seq # <<>> /\ IsTrue(seq[1])

IsBlank(n) == n \notin g.iris \cup DOMAIN g.lex \cup {Vocab.this}

Optional(S) == IF S = {} THEN <<>> ELSE <<CHOOSE x \in S : TRUE>>
Named(e, p) == CHOOSE x \in Object(e, p) : TRUE

FirstOf(seq) == IF seq = <<>> THEN {} ELSE {seq[1]}
Distinct(seq) == FoldLeft(LAMBDA kept, x : IF Contains(kept, x) THEN kept ELSE Append(kept, x),
                          <<>>, seq)
SortDedup(seq) == InOrder(ToSet(seq))

AllNodes == InOrder(UNION {{t[1], t[3]} : t \in data})

-----------------------------------------------------------------------------
(* Which operator. *)

Operators12 == <<
    "pathValues", "count", "distinct", "exists", "if", "concat", "sum", "min", "max",
    "limit", "offset", "intersection", "remove", "instancesOf", "orderBy", "var",
    "flatMap", "conformsToShape", "filterShape", "findFirst", "matchAll", "nodesMatching">>

Carried(e, names) == SelectSeq(names, LAMBDA p : Object(e, p) # {})
Calls(e) == {fn \in Functions : Object(e, fn) # {}}

FormOf(e) ==
    IF Carried(e, Operators12) # <<>> THEN Head(Carried(e, Operators12))
    ELSE IF Calls(e) # {} THEN "call"
    ELSE IF Object(e, "first") # {} /\ IsList(e) THEN "list"
    ELSE IF Object(e, "path") # {} THEN "path"
    ELSE IF Object(e, "sh:filterShape") # {} THEN "sh:filterShape"
    ELSE IF \E l \in Object(e, "sh:union") : IsList(l) THEN "sh:union"
    ELSE IF \E l \in Object(e, "sh:intersection") : IsList(l) THEN "sh:intersection"
    ELSE IF \A t \in g.triples : t[1] # e THEN "nothing"
    ELSE "unsupported"

\* The function called and the list of its arguments.
Function(e) == CHOOSE fn \in Calls(e) : TRUE
ListOf(e, form) ==
    CASE form = "call" -> Named(e, Function(e))
      [] form = "list" -> e
      [] OTHER -> Named(e, form)

-----------------------------------------------------------------------------
(* What is evaluated before the operator itself. *)

EachWith(exprs, f) == [i \in DOMAIN exprs |-> [expr |-> exprs[i], focus |-> f]]
Sub(e, p, f) == EachWith(Optional(Object(e, p)), f)
ForEach(expr, seq) == [i \in DOMAIN seq |-> [expr |-> expr, focus |-> {seq[i]}]]

OneOperand == {"count", "distinct", "exists", "if", "sum", "min", "max", "instancesOf"}
ListOperands == {"concat", "intersection", "conformsToShape", "call", "list",
                 "sh:union", "sh:intersection"}
Nodes12 == {"limit", "offset", "remove", "orderBy", "flatMap", "filterShape", "findFirst",
            "matchAll"}

\* The predicate whose object is the operand that defaults to the focus node.
OperandOf(form) ==
    CASE form \in Nodes12 -> "nodes"
      [] form = "pathValues" -> "focusNode"
      [] form \in {"path", "sh:filterShape"} -> "sh:nodes"
      [] OTHER -> "none"

Leading(form, e, f) ==
    CASE form \in OneOperand -> Sub(e, form, f)
      [] form \in ListOperands -> EachWith(Members(ListOf(e, form)), f)
      [] OTHER -> Sub(e, OperandOf(form), f)

\* The operand: what it evaluated to, or the focus node.
Inputs(form, e, f, r) ==
    IF Object(e, OperandOf(form)) = {} THEN Optional(f) ELSE r[1]

More(form, e, f, r) ==
    CASE form = "if" -> Sub(e, IF Truthy(r[1]) THEN "then" ELSE "else", f)
      [] form = "remove" -> Sub(e, "remove", f)
      [] form \in {"orderBy", "flatMap"} -> ForEach(Named(e, form), Inputs(form, e, f, r))
      [] OTHER -> <<>>

-----------------------------------------------------------------------------
(* The sequences the operators make of what was evaluated. *)

\* pathValues, and sh:path: the values from one start after the other.
PathValues(p, starts) ==
    IF PathOf(p) = {}
    THEN {}
    ELSE LET relation == Describes(p)
         IN  {FlattenSeq([i \in DOMAIN starts |->
                  InOrder({y[2] : y \in {x \in relation : x[1] = starts[i]}})])}

\* Adding what is a number; only integers add up to one.
Sum(values) ==
    LET total == FoldLeft(LAMBDA n, t : IF NumberOf(t) = {} THEN n
                                        ELSE n + (CHOOSE k \in NumberOf(t) : TRUE), 0, values)
    IN  IF \A i \in DOMAIN values : IsInteger(values[i])
        THEN IntLiteral(total) ELSE DecimalLiteral(total)

\* min and max: the first of two stays unless both are numbers and the second
\* is better, or, for min, as good.
Best(values, least) ==
    LET better(x, y) ==
            IF \E m \in NumberOf(x), n \in NumberOf(y) : (m < n) # least THEN y ELSE x
    IN  IF values = <<>> THEN <<>> ELSE <<FoldLeft(better, values[1], Tail(values))>>

\* An integer of the expression; nothing where it is none.
Count(e, p) == {t - 1500 : t \in {u \in Object(e, p) : IsInteger(u)}}
AtLeastZero(n) == IF n < 0 THEN 0 ELSE n

Limit(e, values) ==
    IF \E k \in Count(e, "limit") : AtLeastZero(k) < Len(values)
    THEN SubSeq(values, 1, AtLeastZero(CHOOSE k \in Count(e, "limit") : TRUE))
    ELSE values

Offset(e, values) ==
    LET k == IF Count(e, "offset") = {} THEN 0 ELSE CHOOSE n \in Count(e, "offset") : TRUE
    IN  SubSeq(values, AtLeastZero(k) + 1, Len(values))

\* Mutant of Intersection: it is left a sequence.
Intersection_Repeats(r) ==
    IF r = <<>> THEN <<>>
    ELSE SelectSeq(r[1], LAMBDA x : \A i \in DOMAIN r : Contains(r[i], x))

\* An intersection is a set, in the order of its first operand.
Intersection(r) ==
    IF r = <<>> THEN <<>>
    ELSE Distinct(SelectSeq(r[1], LAMBDA x : \A i \in DOMAIN r : Contains(r[i], x)))

Without(values, others) == SelectSeq(values, LAMBDA x : ~Contains(others, x))

\* The class with everything below it in the data.
Subclasses(class) ==
    LET below[S \in SUBSET Terms] ==
            LET more == S \cup {t[1] : t \in {u \in data : u[2] = Vocab.subClassOf /\ u[3] \in S}}
            IN  IF more = S THEN S ELSE below[more]
    IN  IF class \in Terms THEN below[{class}] ELSE {class}
InstancesOf(classes) ==
    InOrder({t[1] : t \in {u \in data : u[2] = Vocab.type
                                /\ \E i \in DOMAIN classes : u[3] \in Subclasses(classes[i])}})

\* No key sorts first, numbers by value, and what cannot be compared is equal.
KeyBelow(one, other) ==
    \/ one = {} /\ other # {}
    \/ \E x \in one, y \in other : \E m \in NumberOf(x), n \in NumberOf(y) : m < n

\* The stable insertion sort of a short list.
OrderBy(e, values, keys) ==
    LET reversed == \E t \in Object(e, "desc") : IsTrue(t)
        before(i, j) == IF reversed THEN KeyBelow(keys[j], keys[i]) ELSE KeyBelow(keys[i], keys[j])
        insert(sorted, i) ==
            LET stay == {k \in 0..Len(sorted) : k = 0 \/ ~before(i, sorted[k])}
            IN  InsertAt(sorted, (CHOOSE k \in stay : \A l \in stay : l <= k) + 1, i)
        positions == FoldLeft(insert, <<>>, [i \in DOMAIN values |-> i])
    IN  [i \in DOMAIN positions |-> values[positions[i]]]

Variable(e, f) ==
    LET names == Object(e, "var") \cap DOMAIN g.lex
        name == IF names = {} THEN "" ELSE g.lex[CHOOSE t \in names : TRUE]
    IN  IF name = "focusNode" THEN Optional(f)
        ELSE IF name \in DOMAIN asked.vars THEN <<asked.vars[name]>> ELSE <<>>

\* Does a node conform to a shape?  Without compiled shapes everything does.
Conforms(n, shape) == IF asked.shapes THEN Holds(n, shape) ELSE {TRUE}

ConformsToShape(r) ==
    IF Len(r) # 2 THEN {}
    ELSE IF r[1] = <<>> \/ r[2] = <<>> THEN {<<>>}
    ELSE {<<BoolLiteral(yes)>> : yes \in Conforms(r[1][1], r[2][1])}

FilterShape(shape, nodes) ==
    IF \E i \in DOMAIN nodes : Conforms(nodes[i], shape) = {}
    THEN {} ELSE {SelectSeq(nodes, LAMBDA n : Conforms(n, shape) = {TRUE})}

\* The first node whose answer is another than expected: no more is asked.
Stop(shape, nodes, expected) ==
    LET others == {i \in DOMAIN nodes : Conforms(nodes[i], shape) # {expected}}
    IN  {nodes[i] : i \in Least(others)}

FindFirst(shape, nodes) ==
    IF Stop(shape, nodes, FALSE) = {} THEN {<<>>}
    ELSE UNION {{<<n>> : yes \in Conforms(n, shape)} : n \in Stop(shape, nodes, FALSE)}

MatchAll(shape, nodes) ==
    IF Stop(shape, nodes, TRUE) = {} THEN {<<BoolLiteral(TRUE)>>}
    ELSE UNION {{<<BoolLiteral(yes)>> : yes \in Conforms(n, shape)} : n \in Stop(shape, nodes, TRUE)}

\* A SPARQL function takes the first value of each argument; only bound and
\* coalesce make something of an argument that has none.  (A test of one term
\* is given one argument.)
Call(fn, r) ==
    LET args == [i \in DOMAIN r |-> FirstOf(r[i])]
    IN  CASE fn = "sparql:bound" -> {<<BoolLiteral(r # <<>> /\ args[1] # {})>>}
          [] fn = "sparql:coalesce" ->
                {IF \E i \in DOMAIN args : args[i] # {}
                 THEN Optional(args[CHOOSE i \in Least({j \in DOMAIN args : args[j] # {}}) : TRUE])
                 ELSE <<>>}
          [] OTHER ->
                IF \E i \in DOMAIN args : args[i] = {} THEN {<<>>}
                ELSE Apply(fn, [i \in DOMAIN r |-> r[i][1]])

-----------------------------------------------------------------------------
(* The evaluation. *)

Value(form, e, f, r) ==
    LET inputs == Inputs(form, e, f, r)
    IN  CASE form = "pathValues" -> PathValues(Named(e, "pathValues"), inputs)
          [] form = "count" -> {<<IntLiteral(Len(r[1]))>>}
          [] form = "distinct" -> {Distinct(r[1])}
          [] form = "exists" -> {<<BoolLiteral(r[1] # <<>>)>>}
          [] form = "if" -> {IF Len(r) = 1 THEN <<>> ELSE r[2]}
          [] form = "sum" -> {<<Sum(r[1])>>}
          [] form \in {"min", "max"} -> {Best(r[1], form = "min")}
          [] form = "limit" -> {Limit(e, inputs)}
          [] form = "offset" -> {Offset(e, inputs)}
          [] form = "remove" -> {Without(inputs, Last(r))}
          [] form = "instancesOf" -> {InstancesOf(r[1])}
          [] form = "orderBy" ->
                LET keys == SubSeq(r, Len(r) - Len(inputs) + 1, Len(r))
                IN  {OrderBy(e, inputs, [i \in DOMAIN keys |-> FirstOf(keys[i])])}
          [] form = "var" -> {Variable(e, f)}
          [] form = "flatMap" -> {FlattenSeq(SubSeq(r, Len(r) - Len(inputs) + 1, Len(r)))}
          [] form = "filterShape" -> FilterShape(Named(e, form), inputs)
          [] form = "findFirst" -> FindFirst(Named(e, form), inputs)
          [] form = "matchAll" -> MatchAll(Named(e, form), inputs)
          [] form = "nodesMatching" -> FilterShape(Named(e, form), AllNodes)
          [] form = "path" -> {SortDedup(seq) : seq \in PathValues(Named(e, "path"), inputs)}
          [] form = "sh:filterShape" ->
                IF Object(e, "sh:nodes") = {} THEN {} ELSE FilterShape(Named(e, form), inputs)
          [] form = "nothing" -> {<<>>}
          [] form \in ListOperands /\ ~IsList(ListOf(e, form)) -> {}
          [] form \in {"concat", "list"} -> {FlattenSeq(r)}
          [] form = "intersection" -> {Intersection(r)}
          [] form = "conformsToShape" -> ConformsToShape(r)
          [] form = "call" -> Call(Function(e), r)
          [] form = "sh:union" -> {SortDedup(FlattenSeq(r))}
          [] form = "sh:intersection" -> {SortDedup(Intersection(r))}
          [] OTHER -> {}

RECURSIVE EvalAt(_, _, _)

\* The operands one after the other, until one fails.
EvalAll(calls, depth) ==
    LET values == [i \in DOMAIN calls |-> EvalAt(calls[i].expr, calls[i].focus, depth)]
    IN  IF \E i \in DOMAIN values : values[i] = {} THEN {}
        ELSE {[i \in DOMAIN values |-> CHOOSE seq \in values[i] : TRUE]}

EvalAt(e, f, depth) ==
    IF depth > MaxExprDepth THEN {}
    ELSE IF e = Vocab.this THEN {Optional(f)}
    ELSE IF Object(e, "select") # {} THEN Solve(Named(e, "select"), f)
    ELSE IF Object(e, "sparqlExpr") # {} THEN Solve(Named(e, "sparqlExpr"), f)
    ELSE IF ~IsBlank(e) THEN {<<e>>}
    ELSE LET form == FormOf(e)
         IN  UNION {UNION {Value(form, e, f, leading \o more) :
                              more \in EvalAll(More(form, e, f, leading), depth + 1)} :
                       leading \in EvalAll(Leading(form, e, f), depth + 1)}

\* A walk, or an expression: paths start from the focus node and from IRIs.
NoQuestion ==
    [graph |-> PathGraph, data |-> {}, expr |-> Vocab.this, focus |-> {},
     shapes |-> FALSE, vars |-> <<>>]
InitExpr ==
    \/ /\ Init
       /\ asked = NoQuestion
       /\ given = {}
    \/ /\ asked \in Questions /\ g = asked.graph /\ data = asked.data
       /\ root = Vocab.nil /\ focus = InOrder(asked.focus \cup g.iris) /\ reverse = FALSE
       /\ pc = "expression"
       /\ path = {} /\ stack = <<>> /\ reached = {} /\ b = WithCapacity
       /\ given = {}

\* eval: the expression is evaluated, once.
Eval ==
    /\ pc = "expression"
    /\ given' = EvalAt(asked.expr, asked.focus, 0)
    /\ pc' = "evaluated"
    /\ UNCHANGED <<question, path, stack, reached, b, asked>>

NextExpr == Eval \/ (UNCHANGED <<asked, given>> /\ Next)

\* Walks are fair, as they are by themselves.
SpecExpr == InitExpr /\ [][NextExpr]_<<vars, asked, given>> /\ WF_vars(Next)
=============================================================================
