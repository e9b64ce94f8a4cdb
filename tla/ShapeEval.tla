------------------------------ MODULE ShapeEval ------------------------------
(***************************************************************************)
(* Compiled shapes and what one constraint makes of one focus-to-values    *)
(* relation (shapes.rs, valueset.rs, Engine::eval).  A constraint that     *)
(* needs no other shape (Direct) is evaluated in one go.  One that asks    *)
(* about other shapes (Asking) puts its questions one by one, and each     *)
(* answer decides whether the next is put at all.                          *)
(*                                                                         *)
(* Terms are numbers, ordered as TermId is.  A shape is a record           *)
(*   [deactivated, path, values, sev, sevOf, targets, selector, where,     *)
(*    constraints]                                                         *)
(* and the data graph a record [all, edges, lists, reifiers, lang, rank]:  *)
(* its nodes, what each path reaches, the well-formed lists, the reifiers  *)
(* of a statement, the language tag of a literal and where it stands among *)
(* the values it can be compared with.  "An optional x" is a set of at     *)
(* most one x.                                                             *)
(*                                                                         *)
(* What a query or a node expression answers is a table in the shape, of   *)
(* what it is asked about; one that cannot be run or evaluated for         *)
(* something has no entry for it, and asking ends in an error.  selector   *)
(* is the SPARQL target of a shape: none, one that runs (what it selects   *)
(* is among the targets) or one that fails.                                *)
(***************************************************************************)
EXTENDS Naturals, Sequences, FiniteSets, SequencesExt

CONSTANTS
    Nodes,      \* TermIds of the data graph
    Defs,       \* the compiled shapes graph: a record for each shape
    Predicates, \* the paths that are a single predicate
    MaxVisits   \* how many shapes property_paths visits before it gives up

ASSUME NodesAssumption == Nodes \subseteq Nat /\ IsFiniteSet(Nodes)
ASSUME VisitsAssumption == MaxVisits \in Nat

Shapes == DOMAIN Defs

IsSeq(seq) == seq \in Seq(ToSet(seq))

\* No path: a node shape, whose value nodes are its focus nodes.
NoPath == "no path"

\* A result: where it was found, at which value (optional), by which predicate
\* if not by the shape's own path, and how severe: an annotation of the
\* constraint goes before the shape's severity.
Finding(s, component, focus, value) ==
    [shape |-> s, component |-> component, focus |-> focus, value |-> value, path |-> {},
     sev |-> IF component \in DOMAIN Defs[s].sevOf THEN Defs[s].sevOf[component]
             ELSE Defs[s].sev]

-----------------------------------------------------------------------------
(* The focus-to-values relation. *)

\* A set in id order: each place has the one with as many before it.
Sorted(nodes) ==
    [i \in 1..Cardinality(nodes) |->
        CHOOSE n \in nodes : Cardinality({m \in nodes : m < n}) = i - 1]

\* path_values: what the path reaches from one node, a set in id order.
PathValues(data, path, node) == Sorted(data.edges[path][node])

\* Every sh:values expression can be evaluated at each of the focus nodes.
Valued(s, focus) == \A of \in Defs[s].values : ToSet(focus) \subseteq DOMAIN of

\* The value nodes of one focus node: sh:values goes before the path, and a
\* shape with neither has the node itself.
ValuesOf(data, s, node) ==
    IF Defs[s].values # {} THEN Sorted(UNION {of[node] : of \in Defs[s].values})
    ELSE IF Defs[s].path = NoPath THEN <<node>>
    ELSE PathValues(data, Defs[s].path, node)

\* ValueSets: one row per focus node, repeats included.
Rows(data, s, focus) ==
    [i \in 1..Len(focus) |-> [focus |-> focus[i], values |-> ValuesOf(data, s, focus[i])]]

\* all_values: the rows end to end, a value reached from two rows twice.
AllValues(rows) == FlattenSeq([i \in 1..Len(rows) |-> rows[i].values])

-----------------------------------------------------------------------------
(* Constraints that need no other shape. *)

Asking == {"not", "and", "or", "xone", "node", "qualified", "reifier",
           "member", "some", "nodeBy"}

\* The shapes as the compiler leaves them: every reference is to a shape of the
\* graph, and what is named is a node or leads to nodes.
ConstraintOK(c) ==
    /\ c.kind = "property" => c.shape \in Shapes
    /\ c.kind \in Asking \ {"nodeBy"} => c.shapes \in Seq(Shapes)
    /\ c.kind \in {"member", "reifier"} => c.shapes # <<>>
    /\ c.kind = "nodeBy" =>
          DOMAIN c.names \subseteq Nodes /\ c.names \in [DOMAIN c.names -> Seq(Shapes)]
ShapeOK(shape) ==
    /\ shape.targets \subseteq Nodes /\ shape.where \subseteq Shapes
    /\ \A of \in shape.values :
          DOMAIN of \subseteq Nodes /\ of \in [DOMAIN of -> SUBSET Nodes]
    /\ IsSeq(shape.constraints)
    /\ \A i \in DOMAIN shape.constraints : ConstraintOK(shape.constraints[i])

ASSUME DefsAssumption ==
    IsFiniteSet(Shapes) /\ \A s \in Shapes : ShapeOK(Defs[s])

\* The data a run is about: the paths of the shapes, the lists and the
\* reifiers lead to its nodes.
DataOK(data) ==
    /\ data.all \subseteq Nodes
    /\ \A s \in Shapes : Defs[s].path # NoPath => Defs[s].path \in DOMAIN data.edges
    /\ \A p \in DOMAIN data.edges : data.edges[p] \in [Nodes -> SUBSET Nodes]
    /\ \A v \in DOMAIN data.lists : data.lists[v] \in Seq(Nodes)
    /\ \A st \in DOMAIN data.reifiers : data.reifiers[st] \in Seq(Nodes)

\* What from reaches over a relation, from itself included.
Closure(relation, from) ==
    LET reach[n \in 0..Cardinality(DOMAIN relation)] ==
            IF n = 0 THEN {from} ELSE UNION {{x} \cup relation[x] : x \in reach[n - 1]}
    IN  reach[Cardinality(DOMAIN relation)]

\* subclasses and instances_of: the class hierarchy is the data graph's.
Subclasses(data, class) == {x \in Nodes : class \in Closure(data.edges["sub"], x)}
InstancesOf(data, classes) ==
    {x \in Nodes : \E class \in classes : data.edges["type"][x] \cap Subclasses(data, class) # {}}

\* The predicate a property shape's path is, if it is a single one.
AsPredicate(s) == {Defs[s].path} \cap Predicates
DeclaredPaths(s) ==
    UNION {AsPredicate(c.shape) : c \in {c \in ToSet(Defs[s].constraints) : c.kind = "property"}}

\* The shapes composed with by sh:node, sh:and, sh:or and sh:xone, in order.
Composed(s) ==
    FlattenSeq([i \in DOMAIN Defs[s].constraints |->
        LET c == Defs[s].constraints[i]
        IN  IF c.kind \in {"node", "and", "or", "xone"} THEN c.shapes ELSE <<>>])

\* Mutant of PropertyPathsWalk: what is left to visit is replaced, not added to.
PropertyPathsWalk_Replaces(s) ==
    FoldLeft(LAMBDA walk, k :
                 IF walk.todo = <<>> THEN walk
                 ELSE [todo |-> Composed(Last(walk.todo)),
                       paths |-> walk.paths \cup DeclaredPaths(Last(walk.todo))],
             [todo |-> <<s>>, paths |-> {}],
             [k \in 1..MaxVisits |-> k])

\* property_paths: last in, first out, nothing marked as visited, and cut off
\* after MaxVisits shapes.
PropertyPathsWalk(s) ==
    FoldLeft(LAMBDA walk, k :
                 IF walk.todo = <<>> THEN walk
                 ELSE [todo |-> Front(walk.todo) \o Composed(Last(walk.todo)),
                       paths |-> walk.paths \cup DeclaredPaths(Last(walk.todo))],
             [todo |-> <<s>>, paths |-> {}],
             [k \in 1..MaxVisits |-> k])

PropertyPaths == [s \in Shapes |-> PropertyPathsWalk(s).paths]

\* What a closed shape permits a focus node: what it declares itself or, by
\* types, what the shapes about the node's classes and their superclasses
\* declare and compose (c.about: the shapes declared at a class or aimed at it).
AboutTypes(data, c, node) ==
    UNION {c.about[class] : class \in
              UNION {Closure(data.edges["sub"], type) : type \in data.edges["type"][node]}}
Permitted(data, s, c, node) ==
    c.ignored \cup
        IF c.byTypes
        THEN {"type"} \cup UNION {PropertyPaths[t] : t \in AboutTypes(data, c, node)}
        ELSE DeclaredPaths(s)

-----------------------------------------------------------------------------

\* Compared when both have a place in the same order.
Compares(data, v, w, strict) ==
    \E i \in data.rank[v], j \in data.rank[w] : IF strict THEN i < j ELSE i <= j

Repeats(seq) == Len(seq) > Cardinality(ToSet(seq))

\* sh:uniqueMembers: what is no list, or holds something twice.
NotDistinct(data) == {v \in Nodes : v \notin DOMAIN data.lists \/ Repeats(data.lists[v])}

\* A component's own validator: an ASK passes when it answers true, a SELECT
\* when it finds nothing.
Invalid(c, focus) ==
    {v \in Nodes : <<focus, v>> \in DOMAIN c.answers /\ (c.isAsk <=> c.answers[<<focus, v>>] = {})}

\* The values a per-value constraint faults in a row.  What a datatype, a
\* range or a pattern says of a value is looked up in c.bad; an expression
\* faults what it does not hold for.
BadValues(data, c, row) ==
    CASE c.kind = "value" -> c.bad
      [] c.kind = "expression" -> {v \in DOMAIN c.holds : ~c.holds[v]}
      [] c.kind = "class" -> Nodes \ InstancesOf(data, c.classes)
      [] c.kind = "rootClass" -> Nodes \ Subclasses(data, c.root)
      [] c.kind = "uniqueMembers" -> NotDistinct(data)
      [] c.kind = "disjoint" -> data.edges[c.other][row.focus]
      [] c.kind \in {"equals", "subsetOf"} -> Nodes \ data.edges[c.other][row.focus]
      [] c.kind = "custom" -> Invalid(c, row.focus)
      [] OTHER -> {}

\* per_value!: a result for each of them, in row order.
PerValue(data, s, c, row) ==
    LET bad == BadValues(data, c, row)
        faults == SelectSeq(row.values, LAMBDA v : v \in bad)
    IN  [i \in DOMAIN faults |-> Finding(s, c.kind, row.focus, {faults[i]})]

\* How many results about the row as a whole it is worth.
RowFaults(data, c, row) ==
    LET tags == UNION {data.lang[v] : v \in ToSet(row.values)}
        using(tag) == {i \in DOMAIN row.values : tag \in data.lang[row.values[i]]}
    IN  CASE c.kind = "minCount" -> IF Len(row.values) < c.n THEN 1 ELSE 0
          [] c.kind = "maxCount" -> IF Len(row.values) > c.n THEN 1 ELSE 0
          [] c.kind = "hasValue" -> IF Contains(row.values, c.wanted) THEN 0 ELSE 1
          \* one for each tag used more than once
          [] c.kind = "uniqueLang" -> Cardinality({tag \in tags : Cardinality(using(tag)) > 1})
          [] OTHER -> 0

\* sh:equals faults both sides, sh:lessThan every pair that is out of order or
\* cannot be compared.
Pairwise(data, s, c, row) ==
    LET others == PathValues(data, c.other, row.focus)
        missing == SelectSeq(others, LAMBDA v : ~Contains(row.values, v))
        found(values) == [i \in DOMAIN values |-> Finding(s, c.kind, row.focus, {values[i]})]
        outOfOrder(v) == SelectSeq(others, LAMBDA w : ~Compares(data, v, w, c.kind = "lessThan"))
    IN  CASE c.kind = "equals" -> found(missing)
          [] c.kind \in {"lessThan", "lessThanOrEquals"} ->
                FlattenSeq([i \in DOMAIN row.values |->
                    found([j \in DOMAIN outOfOrder(row.values[i]) |-> row.values[i]])])
          [] OTHER -> <<>>

\* sh:closed: a result for every statement whose predicate is not permitted,
\* with that predicate as its path.
NotPermitted(data, s, c, row) ==
    LET predicates == SetToSeq((DOMAIN data.edges \cap Predicates)
                                   \ Permitted(data, s, c, row.focus))
        found(p) == LET values == PathValues(data, p, row.focus)
                    IN  [i \in DOMAIN values |->
                            [Finding(s, c.kind, row.focus, {values[i]}) EXCEPT !.path = {p}]]
    IN  FlattenSeq([i \in DOMAIN predicates |-> found(predicates[i])])

\* eval_sparql, per focus node: c.solutions has the rows of the query, each with
\* what it binds of this, value and path; what it binds value to may be a term
\* the store does not know.
Solved(s, c, row) ==
    LET rows == c.solutions[row.focus]
        failures == IF ~c.isAsk THEN rows
                    ELSE IF rows = <<>> THEN <<[this |-> {}, value |-> {}, path |-> {}]>>
                    ELSE <<>>
        focus(r) == IF r.this = {} THEN row.focus ELSE CHOOSE n \in r.this : TRUE
        sev == IF c.sev = {} THEN Defs[s].sev ELSE CHOOSE l \in c.sev : TRUE
    IN  [i \in DOMAIN failures |->
            [Finding(s, c.kind, focus(failures[i]),
                     IF failures[i].value = {} THEN {focus(failures[i])}
                     ELSE UNION failures[i].value)
                EXCEPT !.path = failures[i].path, !.sev = sev]]

\* sh:uniqueValuesFor compares the keys of all rows, each with each.
Clashes(data, c, rows, i) ==
    LET key(j) == data.edges[c.key][rows[j].focus]
    IN  key(i) # {} /\ \E j \in 1..Len(rows) : j # i /\ key(j) = key(i)

\* The kinds evaluated here, by what they look at.
PerValueKinds == {"value", "expression", "class", "rootClass", "uniqueMembers", "disjoint",
                  "equals", "subsetOf", "custom"}
PerRowKinds == {"minCount", "maxCount", "hasValue", "uniqueLang"}
PairKinds == {"equals", "lessThan", "lessThanOrEquals"}
DirectKinds == PerValueKinds \cup PerRowKinds \cup PairKinds \cup {"closed", "sparql", "unique"}

\* The query or the expression of the constraint cannot be run or evaluated for
\* one of the rows: nothing is made of any of them.
CannotRun(c, rows) ==
    \E row \in ToSet(rows) :
        \/ c.kind = "sparql" /\ row.focus \notin DOMAIN c.solutions
        \/ c.kind = "expression" /\ \E v \in ToSet(row.values) : v \notin DOMAIN c.holds
        \/ c.kind = "custom" /\ \E v \in ToSet(row.values) :
                                  <<row.focus, v>> \notin DOMAIN c.answers

\* The results about one row.
DirectRow(data, s, c, rows, i) ==
    LET row == rows[i]
    IN  CASE c.kind \in PerValueKinds ->
                PerValue(data, s, c, row) \o Pairwise(data, s, c, row)
          [] c.kind \in PairKinds -> Pairwise(data, s, c, row)
          [] c.kind \in PerRowKinds ->
                [k \in 1..RowFaults(data, c, row) |-> Finding(s, c.kind, row.focus, {})]
          [] c.kind = "closed" -> NotPermitted(data, s, c, row)
          [] c.kind = "sparql" -> Solved(s, c, row)
          [] c.kind = "unique" ->
                IF Clashes(data, c, rows, i) THEN <<Finding(s, c.kind, row.focus, {})>> ELSE <<>>

Direct(data, s, c, rows) ==
    FlattenSeq([i \in DOMAIN rows |-> DirectRow(data, s, c, rows, i)])

-----------------------------------------------------------------------------
(* Constraints that ask other shapes. *)

\* sh:reifierShape is about statements: where the path is no single predicate
\* there is nothing to look at, and nothing to find.
Skipped(s, c) == c.kind = "reifier" /\ AsPredicate(s) = {}

\* The expression that names the shapes can be evaluated at the value.
Expressible(c, value) == c.kind = "nodeBy" => value \in DOMAIN c.names

\* What a constraint asks of a value of a row: which shape, over which nodes.
\* sh:memberShape and sh:reifierShape validate several nodes in one go, the
\* rest ask conforms of the value itself.
Questions(data, s, c, focus, value) ==
    CASE c.kind = "member" ->
            IF value \in DOMAIN data.lists
            THEN <<[shape |-> c.shapes[1], focus |-> data.lists[value]]>>
            ELSE <<>>
      [] c.kind = "reifier" ->
            LET statement == <<focus, Defs[s].path, value>>
            IN  IF statement \in DOMAIN data.reifiers
                THEN <<[shape |-> c.shapes[1], focus |-> data.reifiers[statement]]>>
                ELSE <<>>
      [] c.kind = "nodeBy" ->
            [i \in 1..Len(c.names[value]) |-> [shape |-> c.names[value][i], focus |-> <<value>>]]
      [] OTHER ->
            [i \in 1..Len(c.shapes) |-> [shape |-> c.shapes[i], focus |-> <<value>>]]

\* The answers so far leave the rest of the questions unasked.
Settled(c, ans) ==
    /\ ans # <<>>
    /\ \/ c.kind = "and" /\ ~Last(ans)
       \/ c.kind \in {"or", "some"} /\ Last(ans)
       \/ c.kind = "qualified" /\ (~ans[1] \/ (Len(ans) > 1 /\ Last(ans)))

Yes(ans) == Len(SelectSeq(ans, LAMBDA a : a))
No(ans) == Len(ans) - Yes(ans)

\* How many results the answers about one value are worth.
Faults(c, ans) ==
    CASE c.kind = "not" -> Yes(ans)
      [] c.kind \in {"node", "nodeBy"} -> No(ans)
      [] c.kind = "and" -> IF No(ans) > 0 THEN 1 ELSE 0
      [] c.kind = "or" -> IF Yes(ans) = 0 THEN 1 ELSE 0
      [] c.kind = "xone" -> IF Yes(ans) # 1 THEN 1 ELSE 0
      [] c.kind = "member" -> IF Yes(ans) = 0 THEN 1 ELSE 0
      [] c.kind = "reifier" -> IF ans = <<>> /\ c.required THEN 1 ELSE No(ans)
      [] OTHER -> 0

AboutValue(s, c, focus, value, ans) ==
    [i \in 1..Faults(c, ans) |-> Finding(s, c.kind, focus, {value})]

\* Whether the value counts towards what is asked of the row.
Counted(c, ans) ==
    \/ c.kind = "some" /\ Yes(ans) = 1
    \/ c.kind = "qualified" /\ ans[1] /\ Yes(ans) = 1

\* The results about a row in which n values counted.
AboutRow(s, c, focus, n) ==
    LET result(component) == <<Finding(s, component, focus, {})>>
    IN  CASE c.kind = "some" -> IF n = 0 THEN result("some") ELSE <<>>
          [] c.kind = "qualified" ->
                (IF n < c.min THEN result("qualifiedMin") ELSE <<>>)
                  \o (IF n > c.max THEN result("qualifiedMax") ELSE <<>>)
          [] OTHER -> <<>>

-----------------------------------------------------------------------------
(* References among shapes. *)

\* The shapes a constraint can hand work to.
Named(c) ==
    CASE c.kind \in Asking \ {"nodeBy"} -> ToSet(c.shapes)
      [] c.kind = "property" -> {c.shape}
      [] c.kind = "nodeBy" -> UNION {ToSet(c.names[v]) : v \in DOMAIN c.names}
      [] OTHER -> {}

Refs == [s \in Shapes |-> UNION {Named(c) : c \in ToSet(Defs[s].constraints)}]

\* What is evaluated for the shape does not give an answer to everything.
CanFail(s) ==
    \/ Defs[s].selector = "fails"
    \/ \E of \in Defs[s].values : Nodes \ DOMAIN of # {}
    \/ \E c \in ToSet(Defs[s].constraints) :
          \/ c.kind = "sparql" /\ Nodes \ DOMAIN c.solutions # {}
          \/ c.kind = "custom" /\ (Nodes \X Nodes) \ DOMAIN c.answers # {}
          \/ c.kind = "expression" /\ Nodes \ DOMAIN c.holds # {}
          \/ c.kind = "nodeBy" /\ Nodes \ DOMAIN c.names # {}

\* referenced_shapes: what the compiler can see.  sh:nodeByExpression names
\* its shapes only when it is evaluated; sh:targetWhere counts as a reference.
ReferencedShapes(s) ==
    (UNION {Named(c) : c \in {c \in ToSet(Defs[s].constraints) : c.kind # "nodeBy"}})
        \cup Defs[s].where

\* has_cycle: some shape of the graph reaches itself.
HasCycle(graph) ==
    LET reach[n \in 0..Cardinality(graph)] ==
            [s \in graph |->
                ReferencedShapes(s)
                  \cup IF n = 0 THEN {}
                       ELSE UNION {reach[n - 1][t] : t \in ReferencedShapes(s)}]
    IN  \E s \in graph : s \in reach[Cardinality(graph)][s]

\* mints_terms and the constraint that reads across focus nodes.
MintsTerms(graph) ==
    \E s \in graph :
        \/ Defs[s].values # {} \/ Defs[s].selector # "none"
        \/ \E c \in ToSet(Defs[s].constraints) :
              c.kind \in {"sparql", "custom", "expression", "nodeBy"}
ReadsAcross(graph) ==
    \E s \in graph : \E c \in ToSet(Defs[s].constraints) : c.kind = "unique"

\* Shapes::is_focus_separable.
IsFocusSeparable(graph) == ~MintsTerms(graph) /\ ~ReadsAcross(graph) /\ ~HasCycle(graph)
=============================================================================
