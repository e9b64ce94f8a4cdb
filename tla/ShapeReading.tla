---------------------------- MODULE ShapeReading ----------------------------
(***************************************************************************)
(* What the shapes compiler reads of one node of a shapes graph            *)
(* (shapes.rs, compile_shape and what it calls).  Reading never depends on *)
(* what has been compiled already; only the numbers of the shapes a node   *)
(* refers to do, and they are left to module ShapeCompile.                 *)
(*                                                                         *)
(* Terms are numbers, ordered as TermId is, and predicates are the local   *)
(* names the vocabulary gives them.  A shapes graph is a record            *)
(*   [triples, reifies, lex, iris, names, uints, numbers, paths, queries,  *)
(*    regexes, flags]:                                                     *)
(* its triples and which reifier stands for which of them, the lexical     *)
(* forms, the IRIs and which of them serve as predicates, the terms that   *)
(* parse as a count, a number, a path or a regex, the letters of a         *)
(* sh:flags value, and the queries with the prefixes they need.            *)
(***************************************************************************)
EXTENDS Naturals, Sequences, FiniteSets, SequencesExt

CONSTANT Vocab  \* TermIds of the vocabulary, and the parameters that have a component

VARIABLE g      \* the shapes graph

-----------------------------------------------------------------------------
(* Reading the graph.  An optional term is a set of at most one. *)

Ascending(S) ==
    [i \in 1..Cardinality(S) |-> CHOOSE x \in S : Cardinality({y \in S : y < x}) = i - 1]

\* What of gives for each member of a sequence, end to end.
EachOf(seq, of(_)) == FlattenSeq([i \in DOMAIN seq |-> of(seq[i])])

Least(S) == {x \in S : \A y \in S : x <= y}

ObjectSet(s, p) == {t[3] : t \in {u \in g.triples : u[1] = s /\ u[2] = p}}
Objects(s, p) == Ascending(ObjectSet(s, p))
Object(s, p) == Least(ObjectSet(s, p))
SubjectSet(p, o) == {t[1] : t \in {u \in g.triples : u[2] = p /\ u[3] = o}}
SubjectsOf(p) == {t[1] : t \in {u \in g.triples : u[2] = p}}

\* flag: a boolean parameter is on only as the literal true.
Flag(s, p) == \E t \in Object(s, p) : t \in DOMAIN g.lex /\ g.lex[t] = "true"

Number(s, p) ==
    LET read == {g.numbers[t] : t \in Object(s, p) \cap DOMAIN g.numbers}
    IN  IF read = {} THEN 0 ELSE CHOOSE n \in read : TRUE

Reifiers(s, p, o) == {r[1] : r \in {q \in g.reifies : q[2] = <<s, p, o>>}}

\* Mutant of Deactivated: any reifier switches its statement off.
Deactivated_ByAnyReifier(s, p, o) == Reifiers(s, p, o) # {}

\* statement_deactivated: one statement switched off by an annotation.
Deactivated(s, p, o) == \E r \in Reifiers(s, p, o) : Flag(r, "deactivated")

ActiveObjects(s, p) == Ascending({o \in ObjectSet(s, p) : ~Deactivated(s, p, o)})

\* collect_list: the members, if rdf:nil is reached before the cells outnumber
\* the triples, so that a cyclic list is malformed.
List(head) ==
    LET most == Cardinality(g.triples) + 1
        from[n \in 0 .. most] == [at \in Nat |->
            IF n = 0 THEN {}
            ELSE IF at = Vocab.nil THEN {<<>>}
            ELSE {<<cell[1]>> \o cell[2] :
                     cell \in Object(at, "first")
                                \X UNION {from[n - 1][r] : r \in Object(at, "rest")}}]
    IN  from[most][head]

IsList(t) == List(t) # {}
Members(t) == IF IsList(t) THEN CHOOSE l \in List(t) : TRUE ELSE <<>>

\* alternatives: only a blank node can stand for a list of them.
Alternatives(t) ==
    IF t \notin g.iris /\ Object(t, "first") # {} /\ IsList(t) THEN Members(t) ELSE <<t>>

-----------------------------------------------------------------------------
(* The constraints of a shape, as they stand in the graph: the shapes one  *)
(* refers to are nodes still.                                              *)

\* The parameters in the order they are compiled, and how each is read.
ValueParameters == <<
    [p |-> "class", form |-> "terms"], [p |-> "datatype", form |-> "terms"],
    [p |-> "nodeKind", form |-> "kinds"],
    [p |-> "minCount", form |-> "uint"], [p |-> "maxCount", form |-> "uint"],
    [p |-> "minExclusive", form |-> "term"], [p |-> "minInclusive", form |-> "term"],
    [p |-> "maxExclusive", form |-> "term"], [p |-> "maxInclusive", form |-> "term"],
    [p |-> "minLength", form |-> "uint"], [p |-> "maxLength", form |-> "uint"],
    [p |-> "pattern", form |-> "pattern"], [p |-> "languageIn", form |-> "list"],
    [p |-> "uniqueLang", form |-> "flag"],
    [p |-> "equals", form |-> "path"], [p |-> "disjoint", form |-> "path"],
    [p |-> "lessThan", form |-> "path"], [p |-> "lessThanOrEquals", form |-> "path"]>>

ShapeParameters == <<
    [p |-> "not", form |-> "shape"],
    [p |-> "and", form |-> "shapes"], [p |-> "or", form |-> "shapes"],
    [p |-> "xone", form |-> "shapes"],
    [p |-> "node", form |-> "shape"], [p |-> "property", form |-> "shape"],
    [p |-> "qualifiedValueShape", form |-> "qualified"],
    [p |-> "closed", form |-> "closed"],
    [p |-> "hasValue", form |-> "term"], [p |-> "in", form |-> "list"]>>

LaterParameters == <<
    [p |-> "minListLength", form |-> "uint"], [p |-> "maxListLength", form |-> "uint"],
    [p |-> "reifierShape", form |-> "reifier"], [p |-> "memberShape", form |-> "shape"],
    [p |-> "uniqueMembers", form |-> "flag"], [p |-> "singleLine", form |-> "flag"],
    [p |-> "subsetOf", form |-> "path"], [p |-> "rootClass", form |-> "term"],
    [p |-> "someValue", form |-> "shape"], [p |-> "uniqueValuesFor", form |-> "paths"],
    [p |-> "sparql", form |-> "query"],
    [p |-> "expression", form |-> "term"], [p |-> "nodeByExpression", form |-> "term"]>>

Parameters == ValueParameters \o ShapeParameters \o LaterParameters

\* The parameters whose statements cannot be switched off one by one.
AlwaysActive == {"equals", "disjoint", "lessThan", "lessThanOrEquals",
                 "and", "or", "xone", "sparql"}

ClosedByTypes(node) == Object(node, "closed") = {Vocab.ByTypes}

\* The statements a parameter is read from.
Statements(node, q) ==
    CASE q.form = "flag" -> IF Flag(node, q.p) THEN Ascending(Object(node, q.p)) ELSE <<>>
      [] q.form = "closed" -> IF Flag(node, q.p) \/ ClosedByTypes(node)
                              THEN Ascending(Object(node, q.p)) ELSE <<>>
      [] q.p \in AlwaysActive -> Objects(node, q.p)
      [] OTHER -> ActiveObjects(node, q.p)

\* build_regex: known flags, and a regex unless it is taken literally.
PatternOk(node, t) ==
    LET flags == UNION {g.flags[f] : f \in Object(node, "flags") \cap DOMAIN g.flags}
    IN  /\ t \in DOMAIN g.lex
        /\ flags \subseteq {"i", "s", "m", "x", "q"}
        /\ "q" \in flags \/ t \in g.regexes

\* Where a query's prefixes are declared: in the sets it names, or the shapes
\* graph if it names none, and in whatever those import.
Owners(node) ==
    LET own == ObjectSet(node, "prefixes")
        grown[S \in SUBSET Nat] ==
            LET more == S \cup UNION {ObjectSet(o, "imports") : o \in S}
            IN  IF more = S THEN S ELSE grown[more]
    IN  grown[IF own = {} THEN SubjectSet("type", Vocab.ShapesGraph) ELSE own]

\* prefix_header.
Declared(node) ==
    LET decls == UNION {ObjectSet(o, "declare") : o \in Owners(node)}
    IN  UNION {ObjectSet(d, "prefix") : d \in {d \in decls : Object(d, "namespace") # {}}}

\* A query that parses with those declarations before it.
Parses(node, text) == text \in DOMAIN g.queries /\ g.queries[text] \subseteq Declared(node)

\* compile_sparql: sh:select comes before sh:ask.
QueryOk(node) ==
    LET text == IF Object(node, "select") # {} THEN Object(node, "select")
                                               ELSE Object(node, "ask")
    IN  text # {} /\ \A t \in text : Parses(node, t)

\* sibling_qualified_shapes, in the order they are met.
Siblings(node) ==
    LET others(parent) == Ascending(ObjectSet(parent, "property") \ {node})
        of(parent) == EachOf(others(parent), LAMBDA s : Objects(s, "qualifiedValueShape"))
    IN  EachOf(Ascending(SubjectSet("property", node)), of)

\* A parameter statement that is well formed.
WellFormed(node, form, t) ==
    CASE form = "kinds" -> ToSet(Alternatives(t)) \subseteq Vocab.kinds
      [] form = "uint" -> t \in g.uints
      [] form = "pattern" -> PatternOk(node, t)
      [] form \in {"list", "shapes"} -> IsList(t)
      [] form = "path" -> t \in g.paths
      [] form = "paths" -> ToSet(Alternatives(t)) \subseteq g.paths
      [] form = "query" -> QueryOk(t)
      [] form = "qualified" ->
            Object(node, "qualifiedMinCount") \cup Object(node, "qualifiedMaxCount")
                \subseteq g.uints
      [] OTHER -> TRUE

\* The shapes a statement refers to, the terms it keeps and a flag beside it.
Statement(node, q, t) ==
    [kind |-> q.p,
     ok |-> WellFormed(node, q.form, t),
     refs |-> CASE q.form \in {"shape", "qualified", "reifier"} -> <<t>>
                [] q.form = "shapes" -> Members(t)
                [] OTHER -> <<>>,
     siblings |-> IF q.form = "qualified" /\ Flag(node, "qualifiedValueShapesDisjoint")
                  THEN Siblings(node) ELSE <<>>,
     terms |-> CASE q.form \in {"shape", "reifier", "shapes", "flag"} -> <<>>
                 [] q.form \in {"terms", "kinds", "paths"} -> Alternatives(t)
                 [] q.form = "list" -> Members(t)
                 [] q.form = "qualified" -> Ascending(Object(node, "qualifiedMinCount"))
                                              \o Ascending(Object(node, "qualifiedMaxCount"))
                 [] q.form = "closed" ->
                        EachOf(Ascending(Object(node, "ignoredProperties")), Members)
                 [] OTHER -> <<t>>,
     flag |-> CASE q.form = "reifier" -> Flag(node, "reificationRequired")
                [] q.form = "qualified" -> Flag(node, "qualifiedValueShapesDisjoint")
                [] q.form = "closed" -> ClosedByTypes(node)
                [] OTHER -> FALSE]

-----------------------------------------------------------------------------
(* Constraint components of the user's own. *)

ValueOf(node, path) ==
    IF path \in DOMAIN g.names THEN Object(node, g.names[path]) ELSE {}

\* The paths of a component's parameters, with what the shape gives each.
Given(node, component) ==
    EachOf(Objects(component, "parameter"), LAMBDA param :
        IF Object(param, "path") = {} THEN <<>>
        ELSE <<[value |-> UNION {ValueOf(node, p) : p \in Object(param, "path")},
                optional |-> Flag(param, "optional")]>>)

\* A value for each parameter that is not optional, and one at least.
Applies(node, component) ==
    LET given == ToSet(Given(node, component))
    IN  /\ \A v \in given : v.value # {} \/ v.optional
        /\ \E v \in given : v.value # {}

\* A validator for the kind of shape this is comes before the general one.
ValidatorOf(node, component) ==
    LET own == Object(component, IF Object(node, "path") # {} THEN "propertyValidator"
                                                              ELSE "nodeValidator")
    IN  IF own # {} THEN own ELSE Object(component, "validator")

\* compile_custom: one constraint for each component that applies.
Custom(node) ==
    LET using == Ascending({c \in SubjectsOf("parameter") :
                                Applies(node, c) /\ ValidatorOf(node, c) # {}})
        values(c) == EachOf(Given(node, c), LAMBDA given : Ascending(given.value))
    IN  [i \in DOMAIN using |->
            [kind |-> "custom",
             ok |-> \A q \in ValidatorOf(node, using[i]) : QueryOk(q),
             refs |-> <<>>, siblings |-> <<>>,
             terms |-> <<using[i]>> \o values(using[i]), flag |-> FALSE]]

\* compile_constraints.
Constraints(node) ==
    LET of(q) == EachOf(Statements(node, q), LAMBDA t : <<Statement(node, q, t)>>)
    IN  EachOf(Parameters, of) \o Custom(node)

-----------------------------------------------------------------------------
(* The rest of a shape's body. *)

IsSelector(t) == Object(t, "select") # {}

\* compile_targets.  A selector whose query does not parse is left out.
Targets(node) ==
    LET each(kind, seq) == [i \in DOMAIN seq |-> [kind |-> kind, term |-> seq[i]]]
        nodes == ObjectSet(node, "targetNode")
        selectors(S) == Ascending({t \in S : IsSelector(t) /\ QueryOk(t)})
        isClass == {Vocab.RdfsClass, Vocab.ShapeClass} \cap ObjectSet(node, "type") # {}
    IN  each("node", Ascending({t \in nodes : ~IsSelector(t)}))
          \o each("class", Objects(node, "targetClass"))
          \o each("subjectsOf", Objects(node, "targetSubjectsOf"))
          \o each("objectsOf", Objects(node, "targetObjectsOf"))
          \o each("where", Objects(node, "targetWhere"))
          \o each("sparql", selectors(ObjectSet(node, "target")) \o selectors(nodes))
          \o each("implicitClass", IF node \in g.iris /\ isClass THEN <<node>> ELSE <<>>)

\* compile_rules: a rule that is neither kind is kept, as broken.
Rules(node) ==
    LET rules == Objects(node, "rule")
        kind(r) == IF Object(r, "construct") # {}
                   THEN IF \A t \in Object(r, "construct") : Parses(r, t) THEN "sparql" ELSE "broken"
                   ELSE IF \A p \in {"subject", "predicate", "object"} : Object(r, p) # {}
                   THEN "triple" ELSE "broken"
    IN  [i \in DOMAIN rules |->
            [node |-> rules[i], kind |-> kind(rules[i]),
             conditions |-> Objects(rules[i], "condition"),
             order |-> Number(rules[i], "order"),
             deactivated |-> Flag(rules[i], "deactivated")]]

\* annotations: what the reifiers of a shape's statements say, by component.
\* Of several severities the last statement's last reifier's stands.
Annotations(node) ==
    LET reifiersOf(p) == EachOf(Objects(node, p), LAMBDA o : Ascending(Reifiers(node, p, o)))
        severities(p) == EachOf(reifiersOf(p), LAMBDA r : Ascending(Object(r, "severity")))
        messages(p) == EachOf(reifiersOf(p), LAMBDA r : Objects(r, "message"))
    IN  [severity |-> [p \in {p \in Vocab.components : severities(p) # <<>>} |->
                           Last(severities(p))],
         messages |-> [p \in {p \in Vocab.components : messages(p) # <<>>} |-> messages(p)]]

Severity(node) == Object(node, "severity")

\* A shape that is numbered and not compiled yet.
Placeholder(node) ==
    [node |-> node, path |-> {}, values |-> {}, targets |-> <<>>, constraints |-> <<>>,
     severity |-> Vocab.Violation, messages |-> <<>>,
     annotations |-> [severity |-> <<>>, messages |-> <<>>],
     deactivated |-> FALSE, rules |-> <<>>, order |-> 0]

\* compile_shape, but for the numbers of the shapes it refers to.
Body(node) ==
    [Placeholder(node) EXCEPT
        !.path = Object(node, "path"),
        !.values = Object(node, "values"),
        !.targets = Targets(node),
        !.constraints = Constraints(node),
        !.severity = IF Severity(node) = {} THEN Vocab.Violation
                     ELSE CHOOSE t \in Severity(node) : TRUE,
        !.messages = Objects(node, "message"),
        !.annotations = Annotations(node),
        !.deactivated = Flag(node, "deactivated"),
        !.rules = Rules(node),
        !.order = Number(node, "order")]

\* The body compiles: its path does, and so does every constraint.
Compilable(body) ==
    /\ body.path \subseteq g.paths
    /\ \A c \in ToSet(body.constraints) : c.ok
=============================================================================
