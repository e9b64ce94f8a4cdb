---------------------------- MODULE Separability ----------------------------
(***************************************************************************)
(* Compiling a shapes graph and then asking whether its focus sets may be  *)
(* validated in pieces (Shapes::is_focus_separable): the search for a      *)
(* cycle runs over the arena the compiler has left.                        *)
(***************************************************************************)
EXTENDS ShapeCompile

VARIABLES start, stack, grey, black, answer     \* of the search

search == <<start, stack, grey, black, answer>>

\* referenced_shapes: what the constraints and sh:targetWhere of a shape refer
\* to, as far as it is a shape.
ReferencedShapes(id) ==
    EachOf(shapes[id].constraints, LAMBDA c : c.ids \o c.siblings)
      \o EachOf(shapes[id].targets, LAMBDA t :
                    IF t.kind = "where" /\ t.term \in DOMAIN byNode
                    THEN <<byNode[t.term]>> ELSE <<>>)

Children == [id \in DOMAIN shapes |-> ReferencedShapes(id)]

Cycle == INSTANCE CycleSearch WITH children <- Children

Minting == {"sparql", "custom", "expression", "nodeByExpression"}

\* mints_terms: validating can add terms to the store.
MintsTerms ==
    \E id \in DOMAIN shapes :
        \/ shapes[id].values # {}
        \/ \E t \in ToSet(shapes[id].targets) : t.kind = "sparql"
        \/ \E c \in ToSet(shapes[id].constraints) : c.kind \in Minting

\* A constraint that compares focus nodes with each other.
ReadsAcross ==
    \E id \in DOMAIN shapes : \E c \in ToSet(shapes[id].constraints) : c.kind = "uniqueValuesFor"

\* is_focus_separable: the search runs unless one of the others said no.
NeedsSearch == ~MintsTerms /\ ~ReadsAcross
Separable == pc = "done" /\ NeedsSearch /\ answer = "acyclic"

InitAll == Init /\ Cycle!InitSearch

Compile == Next /\ UNCHANGED search

Search == pc = "done" /\ NeedsSearch /\ UNCHANGED vars /\ Cycle!NextSearch

NextAll == Compile \/ Search

\* One thread compiles, and then it searches.
SpecAll == InitAll /\ [][NextAll]_<<vars, search>> /\ WF_<<vars, search>>(NextAll)

-----------------------------------------------------------------------------
(* What the graph says, without the arena. *)

\* The statements of a node that make it refer to another as a shape.
SingleRefs == {"not", "node", "property", "qualifiedValueShape", "reifierShape",
               "memberShape", "someValue"}
ListRefs == {"and", "or", "xone"}

Named(n) ==
    (UNION {{o \in ObjectSet(n, p) : \A r \in Reifiers(n, p, o) : ~Flag(r, "deactivated")} :
               p \in SingleRefs})
      \cup UNION {ToSet(Members(h)) : h \in UNION {ObjectSet(n, p) : p \in ListRefs}}

\* The qualified shapes beside a node's own, where it asks for them.
BesideOf(n) ==
    IF \E q \in ObjectSet(n, "qualifiedValueShape") : ~Deactivated(n, "qualifiedValueShape", q)
       /\ Flag(n, "qualifiedValueShapesDisjoint")
    THEN LET siblings == UNION {ObjectSet(p, "property") : p \in SubjectSet("property", n)}
         IN  UNION {ObjectSet(s, "qualifiedValueShape") : s \in siblings \ {n}}
    ELSE {}

Successors(n) == Named(n) \cup BesideOf(n)

\* A set that has S in it and, with a node, all that to leads to.
Closed(T, S, to(_)) == S \subseteq T /\ \A n \in T : to(n) \subseteq T

\* What announces a shape: a class it declares itself to be, a statement that
\* makes a target, one that a parameter is read from or that stands beside it,
\* the parameters of a component of the user's own.
ShapeClasses == {Vocab.NodeShape, Vocab.PropertyShape, Vocab.ShapeClass}
TargetStatements ==
    {"targetNode", "targetClass", "targetSubjectsOf", "targetObjectsOf", "targetWhere", "target"}
ParameterStatements ==
    {q.p : q \in ToSet(ValueParameters) \cup ToSet(ShapeParameters) \cup ToSet(LaterParameters)}
      \cup {"path", "severity", "flags", "ignoredProperties", "qualifiedMinCount",
            "qualifiedMaxCount", "qualifiedValueShapesDisjoint", "reificationRequired"}

Declares(n, classes) == ObjectSet(n, "type") \cap classes # {}
States(n, predicates) == \E t \in g.triples : t[1] = n /\ t[2] \in predicates

Announced ==
    {n \in {t[1] : t \in g.triples} :
        \/ Declares(n, ShapeClasses)
        \/ States(n, TargetStatements \cup ParameterStatements)
        \/ \E c \in SubjectsOf("parameter") : Applies(n, c)}

\* What discovery does not look for: the targets and parameters of SHACL 1.2
\* and SPARQL, and what only stands beside a parameter.
UnsearchedStatements ==
    {"target", "targetWhere",
     "minListLength", "maxListLength", "reifierShape", "memberShape", "uniqueMembers",
     "singleLine", "subsetOf", "rootClass", "someValue", "uniqueValuesFor",
     "sparql", "expression", "nodeByExpression",
     "flags", "ignoredProperties", "qualifiedMinCount", "qualifiedMaxCount",
     "qualifiedValueShapesDisjoint", "reificationRequired"}

\* The nodes that only such statements announce.
Overlooked ==
    {n \in Announced :
        /\ ~Declares(n, {Vocab.NodeShape, Vocab.PropertyShape})
        /\ ~States(n, (TargetStatements \cup ParameterStatements) \ UnsearchedStatements)}

Readable(n) == Compilable(BodyOf(n))

Done == pc = "done"

-----------------------------------------------------------------------------
(* Properties. *)

\* The arena and the map never disagree: every node has one number, every
\* number one node, and a node is queued at most once (shape_id).
NumbersAgree ==
    /\ DOMAIN byNode = {shapes[i].node : i \in DOMAIN shapes}
    /\ \A i \in DOMAIN shapes : byNode[shapes[i].node] = i
    /\ \A i, j \in DOMAIN pending : pending[i] = pending[j] => i = j

\* What was found is what announces itself and what active statements refer to
\* from there, no more.  The code's comment promises it of a node that carries
\* any target and any constraint parameter (shapes.rs:622-624); it is not so of
\* the Overlooked ones, which become shapes only where another refers to them.
FoundIsReachable ==
    Done =>
        /\ Closed(DOMAIN byNode, Announced \ Overlooked, Successors)
        /\ \A T \in SUBSET DOMAIN byNode :
               Closed(T, Announced \ Overlooked, Successors) => T = DOMAIN byNode

\* The queue leaves no placeholder behind, and a number a body was given while
\* the arena still grew is the number of the shape its statement names.
RefersTo(n) ==
    Successors(n) \cup (ObjectSet(n, "targetWhere") \cap DOMAIN byNode)
ReferencesResolve ==
    Done => \A i \in DOMAIN shapes :
        {shapes[j].node : j \in ToSet(Children[i])} = RefersTo(shapes[i].node)

\* One malformed statement of one shape that is found fails the whole graph,
\* and nothing else does.
FailsOnMalformed ==
    /\ pc = "failed" => \E n \in DOMAIN byNode : ~Readable(n)
    /\ Done => \A n \in DOMAIN byNode : Readable(n)

\* The search says cycle exactly when some shape of the graph reaches itself.
AnswerIsRight ==
    LET reaches(n) == \A T \in SUBSET DOMAIN byNode : Closed(T, RefersTo(n), RefersTo) => n \in T
    IN  /\ answer = "cycle" => \E n \in DOMAIN byNode : reaches(n)
        /\ answer = "acyclic" => \A n \in DOMAIN byNode : ~reaches(n)

\* Compiling ends, and so does the search, whatever refers to what.
Ends ==
    <>(pc = "failed" \/ (Done /\ (answer # "none" \/ ~NeedsSearch)))
=============================================================================
