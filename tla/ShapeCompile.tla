---------------------------- MODULE ShapeCompile ----------------------------
(***************************************************************************)
(* The shapes compiler (shapes.rs, Compiler): it reads a shapes graph once *)
(* into an arena of shapes.  A shape is numbered when it is first met, by  *)
(* discovery or in another shape's body, and its body is compiled from a   *)
(* stack of nodes that are still to be done, so shapes that refer to each  *)
(* other end.                                                              *)
(***************************************************************************)
EXTENDS ShapeReading

CONSTANT Graphs \* the shapes graphs to consider

\* A graph is finite, and its terms are numbers.
ASSUME GraphsAssumption ==
    \A graph \in Graphs :
        /\ IsFiniteSet(graph.triples)
        /\ \A t \in graph.triples : t[1] \in Nat /\ t[3] \in Nat

VARIABLES
    reading,    \* what there is to read: candidates, and the body of every node
    pc,         \* discover, drain, done, failed
    shapes,     \* the arena: a sequence of shapes
    byNode,     \* the number of each node met so far
    pending,    \* nodes that are numbered and not compiled, the last one first
    roots       \* the numbers of the shapes with a target

vars == <<g, reading, pc, shapes, byNode, pending, roots>>

-----------------------------------------------------------------------------

TargetPredicates == {"targetClass", "targetNode", "targetSubjectsOf", "targetObjectsOf"}

\* The thirty the code lists; what SHACL 1.2 and SPARQL add is not among them.
ConstraintPredicates ==
    {"class", "datatype", "nodeKind", "minCount", "maxCount",
     "minExclusive", "minInclusive", "maxExclusive", "maxInclusive",
     "minLength", "maxLength", "pattern", "languageIn", "uniqueLang",
     "equals", "disjoint", "lessThan", "lessThanOrEquals",
     "not", "and", "or", "xone", "node", "property", "qualifiedValueShape",
     "closed", "hasValue", "in", "path", "severity"}

\* Mutant of Candidates: a target does not make a shape.
Candidates_NoTargets ==
    Ascending(SubjectSet("type", Vocab.NodeShape) \cup SubjectSet("type", Vocab.PropertyShape)
                \cup UNION {SubjectsOf(p) : p \in ConstraintPredicates})

\* What discovery starts from, in id order.
Candidates ==
    Ascending(SubjectSet("type", Vocab.NodeShape) \cup SubjectSet("type", Vocab.PropertyShape)
                \cup UNION {SubjectsOf(p) : p \in TargetPredicates \cup ConstraintPredicates})

\* The members of a sequence at some of its places, in order.
Those(seq, places) == [k \in DOMAIN Ascending(places) |-> seq[Ascending(places)[k]]]

\* Mutant of Fresh: a node that is mentioned twice is numbered twice.
Fresh_Repeats(nodes) == Those(nodes, {i \in DOMAIN nodes : nodes[i] \notin DOMAIN byNode})

\* The nodes met for the first time, each once.
Fresh(nodes) ==
    Those(nodes, {i \in DOMAIN nodes :
                     /\ nodes[i] \notin DOMAIN byNode
                     /\ \A j \in 1..(i - 1) : nodes[j] # nodes[i]})

\* shape_id for each of them: a number, a placeholder and a place in the queue.
Numbered(fresh) ==
    [n \in DOMAIN byNode \cup ToSet(fresh) |->
        IF n \in ToSet(fresh) THEN Len(shapes) + CHOOSE i \in DOMAIN fresh : fresh[i] = n
                              ELSE byNode[n]]
WithPlaceholders(fresh) == shapes \o [i \in DOMAIN fresh |-> Placeholder(fresh[i])]

Init ==
    /\ g \in Graphs
    /\ reading = [candidates |-> Candidates,
                  bodies |-> [n \in {t[1] : t \in g.triples} |-> Body(n)]]
    /\ pc = "discover"
    /\ shapes = <<>>
    /\ byNode = <<>>
    /\ pending = <<>>
    /\ roots = <<>>

\* run, up to the queue: every candidate is given its number.
Discover ==
    /\ pc = "discover"
    /\ pc' = "drain"
    /\ \E fresh \in {Fresh(reading.candidates)} :
          /\ shapes' = WithPlaceholders(fresh)
          /\ byNode' = Numbered(fresh)
          /\ pending' = fresh
    /\ UNCHANGED <<g, reading, roots>>

\* The node whose body is compiled next, and what there is to read of it.
Node == Last(pending)
BodyOf(n) == IF n \in DOMAIN reading.bodies THEN reading.bodies[n] ELSE Placeholder(n)
Read == BodyOf(Node)

\* The shapes a body refers to, in the order they are asked for.
Mentions == EachOf(Read.constraints, LAMBDA c : c.refs \o c.siblings)

\* compile_shape: the references are the numbers of what they name.
Compiled(number) ==
    LET resolved(c) == [kind |-> c.kind,
                        ids |-> [i \in DOMAIN c.refs |-> number[c.refs[i]]],
                        siblings |-> Ascending({number[n] : n \in ToSet(c.siblings)}),
                        terms |-> c.terms, flag |-> c.flag]
    IN  [Read EXCEPT !.constraints = [i \in DOMAIN @ |-> resolved(@[i])]]

\* Mutant of CompileNext: the node is looked at and stays in the queue.
CompileNext_Peeks ==
    /\ pc = "drain" /\ pending # <<>>
    /\ Compilable(Read)
    /\ \E fresh \in {Fresh(Mentions)} :
          /\ byNode' = Numbered(fresh)
          /\ shapes' = [WithPlaceholders(fresh) EXCEPT ![byNode[Node]] = Compiled(byNode')]
          /\ pending' = pending \o fresh
    /\ UNCHANGED <<g, reading, pc, roots>>

\* drain: the body of the last node in the queue, which may queue others.
CompileNext ==
    /\ pc = "drain" /\ pending # <<>>
    /\ Compilable(Read)
    /\ \E fresh \in {Fresh(Mentions)} :
          /\ byNode' = Numbered(fresh)
          /\ shapes' = [WithPlaceholders(fresh) EXCEPT ![byNode[Node]] = Compiled(byNode')]
          /\ pending' = Front(pending) \o fresh
    /\ UNCHANGED <<g, reading, pc, roots>>

\* Mutant of CompileFails: the shape is left out and the rest compiled.
CompileFails_Skips ==
    /\ pc = "drain" /\ pending # <<>>
    /\ ~Compilable(Read)
    /\ pending' = Front(pending)
    /\ UNCHANGED <<g, reading, pc, shapes, byNode, roots>>

\* A body that does not compile ends the run with an error.
CompileFails ==
    /\ pc = "drain" /\ pending # <<>>
    /\ ~Compilable(Read)
    /\ pc' = "failed"
    /\ UNCHANGED <<g, reading, shapes, byNode, pending, roots>>

\* The queue is empty: the shapes with a target are the roots.
ChooseRoots ==
    /\ pc = "drain" /\ pending = <<>>
    /\ pc' = "done"
    /\ roots' = Ascending({i \in DOMAIN shapes : shapes[i].targets # <<>>})
    /\ UNCHANGED <<g, reading, shapes, byNode, pending>>

Next == Discover \/ CompileNext \/ CompileFails \/ ChooseRoots

\* One thread runs to the end.
Spec == Init /\ [][Next]_vars /\ WF_vars(Next)
=============================================================================
