---------------------------- MODULE MCRdfsClosure ----------------------------
(***************************************************************************)
(* Every graph over a pool of ten statements: a chain of properties, a     *)
(* cycle of classes, domain and range, two uses, and one statement that    *)
(* makes a property of the data a subclass relation.  The statements are   *)
(* chosen so that up to four rounds are needed and both ways of ending     *)
(* occur under the cap.                                                    *)
(***************************************************************************)
EXTENDS RdfsClosure

CONSTANTS p, q, r, a, b, c, x, y

MCTerms == {Type, SubClassOf, SubPropertyOf, RdfsDomain, RdfsRange, p, q, r, a, b, c, x, y}

Plain == { <<p, SubPropertyOf, q>>, <<q, SubPropertyOf, r>>, <<r, RdfsDomain, a>>, <<q, RdfsRange, b>>,
           <<a, SubClassOf, b>>, <<b, SubClassOf, c>>, <<c, SubClassOf, a>>,
           <<x, p, y>>, <<y, Type, a>> }
Meta == <<r, SubPropertyOf, SubClassOf>>
MCGraphs == SUBSET (Plain \cup {Meta})

-----------------------------------------------------------------------------

\* Pairs related by a predicate, and what they are related to in any number
\* of steps.
Pairs(g, predicate) == {<<t[1], t[3]>> : t \in {t \in g : t[2] = predicate}}
Closure(pairs) ==
    LET step(S) == S \cup {<<u[1][1], u[2][2]>> : u \in {u \in S \X S : u[1][2] = u[2][1]}}
    IN  step(step(step(pairs)))

\* The documented table, read off the hierarchies instead of iterated: what
\* holds of sub-properties holds of super-properties, that types the ends,
\* and types rise through the classes.  It applies where no statement about
\* the schema's own vocabulary is made.
Uses(g) == g \cup {<<u[1][1], u[2][2], u[1][3]>> :
                     u \in {u \in g \X Closure(Pairs(g, SubPropertyOf)) : u[1][2] = u[2][1]}}
Typed(g) ==
    Pairs(g, Type)
      \cup {<<u[1][1], u[2][2]>> : u \in {u \in g \X Pairs(g, RdfsDomain) : u[1][2] = u[2][1]}}
      \cup {<<u[1][3], u[2][2]>> : u \in {u \in g \X Pairs(g, RdfsRange) : u[1][2] = u[2][1]}}
Risen(types, classes) ==
    types \cup {<<u[1][1], u[2][2]>> : u \in {u \in types \X classes : u[1][2] = u[2][1]}}
Linked(pairs, predicate) == {<<u[1], predicate, u[2]>> : u \in {u \in pairs : u[1] # u[2]}}

Table(g) ==
    LET classes == Closure(Pairs(g, SubClassOf))
    IN  Uses(g)
          \cup Linked(Closure(Pairs(g, SubPropertyOf)), SubPropertyOf)
          \cup Linked(classes, SubClassOf)
          \cup {<<u[1], Type, u[2]>> : u \in Risen(Typed(Uses(g)), classes)}

\* "The closure is the one documented at the top of this module": the loop
\* gives the table's answer, and refuses exactly when that is too large.
AnswersTheTable ==
    Meta \notin graph =>
        /\ outcome = "closed" => triples = Table(graph)
        /\ outcome = "refused" => Cardinality(Table(graph)) > MaxTriples
=============================================================================
