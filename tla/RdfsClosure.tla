----------------------------- MODULE RdfsClosure -----------------------------
(***************************************************************************)
(* rdfs_closure_bounded (inference.rs): the six RDFS rules applied to a    *)
(* graph in rounds, each over all that is known so far, until a round adds *)
(* nothing or more triples are held than the caller allows.                *)
(***************************************************************************)
EXTENDS Naturals, TripleSets

CONSTANTS
    Type, SubClassOf, SubPropertyOf, RdfsDomain, RdfsRange,
    Graphs,             \* the graphs to close
    MaxTriples          \* max_triples

ASSUME VocabAssumption == Type \in Terms /\ SubClassOf \in Terms /\ SubPropertyOf \in Terms
ASSUME GraphsAssumption == \A g \in Graphs : g \subseteq Triple
ASSUME MaxAssumption == MaxTriples \in Nat

VARIABLES
    graph,      \* the graph that was given
    triples,    \* what is known so far
    outcome     \* running, closed, refused

closureVars == <<graph, triples, outcome>>

-----------------------------------------------------------------------------
(* What two triples entail together; u is the schema statement. *)

Only(x, when) == {y \in {x} : when}

\* rdfs2, rdfs3: the domain and range of a property type its ends.
DomainRule(t, u) == Only(<<t[1], Type, u[3]>>, u[2] = RdfsDomain /\ u[1] = t[2])
RangeRule(t, u) == Only(<<t[3], Type, u[3]>>, u[2] = RdfsRange /\ u[1] = t[2])

\* rdfs7: a statement also holds of every super-property.
PropertyRule(t, u) == Only(<<t[1], u[3], t[3]>>, u[2] = SubPropertyOf /\ u[1] = t[2])

\* rdfs9: an instance of a class is an instance of its superclasses.
ClassRule(t, u) ==
    Only(<<t[1], Type, u[3]>>, t[2] = Type /\ u[2] = SubClassOf /\ u[1] = t[3])

\* Mutant of ChainRule: a cycle makes every class a subclass of itself.
ChainRule_Reflexive(t, u) ==
    Only(<<t[1], t[2], u[3]>>,
         t[2] \in {SubPropertyOf, SubClassOf} /\ u[2] = t[2] /\ u[1] = t[3])

\* rdfs5, rdfs11: both hierarchies are transitive; a cycle is not turned into
\* a statement of a term about itself.
ChainRule(t, u) ==
    Only(<<t[1], t[2], u[3]>>,
         t[2] \in {SubPropertyOf, SubClassOf} /\ u[2] = t[2] /\ u[1] = t[3] /\ t[1] # u[3])

Entailed(t, u) ==
    DomainRule(t, u) \cup RangeRule(t, u) \cup PropertyRule(t, u)
      \cup ClassRule(t, u) \cup ChainRule(t, u)

\* What one round derives.
Derived(known) == UNION {Entailed(p[1], p[2]) : p \in known \X known}

-----------------------------------------------------------------------------

InitClosure ==
    /\ graph \in Graphs
    /\ triples = graph
    /\ outcome = "running"

\* Mutants of Round: it stops once the schema has settled, or tests for the
\* fixpoint the wrong way round.
Schema(g) == {t \in g : t[2] \in {SubClassOf, SubPropertyOf, RdfsDomain, RdfsRange}}
Round_SchemaSettles ==
    /\ outcome = "running"
    /\ triples' = triples \cup Derived(triples)
    /\ outcome' = IF Cardinality(triples') > MaxTriples THEN "refused"
                 ELSE IF Schema(triples') = Schema(triples) THEN "closed"
                 ELSE "running"
    /\ UNCHANGED graph
Round_NeverCloses ==
    /\ outcome = "running"
    /\ triples' = triples \cup Derived(triples)
    /\ outcome' = IF Cardinality(triples') > MaxTriples THEN "refused"
                 ELSE IF Cardinality(triples') < Cardinality(triples) THEN "closed"
                 ELSE "running"
    /\ UNCHANGED graph

\* One turn of the loop.  The cap is tested first, on what is held.
Round ==
    /\ outcome = "running"
    /\ triples' = triples \cup Derived(triples)
    /\ outcome' = IF Cardinality(triples') > MaxTriples THEN "refused"
                 ELSE IF Cardinality(triples') = Cardinality(triples) THEN "closed"
                 ELSE "running"
    /\ UNCHANGED graph

NextClosure == Round

ClosureSpec == InitClosure /\ [][NextClosure]_closureVars /\ WF_closureVars(NextClosure)

-----------------------------------------------------------------------------

\* Types of the loop's state.
TypeOK ==
    /\ graph \subseteq Triple
    /\ triples \subseteq Triple
    /\ outcome \in {"running", "closed", "refused"}

\* A graph that the rules add nothing to.
IsClosed(g) == Derived(g) \subseteq g

\* What the loop hands out contains the graph, is closed under the rules and
\* is no larger than allowed: comparing lengths between rounds is a sound test
\* for the fixpoint ("chains of any length close", rdfs_closure).
ClosedWhenDone ==
    outcome = "closed" =>
        graph \subseteq triples /\ IsClosed(triples) /\ Cardinality(triples) <= MaxTriples

\* Nothing is ever held that some closed graph around the input lacks: the
\* result is the least one.
HeldInEveryModel ==
    \A model \in SUBSET Triple : graph \subseteq model /\ IsClosed(model) => triples \subseteq model

\* A refusal is deserved: every closed graph around the input is too large.
RefusedOnlyTooLarge ==
    outcome = "refused" =>
        \A model \in SUBSET Triple :
            graph \subseteq model /\ IsClosed(model) => Cardinality(model) > MaxTriples

\* The loop ends: with an answer or with a refusal.
Terminates == <>(outcome # "running")
=============================================================================
