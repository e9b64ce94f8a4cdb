--------------------------- MODULE LoadProperties ---------------------------
(***************************************************************************)
(* What loading must come to, said without chunks, scopes or a store: the  *)
(* terms of all documents in the order of their text, and the triples the  *)
(* documents state.                                                        *)
(***************************************************************************)
EXTENDS TurtleLoad

\* What a whole document says, read from its start to its end.
Said(j) == Parse(jobs[j].doc.units)

\* The terms as they are first come upon; a blank node is its document's own,
\* and a literal's datatype and a triple term's parts come before it.
OwnSimple(j, term) == IF term.t = "blank" THEN [term EXCEPT !.label = <<j, @>>] ELSE term
Own(j, term) ==
    IF term.t = "triple" THEN [term EXCEPT !.parts = [c \in 1..3 |-> OwnSimple(j, @[c])]]
    ELSE OwnSimple(j, term)
Iri(s) == [t |-> "iri", s |-> s]

Meet(met, term) == IF term \in ToSet(met) THEN met ELSE Append(met, term)
MeetSimple(met, term) ==
    Meet(IF term.t = "literal" THEN Meet(met, Iri(term.datatype)) ELSE met, term)
MeetThree(meet(_, _), met, terms) == meet(meet(meet(met, terms[1]), terms[2]), terms[3])
MeetTerm(met, term) ==
    IF term.t = "triple" THEN Meet(MeetThree(MeetSimple, met, term.parts), term)
    ELSE MeetSimple(met, term)

\* What a document states, and what has been met after so many of its triples.
StatedBy(js, j) ==
    LET said == Parse(js[j].doc.units).triples
    IN  [i \in DOMAIN said |-> [c \in 1..3 |-> Own(j, said[i][c])]]
MetIn(met, triples) ==
    LET upTo[i \in 0..Len(triples)] ==
            IF i = 0 THEN met ELSE MeetThree(MeetTerm, upTo[i - 1], triples[i])
    IN  upTo

\* Each term's id is its place in this list.
Known ==
    LET upTo[n \in 0..Len(Vocabulary)] ==
            IF n = 0 THEN <<>> ELSE Meet(upTo[n - 1], Iri(Vocabulary[n]))
    IN  upTo[Len(Vocabulary)]
MetBy(js) ==
    LET upTo[j \in 0..Len(js)] ==
            IF j = 0 THEN Known
            ELSE MetIn(upTo[j - 1], StatedBy(js, j))[Len(StatedBy(js, j))]
    IN  upTo
AllTerms == MetBy(jobs)[Len(jobs)]

Stated(for, terms) ==
    UNION {{[c \in 1..3 |-> Position(terms, t[c])] : t \in ToSet(StatedBy(jobs, j))} :
              j \in {j \in DOMAIN jobs : jobs[j].for = for}}

\* No declaration hides behind a comment, and a text that starts like a
\* directive makes no node of its own.
Tame(doc) ==
    \A i \in DOMAIN doc.units :
        /\ doc.units[i].decl # <<>> => doc.units[i].head = "directive"
        /\ doc.units[i].head = "directive" => Anonymous(doc.units[i].triples) = {}

AllTame == \A j \in DOMAIN jobs : Tame(jobs[j].doc)

Ids == 0..(Len(store.terms) + 1)

-----------------------------------------------------------------------------
(* Properties. *)

\* Loading gives every term the id it has in the order of the text and every
\* graph the triples its documents state, no blank node of one document or
\* statement being another's, on any number of cores, however a document is
\* cut and whichever worker is done first.
LoadedAsWritten ==
    pc = "done" /\ AllTame =>
        \E terms \in {AllTerms} :
            /\ Len(store.terms) = Len(terms)
            /\ \A for \in DOMAIN graphs : ToSet(graphs[for].spo) = Stated(for, terms)

\* The run fails exactly when some document does not parse as a whole: cutting
\* neither causes an error nor hides one.
FailsAsWritten ==
    AllTame =>
        /\ pc = "failed" => ~Said(at).ok
        /\ pc = "done" => \A j \in DOMAIN jobs : Said(j).ok

\* What the lookups in a graph find of a term, or of two.
FindsOf(graph, a) ==
    LET triples == ToSet(graph.spo)
    IN  /\ HasSubject(graph, a) = \E t \in triples : t[1] = a
        /\ ToSet(PredicateObjects(graph, a)) =
              {<<t[2], t[3]>> : t \in {u \in triples : u[1] = a}}
        /\ ToSet(SubjectPredicates(graph, a)) =
              {<<t[1], t[2]>> : t \in {u \in triples : u[3] = a}}
        /\ ToSet(SubjectsOf(graph, a)) = {t[1] : t \in {u \in triples : u[2] = a}}
        /\ ToSet(ObjectsOf(graph, a)) = {t[3] : t \in {u \in triples : u[2] = a}}
        /\ Len(SubjectsOf(graph, a)) = Cardinality({u \in triples : u[2] = a})
FindsOfBoth(graph, a, b) ==
    LET triples == ToSet(graph.spo)
    IN  /\ Objects(graph, a, b) = Column(Sorted({t \in triples : t[1] = a /\ t[2] = b}), 3)
        /\ Subjects(graph, a, b) = Column(Sorted({t \in triples : t[2] = a /\ t[3] = b}), 1)

\* Every lookup, of terms that are there and of terms that are not, finds in
\* the one of the three orders it searches what the triples say, in order.
LookupsAgree ==
    \A for \in DOMAIN graphs : \A a \in Ids :
        FindsOf(graphs[for], a) /\ \A b \in Ids : FindsOfBoth(graphs[for], a, b)

\* What is found of a term by what it says.
LookedUp(st, i) ==
    LET term == st.terms[i]
        text(s) == st.strings[s]
    IN  CASE term.kind = "iri" -> GetNamedNode(st, text(term.s))
          [] term.kind = "blank" -> GetBlankNode(st, text(term.s))
          [] term.kind = "triple" -> GetTripleTerm(st, st.tripleTerms[term.i])
          [] OTHER -> GetLiteral(st, text(term.s), text(st.terms[term.datatype].s),
                                 Tagged(term.lang, text), term.dir)

\* Between documents, when an index may be written: a store that went through
\* the file is the store that was written, so each of its terms is found again
\* at its own id, and what is interned after it gets the ids it would have had.
RestoredIsSame ==
    rows = <<>> => \E restored \in {FromParts(Parts(store))} :
        /\ restored = store
        /\ \A i \in DOMAIN restored.terms : LookedUp(restored, i) = {i}

\* "independently parseable chunks": a document that parses as a whole parses
\* in pieces.
ChunksParse == pc = "failed" => ~Said(at).ok
=============================================================================
