----------------------------- MODULE TurtleLoad -----------------------------
(***************************************************************************)
(* Loading the data and the shapes documents of a run (main.rs, load_all;  *)
(* loader.rs, parse_turtle_chunked): a large Turtle document is split into *)
(* chunks that workers parse, each with the document's prologue before it, *)
(* and what they have parsed is interned chunk by chunk.                   *)
(*                                                                         *)
(* A document is [units, tail]: the stretches of text up to a statement's  *)
(* dot and the length of what follows the last.  A unit is                 *)
(*   [head, len, decl, triples, bad]:                                      *)
(* what its text starts with (directive, statement or comment: "@",        *)
(* "prefix" and "base" make a directive of it), its length, the prefix it  *)
(* declares, the triples it states and whether it is malformed.  A         *)
(* SPARQL-style PREFIX ends without a dot, so its unit goes on to the next *)
(* statement's; a comment belongs to the unit it stands before.            *)
(***************************************************************************)
EXTENDS TermStore, GraphIndex

CONSTANTS
    Inputs,         \* the documents of a run: [data, shapes], two sequences
    ThreadCounts,   \* the numbers of cores to consider
    MinText,        \* the least length that is split
    Vocabulary      \* the IRIs that are interned before anything is read

IsSeq(seq) == seq \in Seq(ToSet(seq))

\* The terms of some triples, those inside triple terms with them.
TermsOf(triples) ==
    LET outer == UNION {ToSet(t) : t \in ToSet(triples)}
    IN  outer \cup UNION {ToSet(term.parts) : term \in {x \in outer : x.t = "triple"}}
Anonymous(triples) == {term \in TermsOf(triples) : term.t = "anon"}

\* A unit goes as far as its dot, so it has a length; a triple has three terms,
\* those of a triple term are no triple terms, and a unit's anonymous nodes are
\* numbered from 1.
SimpleOK(term) ==
    \/ term.t \in {"name", "anon", "label"}
    \/ /\ term.t = "literal" /\ (term.lang = <<>> \/ term.lang = <<term.lang[1]>>)
       /\ term = [t |-> "literal", lex |-> term.lex, datatype |-> term.datatype,
                  lang |-> term.lang, dir |-> term.dir]
TermOK(term) ==
    \/ SimpleOK(term)
    \/ /\ term.t = "triple" /\ term = [t |-> "triple", parts |-> term.parts]
       /\ DOMAIN term.parts = 1..3 /\ \A c \in 1..3 : SimpleOK(term.parts[c])
UnitOK(unit) ==
    /\ unit.len \in Nat \ {0}
    /\ IsSeq(unit.triples)
    /\ \A t \in ToSet(unit.triples) : DOMAIN t = 1..3 /\ \A c \in 1..3 : TermOK(t[c])
    /\ IsFiniteSet(Anonymous(unit.triples))
    /\ Anonymous(unit.triples) =
          {[t |-> "anon", k |-> k] : k \in 1..Cardinality(Anonymous(unit.triples))}
DocOK(doc) ==
    /\ IsSeq(doc.units) /\ doc.tail \in Nat
    /\ \A unit \in ToSet(doc.units) : UnitOK(unit)

ASSUME InputsAssumption ==
    \A input \in Inputs :
        /\ IsSeq(input.data) /\ IsSeq(input.shapes) /\ input.data # <<>>
        /\ \A doc \in ToSet(input.data) \cup ToSet(input.shapes) : DocOK(doc)

\* Past 1024 documents of data their scopes run into those of the shapes, and
\* far past it into those of chunks.
ASSUME DocumentsAssumption ==
    \A input \in Inputs : Len(input.data) <= 1024 /\ Len(input.shapes) <= 64000
ASSUME ThreadsAssumption == ThreadCounts \subseteq Nat
ASSUME MinTextAssumption == MinText \in Nat
ASSUME VocabularyAssumption == Vocabulary \in Seq(ToSet(Vocabulary))

VARIABLES
    jobs,       \* the documents to read, in order: [doc, scope, for]
    threads,
    pc,         \* read, parse, merge, done, failed
    at,         \* the document that is read
    split,      \* whether it was split
    chunks,     \* the texts the workers parse, prologue and all
    parsed,     \* what they have made of them, chunk by chunk
    store,
    rows,       \* the triples of the document
    merged,     \* those of the documents before it that go into one graph
    graphs      \* the graphs that are complete

vars == <<jobs, threads, pc, at, split, chunks, parsed, store, rows, merged, graphs>>

-----------------------------------------------------------------------------
(* Where a document may be cut (turtle_chunks). *)

\* Where the text starts, and where each of its units ends.
Ends(doc) ==
    LET end[i \in 0 .. Len(doc.units)] ==
            IF i = 0 THEN 0 ELSE end[i - 1] + doc.units[i].len
    IN  end
LengthOf(doc) == Ends(doc)[Len(doc.units)] + doc.tail

Labelled(doc) ==
    \E i \in DOMAIN doc.units : \E term \in TermsOf(doc.units[i].triples) : term.t = "label"

Ordinary(doc) == {i \in DOMAIN doc.units : doc.units[i].head # "directive"}
FirstOrdinary(doc) == CHOOSE i \in Ordinary(doc) : \A j \in Ordinary(doc) : i <= j

\* One prologue serves every chunk: all directives come before all else.
MayBeSplit(doc, want) ==
    /\ want >= 2
    /\ LengthOf(doc) >= MinText
    /\ ~Labelled(doc)
    /\ Ordinary(doc) # {}
    /\ \A i \in DOMAIN doc.units : doc.units[i].head = "directive" => i < FirstOrdinary(doc)
    /\ Len(doc.units) >= want * 2

\* The stretches <<from, to>>: cut at the first boundary at or after each even
\* split of the body, unless it was cut there before.
Stretches(doc, want) ==
    LET ends == Ends(doc)
        start == ends[FirstOrdinary(doc) - 1]
        boundaries == {ends[i] : i \in DOMAIN doc.units}
        target(k) == start + ((LengthOf(doc) - start) * k) \div want
        next(cuts, k) ==
            {b \in boundaries : /\ b >= target(k) /\ b > Last(cuts)
                               /\ \A c \in boundaries : c >= target(k) => b <= c}
        upTo[k \in 0 .. (want - 1)] ==
            IF k = 0 THEN <<start>>
            ELSE IF next(upTo[k - 1], k) = {} THEN upTo[k - 1]
            ELSE Append(upTo[k - 1], CHOOSE b \in next(upTo[k - 1], k) : TRUE)
        cuts == Append(upTo[want - 1], LengthOf(doc))
    IN  [i \in 1..(Len(cuts) - 1) |-> <<cuts[i], cuts[i + 1]>>]

UnitsIn(doc, from, to) ==
    LET upTo(v) == Cardinality({i \in DOMAIN doc.units : Ends(doc)[i] <= v})
    IN  SubSeq(doc.units, upTo(from) + 1, upTo(to))

\* The texts to parse: the prologue and a stretch each, or the whole document.
IsSplit(doc, want) == MayBeSplit(doc, want) /\ Len(Stretches(doc, want)) > 1
Texts(doc, want) ==
    IF IsSplit(doc, want)
    THEN LET stretches == Stretches(doc, want)
         IN  [i \in DOMAIN stretches |->
                UnitsIn(doc, 0, stretches[1][1]) \o UnitsIn(doc, stretches[i][1], stretches[i][2])]
    ELSE <<doc.units>>

-----------------------------------------------------------------------------
(* The Turtle parser. *)

\* A term of a unit as the parser gives it; made counts its anonymous nodes.
ResolvedSimple(term, env, made) ==
    CASE term.t = "name" -> [t |-> "iri", s |-> <<env[term.prefix], term.local>>]
      [] term.t = "anon" -> [t |-> "blank", label |-> <<"anon", made + term.k>>]
      [] term.t = "label" -> [t |-> "blank", label |-> <<term.label>>]
      [] OTHER -> term
Resolved(term, env, made) ==
    IF term.t # "triple" THEN ResolvedSimple(term, env, made)
    ELSE [term EXCEPT !.parts = [c \in 1..3 |-> ResolvedSimple(@[c], env, made)]]

\* The prefixes known after some declarations.
Declared(env, decl) ==
    LET upTo[i \in 0 .. Len(decl)] ==
            IF i = 0 THEN env ELSE With(upTo[i - 1], decl[i][1], decl[i][2])
    IN  upTo[Len(decl)]

ParseUnit(acc, unit) ==
    LET env == Declared(acc.env, unit.decl)
        known == \A term \in TermsOf(unit.triples) : term.t = "name" => term.prefix \in DOMAIN env
    IN  IF ~acc.ok THEN acc
        ELSE IF unit.bad \/ ~known THEN [acc EXCEPT !.ok = FALSE]
        ELSE [ok |-> TRUE, env |-> env, made |-> acc.made + Cardinality(Anonymous(unit.triples)),
              triples |-> acc.triples \o
                  [i \in DOMAIN unit.triples |->
                      [c \in 1..3 |-> Resolved(unit.triples[i][c], env, acc.made)]]]

\* A parser reads a text from its start, and names anonymous nodes anew.
Parse(units) ==
    LET upTo[n \in 0..Len(units)] ==
            IF n = 0 THEN [ok |-> TRUE, env |-> <<>>, made |-> 0, triples |-> <<>>]
            ELSE ParseUnit(upTo[n - 1], units[n])
    IN  upTo[Len(units)]

-----------------------------------------------------------------------------
(* Interning what was parsed. *)

InternSimple(st, term, scope) ==
    CASE term.t = "iri" -> NamedNode(st, term.s)
      [] term.t = "blank" -> BlankNode(st, scope, term.label)
      [] OTHER -> Literal(st, term.lex, term.datatype, term.lang, term.dir)

\* Three terms one after the other.
InternThree(intern(_, _, _), st, terms, scope) ==
    LET s == intern(st, terms[1], scope)
        p == intern(s.store, terms[2], scope)
        o == intern(p.store, terms[3], scope)
    IN  [store |-> o.store, row |-> <<s.id, p.id, o.id>>]

\* intern_oxrdf.  The parts of a triple term are no triple terms themselves.
InternTerm(st, term, scope) ==
    IF term.t # "triple" THEN InternSimple(st, term, scope)
    ELSE LET parts == InternThree(InternSimple, st, term.parts, scope)
         IN  TripleTerm(parts.store, parts.row)

FirstDynamic == 16
BaseOf == [data |-> 0, shapes |-> 1]

\* One document keeps the plain scope; of several each has its own.
ScopeOf(for, n, i) == IF n = 1 THEN BaseOf[for] ELSE FirstDynamic + BaseOf[for] * 1024 + i - 1

JobsFor(for, docs) ==
    [i \in DOMAIN docs |-> [doc |-> docs[i], scope |-> ScopeOf(for, Len(docs), i), for |-> for]]

Job == jobs[at]

\* Mutant of ChunkScope: a chunk has the scope of its document.
ChunkScope_Document(i) == Job.scope

\* The scope of a chunk's blank nodes; a whole document keeps its own.
ChunkScope(i) == IF split THEN Job.scope + i * 65536 ELSE Job.scope

-----------------------------------------------------------------------------

\* TermStore::new: the vocabulary's IRIs come first.
Fresh ==
    LET upTo[n \in 0..Len(Vocabulary)] ==
            IF n = 0 THEN EmptyStore ELSE NamedNode(upTo[n - 1], Vocabulary[n]).store
    IN  upTo[Len(Vocabulary)]

Init ==
    /\ \E input \in Inputs : jobs = JobsFor("data", input.data) \o JobsFor("shapes", input.shapes)
    /\ threads \in ThreadCounts
    /\ pc = "read"
    /\ at = 1
    /\ split = FALSE
    /\ chunks = <<>>
    /\ parsed = <<>>
    /\ store = Fresh
    /\ rows = <<>>
    /\ merged = <<>>
    /\ graphs = <<>>

\* A document is read and cut up, or left whole.
ReadDocument ==
    /\ pc = "read"
    /\ pc' = "parse"
    /\ split' = IsSplit(Job.doc, threads)
    /\ chunks' = Texts(Job.doc, threads)
    /\ UNCHANGED <<jobs, threads, at, parsed, store, rows, merged, graphs>>

\* A worker has parsed a chunk, whichever.
ParseChunk(i) ==
    /\ pc = "parse"
    /\ i \in DOMAIN chunks \ DOMAIN parsed
    /\ parsed' = With(parsed, i, Parse(chunks[i]))
    /\ pc' = IF DOMAIN parsed' = DOMAIN chunks THEN "merge" ELSE pc
    /\ UNCHANGED <<jobs, threads, at, split, chunks, store, rows, merged, graphs>>

Merging == pc = "merge" /\ chunks # <<>>
NextChunk == Len(parsed) - Len(chunks) + 1

\* Mutant of MergeFails: a chunk with an error is left out.
MergeFails_Skips ==
    /\ Merging /\ ~parsed[NextChunk].ok
    /\ chunks' = Tail(chunks)
    /\ UNCHANGED <<jobs, threads, pc, at, split, parsed, store, rows, merged, graphs>>

\* The first chunk with an error ends the run.
MergeFails ==
    /\ Merging /\ ~parsed[NextChunk].ok
    /\ pc' = "failed"
    /\ UNCHANGED <<jobs, threads, at, split, chunks, parsed, store, rows, merged, graphs>>

\* Chunks are interned in the order of the text, triple by triple.
InternNext ==
    /\ Merging /\ parsed[NextChunk].ok /\ parsed[NextChunk].triples # <<>>
    /\ \E next \in {InternThree(InternTerm, store, Head(parsed[NextChunk].triples),
                                ChunkScope(NextChunk))} :
          /\ store' = next.store
          /\ rows' = Append(rows, next.row)
    /\ parsed' = [parsed EXCEPT ![NextChunk].triples = Tail(@)]
    /\ UNCHANGED <<jobs, threads, pc, at, split, chunks, merged, graphs>>

ChunkDone ==
    /\ Merging /\ parsed[NextChunk].ok /\ parsed[NextChunk].triples = <<>>
    /\ chunks' = Tail(chunks)
    /\ UNCHANGED <<jobs, threads, pc, at, split, parsed, store, rows, merged, graphs>>

LastOfGraph == at = Len(jobs) \/ jobs[at + 1].for # Job.for

\* The document is a graph; the graphs of several documents make one.
FinishDocument ==
    /\ pc = "merge" /\ chunks = <<>>
    /\ \E graph \in {Built(rows)} :
          IF LastOfGraph
          THEN /\ graphs' = With(graphs, Job.for,
                                 IF merged = <<>> THEN graph ELSE Built(merged \o graph.spo))
               /\ merged' = <<>>
          ELSE /\ merged' = merged \o graph.spo
               /\ UNCHANGED graphs
    /\ rows' = <<>>
    /\ parsed' = <<>>
    /\ split' = FALSE
    /\ IF at = Len(jobs)
       THEN pc' = "done" /\ UNCHANGED at
       ELSE pc' = "read" /\ at' = at + 1
    /\ UNCHANGED <<jobs, threads, chunks, store>>

Next ==
    \/ ReadDocument \/ InternNext \/ ChunkDone \/ MergeFails \/ FinishDocument
    \/ \E i \in DOMAIN chunks : ParseChunk(i)

Spec == Init /\ [][Next]_vars /\ WF_vars(Next)
=============================================================================
