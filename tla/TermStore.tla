------------------------------ MODULE TermStore ------------------------------
(***************************************************************************)
(* The store of terms (term.rs) on its string interner (interner.rs).  A   *)
(* term's id is its position, from 1.  An IRI is <<namespace, local>>, any *)
(* other string of a document <<s>>, and the label "scope:bN" of a blank   *)
(* node <<"b", scope, N>>.  Where a table may lack an entry it is a        *)
(* function on the entries it has.                                         *)
(***************************************************************************)
EXTENDS Naturals, Sequences, FiniteSets, SequencesExt, Functions

EmptyStore ==
    [strings |-> <<>>,          \* the interner: a string's id is its position
     terms |-> <<>>,            \* what each term is
     lookup |-> <<>>,           \* literals and triple terms, to their ids
     namedOf |-> <<>>,          \* the IRI made of a string, by the string's id
     blankOf |-> <<>>,          \* the same for blank nodes
     tripleTerms |-> <<>>,
     blankNumbers |-> <<>>]     \* the number of a label of a document

\* The table with one more entry.
With(table, key, value) ==
    [k \in DOMAIN table \cup {key} |-> IF k = key THEN value ELSE table[k]]

Position(seq, x) == CHOOSE i \in DOMAIN seq : seq[i] = x

\* Interner::intern, as the strings after it; the id is the position in them.
Interned(strings, s) == IF s \in ToSet(strings) THEN strings ELSE Append(strings, s)

IriTerm(s) == [kind |-> "iri", s |-> s]
BlankTerm(s) == [kind |-> "blank", s |-> s]
LiteralTerm(lex, datatype, lang, dir) ==
    [kind |-> "literal", s |-> lex, datatype |-> datatype, lang |-> lang, dir |-> dir]
TripleTermAt(i) == [kind |-> "triple", i |-> i]

\* by_string for an IRI: the tables find it, or it is the next term.
NamedNode(store, iri) ==
    LET strings == Interned(store.strings, iri)
        s == Position(strings, iri)
    IN  IF s \in DOMAIN store.namedOf
        THEN [store |-> store, id |-> store.namedOf[s]]
        ELSE [store |-> [store EXCEPT !.strings = strings,
                                      !.terms = Append(@, IriTerm(s)),
                                      !.namedOf = With(@, s, Len(store.terms) + 1)],
              id |-> Len(store.terms) + 1]

\* blank_node: labels are numbered as they are first seen, scope by scope.
BlankNode(store, scope, label) ==
    LET key == <<scope, label>>
        numbers == IF key \in DOMAIN store.blankNumbers THEN store.blankNumbers
                   ELSE With(store.blankNumbers, key, Cardinality(DOMAIN store.blankNumbers))
        name == <<"b", scope, numbers[key]>>
        strings == Interned(store.strings, name)
        s == Position(strings, name)
    IN  IF s \in DOMAIN store.blankOf
        THEN [store |-> store, id |-> store.blankOf[s]]
        ELSE [store |-> [store EXCEPT !.strings = strings, !.blankNumbers = numbers,
                                      !.terms = Append(@, BlankTerm(s)),
                                      !.blankOf = With(@, s, Len(store.terms) + 1)],
              id |-> Len(store.terms) + 1]

\* push: a term whose identity is more than a string.
Pushed(store, data) ==
    IF data \in DOMAIN store.lookup THEN [store |-> store, id |-> store.lookup[data]]
    ELSE [store |-> [store EXCEPT !.terms = Append(@, data),
                                  !.lookup = With(@, data, Len(store.terms) + 1)],
          id |-> Len(store.terms) + 1]

\* A language tag or none, and what becomes of it.
Tagged(lang, of(_)) == IF lang = <<>> THEN <<>> ELSE <<of(lang[1])>>

\* literal_with_direction.
Literal(store, lex, datatype, lang, dir) ==
    LET text == Interned(store.strings, lex)
        strings == IF lang = <<>> THEN text ELSE Interned(text, lang[1])
        typed == NamedNode([store EXCEPT !.strings = strings], datatype)
        at(s) == Position(typed.store.strings, s)
    IN  Pushed(typed.store, LiteralTerm(at(lex), typed.id, Tagged(lang, at), dir))

\* triple_term: the triple is its identity, not the slot it lands in.
TripleTerm(store, triple) ==
    LET triples == Interned(store.tripleTerms, triple)
    IN  Pushed([store EXCEPT !.tripleTerms = triples], TripleTermAt(Position(triples, triple)))

-----------------------------------------------------------------------------
(* Looking terms up without growing the store. *)

IdsOf(store, kind) == {i \in DOMAIN store.terms : store.terms[i].kind = kind}

\* get_named_node: a set of one, or of none.
GetNamedNode(store, iri) ==
    {store.namedOf[s] : s \in {s \in DOMAIN store.namedOf : store.strings[s] = iri}}

\* get_term, for a literal.
GetLiteral(store, lex, datatype, lang, dir) ==
    LET known == \A s \in {lex} \cup ToSet(lang) : s \in ToSet(store.strings)
        at(s) == Position(store.strings, s)
        data == {LiteralTerm(at(lex), d, Tagged(lang, at), dir) :
                    d \in IF known THEN GetNamedNode(store, datatype) ELSE {}}
    IN  {store.lookup[l] : l \in data \cap DOMAIN store.lookup}

\* get_triple_term.
GetTripleTerm(store, triple) ==
    {store.lookup[t] : t \in {TripleTermAt(i) : i \in {j \in DOMAIN store.tripleTerms :
                                  store.tripleTerms[j] = triple}} \cap DOMAIN store.lookup}

\* blank_node_from_output_label, of a label this store has rendered.
GetBlankNode(store, name) ==
    {store.blankOf[s] : s \in {s \in DOMAIN store.blankOf : store.strings[s] = name}}

-----------------------------------------------------------------------------
(* Going to and coming from an index file. *)

\* parts: the tables that can be derived are left out.
Parts(store) ==
    [strings |-> store.strings, terms |-> store.terms,
     tripleTerms |-> store.tripleTerms, blankNumbers |-> store.blankNumbers]

\* Mutant of FromParts: every term goes into the lookup table.
FromParts_AllLookedUp(parts) ==
    LET ids(kind) == IdsOf(parts, kind)
    IN  [strings |-> parts.strings, terms |-> parts.terms,
         lookup |-> [d \in ToSet(parts.terms) |-> Position(parts.terms, d)],
         namedOf |-> <<>>, blankOf |-> <<>>,
         tripleTerms |-> parts.tripleTerms, blankNumbers |-> parts.blankNumbers]

\* from_parts: the tables again, from the terms.
FromParts(parts) ==
    LET byString(kind) ==
            [s \in {parts.terms[i].s : i \in IdsOf(parts, kind)} |->
                CHOOSE i \in IdsOf(parts, kind) : parts.terms[i].s = s]
        others == IdsOf(parts, "literal") \cup IdsOf(parts, "triple")
    IN  [strings |-> parts.strings, terms |-> parts.terms,
         lookup |-> [d \in {parts.terms[i] : i \in others} |-> Position(parts.terms, d)],
         namedOf |-> byString("iri"), blankOf |-> byString("blank"),
         tripleTerms |-> parts.tripleTerms, blankNumbers |-> parts.blankNumbers]
=============================================================================
