----------------------------- MODULE MCTurtleLoad -----------------------------
(***************************************************************************)
(* Documents of five and six statements of every kind, alone and several   *)
(* to a graph.                                                             *)
(***************************************************************************)
EXTENDS LoadProperties, TLC

Name(local) == [t |-> "name", prefix |-> "x", local |-> local]
Anon(k) == [t |-> "anon", k |-> k]
Label(l) == [t |-> "label", label |-> l]
Lit(lex) == [t |-> "literal", lex |-> <<lex>>, datatype |-> <<"xsd", "string">>, lang |-> <<>>, dir |-> "none"]
InArabic(lex) == [t |-> "literal", lex |-> <<lex>>, datatype |-> <<"rdf", "langString">>,
                  lang |-> <<<<"ar">>>>, dir |-> "ltr"]
TripleOf(s, p, o) == [t |-> "triple", parts |-> <<s, p, o>>]

Unit(head, len, decl, triples) ==
    [head |-> head, len |-> len, decl |-> decl, triples |-> triples, bad |-> FALSE]

Declare(ns) == Unit("directive", 1, <<<<"x", ns>>>>, <<>>)
Hidden == Unit("comment", 2, <<<<"x", "ns2">>>>, <<>>)
Plain == Unit("statement", 1, <<>>, <<<<Name("a"), Name("p"), Name("b")>>>>)
Again == Unit("statement", 1, <<>>, <<<<Name("b"), Name("p"), InArabic("v")>>,
                                      <<Name("b"), Name("a"), Name("b")>>>>)
Anons == Unit("statement", 3, <<>>, <<<<Name("a"), Name("p"), Anon(1)>>,
                                      <<Anon(1), Name("q"), Anon(2)>>,
                                      <<Anon(2), Name("q"), Lit("v")>>>>)
Labels == Unit("statement", 2, <<>>, <<<<Label("n"), Name("p"), Label("n")>>>>)
Reified == Unit("statement", 2, <<>>,
                <<<<Anon(1), Name("r"), TripleOf(Name("a"), Name("p"), Name("b"))>>>>)
Based == Unit("directive", 1, <<>>, <<<<Name("base"), Name("p"), Name("b")>>>>)
Glued == Unit("directive", 3, <<<<"x", "ns1">>>>, <<<<Name("a"), Name("p"), Anon(1)>>>>)
Bad == [Plain EXCEPT !.bad = TRUE]

Doc(units) == [units |-> units, tail |-> 1]

Bodies(units, n) == [1..n -> units]

\* One document, which is data and shapes in one.
Alone(docs) == {[data |-> <<d>>, shapes |-> <<>>] : d \in docs}

MCInputs ==
    Alone({Doc(<<first>> \o body) :
              first \in {Declare("ns1"), Glued, Plain},
              body \in Bodies({Plain, Anons, Declare("ns2"), Based, Bad}, 4)})
      \cup Alone({Doc(<<Declare("ns1")>> \o body) : body \in Bodies({Again, Anons, Reified}, 5)})
      \cup {[data |-> <<Doc(<<Declare("ns1"), a, b>>), Doc(<<Declare("ns2"), c>>)>>,
             shapes |-> shapes] :
               a \in {Labels, Anons}, b \in {Labels, Anons, Again}, c \in {Labels, Anons},
               shapes \in {<<>>, <<Doc(<<Declare("ns1"), Labels, Anons, Anons, Anons, Anons>>)>>,
                           <<Doc(<<Declare("ns1"), Labels>>), Doc(<<Declare("ns1"), Labels>>)>>}}

\* Documents in which a comment stands before a declaration.
MCCommented ==
    Alone({Doc(<<Hidden>> \o body) : body \in Bodies({Plain, Anons}, 4)})

MCVocabulary == <<<<"rdf", "type">>, <<"xsd", "string">>>>
=============================================================================
