------------------------------ MODULE MCEngine ------------------------------
(***************************************************************************)
(* Instances of the engine for TLC: one catalogue of small shapes graphs,  *)
(* three things, and data graphs that hold every kind of edge between the  *)
(* first two of them and from them to the third.  The constraints that     *)
(* compare values also see two texts in one language and two numbers.      *)
(***************************************************************************)
EXTENDS EngineProperties

Things == 1..3
Texts == 4..5
Numbers == 6..7
MCNodes == Things \cup Texts \cup Numbers

\* The paths that are a single predicate: "back" leads from 1 and 2 to what "p"
\* leads to them from.
MCPredicates == {"p", "q", "type", "sub"}

\* What the paths and the lists of these lead to: the values of two rows.
Small(S) == {T \in SUBSET S : Cardinality(T) <= 2}
MCFocusSets == {Sorted(first) \o Sorted(second) : first, second \in Small(Things)}

Shape(path, constraints) ==
    [deactivated |-> FALSE, path |-> path, values |-> {}, sev |-> "Violation", sevOf |-> <<>>,
     targets |-> {}, selector |-> "none", where |-> {}, constraints |-> constraints]
At(targets, shape) == [shape EXCEPT !.targets = targets]
Sev(sev, shape) == [shape EXCEPT !.sev = sev]
ForbidValue(bad) == [kind |-> "value", bad |-> bad]
Prop(s) == [kind |-> "property", shape |-> s]
AskOf(kind, shapes) == [kind |-> kind, shapes |-> shapes]
Compared(kind, other) == [kind |-> kind, other |-> other]
Closed(byTypes, about) ==
    [kind |-> "closed", byTypes |-> byTypes, ignored |-> {"sub"},
     about |-> [n \in MCNodes |-> IF n \in DOMAIN about THEN about[n] ELSE {}]]

Solution(this, value, path) == [this |-> this, value |-> value, path |-> path]

MCDefs ==
    [ \* two node shapes that nothing nests under, and one that is switched off
      Not2 |-> Shape(NoPath, <<ForbidValue({2})>>),
      Not3 |-> Shape(NoPath, <<ForbidValue({3})>>),
      Off |-> [Shape(NoPath, <<ForbidValue(MCNodes)>>) EXCEPT !.deactivated = TRUE],
      \* every asking constraint, about the values of a path
      Logic |-> At({1, 2}, Shape("p", <<
                    AskOf("not", <<"Not2">>), AskOf("and", <<"Not2", "Not3">>),
                    AskOf("or", <<"Not2", "Not3">>), AskOf("xone", <<"Not2", "Not3", "Off">>)>>)),
      Answer |-> At({1, 2}, Shape("p", <<
                    AskOf("node", <<"Not2">>), AskOf("some", <<"Not3">>),
                    [kind |-> "qualified", shapes |-> <<"Not2", "Not3">>, min |-> 1, max |-> 1],
                    [kind |-> "qualified", shapes |-> <<"Not3">>, min |-> 0, max |-> 1]>>)),
      Lists |-> At({1, 2}, Shape("p", <<
                    AskOf("member", <<"Not3">>),
                    [kind |-> "reifier", shapes |-> <<"Not2">>, required |-> TRUE],
                    [kind |-> "nodeBy", names |-> [n \in MCNodes |->
                        IF n = 2 THEN <<"Not2", "Not3">> ELSE <<"Not3">>]]>>)),
      \* nested property shapes, two of them sharing a value shape
      Outer |-> At({1, 2}, Shape(NoPath, <<
                    Prop("Inner"), ForbidValue({1}), Prop("Inner")>>)),
      Inner |-> Shape("p", <<
                    [kind |-> "minCount", n |-> 1], Prop("Not2"), [kind |-> "maxCount", n |-> 1],
                    [kind |-> "hasValue", wanted |-> 3], Prop("Off")>>),
      \* a property shape that refers to itself, and its way in
      Chain |-> Shape("p", <<Prop("Chain"), ForbidValue({2})>>),
      ChainRoot |-> At({1, 2}, Shape(NoPath, <<Prop("Chain")>>)),
      \* shapes that ask about themselves
      Trust |-> At({1, 2}, Shape("p", <<AskOf("node", <<"Trust">>), ForbidValue({2})>>)),
      Odd |-> At({1, 2}, Shape("p", <<AskOf("not", <<"Even">>)>>)),
      Even |-> Shape("p", <<Prop("Odd"), ForbidValue({3})>>),
      \* targets chosen by a shape
      Where |-> [Shape("p", <<ForbidValue({2}), Prop("Not3")>>) EXCEPT !.where = {"Not2"}],
      \* a query that cannot be run, two calls down
      Broken |-> Shape(NoPath, <<
                    [kind |-> "sparql", isAsk |-> TRUE, sev |-> {}, solutions |-> <<>>]>>),
      Asker |-> At({1}, Shape("p", <<ForbidValue({2}), AskOf("or", <<"Not2", "Broken">>)>>)),
      \* expressions that some node has no answer from, for the values of a shape
      \* that is a root, nested or asked, and in a constraint; and targets that a
      \* query selects, or fails to
      Derived |-> [Shape("p", <<ForbidValue({2})>>) EXCEPT !.values = {[n \in {1, 3} |-> {2}]}],
      Computed |-> [At({1, 2}, Shape("p", <<Prop("Derived"), AskOf("member", <<"Derived">>)>>))
                    EXCEPT !.selector = "runs"],
      Judged |-> At({1, 2}, Shape("p", <<
                    [kind |-> "custom", isAsk |-> TRUE,
                     answers |-> [fv \in {1, 2} \X {2, 3} |-> {fv[2]}]],
                    [kind |-> "expression", holds |-> [n \in {1, 2} |-> n = 1]],
                    [kind |-> "nodeBy", names |-> [n \in {1} |-> <<"Not2">>]]>>)),
      Unselected |-> [At({1}, Shape("p", <<ForbidValue({2})>>)) EXCEPT !.selector = "fails"],
      \* a path that is no predicate: there is no statement to ask about
      Behind |-> At({1, 2}, Shape("back", <<
                    [kind |-> "reifier", shapes |-> <<"Not2">>, required |-> TRUE],
                    ForbidValue({1})>>)),
      \* uniqueness of keys, over targets and over values
      Keyed |-> At(Things, Shape(NoPath, <<[kind |-> "unique", key |-> "p"]>>)),
      KeyedRoot |-> At({1, 2}, Shape("p", <<Prop("Keyed")>>)),
      \* comparisons with the values of another predicate, classes and tags
      Pairs |-> At({1, 2}, Shape("p", <<
                    Compared("equals", "q"), Compared("disjoint", "q"), Compared("subsetOf", "q"),
                    Compared("lessThan", "q"), Compared("lessThanOrEquals", "q"),
                    [kind |-> "uniqueLang"]>>)),
      Classes |-> At(Things, Shape("p", <<
                    [kind |-> "class", classes |-> {3}], [kind |-> "rootClass", root |-> 3],
                    [kind |-> "uniqueMembers"]>>)),
      \* closed shapes, and what is declared about the classes 1, 2 and 3
      PropP |-> Shape("p", <<>>),
      PropQ |-> Shape("q", <<>>),
      Named |-> Shape(NoPath, <<Prop("PropP")>>),
      Aged |-> Shape(NoPath, <<Prop("PropQ")>>),
      Both |-> Shape(NoPath, <<AskOf("and", <<"Named", "Aged">>)>>),
      Loop |-> Shape(NoPath, <<AskOf("node", <<"Aged">>), AskOf("node", <<"Loop">>)>>),
      Shut |-> At({1, 2}, Shape(NoPath, <<
                    Closed(FALSE, <<>>), Prop("PropP"), Prop("Behind")>>)),
      ByTypes |-> At({1, 2}, Shape(NoPath, <<
                    Closed(TRUE, <<{"Loop"}, {"Both"}, {"Named"}>>)>>)),
      \* queries, and value nodes that an expression names
      Asks |-> At({1, 2}, Shape("p", <<
                    [kind |-> "sparql", isAsk |-> TRUE, sev |-> {"Info"}, solutions |->
                        [n \in MCNodes |-> IF n = 1 THEN <<>> ELSE <<Solution({}, {}, {})>>]],
                    [kind |-> "custom", isAsk |-> TRUE, answers |->
                        [fv \in MCNodes \X MCNodes |-> {fv[1]} \ {fv[2]}]]>>)),
      Selects |-> [At({1, 2}, Shape(NoPath, <<
                    [kind |-> "sparql", isAsk |-> FALSE, sev |-> {}, solutions |->
                        [n \in MCNodes |-> <<Solution({}, {{3}}, {"q"}), Solution({3}, {}, {}),
                                            Solution({}, {{}}, {})>>]],
                    [kind |-> "custom", isAsk |-> FALSE, answers |->
                        [fv \in MCNodes \X MCNodes |-> {fv[1]} \ {fv[2]}]],
                    [kind |-> "expression", holds |-> [n \in MCNodes |-> n # 2]]>>))
                  EXCEPT !.values = {[n \in MCNodes |-> {n, 2}]}],
      \* asking references that nest past the limit
      Deep1 |-> At({1}, Shape("p", <<AskOf("node", <<"Deep2">>)>>)),
      Deep2 |-> Shape(NoPath, <<AskOf("node", <<"Deep3">>)>>),
      Deep3 |-> Shape(NoPath, <<AskOf("node", <<"Not3">>)>>),
      \* results of different severities
      Debug |-> [Sev("Debug", At({1, 2}, Shape("p", <<[kind |-> "minCount", n |-> 1],
                                                      ForbidValue({3})>>)))
                    EXCEPT !.sevOf = [minCount |-> "Violation"]],
      Info |-> Sev("Info", At({1, 2}, Shape("p", <<ForbidValue({2}), AskOf("node", <<"Debug">>)>>)))
    ]

\* 1 is a list in which 2 occurs twice; statements with the value 2 have two
\* reifiers.
None == [n \in MCNodes |-> {}]
Data(p, q, type, up) ==
    [all |-> Things,
     edges |-> [p |-> p, q |-> q, type |-> type, sub |-> up,
                back |-> [n \in MCNodes |-> {m \in {1, 2} : n \in p[m]}]],
     lists |-> [v \in {1} |-> <<2, 3, 2>>],
     reifiers |-> [st \in Things \X {"p"} \X {2} |-> <<1, 3>>],
     lang |-> [n \in MCNodes |-> IF n \in Texts THEN {"en"} ELSE {}],
     rank |-> [n \in MCNodes |-> IF n \in Numbers THEN {n} ELSE {}]]

\* What the path p reaches: any two things at most from 1 and from 2, and the
\* given ones from 3.
From(of) == [n \in MCNodes |-> IF n \in DOMAIN of THEN of[n] ELSE {}]
Paths(last) == {From(<<one, two, last>>) : one, two \in Small(Things)}

Run(p, roots, graph, byNode, max, blocking) ==
    [data |-> Data(p, None, None, None), graph |-> graph, roots |-> roots, byNode |-> byNode,
     work |-> <<>>, threads |-> 1, max |-> max, blocking |-> blocking]
Threads(n, runs) == {[run EXCEPT !.threads = n] : run \in runs}
About(graph, data) ==
    [Run(None, graph[1], graph[2], <<>>, {}, {}) EXCEPT !.data = data, !.threads = 2]

\* Roots and the shapes they need.
AcyclicGraphs ==
    { <<<<"Logic">>, {"Logic", "Not2", "Not3", "Off"}>>,
      <<<<"Answer", "Where">>, {"Answer", "Where", "Not2", "Not3"}>>,
      <<<<"Outer">>, {"Outer", "Inner", "Not2", "Off"}>>,
      <<<<"Lists">>, {"Lists", "Not2", "Not3"}>> }
FailingGraphs ==
    { <<<<"Asker">>, {"Asker", "Not2", "Broken"}>>,
      <<<<"Computed">>, {"Computed", "Derived"}>>,
      <<<<"Derived", "Unselected">>, {"Derived", "Unselected"}>>,
      <<<<"Judged">>, {"Judged", "Not2"}>> }
RecursiveGraphs ==
    { <<<<"ChainRoot">>, {"ChainRoot", "Chain"}>>,
      <<<<"Trust">>, {"Trust"}>>,
      <<<<"Odd">>, {"Odd", "Even"}>> }
KeyedGraphs == { <<<<"Keyed", "KeyedRoot">>, {"Keyed", "KeyedRoot"}>> }

\* Every path relation for every graph, and a few with nodes that name their
\* own shape.
Uncapped(graphs, last) ==
    {Run(p, g[1], g[2], <<>>, {}, {}) : p \in Paths(last), g \in graphs}
    \cup {Run(p, g[1], g[2], <<[node |-> 2, shape |-> g[1][1]], [node |-> 3, shape |-> g[1][1]]>>,
              {}, {}) : p \in {p \in Paths(last) : p[2] = {3}}, g \in graphs}

\* A choice of the path relations, where all of them would say no more.
Some(runs) == {run \in runs : run.data.edges.p[2] \in {{2}, {3}, {1, 3}}}

AcyclicInputs == Uncapped(AcyclicGraphs, {})
FailingInputs == Some(Uncapped(FailingGraphs, {}))
RecursiveInputs == Uncapped(RecursiveGraphs, {1})

Capped(n) ==
    {Run(p, <<"Debug", "Info">>, {"Debug", "Info", "Not3"}, <<[node |-> 3, shape |-> "Not3"]>>,
         {n}, b) :
        p \in Paths({}), b \in {{}, {{}}, {{"Violation"}}, {{"Debug", "Violation"}}}}
CappedInputs == Some(Capped(0)) \cup Capped(1) \cup Some(Capped(2))

\* Values of every kind against values of another predicate, classes and their
\* hierarchy, closed shapes, queries.
KindInputs ==
    {About(<<<<"Pairs">>, {"Pairs"}>>, Data(From(<<p, {6}>>), From(<<q, {7}>>), None, None)) :
        p \in Small({2} \cup Texts \cup Numbers), q \in {{}, {2}, {4}, {6}, {4, 6}, {5, 7}}}
    \cup
    {About(g, Data(From(<<p, {1}, {2}>>), From(<<{3}, {}, {}>>), From(<<one, two, {}>>), up)) :
        g \in {<<<<"Classes">>, {"Classes"}>>,
               <<<<"Shut">>, {"Shut", "PropP", "Behind", "Not2"}>>,
               <<<<"ByTypes", "Shut">>, {"ByTypes", "Shut", "PropP", "PropQ", "Named", "Aged",
                                         "Both", "Loop", "Behind", "Not2"}>>},
        p \in {{2}, {1, 3}}, one \in Small({2, 3}), two \in {{1}, {3}},
        up \in {None, From(<<{}, {3}, {}>>), From(<<{2}, {3}, {2}>>)}}
    \cup
    {About(<<<<"Asks", "Selects">>, {"Asks", "Selects"}>>, Data(p, None, None, None)) :
        p \in Paths({})}

\* Several threads, with few focus nodes and with many; where the shapes are
\* not separable they must not be used.
SplitGraphs ==
    { <<<<"Answer", "Where">>, {"Answer", "Where", "Not2", "Not3"}>>,
      <<<<"Outer", "Classes">>, {"Outer", "Inner", "Not2", "Off", "Classes"}>>,
      <<<<"Logic">>, {"Logic", "Not2", "Not3", "Off"}>>,
      <<<<"Deep1", "Where", "Outer">>,
        {"Deep1", "Deep2", "Deep3", "Where", "Outer", "Inner", "Not2", "Not3", "Off"}>> }
SplitInputs ==
    Threads(2, Some(Uncapped(SplitGraphs \cup KeyedGraphs, {}))) \cup
    Threads(3, Some(Uncapped({<<<<"Outer", "Classes">>,
                                {"Outer", "Inner", "Not2", "Off", "Classes"}>>}, {})))

\* Pairs of a shape and a node to validate again, in any order and repeated.
WorkInputs ==
    {[Run(p, <<>>, {"Outer", "Inner", "Not2", "Off"}, <<>>, {}, {}) EXCEPT !.work = w] :
        p \in {p \in Paths({2}) : p[2] \in {{2}, {1, 3}}},
        w \in {<<<<"Outer", 2>>, <<"Not2", 2>>, <<"Outer", 1>>, <<"Outer", 2>>>>,
               <<<<"Inner", 3>>, <<"Inner", 1>>, <<"Inner", 3>>>>}}

\* All of them: each property says which runs it is about.
AllInputs ==
    AcyclicInputs \cup FailingInputs \cup RecursiveInputs \cup CappedInputs
        \cup Some(Uncapped(KeyedGraphs, {1})) \cup KindInputs \cup SplitInputs \cup WorkInputs
=============================================================================
