------------------------------ MODULE MCPathWalk ------------------------------
(***************************************************************************)
(* A catalogue of paths, well formed and not, over small data graphs with  *)
(* cycles, and one of node expressions over the same graphs.  The          *)
(* predicates are 51 and 52, the nodes of the data 1 to 3.                 *)
(***************************************************************************)
EXTENDS ExprProperties, TLC

MCVocab == [nil |-> 8, this |-> 60, type |-> 52, subClassOf |-> 51]

\* A list of two, from cell 10 * n.
ListAt(n, x, y) ==
    {<<10 * n, "first", x>>, <<10 * n, "rest", 10 * n + 1>>,
     <<10 * n + 1, "first", y>>, <<10 * n + 1, "rest", 8>>}

MCPathGraph ==
    [triples |->
        {<<10, "inversePath", 51>>, <<12, "alternativePath", 120>>, <<13, "zeroOrMorePath", 51>>,
         <<14, "oneOrMorePath", 110>>, <<15, "zeroOrOnePath", 52>>, <<16, "inversePath", 170>>,
         <<18, "oneOrMorePath", 13>>, <<27, "oneOrMorePath", 280>>, <<28, "alternativePath", 280>>,
         <<29, "zeroOrMorePath", 28>>,
         \* a list that is an operator too
         <<210, "inversePath", 51>>,
         \* too deep by one, and as deep as may be
         <<24, "zeroOrOnePath", 18>>, <<25, "inversePath", 24>>,
         \* not paths: one that contains itself, a list of one, a literal, no list
         <<19, "zeroOrMorePath", 19>>,
         <<20, "first", 51>>, <<20, "rest", 8>>, <<23, "alternativePath", 230>>,
         <<230, "first", 51>>,
         <<33, "inversePath", 51>>, <<33, "first", 52>>, <<33, "rest", 8>>}
          \cup ListAt(11, 51, 52) \cup ListAt(12, 51, 10) \cup ListAt(17, 13, 52)
          \cup ListAt(21, 51, 52) \cup ListAt(22, 51, 9) \cup ListAt(28, 51, 10)
          \cup ListAt(30, 29, 30),
     iris |-> {51, 52}, lex |-> (9 :> "text")]

MCRoots == {51, 10, 110, 12, 13, 14, 15, 16, 18, 27, 29, 210, 24, 25, 19, 20, 220, 23, 26, 300, 33}

MCDataGraphs ==
    SUBSET {<<1, 51, 2>>, <<2, 51, 1>>, <<2, 51, 3>>, <<2, 52, 3>>, <<3, 52, 1>>}

MCFocusLists == {<<>>, <<2, 1, 2>>, <<3, 1>>}

-----------------------------------------------------------------------------
(* Node expressions. *)

\* A list of any length from cell n, which stands for itself where it is empty.
Cells(n, items) ==
    {<<n + i - 1, "first", items[i]>> : i \in DOMAIN items}
      \cup {<<n + i - 1, "rest", IF i = Len(items) THEN 8 ELSE n + i>> : i \in DOMAIN items}

\* Operands: 610 with repeats, 620 the values of a path, 630 those of three
\* starts, 640 numbers among other terms, 650 nothing at all.
Operands ==
    Cells(610, <<2, 1, 2>>) \cup {<<620, "pathValues", 51>>}
      \cup {<<630, "pathValues", 13>>, <<630, "focusNode", 610>>}
      \cup Cells(640, <<1503, 1, 1502, 1503>>)
Bases == {60, 610, 620, 630, 640, 650}

\* Lists of operands, from 700 on: two, one, something that fails, a triple.
Lists == Cells(700, <<610, 620>>) \cup Cells(710, <<630>>) \cup Cells(720, <<620, 660>>)
           \cup Cells(730, <<610, 41>>) \cup Cells(740, <<620, 40>>) \cup Cells(750, <<620, 1, 40>>)
           \cup {<<660, "operator", 1>>}
ListHeads == {700, 710, 720, 730, 740, 750, 1, 8}

\* The expression 600, and what it is made of.
Expressions ==
    {{<<600, op, x>>} : op \in OneOperand \ {"if"}, x \in Bases}
      \cup {{<<600, op, l>>} : op \in (ListOperands \ {"call", "list"}) \cup Functions, l \in ListHeads}
      \cup {{<<600, "nodes", x>>} \cup t : x \in Bases \ {60}, t \in
              {{<<600, "limit", 1502>>}, {<<600, "limit", 1499>>}, {<<600, "limit", 9>>},
               {<<600, "offset", 1501>>}, {<<600, "offset", 1499>>}, {<<600, "remove", 620>>},
               {<<600, "flatMap", 620>>}, {<<600, "flatMap", 610>>},
               {<<600, "orderBy", 670>>, <<670, "count", 620>>},
               {<<600, "orderBy", 620>>, <<600, "desc", 71>>},
               {<<600, "filterShape", 40>>}, {<<600, "findFirst", 41>>}, {<<600, "matchAll", 40>>},
               {<<600, "filterShape", 41>>}, {<<600, "matchAll", 41>>}}}
      \cup {{<<600, "if", 670>>, <<670, "exists", x>>, <<600, "then", 640>>} \cup t :
              x \in {620, 650}, t \in {{}, {<<600, "else", 630>>}}}
      \cup {{<<600, "sh:nodes", x>>} \cup t : x \in Bases \ {60}, t \in
              {{<<600, "path", 51>>}, {<<600, "path", 9>>}, {<<600, "sh:filterShape", 40>>}}}
      \cup {{<<600, "sh:filterShape", 40>>}, {<<600, "path", 13>>}, {<<600, "pathValues", 9>>},
            {<<600, "nodesMatching", 40>>}, {<<600, "nodesMatching", 41>>},
            {<<600, "var", 73>>}, {<<600, "var", 72>>}, {<<600, "var", 9>>},
            {<<600, "select", 74>>}, {<<600, "sparqlExpr", 75>>}, {},
            \* as deep as may be, too deep, and without end
            {<<600, "count", 680>>, <<680, "count", 681>>, <<681, "count", 620>>},
            {<<600, "count", 680>>, <<680, "count", 681>>, <<681, "count", 682>>, <<682, "count", 1>>},
            {<<600, "count", 600>>},
            \* two operators
            {<<600, "limit", 1501>>, <<600, "distinct", 630>>, <<600, "nodes", 610>>}}

ExprGraph(triples) ==
    [triples |-> Operands \cup Lists \cup triples \cup {<<13, "zeroOrMorePath", 51>>},
     iris |-> {1, 2, 3, 8, 40, 41, 51, 52},
     lex |-> (9 :> "text") @@ (71 :> "true") @@ (72 :> "v") @@ (73 :> "focusNode")
                @@ (74 :> "this") @@ (75 :> "wrong")
                @@ (1499 :> "-1") @@ (1501 :> "1") @@ (1502 :> "2") @@ (1503 :> "3")]

MCQuestions ==
    {[graph |-> ExprGraph(e), data |-> d, expr |-> 600, focus |-> f, shapes |-> s,
      vars |-> ("v" :> 2)] :
        e \in Expressions, f \in {{}, {1}, {2}}, s \in BOOLEAN,
        d \in {{<<1, 51, 2>>, <<2, 51, 1>>, <<2, 51, 3>>, <<3, 52, 1>>}, {<<2, 51, 3>>, <<2, 52, 3>>}}}

\* 40 holds of 1 and 3; 41 holds of 2, and cannot be told of 3.
MCHolds(n, shape) ==
    IF shape = 41 THEN (IF n = 3 THEN {} ELSE {n = 2}) ELSE {n \in {1, 3}}

\* A query for $this, and one that does not parse.
MCSolve(query, f) == IF query = 74 THEN {Optional(f)} ELSE {}

MCFunctions == {"sparql:bound", "sparql:coalesce", "sparql:same"}
MCApply(fn, args) == IF Len(args) # 2 THEN {} ELSE {<<BoolLiteral(args[1] = args[2])>>}
=============================================================================
