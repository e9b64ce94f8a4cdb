------------------------------ MODULE MCCompile ------------------------------
(***************************************************************************)
(* Shapes graphs for the compiler: a small one that is well formed, and    *)
(* every way to add up to two groups of triples to it, which make it       *)
(* recursive, deeper, annotated, partly switched off, or malformed.        *)
(***************************************************************************)
EXTENDS Separability, TLC

MCVocab ==
    [NodeShape |-> 1, PropertyShape |-> 2, RdfsClass |-> 3, ShapeClass |-> 4, ByTypes |-> 5,
     Violation |-> 6, ShapesGraph |-> 7, nil |-> 8, kinds |-> {9, 10},
     components |-> {"class", "nodeKind", "property"}]

\* Shapes are 20 to 28, literals and queries from 70 on.
Base ==
    {<<20, "type", 1>>, <<20, "targetClass", 50>>, <<20, "property", 21>>, <<20, "property", 22>>,
     <<21, "path", 60>>, <<21, "class", 50>>, <<21, "qualifiedValueShape", 23>>,
     <<21, "qualifiedMinCount", 70>>, <<21, "qualifiedValueShapesDisjoint", 71>>,
     <<22, "path", 61>>, <<22, "qualifiedValueShape", 24>>, <<23, "nodeKind", 9>>,
     \* a list of two, a list that ends in itself, a list that is cut off
     <<30, "first", 25>>, <<30, "rest", 31>>, <<31, "first", 23>>, <<31, "rest", 8>>,
     <<32, "first", 23>>, <<32, "rest", 32>>, <<33, "first", 23>>,
     \* prefixes: 80 imports 81, which declares one
     <<80, "imports", 81>>, <<81, "imports", 80>>, <<81, "declare", 82>>,
     <<82, "prefix", 83>>, <<82, "namespace", 84>>}

Groups ==
    {\* a shape that refers back to its ancestor, one to itself
     {<<23, "node", 20>>},
     {<<24, "someValue", 24>>},
     \* shapes no statement discovers, reached through a list, a reference
     {<<24, "and", 30>>, <<25, "someValue", 26>>, <<25, "not", 26>>, <<26, "memberShape", 27>>},
     {<<20, "targetWhere", 27>>, <<27, "not", 20>>},
     {<<28, "targetNode", 51>>, <<28, "expression", 52>>},
     \* shapes no candidate list names: by a later target, parameter, class
     {<<28, "targetWhere", 23>>}, {<<28, "expression", 52>>, <<29, "type", 4>>},
     \* lists that are not, counts and paths that are not
     {<<22, "or", 32>>}, {<<24, "in", 33>>}, {<<23, "minCount", 72>>}, {<<22, "path", 59>>},
     \* statements with reifiers
     {<<40, "deactivated", 71>>}, {<<41, "severity", 11>>, <<41, "message", 73>>},
     \* a component of the user's own, and queries
     {<<45, "parameter", 46>>, <<46, "path", 62>>, <<45, "validator", 47>>,
      <<47, "select", 74>>, <<47, "prefixes", 80>>, <<21, "width", 70>>},
     {<<22, "sparql", 48>>, <<48, "ask", 75>>},
     {<<20, "target", 49>>, <<49, "select", 75>>},
     {<<22, "uniqueValuesFor", 60>>},
     \* a rule of neither kind, a shape that is switched off and closed
     {<<20, "rule", 53>>, <<53, "subject", 50>>, <<20, "deactivated", 71>>, <<20, "closed", 5>>}}

\* 40 stands for the second sh:property, 41 for the sh:class of 21.
GraphOf(groups) ==
    [triples |-> Base \cup UNION groups,
     reifies |-> {<<40, <<20, "property", 22>>>>, <<41, <<21, "class", 50>>>>},
     lex |-> (71 :> "true") @@ (73 :> "text"),
     iris |-> {20, 50}, names |-> (62 :> "width"), uints |-> {70}, numbers |-> <<>>,
     paths |-> {60, 61}, queries |-> (74 :> {83}), regexes |-> {}, flags |-> <<>>]

MCGraphs ==
    {GraphOf(groups) : groups \in {{}} \cup {{a, b} : a \in Groups, b \in Groups}}
=============================================================================
