--------------------------- MODULE ExprProperties ---------------------------
(***************************************************************************)
(* What a node expression means, read as an algebra of bags: how often a   *)
(* term occurs in the result, from how often terms occur in the operands.  *)
(* Only the operators that look at positions refer to a sequence.          *)
(***************************************************************************)
EXTENDS NodeExpr, BagsExt

SumOf(S, bag(_)) == FoldSet(LAMBDA x, sum : sum (+) bag(x), EmptyBag, S)
Scaled(n, bag) == [x \in DOMAIN bag |-> n * bag[x]]
One(t) == SetToBag({t})

\* The sequence an operand has: the named one, or the focus node alone.
SequenceOf(e, f) == CHOOSE seq \in EvalAt(e, f, 0) : TRUE
Operand(e, p, f) ==
    IF Object(e, p) = {} THEN Optional(f) ELSE SequenceOf(Named(e, p), f)

\* What min and max choose: a first value that is no number, otherwise the
\* last of the least numbers, or the first of the greatest.
Chosen(seq, least) ==
    LET numbers == {i \in DOMAIN seq : NumberOf(seq[i]) # {}}
        value(i) == CHOOSE n \in NumberOf(seq[i]) : TRUE
        best == {i \in numbers : \A j \in numbers :
                    IF least THEN value(i) <= value(j) ELSE value(i) >= value(j)}
    IN  IF seq = <<>> THEN {}
        ELSE IF 1 \notin numbers THEN {1}
        ELSE {CHOOSE i \in best : \A j \in best : IF least THEN j <= i ELSE i <= j}

RECURSIVE Means(_, _)

\* The bag of an operand that defaults to the focus node.
MeansOperand(e, p, f) ==
    IF Object(e, p) = {} THEN SetToBag(f) ELSE Means(Named(e, p), f)

Means(e, f) ==
    LET form == FormOf(e)
        arg == Named(e, form)
        args == Members(ListOf(e, form))
        operand == MeansOperand(e, OperandOf(form), f)
        seq == Operand(e, OperandOf(form), f)
        at(positions) == SumOf(positions, LAMBDA i : One(seq[i]))
        image(starts, p) ==
            SumOf(BagToSet(starts), LAMBDA x : Scaled(CopiesIn(x, starts),
                SetToBag({y[2] : y \in {z \in Describes(p) : z[1] = x}})))
        common == {t \in BagToSet(Means(args[1], f)) :
                      \A i \in DOMAIN args : BagIn(t, Means(args[i], f))}
        conforming(shape) == {n \in BagToSet(operand) : Conforms(n, shape) = {TRUE}}
        keep(terms) == [t \in BagToSet(operand) \cap terms |-> operand[t]]
    IN  IF e = Vocab.this THEN SetToBag(f)
        ELSE IF Object(e, "select") \cup Object(e, "sparqlExpr") # {} THEN ToBag(SequenceOf(e, f))
        ELSE IF ~IsBlank(e) THEN One(e)
        ELSE CASE form = "pathValues" -> image(operand, arg)
          [] form = "path" -> SetToBag(BagToSet(image(operand, arg)))
          [] form = "count" -> One(IntLiteral(BagCardinality(Means(arg, f))))
          [] form = "distinct" -> SetToBag(BagToSet(Means(arg, f)))
          [] form = "exists" -> One(BoolLiteral(Means(arg, f) # EmptyBag))
          [] form = "if" ->
                LET branch == IF Truthy(SequenceOf(arg, f)) THEN "then" ELSE "else"
                IN  IF Object(e, branch) = {} THEN EmptyBag ELSE Means(Named(e, branch), f)
          [] form \in {"concat", "list"} -> SumOf(DOMAIN args, LAMBDA i : Means(args[i], f))
          [] form = "sh:union" -> SetToBag(UNION {BagToSet(Means(args[i], f)) : i \in DOMAIN args})
          [] form \in {"intersection", "sh:intersection"} ->
                IF args = <<>> THEN EmptyBag ELSE SetToBag(common)
          [] form = "sum" -> One(Sum(SequenceOf(arg, f)))
          [] form \in {"min", "max"} ->
                SumOf(Chosen(SequenceOf(arg, f), form = "min"), LAMBDA i : One(SequenceOf(arg, f)[i]))
          [] form = "limit" -> at({i \in DOMAIN seq : \A k \in Count(e, "limit") : i <= k})
          [] form = "offset" -> at({i \in DOMAIN seq : \A k \in Count(e, "offset") : i > k})
          [] form = "remove" -> keep(BagToSet(operand) \ BagToSet(Means(arg, f)))
          [] form = "instancesOf" ->
                SetToBag({t[1] : t \in {u \in data : u[2] = Vocab.type /\
                    \E c \in BagToSet(Means(arg, f)) :
                        u[3] = c \/ <<u[3], c>> \in TransitiveClosure(
                            {<<x[1], x[3]>> : x \in {y \in data : y[2] = Vocab.subClassOf}})}})
          [] form = "orderBy" -> operand
          [] form = "var" -> ToBag(Variable(e, f))
          [] form = "flatMap" ->
                SumOf(BagToSet(operand), LAMBDA x : Scaled(CopiesIn(x, operand), Means(arg, {x})))
          [] form = "conformsToShape" ->
                SumOf({i \in {1} : SequenceOf(args[1], f) # <<>> /\ SequenceOf(args[2], f) # <<>>},
                      LAMBDA i : One(BoolLiteral(Conforms(SequenceOf(args[1], f)[1],
                                                          SequenceOf(args[2], f)[1]) = {TRUE})))
          [] form \in {"filterShape", "sh:filterShape"} -> keep(conforming(arg))
          [] form = "findFirst" ->
                at(Least({i \in DOMAIN seq : Conforms(seq[i], arg) = {TRUE}}))
          [] form = "matchAll" -> One(BoolLiteral(conforming(arg) = BagToSet(operand)))
          [] form = "nodesMatching" ->
                SetToBag({n \in UNION {{t[1], t[3]} : t \in data} : Conforms(n, arg) = {TRUE}})
          [] form = "call" -> ToBag(CHOOSE s \in Call(Function(e), [i \in DOMAIN args |-> SequenceOf(args[i], f)]) : TRUE)
          [] form = "nothing" -> EmptyBag

-----------------------------------------------------------------------------
(* Why an expression may fail. *)

Asks == {"filterShape", "sh:filterShape", "findFirst", "matchAll", "nodesMatching",
         "conformsToShape"}

Nested(e) ==
    LET form == FormOf(e)
    IN  IF ~IsBlank(e) \/ Object(e, "select") \cup Object(e, "sparqlExpr") # {} THEN {}
        ELSE (IF form \in ListOperands THEN ToSet(Members(ListOf(e, form)))
              ELSE UNION {Object(e, p) : p \in {form} \cap OneOperand})
             \cup UNION {Object(e, p) : p \in {OperandOf(form)}}
             \cup UNION {Object(e, p) : p \in {form} \cap {"remove", "orderBy", "flatMap"}}
             \cup (IF form = "if" THEN Object(e, "then") \cup Object(e, "else") ELSE {})

NestedAt(depth) ==
    LET at[d \in Nat] == IF d = 0 THEN {asked.expr} ELSE UNION {Nested(e) : e \in at[d - 1]}
    IN  at[depth]

\* An operator that may fail by itself: not one of them, without the list it
\* needs, over no path, or with a question or a query that may fail.
MayFail(e) ==
    LET form == FormOf(e)
    IN  \/ Object(e, "select") \cup Object(e, "sparqlExpr") # {}
        \/ IsBlank(e) /\
              \/ form = "unsupported"
              \/ form \in ListOperands /\ ~IsList(ListOf(e, form))
              \/ form \in {"pathValues", "path"} /\ PathOf(Named(e, form)) = {}
              \/ form = "call"
              \/ form = "sh:filterShape" /\ Object(e, "sh:nodes") = {}
              \/ form = "conformsToShape" /\ Len(Members(ListOf(e, form))) # 2
              \/ form \in Asks /\ asked.shapes

\* The result of orderBy goes up or down by its keys, unless some of them
\* cannot be compared.
InKeyOrder(e, seq) ==
    LET key(i) == FirstOf(SequenceOf(Named(e, "orderBy"), {seq[i]}))
        down == \E t \in Object(e, "desc") : IsTrue(t)
        comparable == \A i \in DOMAIN seq : \A x \in key(i) : NumberOf(x) # {}
    IN  FormOf(e) = "orderBy" /\ comparable =>
            \A i, j \in DOMAIN seq :
                i < j => IF down THEN ~KeyBelow(key(i), key(j)) ELSE ~KeyBelow(key(j), key(i))

-----------------------------------------------------------------------------
(* Properties. *)

\* "Sequence rather than set matters": a result holds each term as often as
\* the operators say, whatever they are nested in, repeats surviving exactly
\* where no operator asks for a set, and in the order of the keys where one
\* asks for it; and an expression fails only because something it is made of
\* may fail or lies too deep.
ExpressionMeansItsBag ==
    pc = "evaluated" =>
        /\ \A seq \in given : /\ ToBag(seq) = Means(asked.expr, asked.focus)
                              /\ InKeyOrder(asked.expr, seq)
        /\ given = {} => \/ \E d \in 0..MaxExprDepth : \E e \in NestedAt(d) : MayFail(e)
                         \/ NestedAt(MaxExprDepth + 1) # {}
=============================================================================
