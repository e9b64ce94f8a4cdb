--------------------------- MODULE InferenceProofs ---------------------------
(***************************************************************************)
(* Theorems about the two inference loops, for any graph, any limits and   *)
(* any rules whose orders are numbers. RDFS closure computes the least     *)
(* closed graph around its input, or refuses because that graph is too     *)
(* large: its rules are monotone, what a part of a graph entails the graph *)
(* entails. A pass of SHACL-AF rules, which are not monotone, computes     *)
(* what the levels infer one after the other, and the passes end only      *)
(* where one adds nothing. The two share the triples and nothing else.     *)
(***************************************************************************)
EXTENDS RuleProperties, RdfsClosure, SequenceFacts

-----------------------------------------------------------------------------
(* What the RDFS rules entail. *)

\* Only(x, when) is {x} or nothing.
LEMMA OnlyElement ==
    ASSUME NEW e, NEW when, NEW z \in Only(e, when)
    PROVE  z = e /\ when
BY DEF Only

\* There are only so many triples.
LEMMA TripleFinite == IsFiniteSet(Triple)
<1>1. IsFiniteSet(Terms \X Terms)
  BY TermsAssumption, FS_Product
<1>2. IsFiniteSet((Terms \X Terms) \X Terms)
  BY <1>1, TermsAssumption, FS_Product
<1> DEFINE Pairs == (Terms \X Terms) \X Terms
           f == [w \in Pairs |-> <<w[1][1], w[1][2], w[2]>>]
<1>3. f \in [Pairs -> Triple]
  BY DEF Triple
<1>4. ASSUME NEW t \in Triple
      PROVE  \E w \in Pairs : f[w] = t
  <2>1. PICK a \in Terms, b \in Terms, c \in Terms : t = <<a, b, c>>
    BY DEF Triple
  <2>2. <<<<a, b>>, c>> \in Pairs /\ f[<<<<a, b>>, c>>] = t
    BY <2>1
  <2> QED BY <2>2
<1>5. f \in Surjection(Pairs, Triple)
  BY <1>3, <1>4 DEF Surjection
<1> HIDE DEF f
<1> QED BY <1>2, <1>5, FS_Surjection

\* Two triples entail triples.
LEMMA EntailedTriple ==
    ASSUME NEW t \in Triple, NEW u \in Triple
    PROVE  Entailed(t, u) \subseteq Triple
<1>1. t[1] \in Terms /\ t[2] \in Terms /\ t[3] \in Terms /\ u[3] \in Terms
  BY DEF Triple
<1>2. DomainRule(t, u) \subseteq Triple
  BY <1>1, VocabAssumption DEF DomainRule, Only, Triple
<1>3. RangeRule(t, u) \subseteq Triple
  BY <1>1, VocabAssumption DEF RangeRule, Only, Triple
<1>4. PropertyRule(t, u) \subseteq Triple
  BY <1>1 DEF PropertyRule, Only, Triple
<1>5. ClassRule(t, u) \subseteq Triple
  BY <1>1, VocabAssumption DEF ClassRule, Only, Triple
<1>6. ChainRule(t, u) \subseteq Triple
  BY <1>1 DEF ChainRule, Only, Triple
<1> QED BY <1>2, <1>3, <1>4, <1>5, <1>6 DEF Entailed

\* A round derives triples.
LEMMA DerivedTriple ==
    ASSUME NEW g \in SUBSET Triple
    PROVE  Derived(g) \subseteq Triple
<1> SUFFICES ASSUME NEW w \in g \X g PROVE Entailed(w[1], w[2]) \subseteq Triple
  BY DEF Derived
<1> QED BY EntailedTriple

\* More is entailed by more.
LEMMA DerivedMonotone ==
    ASSUME NEW g, NEW h, g \subseteq h
    PROVE  Derived(g) \subseteq Derived(h)
<1>1. g \X g \subseteq h \X h
  OBVIOUS
<1> QED BY <1>1 DEF Derived

(* The closure loop. *)

\* What holds whenever the loop is between two rounds.
Least ==
    \A model \in SUBSET Triple : graph \subseteq model /\ IsClosed(model) => triples \subseteq model
Answer ==
    /\ graph \subseteq triples
    /\ outcome = "closed" => IsClosed(triples) /\ Cardinality(triples) <= MaxTriples
    /\ outcome = "refused" => Cardinality(triples) > MaxTriples

ClosureInv == TypeOK /\ Least /\ Answer

\* It holds before the first round.
LEMMA InitClosureInv == InitClosure => ClosureInv
BY GraphsAssumption DEF InitClosure, ClosureInv, TypeOK, Least, Answer

\* Every round keeps it: what a round adds, any closed graph around the input
\* has, and a round that ends the loop ends it for a reason.
LEMMA RoundKeeps ==
    ASSUME ClosureInv, Round
    PROVE  ClosureInv'
<1>1. triples' = triples \cup Derived(triples) /\ graph' = graph
  BY DEF Round
<1>2. TypeOK'
  BY <1>1, DerivedTriple DEF ClosureInv, TypeOK, Round
<1>3. Least'
  <2> SUFFICES ASSUME NEW model \in SUBSET Triple, graph \subseteq model, IsClosed(model)
               PROVE  triples' \subseteq model
    BY <1>1 DEF Least, IsClosed
  <2>1. triples \subseteq model
    BY DEF ClosureInv, Least
  <2>2. Derived(triples) \subseteq Derived(model)
    BY <2>1, DerivedMonotone
  <2> QED BY <1>1, <2>1, <2>2 DEF IsClosed
<1>4. IsFiniteSet(triples') /\ IsFiniteSet(triples)
  BY <1>2, TripleFinite, FS_Subset DEF ClosureInv, TypeOK
<1>5. Cardinality(triples') \in Nat /\ Cardinality(triples) \in Nat
  BY <1>4, FS_CardinalityType
<1>6. Answer'
  <2>1. graph' \subseteq triples'
    BY <1>1 DEF ClosureInv, Answer
  <2>2. ASSUME outcome' = "closed"
        PROVE  IsClosed(triples') /\ Cardinality(triples') <= MaxTriples
    <3>1. /\ ~(Cardinality(triples') > MaxTriples)
          /\ Cardinality(triples') = Cardinality(triples)
      BY <2>2 DEF Round
    <3>2. triples' = triples
      BY <1>1, <1>4, <3>1, FS_Subset
    <3>3. Derived(triples') \subseteq triples'
      BY <1>1, <3>2
    <3> QED BY <1>5, <3>1, <3>3, MaxAssumption DEF IsClosed
  <2>3. ASSUME outcome' = "refused"
        PROVE  Cardinality(triples') > MaxTriples
    BY <2>3 DEF Round
  <2> QED BY <2>1, <2>2, <2>3 DEF Answer, IsClosed
<1> QED BY <1>2, <1>3, <1>6 DEF ClosureInv

\* So does every step.
LEMMA NextClosureInv == ClosureInv /\ [NextClosure]_closureVars => ClosureInv'
<1> SUFFICES ASSUME ClosureInv, [NextClosure]_closureVars PROVE ClosureInv'
  OBVIOUS
<1>1. CASE NextClosure
  BY <1>1, RoundKeeps DEF NextClosure
<1>2. CASE UNCHANGED closureVars
  BY <1>2 DEF closureVars, ClosureInv, TypeOK, Least, Answer
<1> QED BY <1>1, <1>2

\* The loop holds only what it must, at every moment.
THEOREM ClosureInductive == ClosureSpec => []ClosureInv
BY InitClosureInv, NextClosureInv, PTL DEF ClosureSpec

\* The loop only ever holds triples.
THEOREM TypeCorrect == ClosureSpec => []TypeOK
<1>1. ClosureInv => TypeOK
  BY DEF ClosureInv
<1> QED BY <1>1, ClosureInductive, PTL

\* Two rounds of the same length mean that nothing is left to derive, whatever
\* the graph: the answer is closed under the rules and within the cap.
THEOREM AnswerClosed == ClosureSpec => []ClosedWhenDone
<1>1. ClosureInv => ClosedWhenDone
  BY DEF ClosureInv, Answer, ClosedWhenDone
<1> QED BY <1>1, ClosureInductive, PTL

\* Nothing is derived that a closed graph around the input could do without.
THEOREM AnswerLeast == ClosureSpec => []HeldInEveryModel
<1>1. ClosureInv => HeldInEveryModel
  BY DEF ClosureInv, Least, HeldInEveryModel
<1> QED BY <1>1, ClosureInductive, PTL

\* The cap never refuses a graph whose closure would have fitted.
THEOREM RefusalDeserved == ClosureSpec => []RefusedOnlyTooLarge
<1>1. ClosureInv => RefusedOnlyTooLarge
  <2> SUFFICES ASSUME ClosureInv, outcome = "refused", NEW model \in SUBSET Triple,
                      graph \subseteq model, IsClosed(model)
               PROVE  Cardinality(model) > MaxTriples
    BY DEF RefusedOnlyTooLarge
  <2>1. triples \subseteq model /\ Cardinality(triples) > MaxTriples
    BY DEF ClosureInv, Least, Answer
  <2>2. IsFiniteSet(model)
    BY TripleFinite, FS_Subset
  <2>3. Cardinality(triples) <= Cardinality(model) /\ IsFiniteSet(triples)
    BY <2>1, <2>2, FS_Subset
  <2>4. Cardinality(triples) \in Nat /\ Cardinality(model) \in Nat
    BY <2>2, <2>3, FS_CardinalityType
  <2> QED BY <2>1, <2>3, <2>4, MaxAssumption
<1> QED BY <1>1, ClosureInductive, PTL

-----------------------------------------------------------------------------
(* What a rule infers. *)

\* A path leads from a term to terms.
LEMMA ReachedTerms ==
    ASSUME NEW g \in SUBSET Triple, NEW node \in Terms, NEW via, IsSeq(via)
    PROVE  Reached(g, node, via) \subseteq Terms
<1> DEFINE n == Len(via)
           S == SUBSET Terms
           Is(f) == f = [i \in 0 .. n |-> IF i = 0 THEN {node} ELSE Step(g, f[i - 1], via[i])]
           after == CHOOSE f : Is(f)
           F == [k \in 1 .. n |-> [from \in S |-> Step(g, from, via[k])]]
<1>1. n \in Nat
  BY LenProperties DEF IsSeq
<1>2. \A from, p : Step(g, from, p) \subseteq Terms
  BY DEF Step, Objects, Triple
<1>3. \A k \in 1 .. n : F[k] \in [S -> S] /\ \A from \in S : F[k][from] = Step(g, from, via[k])
  BY <1>2
<1> HIDE DEF F
<1>4. {node} \in S
  OBVIOUS
<1>5. PICK f \in [0 .. n -> S] : InTurn(f, n, F, {node})
  <2> HIDE DEF n, S
  <2> QED BY <1>1, <1>3, <1>4, InTurnExists
<1>6. Is(f)
  <2>1. ASSUME NEW i \in 0 .. n
        PROVE  f[i] = IF i = 0 THEN {node} ELSE Step(g, f[i - 1], via[i])
    <3>1. i # 0 => i \in 1 .. n /\ i - 1 \in 0 .. n
      BY <1>1
    <3> HIDE DEF n
    <3>2. f[i] = IF i = 0 THEN {node} ELSE F[i][f[i - 1]]
      BY <1>5 DEF InTurn
    <3> QED BY <1>3, <1>5, <3>1, <3>2
  <2> HIDE DEF n, S
  <2>2. f = [i \in 0 .. n |-> f[i]]
    BY <1>5
  <2> QED BY <2>1, <2>2
<1>7. Is(after)
  <2> HIDE DEF Is
  <2> QED BY <1>6
<1>8. Reached(g, node, via) = after[n]
  BY DEF Reached
<1>9. n \in 0 .. n /\ after[n] = IF n = 0 THEN {node} ELSE Step(g, after[n - 1], via[n])
  <2>1. n \in 0 .. n
    BY <1>1
  <2> HIDE DEF after, n
  <2> QED BY <1>7, <2>1
<1> HIDE DEF after, n
<1>10. CASE n = 0
  BY <1>8, <1>9, <1>10
<1>11. CASE n # 0
  BY <1>2, <1>8, <1>9, <1>11
<1> QED BY <1>10, <1>11

\* An expression has terms for values.
LEMMA ValuesAreTerms ==
    ASSUME NEW g \in SUBSET Triple, NEW n \in Terms, NEW e, ExpressionOK(e)
    PROVE  Values(e, n, g) \subseteq Terms
BY ReachedTerms DEF ExpressionOK, Values

\* A rule infers triples.
LEMMA InferredTriples ==
    ASSUME NEW g \in SUBSET Triple, NEW s, ShapeOK(s), NEW i \in Active(s),
           NEW n \in FiringNodes(s, s.rules[i], g)
    PROVE  Inferred(s.rules[i], n, g) \subseteq Triple
<1>1. n \in Terms
  BY DEF FiringNodes, Focus
<1> DEFINE r == s.rules[i]
<1>2. r \in ToSet(s.rules)
  BY DEF Active, ToSet
<1>3. ExpressionOK(r.subject) /\ ExpressionOK(r.predicate) /\ ExpressionOK(r.object)
  BY <1>2 DEF ShapeOK
<1> HIDE DEF r
<1>4. /\ Values(r.subject, n, g) \subseteq Terms /\ Values(r.predicate, n, g) \subseteq Terms
      /\ Values(r.object, n, g) \subseteq Terms
  BY <1>1, <1>3, ValuesAreTerms
<1>5. Inferred(r, n, g) \subseteq Triple
  BY <1>4 DEF Inferred, Triple
<1> QED BY <1>5 DEF r

-----------------------------------------------------------------------------
(* Levels. *)

\* An order that compares.
Number == {{x} : x \in Int}
Level == Number \X Number

\* All rules of some shapes that may run have orders that compare.
Numbered(shapes) == \A x \in Runnable(shapes) : LevelOf(x) \in Level

\* Levels of such orders are in one line.
LEMMA LevelsCompare ==
    ASSUME NEW p \in Level, NEW q \in Level
    PROVE  /\ SameLevel(p, q) <=> p = q
           /\ ~(Precedes(p, q) /\ Precedes(q, p))
           /\ p = q \/ Precedes(p, q) \/ Precedes(q, p)
           /\ p = q => ~Precedes(p, q)
           /\ \A r \in Level : Precedes(p, q) /\ Precedes(q, r) => Precedes(p, r)
<1>1. PICK a \in Int, b \in Int : p = <<{a}, {b}>>
  BY DEF Level, Number
<1>2. PICK c \in Int, d \in Int : q = <<{c}, {d}>>
  BY DEF Level, Number
<1>3. \A x, y : Below({x}, {y}) <=> x < y
  BY DEF Below
<1>4. Precedes(p, q) <=> a < c \/ (~(c < a) /\ b < d)
  BY <1>1, <1>2, <1>3 DEF Precedes
<1>5. Precedes(q, p) <=> c < a \/ (~(a < c) /\ d < b)
  BY <1>1, <1>2, <1>3 DEF Precedes
<1>6. p = q <=> a = c /\ b = d
  BY <1>1, <1>2
<1>7. SameLevel(p, q) <=> a = c /\ b = d
  BY <1>1, <1>2 DEF SameLevel, Same
<1>8. ASSUME NEW r \in Level, Precedes(p, q), Precedes(q, r)
      PROVE  Precedes(p, r)
  <2>1. PICK e \in Int, f \in Int : r = <<{e}, {f}>>
    BY DEF Level, Number
  <2>2. Precedes(q, r) <=> c < e \/ (~(e < c) /\ d < f)
    BY <1>2, <1>3, <2>1 DEF Precedes
  <2>3. Precedes(p, r) <=> a < e \/ (~(e < a) /\ b < f)
    BY <1>1, <1>3, <2>1 DEF Precedes
  <2> QED BY <1>4, <1>8, <2>2, <2>3
<1> QED BY <1>4, <1>5, <1>6, <1>7, <1>8

\* The shapes of a call are well formed.
Given(shapes) == IsSeq(shapes) /\ \A s \in ToSet(shapes) : ShapeOK(s)

LEMMA GivenFacts ==
    ASSUME NEW shapes, Given(shapes)
    PROVE  /\ Len(shapes) \in Nat /\ DOMAIN shapes = 1 .. Len(shapes)
           /\ \A i \in DOMAIN shapes : shapes[i] \in ToSet(shapes)
           /\ IsFiniteSet(ToSet(shapes))
           /\ \A s \in ToSet(shapes) :
                 /\ ShapeOK(s) /\ Len(s.rules) \in Nat /\ DOMAIN s.rules = 1 .. Len(s.rules)
                 /\ Active(s) \subseteq 1 .. Len(s.rules) /\ IsFiniteSet(Active(s))
<1>1. /\ Len(shapes) \in Nat /\ DOMAIN shapes = 1 .. Len(shapes)
      /\ \A i \in DOMAIN shapes : shapes[i] \in ToSet(shapes)
      /\ shapes = [i \in DOMAIN shapes |-> shapes[i]]
  BY LenProperties DEF Given, IsSeq, ToSet
<1>2. IsFiniteSet(ToSet(shapes))
  <2>1. IsFiniteSet(DOMAIN shapes)
    BY <1>1, FS_Interval
  <2> QED BY <1>1, <2>1, ImageIsFinite DEF ToSet
<1>3. ASSUME NEW s \in ToSet(shapes)
      PROVE  /\ ShapeOK(s) /\ Len(s.rules) \in Nat /\ DOMAIN s.rules = 1 .. Len(s.rules)
             /\ Active(s) \subseteq 1 .. Len(s.rules) /\ IsFiniteSet(Active(s))
  <2>1. ShapeOK(s)
    BY DEF Given
  <2>2. Len(s.rules) \in Nat /\ DOMAIN s.rules = 1 .. Len(s.rules)
    BY <2>1, LenProperties DEF ShapeOK, IsSeq
  <2>3. Active(s) \subseteq 1 .. Len(s.rules)
    BY <2>2 DEF Active
  <2>4. IsFiniteSet(1 .. Len(s.rules))
    BY <2>2, FS_Interval
  <2> QED BY <2>1, <2>2, <2>3, <2>4, FS_Subset
<1> QED BY <1>1, <1>2, <1>3

\* Only so many rules may run, at only so many levels.
LEMMA LevelsFinite ==
    ASSUME NEW shapes, Given(shapes)
    PROVE  IsFiniteSet(Runnable(shapes)) /\ IsFiniteSet(Levels(shapes))
<1> DEFINE on == {t \in ToSet(shapes) : ~t.off}
           each == [s \in on |-> {s} \X {s.rules[i] : i \in Active(s)}]
           E == {each[s] : s \in on}
<1>1. IsFiniteSet(on)
  BY GivenFacts, FS_Subset
<1>2. IsFiniteSet(E)
  <2>1. DOMAIN each = on /\ each = [s \in on |-> each[s]]
    OBVIOUS
  <2> HIDE DEF on, each
  <2> QED BY <1>1, <2>1, ImageIsFinite
<1>3. ASSUME NEW s \in on PROVE IsFiniteSet(each[s])
  <2> DEFINE rule == [i \in Active(s) |-> s.rules[i]]
  <2>1. IsFiniteSet(Active(s))
    BY GivenFacts
  <2>2. DOMAIN rule = Active(s) /\ rule = [i \in Active(s) |-> rule[i]]
    OBVIOUS
  <2> HIDE DEF rule
  <2>3. IsFiniteSet({rule[i] : i \in Active(s)})
    BY <2>1, <2>2, ImageIsFinite
  <2>4. {rule[i] : i \in Active(s)} = {s.rules[i] : i \in Active(s)}
    BY DEF rule
  <2>5. IsFiniteSet({s})
    BY FS_Singleton
  <2>6. IsFiniteSet({s} \X {s.rules[i] : i \in Active(s)})
    BY <2>3, <2>4, <2>5, FS_Product
  <2> QED BY <2>6
<1>4. IsFiniteSet(UNION E)
  <2>1. \A T \in E : IsFiniteSet(T)
    BY <1>3
  <2> HIDE DEF E
  <2> QED BY <1>2, <2>1, FS_UNION
<1>5. Runnable(shapes) = UNION E
  <2>1. \A s \in on : each[s] = {s} \X {s.rules[i] : i \in Active(s)}
    OBVIOUS
  <2>2. Runnable(shapes) = UNION {{s} \X {s.rules[i] : i \in Active(s)} : s \in on}
    BY DEF Runnable
  <2> HIDE DEF on, each
  <2> QED BY <2>1, <2>2
<1>6. IsFiniteSet(Runnable(shapes))
  BY <1>4, <1>5
<1>7. IsFiniteSet(Levels(shapes))
  <2> DEFINE f == [x \in Runnable(shapes) |-> LevelOf(x)]
             R == Runnable(shapes)
  <2>1. DOMAIN f = R /\ f = [x \in R |-> f[x]] /\ Levels(shapes) = {f[x] : x \in R}
    BY DEF Levels
  <2> HIDE DEF f
  <2> QED BY <1>6, <2>1, ImageIsFinite
<1> QED BY <1>6, <1>7

\* The levels are listed from the first to the last.
LEMMA InOrderLists ==
    ASSUME NEW shapes, Given(shapes), Numbered(shapes)
    PROVE  Lists(InOrder(shapes), Levels(shapes),
                 [l \in Levels(shapes) |-> {m \in Levels(shapes) : Precedes(m, l)}])
<1> DEFINE S == Levels(shapes)
           earlier == [l \in S |-> {m \in S : Precedes(m, l)}]
           seq == InOrder(shapes)
<1>1. S \subseteq Level
  BY DEF Numbered, Levels
<1>2. TotalOrder(S, earlier)
  <2>1. \A x \in S : earlier[x] = {m \in S : Precedes(m, x)}
    OBVIOUS
  <2>2. earlier \in [S -> SUBSET S]
    OBVIOUS
  <2> HIDE DEF S, earlier
  <2>3. \A x, y \in S : x \in earlier[y] <=> Precedes(x, y)
    BY <2>1
  <2>4. \A x \in S : x \notin earlier[x]
    BY <1>1, <2>3, LevelsCompare
  <2>5. \A x, y \in S : x = y \/ x \in earlier[y] \/ y \in earlier[x]
    BY <1>1, <2>3, LevelsCompare
  <2>6. ASSUME NEW x \in S, NEW y \in S, x \in earlier[y], NEW z \in earlier[x]
        PROVE  z \in earlier[y]
    <3>1. z \in S /\ Precedes(z, x) /\ Precedes(x, y)
      BY <2>1, <2>3, <2>6
    <3>2. z \in Level /\ x \in Level /\ y \in Level
      BY <1>1, <3>1
    <3>3. Precedes(z, y)
      BY <3>1, <3>2, LevelsCompare
    <3> QED BY <2>3, <3>1, <3>3
  <2> QED BY <2>2, <2>4, <2>5, <2>6 DEF TotalOrder
<1>3. PlacedBy(seq, S, earlier)
  <2>1. seq = [i \in 1 .. Cardinality(S) |-> seq[i]]
    <3> DEFINE place(i) == CHOOSE l \in S : Cardinality({m \in S : Precedes(m, l)}) = i - 1
    <3>1. seq = [i \in 1 .. Cardinality(S) |-> place(i)]
      BY DEF InOrder
    <3> HIDE DEF place, seq
    <3> QED BY <3>1
  <2>2. ASSUME NEW i \in 1 .. Cardinality(S), NEW x \in S, Cardinality(earlier[x]) = i - 1
        PROVE  seq[i] \in S /\ Cardinality(earlier[seq[i]]) = i - 1
    <3> DEFINE fits(l) == Cardinality({m \in S : Precedes(m, l)}) = i - 1
    <3>1. fits(x)
      BY <2>2
    <3>2. seq[i] = CHOOSE l \in S : fits(l)
      BY DEF InOrder
    <3> HIDE DEF fits
    <3>3. seq[i] \in S /\ fits(seq[i])
      BY <3>1, <3>2
    <3> QED BY <3>3 DEF fits
  <2> HIDE DEF seq, earlier, S
  <2> QED BY <2>1, <2>2 DEF PlacedBy
<1>4. IsFiniteSet(S)
  BY LevelsFinite
<1> HIDE DEF seq, earlier, S
<1>5. Lists(seq, S, earlier)
  BY <1>2, <1>3, <1>4, Enumeration
<1> QED BY <1>5 DEF seq, earlier, S

-----------------------------------------------------------------------------
(* The work list. *)

\* The entries of the rules that may run.
Due(shapes) == {Entry(x[1], x[2]) : x \in Runnable(shapes)}

\* The flattened list has an entry for each rule that may run.
LEMMA EntriesAreDue ==
    ASSUME NEW shapes, Given(shapes)
    PROVE  Entries(shapes) \in Seq(Due(shapes)) /\ ToSet(Entries(shapes)) = Due(shapes)
<1> DEFINE one(s) == LET at == Ascending(Active(s))
                     IN  [k \in DOMAIN at |-> Entry(s, s.rules[at[k]])]
           seqs == [i \in DOMAIN shapes |-> IF shapes[i].off THEN <<>> ELSE one(shapes[i])]
           on == {t \in ToSet(shapes) : ~t.off}
           D == Due(shapes)
<1>1. Entries(shapes) = FlattenSeq(seqs)
  BY DEF Entries
<1>2. ASSUME NEW s \in on
      PROVE  /\ one(s) \in Seq(D)
             /\ ToSet(one(s)) = {Entry(s, s.rules[i]) : i \in Active(s)}
  <2> DEFINE at == Ascending(Active(s))
             A == Active(s)
             each == [k \in DOMAIN at |-> Entry(s, s.rules[at[k]])]
  <2>1. IsFiniteSet(A) /\ A \in SUBSET Nat
    BY GivenFacts
  <2>2. Lists(at, A, [x \in A |-> {m \in A : m < x}])
    BY <2>1, NumbersListed DEF Ascending
  <2>3. /\ DOMAIN at = 1 .. Cardinality(A) /\ ToSet(at) = A /\ Cardinality(A) \in Nat
        /\ \A k \in DOMAIN at : at[k] \in A
    BY <2>1, <2>2, FS_CardinalityType DEF Lists, ToSet
  <2>4. ASSUME NEW i \in A PROVE Entry(s, s.rules[i]) \in D
    <3> DEFINE x == <<s, s.rules[i]>>
    <3>1. x \in Runnable(shapes)
      BY DEF Runnable
    <3>2. x[1] = s /\ x[2] = s.rules[i]
      OBVIOUS
    <3> HIDE DEF x
    <3> QED BY <3>1, <3>2 DEF Due
  <2>5. each \in [1 .. Cardinality(A) -> D]
    BY <2>3, <2>4
  <2>6. each \in Seq(D) /\ DOMAIN each = DOMAIN at
    BY <2>3, <2>5, FunctionIsSeq
  <2>7. ToSet(each) = {Entry(s, s.rules[i]) : i \in A}
    <3>1. \A k \in DOMAIN at : each[k] = Entry(s, s.rules[at[k]])
      OBVIOUS
    <3>2. \A i \in A : \E k \in DOMAIN at : at[k] = i
      BY <2>3 DEF ToSet
    <3> HIDE DEF each, A, at
    <3> QED BY <2>3, <2>6, <3>1, <3>2 DEF ToSet
  <2> QED BY <2>6, <2>7
<1>3. \A i \in DOMAIN shapes : seqs[i] \in Seq(D)
  <2>1. <<>> \in Seq(D)
    BY EmptySeq
  <2> HIDE DEF one, D
  <2> QED BY <1>2, <2>1, GivenFacts
<1>4. seqs \in Seq(Seq(D)) /\ DOMAIN seqs = DOMAIN shapes
  <2>1. seqs \in [1 .. Len(shapes) -> Seq(D)]
    <3> HIDE DEF D
    <3> QED BY <1>3, GivenFacts
  <2> QED BY <2>1, GivenFacts, FunctionIsSeq
<1>5. /\ FlattenSeq(seqs) \in Seq(D)
      /\ ToSet(FlattenSeq(seqs)) = UNION {ToSet(seqs[i]) : i \in DOMAIN seqs}
  BY <1>4, FlattenMembers
<1>6. \A i \in DOMAIN shapes :
         ToSet(seqs[i]) = IF shapes[i].off THEN {} ELSE ToSet(one(shapes[i]))
  <2>1. ToSet(<<>>) = {}
    BY DEF ToSet
  <2> HIDE DEF one
  <2> QED BY <2>1
<1>7. UNION {ToSet(seqs[i]) : i \in DOMAIN seqs} = D
  <2>1. ASSUME NEW d \in D PROVE \E i \in DOMAIN seqs : d \in ToSet(seqs[i])
    <3>1. PICK x \in Runnable(shapes) : d = Entry(x[1], x[2])
      BY DEF Due
    <3>2. PICK s \in on : \E k \in Active(s) : x = <<s, s.rules[k]>>
      BY DEF Runnable
    <3>9. PICK k \in Active(s) : x = <<s, s.rules[k]>>
      BY <3>2
    <3>3. d = Entry(s, s.rules[k])
      BY <3>1, <3>9
    <3>4. PICK i \in DOMAIN shapes : shapes[i] = s /\ ~shapes[i].off
      BY DEF ToSet
    <3> HIDE DEF one, D, on, seqs
    <3>5. d \in ToSet(one(s))
      BY <1>2, <3>3
    <3> QED BY <1>4, <1>6, <3>4, <3>5
  <2>2. ASSUME NEW i \in DOMAIN seqs PROVE ToSet(seqs[i]) \subseteq D
    <3>1. seqs[i] \in Seq(D)
      BY <1>3, <1>4
    <3> HIDE DEF D, seqs
    <3> QED BY <3>1, MembersOfSeq
  <2> HIDE DEF one, D, on, seqs
  <2> QED BY <2>1, <2>2
<1> HIDE DEF seqs, D
<1> QED BY <1>1, <1>5, <1>7 DEF D

\* What putting in an element is.
LEMMA InsertIs ==
    ASSUME NEW s, NEW k, NEW e
    PROVE  InsertAt(s, k, e) = SubSeq(s, 1, k - 1) \o <<e>> \o SubSeq(s, k, Len(s))
BY DEF InsertAt

\* t is s with x put in after the first k elements, all of them in S.
IsWith(t, s, k, x, S) ==
    /\ t \in Seq(S) /\ Len(t) = Len(s) + 1
    /\ \A i \in 1 .. (Len(s) + 1) :
          t[i] = IF i <= k THEN s[i] ELSE IF i = k + 1 THEN x ELSE s[i - 1]

\* A sequence with one more element put in after the first few.
LEMMA Inserted ==
    ASSUME NEW S, NEW s \in Seq(S), NEW at \in 0 .. Len(s), NEW e \in S
    PROVE  IsWith(InsertAt(s, at + 1, e), s, at, e, S)
<1> SUFFICES /\ InsertAt(s, at + 1, e) \in Seq(S)
             /\ Len(InsertAt(s, at + 1, e)) = Len(s) + 1
             /\ \A i \in 1 .. (Len(s) + 1) :
                   InsertAt(s, at + 1, e)[i] =
                       IF i <= at THEN s[i] ELSE IF i = at + 1 THEN e ELSE s[i - 1]
  BY DEF IsWith
<1>1. PICK n \in Nat : n = Len(s)
  BY LenProperties
<1>2. \A i \in 1 .. n : s[i] \in S
  BY <1>1, ElementOfSeq
<1>3. at \in Nat /\ at <= n
  BY <1>1
<1> DEFINE first == SubSeq(s, 1, at)
           rest == SubSeq(s, at + 1, n)
           left == first \o <<e>>
           t == InsertAt(s, at + 1, e)
<1>4. t = left \o rest
  <2>1. PICK k \in Nat : k = at + 1 /\ k - 1 = at
    BY <1>3
  <2>2. t = SubSeq(s, 1, k - 1) \o <<e>> \o SubSeq(s, k, Len(s))
    BY <2>1, InsertIs
  <2> QED BY <1>1, <2>1, <2>2
<1>5. first \in Seq(S) /\ Len(first) = at /\ \A i \in 1 .. at : first[i] = s[i]
  <2>1. /\ first \in Seq(S) /\ Len(first) = IF 1 <= at THEN at - 1 + 1 ELSE 0
        /\ \A i \in 1 .. at - 1 + 1 : first[i] = s[1 + i - 1]
    <3>1. 1 \in Int /\ at \in Int /\ \A i \in 1 .. at : s[i] \in S
      BY <1>2, <1>3
    <3> QED BY <3>1, SubSeqProperties
  <2> HIDE DEF first
  <2>2. (IF 1 <= at THEN at - 1 + 1 ELSE 0) = at
    BY <1>3
  <2>3. \A i \in 1 .. at : i \in 1 .. at - 1 + 1 /\ 1 + i - 1 = i
    BY <1>3
  <2> QED BY <2>1, <2>2, <2>3
<1>6. rest \in Seq(S) /\ Len(rest) = n - at /\ \A i \in 1 .. (n - at) : rest[i] = s[at + i]
  <2>1. /\ rest \in Seq(S) /\ Len(rest) = IF at + 1 <= n THEN n - (at + 1) + 1 ELSE 0
        /\ \A i \in 1 .. n - (at + 1) + 1 : rest[i] = s[(at + 1) + i - 1]
    <3>1. at + 1 \in Int /\ n \in Int /\ \A i \in (at + 1) .. n : s[i] \in S
      BY <1>2, <1>3
    <3> QED BY <3>1, SubSeqProperties
  <2> HIDE DEF rest
  <2>2. (IF at + 1 <= n THEN n - (at + 1) + 1 ELSE 0) = n - at
    BY <1>3
  <2>3. \A i \in 1 .. (n - at) : i \in 1 .. n - (at + 1) + 1 /\ (at + 1) + i - 1 = at + i
    BY <1>3
  <2> QED BY <2>1, <2>2, <2>3
<1>7. <<e>> \in Seq(S) /\ Len(<<e>>) = 1 /\ <<e>>[1] = e
  OBVIOUS
<1> HIDE DEF first, rest
<1>8. /\ left \in Seq(S) /\ Len(left) = at + 1
      /\ \A i \in 1 .. (at + 1) : left[i] = IF i <= at THEN s[i] ELSE e
  <2>1. /\ left \in Seq(S) /\ Len(left) = at + 1
        /\ \A i \in 1 .. (at + 1) : left[i] = IF i <= at THEN first[i] ELSE <<e>>[i - at]
    BY <1>5, <1>7, ConcatProperties
  <2> HIDE DEF left
  <2>2. ASSUME NEW i \in 1 .. (at + 1)
        PROVE  left[i] = IF i <= at THEN s[i] ELSE e
    <3>1. CASE i <= at
      BY <1>5, <2>1, <3>1
    <3>2. CASE ~(i <= at)
      <4>1. i - at = 1
        BY <1>3, <3>2
      <4> QED BY <1>7, <2>1, <3>2, <4>1
    <3> QED BY <3>1, <3>2
  <2> QED BY <2>1, <2>2
<1> HIDE DEF left, t
<1>9. /\ t \in Seq(S) /\ Len(t) = (at + 1) + (n - at)
      /\ \A i \in 1 .. ((at + 1) + (n - at)) :
            t[i] = IF i <= at + 1 THEN left[i] ELSE rest[i - (at + 1)]
  <2>1. /\ left \o rest \in Seq(S) /\ Len(left \o rest) = Len(left) + Len(rest)
        /\ \A i \in 1 .. (Len(left) + Len(rest)) :
              (left \o rest)[i] = IF i <= Len(left) THEN left[i] ELSE rest[i - Len(left)]
    BY <1>6, <1>8, ConcatProperties
  <2> QED BY <1>4, <1>6, <1>8, <2>1
<1>10. (at + 1) + (n - at) = n + 1
  BY <1>3
<1>11. ASSUME NEW i \in 1 .. (n + 1)
       PROVE  t[i] = IF i <= at THEN s[i] ELSE IF i = at + 1 THEN e ELSE s[i - 1]
  <2>1. CASE i <= at + 1
    <3>1. i \in 1 .. (at + 1) /\ (i <= at \/ i = at + 1) /\ ~(at + 1 <= at)
      BY <1>3, <2>1
    <3>2. t[i] = left[i]
      BY <1>9, <1>10, <2>1
    <3> QED BY <1>8, <3>1, <3>2
  <2>2. CASE ~(i <= at + 1)
    <3>1. /\ i - (at + 1) \in 1 .. (n - at) /\ at + (i - (at + 1)) = i - 1
          /\ ~(i <= at) /\ i # at + 1
      BY <1>3, <2>2
    <3>2. t[i] = rest[i - (at + 1)]
      BY <1>9, <1>10, <2>2
    <3> QED BY <1>6, <3>1, <3>2
  <2> QED BY <2>1, <2>2
<1> QED BY <1>1, <1>9, <1>10, <1>11 DEF t

\* Entries in the order of their levels.
InLine(s) == \A i, j \in 1 .. Len(s) : i < j => ~Precedes(s[j].level, s[i].level)

\* The stable insertion puts an entry in its place and changes nothing else.
LEMMA InsertKeeps ==
    ASSUME NEW D, \A e \in D : e.level \in Level,
           NEW s \in Seq(D), InLine(s), NEW e \in D
    PROVE  /\ InsertEntry(s, e) \in Seq(D)
           /\ InLine(InsertEntry(s, e))
           /\ ToSet(InsertEntry(s, e)) = ToSet(s) \cup {e}
<1> DEFINE n == Len(s)
           stay == {i \in 0 .. n : i = 0 \/ ~Precedes(e.level, s[i].level)}
           at == CHOOSE i \in stay : \A j \in stay : j <= i
           t == InsertEntry(s, e)
<1>1. n \in Nat /\ DOMAIN s = 1 .. n /\ \A i \in 1 .. n : s[i] \in D
  BY LenProperties, ElementOfSeq
<1>2. at \in 0 .. n /\ at \in stay /\ \A j \in stay : j <= at
  <2> DEFINE left == {n - i : i \in stay}
  <2>1. left \in SUBSET Nat /\ n \in left
    <3>1. 0 \in stay /\ n - 0 = n
      BY <1>1
    <3>2. \A i \in stay : n - i \in Nat
      BY <1>1
    <3> HIDE DEF stay, n
    <3> QED BY <3>1, <3>2
  <2>2. PICK m \in left : \A k \in left : m <= k
    <3> HIDE DEF left
    <3> QED BY <2>1, LeastNumber
  <2>3. PICK i \in stay : m = n - i
    OBVIOUS
  <2>4. \A j \in stay : j <= i
    <3> TAKE j \in stay
    <3>1. n - i <= n - j
      BY <2>2, <2>3
    <3>2. i \in Nat /\ j \in Nat
      OBVIOUS
    <3> HIDE DEF stay, n
    <3> QED BY <1>1, <3>1, <3>2
  <2> HIDE DEF left
  <2>5. at \in stay /\ \A j \in stay : j <= at
    <3> HIDE DEF stay
    <3> QED BY <2>4
  <2> HIDE DEF at
  <2> QED BY <2>5
<1>3. t = InsertAt(s, at + 1, e)
  BY DEF InsertEntry
<1>4. at = 0 \/ ~Precedes(e.level, s[at].level)
  <2> HIDE DEF at
  <2> QED BY <1>2
<1>5. \A j \in 1 .. n : j > at => Precedes(e.level, s[j].level)
  <2> HIDE DEF at
  <2> QED BY <1>1, <1>2
<1> HIDE DEF at, t, stay
<1>7. /\ t \in Seq(D) /\ Len(t) = n + 1
      /\ \A i \in 1 .. (n + 1) :
            t[i] = IF i <= at THEN s[i] ELSE IF i = at + 1 THEN e ELSE s[i - 1]
  <2> DEFINE u == InsertAt(s, at + 1, e)
  <2>1. /\ u \in Seq(D) /\ Len(u) = n + 1
        /\ \A i \in 1 .. (n + 1) :
              u[i] = IF i <= at THEN s[i] ELSE IF i = at + 1 THEN e ELSE s[i - 1]
    <3>1. PICK k \in 0 .. Len(s) : k = at
      BY <1>2
    <3>2. IsWith(InsertAt(s, k + 1, e), s, k, e, D)
      BY Inserted
    <3>3. IsWith(u, s, at, e, D)
      BY <3>1, <3>2
    <3> HIDE DEF u
    <3> QED BY <3>3 DEF IsWith
  <2> HIDE DEF u, n
  <2>2. t = u
    BY <1>3 DEF u
  <2> QED BY <2>1, <2>2
<1>8. \A i \in 1 .. n : s[i].level \in Level
  BY <1>1
<1>9. ASSUME NEW i \in 1 .. n, i <= at
      PROVE  ~Precedes(e.level, s[i].level)
  <2>1. CASE i = at
    BY <1>2, <1>4, <2>1
  <2>2. CASE i # at
    <3>1. at \in 1 .. n /\ i < at
      BY <1>1, <1>2, <1>9, <2>2
    <3>2. ~Precedes(s[at].level, s[i].level)
      BY <3>1 DEF InLine
    <3>3. ~Precedes(e.level, s[at].level)
      BY <1>4, <3>1
    <3>4. e.level \in Level /\ s[i].level \in Level /\ s[at].level \in Level
      BY <1>8, <3>1
    <3> QED BY <3>2, <3>3, <3>4, LevelsCompare
  <2> QED BY <2>1, <2>2
<1>10. ASSUME NEW j \in 1 .. n, j > at
       PROVE  ~Precedes(s[j].level, e.level)
  BY <1>5, <1>8, <1>10, LevelsCompare
<1>11. InLine(t)
  <2> SUFFICES ASSUME NEW i \in 1 .. (n + 1), NEW j \in 1 .. (n + 1), i < j
               PROVE  ~Precedes(t[j].level, t[i].level)
    BY <1>7 DEF InLine
  <2> HIDE DEF n
  <2>1. CASE j <= at
    <3>1. i \in 1 .. n /\ j \in 1 .. n /\ i <= at
      BY <1>1, <1>2, <2>1
    <3>2. t[i] = s[i] /\ t[j] = s[j]
      BY <1>7, <2>1, <3>1
    <3> QED BY <3>1, <3>2 DEF InLine, n
  <2>2. CASE j = at + 1
    <3>1. i \in 1 .. n /\ i <= at /\ ~(j <= at)
      BY <1>1, <1>2, <2>2
    <3>2. t[i] = s[i] /\ t[j] = e
      BY <1>7, <2>2, <3>1
    <3> QED BY <1>9, <3>1, <3>2
  <2>3. CASE j > at + 1 /\ i <= at
    <3>1. i \in 1 .. n /\ j - 1 \in 1 .. n /\ i < j - 1 /\ ~(j <= at) /\ j # at + 1
      BY <1>1, <1>2, <2>3
    <3>2. t[i] = s[i] /\ t[j] = s[j - 1]
      BY <1>7, <2>3, <3>1
    <3> QED BY <3>1, <3>2 DEF InLine, n
  <2>4. CASE j > at + 1 /\ i = at + 1
    <3>1. j - 1 \in 1 .. n /\ j - 1 > at /\ ~(j <= at) /\ j # at + 1 /\ ~(i <= at)
      BY <1>1, <1>2, <2>4
    <3>2. t[i] = e /\ t[j] = s[j - 1]
      BY <1>7, <2>4, <3>1
    <3> QED BY <1>10, <3>1, <3>2
  <2>5. CASE j > at + 1 /\ i > at + 1
    <3>1. /\ i - 1 \in 1 .. n /\ j - 1 \in 1 .. n /\ i - 1 < j - 1
          /\ ~(j <= at) /\ j # at + 1 /\ ~(i <= at) /\ i # at + 1
      BY <1>1, <1>2, <2>5
    <3>2. t[i] = s[i - 1] /\ t[j] = s[j - 1]
      BY <1>7, <3>1
    <3> QED BY <3>1, <3>2 DEF InLine, n
  <2> QED BY <1>2, <2>1, <2>2, <2>3, <2>4, <2>5
<1>12. ToSet(t) = ToSet(s) \cup {e}
  <2>1. DOMAIN t = 1 .. (n + 1)
    BY <1>7, LenProperties
  <2> HIDE DEF n
  <2>2. ASSUME NEW i \in 1 .. (n + 1) PROVE t[i] \in ToSet(s) \cup {e}
    <3>1. CASE i <= at
      <4>1. i \in DOMAIN s
        BY <1>1, <1>2, <3>1
      <4> QED BY <1>7, <3>1, <4>1 DEF ToSet
    <3>2. CASE i = at + 1
      <4>1. ~(i <= at)
        BY <1>2, <3>2
      <4> QED BY <1>7, <3>2, <4>1
    <3>3. CASE i > at + 1
      <4>1. i - 1 \in DOMAIN s /\ ~(i <= at) /\ i # at + 1
        BY <1>1, <1>2, <3>3
      <4> QED BY <1>7, <4>1 DEF ToSet
    <3> QED BY <1>2, <3>1, <3>2, <3>3
  <2>3. \E i \in 1 .. (n + 1) : t[i] = e
    <3>1. at + 1 \in 1 .. (n + 1) /\ ~(at + 1 <= at)
      BY <1>1, <1>2
    <3> QED BY <1>7, <3>1
  <2>4. ASSUME NEW k \in DOMAIN s PROVE \E i \in 1 .. (n + 1) : t[i] = s[k]
    <3>1. CASE k <= at
      <4>1. k \in 1 .. (n + 1)
        BY <1>1
      <4> QED BY <1>7, <3>1, <4>1
    <3>2. CASE k > at
      <4>1. k + 1 \in 1 .. (n + 1) /\ ~(k + 1 <= at) /\ k + 1 # at + 1 /\ k + 1 - 1 = k
        BY <1>1, <1>2, <3>2
      <4> QED BY <1>7, <4>1
    <3> QED BY <1>1, <1>2, <3>1, <3>2
  <2> QED BY <2>1, <2>2, <2>3, <2>4 DEF ToSet
<1> QED BY <1>7, <1>11, <1>12 DEF t


\* An entry that is due is at the level of the rule it stands for.
LEMMA DueLevels ==
    ASSUME NEW shapes, Numbered(shapes)
    PROVE  \A d \in Due(shapes) : d.level \in Levels(shapes) /\ d.level \in Level
<1> TAKE d \in Due(shapes)
<1>1. PICK x \in Runnable(shapes) : d = Entry(x[1], x[2])
  BY DEF Due
<1>2. d.level = LevelOf(x)
  BY <1>1 DEF Entry, LevelOf
<1> QED BY <1>1, <1>2 DEF Numbered, Levels

\* The work list is what is due, level by level.
LEMMA WorkListIs ==
    ASSUME NEW shapes, Given(shapes), Numbered(shapes)
    PROVE  /\ WorkList(shapes) \in Seq(Due(shapes))
           /\ InLine(WorkList(shapes))
           /\ ToSet(WorkList(shapes)) = Due(shapes)
<1> DEFINE D == Due(shapes)
           entries == Entries(shapes)
           n == Len(entries)
           Q == {q \in Seq(D) : InLine(q)}
           Is(f) == f = [i \in 0 .. n |->
                            IF i = 0 THEN <<>> ELSE InsertEntry(f[i - 1], entries[i])]
           sorted == CHOOSE f : Is(f)
           F == [k \in 1 .. n |-> [q \in Q |-> InsertEntry(q, entries[k])]]
<1>1. entries \in Seq(D) /\ ToSet(entries) = D
  BY EntriesAreDue
<1>2. \A d \in D : d.level \in Level
  BY DueLevels
<1>3. /\ n \in Nat /\ DOMAIN entries = 1 .. n
      /\ \A i \in 1 .. n : entries[i] \in D
  <2> HIDE DEF D, entries
  <2> QED BY <1>1, LenProperties, ElementOfSeq
<1>4. WorkList(shapes) = sorted[n]
  BY DEF WorkList
<1> HIDE DEF D, entries, n
<1>5. ASSUME NEW q \in Q, NEW k \in 1 .. n
      PROVE  /\ InsertEntry(q, entries[k]) \in Q
             /\ ToSet(InsertEntry(q, entries[k])) = ToSet(q) \cup {entries[k]}
  <2>1. q \in Seq(D) /\ InLine(q) /\ entries[k] \in D
    BY <1>3
  <2> QED BY <1>2, <2>1, InsertKeeps
<1>6. <<>> \in Q /\ ToSet(<<>>) = {}
  <2>1. <<>> \in Seq(D) /\ Len(<<>>) = 0
    BY EmptySeq
  <2>2. InLine(<<>>)
    BY DEF InLine
  <2>3. ToSet(<<>>) = {}
    BY DEF ToSet
  <2> QED BY <2>1, <2>2, <2>3
<1> HIDE DEF Q
<1>7. \A k \in 1 .. n : F[k] \in [Q -> Q] /\ \A q \in Q : F[k][q] = InsertEntry(q, entries[k])
  BY <1>5
<1> HIDE DEF F
<1>8. PICK f \in [0 .. n -> Q] : InTurn(f, n, F, <<>>)
  BY <1>3, <1>6, <1>7, InTurnExists
<1>9. Is(f)
  <2>1. ASSUME NEW i \in 0 .. n
        PROVE  f[i] = IF i = 0 THEN <<>> ELSE InsertEntry(f[i - 1], entries[i])
    <3>1. i # 0 => i \in 1 .. n /\ i - 1 \in 0 .. n
      BY <1>3
    <3>2. f[i] = IF i = 0 THEN <<>> ELSE F[i][f[i - 1]]
      BY <1>8 DEF InTurn
    <3> QED BY <1>7, <1>8, <3>1, <3>2
  <2>2. f = [i \in 0 .. n |-> f[i]]
    BY <1>8
  <2> QED BY <2>1, <2>2
<1>10. Is(sorted)
  <2> HIDE DEF Is
  <2> QED BY <1>9
<1>11. \A i \in 0 .. n : sorted[i] = IF i = 0 THEN <<>> ELSE InsertEntry(sorted[i - 1], entries[i])
  <2> HIDE DEF sorted
  <2> QED BY <1>10
<1> HIDE DEF sorted
<1> DEFINE Upto(i) == {entries[j] : j \in 1 .. i}
           Good(i) == sorted[i] \in Q /\ ToSet(sorted[i]) = Upto(i)
           Bad == {i \in 0 .. n : ~Good(i)}
<1>12. ASSUME NEW m \in Bad, \A i \in Bad : m <= i
       PROVE  FALSE
  <2>1. m \in 0 .. n /\ ~Good(m)
    OBVIOUS
  <2>2. CASE m = 0
    <3>1. sorted[m] = <<>> /\ Upto(m) = {}
      BY <1>11, <2>1, <2>2
    <3> QED BY <1>6, <2>1, <3>1
  <2>3. CASE m # 0
    <3>1. m - 1 \in 0 .. n /\ ~(m <= m - 1) /\ m \in 1 .. n
      BY <1>3, <2>1, <2>3
    <3>2. Good(m - 1)
      BY <1>12, <3>1
    <3>3. sorted[m] = InsertEntry(sorted[m - 1], entries[m])
      BY <1>11, <2>3, <3>1
    <3>4. Upto(m) = Upto(m - 1) \cup {entries[m]}
      <4>1. 1 .. m = 1 .. (m - 1) \cup {m}
        BY <3>1
      <4> QED BY <4>1
    <3>5. sorted[m - 1] \in Q /\ ToSet(sorted[m - 1]) = Upto(m - 1)
      BY <3>2
    <3> HIDE DEF Upto
    <3>6. Good(m)
      BY <1>5, <3>1, <3>3, <3>4, <3>5
    <3> QED BY <2>1, <3>6
  <2> QED BY <2>2, <2>3
<1>13. Bad = {}
  <2> SUFFICES ASSUME Bad # {} PROVE FALSE
    OBVIOUS
  <2>1. Bad \in SUBSET Nat
    BY <1>3
  <2> HIDE DEF Bad
  <2>2. PICK m \in Bad : \A i \in Bad : m <= i
    BY <2>1, LeastNumber
  <2> QED BY <1>12, <2>2
<1>14. sorted[n] \in Q /\ ToSet(sorted[n]) = Upto(n)
  <2>1. n \in 0 .. n
    BY <1>3
  <2>2. Good(n)
    <3> HIDE DEF Good
    <3> QED BY <1>13, <2>1
  <2> QED BY <2>2
<1>15. Upto(n) = D
  BY <1>1, <1>3 DEF ToSet
<1> QED BY <1>4, <1>14, <1>15 DEF Q, D

-----------------------------------------------------------------------------
(* The levels one after the other. *)

\* What one level leaves is a graph of triples.
LEMMA AfterLevelTriples ==
    ASSUME NEW shapes, Given(shapes), NEW g \in SUBSET Triple, NEW l
    PROVE  AfterLevel(shapes, g, l) \in SUBSET Triple
<1>1. ASSUME NEW x \in Runnable(shapes), NEW n \in FiringNodes(x[1], x[2], g)
      PROVE  Inferred(x[2], n, g) \subseteq Triple
  <2>1. PICK s \in {t \in ToSet(shapes) : ~t.off} : x \in {s} \X {s.rules[i] : i \in Active(s)}
    BY DEF Runnable
  <2>2. PICK i \in Active(s) : x = <<s, s.rules[i]>>
    BY <2>1
  <2>3. ShapeOK(s)
    BY GivenFacts
  <2> QED BY <2>2, <2>3, InferredTriples
<1>2. RunAt(shapes, l) \subseteq Runnable(shapes)
  BY DEF RunAt
<1> QED BY <1>1, <1>2 DEF AfterLevel

\* Each level starts on the graph the one before it left.
LEMMA AfterLevelsAre ==
    ASSUME NEW shapes, Given(shapes), Numbered(shapes), NEW g \in SUBSET Triple
    PROVE  /\ AfterLevels(shapes, g)[0] = g
           /\ \A i \in 0 .. Len(InOrder(shapes)) :
                 /\ AfterLevels(shapes, g)[i] \in SUBSET Triple
                 /\ i # 0 => AfterLevels(shapes, g)[i] =
                        AfterLevel(shapes, AfterLevels(shapes, g)[i - 1], InOrder(shapes)[i])
<1> DEFINE lv == InOrder(shapes)
           n == Len(lv)
           S == SUBSET Triple
           Is(f) == f = [i \in 0 .. n |->
                            IF i = 0 THEN g ELSE AfterLevel(shapes, f[i - 1], lv[i])]
           after == CHOOSE f : Is(f)
           F == [k \in 1 .. n |-> [h \in S |-> AfterLevel(shapes, h, lv[k])]]
<1>1. n \in Nat
  <2>1. lv \in Seq(Levels(shapes))
    BY InOrderLists DEF Lists
  <2> HIDE DEF lv
  <2> QED BY <2>1, LenProperties
<1>2. AfterLevels(shapes, g) = after
  BY DEF AfterLevels
<1> HIDE DEF lv, n
<1>3. \A k \in 1 .. n :
         F[k] \in [S -> S] /\ \A h \in S : F[k][h] = AfterLevel(shapes, h, lv[k])
  BY AfterLevelTriples
<1> HIDE DEF F
<1>4. PICK f \in [0 .. n -> S] : InTurn(f, n, F, g)
  <2> HIDE DEF S
  <2>1. g \in S
    BY DEF S
  <2> QED BY <1>1, <1>3, <2>1, InTurnExists
<1>5. Is(f)
  <2>1. ASSUME NEW i \in 0 .. n
        PROVE  f[i] = IF i = 0 THEN g ELSE AfterLevel(shapes, f[i - 1], lv[i])
    <3>1. i # 0 => i \in 1 .. n /\ i - 1 \in 0 .. n
      BY <1>1
    <3>2. f[i] = IF i = 0 THEN g ELSE F[i][f[i - 1]]
      BY <1>4 DEF InTurn
    <3> QED BY <1>3, <1>4, <3>1, <3>2
  <2> HIDE DEF S
  <2>2. f = [i \in 0 .. n |-> f[i]]
    BY <1>4
  <2> QED BY <2>1, <2>2
<1>6. Is(after)
  <2> HIDE DEF Is
  <2> QED BY <1>5
<1>7. \A i \in 0 .. n : after[i] = IF i = 0 THEN g ELSE AfterLevel(shapes, after[i - 1], lv[i])
  <2> HIDE DEF after
  <2> QED BY <1>6
<1>8. ASSUME NEW i \in 0 .. n PROVE after[i] \in S
  <2> HIDE DEF after
  <2> DEFINE Bad == {j \in 0 .. n : after[j] \notin S}
  <2>1. ASSUME NEW m \in Bad, \A j \in Bad : m <= j PROVE FALSE
    <3>1. CASE m = 0
      BY <1>7, <3>1
    <3>2. CASE m # 0
      <4>1. m - 1 \in 0 .. n /\ ~(m <= m - 1)
        BY <1>1, <3>2
      <4>2. after[m - 1] \in S
        BY <2>1, <4>1
      <4>3. after[m] = AfterLevel(shapes, after[m - 1], lv[m])
        BY <1>7, <3>2
      <4> QED BY <4>2, <4>3, AfterLevelTriples
    <3> QED BY <3>1, <3>2
  <2>2. Bad \in SUBSET Nat
    BY <1>1
  <2>3. Bad = {}
    <3> SUFFICES ASSUME Bad # {} PROVE FALSE
      OBVIOUS
    <3> HIDE DEF Bad
    <3>1. PICK m \in Bad : \A j \in Bad : m <= j
      BY <2>2, LeastNumber
    <3> QED BY <2>1, <3>1
  <2> HIDE DEF S
  <2> QED BY <2>3
<1>9. 0 \in 0 .. n
  BY <1>1
<1> HIDE DEF after
<1>10. after[0] = g
  BY <1>7, <1>9
<1>11. \A i \in 0 .. n : i # 0 => after[i] = AfterLevel(shapes, after[i - 1], lv[i])
  BY <1>7
<1> QED BY <1>2, <1>8, <1>10, <1>11 DEF lv, n

-----------------------------------------------------------------------------
(* A pass that has reached some level. *)

\* The levels in their line, each with something due.
LEMMA LevelLine ==
    ASSUME NEW shapes, Given(shapes), Numbered(shapes),
           NEW lv, lv = InOrder(shapes)
    PROVE  /\ Len(lv) \in Nat /\ DOMAIN lv = 1 .. Len(lv)
           /\ \A i \in 1 .. Len(lv) : lv[i] \in Levels(shapes) /\ lv[i] \in Level
           /\ \A l \in Levels(shapes) : \E i \in 1 .. Len(lv) : lv[i] = l
           /\ \A l \in Levels(shapes) : \E d \in Due(shapes) : d.level = l
           /\ \A i, j \in 1 .. Len(lv) :
                 /\ i < j => Precedes(lv[i], lv[j])
                 /\ Precedes(lv[i], lv[j]) => i < j
                 /\ lv[i] = lv[j] => i = j
<1> DEFINE S == Levels(shapes)
           earlier == [l \in S |-> {m \in S : Precedes(m, l)}]
<1>1. Lists(lv, S, earlier)
  BY InOrderLists
<1>2. S \subseteq Level
  BY DEF Numbered, Levels
<1>3. \A l, m \in S : m \in earlier[l] => Precedes(m, l)
  OBVIOUS
<1>4. \A l \in S : \E d \in Due(shapes) : d.level = l
  <2> TAKE l \in S
  <2>1. PICK x \in Runnable(shapes) : l = LevelOf(x)
    BY DEF Levels
  <2>2. Entry(x[1], x[2]) \in Due(shapes) /\ Entry(x[1], x[2]).level = l
    BY <2>1 DEF Due, Entry, LevelOf
  <2> QED BY <2>2
<1> HIDE DEF S, earlier
<1>5. /\ lv \in Seq(S) /\ DOMAIN lv = 1 .. Cardinality(S) /\ ToSet(lv) = S
      /\ \A i, j \in DOMAIN lv : lv[i] = lv[j] => i = j
      /\ \A i, j \in DOMAIN lv : i < j => lv[i] \in earlier[lv[j]]
  BY <1>1 DEF Lists
<1>6. Len(lv) \in Nat /\ DOMAIN lv = 1 .. Len(lv)
  BY <1>5, LenProperties
<1>7. \A i \in 1 .. Len(lv) : lv[i] \in S /\ lv[i] \in Level
  BY <1>2, <1>5, <1>6 DEF ToSet
<1>8. \A l \in S : \E i \in 1 .. Len(lv) : lv[i] = l
  BY <1>5, <1>6 DEF ToSet
<1>9. ASSUME NEW i \in 1 .. Len(lv), NEW j \in 1 .. Len(lv), i < j
      PROVE  Precedes(lv[i], lv[j])
  BY <1>3, <1>5, <1>6, <1>7, <1>9
<1>10. ASSUME NEW i \in 1 .. Len(lv), NEW j \in 1 .. Len(lv), Precedes(lv[i], lv[j])
       PROVE  i < j
  <2>1. CASE j < i
    <3>1. Precedes(lv[j], lv[i])
      BY <1>9, <2>1
    <3> QED BY <1>7, <1>10, <3>1, LevelsCompare
  <2>2. CASE i = j
    BY <1>7, <1>10, <2>2, LevelsCompare
  <2>3. i \in Int /\ j \in Int
    BY <1>6
  <2> QED BY <2>1, <2>2, <2>3
<1> QED BY <1>4, <1>5, <1>6, <1>7, <1>8, <1>9, <1>10 DEF S

\* The triples an entry pushes.
Out(d, g) ==
    UNION {UNION {Inferred(d.shape.rules[i], n, g) :
                      n \in FiringNodes(d.shape, d.shape.rules[i], g)} : i \in Run(d)}

Mine(shapes, l) == {d \in Due(shapes) : d.level = l}
Later(shapes, l) == {d \in Due(shapes) : Precedes(l, d.level)}

\* The entries of a level do all that is to be done at it, and break where a
\* rule of it does.
LEMMA LevelIsItsEntries ==
    ASSUME NEW shapes, Given(shapes), Numbered(shapes), NEW g, NEW l \in Levels(shapes)
    PROVE  /\ AfterLevel(shapes, g, l) = g \cup UNION {Out(d, g) : d \in Mine(shapes, l)}
           /\ (\E x \in RunAt(shapes, l) : FailsOn(x, g))
                 <=> (\E d \in Mine(shapes, l) : Breaks(d, g))
<1>1. ASSUME NEW x \in RunAt(shapes, l)
      PROVE  \E d \in Mine(shapes, l) : \E i \in Run(d) :
                 x[1] = d.shape /\ x[2] = d.shape.rules[i]
  <2>1. x \in Runnable(shapes) /\ LevelOf(x) = l
    BY DEF RunAt
  <2>2. PICK s \in {t \in ToSet(shapes) : ~t.off} : x \in {s} \X {s.rules[i] : i \in Active(s)}
    BY <2>1 DEF Runnable
  <2>3. PICK i \in Active(s) : x = <<s, s.rules[i]>>
    BY <2>2
  <2> DEFINE d == Entry(x[1], x[2])
  <2>4. d \in Due(shapes)
    BY <2>1 DEF Due
  <2>5. d.shape = s /\ d.level = l /\ <<s.order, s.rules[i].order>> = l
    BY <2>1, <2>3 DEF Entry, LevelOf
  <2>6. l \in Level
    BY <2>1 DEF Numbered
  <2>7. i \in Run(d)
    <3>1. SameLevel(l, l)
      BY <2>6, LevelsCompare
    <3> HIDE DEF d
    <3> QED BY <2>5, <3>1 DEF Run
  <2>8. d \in Mine(shapes, l)
    <3> HIDE DEF d
    <3> QED BY <2>4, <2>5 DEF Mine
  <2>9. x[1] = d.shape /\ x[2] = d.shape.rules[i]
    BY <2>3, <2>5
  <2> HIDE DEF d
  <2> QED BY <2>7, <2>8, <2>9
<1>2. ASSUME NEW d \in Mine(shapes, l), NEW i \in Run(d)
      PROVE  <<d.shape, d.shape.rules[i]>> \in RunAt(shapes, l)
  <2>1. d \in Due(shapes) /\ d.level = l
    BY DEF Mine
  <2>2. PICK x \in Runnable(shapes) : d = Entry(x[1], x[2])
    BY <2>1 DEF Due
  <2>3. PICK s \in {t \in ToSet(shapes) : ~t.off} : x \in {s} \X {s.rules[k] : k \in Active(s)}
    BY DEF Runnable
  <2>4. d.shape = s
    BY <2>2, <2>3 DEF Entry
  <2>5. i \in Active(s) /\ SameLevel(<<s.order, s.rules[i].order>>, l)
    BY <2>1, <2>4 DEF Run
  <2> DEFINE y == <<s, s.rules[i]>>
  <2>6. y \in Runnable(shapes) /\ LevelOf(y) = <<s.order, s.rules[i].order>>
    BY <2>5 DEF Runnable, LevelOf
  <2> HIDE DEF y
  <2>7. LevelOf(y) \in Level /\ l \in Level
    BY <2>6 DEF Numbered, Levels
  <2>8. LevelOf(y) = l
    BY <2>5, <2>6, <2>7, LevelsCompare
  <2>9. y \in RunAt(shapes, l)
    BY <2>6, <2>8 DEF RunAt
  <2> QED BY <2>4, <2>9 DEF y
<1>3. AfterLevel(shapes, g, l) = g \cup UNION {Out(d, g) : d \in Mine(shapes, l)}
  <2>1. ASSUME NEW x \in RunAt(shapes, l), NEW n \in FiringNodes(x[1], x[2], g),
               NEW t \in Inferred(x[2], n, g)
        PROVE  \E d \in Mine(shapes, l) : t \in Out(d, g)
    <3>1. PICK d \in Mine(shapes, l) : \E i \in Run(d) :
                 x[1] = d.shape /\ x[2] = d.shape.rules[i]
      BY <1>1
    <3>2. PICK i \in Run(d) : x[1] = d.shape /\ x[2] = d.shape.rules[i]
      BY <3>1
    <3>3. t \in Out(d, g)
      BY <3>2 DEF Out
    <3> QED BY <3>3
  <2>2. ASSUME NEW d \in Mine(shapes, l), NEW t \in Out(d, g)
        PROVE  \E x \in RunAt(shapes, l) : \E n \in FiringNodes(x[1], x[2], g) :
                   t \in Inferred(x[2], n, g)
    <3>1. PICK i \in Run(d) : \E n \in FiringNodes(d.shape, d.shape.rules[i], g) :
                   t \in Inferred(d.shape.rules[i], n, g)
      BY DEF Out
    <3> DEFINE y == <<d.shape, d.shape.rules[i]>>
    <3>2. y \in RunAt(shapes, l) /\ y[1] = d.shape /\ y[2] = d.shape.rules[i]
      BY <1>2
    <3> HIDE DEF y
    <3> QED BY <3>1, <3>2
  <2> QED BY <2>1, <2>2 DEF AfterLevel
<1>4. ASSUME NEW x \in RunAt(shapes, l), FailsOn(x, g)
      PROVE  \E d \in Mine(shapes, l) : Breaks(d, g)
  <2>1. PICK d \in Mine(shapes, l) : \E i \in Run(d) :
               x[1] = d.shape /\ x[2] = d.shape.rules[i]
    BY <1>1
  <2>2. Breaks(d, g)
    BY <1>4, <2>1 DEF Breaks, FailsOn
  <2> QED BY <2>2
<1>5. ASSUME NEW d \in Mine(shapes, l), Breaks(d, g)
      PROVE  \E x \in RunAt(shapes, l) : FailsOn(x, g)
  <2>1. CASE d.shape.target.fails
    <3>1. d \in Due(shapes) /\ d.level = l
      BY DEF Mine
    <3>2. PICK x \in Runnable(shapes) : d = Entry(x[1], x[2])
      BY <3>1 DEF Due
    <3>3. d.shape = x[1] /\ LevelOf(x) = l
      BY <3>1, <3>2 DEF Entry, LevelOf
    <3>4. x \in RunAt(shapes, l)
      BY <3>3 DEF RunAt
    <3> QED BY <2>1, <3>3, <3>4 DEF FailsOn
  <2>2. CASE ~d.shape.target.fails
    <3>1. PICK i \in Run(d) : \E n \in Focus(d.shape, g) : Faults(d.shape.rules[i], n, g)
      BY <1>5, <2>2 DEF Breaks
    <3> DEFINE y == <<d.shape, d.shape.rules[i]>>
    <3>2. y \in RunAt(shapes, l) /\ y[1] = d.shape /\ y[2] = d.shape.rules[i]
      BY <1>2
    <3> HIDE DEF y
    <3> QED BY <3>1, <3>2 DEF FailsOn
  <2> QED BY <2>1, <2>2
<1> QED BY <1>3, <1>4, <1>5

\* The pass over `shapes' that began with the graph g has reached its k-th
\* level, l: `now' is the graph this level reads, `left' the entries still to
\* run and `got' the triples that are pending.
Reaches(shapes, g, k, l, now, left, got) ==
    LET lv    == InOrder(shapes)
        after == AfterLevels(shapes, g)
    IN  /\ k \in 1 .. Len(lv)
        /\ l = lv[k]
        /\ now = after[k - 1]
        /\ left \in Seq(Mine(shapes, l) \cup Later(shapes, l))
        /\ InLine(left)
        /\ Later(shapes, l) \subseteq ToSet(left)
        /\ got \subseteq UNION {Out(d, now) : d \in Mine(shapes, l)}
        /\ \A d \in Mine(shapes, l) \ ToSet(left) : Out(d, now) \subseteq got /\ ~Breaks(d, now)
        /\ \A i \in 1 .. (k - 1) : \A d \in Mine(shapes, lv[i]) : ~Breaks(d, after[i - 1])

\* A pass begins at the first of its levels, if it has any.
LEMMA PassBegins ==
    ASSUME NEW shapes, Given(shapes), Numbered(shapes), NEW g \in SUBSET Triple
    PROVE  /\ Levels(shapes) = {} => WorkList(shapes) = <<>>
           /\ Levels(shapes) # {} =>
                 /\ WorkList(shapes) # <<>>
                 /\ Reaches(shapes, g, 1, Head(WorkList(shapes)).level, g, WorkList(shapes), {})
<1> DEFINE lv == InOrder(shapes)
           w == WorkList(shapes)
           D == Due(shapes)
           S == Levels(shapes)
           l == Head(w).level
           after == AfterLevels(shapes, g)
<1>1. w \in Seq(D) /\ InLine(w) /\ ToSet(w) = D
  BY WorkListIs
<1>2. /\ Len(lv) \in Nat
      /\ \A i \in 1 .. Len(lv) : lv[i] \in S /\ lv[i] \in Level
      /\ \A m \in S : \E i \in 1 .. Len(lv) : lv[i] = m
      /\ \A m \in S : \E d \in D : d.level = m
      /\ \A i, j \in 1 .. Len(lv) : i < j => Precedes(lv[i], lv[j])
  BY LevelLine
<1>3. \A d \in D : d.level \in S /\ d.level \in Level
  BY DueLevels
<1>4. after[0] = g
  BY AfterLevelsAre
<1> HIDE DEF lv, w, D, S, after
<1>5. Len(w) \in Nat /\ DOMAIN w = 1 .. Len(w) /\ \A i \in 1 .. Len(w) : w[i] \in D
  BY <1>1, LenProperties, ElementOfSeq
<1>6. ASSUME S = {} PROVE w = <<>>
  <2>1. D = {}
    BY <1>3, <1>6
  <2>2. Len(w) = 0
    BY <1>5, <2>1
  <2> QED BY <1>1, <2>2, EmptySeq
<1>7. ASSUME S # {}
      PROVE  w # <<>> /\ Reaches(shapes, g, 1, l, g, w, {})
  <2>1. w # <<>>
    <3>1. PICK d \in D : TRUE
      BY <1>2, <1>7
    <3>2. d \in ToSet(w)
      BY <1>1
    <3>3. ToSet(<<>>) = {}
      BY DEF ToSet
    <3> QED BY <3>2, <3>3
  <2>2. 1 \in 1 .. Len(w) /\ Head(w) = w[1]
    BY <1>1, <1>5, <2>1, EmptySeq
  <2>3. l \in S /\ l \in Level
    BY <1>3, <1>5, <2>2
  <2>4. ASSUME NEW d \in D PROVE ~Precedes(d.level, l)
    <3>1. PICK i \in 1 .. Len(w) : w[i] = d
      BY <1>1, <1>5 DEF ToSet
    <3>2. CASE i = 1
      BY <2>2, <2>3, <3>1, <3>2, LevelsCompare
    <3>3. CASE i # 1
      <4>1. 1 < i
        BY <3>3
      <4> QED BY <1>1, <2>2, <3>1, <4>1 DEF InLine
    <3> QED BY <3>2, <3>3
  <2> HIDE DEF l
  <2>5. PICK at \in 1 .. Len(lv) : lv[at] = l
    BY <1>2, <2>3
  <2>6. 1 \in 1 .. Len(lv)
    BY <1>2, <2>5
  <2>7. PICK c \in D : c.level = lv[1]
    BY <1>2, <2>6
  <2>8. l = lv[1]
    <3>1. CASE at = 1
      BY <2>5, <3>1
    <3>2. CASE at # 1
      <4>1. 1 < at
        BY <1>2, <3>2
      <4>2. \A i, j \in 1 .. Len(lv) : i < j => Precedes(lv[i], lv[j])
        BY <1>2
      <4>3. Precedes(lv[1], lv[at])
        BY <2>6, <4>1, <4>2
      <4> QED BY <2>4, <2>5, <2>7, <4>3
    <3> QED BY <3>1, <3>2
  <2>9. ASSUME NEW d \in D PROVE d \in Mine(shapes, l) \cup Later(shapes, l)
    <3>1. d.level = l \/ Precedes(l, d.level)
      BY <1>3, <2>3, <2>4, LevelsCompare
    <3> QED BY <3>1 DEF Mine, Later, D
  <2>10. Mine(shapes, l) \cup Later(shapes, l) = D
    BY <2>9 DEF Mine, Later, D
  <2>11. \A d \in Mine(shapes, l) \ ToSet(w) : Out(d, g) \subseteq {} /\ ~Breaks(d, g)
    BY <1>1, <2>10
  <2>12. 1 .. (1 - 1) = {} /\ after[1 - 1] = g
    BY <1>4
  <2>13. lv = InOrder(shapes) /\ after = AfterLevels(shapes, g)
    BY DEF lv, after
  <2>14. /\ w \in Seq(Mine(shapes, l) \cup Later(shapes, l)) /\ InLine(w)
         /\ Later(shapes, l) \subseteq ToSet(w)
    BY <1>1, <2>10
  <2>15. {} \subseteq UNION {Out(d, g) : d \in Mine(shapes, l)}
    OBVIOUS
  <2>16. \A i \in 1 .. (1 - 1) : \A d \in Mine(shapes, lv[i]) : ~Breaks(d, after[i - 1])
    BY <2>12
  <2>17. Reaches(shapes, g, 1, l, g, w, {})
    BY <2>6, <2>8, <2>11, <2>12, <2>13, <2>14, <2>15, <2>16 DEF Reaches
  <2> QED BY <2>1, <2>17
<1> QED BY <1>6, <1>7 DEF w, S

\* The head of a work list, and what is left without it.
LEMMA HeadTaken ==
    ASSUME NEW S, NEW s \in Seq(S), s # <<>>, InLine(s)
    PROVE  /\ Head(s) \in S
           /\ Tail(s) \in Seq(S)
           /\ InLine(Tail(s))
           /\ ToSet(s) = ToSet(Tail(s)) \cup {Head(s)}
           /\ \A d \in ToSet(s) : d = Head(s) \/ ~Precedes(d.level, Head(s).level)
<1>1. PICK n \in Nat : n = Len(s)
  BY LenProperties
<1>2. n >= 1 /\ DOMAIN s = 1 .. n /\ \A i \in 1 .. n : s[i] \in S
  BY <1>1, EmptySeq, LenProperties, ElementOfSeq
<1>3. /\ Head(s) = s[1] /\ Tail(s) \in Seq(S) /\ Len(Tail(s)) = n - 1
      /\ \A i \in 1 .. (n - 1) : Tail(s)[i] = s[i + 1]
  BY <1>1, <1>2, HeadTailProperties
<1> DEFINE rest == Tail(s)
<1>4. DOMAIN rest = 1 .. (n - 1)
  BY <1>3, LenProperties
<1> HIDE DEF rest
<1>5. InLine(rest)
  <2> SUFFICES ASSUME NEW i \in 1 .. (n - 1), NEW j \in 1 .. (n - 1), i < j
               PROVE  ~Precedes(rest[j].level, rest[i].level)
    BY <1>3 DEF InLine, rest
  <2>1. i + 1 \in 1 .. n /\ j + 1 \in 1 .. n /\ i + 1 < j + 1
    OBVIOUS
  <2>2. rest[i] = s[i + 1] /\ rest[j] = s[j + 1]
    BY <1>3 DEF rest
  <2> QED BY <1>1, <2>1, <2>2 DEF InLine
<1>6. \A i \in 1 .. n : i # 1 => i - 1 \in 1 .. (n - 1) /\ i - 1 + 1 = i
  OBVIOUS
<1>7. ToSet(s) = ToSet(rest) \cup {s[1]}
  <2>1. ASSUME NEW i \in 1 .. n PROVE s[i] \in ToSet(rest) \cup {s[1]}
    <3>1. CASE i = 1
      BY <3>1
    <3>2. CASE i # 1
      <4>1. i - 1 \in DOMAIN rest /\ rest[i - 1] = s[i]
        BY <1>3, <1>4, <1>6, <3>2 DEF rest
      <4> QED BY <4>1 DEF ToSet
    <3> QED BY <3>1, <3>2
  <2>2. ASSUME NEW i \in DOMAIN rest PROVE rest[i] \in ToSet(s)
    <3>1. i + 1 \in DOMAIN s /\ rest[i] = s[i + 1]
      BY <1>2, <1>3, <1>4 DEF rest
    <3> QED BY <3>1 DEF ToSet
  <2>3. s[1] \in ToSet(s)
    BY <1>2 DEF ToSet
  <2> QED BY <1>2, <2>1, <2>2, <2>3 DEF ToSet
<1>8. ASSUME NEW d \in ToSet(s) PROVE d = s[1] \/ ~Precedes(d.level, s[1].level)
  <2>1. PICK i \in 1 .. n : s[i] = d
    BY <1>2 DEF ToSet
  <2>2. CASE i = 1
    BY <2>1, <2>2
  <2>3. CASE i # 1
    <3>1. 1 < i /\ 1 \in 1 .. n
      BY <2>3
    <3> QED BY <1>1, <2>1, <3>1 DEF InLine
  <2> QED BY <2>2, <2>3
<1> QED BY <1>2, <1>3, <1>5, <1>7, <1>8 DEF rest

\* Running the next entry of the level keeps the pass where it is.
LEMMA OneRun ==
    ASSUME NEW shapes, Given(shapes), Numbered(shapes),
           NEW g, NEW k, NEW l, NEW now, NEW left, NEW got,
           Reaches(shapes, g, k, l, now, left, got),
           left # <<>>, Head(left).level = l, ~Breaks(Head(left), now)
    PROVE  Reaches(shapes, g, k, l, now, Tail(left), got \cup Out(Head(left), now))
<1> DEFINE M == Mine(shapes, l)
           L == Later(shapes, l)
           e == Head(left)
           more == got \cup Out(e, now)
<1>1. /\ left \in Seq(M \cup L) /\ InLine(left) /\ L \subseteq ToSet(left)
      /\ got \subseteq UNION {Out(d, now) : d \in M}
      /\ \A d \in M \ ToSet(left) : Out(d, now) \subseteq got /\ ~Breaks(d, now)
      /\ k \in 1 .. Len(InOrder(shapes)) /\ l = InOrder(shapes)[k]
  BY DEF Reaches
<1> HIDE DEF M, L
<1>2. /\ e \in M \cup L /\ Tail(left) \in Seq(M \cup L) /\ InLine(Tail(left))
      /\ ToSet(left) = ToSet(Tail(left)) \cup {e}
  BY <1>1, HeadTaken
<1> HIDE DEF e
<1>3. l \in Level
  BY <1>1, LevelLine
<1>4. \A d \in L : d.level # l
  BY <1>3, LevelsCompare DEF L, Later
<1>5. e \in M /\ e \notin L
  BY <1>2, <1>4 DEF e
<1>6. L \subseteq ToSet(Tail(left))
  BY <1>1, <1>2, <1>5
<1>7. more \subseteq UNION {Out(d, now) : d \in M}
  BY <1>1, <1>5
<1>8. \A d \in M \ ToSet(Tail(left)) : Out(d, now) \subseteq more /\ ~Breaks(d, now)
  BY <1>1, <1>2 DEF e
<1> QED BY <1>2, <1>6, <1>7, <1>8 DEF Reaches, M, L, e

\* When the next entry is not of the level, or none is left, the level is done:
\* what it leaves is known, nothing at it or before it broke, and what comes is
\* the next level, or none.
LEMMA LevelDone ==
    ASSUME NEW shapes, Given(shapes), Numbered(shapes),
           NEW g \in SUBSET Triple, NEW k, NEW l, NEW now, NEW left, NEW got,
           Reaches(shapes, g, k, l, now, left, got),
           left # <<>> => Head(left).level # l
    PROVE  /\ k \in 1 .. Len(InOrder(shapes))
           /\ now \cup got = AfterLevels(shapes, g)[k]
           /\ \A i \in 1 .. k : \A d \in Mine(shapes, InOrder(shapes)[i]) :
                 ~Breaks(d, AfterLevels(shapes, g)[i - 1])
           /\ left = <<>> => k = Len(InOrder(shapes))
           /\ left # <<>> =>
                 /\ k + 1 \in 1 .. Len(InOrder(shapes))
                 /\ Reaches(shapes, g, k + 1, Head(left).level, now \cup got, left, {})
<1> DEFINE lv == InOrder(shapes)
           after == AfterLevels(shapes, g)
           M == Mine(shapes, l)
           L == Later(shapes, l)
           D == Due(shapes)
           S == Levels(shapes)
           n == Len(lv)
<1>1. /\ k \in 1 .. n /\ l = lv[k] /\ now = after[k - 1]
      /\ left \in Seq(M \cup L) /\ InLine(left) /\ L \subseteq ToSet(left)
      /\ got \subseteq UNION {Out(d, now) : d \in M}
      /\ \A d \in M \ ToSet(left) : Out(d, now) \subseteq got /\ ~Breaks(d, now)
      /\ \A i \in 1 .. (k - 1) : \A d \in Mine(shapes, lv[i]) : ~Breaks(d, after[i - 1])
  BY DEF Reaches
<1>2. /\ n \in Nat
      /\ \A i \in 1 .. n : lv[i] \in S /\ lv[i] \in Level
      /\ \A m \in S : \E i \in 1 .. n : lv[i] = m
      /\ \A m \in S : \E d \in D : d.level = m
      /\ \A i, j \in 1 .. n : i < j => Precedes(lv[i], lv[j])
      /\ \A i, j \in 1 .. n : Precedes(lv[i], lv[j]) => i < j
  BY LevelLine
<1>3. \A d \in D : d.level \in S /\ d.level \in Level
  BY DueLevels
<1>4. /\ after[k] = AfterLevel(shapes, after[k - 1], lv[k])
  <2>1. k \in 0 .. n /\ k # 0
    BY <1>1
  <2> QED BY <2>1, AfterLevelsAre
<1>5. AfterLevel(shapes, now, l) = now \cup UNION {Out(d, now) : d \in M}
  BY <1>1, <1>2, LevelIsItsEntries
<1>6. /\ \A d \in M : d \in D /\ d.level = l
      /\ \A d \in L : d \in D /\ Precedes(l, d.level)
      /\ \A d \in D : Precedes(l, d.level) => d \in L
  BY DEF Mine, Later
<1> HIDE DEF lv, after, M, L, D, S, n
<1>7. l \in Level
  BY <1>1, <1>2
<1>8. ASSUME left # <<>>
      PROVE  /\ Head(left) \in L
             /\ \A d \in ToSet(left) : ~Precedes(d.level, Head(left).level)
  <2>1. /\ Head(left) \in M \cup L
        /\ \A d \in ToSet(left) : d = Head(left) \/ ~Precedes(d.level, Head(left).level)
    BY <1>1, <1>8, HeadTaken
  <2>2. Head(left) \in L
    BY <1>6, <1>8, <2>1
  <2>3. Head(left).level \in Level
    BY <1>3, <1>6, <2>2
  <2>4. ~Precedes(Head(left).level, Head(left).level)
    BY <2>3, LevelsCompare
  <2> QED BY <2>1, <2>2, <2>4
<1>9. \A d \in M : d \notin ToSet(left)
  <2> TAKE d \in M
  <2>1. CASE left = <<>>
    <3>1. ToSet(<<>>) = {}
      BY DEF ToSet
    <3> QED BY <2>1, <3>1
  <2>2. CASE left # <<>>
    <3>1. Precedes(d.level, Head(left).level)
      BY <1>6, <1>8, <2>2
    <3> QED BY <1>8, <2>2, <3>1
  <2> QED BY <2>1, <2>2
<1>10. now \cup got = after[k]
  <2>1. got = UNION {Out(d, now) : d \in M}
    BY <1>1, <1>9
  <2> QED BY <1>1, <1>4, <1>5, <2>1
<1>11. ASSUME NEW i \in 1 .. k, NEW d \in Mine(shapes, lv[i])
       PROVE  ~Breaks(d, after[i - 1])
  <2>1. CASE i = k
    BY <1>1, <1>9, <1>11, <2>1 DEF M
  <2>2. CASE i # k
    <3>1. i \in 1 .. (k - 1)
      BY <1>1, <2>2
    <3> QED BY <1>1, <1>11, <3>1
  <2> QED BY <2>1, <2>2
<1>12. ASSUME k # n
       PROVE  k + 1 \in 1 .. n /\ \E d \in L : d.level = lv[k + 1]
  <2>1. k + 1 \in 1 .. n /\ k < k + 1
    BY <1>1, <1>2, <1>12
  <2>2. Precedes(lv[k], lv[k + 1])
    BY <1>1, <1>2, <2>1
  <2>3. PICK d \in D : d.level = lv[k + 1]
    BY <1>2, <2>1
  <2>4. d \in L
    BY <1>1, <1>6, <2>2, <2>3
  <2> QED BY <2>1, <2>3, <2>4
<1>13. ASSUME left = <<>> PROVE k = n
  <2>1. ToSet(<<>>) = {}
    BY DEF ToSet
  <2>2. L = {}
    BY <1>1, <1>13, <2>1
  <2> QED BY <1>12, <2>2
<1>14. ASSUME left # <<>>
       PROVE  /\ k + 1 \in 1 .. n
              /\ Reaches(shapes, g, k + 1, Head(left).level, now \cup got, left, {})
  <2> DEFINE m == Head(left).level
             M2 == Mine(shapes, m)
             L2 == Later(shapes, m)
  <2>1. Head(left) \in L /\ \A d \in ToSet(left) : ~Precedes(d.level, m)
    BY <1>8, <1>14
  <2>2. m \in S /\ m \in Level /\ Precedes(l, m)
    BY <1>3, <1>6, <2>1
  <2>3. PICK at \in 1 .. n : lv[at] = m
    BY <1>2, <2>2
  <2>4. k < at
    BY <1>1, <1>2, <2>2, <2>3
  <2>5. k # n
    BY <1>1, <2>3, <2>4
  <2>6. PICK d \in L : d.level = lv[k + 1]
    BY <1>12, <2>5
  <2>7. k + 1 \in 1 .. n
    BY <1>12, <2>5
  <2>8. m = lv[k + 1]
    <3>1. CASE at = k + 1
      BY <2>3, <3>1
    <3>2. CASE at # k + 1
      <4>1. k + 1 < at
        BY <1>1, <2>4, <3>2
      <4>2. Precedes(lv[k + 1], lv[at])
        BY <1>2, <2>7, <4>1
      <4>3. d \in ToSet(left)
        BY <1>1, <2>6
      <4> QED BY <2>1, <2>3, <2>6, <4>2, <4>3
    <3> QED BY <3>1, <3>2
  <2> HIDE DEF m
  <2>9. ASSUME NEW c \in ToSet(left) PROVE c \in M2 \cup L2
    <3>1. c \in M \cup L
      <4>1. ToSet(left) \subseteq M \cup L
        BY <1>1, MembersOfSeq
      <4> QED BY <4>1
    <3>2. c \in D /\ c.level \in Level
      BY <1>3, <1>6, <3>1
    <3>3. ~Precedes(c.level, m)
      BY <2>1
    <3>4. c.level = m \/ Precedes(m, c.level)
      BY <2>2, <3>2, <3>3, LevelsCompare
    <3> QED BY <3>2, <3>4 DEF Mine, Later, D
  <2>10. left \in Seq(M2 \cup L2)
    <3>1. left \in Seq(ToSet(left))
      BY <1>1, MembersOfSeq
    <3>2. Seq(ToSet(left)) \subseteq Seq(M2 \cup L2)
      <4> HIDE DEF M2, L2
      <4> QED BY <2>9, SeqDef
    <3> QED BY <3>1, <3>2
  <2>11. ASSUME NEW c \in M2 \cup L2 PROVE c \in ToSet(left)
    <3>1. c \in D /\ (c.level = m \/ Precedes(m, c.level))
      BY DEF Mine, Later, D
    <3>2. Precedes(l, c.level)
      <4>1. c.level \in Level
        BY <1>3, <3>1
      <4> QED BY <1>7, <2>2, <3>1, <4>1, LevelsCompare
    <3> QED BY <1>1, <1>6, <3>1, <3>2
  <2>15. k + 1 \in 1 .. Len(lv)
    BY <2>7 DEF n
  <2>16. lv = InOrder(shapes) /\ after = AfterLevels(shapes, g)
    BY DEF lv, after
  <2>17. PICK next \in Nat : next = k + 1 /\ next - 1 = k
    BY <1>1
  <2>24. PICK then : then = now \cup got
    OBVIOUS
  <2>18. /\ left \in Seq(Mine(shapes, m) \cup Later(shapes, m)) /\ InLine(left)
         /\ Later(shapes, m) \subseteq ToSet(left)
    BY <1>1, <2>10, <2>11
  <2>19. {} \subseteq UNION {Out(c, then) : c \in Mine(shapes, m)}
    OBVIOUS
  <2>20. \A c \in Mine(shapes, m) \ ToSet(left) : Out(c, then) \subseteq {} /\ ~Breaks(c, then)
    BY <2>11
  <2>21. next \in 1 .. Len(lv) /\ m = lv[next] /\ then = after[next - 1]
    BY <1>10, <2>8, <2>15, <2>17, <2>24
  <2>25. \A i \in 1 .. (next - 1) : \A c \in Mine(shapes, lv[i]) : ~Breaks(c, after[i - 1])
    BY <1>11, <2>17
  <2>22. Reaches(shapes, g, next, m, then, left, {})
    BY <2>16, <2>18, <2>19, <2>20, <2>21, <2>25 DEF Reaches
  <2>23. Reaches(shapes, g, k + 1, m, now \cup got, left, {})
    BY <2>17, <2>22, <2>24
  <2> QED BY <2>7, <2>23 DEF m
<1> QED BY <1>1, <1>10, <1>11, <1>13, <1>14 DEF n, lv, after

\* How far a pass is: at some level, or at the end if there is none.
PassAt(shapes, g, l, now, left, got) ==
    IF Levels(shapes) = {}
    THEN left = <<>> /\ got = {} /\ now = g
    ELSE \E k \in Nat : Reaches(shapes, g, k, l, now, left, got)

\* A pass begins with its whole work list and nothing pending.
LEMMA PassStarts ==
    ASSUME NEW shapes, Given(shapes), Numbered(shapes), NEW g \in SUBSET Triple
    PROVE  PassAt(shapes, g, FirstLevel(WorkList(shapes)), g, WorkList(shapes), {})
<1>1. CASE Levels(shapes) = {}
  BY <1>1, PassBegins DEF PassAt
<1>2. CASE Levels(shapes) # {}
  <2>1. FirstLevel(WorkList(shapes)) = Head(WorkList(shapes)).level
    BY <1>2, PassBegins DEF FirstLevel
  <2>2. Reaches(shapes, g, 1, FirstLevel(WorkList(shapes)), g, WorkList(shapes), {})
    BY <1>2, <2>1, PassBegins
  <2>3. 1 \in Nat
    OBVIOUS
  <2> QED BY <1>2, <2>2, <2>3 DEF PassAt
<1> QED BY <1>1, <1>2

\* An entry of the level under way keeps the pass on its way, and is an error
\* only where one is due.
LEMMA PassWithin ==
    ASSUME NEW shapes, Given(shapes), Numbered(shapes), NEW g \in SUBSET Triple,
           NEW l, NEW now, NEW left, NEW got,
           PassAt(shapes, g, l, now, left, got),
           left # <<>>, SameLevel(Head(left).level, l)
    PROVE  /\ ~Breaks(Head(left), now) =>
                 PassAt(shapes, g, l, now, Tail(left), got \cup Out(Head(left), now))
           /\ Breaks(Head(left), now) => WouldBreak(shapes, g)
<1> DEFINE lv == InOrder(shapes)
           after == AfterLevels(shapes, g)
           e == Head(left)
<1>1. Levels(shapes) # {}
  BY DEF PassAt
<1>2. PICK k \in Nat : Reaches(shapes, g, k, l, now, left, got)
  BY <1>1 DEF PassAt
<1>3. /\ k \in 1 .. Len(lv) /\ l = lv[k] /\ now = after[k - 1]
      /\ left \in Seq(Mine(shapes, l) \cup Later(shapes, l)) /\ InLine(left)
  BY <1>2 DEF Reaches
<1>4. /\ DOMAIN lv = 1 .. Len(lv)
      /\ \A i \in 1 .. Len(lv) : lv[i] \in Levels(shapes) /\ lv[i] \in Level
  BY LevelLine
<1> HIDE DEF lv, after, e
<1>5. e \in Mine(shapes, l) \cup Later(shapes, l)
  BY <1>3, HeadTaken DEF e
<1>6. e \in Due(shapes)
  BY <1>5 DEF Mine, Later
<1>7. e.level \in Level /\ l \in Level /\ l \in Levels(shapes)
  BY <1>3, <1>4, <1>6, DueLevels
<1>8. e.level = l
  BY <1>7, LevelsCompare DEF e
<1>9. ASSUME ~Breaks(e, now)
      PROVE  PassAt(shapes, g, l, now, Tail(left), got \cup Out(e, now))
  <2>1. Reaches(shapes, g, k, l, now, Tail(left), got \cup Out(e, now))
    BY <1>2, <1>8, <1>9, OneRun DEF e
  <2> QED BY <1>1, <2>1 DEF PassAt
<1>10. ASSUME Breaks(e, now)
       PROVE  WouldBreak(shapes, g)
  <2>1. e \in Mine(shapes, l)
    BY <1>6, <1>8 DEF Mine
  <2>2. \E x \in RunAt(shapes, l) : FailsOn(x, now)
    <3>1. \E d \in Mine(shapes, l) : Breaks(d, now)
      BY <1>10, <2>1
    <3>2. (\E x \in RunAt(shapes, l) : FailsOn(x, now))
             <=> (\E d \in Mine(shapes, l) : Breaks(d, now))
      BY <1>7, LevelIsItsEntries
    <3> QED BY <3>1, <3>2
  <2>3. k \in DOMAIN lv
    BY <1>3, <1>4
  <2>4. \E x \in RunAt(shapes, lv[k]) : FailsOn(x, after[k - 1])
    BY <1>3, <2>2
  <2> QED BY <2>3, <2>4 DEF WouldBreak, lv, after
<1> QED BY <1>9, <1>10 DEF e

\* An entry of another level finds a level done.
LEMMA PassAcross ==
    ASSUME NEW shapes, Given(shapes), Numbered(shapes), NEW g \in SUBSET Triple,
           NEW l, NEW now, NEW left, NEW got,
           PassAt(shapes, g, l, now, left, got),
           left # <<>>, ~SameLevel(Head(left).level, l)
    PROVE  PassAt(shapes, g, Head(left).level, now \cup got, left, {})
<1>1. Levels(shapes) # {}
  BY DEF PassAt
<1>2. PICK k \in Nat : Reaches(shapes, g, k, l, now, left, got)
  BY <1>1 DEF PassAt
<1>3. l \in Level
  <2>1. k \in 1 .. Len(InOrder(shapes)) /\ l = InOrder(shapes)[k]
    BY <1>2 DEF Reaches
  <2> QED BY <2>1, LevelLine
<1>4. Head(left).level # l
  BY <1>3, LevelsCompare
<1>5. Reaches(shapes, g, k + 1, Head(left).level, now \cup got, left, {})
  BY <1>2, <1>4, LevelDone
<1>6. k + 1 \in Nat
  OBVIOUS
<1> QED BY <1>1, <1>5, <1>6 DEF PassAt

\* A pass with nothing left to run has run every level, and none broke.
LEMMA PassDone ==
    ASSUME NEW shapes, Given(shapes), Numbered(shapes), NEW g \in SUBSET Triple,
           NEW l, NEW now, NEW got,
           PassAt(shapes, g, l, now, <<>>, got)
    PROVE  now \cup got = ByLevel(shapes, g) /\ ~WouldBreak(shapes, g)
<1> DEFINE lv == InOrder(shapes)
           after == AfterLevels(shapes, g)
           n == Len(lv)
<1>1. /\ n \in Nat /\ DOMAIN lv = 1 .. n
      /\ \A i \in 1 .. n : lv[i] \in Levels(shapes)
  BY LevelLine
<1>2. after[0] = g
  BY AfterLevelsAre
<1>3. ByLevel(shapes, g) = after[n]
  BY DEF ByLevel
<1>4. WouldBreak(shapes, g) =>
         \E i \in 1 .. n : \E x \in RunAt(shapes, lv[i]) :
             FailsOn(x, after[i - 1])
  BY <1>1 DEF WouldBreak
<1> HIDE DEF lv, after, n
<1>5. CASE Levels(shapes) = {}
  <2>1. got = {} /\ now = g
    BY <1>5 DEF PassAt
  <2>2. n = 0
    BY <1>1, <1>5
  <2>3. ~WouldBreak(shapes, g)
    BY <1>4, <2>2
  <2> QED BY <1>2, <1>3, <2>1, <2>2, <2>3
<1>6. CASE Levels(shapes) # {}
  <2>1. PICK k \in Nat : Reaches(shapes, g, k, l, now, <<>>, got)
    BY <1>6 DEF PassAt
  <2>2. /\ now \cup got = after[k] /\ k = n
        /\ \A i \in 1 .. k : \A d \in Mine(shapes, lv[i]) : ~Breaks(d, after[i - 1])
    BY <2>1, LevelDone DEF lv, after, n
  <2>3. ~WouldBreak(shapes, g)
    <3> SUFFICES ASSUME NEW i \in 1 .. n, \E x \in RunAt(shapes, lv[i]) :
                           FailsOn(x, after[i - 1])
                 PROVE  FALSE
      BY <1>4
    <3>1. lv[i] \in Levels(shapes)
      BY <1>1
    <3>2. \E d \in Mine(shapes, lv[i]) : Breaks(d, after[i - 1])
      BY <3>1, LevelIsItsEntries
    <3> QED BY <2>2, <3>2
  <2> QED BY <1>3, <2>2, <2>3
<1> QED BY <1>5, <1>6

\* A pass takes nothing away.
LEMMA PassGrows ==
    ASSUME NEW shapes, Given(shapes), Numbered(shapes), NEW g \in SUBSET Triple
    PROVE  ByLevel(shapes, g) \in SUBSET Triple /\ g \subseteq ByLevel(shapes, g)
<1> DEFINE n == Len(InOrder(shapes))
           after == AfterLevels(shapes, g)
           Bad == {i \in 0 .. n : ~(g \subseteq after[i])}
<1>1. n \in Nat
  BY LevelLine
<1>2. /\ after[0] = g
      /\ \A i \in 0 .. n : after[i] \in SUBSET Triple
      /\ \A i \in 0 .. n : i # 0 => after[i] = AfterLevel(shapes, after[i - 1], InOrder(shapes)[i])
  BY AfterLevelsAre
<1>3. ByLevel(shapes, g) = after[n]
  BY DEF ByLevel
<1> HIDE DEF n, after
<1>4. ASSUME NEW m \in Bad, \A i \in Bad : m <= i PROVE FALSE
  <2>1. CASE m = 0
    BY <1>2, <2>1
  <2>2. CASE m # 0
    <3>1. m - 1 \in 0 .. n /\ ~(m <= m - 1)
      BY <1>1, <2>2
    <3>2. g \subseteq after[m - 1]
      BY <1>4, <3>1
    <3>3. after[m - 1] \subseteq after[m]
      BY <1>2, <2>2 DEF AfterLevel
    <3> QED BY <3>2, <3>3
  <2> QED BY <2>1, <2>2
<1>5. Bad = {}
  <2> SUFFICES ASSUME Bad # {} PROVE FALSE
    OBVIOUS
  <2>1. Bad \in SUBSET Nat
    BY <1>1
  <2> HIDE DEF Bad
  <2>2. PICK m \in Bad : \A i \in Bad : m <= i
    BY <2>1, LeastNumber
  <2> QED BY <1>4, <2>2
<1>6. n \in 0 .. n
  BY <1>1
<1> QED BY <1>2, <1>3, <1>5, <1>6

-----------------------------------------------------------------------------
(* Runs. *)

\* The triples that are pending.
Pushed == {x[4] : x \in pending}

\* The graph is the data or within the limit, and both can be counted.
Bounded ==
    /\ IsFiniteSet(current) /\ IsFiniteSet(pending)
    /\ current = in.data \/ Cardinality(current) <= in.max

\* A call that is under way is at some place of a pass over the graph `before',
\* which for a single pass is the data; one that has ended keeps its promises.
Inference ==
    /\ in \in Inputs
    /\ before \in SUBSET Triple
    /\ ~in.iterated => before = in.data
    /\ status = "running" => PassAt(in.shapes, before, level, current, work, Pushed)
    /\ Bounded
    /\ PassIsByLevel /\ BrokenIsHeard /\ FixpointReached

\* All orders of the calls are numbers: no NaN.
OrdersCompare == \A call \in Inputs : Numbered(call.shapes)

\* A call is well formed.
LEMMA CallFacts ==
    ASSUME NEW call \in Inputs
    PROVE  /\ Given(call.shapes) /\ call.data \in SUBSET Triple /\ call.iterated \in BOOLEAN
           /\ call.max \in Nat
BY InputsAssumption DEF Given

\* What is merged is what is pending.
LEMMA MergedIs ==
    ASSUME NEW g, NEW e
    PROVE  /\ Merged(g, pending) = g \cup Pushed
           /\ {x[4] : x \in pending \cup Fired(e, g)} = Pushed \cup Out(e, g)
           /\ {x[4] : x \in Fired(e, g)} = Out(e, g)
<1>1. {x[4] : x \in Fired(e, g)} = Out(e, g)
  <2> DEFINE at == Len(work)
             R(i) == e.shape.rules[i]
             N(i) == FiringNodes(e.shape, R(i), g)
             mark(i, n, t) == <<at, i, n, t>>
  <2>1. \A i, n, t : mark(i, n, t)[4] = t
    OBVIOUS
  <2>2. Fired(e, g) = UNION {UNION {{mark(i, n, t) : t \in Inferred(R(i), n, g)} : n \in N(i)} :
                                i \in Run(e)}
    BY DEF Fired
  <2>3. Out(e, g) = UNION {UNION {Inferred(R(i), n, g) : n \in N(i)} : i \in Run(e)}
    BY DEF Out
  <2> HIDE DEF R, N, mark
  <2>4. ASSUME NEW x \in Fired(e, g) PROVE x[4] \in Out(e, g)
    <3>1. PICK i \in Run(e) : \E n \in N(i) : \E t \in Inferred(R(i), n, g) : x = mark(i, n, t)
      BY <2>2
    <3>2. PICK n \in N(i) : \E t \in Inferred(R(i), n, g) : x = mark(i, n, t)
      BY <3>1
    <3>3. PICK t \in Inferred(R(i), n, g) : x = mark(i, n, t)
      BY <3>2
    <3>4. x[4] = t
      BY <2>1, <3>3
    <3> QED BY <2>3, <3>4
  <2>5. ASSUME NEW t \in Out(e, g) PROVE \E x \in Fired(e, g) : x[4] = t
    <3>1. PICK i \in Run(e) : \E n \in N(i) : t \in Inferred(R(i), n, g)
      BY <2>3
    <3>2. PICK n \in N(i) : t \in Inferred(R(i), n, g)
      BY <3>1
    <3>3. mark(i, n, t) \in Fired(e, g)
      BY <2>2, <3>2
    <3> QED BY <2>1, <3>3
  <2> HIDE DEF at
  <2> QED BY <2>4, <2>5
<1>2. Merged(g, pending) = g \cup Pushed
  BY DEF Merged, Pushed
<1>3. {x[4] : x \in pending \cup Fired(e, g)} = Pushed \cup {x[4] : x \in Fired(e, g)}
  BY DEF Pushed
<1> QED BY <1>1, <1>2, <1>3

\* The graph of a level has triples, and the next entry is of a shape given.
LEMMA PassTyped ==
    ASSUME NEW shapes, Given(shapes), Numbered(shapes), NEW g \in SUBSET Triple,
           NEW l, NEW now, NEW left, NEW got,
           PassAt(shapes, g, l, now, left, got), left # <<>>
    PROVE  now \in SUBSET Triple /\ Head(left).shape \in ToSet(shapes)
<1>1. Levels(shapes) # {}
  BY DEF PassAt
<1>2. PICK k \in Nat : Reaches(shapes, g, k, l, now, left, got)
  BY <1>1 DEF PassAt
<1> DEFINE lv == InOrder(shapes)
           after == AfterLevels(shapes, g)
<1>3. /\ k \in 1 .. Len(lv) /\ now = after[k - 1]
      /\ left \in Seq(Mine(shapes, l) \cup Later(shapes, l)) /\ InLine(left)
  BY <1>2 DEF Reaches
<1>4. Len(lv) \in Nat /\ \A i \in 0 .. Len(lv) : after[i] \in SUBSET Triple
  BY LevelLine, AfterLevelsAre
<1> HIDE DEF lv, after
<1>5. k - 1 \in 0 .. Len(lv)
  BY <1>3, <1>4
<1>6. Head(left) \in Mine(shapes, l) \cup Later(shapes, l)
  BY <1>3, HeadTaken
<1>7. PICK x \in Runnable(shapes) : Head(left) = Entry(x[1], x[2])
  BY <1>6 DEF Mine, Later, Due
<1>8. x[1] \in ToSet(shapes)
  BY DEF Runnable
<1>9. Head(left).shape = x[1]
  BY <1>7 DEF Entry
<1> QED BY <1>3, <1>4, <1>5, <1>8, <1>9

\* What an entry pushes can be counted.
LEMMA FiredFinite ==
    ASSUME NEW g \in SUBSET Triple, NEW e, ShapeOK(e.shape), IsFiniteSet(Active(e.shape))
    PROVE  IsFiniteSet(Fired(e, g))
<1> DEFINE at == Len(work)
           places == Active(e.shape)
           Marks == (places \X Terms) \X Triple
           f == [m \in Marks |-> <<at, m[1][1], m[1][2], m[2]>>]
           marked == {f[m] : m \in Marks}
<1>1. IsFiniteSet(places \X Terms)
  BY TermsAssumption, FS_Product
<1>2. IsFiniteSet(Marks)
  BY <1>1, TripleFinite, FS_Product
<1>3. IsFiniteSet(marked)
  <2>1. DOMAIN f = Marks /\ f = [m \in Marks |-> f[m]]
    OBVIOUS
  <2> HIDE DEF f, Marks
  <2> QED BY <1>2, <2>1, ImageIsFinite
<1>4. Fired(e, g) \subseteq marked
  <2> SUFFICES ASSUME NEW i \in Run(e), NEW n \in FiringNodes(e.shape, e.shape.rules[i], g),
                      NEW t \in Inferred(e.shape.rules[i], n, g)
               PROVE  <<at, i, n, t>> \in marked
    BY DEF Fired
  <2>1. i \in places /\ n \in Terms
    BY DEF Run, FiringNodes, Focus
  <2>2. t \in Triple
    BY <2>1, InferredTriples
  <2> HIDE DEF at, places
  <2> DEFINE m == <<<<i, n>>, t>>
  <2>3. m \in Marks /\ m[1][1] = i /\ m[1][2] = n /\ m[2] = t
    BY <2>1, <2>2
  <2> HIDE DEF m, Marks
  <2>4. f[m] = <<at, i, n, t>>
    BY <2>3
  <2> QED BY <2>3, <2>4
<1> HIDE DEF marked
<1> QED BY <1>3, <1>4, FS_Subset

\* What is pushed while a pass has entries left can be counted.
LEMMA NextFired ==
    ASSUME NEW shapes, Given(shapes), Numbered(shapes), NEW g \in SUBSET Triple,
           NEW l, NEW now, NEW left, NEW got,
           PassAt(shapes, g, l, now, left, got), left # <<>>
    PROVE  IsFiniteSet(Fired(Head(left), now))
<1>1. now \in SUBSET Triple /\ Head(left).shape \in ToSet(shapes)
  BY PassTyped
<1>2. ShapeOK(Head(left).shape) /\ IsFiniteSet(Active(Head(left).shape))
  BY <1>1, GivenFacts
<1> QED BY <1>1, <1>2, FiredFinite

\* What fits is within the limit once it is merged.
LEMMA MergedFits ==
    ASSUME Bounded, in.max \in Nat, Fits(current, pending)
    PROVE  /\ IsFiniteSet(Merged(current, pending))
           /\ \/ Merged(current, pending) = in.data
              \/ Cardinality(Merged(current, pending)) <= in.max
<1> DEFINE pushed == {x[4] : x \in pending}
           now == current \cup pushed
<1>1. Merged(current, pending) = now
  BY DEF Merged
<1>2. IsFiniteSet(pushed) /\ Cardinality(pushed) <= Cardinality(pending)
  <2> DEFINE f == [x \in pending |-> x[4]]
  <2>1. f \in [pending -> pushed] /\ \A y \in pushed : \E x \in pending : f[x] = y
    OBVIOUS
  <2> HIDE DEF f, pushed
  <2>2. f \in Surjection(pending, pushed)
    BY <2>1, Fun_IsSurj
  <2> QED BY <2>2, FS_Surjection DEF Bounded
<1>3. CASE pending = {}
  <2>1. now = current
    BY <1>3
  <2> QED BY <1>1, <2>1 DEF Bounded
<1>4. CASE pending # {}
  <2> HIDE DEF pushed
  <2>1. Cardinality(current) + Cardinality(pending) <= in.max
    BY <1>4 DEF Fits
  <2>2. IsFiniteSet(now) /\ Cardinality(now) <= Cardinality(current) + Cardinality(pushed)
    <3>1. /\ IsFiniteSet(current) /\ IsFiniteSet(pushed)
          /\ IsFiniteSet(current \cap pushed)
      BY <1>2, FS_Subset DEF Bounded
    <3>2. Cardinality(now) = Cardinality(current) + Cardinality(pushed)
                                 - Cardinality(current \cap pushed)
      BY <3>1, FS_Union
    <3>3. IsFiniteSet(now)
      BY <3>1, FS_Union
    <3>4. /\ Cardinality(current) \in Nat /\ Cardinality(pushed) \in Nat
          /\ Cardinality(current \cap pushed) \in Nat
      BY <3>1, FS_CardinalityType
    <3> QED BY <3>2, <3>3, <3>4
  <2>3. /\ Cardinality(current) \in Nat /\ Cardinality(pending) \in Nat
        /\ Cardinality(pushed) \in Nat /\ Cardinality(now) \in Nat
    BY <1>2, <2>2, FS_CardinalityType DEF Bounded
  <2> HIDE DEF now
  <2>4. Cardinality(now) <= in.max
    BY <1>2, <2>1, <2>2, <2>3
  <2> QED BY <1>1, <2>2, <2>4
<1> QED BY <1>3, <1>4

LEMMA InitInference == OrdersCompare /\ Init => Inference
<1> SUFFICES ASSUME OrdersCompare, Init PROVE Inference
  OBVIOUS
<1> DEFINE s == in.shapes
<1>1. Given(s) /\ Numbered(s) /\ before \in SUBSET Triple
  BY CallFacts DEF Init, OrdersCompare
<1>2. Pushed = {}
  BY DEF Init, Pushed
<1>3. level = FirstLevel(WorkList(s)) /\ work = WorkList(s) /\ current = before
  BY DEF Init
<1> HIDE DEF s
<1>4. PassAt(s, before, level, current, work, Pushed)
  BY <1>1, <1>2, <1>3, PassStarts
<1>5. in \in Inputs /\ (~in.iterated => before = in.data)
  BY DEF Init
<1>7. Bounded
  <2>1. current = in.data /\ pending = {}
    BY DEF Init
  <2>2. IsFiniteSet(current)
    BY <1>1, <1>3, TripleFinite, FS_Subset
  <2> QED BY <2>1, <2>2, FS_EmptySet DEF Bounded
<1>6. PassIsByLevel /\ BrokenIsHeard /\ FixpointReached
  <2>1. (status = "done" => in.iterated /\ in.rounds = 0) /\ current = in.data
    BY DEF Init
  <2>2. status # "broken"
    BY DEF Init
  <2>3. PassIsByLevel
    BY <2>1 DEF PassIsByLevel
  <2>4. BrokenIsHeard
    BY <2>1, <2>2 DEF BrokenIsHeard
  <2>5. FixpointReached
    BY <2>1 DEF FixpointReached
  <2> QED BY <2>3, <2>4, <2>5
<1> QED BY <1>1, <1>4, <1>5, <1>6, <1>7 DEF Inference, s

\* Every step of a call keeps it.
LEMMA NextInference == OrdersCompare /\ Inference /\ [Next]_vars => Inference'
<1> SUFFICES ASSUME OrdersCompare, Inference, [Next]_vars
             PROVE  Inference'
  OBVIOUS
<1> DEFINE s == in.shapes
<1>1. /\ in \in Inputs /\ before \in SUBSET Triple /\ (~in.iterated => before = in.data)
      /\ Bounded /\ PassIsByLevel /\ BrokenIsHeard /\ FixpointReached
  BY DEF Inference
<1>2. Given(s) /\ Numbered(s) /\ in.iterated \in BOOLEAN /\ in.max \in Nat
  BY <1>1, CallFacts DEF OrdersCompare
<1>3. status = "running" => PassAt(s, before, level, current, work, Pushed)
  BY DEF Inference
<1>4. ASSUME in' = in, before' = before, status = "running", status' = "running",
             PassAt(s, before, level', current', work', Pushed'), Bounded'
      PROVE  Inference'
  <2>1. PassIsByLevel' /\ BrokenIsHeard' /\ FixpointReached'
    BY <1>4 DEF PassIsByLevel, BrokenIsHeard, FixpointReached
  <2> QED BY <1>1, <1>4, <2>1 DEF Inference
<1>5. CASE Within
  <2>1. /\ status = "running" /\ work # <<>> /\ SameLevel(Head(work).level, level)
        /\ ~Breaks(Head(work), current)
        /\ pending' = pending \cup Fired(Head(work), current) /\ work' = Tail(work)
        /\ UNCHANGED <<in, before, current, level, status>>
    BY <1>5 DEF Within, Entering
  <2>2. Pushed' = Pushed \cup Out(Head(work), current)
    <3>1. Pushed' = {x[4] : x \in pending \cup Fired(Head(work), current)}
      BY <2>1 DEF Pushed
    <3> QED BY <3>1, MergedIs
  <2> HIDE DEF s
  <2>3. PassAt(s, before, level, current, Tail(work), Pushed \cup Out(Head(work), current))
    BY <1>1, <1>2, <1>3, <2>1, PassWithin
  <2>4. IsFiniteSet(Fired(Head(work), current))
    BY <1>1, <1>2, <1>3, <2>1, NextFired
  <2>5. Bounded'
    <3>1. IsFiniteSet(pending')
      BY <1>1, <2>1, <2>4, FS_Union DEF Bounded
    <3> QED BY <1>1, <2>1, <3>1 DEF Bounded
  <2> QED BY <1>4, <2>1, <2>2, <2>3, <2>5
<1>6. CASE Across
  <2> DEFINE now == Merged(current, pending)
             e == Head(work)
  <2>1. /\ status = "running" /\ work # <<>> /\ ~SameLevel(e.level, level)
        /\ Fits(current, pending) /\ current' = now /\ ~Breaks(e, now) /\ pending' = Fired(e, now)
        /\ level' = e.level /\ work' = Tail(work)
        /\ UNCHANGED <<in, before, status>>
    BY <1>6 DEF Across, Entering
  <2>2. now = current \cup Pushed
    BY MergedIs
  <2>8. IsFiniteSet(now) /\ (now = in.data \/ Cardinality(now) <= in.max)
    BY <1>1, <1>2, <2>1, MergedFits
  <2>3. Pushed' = Out(e, now)
    <3> HIDE DEF e, now
    <3>1. Pushed' = {x[4] : x \in Fired(e, now)}
      BY <2>1 DEF Pushed
    <3> QED BY <3>1, MergedIs
  <2> HIDE DEF s, now
  <2>4. PassAt(s, before, e.level, now, work, {})
    BY <1>1, <1>2, <1>3, <2>1, <2>2, PassAcross
  <2>5. SameLevel(e.level, e.level)
    <3>1. Levels(s) # {}
      BY <2>1, <2>4 DEF PassAt
    <3>2. PICK k \in Nat : Reaches(s, before, k, e.level, now, work, {})
      BY <2>4, <3>1 DEF PassAt
    <3>3. k \in 1 .. Len(InOrder(s)) /\ e.level = InOrder(s)[k]
      BY <3>2 DEF Reaches
    <3>4. e.level \in Level
      BY <1>2, <3>3, LevelLine
    <3> QED BY <3>4, LevelsCompare
  <2>6. PassAt(s, before, e.level, now, Tail(work), {} \cup Out(e, now))
    BY <1>1, <1>2, <2>1, <2>4, <2>5, PassWithin
  <2>7. {} \cup Out(e, now) = Pushed'
    BY <2>3
  <2>9. IsFiniteSet(Fired(e, now))
    BY <1>1, <1>2, <2>1, <2>4, NextFired
  <2>10. Bounded'
    BY <2>1, <2>8, <2>9 DEF Bounded
  <2> QED BY <1>4, <2>1, <2>6, <2>7, <2>10
<1>7. ASSUME in' = in, before' = before, status = "running", status' # "running",
             Bounded', PassIsByLevel', BrokenIsHeard', FixpointReached'
      PROVE  Inference'
  BY <1>1, <1>7 DEF Inference
<1>8. CASE Break
  <2> DEFINE e == Head(work)
             opens == ~SameLevel(e.level, level)
             seen == IF opens THEN Merged(current, pending) ELSE current
  <2>1. /\ status = "running" /\ work # <<>> /\ Breaks(e, seen) /\ status' = "broken"
        /\ UNCHANGED <<in, before, current, pending>>
    BY <1>8 DEF Break, Entering
  <2>2. WouldBreak(s, before)
    <3>1. CASE opens
      <4>1. seen = current \cup Pushed
        BY <3>1, MergedIs
      <4> HIDE DEF s, seen, e
      <4>2. PassAt(s, before, e.level, seen, work, {})
        BY <1>1, <1>2, <1>3, <2>1, <3>1, <4>1, PassAcross DEF e
      <4>3. SameLevel(e.level, e.level)
        <5>1. Levels(s) # {}
          BY <2>1, <4>2 DEF PassAt
        <5>2. PICK k \in Nat : Reaches(s, before, k, e.level, seen, work, {})
          BY <4>2, <5>1 DEF PassAt
        <5>3. k \in 1 .. Len(InOrder(s)) /\ e.level = InOrder(s)[k]
          BY <5>2 DEF Reaches
        <5>4. e.level \in Level
          BY <1>2, <5>3, LevelLine
        <5> QED BY <5>4, LevelsCompare
      <4> QED BY <1>1, <1>2, <2>1, <4>2, <4>3, PassWithin DEF e
    <3>2. CASE ~opens
      <4>1. seen = current
        BY <3>2
      <4> HIDE DEF s, seen
      <4> QED BY <1>1, <1>2, <1>3, <2>1, <3>2, <4>1, PassWithin
    <3> QED BY <3>1, <3>2
  <2>3. PassIsByLevel' /\ FixpointReached'
    BY <2>1 DEF PassIsByLevel, FixpointReached
  <2>4. BrokenIsHeard'
    <3>1. ~in.iterated => WouldBreak(in.shapes, in.data)
      BY <1>1, <2>2
    <3> QED BY <2>1, <3>1 DEF BrokenIsHeard
  <2>5. Bounded'
    BY <1>1, <2>1 DEF Bounded
  <2> QED BY <1>7, <2>1, <2>3, <2>4, <2>5
<1>9. CASE Refuse
  <2>1. /\ status = "running" /\ status' = "refused"
        /\ UNCHANGED <<in, before, current, pending>>
    BY <1>9 DEF Refuse
  <2>3. Bounded'
    BY <1>1, <2>1 DEF Bounded
  <2>2. PassIsByLevel' /\ BrokenIsHeard' /\ FixpointReached'
    BY <2>1 DEF PassIsByLevel, BrokenIsHeard, FixpointReached
  <2> QED BY <1>7, <2>1, <2>2, <2>3
<1>10. ASSUME PassEnds
       PROVE  /\ status = "running"
              /\ Merged(current, pending) = ByLevel(s, before)
              /\ Merged(current, pending) \in SUBSET Triple
              /\ before \subseteq Merged(current, pending)
              /\ ~WouldBreak(s, before)
              /\ IsFiniteSet(Merged(current, pending))
              /\ \/ Merged(current, pending) = in.data
                 \/ Cardinality(Merged(current, pending)) <= in.max
  <2>1. status = "running" /\ work = <<>> /\ Fits(current, pending)
    BY <1>10 DEF PassEnds
  <2> HIDE DEF s
  <2>2. PassAt(s, before, level, current, <<>>, Pushed)
    BY <1>3, <2>1
  <2>3. current \cup Pushed = ByLevel(s, before) /\ ~WouldBreak(s, before)
    BY <1>1, <1>2, <2>2, PassDone
  <2>4. Merged(current, pending) = current \cup Pushed
    BY MergedIs
  <2>5. ByLevel(s, before) \in SUBSET Triple /\ before \subseteq ByLevel(s, before)
    BY <1>1, <1>2, PassGrows
  <2>6. /\ IsFiniteSet(Merged(current, pending))
        /\ \/ Merged(current, pending) = in.data
           \/ Cardinality(Merged(current, pending)) <= in.max
    BY <1>1, <1>2, <2>1, MergedFits
  <2> QED BY <2>1, <2>3, <2>4, <2>5, <2>6
<1>11. CASE Finish
  <2> DEFINE now == Merged(current, pending)
  <2>1. /\ PassEnds /\ current' = now /\ pending' = {} /\ status' = "done"
        /\ UNCHANGED <<in, before>>
        /\ in.iterated => Cardinality(now) = Cardinality(before)
    BY <1>11 DEF Finish
  <2>2. /\ status = "running" /\ now = ByLevel(s, before) /\ now \in SUBSET Triple
        /\ before \subseteq now /\ ~WouldBreak(s, before)
        /\ IsFiniteSet(now) /\ (now = in.data \/ Cardinality(now) <= in.max)
    BY <1>10, <2>1
  <2> HIDE DEF now
  <2>3. in.iterated => now = before
    <3>1. IsFiniteSet(now)
      BY <2>2, TripleFinite, FS_Subset
    <3> QED BY <2>1, <2>2, <3>1, FS_Subset
  <2>4. PassIsByLevel'
    BY <1>1, <2>1, <2>2 DEF PassIsByLevel
  <2>5. BrokenIsHeard'
    BY <1>1, <2>1, <2>2 DEF BrokenIsHeard
  <2>6. FixpointReached'
    BY <2>1, <2>2, <2>3 DEF FixpointReached
  <2>7. Bounded'
    BY <2>1, <2>2, FS_EmptySet DEF Bounded
  <2> QED BY <1>7, <2>1, <2>2, <2>4, <2>5, <2>6, <2>7
<1>12. CASE Repeat
  <2> DEFINE now == Merged(current, pending)
  <2>1. /\ PassEnds /\ in.iterated /\ current' = now /\ before' = now /\ pending' = {}
        /\ work' = WorkList(s) /\ level' = FirstLevel(WorkList(s)) /\ in' = in
        /\ status' \in {"endless", "running"}
    BY <1>12 DEF Repeat
  <2>2. /\ now \in SUBSET Triple /\ IsFiniteSet(now)
        /\ now = in.data \/ Cardinality(now) <= in.max
    BY <1>10, <2>1
  <2>7. Bounded'
    BY <2>1, <2>2, FS_EmptySet DEF Bounded
  <2>3. Pushed' = {}
    BY <2>1 DEF Pushed
  <2> HIDE DEF s, now
  <2>4. PassAt(s, now, FirstLevel(WorkList(s)), now, WorkList(s), {})
    BY <1>2, <2>2, PassStarts
  <2>5. PassAt(s, before, level, current, work, Pushed)'
    <3>1. s' = s
      BY <2>1 DEF s
    <3> QED BY <2>1, <2>3, <2>4, <3>1
  <2>6. PassIsByLevel' /\ BrokenIsHeard' /\ FixpointReached'
    BY <2>1 DEF PassIsByLevel, BrokenIsHeard, FixpointReached
  <2>8. in \in Inputs /\ in' = in /\ in.iterated /\ before' \in SUBSET Triple
    BY <1>1, <2>1, <2>2
  <2> QED BY <2>5, <2>6, <2>7, <2>8 DEF Inference, s
<1>13. CASE UNCHANGED vars
  <2>1. Pushed' = Pushed
    BY <1>13 DEF vars, Pushed
  <2>2. UNCHANGED <<in, before, current, work, level, status>>
    BY <1>13 DEF vars
  <2>3. PassIsByLevel' /\ BrokenIsHeard' /\ FixpointReached'
    BY <1>1, <2>2 DEF PassIsByLevel, BrokenIsHeard, FixpointReached
  <2>4. Bounded'
    BY <1>1, <1>13 DEF Bounded, vars
  <2> QED BY <1>1, <1>3, <2>1, <2>2, <2>3, <2>4 DEF Inference
<1> QED BY <1>5, <1>6, <1>8, <1>9, <1>11, <1>12, <1>13 DEF Next

\* A call under way is where its pass is, and one that has ended keeps its
\* promises.
THEOREM InferenceInductive == OrdersCompare /\ Spec => []Inference
<1>1. ASSUME OrdersCompare PROVE Spec => []Inference
  <2>1. Init => Inference
    BY <1>1, InitInference
  <2>2. Inference /\ [Next]_vars => Inference'
    BY <1>1, NextInference
  <2> QED BY <2>1, <2>2, PTL DEF Spec
<1> QED BY <1>1

\* `apply` returns what the levels infer one after the other, whatever the order
\* of shapes and rules, of any rules whose orders compare; and what is returned
\* is within the limit, unless nothing was inferred.
THEOREM ByLevels == OrdersCompare /\ Spec => []PassIsByLevel
<1>1. Inference => PassIsByLevel
  BY DEF Inference
<1> QED BY <1>1, InferenceInductive, PTL

\* `apply` fails when a target, a condition, an expression or a rule that cannot
\* be run comes up at its level, and only then.
THEOREM BrokenHeard == OrdersCompare /\ Spec => []BrokenIsHeard
<1>1. Inference => BrokenIsHeard
  BY DEF Inference
<1> QED BY <1>1, InferenceInductive, PTL

\* What `apply_iterated` returns, another pass would leave alone.
THEOREM Fixpoint == OrdersCompare /\ Spec => []FixpointReached
<1>1. Inference => FixpointReached
  BY DEF Inference
<1> QED BY <1>1, InferenceInductive, PTL
=============================================================================
