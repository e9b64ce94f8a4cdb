------------------------- MODULE SeparabilityProofs -------------------------
(***************************************************************************)
(* Theorems about the shapes compiler, for every finite shapes graph and   *)
(* every answer of its parsers, and about the cycle search that follows.   *)
(* What is read of a node lists what the graph says, each once (ReadRight).*)
(* The compiler's own state keeps one number to a node (Numbering); what   *)
(* is numbered is pending, once, or compiled, and then it refers to        *)
(* numbered nodes (Worklist); nothing is numbered that cannot be           *)
(* discovered (NoneBeyond).  Phases says what each stage may rely on.      *)
(* When the worklist is empty the arena is closed under reference, and the *)
(* search runs on it.                                                      *)
(*                                                                         *)
(* The search is right on every arena.  The grey shapes are the stack, a   *)
(* path along which each shape refers to the next; the black ones are      *)
(* closed under reference, and none of them reaches itself.  A grey child  *)
(* closes a cycle through the path; a shape that is blackened has only     *)
(* black children, and so cannot reach itself.                             *)
(***************************************************************************)
EXTENDS Separability, SequenceFacts

\* The graph at hand is finite, and its terms are numbers.
GraphTyped ==
    /\ IsFiniteSet(g.triples)
    /\ \A t \in g.triples : t[1] \in Nat /\ t[3] \in Nat

-----------------------------------------------------------------------------
(* Reading. *)

\* A finite set of numbers in ascending order: all of them, none twice.
LEMMA AscendingOrder ==
    ASSUME NEW S \in SUBSET Nat, IsFiniteSet(S)
    PROVE  /\ Ascending(S) \in Seq(S) /\ Len(Ascending(S)) = Cardinality(S)
           /\ DOMAIN Ascending(S) = 1 .. Cardinality(S) /\ Cardinality(S) \in Nat
           /\ ToSet(Ascending(S)) = S
           /\ \A i, j \in DOMAIN Ascending(S) : Ascending(S)[i] = Ascending(S)[j] => i = j
           /\ \A i, j \in DOMAIN Ascending(S) : i < j => Ascending(S)[i] < Ascending(S)[j]
<1> DEFINE before == [x \in S |-> {y \in S : y < x}]
           seq == Ascending(S)
<1>1. TotalOrder(S, before)
  <2>1. \A x \in S : x \in Nat /\ before[x] = {y \in S : y < x}
    OBVIOUS
  <2>2. before \in [S -> SUBSET S]
    OBVIOUS
  <2>3. \A x, y \in S : x \in before[y] <=> x < y
    BY <2>1
  <2> HIDE DEF before
  <2>0. \A x, y, z \in S : ~(x < x) /\ (x < y /\ y < z => x < z)
                           /\ (x = y \/ x < y \/ y < x)
    OBVIOUS
  <2>4. \A x \in S : x \notin before[x]
    BY <2>0, <2>3
  <2>5. ASSUME NEW x \in S, NEW y \in S, x \in before[y]
        PROVE  before[x] \subseteq before[y]
    BY <2>0, <2>1, <2>5
  <2>6. \A x, y \in S : x = y \/ x \in before[y] \/ y \in before[x]
    BY <2>0, <2>3
  <2> QED BY <2>2, <2>4, <2>5, <2>6 DEF TotalOrder
<1>2. PlacedBy(seq, S, before)
  <2>1. \A x \in S : before[x] = {y \in S : y < x}
    OBVIOUS
  <2> DEFINE pick(i) == CHOOSE z \in S : Cardinality({y \in S : y < z}) = i - 1
  <2>4. seq = [i \in 1 .. Cardinality(S) |-> pick(i)]
    BY DEF Ascending
  <2> HIDE DEF before, seq, pick
  <2>2. seq = [i \in 1 .. Cardinality(S) |-> seq[i]]
    BY <2>4
  <2>3. ASSUME NEW i \in 1 .. Cardinality(S), NEW x \in S, Cardinality(before[x]) = i - 1
        PROVE  seq[i] \in S /\ Cardinality(before[seq[i]]) = i - 1
    <3> DEFINE P(z) == z \in S /\ Cardinality({y \in S : y < z}) = i - 1
    <3>1. P(x)
      BY <2>1, <2>3
    <3>2. seq[i] = CHOOSE z \in S : P(z)
      BY <2>4 DEF pick
    <3>3. P(seq[i])
      BY <3>1, <3>2
    <3> QED BY <2>1, <3>3
  <2> QED BY <2>2, <2>3 DEF PlacedBy
<1>3. \A x, y \in S : x \in before[y] => x < y
  OBVIOUS
<1> HIDE DEF before, seq
<1>4. Lists(seq, S, before)
  BY <1>1, <1>2, Enumeration
<1>5. \A i, j \in DOMAIN seq : i < j => seq[i] < seq[j]
  <2>1. \A i \in DOMAIN seq : seq[i] \in S
    BY <1>4, MembersOfSeq DEF Lists
  <2> QED BY <1>3, <1>4, <2>1 DEF Lists
<1> QED BY <1>4, <1>5, FS_CardinalityType DEF seq, Lists

\* What the lookups find are numbers, finitely many.
LEMMA LookupsTyped ==
    ASSUME GraphTyped
    PROVE  /\ \A s, p : ObjectSet(s, p) \in SUBSET Nat /\ IsFiniteSet(ObjectSet(s, p))
           /\ \A s, p : Object(s, p) \in SUBSET ObjectSet(s, p) /\ IsFiniteSet(Object(s, p))
           /\ \A p, o : SubjectSet(p, o) \in SUBSET Nat /\ IsFiniteSet(SubjectSet(p, o))
           /\ \A p : SubjectsOf(p) \in SUBSET Nat /\ IsFiniteSet(SubjectsOf(p))
<1> DEFINE Of(c) == [t \in g.triples |-> t[c]]
           All(c) == {Of(c)[t] : t \in g.triples}
<1>1. IsFiniteSet(All(1)) /\ IsFiniteSet(All(3))
  <2>1. \A c : /\ DOMAIN Of(c) = g.triples
               /\ Of(c) = [t \in g.triples |-> Of(c)[t]]
    OBVIOUS
  <2> HIDE DEF Of
  <2> QED BY <2>1, ImageIsFinite DEF GraphTyped
<1>2. All(1) \in SUBSET Nat /\ All(3) \in SUBSET Nat
  BY DEF GraphTyped
<1>3. /\ \A s, p : ObjectSet(s, p) \in SUBSET All(3)
      /\ \A s, p : Object(s, p) \in SUBSET ObjectSet(s, p)
      /\ \A p, o : SubjectSet(p, o) \in SUBSET All(1)
      /\ \A p : SubjectsOf(p) \in SUBSET All(1)
  BY DEF ObjectSet, Object, Least, SubjectSet, SubjectsOf
<1> HIDE DEF All
<1>4. \A s, p : IsFiniteSet(ObjectSet(s, p))
  BY <1>1, <1>3, FS_Subset
<1> QED BY <1>1, <1>2, <1>3, <1>4, FS_Subset

\* The function that collects a list exists, and what it collects are
\* sequences of terms.
LEMMA ListsTyped ==
    ASSUME GraphTyped, NEW head \in Nat
    PROVE  List(head) \subseteq Seq(Nat)
<1> DEFINE most == Cardinality(g.triples) + 1
           Step(below, n) == [at \in Nat |->
               IF n = 0 THEN {}
               ELSE IF at = Vocab.nil THEN {<<>>}
               ELSE {<<cell[1]>> \o cell[2] :
                        cell \in Object(at, "first")
                                   \X UNION {below[r] : r \in Object(at, "rest")}}]
           Is(f, m) == f = [n \in 0 .. m |-> Step(f[n - 1], n)]
           Some(m) == \E f : Is(f, m)
<1>1. most \in Nat
  BY FS_CardinalityType DEF GraphTyped
<1> HIDE DEF most, Step
<1>2. Some(most)
  <2> DEFINE Bad == {m \in Nat : ~Some(m)}
  <2> HIDE DEF Some
  <2>1. SUFFICES ASSUME NEW m \in Bad, \A k \in Bad : m <= k
                 PROVE  FALSE
    <3>1. Bad \in SUBSET Nat
      OBVIOUS
    <3>2. SUFFICES Bad = {}
      BY <1>1
    <3> HIDE DEF Bad
    <3> QED BY <2>1, <3>1, LeastNumber
  <2>2. m \in Nat /\ ~Some(m)
    OBVIOUS
  <2>3. CASE m = 0
    <3> DEFINE h == [n \in 0 .. 0 |-> Step([x \in {} |-> x], n)]
    <3>1. \A n \in 0 .. 0 : Step(h[n - 1], n) = Step([x \in {} |-> x], n)
      BY DEF Step
    <3>2. Is(h, 0)
      BY <3>1
    <3> QED BY <2>2, <2>3, <3>2 DEF Some
  <2>4. CASE m > 0
    <3>1. m - 1 \in Nat /\ ~(m <= m - 1)
      BY <2>2, <2>4
    <3>2. Some(m - 1)
      BY <2>1, <3>1
    <3>3. PICK f : Is(f, m - 1)
      BY <3>2 DEF Some
    <3> DEFINE h == [n \in 0 .. m |-> IF n = m THEN Step(f[m - 1], m) ELSE f[n]]
    <3>4. ASSUME NEW n \in 0 .. m
          PROVE  h[n] = Step(h[n - 1], n)
      <4>1. CASE n = 0
        <5>1. \A x, y : Step(x, 0) = Step(y, 0)
          BY DEF Step
        <5>2. 0 \in 0 .. (m - 1) /\ 0 # m
          BY <2>2, <2>4
        <5>3. h[0] = f[0] /\ f[0] = Step(f[0 - 1], 0)
          BY <3>3, <5>2
        <5> QED BY <4>1, <5>1, <5>3
      <4>2. CASE n # 0
        <5>1. n - 1 \in 0 .. m /\ n - 1 # m
          BY <2>2, <4>2
        <5>2. h[n - 1] = f[n - 1]
          BY <5>1
        <5>3. CASE n = m
          BY <5>2, <5>3
        <5>4. CASE n # m
          <6>1. n \in 0 .. (m - 1)
            BY <2>2, <5>4
          <6>2. f[n] = Step(f[n - 1], n)
            BY <3>3, <6>1
          <6> QED BY <5>2, <5>4, <6>2
        <5> QED BY <5>3, <5>4
      <4> QED BY <4>1, <4>2
    <3>5. Is(h, m)
      <4>1. h = [n \in 0 .. m |-> h[n]]
        OBVIOUS
      <4> HIDE DEF h
      <4> QED BY <3>4, <4>1
    <3> QED BY <2>2, <3>5 DEF Some
  <2> QED BY <2>2, <2>3, <2>4
<1> DEFINE from == CHOOSE f : Is(f, most)
<1>3. Is(from, most)
  <2> HIDE DEF Is
  <2> QED BY <1>2
<1>4. List(head) = from[most][head]
  BY DEF List, Step, most
<1> HIDE DEF from
<1> DEFINE Typed(n) == \A at \in Nat : from[n][at] \subseteq Seq(Nat)
           Bad == {n \in 0 .. most : ~Typed(n)}
<1> HIDE DEF Typed
<1>5. ASSUME NEW m \in Bad, \A k \in Bad : m <= k
      PROVE  FALSE
  <2>1. m \in 0 .. most /\ ~Typed(m)
    OBVIOUS
  <2>2. from[m] = Step(from[m - 1], m)
    BY <1>3, <2>1
  <2>3. m = 0 \/ Typed(m - 1)
    <3>1. m = 0 \/ (m - 1 \in 0 .. most /\ ~(m <= m - 1))
      BY <1>1, <2>1
    <3> QED BY <1>5, <3>1
  <2>4. ASSUME NEW at \in Nat, NEW l \in from[m][at]
        PROVE  l \in Seq(Nat)
    <3>1. CASE m = 0
      BY <2>2, <2>4, <3>1 DEF Step
    <3>2. CASE m # 0 /\ at = Vocab.nil
      <4>1. from[m][at] = {<<>>}
        BY <2>2, <3>2 DEF Step
      <4> QED BY <2>4, <4>1, EmptySeq
    <3>3. CASE m # 0 /\ at # Vocab.nil
      <4> DEFINE Tails == UNION {from[m - 1][r] : r \in Object(at, "rest")}
      <4>1. from[m][at] = {<<cell[1]>> \o cell[2] : cell \in Object(at, "first") \X Tails}
        BY <2>2, <3>3 DEF Step
      <4> HIDE DEF Tails
      <4>2. PICK cell \in Object(at, "first") \X Tails : l = <<cell[1]>> \o cell[2]
        BY <2>4, <4>1
      <4>3. Object(at, "first") \subseteq Nat /\ Object(at, "rest") \subseteq Nat
        BY LookupsTyped, Zenon
      <4>4. cell[1] \in Nat /\ cell[2] \in Seq(Nat)
        BY <2>3, <3>3, <4>2, <4>3 DEF Typed, Tails
      <4>5. <<cell[1]>> \in Seq(Nat)
        BY <4>4
      <4> QED BY <4>2, <4>4, <4>5, ConcatProperties
    <3> QED BY <3>1, <3>2, <3>3
  <2> QED BY <2>1, <2>4 DEF Typed
<1>6. Bad = {}
  <2>1. Bad \in SUBSET Nat
    BY <1>1
  <2> HIDE DEF Bad
  <2> QED BY <1>5, <2>1, LeastNumber
<1>7. Typed(most)
  BY <1>1, <1>6
<1> QED BY <1>4, <1>7 DEF Typed

\* The members of a list are a sequence of terms.
LEMMA MembersTyped ==
    ASSUME GraphTyped
    PROVE  \A head \in Nat : Members(head) \in Seq(Nat)
<1> SUFFICES ASSUME NEW head \in Nat PROVE Members(head) \in Seq(Nat)
  OBVIOUS
<1>1. List(head) \subseteq Seq(Nat)
  BY ListsTyped
<1>2. CASE List(head) = {}
  BY <1>2, EmptySeq DEF Members, IsList
<1>3. CASE List(head) # {}
  BY <1>1, <1>3 DEF Members, IsList
<1> QED BY <1>2, <1>3

\* What Objects gives: the objects, as a sequence.
LEMMA ObjectsTyped ==
    ASSUME GraphTyped, NEW s, NEW p
    PROVE  Objects(s, p) \in Seq(Nat) /\ ToSet(Objects(s, p)) = ObjectSet(s, p)
<1> DEFINE S == ObjectSet(s, p)
<1>1. S \in SUBSET Nat /\ IsFiniteSet(S)
  BY LookupsTyped
<1> HIDE DEF S
<1>2. Ascending(S) \in Seq(S) /\ ToSet(Ascending(S)) = S
  BY <1>1, AscendingOrder
<1>3. Ascending(S) \in Seq(Nat)
  BY <1>1, <1>2, SeqMonotonic
<1> QED BY <1>2, <1>3 DEF Objects, S

\* A part of the objects is such a sequence as well.
LEMMA PartOfObjects ==
    ASSUME GraphTyped, NEW s, NEW p, NEW T \in SUBSET ObjectSet(s, p)
    PROVE  Ascending(T) \in Seq(Nat) /\ ToSet(Ascending(T)) = T
<1>1. ObjectSet(s, p) \in SUBSET Nat /\ IsFiniteSet(ObjectSet(s, p))
  BY LookupsTyped
<1>2. T \in SUBSET Nat /\ IsFiniteSet(T)
  BY <1>1, FS_Subset
<1>3. Ascending(T) \in Seq(T) /\ ToSet(Ascending(T)) = T
  BY <1>2, AscendingOrder
<1> QED BY <1>2, <1>3, SeqMonotonic

\* The qualified shapes of the other properties of every parent.
LEMMA SiblingsTyped ==
    ASSUME GraphTyped, NEW node
    PROVE  /\ Siblings(node) \in Seq(Nat)
           /\ ToSet(Siblings(node)) =
                UNION {ObjectSet(s, "qualifiedValueShape") :
                    s \in (UNION {ObjectSet(p, "property") : p \in SubjectSet("property", node)})
                            \ {node}}
<1> DEFINE others(parent) == Ascending(ObjectSet(parent, "property") \ {node})
           qualified == [s \in Nat |-> Objects(s, "qualifiedValueShape")]
           of == [parent \in Nat |-> Each(qualified, others(parent))]
           parents == Ascending(SubjectSet("property", node))
<1>1. \A parent : /\ others(parent) \in Seq(Nat)
                  /\ ToSet(others(parent)) = ObjectSet(parent, "property") \ {node}
  <2> TAKE parent
  <2> DEFINE T == ObjectSet(parent, "property") \ {node}
  <2>1. T \in SUBSET ObjectSet(parent, "property")
    OBVIOUS
  <2> HIDE DEF T
  <2>2. Ascending(T) \in Seq(Nat) /\ ToSet(Ascending(T)) = T
    BY <2>1, PartOfObjects
  <2> QED BY <2>2 DEF T
<1>2. qualified \in [Nat -> Seq(Nat)]
  BY ObjectsTyped
<1> HIDE DEF others
<1>3. \A parent : /\ Each(qualified, others(parent)) \in Seq(Nat)
                  /\ ToSet(Each(qualified, others(parent))) =
                       Held(qualified, ToSet(others(parent)))
  <2> HIDE DEF qualified
  <2> QED BY <1>1, <1>2, EachMembers
<1>4. of \in [Nat -> Seq(Nat)]
  BY <1>3
<1>5. /\ parents \in Seq(Nat)
      /\ ToSet(parents) = SubjectSet("property", node)
  <2> DEFINE T == SubjectSet("property", node)
  <2>1. T \in SUBSET Nat /\ IsFiniteSet(T)
    BY LookupsTyped
  <2> HIDE DEF T
  <2>2. Ascending(T) \in Seq(T) /\ ToSet(Ascending(T)) = T
    BY <2>1, AscendingOrder
  <2>3. Ascending(T) \in Seq(Nat)
    BY <2>1, <2>2, SeqMonotonic
  <2> QED BY <2>2, <2>3 DEF T
<1>6. Each(of, parents) \in Seq(Nat) /\ ToSet(Each(of, parents)) = Held(of, ToSet(parents))
  <2> HIDE DEF of, parents
  <2> QED BY <1>4, <1>5, EachMembers
<1>7. Siblings(node) = Each(of, parents)
  <2>1. \A i \in DOMAIN parents : parents[i] \in Nat
    BY <1>5, MembersOfSeq
  <2>2. \A parent : \A i \in DOMAIN others(parent) : others(parent)[i] \in Nat
    BY <1>1, MembersOfSeq
  <2> DEFINE beside(parent) ==
               [i \in DOMAIN others(parent) |-> Objects(others(parent)[i], "qualifiedValueShape")]
  <2>3. \A parent : Each(qualified, others(parent)) = FlattenSeq(beside(parent))
    <3>1. \A parent : [i \in DOMAIN others(parent) |-> qualified[others(parent)[i]]]
                        = beside(parent)
      BY <2>2
    <3> QED BY <3>1 DEF Each
  <2> HIDE DEF beside
  <2>4. [i \in DOMAIN parents |-> of[parents[i]]]
          = [i \in DOMAIN parents |-> FlattenSeq(beside(parents[i]))]
    <3> HIDE DEF parents, qualified
    <3> QED BY <2>1, <2>3
  <2>5. Each(of, parents) = FlattenSeq([i \in DOMAIN parents |-> FlattenSeq(beside(parents[i]))])
    <3> HIDE DEF parents, of
    <3> QED BY <2>4 DEF Each
  <2> QED BY <2>5 DEF Siblings, EachOf, others, beside
<1>8. \A parent \in Nat :
         ToSet(of[parent]) = UNION {ObjectSet(s, "qualifiedValueShape") :
                                      s \in ObjectSet(parent, "property") \ {node}}
  <2> SUFFICES ASSUME NEW parent \in Nat
               PROVE  ToSet(of[parent]) = UNION {ObjectSet(s, "qualifiedValueShape") :
                                      s \in ObjectSet(parent, "property") \ {node}}
    OBVIOUS
  <2>1. ToSet(of[parent]) = Held(qualified, ToSet(others(parent)))
    BY <1>3
  <2>2. \A s \in Nat : ToSet(qualified[s]) = ObjectSet(s, "qualifiedValueShape")
    BY ObjectsTyped
  <2>3. ToSet(others(parent)) \subseteq Nat
    BY <1>1, MembersOfSeq
  <2> HIDE DEF qualified, of
  <2> QED BY <1>1, <2>1, <2>2, <2>3 DEF Held
<1>9. ToSet(parents) \subseteq Nat
  BY <1>5, MembersOfSeq
<1> DEFINE beside ==
             (UNION {ObjectSet(p, "property") : p \in SubjectSet("property", node)}) \ {node}
<1>10. Held(of, ToSet(parents)) \subseteq UNION {ObjectSet(s, "qualifiedValueShape") : s \in beside}
  <2> HIDE DEF of, parents
  <2> SUFFICES ASSUME NEW parent \in ToSet(parents), NEW x \in ToSet(of[parent])
               PROVE  x \in UNION {ObjectSet(s, "qualifiedValueShape") : s \in beside}
    BY DEF Held
  <2>1. PICK s \in ObjectSet(parent, "property") \ {node} : x \in ObjectSet(s, "qualifiedValueShape")
    BY <1>8, <1>9
  <2>2. s \in beside
    BY <1>5, <2>1
  <2> QED BY <2>1, <2>2
<1>11. UNION {ObjectSet(s, "qualifiedValueShape") : s \in beside} \subseteq Held(of, ToSet(parents))
  <2> HIDE DEF of, parents
  <2> SUFFICES ASSUME NEW s \in beside, NEW x \in ObjectSet(s, "qualifiedValueShape")
               PROVE  x \in Held(of, ToSet(parents))
    OBVIOUS
  <2>1. PICK parent \in ToSet(parents) : s \in ObjectSet(parent, "property") \ {node}
    BY <1>5
  <2>2. x \in ToSet(of[parent])
    BY <1>8, <1>9, <2>1
  <2> QED BY <2>1, <2>2 DEF Held
<1> HIDE DEF of, parents
<1> QED BY <1>6, <1>7, <1>10, <1>11

\* The parameters that make a node refer to others, and how they are read.
SingleForms == {"shape", "qualified", "reifier"}

\* Which parameters those are.
LEMMA ParametersRead ==
    /\ Parameters \in Seq(ToSet(Parameters))
    /\ \A q \in ToSet(Parameters) :
          /\ q.form \in SingleForms => q.p \in SingleRefs
          /\ q.form = "shapes" => q.p \in ListRefs
          /\ q.form = "qualified" => q.p = "qualifiedValueShape"
    /\ \A p \in SingleRefs : \E q \in ToSet(Parameters) :
          /\ q.p = p /\ q.form \in SingleForms
          /\ p = "qualifiedValueShape" => q.form = "qualified"
    /\ \A p \in ListRefs : \E q \in ToSet(Parameters) : q.p = p /\ q.form = "shapes"
<1> DEFINE Param == ToSet(ValueParameters) \cup ToSet(ShapeParameters) \cup ToSet(LaterParameters)
           Good(q) == /\ q.form \in SingleForms => q.p \in SingleRefs
                      /\ q.form = "shapes" => q.p \in ListRefs
                      /\ q.form = "qualified" => q.p = "qualifiedValueShape"
<1>1. /\ ValueParameters \in Seq(Param)
      /\ ShapeParameters \in Seq(Param)
      /\ LaterParameters \in Seq(Param)
  <2>1. /\ ValueParameters = [i \in 1 .. 18 |-> ValueParameters[i]]
        /\ ShapeParameters = [i \in 1 .. 10 |-> ShapeParameters[i]]
        /\ LaterParameters = [i \in 1 .. 13 |-> LaterParameters[i]]
    BY DEF ValueParameters, ShapeParameters, LaterParameters
  <2>2. /\ \A i \in 1 .. 18 : ValueParameters[i] \in Param
        /\ \A i \in 1 .. 10 : ShapeParameters[i] \in Param
        /\ \A i \in 1 .. 13 : LaterParameters[i] \in Param
    BY <2>1 DEF ToSet
  <2> HIDE DEF Param
  <2>4. /\ ValueParameters \in [1 .. 18 -> Param]
        /\ ShapeParameters \in [1 .. 10 -> Param]
        /\ LaterParameters \in [1 .. 13 -> Param]
    BY <2>1, <2>2
  <2> QED BY <2>4, FunctionIsSeq
<1>2. \A i \in 1 .. 18 : Good(ValueParameters[i])
  BY DEF ValueParameters, SingleForms
<1>3. \A i \in 1 .. 10 : Good(ShapeParameters[i])
  BY DEF ShapeParameters, SingleForms, SingleRefs, ListRefs
<1>4. \A i \in 1 .. 13 : Good(LaterParameters[i])
  BY DEF LaterParameters, SingleForms, SingleRefs, ListRefs
<1>5. /\ DOMAIN ValueParameters = 1 .. 18
      /\ DOMAIN ShapeParameters = 1 .. 10
      /\ DOMAIN LaterParameters = 1 .. 13
  BY DEF ValueParameters, ShapeParameters, LaterParameters
<1>6. /\ ToSet(Parameters) =
           ToSet(ValueParameters) \cup ToSet(ShapeParameters) \cup ToSet(LaterParameters)
      /\ Parameters \in Seq(Param)
  <2> HIDE DEF Param
  <2> DEFINE both == ValueParameters \o ShapeParameters
  <2>1. both \in Seq(Param) /\ ToSet(both) = ToSet(ValueParameters) \cup ToSet(ShapeParameters)
    BY <1>1, MembersOfBoth
  <2>2. Parameters = both \o LaterParameters
    BY DEF Parameters
  <2> HIDE DEF both
  <2>3. /\ both \o LaterParameters \in Seq(Param)
        /\ ToSet(both \o LaterParameters) = ToSet(both) \cup ToSet(LaterParameters)
    BY <1>1, <2>1, MembersOfBoth
  <2> QED BY <2>1, <2>2, <2>3
<1>7. \A q \in ToSet(Parameters) : Good(q)
  <2> HIDE DEF Good
  <2> QED BY <1>2, <1>3, <1>4, <1>5, <1>6 DEF ToSet
<1>8. /\ ShapeParameters[1] = [p |-> "not", form |-> "shape"]
      /\ ShapeParameters[2] = [p |-> "and", form |-> "shapes"]
      /\ ShapeParameters[3] = [p |-> "or", form |-> "shapes"]
      /\ ShapeParameters[4] = [p |-> "xone", form |-> "shapes"]
      /\ ShapeParameters[5] = [p |-> "node", form |-> "shape"]
      /\ ShapeParameters[6] = [p |-> "property", form |-> "shape"]
      /\ ShapeParameters[7] = [p |-> "qualifiedValueShape", form |-> "qualified"]
      /\ LaterParameters[3] = [p |-> "reifierShape", form |-> "reifier"]
      /\ LaterParameters[4] = [p |-> "memberShape", form |-> "shape"]
      /\ LaterParameters[9] = [p |-> "someValue", form |-> "shape"]
  BY DEF ShapeParameters, LaterParameters
<1>9. \A i \in 1 .. 10 : ShapeParameters[i] \in ToSet(Parameters)
  BY <1>5, <1>6 DEF ToSet
<1>10. \A i \in 1 .. 13 : LaterParameters[i] \in ToSet(Parameters)
  BY <1>5, <1>6 DEF ToSet
<1>11. ASSUME NEW p \in SingleRefs
       PROVE  \E q \in ToSet(Parameters) :
                 /\ q.p = p /\ q.form \in SingleForms
                 /\ p = "qualifiedValueShape" => q.form = "qualified"
  <2>1. /\ 1 \in 1 .. 10 /\ 5 \in 1 .. 10 /\ 6 \in 1 .. 10 /\ 7 \in 1 .. 10
        /\ 3 \in 1 .. 13 /\ 4 \in 1 .. 13 /\ 9 \in 1 .. 13
    OBVIOUS
  <2>2. /\ [p |-> "not", form |-> "shape"] \in ToSet(Parameters)
        /\ [p |-> "node", form |-> "shape"] \in ToSet(Parameters)
        /\ [p |-> "property", form |-> "shape"] \in ToSet(Parameters)
        /\ [p |-> "qualifiedValueShape", form |-> "qualified"] \in ToSet(Parameters)
        /\ [p |-> "reifierShape", form |-> "reifier"] \in ToSet(Parameters)
        /\ [p |-> "memberShape", form |-> "shape"] \in ToSet(Parameters)
        /\ [p |-> "someValue", form |-> "shape"] \in ToSet(Parameters)
    BY <1>8, <1>9, <1>10, <2>1
  <2> QED BY <2>2 DEF SingleRefs, SingleForms
<1>12. ASSUME NEW p \in ListRefs
       PROVE  \E q \in ToSet(Parameters) : q.p = p /\ q.form = "shapes"
  <2>1. 2 \in 1 .. 10 /\ 3 \in 1 .. 10 /\ 4 \in 1 .. 10
    OBVIOUS
  <2>2. /\ [p |-> "and", form |-> "shapes"] \in ToSet(Parameters)
        /\ [p |-> "or", form |-> "shapes"] \in ToSet(Parameters)
        /\ [p |-> "xone", form |-> "shapes"] \in ToSet(Parameters)
    BY <1>8, <1>9, <2>1
  <2> QED BY <2>2 DEF ListRefs
<1> QED BY <1>6, <1>7, <1>11, <1>12, MembersOfSeq

\* The statements of a parameter are a sequence of terms; of one that refers
\* to shapes they are all objects, or all that are not switched off.
LEMMA StatementsTyped ==
    ASSUME GraphTyped, NEW node, NEW q
    PROVE  /\ Statements(node, q) \in Seq(Nat)
           /\ q.form \in SingleForms /\ q.p \in SingleRefs =>
                ToSet(Statements(node, q)) =
                    {o \in ObjectSet(node, q.p) : ~Deactivated(node, q.p, o)}
           /\ q.form = "shapes" /\ q.p \in ListRefs =>
                ToSet(Statements(node, q)) = ObjectSet(node, q.p)
<1> DEFINE T == {o \in ObjectSet(node, q.p) : ~Deactivated(node, q.p, o)}
<1>1. Ascending(Object(node, q.p)) \in Seq(Nat)
  <2>1. Object(node, q.p) \in SUBSET ObjectSet(node, q.p)
    BY LookupsTyped
  <2> QED BY <2>1, PartOfObjects
<1>2. Objects(node, q.p) \in Seq(Nat) /\ ToSet(Objects(node, q.p)) = ObjectSet(node, q.p)
  BY ObjectsTyped
<1>3. ActiveObjects(node, q.p) \in Seq(Nat) /\ ToSet(ActiveObjects(node, q.p)) = T
  <2>1. T \in SUBSET ObjectSet(node, q.p)
    OBVIOUS
  <2> HIDE DEF T
  <2>2. Ascending(T) \in Seq(Nat) /\ ToSet(Ascending(T)) = T
    BY <2>1, PartOfObjects
  <2> QED BY <2>2 DEF ActiveObjects, T
<1>4. <<>> \in Seq(Nat)
  BY EmptySeq
<1>5. Statements(node, q) \in Seq(Nat)
  BY <1>1, <1>2, <1>3, <1>4 DEF Statements
<1>6. q.form \in SingleForms /\ q.p \in SingleRefs => Statements(node, q) = ActiveObjects(node, q.p)
  BY DEF Statements, SingleForms, SingleRefs, AlwaysActive
<1>7. q.form = "shapes" /\ q.p \in ListRefs => Statements(node, q) = Objects(node, q.p)
  BY DEF Statements, ListRefs, AlwaysActive
<1> QED BY <1>2, <1>3, <1>5, <1>6, <1>7

\* What a constraint refers to, and beside what.
LEMMA StatementRefers ==
    ASSUME GraphTyped, NEW node, NEW q, NEW t \in Nat
    PROVE  LET c == Statement(node, q, t)
           IN  /\ c.refs = IF q.form \in SingleForms THEN <<t>>
                           ELSE IF q.form = "shapes" THEN Members(t) ELSE <<>>
               /\ c.siblings = IF q.form = "qualified" /\ Flag(node, "qualifiedValueShapesDisjoint")
                               THEN Siblings(node) ELSE <<>>
               /\ c.refs \in Seq(Nat) /\ c.siblings \in Seq(Nat)
<1>1. Statement(node, q, t).refs =
        CASE q.form \in {"shape", "qualified", "reifier"} -> <<t>>
          [] q.form = "shapes" -> Members(t)
          [] OTHER -> <<>>
  BY DEF Statement
<1>2. Statement(node, q, t).siblings =
        IF q.form = "qualified" /\ Flag(node, "qualifiedValueShapesDisjoint")
        THEN Siblings(node) ELSE <<>>
  BY DEF Statement
<1>3. /\ <<t>> \in Seq(Nat) /\ Members(t) \in Seq(Nat)
      /\ Siblings(node) \in Seq(Nat) /\ <<>> \in Seq(Nat)
  BY MembersTyped, SiblingsTyped
<1>4. Statement(node, q, t).refs =
        IF q.form \in SingleForms THEN <<t>>
        ELSE IF q.form = "shapes" THEN Members(t) ELSE <<>>
  BY <1>1 DEF SingleForms
<1> QED BY <1>2, <1>3, <1>4

\* The constraints of the user's own components refer to nothing.
LEMMA CustomTyped ==
    ASSUME GraphTyped, NEW node
    PROVE  /\ Custom(node) \in Seq(ToSet(Custom(node)))
           /\ \A c \in ToSet(Custom(node)) : c.refs = <<>> /\ c.siblings = <<>>
<1> DEFINE T == {c \in SubjectsOf("parameter") : Applies(node, c) /\ ValidatorOf(node, c) # {}}
           using == Ascending(T)
<1>1. T \in SUBSET SubjectsOf("parameter")
  OBVIOUS
<1>2. SubjectsOf("parameter") \in SUBSET Nat /\ IsFiniteSet(SubjectsOf("parameter"))
  BY LookupsTyped
<1> HIDE DEF T
<1>3. T \in SUBSET Nat /\ IsFiniteSet(T)
  BY <1>1, <1>2, FS_Subset
<1>4. PICK n \in Nat : DOMAIN using = 1 .. n
  BY <1>3, AscendingOrder
<1>5. /\ DOMAIN Custom(node) = DOMAIN using
      /\ Custom(node) = [i \in DOMAIN using |-> Custom(node)[i]]
      /\ \A i \in DOMAIN using : Custom(node)[i].refs = <<>> /\ Custom(node)[i].siblings = <<>>
  BY DEF Custom, T
<1> HIDE DEF using
<1>6. Custom(node) \in [1 .. n -> ToSet(Custom(node))]
  BY <1>4, <1>5 DEF ToSet
<1>7. Custom(node) \in Seq(ToSet(Custom(node)))
  BY <1>6, FunctionIsSeq
<1>8. \A c \in ToSet(Custom(node)) : c.refs = <<>> /\ c.siblings = <<>>
  BY <1>5 DEF ToSet
<1> QED BY <1>7, <1>8

\* The constraints of a node: one for each statement of each parameter, and
\* those of the user's own components.
LEMMA ConstraintsRead ==
    ASSUME GraphTyped, NEW node
    PROVE  /\ Constraints(node) \in Seq(ToSet(Constraints(node)))
           /\ \A c \in ToSet(Constraints(node)) :
                 \/ c \in ToSet(Custom(node))
                 \/ \E q \in ToSet(Parameters) : \E t \in ToSet(Statements(node, q)) :
                       c = Statement(node, q, t)
           /\ \A q \in ToSet(Parameters) : \A t \in ToSet(Statements(node, q)) :
                 Statement(node, q, t) \in ToSet(Constraints(node))
<1> DEFINE All(q) == {Statement(node, q, t) : t \in Nat}
           S == (UNION {All(q) : q \in ToSet(Parameters)}) \cup ToSet(Custom(node))
           one(q) == [t \in Nat |-> <<Statement(node, q, t)>>]
           of == [q \in ToSet(Parameters) |-> Each(one(q), Statements(node, q))]
<1>1. \A q : Statements(node, q) \in Seq(Nat) /\ ToSet(Statements(node, q)) \subseteq Nat
  BY StatementsTyped, MembersOfSeq
<1>2. \A q \in ToSet(Parameters) : one(q) \in [Nat -> Seq(S)]
  <2> SUFFICES ASSUME NEW q \in ToSet(Parameters), NEW t \in Nat
               PROVE  <<Statement(node, q, t)>> \in Seq(S)
    OBVIOUS
  <2>1. Statement(node, q, t) \in S
    OBVIOUS
  <2> HIDE DEF S
  <2> QED BY <2>1
<1>3. \A q : \A t \in Nat : ToSet(one(q)[t]) = {Statement(node, q, t)}
  <2> TAKE q
  <2> TAKE t \in Nat
  <2> DEFINE c == Statement(node, q, t)
  <2>1. one(q)[t] = <<c>>
    OBVIOUS
  <2> HIDE DEF c
  <2>2. ToSet(<<c>>) = {c}
    BY DEF ToSet
  <2> QED BY <2>1, <2>2 DEF c
<1> HIDE DEF S, one
<1>4. \A q \in ToSet(Parameters) :
         /\ Each(one(q), Statements(node, q)) \in Seq(S)
         /\ ToSet(Each(one(q), Statements(node, q))) = Held(one(q), ToSet(Statements(node, q)))
  BY <1>1, <1>2, EachMembers
<1>5. of \in [ToSet(Parameters) -> Seq(S)]
  BY <1>4
<1>6. /\ Each(of, Parameters) \in Seq(S)
      /\ ToSet(Each(of, Parameters)) = Held(of, ToSet(Parameters))
  <2> HIDE DEF of
  <2> QED BY <1>5, ParametersRead, EachMembers
<1>7. Custom(node) \in Seq(S)
  BY CustomTyped, SeqMonotonic DEF S
<1>8. Constraints(node) = Each(of, Parameters) \o Custom(node)
  <2>1. \A i \in DOMAIN Parameters : Parameters[i] \in ToSet(Parameters)
    BY DEF ToSet
  <2>2. \A q : \A i \in DOMAIN Statements(node, q) : Statements(node, q)[i] \in Nat
    BY <1>1 DEF ToSet
  <2> DEFINE made(q) == [i \in DOMAIN Statements(node, q) |->
                            <<Statement(node, q, Statements(node, q)[i])>>]
  <2>3. \A q : Each(one(q), Statements(node, q)) = FlattenSeq(made(q))
    <3>1. \A q : [i \in DOMAIN Statements(node, q) |-> one(q)[Statements(node, q)[i]]] = made(q)
      BY <2>2 DEF one
    <3> QED BY <3>1 DEF Each
  <2> HIDE DEF made
  <2>4. [i \in DOMAIN Parameters |-> of[Parameters[i]]]
          = [i \in DOMAIN Parameters |-> FlattenSeq(made(Parameters[i]))]
    BY <2>1, <2>3
  <2>5. Each(of, Parameters) = FlattenSeq([i \in DOMAIN Parameters |-> FlattenSeq(made(Parameters[i]))])
    <3> HIDE DEF of
    <3> QED BY <2>4 DEF Each
  <2> QED BY <2>5 DEF Constraints, EachOf, made
<1>9. /\ Constraints(node) \in Seq(S)
      /\ ToSet(Constraints(node)) = Held(of, ToSet(Parameters)) \cup ToSet(Custom(node))
  <2> HIDE DEF of
  <2> QED BY <1>6, <1>7, <1>8, MembersOfBoth
<1>10. \A q \in ToSet(Parameters) : ToSet(of[q]) = Held(one(q), ToSet(Statements(node, q)))
  BY <1>4
<1> HIDE DEF of
<1>11. ASSUME NEW c \in Held(of, ToSet(Parameters))
       PROVE  \E q \in ToSet(Parameters) : \E t \in ToSet(Statements(node, q)) :
                  c = Statement(node, q, t)
  <2>1. PICK q \in ToSet(Parameters) : c \in ToSet(of[q])
    BY DEF Held
  <2>2. PICK t \in ToSet(Statements(node, q)) : c \in ToSet(one(q)[t])
    BY <1>10, <2>1 DEF Held
  <2>3. t \in Nat
    BY <1>1
  <2>4. c = Statement(node, q, t)
    BY <1>3, <2>2, <2>3
  <2> QED BY <2>4
<1>12. ASSUME NEW q \in ToSet(Parameters), NEW t \in ToSet(Statements(node, q))
       PROVE  Statement(node, q, t) \in Held(of, ToSet(Parameters))
  <2>1. Statement(node, q, t) \in ToSet(one(q)[t])
    BY <1>1, <1>3
  <2>2. Statement(node, q, t) \in ToSet(of[q])
    BY <1>10, <2>1 DEF Held
  <2> QED BY <2>2 DEF Held
<1>13. Constraints(node) \in Seq(ToSet(Constraints(node)))
  BY <1>9, MembersOfSeq
<1> QED BY <1>9, <1>11, <1>12, <1>13

\* What the constraints of a node refer to is what its active statements name,
\* and the qualified shapes beside its own where it asks for them.
LEMMA ConstraintsRefer ==
    ASSUME GraphTyped, NEW node
    PROVE  /\ \A c \in ToSet(Constraints(node)) : c.refs \in Seq(Nat) /\ c.siblings \in Seq(Nat)
           /\ UNION {ToSet(c.refs) \cup ToSet(c.siblings) : c \in ToSet(Constraints(node))}
                = Successors(node)
<1> DEFINE To(c) == ToSet(c.refs) \cup ToSet(c.siblings)
           disjoint == Flag(node, "qualifiedValueShapesDisjoint")
           Active(p) == {o \in ObjectSet(node, p) : ~Deactivated(node, p, o)}
<1>1. \A q : Statements(node, q) \in Seq(Nat) /\ ToSet(Statements(node, q)) \subseteq Nat
  BY StatementsTyped, MembersOfSeq
<1>2. ToSet(<<>>) = {} /\ \A t : ToSet(<<t>>) = {t}
  BY DEF ToSet
<1>3. \A p : {o \in ObjectSet(node, p) : \A r \in Reifiers(node, p, o) : ~Flag(r, "deactivated")}
               = Active(p)
  BY DEF Deactivated
<1>4. Named(node) = (UNION {Active(p) : p \in SingleRefs})
                      \cup UNION {ToSet(Members(h)) : h \in UNION {ObjectSet(node, p) : p \in ListRefs}}
  <2> DEFINE Raw(p) == {o \in ObjectSet(node, p) :
                           \A r \in Reifiers(node, p, o) : ~Flag(r, "deactivated")}
  <2>1. Named(node) = (UNION {Raw(p) : p \in SingleRefs})
                      \cup UNION {ToSet(Members(h)) : h \in UNION {ObjectSet(node, p) : p \in ListRefs}}
    BY Zenon DEF Named
  <2>2. \A p : Raw(p) = Active(p)
    BY <1>3
  <2> HIDE DEF Raw, Active
  <2>3. UNION {Raw(p) : p \in SingleRefs} = UNION {Active(p) : p \in SingleRefs}
    BY <2>2
  <2> QED BY <2>1, <2>3
<1>5. BesideOf(node) = IF Active("qualifiedValueShape") # {} /\ disjoint
                       THEN ToSet(Siblings(node)) ELSE {}
  <2>1. (\E q \in ObjectSet(node, "qualifiedValueShape") :
            ~Deactivated(node, "qualifiedValueShape", q) /\ disjoint)
          <=> Active("qualifiedValueShape") # {} /\ disjoint
    OBVIOUS
  <2> QED BY <2>1, SiblingsTyped DEF BesideOf
<1>6. ASSUME NEW q \in ToSet(Parameters), NEW t \in ToSet(Statements(node, q)), NEW c,
             c = Statement(node, q, t)
      PROVE  /\ c.refs \in Seq(Nat) /\ c.siblings \in Seq(Nat)
             /\ c.refs = IF q.form \in SingleForms THEN <<t>>
                         ELSE IF q.form = "shapes" THEN Members(t) ELSE <<>>
             /\ c.siblings = IF q.form = "qualified" /\ disjoint THEN Siblings(node) ELSE <<>>
  <2>1. t \in Nat
    BY <1>1
  <2> QED BY <2>1, <1>6, StatementRefers
<1>7. \A c \in ToSet(Constraints(node)) : c.refs \in Seq(Nat) /\ c.siblings \in Seq(Nat)
  <2> SUFFICES ASSUME NEW c \in ToSet(Constraints(node))
               PROVE  c.refs \in Seq(Nat) /\ c.siblings \in Seq(Nat)
    OBVIOUS
  <2>1. CASE c \in ToSet(Custom(node))
    BY <2>1, CustomTyped, EmptySeq
  <2>2. CASE c \notin ToSet(Custom(node))
    <3>1. PICK q \in ToSet(Parameters) : \E t \in ToSet(Statements(node, q)) :
                    c = Statement(node, q, t)
      BY <2>2, ConstraintsRead
    <3>2. PICK t \in ToSet(Statements(node, q)) : c = Statement(node, q, t)
      BY <3>1
    <3> QED BY <3>2, <1>6
  <2> QED BY <2>1, <2>2
<1>8. ASSUME NEW c \in ToSet(Constraints(node)), NEW x \in To(c)
      PROVE  x \in Successors(node)
  <2>1. CASE c \in ToSet(Custom(node))
    BY <2>1, <1>2, CustomTyped
  <2>2. CASE c \notin ToSet(Custom(node))
    <3>1. PICK q \in ToSet(Parameters) : \E t \in ToSet(Statements(node, q)) :
                    c = Statement(node, q, t)
      BY <2>2, ConstraintsRead
    <3>2. PICK t \in ToSet(Statements(node, q)) : c = Statement(node, q, t)
      BY <3>1
    <3>3. /\ q.form \in SingleForms => q.p \in SingleRefs
          /\ q.form = "shapes" => q.p \in ListRefs
          /\ q.form = "qualified" => q.p = "qualifiedValueShape" /\ q.form \in SingleForms
      BY ParametersRead DEF SingleForms
    <3>8. /\ c.refs = IF q.form \in SingleForms THEN <<t>>
                      ELSE IF q.form = "shapes" THEN Members(t) ELSE <<>>
          /\ c.siblings = IF q.form = "qualified" /\ disjoint THEN Siblings(node) ELSE <<>>
      BY <1>6, <3>2
    <3>4. CASE x \in ToSet(c.refs) /\ q.form \in SingleForms
      <4>1. x = t
        BY <1>2, <3>8, <3>4
      <4>2. t \in Active(q.p)
        BY <3>3, <3>4, StatementsTyped
      <4> QED BY <1>4, <3>3, <3>4, <4>1, <4>2 DEF Successors
    <3>5. CASE x \in ToSet(c.refs) /\ q.form = "shapes" /\ q.form \notin SingleForms
      <4>1. x \in ToSet(Members(t))
        BY <3>8, <3>5
      <4>2. t \in ObjectSet(node, q.p)
        BY <3>3, <3>5, StatementsTyped
      <4> QED BY <1>4, <3>3, <3>5, <4>1, <4>2 DEF Successors
    <3>6. CASE x \in ToSet(c.refs) /\ q.form # "shapes" /\ q.form \notin SingleForms
      BY <1>2, <3>8, <3>6
    <3>7. CASE x \in ToSet(c.siblings)
      <4>1. q.form = "qualified" /\ disjoint /\ x \in ToSet(Siblings(node))
        BY <1>2, <3>8, <3>7
      <4>2. t \in Active("qualifiedValueShape")
        BY <3>3, <4>1, StatementsTyped
      <4> QED BY <1>5, <4>1, <4>2 DEF Successors
    <3> QED BY <3>4, <3>5, <3>6, <3>7
  <2> QED BY <2>1, <2>2
<1>9. ASSUME NEW p \in SingleRefs, NEW o \in Active(p)
      PROVE  \E c \in ToSet(Constraints(node)) :
                /\ o \in To(c)
                /\ p = "qualifiedValueShape" /\ disjoint => ToSet(Siblings(node)) \subseteq To(c)
  <2>1. PICK q \in ToSet(Parameters) :
            /\ q.p = p /\ q.form \in SingleForms
            /\ p = "qualifiedValueShape" => q.form = "qualified"
    BY ParametersRead
  <2>2. o \in ToSet(Statements(node, q))
    BY <2>1, StatementsTyped
  <2>3. Statement(node, q, o) \in ToSet(Constraints(node))
    BY <2>2, ConstraintsRead
  <2>4. o \in To(Statement(node, q, o))
    BY <1>2, <1>6, <2>1, <2>2
  <2>5. p = "qualifiedValueShape" /\ disjoint
          => ToSet(Siblings(node)) \subseteq To(Statement(node, q, o))
    BY <1>6, <2>1, <2>2
  <2> QED BY <2>3, <2>4, <2>5
<1>10. ASSUME NEW p \in ListRefs, NEW h \in ObjectSet(node, p)
       PROVE  \E c \in ToSet(Constraints(node)) : ToSet(Members(h)) \subseteq To(c)
  <2>1. PICK q \in ToSet(Parameters) : q.p = p /\ q.form = "shapes"
    BY ParametersRead
  <2>2. h \in ToSet(Statements(node, q))
    BY <2>1, StatementsTyped
  <2>3. Statement(node, q, h) \in ToSet(Constraints(node))
    BY <2>2, ConstraintsRead
  <2>4. ToSet(Members(h)) \subseteq To(Statement(node, q, h))
    BY <1>6, <2>1, <2>2 DEF SingleForms
  <2> QED BY <2>3, <2>4
<1>11. ASSUME NEW x \in Successors(node)
       PROVE  \E c \in ToSet(Constraints(node)) : x \in To(c)
  <2>1. CASE x \in UNION {Active(p) : p \in SingleRefs}
    BY <2>1, <1>9
  <2>2. CASE x \in UNION {ToSet(Members(h)) : h \in UNION {ObjectSet(node, p) : p \in ListRefs}}
    BY <2>2, <1>10
  <2>3. CASE x \in BesideOf(node)
    <3>1. Active("qualifiedValueShape") # {} /\ disjoint /\ x \in ToSet(Siblings(node))
      BY <2>3, <1>5
    <3>2. "qualifiedValueShape" \in SingleRefs
      BY DEF SingleRefs
    <3> QED BY <3>1, <3>2, <1>9
  <2> QED BY <1>4, <2>1, <2>2, <2>3 DEF Successors
<1> HIDE DEF To
<1>12. UNION {To(c) : c \in ToSet(Constraints(node))} = Successors(node)
  BY <1>8, <1>11
<1> QED BY <1>7, <1>12 DEF To

\* One kind of target for each member of a sequence.
TargetsOf(kind, seq) == [i \in DOMAIN seq |-> [kind |-> kind, term |-> seq[i]]]

\* They are those targets.
LEMMA TargetsOfTyped ==
    ASSUME NEW K, NEW T, NEW kind \in K, NEW seq \in Seq(T)
    PROVE  /\ TargetsOf(kind, seq) \in Seq([kind : K, term : T])
           /\ \A t \in ToSet(TargetsOf(kind, seq)) : t.kind = kind /\ t.term \in ToSet(seq)
           /\ \A x \in ToSet(seq) : [kind |-> kind, term |-> x] \in ToSet(TargetsOf(kind, seq))
<1> DEFINE s == TargetsOf(kind, seq)
<1>1. Len(seq) \in Nat /\ DOMAIN seq = 1 .. Len(seq) /\ \A i \in DOMAIN seq : seq[i] \in T
  BY LenProperties, ElementOfSeq
<1>2. /\ DOMAIN s = DOMAIN seq
      /\ \A i \in DOMAIN seq : s[i] = [kind |-> kind, term |-> seq[i]]
      /\ s = [i \in DOMAIN seq |-> s[i]]
  BY DEF TargetsOf
<1> HIDE DEF s
<1>3. s \in [1 .. Len(seq) -> [kind : K, term : T]]
  BY <1>1, <1>2
<1>4. s \in Seq([kind : K, term : T])
  BY <1>1, <1>3, FunctionIsSeq
<1> QED BY <1>2, <1>4 DEF ToSet, s

\* The nodes a target's shape refers to by sh:targetWhere.
Wheres(targets) == {t.term : t \in {u \in ToSet(targets) : u.kind = "where"}}

\* The targets of a node refer to what its sh:targetWhere names.
LEMMA TargetsRefer ==
    ASSUME GraphTyped, NEW node
    PROVE  /\ Targets(node) \in Seq(ToSet(Targets(node)))
           /\ Wheres(Targets(node)) = ObjectSet(node, "targetWhere")
<1> DEFINE nodes == ObjectSet(node, "targetNode")
           K == {"node", "class", "subjectsOf", "objectsOf", "where", "sparql", "implicitClass"}
           T == Nat \cup {node}
           R == [kind : K, term : T]
           selecting(S) == {t \in S : IsSelector(t) /\ QueryOk(t)}
           selectors(S) == Ascending(selecting(S))
           isClass == {Vocab.RdfsClass, Vocab.ShapeClass} \cap ObjectSet(node, "type") # {}
           a1 == Ascending({t \in nodes : ~IsSelector(t)})
           a2 == Objects(node, "targetClass")
           a3 == Objects(node, "targetSubjectsOf")
           a4 == Objects(node, "targetObjectsOf")
           a5 == Objects(node, "targetWhere")
           a6 == selectors(ObjectSet(node, "target")) \o selectors(nodes)
           a7 == IF node \in g.iris /\ isClass THEN <<node>> ELSE <<>>
<1>1. a1 \in Seq(Nat)
  BY PartOfObjects
<1>2. /\ a2 \in Seq(Nat) /\ a3 \in Seq(Nat) /\ a4 \in Seq(Nat)
      /\ a5 \in Seq(Nat) /\ ToSet(a5) = ObjectSet(node, "targetWhere")
  BY ObjectsTyped
<1>3. a6 \in Seq(Nat)
  <2>1. selecting(ObjectSet(node, "target")) \in SUBSET ObjectSet(node, "target")
    OBVIOUS
  <2>2. selecting(nodes) \in SUBSET ObjectSet(node, "targetNode")
    OBVIOUS
  <2> HIDE DEF selecting
  <2>3. selectors(ObjectSet(node, "target")) \in Seq(Nat) /\ selectors(nodes) \in Seq(Nat)
    BY <2>1, <2>2, PartOfObjects
  <2> HIDE DEF selectors
  <2> QED BY <2>3, ConcatProperties
<1>4. a7 \in Seq(T)
  <2>1. <<node>> \in Seq(T) /\ <<>> \in Seq(T)
    OBVIOUS
  <2> QED BY <2>1
<1>5. Targets(node) =
        TargetsOf("node", a1) \o TargetsOf("class", a2) \o TargetsOf("subjectsOf", a3)
          \o TargetsOf("objectsOf", a4) \o TargetsOf("where", a5)
          \o TargetsOf("sparql", a6) \o TargetsOf("implicitClass", a7)
  BY Zenon DEF Targets, TargetsOf
<1> HIDE DEF a1, a2, a3, a4, a5, a6, a7
<1>6. /\ a1 \in Seq(T) /\ a2 \in Seq(T) /\ a3 \in Seq(T) /\ a4 \in Seq(T)
      /\ a5 \in Seq(T) /\ a6 \in Seq(T)
  <2>1. Nat \subseteq T
    OBVIOUS
  <2> HIDE DEF T
  <2> QED BY <1>1, <1>2, <1>3, <2>1, SeqMonotonic
<1> DEFINE b1 == TargetsOf("node", a1)
           b2 == b1 \o TargetsOf("class", a2)
           b3 == b2 \o TargetsOf("subjectsOf", a3)
           b4 == b3 \o TargetsOf("objectsOf", a4)
           b5 == b4 \o TargetsOf("where", a5)
           b6 == b5 \o TargetsOf("sparql", a6)
           b7 == b6 \o TargetsOf("implicitClass", a7)
           None(s) == s \in Seq(R) /\ \A t \in ToSet(s) : t.kind # "where"
           Wh(s) == s \in Seq(R) /\ Wheres(s) = ObjectSet(node, "targetWhere")
<1>7. /\ "node" \in K /\ "class" \in K /\ "subjectsOf" \in K /\ "objectsOf" \in K
      /\ "where" \in K /\ "sparql" \in K /\ "implicitClass" \in K
  OBVIOUS
<1> HIDE DEF K, T
<1>8. /\ None(TargetsOf("node", a1)) /\ None(TargetsOf("class", a2))
      /\ None(TargetsOf("subjectsOf", a3)) /\ None(TargetsOf("objectsOf", a4))
      /\ None(TargetsOf("sparql", a6)) /\ None(TargetsOf("implicitClass", a7))
  <2>1. \A kind \in K : \A s \in Seq(T) :
           TargetsOf(kind, s) \in Seq(R) /\ \A t \in ToSet(TargetsOf(kind, s)) : t.kind = kind
    BY TargetsOfTyped
  <2> QED BY <1>4, <1>6, <1>7, <2>1
<1>9. Wh(TargetsOf("where", a5))
  <2> DEFINE s == TargetsOf("where", a5)
  <2>1. /\ s \in Seq(R)
        /\ \A t \in ToSet(s) : t.kind = "where" /\ t.term \in ToSet(a5)
        /\ \A x \in ToSet(a5) : [kind |-> "where", term |-> x] \in ToSet(s)
    BY <1>6, <1>7, TargetsOfTyped
  <2> HIDE DEF s, R
  <2>2. \A x \in ToSet(a5) : \E t \in ToSet(s) : t.kind = "where" /\ t.term = x
    BY <2>1
  <2>3. Wheres(s) \subseteq ToSet(a5)
    BY <2>1 DEF Wheres
  <2>4. ASSUME NEW x \in ToSet(a5) PROVE x \in Wheres(s)
    <3>1. PICK t \in ToSet(s) : t.kind = "where" /\ t.term = x
      BY <2>2
    <3> QED BY <3>1 DEF Wheres
  <2>5. Wheres(s) = ObjectSet(node, "targetWhere")
    BY <1>2, <2>3, <2>4
  <2> QED BY <2>1, <2>5 DEF s
<1> HIDE DEF R
<1>10. ASSUME NEW s, NEW r, None(s), None(r) PROVE None(s \o r)
  <2>1. s \o r \in Seq(R) /\ ToSet(s \o r) = ToSet(s) \cup ToSet(r)
    BY <1>10, MembersOfBoth
  <2> QED BY <1>10, <2>1
<1>11. ASSUME NEW s, NEW r, None(s), Wh(r) PROVE Wh(s \o r)
  <2>1. s \o r \in Seq(R) /\ ToSet(s \o r) = ToSet(s) \cup ToSet(r)
    BY <1>11, MembersOfBoth
  <2>2. {u \in ToSet(s \o r) : u.kind = "where"} = {u \in ToSet(r) : u.kind = "where"}
    BY <1>11, <2>1
  <2> QED BY <1>11, <2>1, <2>2 DEF Wheres
<1>12. ASSUME NEW s, NEW r, Wh(s), None(r) PROVE Wh(s \o r)
  <2>1. s \o r \in Seq(R) /\ ToSet(s \o r) = ToSet(s) \cup ToSet(r)
    BY <1>12, MembersOfBoth
  <2>2. {u \in ToSet(s \o r) : u.kind = "where"} = {u \in ToSet(s) : u.kind = "where"}
    BY <1>12, <2>1
  <2> QED BY <1>12, <2>1, <2>2 DEF Wheres
<1> HIDE DEF None, Wh
<1>13. None(b4)
  BY <1>8, <1>10
<1>14. Wh(b7)
  <2>1. Wh(b5)
    <3> HIDE DEF b4
    <3> QED BY <1>9, <1>11, <1>13
  <2> HIDE DEF b5
  <2> QED BY <1>8, <1>12, <2>1
<1>15. Targets(node) = b7
  BY <1>5
<1> HIDE DEF b7
<1> QED BY <1>14, <1>15, MembersOfSeq DEF Wh

\* The parts of a body that name other nodes.
LEMMA BodyRead ==
    ASSUME NEW node
    PROVE  /\ {"node", "constraints", "targets"} \subseteq DOMAIN Body(node)
           /\ Body(node).node = node
           /\ Body(node).constraints = Constraints(node)
           /\ Body(node).targets = Targets(node)
           /\ {"node", "constraints", "targets"} \subseteq DOMAIN Placeholder(node)
           /\ Placeholder(node).node = node
           /\ Placeholder(node).constraints = <<>>
           /\ Placeholder(node).targets = <<>>
BY DEF Body, Placeholder

-----------------------------------------------------------------------------
(* The inductive invariant of the compiler. *)

\* What was read of a node says what the graph says of it.
BodyRight(n) ==
    LET body == BodyOf(n)
    IN  /\ {"node", "constraints", "targets"} \subseteq DOMAIN body
        /\ body.node = n
        /\ body.constraints \in Seq(ToSet(body.constraints))
        /\ \A c \in ToSet(body.constraints) : c.refs \in Seq(Nat) /\ c.siblings \in Seq(Nat)
        /\ UNION {ToSet(c.refs) \cup ToSet(c.siblings) : c \in ToSet(body.constraints)}
             = Successors(n)
        /\ body.targets \in Seq(ToSet(body.targets))
        /\ Wheres(body.targets) = ObjectSet(n, "targetWhere")

\* The nodes that discovery looks for: they declare themselves, or have one of
\* the statements it goes by.
Sought == {n \in {t[1] : t \in g.triples} :
              \/ Declares(n, {Vocab.NodeShape, Vocab.PropertyShape})
              \/ States(n, TargetPredicates \cup ConstraintPredicates)}

ReadRight ==
    /\ GraphTyped
    /\ reading.candidates \in Seq(Nat)
    /\ ToSet(reading.candidates) = Sought
    /\ \A n : BodyRight(n)

\* Each shape has one number and each number one shape.
Numbering(arena, number) ==
    /\ arena \in Seq(ToSet(arena))
    /\ DOMAIN number \subseteq Nat
    /\ number \in [DOMAIN number -> DOMAIN arena]
    /\ \A i \in DOMAIN arena : arena[i].node \in DOMAIN number /\ number[arena[i].node] = i
    /\ \A n \in DOMAIN number : arena[number[n]].node = n

\* A compiled shape has the numbers of what its body names.
ResolvedBy(shape, body, number) ==
    /\ shape.targets = body.targets
    /\ shape.constraints \in Seq(ToSet(shape.constraints))
    /\ DOMAIN shape.constraints = DOMAIN body.constraints
    /\ \A k \in DOMAIN body.constraints :
           LET named == body.constraints[k]
               made == shape.constraints[k]
           IN  /\ ToSet(named.refs) \cup ToSet(named.siblings) \subseteq DOMAIN number
               /\ made.ids = [i \in DOMAIN named.refs |-> number[named.refs[i]]]
               /\ made.siblings = Ascending({number[n] : n \in ToSet(named.siblings)})

\* What is numbered is queued once or compiled.
Worklist ==
    /\ pending \in Seq(DOMAIN byNode)
    /\ \A i, j \in DOMAIN pending : pending[i] = pending[j] => i = j
    /\ \A n \in DOMAIN byNode \ ToSet(pending) :
           Compilable(BodyOf(n)) /\ ResolvedBy(shapes[byNode[n]], BodyOf(n), byNode)

Phases ==
    /\ pc \in {"discover", "drain", "done", "failed"}
    /\ pc = "discover" => shapes = <<>> /\ byNode = <<>> /\ pending = <<>>
    /\ pc # "discover" => Sought \subseteq DOMAIN byNode
    /\ pc = "done" => pending = <<>>
    /\ pc = "failed" => \E n \in DOMAIN byNode : ~Compilable(BodyOf(n))

\* Nothing was numbered that need not be.
NoneBeyond ==
    \A T : Sought \subseteq T /\ (\A n \in T : Successors(n) \subseteq T)
               => DOMAIN byNode \subseteq T

CompileInv ==
    ReadRight /\ Numbering(shapes, byNode) /\ Worklist /\ Phases /\ NoneBeyond

-----------------------------------------------------------------------------
(* Its parts, step by step. *)

\* What the graph says stays the same while it is compiled.
LEMMA ReadingStays ==
    ASSUME g' = g, reading' = reading
    PROVE  /\ \A n : Successors(n)' = Successors(n)
           /\ Sought' = Sought
           /\ \A n : BodyOf(n)' = BodyOf(n)
           /\ \A b : Compilable(b)' <=> Compilable(b)
           /\ ReadRight => ReadRight'
<1>1. \A s, p : ObjectSet(s, p)' = ObjectSet(s, p)
  BY DEF ObjectSet
<1>2. \A n : Named(n)' = Named(n)
  BY DEF Named, Reifiers, Flag, Members, IsList, List, Object, ObjectSet, Least
<1>3. \A n : BesideOf(n)' = BesideOf(n)
  BY DEF BesideOf, Deactivated, Reifiers, Flag, Object, ObjectSet, SubjectSet, Least
<1>4. \A n : Successors(n)' = Successors(n)
  BY <1>2, <1>3 DEF Successors
<1>5. Sought' = Sought
  BY DEF Sought, Declares, States, ObjectSet
<1>6. \A n : BodyOf(n)' = BodyOf(n)
  BY DEF BodyOf, Placeholder
<1>7. \A b : Compilable(b)' <=> Compilable(b)
  BY DEF Compilable
<1>8. \A n : BodyRight(n) => BodyRight(n)'
  BY <1>1, <1>4, <1>6 DEF BodyRight
<1>9. GraphTyped' <=> GraphTyped
  BY DEF GraphTyped
<1>10. ReadRight => ReadRight'
  BY <1>5, <1>8, <1>9 DEF ReadRight
<1> QED BY <1>4, <1>5, <1>6, <1>7, <1>10

\* The nodes met for the first time are those that have no number, each once.
LEMMA FreshTyped ==
    ASSUME NEW nodes \in Seq(Nat)
    PROVE  /\ Fresh(nodes) \in Seq(Nat)
           /\ ToSet(Fresh(nodes)) = ToSet(nodes) \ DOMAIN byNode
           /\ \A i, j \in DOMAIN Fresh(nodes) : Fresh(nodes)[i] = Fresh(nodes)[j] => i = j
<1> DEFINE new(i) == /\ nodes[i] \notin DOMAIN byNode
                     /\ \A j \in 1 .. (i - 1) : nodes[j] # nodes[i]
           places == {i \in DOMAIN nodes : new(i)}
           asc == Ascending(places)
           fresh == [k \in DOMAIN asc |-> nodes[asc[k]]]
<1>1. Len(nodes) \in Nat /\ DOMAIN nodes = 1 .. Len(nodes) /\ \A i \in DOMAIN nodes : nodes[i] \in Nat
  BY LenProperties, ElementOfSeq
<1>2. Fresh(nodes) = fresh
  BY DEF Fresh, Those
<1>3. places \in SUBSET Nat /\ IsFiniteSet(places)
  <2>1. IsFiniteSet(1 .. Len(nodes)) /\ places \in SUBSET (1 .. Len(nodes))
    BY <1>1, FS_Interval
  <2>2. places \subseteq Nat
    BY <1>1
  <2> DEFINE all == 1 .. Len(nodes)
  <2>3. IsFiniteSet(all) /\ places \in SUBSET all
    BY <2>1
  <2> HIDE DEF places, all
  <2>4. IsFiniteSet(places)
    BY <2>3, FS_Subset
  <2> QED BY <2>2, <2>4
<1> HIDE DEF places
<1>4. /\ asc \in Seq(places) /\ ToSet(asc) = places
      /\ \A i, j \in DOMAIN asc : asc[i] = asc[j] => i = j
  BY <1>3, AscendingOrder
<1> HIDE DEF asc
<1>5. /\ Len(asc) \in Nat /\ DOMAIN asc = 1 .. Len(asc)
      /\ \A k \in DOMAIN asc : asc[k] \in places
  BY <1>4, LenProperties, ElementOfSeq
<1>6. places \subseteq DOMAIN nodes /\ \A i \in places : new(i)
  BY DEF places
<1>7. fresh \in [1 .. Len(asc) -> Nat]
  BY <1>1, <1>5, <1>6
<1>8. DOMAIN fresh = DOMAIN asc /\ \A k \in DOMAIN asc : fresh[k] = nodes[asc[k]]
  OBVIOUS
<1> HIDE DEF fresh
<1>9. fresh \in Seq(Nat)
  BY <1>5, <1>7, FunctionIsSeq
<1>10. \A i, j \in places : nodes[i] = nodes[j] => i = j
  <2> SUFFICES ASSUME NEW i \in places, NEW j \in places, nodes[i] = nodes[j], i # j
               PROVE  FALSE
    OBVIOUS
  <2>1. i \in 1 .. Len(nodes) /\ j \in 1 .. Len(nodes)
    BY <1>1, <1>6
  <2>2. i \in 1 .. (j - 1) \/ j \in 1 .. (i - 1)
    BY <1>1, <2>1
  <2> QED BY <1>6, <2>2
<1>11. \A i, j \in DOMAIN fresh : fresh[i] = fresh[j] => i = j
  BY <1>4, <1>5, <1>8, <1>10
<1>12. ToSet(fresh) \subseteq ToSet(nodes) \ DOMAIN byNode
  BY <1>5, <1>6, <1>8 DEF ToSet
<1>13. ASSUME NEW x \in ToSet(nodes) \ DOMAIN byNode
       PROVE  x \in ToSet(fresh)
  <2> DEFINE at == {i \in DOMAIN nodes : nodes[i] = x}
  <2>1. at \in SUBSET Nat /\ at # {}
    BY <1>1 DEF ToSet
  <2>2. PICK m \in at : \A i \in at : m <= i
    <3> HIDE DEF at
    <3> QED BY <2>1, LeastNumber
  <2>3. \A j \in 1 .. (m - 1) : nodes[j] # nodes[m]
    <3> SUFFICES ASSUME NEW j \in 1 .. (m - 1), nodes[j] = nodes[m] PROVE FALSE
      OBVIOUS
    <3>1. m \in 1 .. Len(nodes)
      BY <1>1
    <3>2. j \in 1 .. Len(nodes) /\ ~(m <= j)
      BY <1>1, <3>1
    <3>3. j \in at
      BY <1>1, <3>2
    <3> QED BY <2>2, <3>2, <3>3
  <2>4. m \in places /\ nodes[m] = x
    BY <2>3 DEF places
  <2>5. PICK k \in DOMAIN asc : asc[k] = m
    BY <1>4, <2>4 DEF ToSet
  <2> QED BY <1>8, <2>4, <2>5 DEF ToSet
<1> QED BY <1>2, <1>9, <1>11, <1>12, <1>13

\* Numbers are given at the end of the arena: it stays numbered, and nothing
\* that has a number changes.
LEMMA ArenaGrows ==
    ASSUME Numbering(shapes, byNode),
           NEW fresh \in Seq(Nat), ToSet(fresh) \cap DOMAIN byNode = {},
           \A i, j \in DOMAIN fresh : fresh[i] = fresh[j] => i = j
    PROVE  /\ Numbering(WithPlaceholders(fresh), Numbered(fresh))
           /\ DOMAIN Numbered(fresh) = DOMAIN byNode \cup ToSet(fresh)
           /\ DOMAIN shapes \subseteq DOMAIN WithPlaceholders(fresh)
           /\ \A n \in DOMAIN byNode : Numbered(fresh)[n] = byNode[n]
           /\ \A i \in DOMAIN shapes : WithPlaceholders(fresh)[i] = shapes[i]
<1> DEFINE empty == [i \in DOMAIN fresh |-> Placeholder(fresh[i])]
           arena == WithPlaceholders(fresh)
           number == Numbered(fresh)
           R == ToSet(shapes) \cup {Placeholder(fresh[i]) : i \in DOMAIN fresh}
<1>1. /\ Len(fresh) \in Nat /\ DOMAIN fresh = 1 .. Len(fresh)
      /\ \A i \in DOMAIN fresh : fresh[i] \in Nat
  BY LenProperties, ElementOfSeq
<1>2. /\ shapes \in Seq(ToSet(shapes))
      /\ Len(shapes) \in Nat /\ DOMAIN shapes = 1 .. Len(shapes)
  BY LenProperties DEF Numbering
<1>3. empty \in Seq(R) /\ Len(empty) = Len(fresh) /\ DOMAIN empty = DOMAIN fresh
  <2>1. empty \in [1 .. Len(fresh) -> R]
    BY <1>1
  <2> HIDE DEF empty, R
  <2> QED BY <1>1, <2>1, FunctionIsSeq
<1>4. \A i \in DOMAIN fresh : empty[i] = Placeholder(fresh[i])
  OBVIOUS
<1>5. shapes \in Seq(R)
  <2>1. ToSet(shapes) \subseteq R
    OBVIOUS
  <2> HIDE DEF R
  <2> QED BY <1>2, <2>1, SeqMonotonic
<1>6. arena = shapes \o empty
  BY DEF WithPlaceholders
<1> HIDE DEF empty, R, arena
<1>7. /\ arena \in Seq(R) /\ DOMAIN arena = 1 .. (Len(shapes) + Len(fresh))
      /\ \A i \in 1 .. (Len(shapes) + Len(fresh)) :
             arena[i] = IF i <= Len(shapes) THEN shapes[i] ELSE empty[i - Len(shapes)]
  <2>1. shapes \in Seq(R) /\ empty \in Seq(R)
    BY <1>3, <1>5
  <2>2. shapes \o empty \in Seq(R)
    BY <2>1, PlacesOfBoth
  <2>3. DOMAIN (shapes \o empty) = 1 .. (Len(shapes) + Len(empty))
    BY <2>1, PlacesOfBoth
  <2>4. \A i \in 1 .. (Len(shapes) + Len(empty)) :
             (shapes \o empty)[i] = IF i <= Len(shapes) THEN shapes[i] ELSE empty[i - Len(shapes)]
    BY <2>1, PlacesOfBoth
  <2> QED BY <1>3, <1>6, <2>2, <2>3, <2>4
<1>8. arena \in Seq(ToSet(arena))
  BY <1>7, MembersOfSeq
<1>9. \A i \in DOMAIN shapes : i \in DOMAIN arena /\ arena[i] = shapes[i]
  BY <1>1, <1>2, <1>7
<1>10. \A i \in DOMAIN fresh :
          /\ Len(shapes) + i \in DOMAIN arena
          /\ arena[Len(shapes) + i] = Placeholder(fresh[i])
  BY <1>1, <1>2, <1>4, <1>7
<1>11. \A k \in DOMAIN arena : k \in DOMAIN shapes \/ \E i \in DOMAIN fresh : k = Len(shapes) + i
  <2> TAKE k \in DOMAIN arena
  <2>1. k \in 1 .. Len(shapes) \/ (k - Len(shapes) \in 1 .. Len(fresh)
                                   /\ k = Len(shapes) + (k - Len(shapes)))
    BY <1>1, <1>2, <1>7
  <2> QED BY <1>1, <1>2, <2>1
<1>12. /\ DOMAIN number = DOMAIN byNode \cup ToSet(fresh)
       /\ number = [n \in DOMAIN number |-> number[n]]
  BY DEF Numbered
<1>13. \A n \in DOMAIN byNode : number[n] = byNode[n]
  BY DEF Numbered
<1>14. ASSUME NEW i \in DOMAIN fresh
       PROVE  fresh[i] \in DOMAIN number /\ number[fresh[i]] = Len(shapes) + i
  <2>1. fresh[i] \in ToSet(fresh)
    BY DEF ToSet
  <2>2. (CHOOSE j \in DOMAIN fresh : fresh[j] = fresh[i]) = i
    OBVIOUS
  <2> QED BY <2>1, <2>2 DEF Numbered
<1> HIDE DEF number
<1>15. \A n \in DOMAIN number : n \in DOMAIN byNode \/ \E i \in DOMAIN fresh : n = fresh[i]
  BY <1>12 DEF ToSet
<1>16. /\ DOMAIN byNode \subseteq Nat
       /\ byNode \in [DOMAIN byNode -> DOMAIN shapes]
       /\ \A i \in DOMAIN shapes : shapes[i].node \in DOMAIN byNode /\ byNode[shapes[i].node] = i
       /\ \A n \in DOMAIN byNode : shapes[byNode[n]].node = n
  BY DEF Numbering
<1>17. \A n \in DOMAIN number :
          n \in Nat /\ number[n] \in DOMAIN arena /\ arena[number[n]].node = n
  <2> TAKE n \in DOMAIN number
  <2>1. CASE n \in DOMAIN byNode
    BY <1>9, <1>13, <1>16, <2>1
  <2>2. CASE \E i \in DOMAIN fresh : n = fresh[i]
    BY <1>1, <1>10, <1>14, <2>2, BodyRead
  <2> QED BY <1>15, <2>1, <2>2
<1>18. \A i \in DOMAIN arena : arena[i].node \in DOMAIN number /\ number[arena[i].node] = i
  <2> TAKE i \in DOMAIN arena
  <2>1. CASE i \in DOMAIN shapes
    BY <1>9, <1>12, <1>13, <1>16, <2>1
  <2>2. CASE \E k \in DOMAIN fresh : i = Len(shapes) + k
    BY <1>10, <1>14, <2>2, BodyRead
  <2> QED BY <1>11, <2>1, <2>2
<1>19. Numbering(arena, number)
  <2>1. DOMAIN number \subseteq Nat
    BY <1>17
  <2>2. number \in [DOMAIN number -> DOMAIN arena]
    BY <1>12, <1>17
  <2> QED BY <1>8, <1>17, <1>18, <2>1, <2>2 DEF Numbering
<1> QED BY <1>9, <1>12, <1>13, <1>19 DEF arena, number

\* A shape is put in its place: the arena stays numbered.
LEMMA ArenaFilled ==
    ASSUME NEW arena, NEW number, Numbering(arena, number),
           NEW n \in DOMAIN number, NEW shape, shape.node = n
    PROVE  /\ Numbering([arena EXCEPT ![number[n]] = shape], number)
           /\ DOMAIN [arena EXCEPT ![number[n]] = shape] = DOMAIN arena
<1> DEFINE filled == [arena EXCEPT ![number[n]] = shape]
           R == ToSet(arena) \cup {shape}
<1>1. /\ arena \in Seq(ToSet(arena)) /\ Len(arena) \in Nat
      /\ DOMAIN arena = 1 .. Len(arena) /\ \A i \in DOMAIN arena : arena[i] \in ToSet(arena)
  BY LenProperties, ElementOfSeq DEF Numbering
<1>2. DOMAIN filled = DOMAIN arena
  OBVIOUS
<1>3. \A i \in DOMAIN arena : filled[i] = IF i = number[n] THEN shape ELSE arena[i]
  OBVIOUS
<1>4. filled = [i \in DOMAIN filled |-> filled[i]]
  OBVIOUS
<1> HIDE DEF filled
<1>5. filled \in [1 .. Len(arena) -> R]
  BY <1>1, <1>2, <1>3, <1>4
<1> HIDE DEF R
<1>6. filled \in Seq(ToSet(filled))
  BY <1>1, <1>5, FunctionIsSeq, MembersOfSeq
<1>7. \A i \in DOMAIN filled : filled[i].node = arena[i].node
  BY <1>2, <1>3 DEF Numbering
<1> QED BY <1>2, <1>6, <1>7 DEF Numbering, filled

\* What was resolved stays resolved when others get a number.
LEMMA ResolvedStays ==
    ASSUME NEW shape, NEW body, NEW few, NEW many,
           DOMAIN few \subseteq DOMAIN many, \A n \in DOMAIN few : many[n] = few[n],
           \A c \in ToSet(body.constraints) : c.refs \in Seq(Nat) /\ c.siblings \in Seq(Nat),
           ResolvedBy(shape, body, few)
    PROVE  ResolvedBy(shape, body, many)
<1>1. SUFFICES ASSUME NEW k \in DOMAIN body.constraints
               PROVE  LET named == body.constraints[k]
                          made == shape.constraints[k]
                      IN  /\ ToSet(named.refs) \cup ToSet(named.siblings) \subseteq DOMAIN many
                          /\ made.ids = [i \in DOMAIN named.refs |-> many[named.refs[i]]]
                          /\ made.siblings = Ascending({many[n] : n \in ToSet(named.siblings)})
  BY DEF ResolvedBy
<1> DEFINE named == body.constraints[k]
           made == shape.constraints[k]
<1>2. /\ ToSet(named.refs) \cup ToSet(named.siblings) \subseteq DOMAIN few
      /\ made.ids = [i \in DOMAIN named.refs |-> few[named.refs[i]]]
      /\ made.siblings = Ascending({few[n] : n \in ToSet(named.siblings)})
  BY DEF ResolvedBy
<1> HIDE DEF named, made
<1>3. \A i \in DOMAIN named.refs : named.refs[i] \in ToSet(named.refs)
  BY DEF ToSet
<1>4. [i \in DOMAIN named.refs |-> many[named.refs[i]]]
        = [i \in DOMAIN named.refs |-> few[named.refs[i]]]
  BY <1>2, <1>3
<1>5. {many[n] : n \in ToSet(named.siblings)} = {few[n] : n \in ToSet(named.siblings)}
  BY <1>2
<1>6. /\ ToSet(named.refs) \cup ToSet(named.siblings) \subseteq DOMAIN many
      /\ made.ids = [i \in DOMAIN named.refs |-> many[named.refs[i]]]
      /\ made.siblings = Ascending({many[n] : n \in ToSet(named.siblings)})
  BY <1>2, <1>4, <1>5
<1> QED BY <1>6 DEF named, made

\* Compiling a body resolves it, if all it refers to has a number.
LEMMA CompiledResolves ==
    ASSUME BodyRight(Node), NEW number, Successors(Node) \subseteq DOMAIN number
    PROVE  Compiled(number).node = Node /\ ResolvedBy(Compiled(number), Read, number)
<1> DEFINE cs == Read.constraints
           resolved(c) == [kind |-> c.kind,
                           ids |-> [i \in DOMAIN c.refs |-> number[c.refs[i]]],
                           siblings |-> Ascending({number[n] : n \in ToSet(c.siblings)}),
                           terms |-> c.terms, flag |-> c.flag]
           made == [i \in DOMAIN cs |-> resolved(cs[i])]
           refers == {ToSet(c.refs) \cup ToSet(c.siblings) : c \in ToSet(cs)}
<1>1. /\ {"node", "constraints", "targets"} \subseteq DOMAIN Read
      /\ Read.node = Node
      /\ cs \in Seq(ToSet(cs))
      /\ UNION refers = Successors(Node)
  BY DEF BodyRight, Read
<1>2. Compiled(number) = [Read EXCEPT !.constraints = made]
  BY DEF Compiled
<1> HIDE DEF made
<1>3. /\ Compiled(number).node = Node
      /\ Compiled(number).targets = Read.targets
      /\ Compiled(number).constraints = made
  BY <1>1, <1>2
<1>4. Len(cs) \in Nat /\ DOMAIN cs = 1 .. Len(cs) /\ \A k \in DOMAIN cs : cs[k] \in ToSet(cs)
  BY <1>1, LenProperties, ElementOfSeq
<1>5. /\ DOMAIN made = DOMAIN cs
      /\ \A k \in DOMAIN cs :
            /\ made[k].ids = [i \in DOMAIN cs[k].refs |-> number[cs[k].refs[i]]]
            /\ made[k].siblings = Ascending({number[n] : n \in ToSet(cs[k].siblings)})
      /\ made = [k \in DOMAIN cs |-> made[k]]
  BY DEF made
<1> HIDE DEF resolved
<1>6. made \in Seq(ToSet(made))
  <2> DEFINE T == {made[k] : k \in DOMAIN cs}
  <2>1. made \in [1 .. Len(cs) -> T]
    BY <1>4, <1>5
  <2> HIDE DEF T
  <2> QED BY <1>4, <2>1, FunctionIsSeq, MembersOfSeq
<1>7. \A k \in DOMAIN cs :
         ToSet(cs[k].refs) \cup ToSet(cs[k].siblings) \subseteq DOMAIN number
  <2> TAKE k \in DOMAIN cs
  <2>1. ToSet(cs[k].refs) \cup ToSet(cs[k].siblings) \in refers
    BY <1>4
  <2> HIDE DEF refers
  <2> QED BY <1>1, <2>1
<1> QED BY <1>3, <1>5, <1>6, <1>7 DEF ResolvedBy

\* A body mentions the nodes its node refers to.
LEMMA MentionsRefer ==
    ASSUME BodyRight(Node)
    PROVE  Mentions \in Seq(Nat) /\ ToSet(Mentions) = Successors(Node)
<1> DEFINE cs == Read.constraints
           C == ToSet(cs)
           f == [c \in C |-> c.refs \o c.siblings]
           refers(c) == ToSet(c.refs) \cup ToSet(c.siblings)
<1>1. /\ cs \in Seq(C)
      /\ \A c \in C : c.refs \in Seq(Nat) /\ c.siblings \in Seq(Nat)
      /\ UNION {refers(c) : c \in C} = Successors(Node)
  BY DEF BodyRight, Read
<1>2. \A i \in DOMAIN cs : cs[i] \in C
  BY DEF ToSet
<1>3. \A c \in C : f[c] = c.refs \o c.siblings
  OBVIOUS
<1>4. \A c \in C : f[c] \in Seq(Nat) /\ ToSet(f[c]) = refers(c)
  BY <1>1, <1>3, MembersOfBoth
<1>5. f = [c \in C |-> f[c]]
  OBVIOUS
<1>6. [i \in DOMAIN cs |-> f[cs[i]]] = [i \in DOMAIN cs |-> cs[i].refs \o cs[i].siblings]
  BY <1>2, <1>3
<1>7. Mentions = Each(f, cs)
  <2> HIDE DEF f
  <2> QED BY <1>6 DEF Mentions, EachOf, Each
<1> HIDE DEF f, refers
<1>8. f \in [C -> Seq(Nat)]
  BY <1>4, <1>5
<1> HIDE DEF C
<1>9. Mentions \in Seq(Nat) /\ ToSet(Mentions) = Held(f, ToSet(cs))
  BY <1>1, <1>7, <1>8, EachMembers
<1>10. Held(f, ToSet(cs)) = UNION {refers(c) : c \in C}
  BY <1>4 DEF Held, C
<1> QED BY <1>1, <1>9, <1>10

-----------------------------------------------------------------------------
(* The invariant holds at first, and every step keeps it. *)

\* A node that is nobody's subject refers to nothing.
LEMMA OthersReferToNothing ==
    ASSUME NEW node, node \notin {t[1] : t \in g.triples}
    PROVE  Successors(node) = {} /\ ObjectSet(node, "targetWhere") = {}
<1>1. \A p : ObjectSet(node, p) = {}
  BY DEF ObjectSet
<1>2. Named(node) = {}
  BY <1>1 DEF Named
<1>3. BesideOf(node) = {}
  BY <1>1 DEF BesideOf
<1> QED BY <1>1, <1>2, <1>3 DEF Successors

\* The statements that discovery looks for are those that announce a shape
\* without being among the ones it leaves out.
LEMMA SearchedStatements ==
    (TargetStatements \cup ParameterStatements) \ UnsearchedStatements
        = TargetPredicates \cup ConstraintPredicates
<1> DEFINE values == {"class", "datatype", "nodeKind", "minCount", "maxCount",
                      "minExclusive", "minInclusive", "maxExclusive", "maxInclusive",
                      "minLength", "maxLength", "pattern", "languageIn", "uniqueLang",
                      "equals", "disjoint", "lessThan", "lessThanOrEquals"}
           forms == {"not", "and", "or", "xone", "node", "property", "qualifiedValueShape",
                     "closed", "hasValue", "in"}
           later == {"minListLength", "maxListLength", "reifierShape", "memberShape",
                     "uniqueMembers", "singleLine", "subsetOf", "rootClass", "someValue",
                     "uniqueValuesFor", "sparql", "expression", "nodeByExpression"}
<1>1. {q.p : q \in ToSet(ValueParameters)} = values
  <2>1. DOMAIN ValueParameters = 1 .. 18
    BY DEF ValueParameters
  <2>2. ToSet(ValueParameters) = {ValueParameters[i] : i \in 1 .. 18}
    BY <2>1 DEF ToSet
  <2> QED BY <2>2 DEF ValueParameters
<1>2. {q.p : q \in ToSet(ShapeParameters)} = forms
  <2>1. DOMAIN ShapeParameters = 1 .. 10
    BY DEF ShapeParameters
  <2>2. ToSet(ShapeParameters) = {ShapeParameters[i] : i \in 1 .. 10}
    BY <2>1 DEF ToSet
  <2> QED BY <2>2 DEF ShapeParameters
<1>3. {q.p : q \in ToSet(LaterParameters)} = later
  <2>1. DOMAIN LaterParameters = 1 .. 13
    BY DEF LaterParameters
  <2>2. ToSet(LaterParameters) = {LaterParameters[i] : i \in 1 .. 13}
    BY <2>1 DEF ToSet
  <2> QED BY <2>2 DEF LaterParameters
<1>4. ParameterStatements =
          values \cup forms \cup later
              \cup {"path", "severity", "flags", "ignoredProperties", "qualifiedMinCount",
                    "qualifiedMaxCount", "qualifiedValueShapesDisjoint", "reificationRequired"}
  <2> HIDE DEF values, forms, later
  <2>1. {q.p : q \in ToSet(ValueParameters) \cup ToSet(ShapeParameters) \cup ToSet(LaterParameters)}
            = values \cup forms \cup later
    BY <1>1, <1>2, <1>3
  <2> QED BY <2>1 DEF ParameterStatements
<1> QED
  BY <1>4 DEF TargetStatements, UnsearchedStatements, TargetPredicates, ConstraintPredicates

\* What announces itself and is not overlooked is what discovery looks for.
LEMMA SoughtIsAnnounced == Announced \ Overlooked = Sought
<1> DEFINE all == TargetStatements \cup ParameterStatements
           some == TargetPredicates \cup ConstraintPredicates
<1>1. all \ UnsearchedStatements = some
  BY SearchedStatements
<1> HIDE DEF all, some
<1>2. \A n : States(n, some) => States(n, all)
  BY <1>1 DEF States
<1>3. \A n : Declares(n, {Vocab.NodeShape, Vocab.PropertyShape}) => Declares(n, ShapeClasses)
  BY DEF Declares, ShapeClasses
<1>4. Announced = {n \in {t[1] : t \in g.triples} :
                      \/ Declares(n, ShapeClasses)
                      \/ States(n, all)
                      \/ \E c \in SubjectsOf("parameter") : Applies(n, c)}
  BY DEF Announced, all
<1>5. Overlooked = {n \in Announced : /\ ~Declares(n, {Vocab.NodeShape, Vocab.PropertyShape})
                                      /\ ~States(n, some)}
  BY <1>1 DEF Overlooked, all
<1>6. Announced \ Overlooked = {n \in {t[1] : t \in g.triples} :
                                   \/ Declares(n, {Vocab.NodeShape, Vocab.PropertyShape})
                                   \/ States(n, some)}
  BY <1>2, <1>3, <1>4, <1>5
<1> QED BY <1>6 DEF some, Sought

\* What discovery starts from is what it looks for.
LEMMA CandidatesRead ==
    ASSUME GraphTyped
    PROVE  Candidates \in Seq(Nat) /\ ToSet(Candidates) = Sought
<1> DEFINE predicates == TargetPredicates \cup ConstraintPredicates
           found == SubjectSet("type", Vocab.NodeShape) \cup SubjectSet("type", Vocab.PropertyShape)
                      \cup (UNION {SubjectsOf(p) : p \in predicates})
           subjects == {t[1] : t \in g.triples}
<1>1. found \subseteq subjects
  BY DEF SubjectSet, SubjectsOf
<1>2. IsFiniteSet(subjects) /\ subjects \subseteq Nat
  <2> DEFINE first == [t \in g.triples |-> t[1]]
  <2>1. DOMAIN first = g.triples /\ first = [t \in g.triples |-> first[t]]
    OBVIOUS
  <2>2. subjects = {first[t] : t \in g.triples}
    OBVIOUS
  <2> HIDE DEF first, subjects
  <2>3. IsFiniteSet(subjects)
    BY <2>1, <2>2, ImageIsFinite DEF GraphTyped
  <2> QED BY <2>3 DEF GraphTyped, subjects
<1>3. found = Sought
  <2> DEFINE classes == {Vocab.NodeShape, Vocab.PropertyShape}
  <2>1. \A n : (\E o \in classes : n \in SubjectSet("type", o)) <=> Declares(n, classes)
    BY DEF SubjectSet, ObjectSet, Declares
  <2>2. \A n : (\E p \in predicates : n \in SubjectsOf(p)) <=> States(n, predicates)
    BY DEF SubjectsOf, States
  <2> HIDE DEF predicates
  <2>3. \A n : n \in found <=> \/ \E o \in classes : n \in SubjectSet("type", o)
                               \/ \E p \in predicates : n \in SubjectsOf(p)
    OBVIOUS
  <2>4. \A n : n \in Sought <=> n \in subjects /\ (Declares(n, classes) \/ States(n, predicates))
    BY DEF Sought, predicates
  <2> QED BY <1>1, <2>1, <2>2, <2>3, <2>4
<1>4. Candidates = Ascending(found)
  BY DEF Candidates
<1> HIDE DEF found, subjects
<1>5. found \in SUBSET Nat /\ IsFiniteSet(found)
  BY <1>1, <1>2, FS_Subset
<1>6. Ascending(found) \in Seq(found) /\ ToSet(Ascending(found)) = found
  BY <1>5, AscendingOrder
<1> QED BY <1>3, <1>4, <1>5, <1>6, SeqMonotonic

\* What is read at first is what the graph says.
LEMMA InitRead ==
    Init => ReadRight
<1> SUFFICES ASSUME Init PROVE ReadRight
  OBVIOUS
<1>1. GraphTyped
  BY GraphsAssumption DEF Init, GraphTyped
<1>2. reading.candidates \in Seq(Nat) /\ ToSet(reading.candidates) = Sought
  BY <1>1, CandidatesRead DEF Init
<1>3. ASSUME NEW n PROVE BodyRight(n)
  <2>1. CASE n \in {t[1] : t \in g.triples}
    <3>1. BodyOf(n) = Body(n)
      BY <2>1 DEF Init, BodyOf
    <3>2. n \in Nat
      BY <1>1, <2>1 DEF GraphTyped
    <3>3. /\ {"node", "constraints", "targets"} \subseteq DOMAIN Body(n)
          /\ Body(n).node = n
          /\ Body(n).constraints = Constraints(n)
          /\ Body(n).targets = Targets(n)
      BY BodyRead
    <3>4. /\ \A c \in ToSet(Constraints(n)) : c.refs \in Seq(Nat) /\ c.siblings \in Seq(Nat)
          /\ UNION {ToSet(c.refs) \cup ToSet(c.siblings) : c \in ToSet(Constraints(n))}
               = Successors(n)
      BY <1>1, ConstraintsRefer
    <3>5. Constraints(n) \in Seq(ToSet(Constraints(n)))
      BY <1>1, <3>2, ConstraintsRead
    <3>6. Targets(n) \in Seq(ToSet(Targets(n))) /\ Wheres(Targets(n)) = ObjectSet(n, "targetWhere")
      BY <1>1, TargetsRefer
    <3> QED BY <3>1, <3>3, <3>4, <3>5, <3>6 DEF BodyRight
  <2>2. CASE n \notin {t[1] : t \in g.triples}
    <3>1. BodyOf(n) = Placeholder(n)
      BY <2>2 DEF Init, BodyOf
    <3>2. ToSet(<<>>) = {} /\ <<>> \in Seq(ToSet(<<>>))
      BY DEF ToSet
    <3>3. Wheres(<<>>) = {}
      BY <3>2 DEF Wheres
    <3> QED BY <2>2, <3>1, <3>2, <3>3, BodyRead, OthersReferToNothing DEF BodyRight
  <2> QED BY <2>1, <2>2
<1> QED BY <1>1, <1>2, <1>3 DEF ReadRight

\* Nothing is numbered at first.
LEMMA InitCompile == Init => CompileInv
<1> SUFFICES ASSUME Init PROVE CompileInv
  OBVIOUS
<1>1. shapes = <<>> /\ byNode = <<>> /\ pending = <<>> /\ pc = "discover"
  BY DEF Init
<1>2. DOMAIN <<>> = {} /\ \A S : <<>> \in Seq(S)
  OBVIOUS
<1>3. <<>> \in [DOMAIN <<>> -> DOMAIN <<>>]
  OBVIOUS
<1>4. Numbering(shapes, byNode)
  BY <1>1, <1>2, <1>3 DEF Numbering
<1>5. Worklist /\ Phases /\ NoneBeyond
  BY <1>1, <1>2 DEF Worklist, Phases, NoneBeyond
<1> QED BY <1>4, <1>5, InitRead DEF CompileInv

\* Numbering the candidates: each is queued, and nothing else.
LEMMA DiscoverKeeps == CompileInv /\ Discover => CompileInv'
<1> SUFFICES ASSUME CompileInv, Discover PROVE CompileInv'
  OBVIOUS
<1>1. ReadRight' /\ Sought' = Sought /\ \A n : Successors(n)' = Successors(n)
  BY ReadingStays DEF CompileInv, Discover
<1>2. PICK fresh : /\ fresh = Fresh(reading.candidates)
                   /\ shapes' = WithPlaceholders(fresh)
                   /\ byNode' = Numbered(fresh)
                   /\ pending' = fresh
  BY DEF Discover
<1>3. pc = "discover" /\ pc' = "drain"
  BY DEF Discover
<1>4. shapes = <<>> /\ byNode = <<>> /\ DOMAIN byNode = {}
  BY <1>3 DEF CompileInv, Phases
<1>5. reading.candidates \in Seq(Nat) /\ ToSet(reading.candidates) = Sought
  BY DEF CompileInv, ReadRight
<1>6. /\ fresh \in Seq(Nat) /\ ToSet(fresh) = Sought
      /\ \A i, j \in DOMAIN fresh : fresh[i] = fresh[j] => i = j
  BY <1>2, <1>4, <1>5, FreshTyped
<1>7. Numbering(shapes, byNode)
  BY DEF CompileInv
<1>8. Numbering(shapes', byNode') /\ DOMAIN byNode' = Sought
  BY <1>2, <1>4, <1>6, <1>7, ArenaGrows
<1>9. Worklist'
  <2>1. fresh \in Seq(ToSet(fresh))
    BY <1>6, MembersOfSeq
  <2>2. DOMAIN byNode' \ ToSet(pending') = {}
    BY <1>2, <1>6, <1>8
  <2> QED BY <1>2, <1>6, <1>8, <2>1, <2>2 DEF Worklist
<1>10. Phases'
  BY <1>1, <1>3, <1>8 DEF Phases
<1>11. NoneBeyond'
  BY <1>1, <1>8 DEF NoneBeyond
<1> QED BY <1>1, <1>8, <1>9, <1>10, <1>11 DEF CompileInv

\* Compiling a body: what it refers to is numbered, and queued if it is new.
LEMMA CompileNextKeeps == CompileInv /\ CompileNext => CompileInv'
<1> SUFFICES ASSUME CompileInv, CompileNext PROVE CompileInv'
  OBVIOUS
<1>1. /\ ReadRight' /\ Sought' = Sought
      /\ \A n : Successors(n)' = Successors(n)
      /\ \A n : BodyOf(n)' = BodyOf(n)
      /\ \A b : Compilable(b)' <=> Compilable(b)
  BY ReadingStays DEF CompileInv, CompileNext
<1>2. PICK fresh : /\ fresh = Fresh(Mentions)
                   /\ byNode' = Numbered(fresh)
                   /\ shapes' = [WithPlaceholders(fresh) EXCEPT ![byNode[Node]] = Compiled(byNode')]
                   /\ pending' = Front(pending) \o fresh
  BY DEF CompileNext
<1>3. pc = "drain" /\ pc' = "drain" /\ pending # <<>> /\ Compilable(Read)
  BY DEF CompileNext
<1>4. /\ Numbering(shapes, byNode)
      /\ pending \in Seq(DOMAIN byNode)
      /\ \A i, j \in DOMAIN pending : pending[i] = pending[j] => i = j
      /\ BodyRight(Node)
  BY DEF CompileInv, Worklist, ReadRight
<1>5. /\ Node \in DOMAIN byNode /\ Node \in ToSet(pending)
      /\ Front(pending) \in Seq(DOMAIN byNode)
      /\ \A i, j \in DOMAIN Front(pending) : Front(pending)[i] = Front(pending)[j] => i = j
      /\ ToSet(Front(pending)) = ToSet(pending) \ {Node}
  BY <1>3, <1>4, LastTaken DEF Node
<1>6. Mentions \in Seq(Nat) /\ ToSet(Mentions) = Successors(Node)
  BY <1>4, MentionsRefer
<1>7. /\ fresh \in Seq(Nat) /\ ToSet(fresh) = Successors(Node) \ DOMAIN byNode
      /\ \A i, j \in DOMAIN fresh : fresh[i] = fresh[j] => i = j
  BY <1>2, <1>6, FreshTyped
<1>8. /\ Numbering(WithPlaceholders(fresh), byNode')
      /\ DOMAIN byNode' = DOMAIN byNode \cup Successors(Node)
      /\ DOMAIN shapes \subseteq DOMAIN WithPlaceholders(fresh)
      /\ \A n \in DOMAIN byNode : byNode'[n] = byNode[n]
      /\ \A i \in DOMAIN shapes : WithPlaceholders(fresh)[i] = shapes[i]
  <2>1. ToSet(fresh) \cap DOMAIN byNode = {}
    BY <1>7
  <2> QED BY <1>2, <1>4, <1>7, <2>1, ArenaGrows
<1>9. /\ Compiled(byNode').node = Node
      /\ ResolvedBy(Compiled(byNode'), Read, byNode')
  BY <1>4, <1>8, CompiledResolves
<1>10. shapes' = [WithPlaceholders(fresh) EXCEPT ![byNode'[Node]] = Compiled(byNode')]
  BY <1>2, <1>5, <1>8
<1>11. Numbering(shapes', byNode') /\ DOMAIN shapes' = DOMAIN WithPlaceholders(fresh)
  BY <1>5, <1>8, <1>9, <1>10, ArenaFilled
<1>12. /\ byNode \in [DOMAIN byNode -> DOMAIN shapes]
       /\ \A n \in DOMAIN byNode : shapes[byNode[n]].node = n
  BY <1>4 DEF Numbering
<1>13. shapes'[byNode'[Node]] = Compiled(byNode')
  BY <1>5, <1>8, <1>10, <1>12
<1>14. \A n \in DOMAIN byNode \ {Node} : shapes'[byNode'[n]] = shapes[byNode[n]]
  BY <1>5, <1>8, <1>10, <1>12
<1>15. /\ pending' \in Seq(DOMAIN byNode')
       /\ ToSet(pending') = (ToSet(pending) \ {Node}) \cup ToSet(fresh)
       /\ \A i, j \in DOMAIN pending' : pending'[i] = pending'[j] => i = j
  <2>1. Front(pending) \in Seq(DOMAIN byNode')
    BY <1>5, <1>8, SeqMonotonic
  <2>2. fresh \in Seq(DOMAIN byNode')
    <3>1. fresh \in Seq(ToSet(fresh)) /\ ToSet(fresh) \subseteq DOMAIN byNode'
      BY <1>7, <1>8, MembersOfSeq
    <3> QED BY <3>1, SeqMonotonic
  <2>3. ToSet(Front(pending)) \cap ToSet(fresh) = {}
    BY <1>4, <1>5, <1>7, MembersOfSeq
  <2>4. /\ Front(pending) \o fresh \in Seq(DOMAIN byNode')
        /\ ToSet(Front(pending) \o fresh) = ToSet(Front(pending)) \cup ToSet(fresh)
    BY <2>1, <2>2, MembersOfBoth
  <2> DEFINE both == Front(pending) \o fresh
  <2>5. \A i, j \in DOMAIN both : both[i] = both[j] => i = j
    BY <1>5, <1>7, <2>1, <2>2, <2>3, BothOnce
  <2>6. pending' = both
    BY <1>2
  <2> HIDE DEF both
  <2>7. both \in Seq(DOMAIN byNode') /\ ToSet(both) = (ToSet(pending) \ {Node}) \cup ToSet(fresh)
    BY <1>5, <2>4 DEF both
  <2> QED BY <2>5, <2>6, <2>7
<1>16. ASSUME NEW n \in DOMAIN byNode' \ ToSet(pending')
       PROVE  Compilable(BodyOf(n)) /\ ResolvedBy(shapes'[byNode'[n]], BodyOf(n), byNode')
  <2>1. n \in DOMAIN byNode /\ (n = Node \/ n \notin ToSet(pending))
    BY <1>7, <1>8, <1>15
  <2>2. CASE n = Node
    BY <1>3, <1>9, <1>13, <2>2 DEF Read
  <2>3. CASE n # Node
    <3>1. Compilable(BodyOf(n)) /\ ResolvedBy(shapes[byNode[n]], BodyOf(n), byNode)
      BY <2>1, <2>3 DEF CompileInv, Worklist
    <3>2. \A c \in ToSet(BodyOf(n).constraints) : c.refs \in Seq(Nat) /\ c.siblings \in Seq(Nat)
      BY DEF CompileInv, ReadRight, BodyRight
    <3>3. ResolvedBy(shapes[byNode[n]], BodyOf(n), byNode')
      BY <1>8, <3>1, <3>2, ResolvedStays
    <3> QED BY <1>14, <2>1, <2>3, <3>1, <3>3
  <2> QED BY <2>2, <2>3
<1>17. Worklist'
  BY <1>1, <1>15, <1>16 DEF Worklist
<1>18. Phases'
  BY <1>1, <1>3, <1>8 DEF CompileInv, Phases
<1>19. NoneBeyond'
  <2> SUFFICES ASSUME NEW T, Sought \subseteq T, \A n \in T : Successors(n) \subseteq T
               PROVE  DOMAIN byNode' \subseteq T
    BY <1>1 DEF NoneBeyond
  <2>1. DOMAIN byNode \subseteq T
    BY DEF CompileInv, NoneBeyond
  <2> QED BY <1>5, <1>8, <2>1
<1> QED BY <1>1, <1>11, <1>17, <1>18, <1>19 DEF CompileInv

\* A body that does not compile is the body of a node with a number.
LEMMA CompileFailsKeeps == CompileInv /\ CompileFails => CompileInv'
<1> SUFFICES ASSUME CompileInv, CompileFails PROVE CompileInv'
  OBVIOUS
<1>1. /\ ReadRight' /\ Sought' = Sought
      /\ \A n : Successors(n)' = Successors(n)
      /\ \A n : BodyOf(n)' = BodyOf(n)
      /\ \A b : Compilable(b)' <=> Compilable(b)
  BY ReadingStays DEF CompileInv, CompileFails
<1>2. /\ shapes' = shapes /\ byNode' = byNode /\ pending' = pending
      /\ pc = "drain" /\ pc' = "failed" /\ pending # <<>> /\ ~Compilable(Read)
  BY DEF CompileFails
<1>3. Node \in DOMAIN byNode
  BY <1>2, LastTaken DEF CompileInv, Worklist, Node
<1>4. \E n \in DOMAIN byNode : ~Compilable(BodyOf(n))
  BY <1>2, <1>3 DEF Read
<1>5. Worklist'
  BY <1>1, <1>2 DEF CompileInv, Worklist
<1>6. Phases'
  BY <1>1, <1>2, <1>4 DEF CompileInv, Phases
<1>7. NoneBeyond'
  BY <1>1, <1>2 DEF CompileInv, NoneBeyond
<1> QED BY <1>1, <1>2, <1>5, <1>6, <1>7 DEF CompileInv

\* The arena is complete when the queue is empty.
LEMMA ChooseRootsKeeps == CompileInv /\ ChooseRoots => CompileInv'
<1> SUFFICES ASSUME CompileInv, ChooseRoots PROVE CompileInv'
  OBVIOUS
<1>1. /\ ReadRight' /\ Sought' = Sought
      /\ \A n : Successors(n)' = Successors(n)
      /\ \A n : BodyOf(n)' = BodyOf(n)
      /\ \A b : Compilable(b)' <=> Compilable(b)
  BY ReadingStays DEF CompileInv, ChooseRoots
<1>2. /\ shapes' = shapes /\ byNode' = byNode /\ pending' = pending
      /\ pc = "drain" /\ pc' = "done" /\ pending = <<>>
  BY DEF ChooseRoots
<1>3. Worklist' /\ Phases' /\ NoneBeyond'
  BY <1>1, <1>2 DEF CompileInv, Worklist, Phases, NoneBeyond
<1> QED BY <1>1, <1>2, <1>3 DEF CompileInv

\* The search, and a step that changes nothing, leave the arena alone.
LEMMA ArenaUntouched == CompileInv /\ UNCHANGED vars => CompileInv'
<1> SUFFICES ASSUME CompileInv, UNCHANGED vars PROVE CompileInv'
  OBVIOUS
<1>1. /\ g' = g /\ reading' = reading /\ shapes' = shapes /\ byNode' = byNode
      /\ pending' = pending /\ pc' = pc
  BY DEF vars
<1>2. /\ ReadRight' /\ Sought' = Sought
      /\ \A n : Successors(n)' = Successors(n)
      /\ \A n : BodyOf(n)' = BodyOf(n)
      /\ \A b : Compilable(b)' <=> Compilable(b)
  BY <1>1, ReadingStays DEF CompileInv
<1>3. Worklist' /\ Phases' /\ NoneBeyond'
  BY <1>1, <1>2 DEF CompileInv, Worklist, Phases, NoneBeyond
<1> QED BY <1>1, <1>2, <1>3 DEF CompileInv

\* Every step keeps the invariant.
LEMMA CompileStep == CompileInv /\ [NextAll]_<<vars, search>> => CompileInv'
BY DiscoverKeeps, CompileNextKeeps, CompileFailsKeeps, ChooseRootsKeeps, ArenaUntouched
   DEF NextAll, Compile, Search, Next

-----------------------------------------------------------------------------
(* What follows for the compiler. *)

\* The invariant of the compiler holds of every state of every run, on every
\* shapes graph.
THEOREM ArenaInvariant == SpecAll => []CompileInv
<1>1. InitAll => CompileInv
  BY InitCompile DEF InitAll
<1> QED BY <1>1, CompileStep, PTL DEF SpecAll

\* shape_id: whatever the graph, every node that was met has one number, every
\* number is one node's, and no node is queued twice.
THEOREM OneNumberEach == SpecAll => []NumbersAgree
<1>1. CompileInv => NumbersAgree
  <2> SUFFICES ASSUME CompileInv PROVE NumbersAgree
    OBVIOUS
  <2>1. /\ byNode \in [DOMAIN byNode -> DOMAIN shapes]
        /\ \A i \in DOMAIN shapes : shapes[i].node \in DOMAIN byNode /\ byNode[shapes[i].node] = i
        /\ \A n \in DOMAIN byNode : shapes[byNode[n]].node = n
    BY DEF CompileInv, Numbering
  <2>2. DOMAIN byNode = {shapes[i].node : i \in DOMAIN shapes}
    <3>1. ASSUME NEW n \in DOMAIN byNode PROVE n \in {shapes[i].node : i \in DOMAIN shapes}
      <4>1. byNode[n] \in DOMAIN shapes /\ n = shapes[byNode[n]].node
        BY <2>1
      <4> QED BY <4>1
    <3>2. ASSUME NEW x \in {shapes[i].node : i \in DOMAIN shapes} PROVE x \in DOMAIN byNode
      BY <2>1
    <3> QED BY <3>1, <3>2
  <2> QED BY <2>1, <2>2 DEF CompileInv, Worklist, NumbersAgree
<1> QED BY <1>1, ArenaInvariant, PTL

\* drain: compiling fails on a graph with a malformed statement at a shape that
\* is found, and on no other.
THEOREM MalformedFails == SpecAll => []FailsOnMalformed
<1>1. CompileInv => FailsOnMalformed
  <2> SUFFICES ASSUME CompileInv PROVE FailsOnMalformed
    OBVIOUS
  <2>1. pc = "failed" => \E n \in DOMAIN byNode : ~Readable(n)
    BY DEF CompileInv, Phases, Readable
  <2>2. ASSUME Done, NEW n \in DOMAIN byNode PROVE Readable(n)
    <3>1. pending = <<>>
      BY <2>2 DEF CompileInv, Phases, Done
    <3>2. n \in DOMAIN byNode \ ToSet(pending)
      BY <3>1 DEF ToSet
    <3> QED BY <3>2 DEF CompileInv, Worklist, Readable
  <2> QED BY <2>1, <2>2 DEF FailsOnMalformed
<1> QED BY <1>1, ArenaInvariant, PTL

\* Once the queue is empty, every shape is compiled, and what its body refers
\* to has a number.
LEMMA AllCompiled ==
    ASSUME CompileInv, Done
    PROVE  \A n \in DOMAIN byNode :
               ResolvedBy(shapes[byNode[n]], BodyOf(n), byNode) /\ Successors(n) \subseteq DOMAIN byNode
<1> SUFFICES ASSUME NEW n \in DOMAIN byNode
             PROVE  /\ ResolvedBy(shapes[byNode[n]], BodyOf(n), byNode)
                    /\ Successors(n) \subseteq DOMAIN byNode
  OBVIOUS
<1>1. pending = <<>>
  BY DEF CompileInv, Phases, Done
<1>2. n \in DOMAIN byNode \ ToSet(pending)
  BY <1>1 DEF ToSet
<1>3. ResolvedBy(shapes[byNode[n]], BodyOf(n), byNode)
  BY <1>2 DEF CompileInv, Worklist
<1> DEFINE cs == BodyOf(n).constraints
<1>4. \A k \in DOMAIN cs : ToSet(cs[k].refs) \cup ToSet(cs[k].siblings) \subseteq DOMAIN byNode
  BY <1>3 DEF ResolvedBy
<1>5. UNION {ToSet(c.refs) \cup ToSet(c.siblings) : c \in ToSet(cs)} = Successors(n)
  BY DEF CompileInv, ReadRight, BodyRight
<1> HIDE DEF cs
<1>6. \A c \in ToSet(cs) : ToSet(c.refs) \cup ToSet(c.siblings) \subseteq DOMAIN byNode
  <2> TAKE c \in ToSet(cs)
  <2>1. PICK k \in DOMAIN cs : cs[k] = c
    BY DEF ToSet
  <2> QED BY <1>4, <2>1
<1> QED BY <1>3, <1>5, <1>6

\* run: the compiler finds the nodes that announce themselves as shapes, but for
\* those whose only announcement it does not look for, and what active
\* statements refer to from there, all of them and no more.
THEOREM FindsTheReachable == SpecAll => []FoundIsReachable
<1>1. CompileInv => FoundIsReachable
  <2> SUFFICES ASSUME CompileInv, Done
               PROVE  /\ Closed(DOMAIN byNode, Sought, Successors)
                      /\ \A T \in SUBSET DOMAIN byNode :
                             Closed(T, Sought, Successors) => T = DOMAIN byNode
    BY SoughtIsAnnounced DEF FoundIsReachable
  <2>1. Sought \subseteq DOMAIN byNode
    BY DEF CompileInv, Phases, Done
  <2>2. \A n \in DOMAIN byNode : Successors(n) \subseteq DOMAIN byNode
    BY AllCompiled
  <2>3. ASSUME NEW T \in SUBSET DOMAIN byNode, Sought \subseteq T,
               \A n \in T : Successors(n) \subseteq T
        PROVE  T = DOMAIN byNode
    BY <2>3 DEF CompileInv, NoneBeyond
  <2> QED BY <2>1, <2>2, <2>3 DEF Closed
<1> QED BY <1>1, ArenaInvariant, PTL

\* The nodes that have these numbers.
Names(numbers) == {shapes[j].node : j \in numbers}

\* A compiled constraint has the numbers of the nodes it named.
LEMMA ResolvedNames ==
    ASSUME Numbering(shapes, byNode), NEW named, NEW made,
           named.refs \in Seq(Nat), named.siblings \in Seq(Nat),
           ToSet(named.refs) \cup ToSet(named.siblings) \subseteq DOMAIN byNode,
           made.ids = [i \in DOMAIN named.refs |-> byNode[named.refs[i]]],
           made.siblings = Ascending({byNode[n] : n \in ToSet(named.siblings)})
    PROVE  /\ made.ids \o made.siblings \in Seq(DOMAIN shapes)
           /\ Names(ToSet(made.ids \o made.siblings)) = ToSet(named.refs) \cup ToSet(named.siblings)
<1> DEFINE ids == made.ids
           beside == made.siblings
           refs == named.refs
           numbers == {byNode[n] : n \in ToSet(named.siblings)}
<1>1. /\ byNode \in [DOMAIN byNode -> DOMAIN shapes]
      /\ \A n \in DOMAIN byNode : shapes[byNode[n]].node = n
      /\ Len(shapes) \in Nat /\ DOMAIN shapes = 1 .. Len(shapes)
  BY LenProperties DEF Numbering
<1>2. /\ Len(refs) \in Nat /\ DOMAIN refs = 1 .. Len(refs)
      /\ \A i \in DOMAIN refs : refs[i] \in ToSet(refs)
  BY LenProperties, MembersOfSeq
<1>3. \A i \in DOMAIN refs : refs[i] \in DOMAIN byNode
  BY <1>2
<1>4. ids \in [1 .. Len(refs) -> DOMAIN shapes]
  BY <1>1, <1>2, <1>3
<1>5. ids \in Seq(DOMAIN shapes) /\ DOMAIN ids = DOMAIN refs
  BY <1>2, <1>4, FunctionIsSeq
<1>6. \A i \in DOMAIN refs : ids[i] = byNode[refs[i]]
  OBVIOUS
<1>7. Names(ToSet(ids)) = ToSet(refs)
  <2>1. \A i \in DOMAIN refs : shapes[ids[i]].node = refs[i]
    BY <1>1, <1>3, <1>6
  <2> HIDE DEF ids, refs
  <2>2. ASSUME NEW x \in ToSet(refs) PROVE x \in Names(ToSet(ids))
    <3>1. PICK i \in DOMAIN refs : refs[i] = x
      BY DEF ToSet
    <3>2. ids[i] \in ToSet(ids) /\ shapes[ids[i]].node = x
      BY <1>5, <2>1, <3>1 DEF ToSet
    <3> QED BY <3>2 DEF Names
  <2>3. ASSUME NEW x \in Names(ToSet(ids)) PROVE x \in ToSet(refs)
    <3>1. PICK j \in ToSet(ids) : shapes[j].node = x
      BY DEF Names
    <3>2. PICK i \in DOMAIN ids : ids[i] = j
      BY DEF ToSet
    <3> QED BY <1>5, <2>1, <3>1, <3>2 DEF ToSet
  <2> QED BY <2>2, <2>3
<1>8. numbers \in SUBSET DOMAIN shapes
  BY <1>1
<1>9. beside \in Seq(DOMAIN shapes) /\ ToSet(beside) = numbers
  <2> HIDE DEF numbers
  <2> DEFINE all == DOMAIN shapes
  <2>0. all = 1 .. Len(shapes) /\ Len(shapes) \in Nat /\ numbers \in SUBSET all
    BY <1>1, <1>8
  <2> HIDE DEF all
  <2>1. IsFiniteSet(all) /\ all \subseteq Nat /\ numbers \in SUBSET all
    <3>1. IsFiniteSet(1 .. Len(shapes))
      BY <2>0, FS_Interval
    <3>2. 1 .. Len(shapes) \subseteq Nat
      BY <2>0
    <3> QED BY <2>0, <3>1, <3>2
  <2>2. numbers \in SUBSET Nat
    BY <2>1
  <2>3. IsFiniteSet(numbers)
    BY <2>1, FS_Subset
  <2>4. Ascending(numbers) \in Seq(numbers) /\ ToSet(Ascending(numbers)) = numbers
    BY <2>2, <2>3, AscendingOrder
  <2>5. Ascending(numbers) \in Seq(all)
    BY <2>1, <2>4, SeqMonotonic
  <2>6. beside = Ascending(numbers)
    BY DEF numbers
  <2> QED BY <2>4, <2>5, <2>6 DEF all
<1>10. Names(numbers) = ToSet(named.siblings)
  <2>1. \A n \in ToSet(named.siblings) : shapes[byNode[n]].node = n
    BY <1>1
  <2> QED BY <2>1 DEF Names
<1> HIDE DEF ids, beside, refs, numbers
<1>11. ids \o beside \in Seq(DOMAIN shapes) /\ ToSet(ids \o beside) = ToSet(ids) \cup ToSet(beside)
  BY <1>5, <1>9, MembersOfBoth
<1>12. Names(ToSet(ids) \cup ToSet(beside)) = Names(ToSet(ids)) \cup Names(ToSet(beside))
  BY DEF Names
<1> QED BY <1>7, <1>9, <1>10, <1>11, <1>12 DEF ids, beside, refs

\* The numbers a constraint and a target give the search.
GivesNumbers(f, made) == f = [c \in ToSet(made) |-> c.ids \o c.siblings]
GivesWhere(h, targets) ==
    h = [t \in ToSet(targets) |-> IF t.kind = "where" /\ t.term \in DOMAIN byNode
                                  THEN <<byNode[t.term]>> ELSE <<>>]

\* What the constraints of a compiled shape refer to.
LEMMA ConstraintsName ==
    ASSUME CompileInv, Done, NEW i \in DOMAIN shapes,
           NEW f, GivesNumbers(f, shapes[i].constraints)
    PROVE  /\ Each(f, shapes[i].constraints) \in Seq(DOMAIN shapes)
           /\ Names(ToSet(Each(f, shapes[i].constraints))) = Successors(shapes[i].node)
<1> DEFINE n == shapes[i].node
           named == BodyOf(n).constraints
           made == shapes[i].constraints
           to(d) == ToSet(d.refs) \cup ToSet(d.siblings)
<1>1. /\ Numbering(shapes, byNode)
      /\ n \in DOMAIN byNode /\ byNode[n] = i
  BY DEF CompileInv, Numbering
<1>2. ResolvedBy(shapes[i], BodyOf(n), byNode)
  BY <1>1, AllCompiled
<1>3. /\ \A d \in ToSet(named) : d.refs \in Seq(Nat) /\ d.siblings \in Seq(Nat)
      /\ UNION {to(d) : d \in ToSet(named)} = Successors(n)
  BY DEF CompileInv, ReadRight, BodyRight
<1>4. made \in Seq(ToSet(made)) /\ DOMAIN made = DOMAIN named
  BY <1>2 DEF ResolvedBy
<1>5. ASSUME NEW k \in DOMAIN named
      PROVE  /\ made[k].ids \o made[k].siblings \in Seq(DOMAIN shapes)
             /\ Names(ToSet(made[k].ids \o made[k].siblings)) = to(named[k])
  <2>1. /\ to(named[k]) \subseteq DOMAIN byNode
        /\ made[k].ids = [j \in DOMAIN named[k].refs |-> byNode[named[k].refs[j]]]
        /\ made[k].siblings = Ascending({byNode[x] : x \in ToSet(named[k].siblings)})
    BY <1>2 DEF ResolvedBy
  <2>2. named[k] \in ToSet(named)
    BY DEF ToSet
  <2>3. named[k].refs \in Seq(Nat) /\ named[k].siblings \in Seq(Nat)
    BY <1>3, <2>2
  <2> QED BY <1>1, <2>1, <2>3, ResolvedNames
<1>6. ASSUME NEW c \in ToSet(made)
      PROVE  /\ f[c] \in Seq(DOMAIN shapes)
             /\ \E d \in ToSet(named) : Names(ToSet(f[c])) = to(d)
  <2>1. PICK k \in DOMAIN made : made[k] = c
    BY DEF ToSet
  <2>2. f[c] = made[k].ids \o made[k].siblings
    BY <2>1 DEF GivesNumbers
  <2>3. named[k] \in ToSet(named)
    BY <1>4 DEF ToSet
  <2> QED BY <1>4, <1>5, <2>2, <2>3
<1>7. ASSUME NEW d \in ToSet(named)
      PROVE  \E c \in ToSet(made) : Names(ToSet(f[c])) = to(d)
  <2>1. PICK k \in DOMAIN named : named[k] = d
    BY DEF ToSet
  <2>2. made[k] \in ToSet(made)
    BY <1>4, <2>1 DEF ToSet
  <2>3. f[made[k]] = made[k].ids \o made[k].siblings
    BY <2>2 DEF GivesNumbers
  <2>4. Names(ToSet(f[made[k]])) = to(d)
    BY <1>5, <2>1, <2>3
  <2> QED BY <2>2, <2>4
<1> HIDE DEF n, named, made, to
<1>8. f \in [ToSet(made) -> Seq(DOMAIN shapes)]
  <2>1. DOMAIN f = ToSet(made) /\ f = [c \in ToSet(made) |-> f[c]]
    BY DEF made, GivesNumbers
  <2> QED BY <1>6, <2>1
<1>9. /\ Each(f, made) \in Seq(DOMAIN shapes)
      /\ ToSet(Each(f, made)) = Held(f, ToSet(made))
  BY <1>4, <1>8, EachMembers
<1>10. Names(Held(f, ToSet(made))) = UNION {to(d) : d \in ToSet(named)}
  <2>1. ASSUME NEW x \in Names(Held(f, ToSet(made))) PROVE x \in UNION {to(d) : d \in ToSet(named)}
    <3>1. PICK j \in Held(f, ToSet(made)) : x = shapes[j].node
      BY DEF Names
    <3>2. PICK c \in ToSet(made) : j \in ToSet(f[c])
      BY DEF Held
    <3>3. x \in Names(ToSet(f[c]))
      BY <3>1, <3>2 DEF Names
    <3> QED BY <1>6, <3>3
  <2>2. ASSUME NEW d \in ToSet(named), NEW x \in to(d) PROVE x \in Names(Held(f, ToSet(made)))
    <3>1. PICK c \in ToSet(made) : x \in Names(ToSet(f[c]))
      BY <1>7
    <3>2. ToSet(f[c]) \subseteq Held(f, ToSet(made))
      BY DEF Held
    <3> QED BY <3>1, <3>2 DEF Names
  <2> QED BY <2>1, <2>2
<1> QED BY <1>3, <1>9, <1>10 DEF made, n

\* What the targets of a compiled shape refer to, of what is a shape.
LEMMA TargetsName ==
    ASSUME CompileInv, Done, NEW i \in DOMAIN shapes,
           NEW h, GivesWhere(h, shapes[i].targets)
    PROVE  /\ Each(h, shapes[i].targets) \in Seq(DOMAIN shapes)
           /\ Names(ToSet(Each(h, shapes[i].targets)))
                = ObjectSet(shapes[i].node, "targetWhere") \cap DOMAIN byNode
<1> DEFINE n == shapes[i].node
           targets == shapes[i].targets
<1>1. /\ byNode \in [DOMAIN byNode -> DOMAIN shapes]
      /\ \A m \in DOMAIN byNode : shapes[byNode[m]].node = m
      /\ n \in DOMAIN byNode /\ byNode[n] = i
  BY DEF CompileInv, Numbering
<1>2. targets = BodyOf(n).targets
  BY <1>1, AllCompiled DEF ResolvedBy
<1>3. targets \in Seq(ToSet(targets)) /\ Wheres(targets) = ObjectSet(n, "targetWhere")
  BY <1>2 DEF CompileInv, ReadRight, BodyRight
<1>4. ToSet(<<>>) = {} /\ \A x : ToSet(<<x>>) = {x}
  BY DEF ToSet
<1>5. DOMAIN h = ToSet(targets) /\ h = [t \in ToSet(targets) |-> h[t]]
  BY DEF GivesWhere
<1>6. \A t \in ToSet(targets) :
         \/ t.kind = "where" /\ t.term \in DOMAIN byNode /\ h[t] = <<byNode[t.term]>>
         \/ ~(t.kind = "where" /\ t.term \in DOMAIN byNode) /\ h[t] = <<>>
  BY DEF GivesWhere
<1> HIDE DEF targets, n
<1>7. ASSUME NEW t \in ToSet(targets)
      PROVE  h[t] \in Seq(DOMAIN shapes)
  <2>1. CASE t.kind = "where" /\ t.term \in DOMAIN byNode /\ h[t] = <<byNode[t.term]>>
    <3>1. byNode[t.term] \in DOMAIN shapes
      BY <1>1, <2>1
    <3>2. <<byNode[t.term]>> \in Seq(DOMAIN shapes)
      BY <3>1
    <3> QED BY <2>1, <3>2
  <2>2. CASE h[t] = <<>>
    BY <2>2, EmptySeq
  <2> QED BY <1>6, <2>1, <2>2
<1>8. h \in [ToSet(targets) -> Seq(DOMAIN shapes)]
  BY <1>5, <1>7
<1>9. /\ Each(h, targets) \in Seq(DOMAIN shapes)
      /\ ToSet(Each(h, targets)) = Held(h, ToSet(targets))
  BY <1>3, <1>8, EachMembers
<1>10. ASSUME NEW x \in Names(Held(h, ToSet(targets))) PROVE x \in Wheres(targets) \cap DOMAIN byNode
  <2>1. PICK j \in Held(h, ToSet(targets)) : x = shapes[j].node
    BY DEF Names
  <2>2. PICK t \in ToSet(targets) : j \in ToSet(h[t])
    BY DEF Held
  <2>3. t.kind = "where" /\ t.term \in DOMAIN byNode /\ j = byNode[t.term]
    BY <1>4, <1>6, <2>2
  <2>4. x = t.term
    BY <1>1, <2>1, <2>3
  <2> QED BY <2>3, <2>4 DEF Wheres
<1>11. ASSUME NEW x \in Wheres(targets) \cap DOMAIN byNode PROVE x \in Names(Held(h, ToSet(targets)))
  <2>1. PICK t \in ToSet(targets) : t.kind = "where" /\ t.term = x
    BY DEF Wheres
  <2>2. byNode[x] \in ToSet(h[t])
    BY <1>4, <1>6, <2>1
  <2>3. byNode[x] \in Held(h, ToSet(targets)) /\ shapes[byNode[x]].node = x
    BY <1>1, <2>2 DEF Held
  <2> QED BY <2>3 DEF Names
<1> QED BY <1>3, <1>9, <1>10, <1>11 DEF targets, n

\* The children the search follows from a shape are the shapes its statements
\* name.
LEMMA ChildrenRefer ==
    ASSUME CompileInv, Done, NEW i \in DOMAIN shapes
    PROVE  /\ Children[i] \in Seq(DOMAIN shapes)
           /\ Names(ToSet(Children[i])) = RefersTo(shapes[i].node)
<1> DEFINE made == shapes[i].constraints
           targets == shapes[i].targets
           f == [c \in ToSet(made) |-> c.ids \o c.siblings]
           h == [t \in ToSet(targets) |->
                    IF t.kind = "where" /\ t.term \in DOMAIN byNode
                    THEN <<byNode[t.term]>> ELSE <<>>]
<1>1. (\A k \in DOMAIN made : made[k] \in ToSet(made))
      /\ (\A k \in DOMAIN targets : targets[k] \in ToSet(targets))
  BY DEF ToSet
<1>2. [k \in DOMAIN made |-> f[made[k]]] = [k \in DOMAIN made |-> made[k].ids \o made[k].siblings]
  BY <1>1
<1>3. [k \in DOMAIN targets |-> h[targets[k]]]
        = [k \in DOMAIN targets |->
              IF targets[k].kind = "where" /\ targets[k].term \in DOMAIN byNode
              THEN <<byNode[targets[k].term]>> ELSE <<>>]
  BY <1>1
<1>4. /\ Each(f, made) \in Seq(DOMAIN shapes)
      /\ Names(ToSet(Each(f, made))) = Successors(shapes[i].node)
  <2>1. GivesNumbers(f, made)
    BY DEF GivesNumbers
  <2> HIDE DEF f
  <2> QED BY <2>1, ConstraintsName
<1>5. /\ Each(h, targets) \in Seq(DOMAIN shapes)
      /\ Names(ToSet(Each(h, targets))) = ObjectSet(shapes[i].node, "targetWhere") \cap DOMAIN byNode
  <2>1. GivesWhere(h, targets)
    BY DEF GivesWhere
  <2> HIDE DEF h
  <2> QED BY <2>1, TargetsName
<1>6. Children[i] = Each(f, made) \o Each(h, targets)
  <2> HIDE DEF f, h
  <2> QED BY <1>2, <1>3 DEF Children, ReferencedShapes, EachOf, Each
<1> HIDE DEF f, h, made, targets
<1>7. /\ Children[i] \in Seq(DOMAIN shapes)
      /\ ToSet(Children[i]) = ToSet(Each(f, made)) \cup ToSet(Each(h, targets))
  BY <1>4, <1>5, <1>6, MembersOfBoth
<1>8. Names(ToSet(Children[i])) = Names(ToSet(Each(f, made))) \cup Names(ToSet(Each(h, targets)))
  BY <1>7 DEF Names
<1> QED BY <1>4, <1>5, <1>7, <1>8 DEF RefersTo

\* compile_shape, referenced_shapes: once the queue is empty, the numbers a
\* shape holds are those of the nodes its own statements name, though the
\* arena was still growing when they were given.
THEOREM NumbersResolve == SpecAll => []ReferencesResolve
<1>1. CompileInv => ReferencesResolve
  <2> SUFFICES ASSUME CompileInv, Done, NEW i \in DOMAIN shapes
               PROVE  {shapes[j].node : j \in ToSet(Children[i])} = RefersTo(shapes[i].node)
    BY DEF ReferencesResolve
  <2> QED BY ChildrenRefer DEF Names
<1> QED BY <1>1, ArenaInvariant, PTL

-----------------------------------------------------------------------------
(* The search over the finished arena. *)

\* Every child is a shape.
Arena == \E n \in Nat : Children \in [1 .. n -> Seq(1 .. n)]

ChildrenOf(s) == {Children[s][i] : i \in DOMAIN Children[s]}

ClosedUnderChildren(S) == \A s \in S : ChildrenOf(s) \subseteq S

\* A shape is in every set of shapes that holds its children and theirs.
ReachesItself(s) ==
    \A S \in SUBSET Cycle!Shapes :
        ChildrenOf(s) \subseteq S /\ ClosedUnderChildren(S) => s \in S

\* The search tells whether some shape reaches itself.
SearchAnswers ==
    /\ answer = "cycle" => \E s \in Cycle!Shapes : ReachesItself(s)
    /\ answer = "acyclic" => \A s \in Cycle!Shapes : ~ReachesItself(s)

Frame == [at : Cycle!Shapes, next : Nat]

SearchTyped ==
    /\ Arena
    /\ start \in 1 .. (Len(Children) + 1)
    /\ stack \in Seq(Frame)
    /\ grey \subseteq Cycle!Shapes
    /\ black \subseteq Cycle!Shapes
    /\ answer \in {"none", "cycle", "acyclic"}

\* The stack is a path, and grey are the shapes on it.
Path ==
    /\ grey = {stack[k].at : k \in 1 .. Len(stack)}
    /\ \A j, k \in 1 .. Len(stack) : stack[j].at = stack[k].at => j = k
    /\ \A k \in 1 .. Len(stack) : stack[k].next \in 1 .. (Len(Children[stack[k].at]) + 1)
    /\ \A k \in 1 .. (Len(stack) - 1) :
           /\ stack[k].next > 1
           /\ Children[stack[k].at][stack[k].next - 1] = stack[k + 1].at

\* The children a shape on the path has behind it, but for the next on the
\* path, are done, and what is done is done with all it refers to.
Behind ==
    /\ grey \cap black = {}
    /\ \A k \in 1 .. Len(stack) : \A i \in 1 .. (stack[k].next - 1) :
           Children[stack[k].at][i] \in black \/ (k < Len(stack) /\ i = stack[k].next - 1)
    /\ ClosedUnderChildren(black)
    /\ \A s \in black : ~ReachesItself(s)
    /\ \A s \in 1 .. (start - 1) : s \in grey \cup black

SearchInv ==
    /\ SearchTyped
    /\ answer = "none" => Path /\ Behind
    /\ SearchAnswers
-----------------------------------------------------------------------------

\* The arena has as many shapes as it has lists of children.
LEMMA ArenaShapes ==
    ASSUME Arena
    PROVE  /\ Len(Children) \in Nat
           /\ Cycle!Shapes = 1 .. Len(Children)
           /\ \A s \in Cycle!Shapes : Children[s] \in Seq(Cycle!Shapes)
<1>1. PICK n \in Nat : Children \in [1 .. n -> Seq(1 .. n)]
  BY DEF Arena
<1>2. Len(Children) = n
  BY <1>1
<1> QED BY <1>1, <1>2 DEF Cycle!Shapes

\* A child of the top of the path that is on the path reaches itself: a set
\* that holds what it refers to and what that refers to holds all the path
\* above it.
LEMMA GreyChildCloses ==
    ASSUME SearchTyped, Path, stack # <<>>, Cycle!Top.next <= Len(Children[Cycle!Top.at]),
           Children[Cycle!Top.at][Cycle!Top.next] \in grey
    PROVE  ReachesItself(Children[Cycle!Top.at][Cycle!Top.next])
<1> DEFINE child == Children[Cycle!Top.at][Cycle!Top.next]
           len == Len(stack)
<1>1. len \in Nat \ {0} /\ \A k \in 1 .. len : stack[k] \in Frame
  BY ElementOfSeq, EmptySeq DEF SearchTyped
<1>2. PICK base \in 1 .. len : stack[base].at = child
  BY <1>1 DEF Path
<1>3. SUFFICES ASSUME NEW S \in SUBSET Cycle!Shapes, ChildrenOf(child) \subseteq S,
                      ClosedUnderChildren(S), child \notin S
               PROVE  FALSE
  BY DEF ReachesItself
<1>4. \A s \in Cycle!Shapes : Children[s] \in Seq(Cycle!Shapes)
  BY ArenaShapes DEF SearchTyped
<1>5. ASSUME NEW k \in base .. (len - 1)
      PROVE  stack[k + 1].at \in ChildrenOf(stack[k].at)
  <2> DEFINE list == Children[stack[k].at]
  <2>1. k \in 1 .. (len - 1) /\ k \in 1 .. len /\ stack[k] \in Frame
    BY <1>1, <1>2
  <2>2. list \in Seq(Cycle!Shapes) /\ stack[k].next \in Nat
    BY <1>4, <2>1 DEF Frame
  <2>3. stack[k].next > 1 /\ stack[k].next <= Len(list) + 1
        /\ list[stack[k].next - 1] = stack[k + 1].at
    BY <2>1 DEF Path
  <2>4. Len(list) \in Nat /\ DOMAIN list = 1 .. Len(list)
    BY <2>2, LenProperties
  <2> HIDE DEF list
  <2>5. stack[k].next - 1 \in DOMAIN list
    BY <2>2, <2>3, <2>4
  <2> QED BY <2>3, <2>5 DEF ChildrenOf, list
<1>6. child \in ChildrenOf(Cycle!Top.at)
  <2>0. len \in 1 .. len /\ Cycle!Top = stack[len]
    BY <1>1 DEF Cycle!Top
  <2>1. Cycle!Top \in Frame /\ Cycle!Top.next >= 1
    BY <1>1, <2>0 DEF Path
  <2>2. Children[Cycle!Top.at] \in Seq(Cycle!Shapes)
    BY <1>4, <2>1 DEF Frame
  <2> QED BY <2>1, <2>2, LenProperties DEF ChildrenOf, Frame
<1>7. \A k \in base .. len : ChildrenOf(stack[k].at) \subseteq S
  <2> DEFINE Bad == {k \in base .. len : ~(ChildrenOf(stack[k].at) \subseteq S)}
  <2> SUFFICES ASSUME Bad # {} PROVE FALSE
    OBVIOUS
  <2>0. Bad \subseteq Nat
    BY <1>1, <1>2
  <2>1. PICK m \in Bad : \A k \in Bad : m <= k
    BY <2>0, LeastNumber
  <2>2. m # base
    BY <1>2, <1>3, <2>1
  <2>3. m - 1 \in base .. (len - 1) /\ m - 1 \notin Bad
    BY <1>1, <1>2, <2>1, <2>2
  <2>4. ChildrenOf(stack[m - 1].at) \subseteq S /\ m - 1 + 1 = m
    BY <1>1, <1>2, <2>3
  <2>5. stack[m].at \in S
    BY <1>5, <2>3, <2>4
  <2> QED BY <1>3, <2>1, <2>5 DEF ClosedUnderChildren
<1> QED BY <1>1, <1>2, <1>3, <1>6, <1>7 DEF Cycle!Top

\* What the search never changes.
LEMMA FixedStep ==
    ASSUME Cycle!NextSearch
    PROVE  /\ Children' = Children
           /\ Cycle!Shapes' = Cycle!Shapes
           /\ Arena <=> Arena'
           /\ \A S : ClosedUnderChildren(S)' <=> ClosedUnderChildren(S)
           /\ \A s : ReachesItself(s)' <=> ReachesItself(s)
<1>1. Children' = Children
  BY DEF Cycle!NextSearch, Cycle!NextStart, Cycle!FollowChild, Cycle!CloseShape, Cycle!NoneLeft
<1> QED BY <1>1 DEF Cycle!Shapes, Arena, ClosedUnderChildren, ReachesItself, ChildrenOf

\* The path without its top, and with the top moved on to its next child.
LEMMA TopFrame ==
    ASSUME SearchTyped, stack # <<>>
    PROVE  LET len == Len(stack)
               advanced == Append(Cycle!Below, [Cycle!Top EXCEPT !.next = @ + 1])
           IN  /\ len \in Nat \ {0} /\ Cycle!Top = stack[len] /\ Cycle!Top \in Frame
               /\ \A k \in 1 .. len : stack[k] \in Frame
               /\ Cycle!Below \in Seq(Frame) /\ Len(Cycle!Below) = len - 1
               /\ \A k \in 1 .. (len - 1) : Cycle!Below[k] = stack[k]
               /\ advanced \in Seq(Frame) /\ Len(advanced) = len
               /\ \A k \in 1 .. (len - 1) : advanced[k] = stack[k]
               /\ advanced[len].at = Cycle!Top.at /\ advanced[len].next = Cycle!Top.next + 1
<1> DEFINE len == Len(stack)
           next == [Cycle!Top EXCEPT !.next = @ + 1]
<1>1. len \in Nat \ {0} /\ \A k \in 1 .. len : stack[k] \in Frame
  BY ElementOfSeq, EmptySeq DEF SearchTyped
<1>2. Cycle!Top = stack[len] /\ Cycle!Top \in Frame
  BY <1>1 DEF Cycle!Top
<1>3. next \in Frame /\ next.at = Cycle!Top.at /\ next.next = Cycle!Top.next + 1
  BY <1>2 DEF Frame
<1>4. /\ Cycle!Below \in Seq(Frame) /\ Len(Cycle!Below) = len - 1
      /\ \A k \in 1 .. (len - 1) : Cycle!Below[k] = stack[k]
  <2> DEFINE n == len - 1
  <2>1. n \in Nat /\ \A k \in 1 .. n : stack[k] \in Frame
    BY <1>1
  <2> HIDE DEF n
  <2>2. /\ SubSeq(stack, 1, n) \in Seq(Frame)
        /\ Len(SubSeq(stack, 1, n)) = IF 1 <= n THEN n - 1 + 1 ELSE 0
        /\ \A k \in 1 .. (n - 1 + 1) : SubSeq(stack, 1, n)[k] = stack[1 + k - 1]
    BY <2>1, SubSeqProperties
  <2>3. n - 1 + 1 = n /\ \A k \in 1 .. n : 1 + k - 1 = k
    BY <2>1
  <2>4. /\ SubSeq(stack, 1, n) \in Seq(Frame) /\ Len(SubSeq(stack, 1, n)) = n
        /\ \A k \in 1 .. n : SubSeq(stack, 1, n)[k] = stack[k]
    BY <2>1, <2>2, <2>3
  <2> QED BY <2>4 DEF Cycle!Below, n
<1> HIDE DEF next
<1>5. /\ Append(Cycle!Below, next) \in Seq(Frame) /\ Len(Append(Cycle!Below, next)) = len
      /\ \A k \in 1 .. (len - 1) : Append(Cycle!Below, next)[k] = stack[k]
      /\ Append(Cycle!Below, next)[len] = next
  BY <1>1, <1>3, <1>4, AppendProperties
<1> QED BY <1>1, <1>2, <1>3, <1>4, <1>5 DEF next

\* The outer loop takes up a shape that is white, and passes the others by.
LEMMA NextStartKeeps == SearchInv /\ Cycle!NextStart => SearchInv'
<1> SUFFICES ASSUME SearchInv, Cycle!NextStart PROVE SearchInv'
  OBVIOUS
<1>1. /\ SearchTyped /\ Path /\ Behind /\ stack = <<>> /\ answer = "none"
      /\ start \in Cycle!Shapes /\ start' = start + 1 /\ answer' = answer /\ black' = black
  BY DEF SearchInv, Cycle!NextStart, Cycle!Searching
<1>2. /\ Children' = Children /\ Cycle!Shapes' = Cycle!Shapes /\ Arena'
      /\ ClosedUnderChildren(black)' <=> ClosedUnderChildren(black)
      /\ \A s : ReachesItself(s)' <=> ReachesItself(s)
  <2>1. Cycle!NextSearch
    BY DEF Cycle!NextSearch
  <2>2. ClosedUnderChildren(black)' <=> ClosedUnderChildren(black)
    BY <1>1, <2>1, FixedStep DEF ClosedUnderChildren, ChildrenOf
  <2> QED BY <1>1, <2>1, <2>2, FixedStep DEF SearchTyped
<1>3. Len(Children) \in Nat /\ Cycle!Shapes = 1 .. Len(Children)
      /\ \A s \in Cycle!Shapes : Children[s] \in Seq(Cycle!Shapes)
  BY <1>1, ArenaShapes DEF SearchTyped
<1>4. start' \in 1 .. (Len(Children)' + 1)
  BY <1>1, <1>2, <1>3
<1>5. SearchAnswers'
  BY <1>1 DEF SearchAnswers
<1>6. Len(stack) = 0 /\ grey = {}
  BY <1>1 DEF Path
<1>7. CASE start \in grey \cup black
  <2>1. stack' = stack /\ grey' = grey
    BY <1>7 DEF Cycle!NextStart
  <2>2. SearchTyped' /\ Path'
    BY <1>1, <1>2, <1>4, <2>1 DEF SearchTyped, Path, Frame
  <2>3. Behind'
    BY <1>1, <1>2, <1>3, <1>6, <1>7, <2>1 DEF Behind
  <2> QED BY <1>5, <2>2, <2>3 DEF SearchInv
<1>8. CASE start \notin grey \cup black
  <2>1. stack' = <<[at |-> start, next |-> 1]>> /\ grey' = {start}
    BY <1>6, <1>8 DEF Cycle!NextStart
  <2>2. Len(stack') = 1 /\ stack'[1].at = start /\ stack'[1].next = 1
    BY <2>1
  <2>3. SearchTyped'
    BY <1>1, <1>2, <1>4, <2>1 DEF SearchTyped, Frame
  <2>4. Path'
    <3>1. Len(Children[start]) \in Nat
      BY <1>1, <1>3, LenProperties
    <3> QED BY <1>1, <1>2, <2>1, <2>2, <3>1 DEF Path
  <2>5. Behind'
    BY <1>1, <1>2, <1>3, <1>6, <1>8, <2>1, <2>2 DEF Behind
  <2> QED BY <1>5, <2>3, <2>4, <2>5 DEF SearchInv
<1> QED BY <1>7, <1>8

\* A child is looked at: on the path it closes a cycle, done it is passed by,
\* white it becomes the path's new top.
LEMMA FollowChildKeeps == SearchInv /\ Cycle!FollowChild => SearchInv'
<1> SUFFICES ASSUME SearchInv, Cycle!FollowChild PROVE SearchInv'
  OBVIOUS
<1> DEFINE child == Children[Cycle!Top.at][Cycle!Top.next]
           advanced == Append(Cycle!Below, [Cycle!Top EXCEPT !.next = @ + 1])
           len == Len(stack)
<1>1. /\ SearchTyped /\ Path /\ Behind /\ stack # <<>> /\ answer = "none"
      /\ Cycle!Top.next <= Len(Children[Cycle!Top.at]) /\ start' = start /\ black' = black
  BY DEF SearchInv, Cycle!FollowChild, Cycle!Searching
<1>2. /\ Children' = Children /\ Cycle!Shapes' = Cycle!Shapes /\ Arena'
      /\ ClosedUnderChildren(black)' <=> ClosedUnderChildren(black)
      /\ \A s : ReachesItself(s)' <=> ReachesItself(s)
  <2>1. Cycle!NextSearch
    BY DEF Cycle!NextSearch
  <2>2. ClosedUnderChildren(black)' <=> ClosedUnderChildren(black)
    BY <1>1, <2>1, FixedStep DEF ClosedUnderChildren, ChildrenOf
  <2> QED BY <1>1, <2>1, <2>2, FixedStep DEF SearchTyped
<1>3. Len(Children) \in Nat /\ Cycle!Shapes = 1 .. Len(Children)
      /\ \A s \in Cycle!Shapes : Children[s] \in Seq(Cycle!Shapes)
  BY <1>1, ArenaShapes DEF SearchTyped
<1>4. /\ len \in Nat \ {0} /\ Cycle!Top = stack[len] /\ Cycle!Top \in Frame
      /\ \A k \in 1 .. len : stack[k] \in Frame
      /\ advanced \in Seq(Frame) /\ Len(advanced) = len
      /\ \A k \in 1 .. (len - 1) : advanced[k] = stack[k]
      /\ advanced[len].at = Cycle!Top.at /\ advanced[len].next = Cycle!Top.next + 1
  BY <1>1, TopFrame
<1>5. child \in Cycle!Shapes /\ Cycle!Top.at \in Cycle!Shapes /\ Cycle!Top.next \in Nat \ {0}
  <2>1. Cycle!Top.at \in Cycle!Shapes /\ Cycle!Top.next \in Nat
    BY <1>4 DEF Frame
  <2>2. Cycle!Top.next >= 1
    BY <1>1, <1>4 DEF Path
  <2> QED BY <1>1, <1>3, <2>1, <2>2, ElementOfSeq, LenProperties
<1>6. \A k \in 1 .. len : advanced[k].at = stack[k].at
  BY <1>4
<1>7. \A k \in 1 .. len : advanced[k].next = IF k = len THEN Cycle!Top.next + 1 ELSE stack[k].next
  BY <1>4
<1>8. start' \in 1 .. (Len(Children)' + 1)
  BY <1>1, <1>2 DEF SearchTyped
<1>12. /\ child \in grey => answer' = "cycle" /\ stack' = advanced /\ grey' = grey
       /\ child \notin grey /\ child \in black =>
              answer' = answer /\ stack' = advanced /\ grey' = grey
       /\ child \notin grey /\ child \notin black =>
              /\ answer' = answer /\ grey' = grey \cup {child}
              /\ stack' = Append(advanced, [at |-> child, next |-> 1])
  BY <1>1 DEF Cycle!FollowChild, Behind
<1> HIDE DEF advanced, child
<1>9. CASE child \in grey
  <2>1. answer' = "cycle" /\ stack' = advanced /\ grey' = grey
    BY <1>9, <1>12
  <2>2. ReachesItself(child)
    BY <1>1, <1>9, GreyChildCloses DEF child
  <2>3. SearchTyped'
    BY <1>1, <1>2, <1>4, <1>8, <2>1 DEF SearchTyped, Frame
  <2>4. SearchAnswers'
    BY <1>2, <1>5, <2>1, <2>2 DEF SearchAnswers
  <2> QED BY <2>1, <2>3, <2>4 DEF SearchInv
<1>10. CASE child \notin grey /\ child \in black
  <2>1. answer' = answer /\ stack' = advanced /\ grey' = grey
    BY <1>10, <1>12
  <2>2. SearchTyped'
    BY <1>1, <1>2, <1>4, <1>8, <2>1 DEF SearchTyped, Frame
  <2>3. Path'
    <3>1. grey' = {stack'[k].at : k \in 1 .. Len(stack')}
      <4>1. {stack'[k].at : k \in 1 .. len} = {stack[k].at : k \in 1 .. len}
        BY <1>6, <2>1
      <4> QED BY <1>1, <1>4, <2>1, <4>1 DEF Path
    <3>2. \A j, k \in 1 .. Len(stack') : stack'[j].at = stack'[k].at => j = k
      BY <1>1, <1>4, <1>6, <2>1 DEF Path
    <3>3. \A k \in 1 .. Len(stack') :
              stack'[k].next \in 1 .. (Len(Children'[stack'[k].at]) + 1)
      <4> SUFFICES ASSUME NEW k \in 1 .. len
                   PROVE  advanced[k].next \in 1 .. (Len(Children[stack[k].at]) + 1)
        BY <1>2, <1>4, <1>6, <2>1
      <4>1. Len(Children[Cycle!Top.at]) \in Nat
        BY <1>3, <1>5, LenProperties
      <4>2. CASE k = len
        BY <1>1, <1>4, <1>5, <1>7, <4>1, <4>2
      <4>3. CASE k # len
        BY <1>1, <1>7, <4>3 DEF Path
      <4> QED BY <4>2, <4>3
    <3>4. \A k \in 1 .. (Len(stack') - 1) :
              /\ stack'[k].next > 1
              /\ Children'[stack'[k].at][stack'[k].next - 1] = stack'[k + 1].at
      BY <1>1, <1>2, <1>4, <1>6, <1>7, <2>1 DEF Path
    <3> QED BY <3>1, <3>2, <3>3, <3>4 DEF Path
  <2>4. Behind'
    <3>1. ASSUME NEW k \in 1 .. len, NEW i \in 1 .. (advanced[k].next - 1)
          PROVE  Children[advanced[k].at][i] \in black
                    \/ (k < len /\ i = advanced[k].next - 1)
      <4>1. CASE k = len /\ i = Cycle!Top.next
        BY <1>4, <1>6, <1>10, <4>1 DEF child
      <4>2. CASE ~(k = len /\ i = Cycle!Top.next)
        <5>1. i \in 1 .. (stack[k].next - 1)
          BY <1>4, <1>5, <1>7, <4>2
        <5> QED BY <1>1, <1>4, <1>6, <1>7, <4>2, <5>1 DEF Behind
      <4> QED BY <4>1, <4>2
    <3> QED BY <1>1, <1>2, <1>4, <2>1, <3>1 DEF Behind
  <2> QED BY <1>1, <2>1, <2>2, <2>3, <2>4 DEF SearchInv, SearchAnswers
<1>11. CASE child \notin grey /\ child \notin black
  <2> DEFINE new == [at |-> child, next |-> 1]
  <2>1. answer' = answer /\ stack' = Append(advanced, new) /\ grey' = grey \cup {child}
    BY <1>11, <1>12
  <2>2. new \in Frame
    BY <1>5 DEF Frame
  <2>3. /\ stack' \in Seq(Frame) /\ Len(stack') = len + 1
        /\ \A k \in 1 .. len : stack'[k] = advanced[k]
        /\ stack'[len + 1].at = child /\ stack'[len + 1].next = 1
    BY <1>4, <2>1, <2>2, AppendProperties
  <2>4. SearchTyped'
    BY <1>1, <1>2, <1>5, <1>8, <2>1, <2>3 DEF SearchTyped, Frame
  <2>5. Path'
    <3>1. grey' = {stack'[k].at : k \in 1 .. Len(stack')}
      <4>1. \A k \in 1 .. Len(stack') : stack'[k].at \in grey'
        BY <1>1, <1>4, <1>6, <2>1, <2>3 DEF Path
      <4>2. \A s \in grey' : \E k \in 1 .. Len(stack') : stack'[k].at = s
        <5>1. len + 1 \in 1 .. Len(stack') /\ 1 .. len \subseteq 1 .. Len(stack')
          BY <1>4, <2>3
        <5>2. \A s \in grey : \E k \in 1 .. len : stack'[k].at = s
          BY <1>1, <1>6, <2>3 DEF Path
        <5> QED BY <2>1, <2>3, <5>1, <5>2
      <4> QED BY <4>1, <4>2
    <3>2. \A j, k \in 1 .. Len(stack') : stack'[j].at = stack'[k].at => j = k
      <4>1. \A k \in 1 .. len : stack'[k].at = stack[k].at /\ stack'[k].at # child
        <5>1. \A k \in 1 .. len : stack[k].at \in grey
          BY <1>1 DEF Path
        <5> QED BY <1>6, <1>11, <2>3, <5>1
      <4>2. \A k \in 1 .. Len(stack') : k \in 1 .. len \/ k = len + 1
        BY <1>4, <2>3
      <4>3. \A j, k \in 1 .. len : stack[j].at = stack[k].at => j = k
        BY <1>1 DEF Path
      <4> QED BY <2>3, <4>1, <4>2, <4>3
    <3>3. \A k \in 1 .. Len(stack') :
              stack'[k].next \in 1 .. (Len(Children'[stack'[k].at]) + 1)
      <4>1. Len(Children[Cycle!Top.at]) \in Nat /\ Len(Children[child]) \in Nat
        BY <1>3, <1>5, LenProperties
      <4> SUFFICES ASSUME NEW k \in 1 .. (len + 1)
                   PROVE  stack'[k].next \in 1 .. (Len(Children[stack'[k].at]) + 1)
        BY <1>2, <2>3
      <4>2. CASE k = len + 1
        BY <2>3, <4>1, <4>2
      <4>3. CASE k = len
        BY <1>1, <1>4, <1>5, <1>6, <1>7, <2>3, <4>1, <4>3
      <4>4. CASE k # len /\ k # len + 1
        <5>1. k \in 1 .. len /\ stack'[k].at = stack[k].at /\ stack'[k].next = stack[k].next
          BY <1>4, <1>6, <1>7, <2>3, <4>4
        <5> QED BY <1>1, <5>1 DEF Path
      <4> QED BY <4>2, <4>3, <4>4
    <3>4. ASSUME NEW k \in 1 .. (Len(stack') - 1)
          PROVE  /\ stack'[k].next > 1
                 /\ Children'[stack'[k].at][stack'[k].next - 1] = stack'[k + 1].at
      <4>1. CASE k = len
        <5>1. stack'[k].at = Cycle!Top.at /\ stack'[k].next = Cycle!Top.next + 1
          BY <1>4, <2>3, <4>1
        <5>3. k + 1 = len + 1 /\ stack'[k + 1].at = child
          BY <1>4, <2>3, <4>1
        <5>4. Cycle!Top.next + 1 > 1
          BY <1>5
        <5>5. stack'[k].next - 1 = Cycle!Top.next
          BY <1>5, <5>1
        <5>6. Children'[stack'[k].at][stack'[k].next - 1] = child
          BY <1>2, <5>1, <5>5 DEF child
        <5> QED BY <5>1, <5>3, <5>4, <5>6
      <4>2. CASE k # len
        <5>1. k \in 1 .. (len - 1) /\ k \in 1 .. len /\ k + 1 \in 1 .. len
          BY <1>4, <2>3, <4>2
        <5>2. stack'[k].at = stack[k].at /\ stack'[k].next = stack[k].next
              /\ stack'[k + 1].at = stack[k + 1].at
          BY <1>6, <1>7, <2>3, <4>2, <5>1
        <5> QED BY <1>1, <1>2, <5>1, <5>2 DEF Path
      <4> QED BY <4>1, <4>2
    <3> QED BY <3>1, <3>2, <3>3, <3>4 DEF Path
  <2>6. Behind'
    <3>1. ASSUME NEW k \in 1 .. (len + 1), NEW i \in 1 .. (stack'[k].next - 1)
          PROVE  Children[stack'[k].at][i] \in black
                    \/ (k < len + 1 /\ i = stack'[k].next - 1)
      <4>1. k # len + 1
        BY <1>4, <2>3
      <4>2. k \in 1 .. len /\ stack'[k] = advanced[k] /\ stack'[k].at = stack[k].at
        BY <1>4, <1>6, <2>3, <4>1
      <4>3. CASE i = stack'[k].next - 1
        BY <1>4, <4>2, <4>3
      <4>4. CASE i # stack'[k].next - 1
        <5>1. i \in 1 .. (stack[k].next - 1)
          BY <1>4, <1>5, <1>7, <4>2, <4>4
        <5>2. ~(k < len /\ i = stack[k].next - 1)
          BY <1>4, <1>7, <4>2, <4>4
        <5> QED BY <1>1, <4>2, <5>1, <5>2 DEF Behind
      <4> QED BY <4>3, <4>4
    <3>2. grey' \cap black' = {} /\ \A s \in 1 .. (start' - 1) : s \in grey' \cup black'
      BY <1>1, <1>11, <2>1 DEF Behind
    <3> QED BY <1>1, <1>2, <2>3, <3>1, <3>2 DEF Behind
  <2> QED BY <1>1, <2>1, <2>4, <2>5, <2>6 DEF SearchInv, SearchAnswers
<1> QED BY <1>9, <1>10, <1>11

\* A shape is done once all it refers to is: the black shapes, which it is not
\* one of, hold all that can be reached from it, so it does not reach itself.
LEMMA CloseShapeKeeps == SearchInv /\ Cycle!CloseShape => SearchInv'
<1> SUFFICES ASSUME SearchInv, Cycle!CloseShape PROVE SearchInv'
  OBVIOUS
<1> DEFINE len == Len(stack)
<1>1. /\ SearchTyped /\ Path /\ Behind /\ stack # <<>> /\ answer = "none"
      /\ Cycle!Top.next > Len(Children[Cycle!Top.at]) /\ start' = start /\ answer' = answer
      /\ grey' = grey \ {Cycle!Top.at} /\ black' = black \cup {Cycle!Top.at} /\ stack' = Cycle!Below
  BY DEF SearchInv, Cycle!CloseShape, Cycle!Searching
<1>2. /\ Children' = Children /\ Cycle!Shapes' = Cycle!Shapes /\ Arena'
      /\ \A s : ReachesItself(s)' <=> ReachesItself(s)
  BY <1>1, FixedStep DEF Cycle!NextSearch, SearchTyped
<1>3. Len(Children) \in Nat /\ Cycle!Shapes = 1 .. Len(Children)
      /\ \A s \in Cycle!Shapes : Children[s] \in Seq(Cycle!Shapes)
  BY <1>1, ArenaShapes DEF SearchTyped
<1>4. /\ len \in Nat \ {0} /\ Cycle!Top = stack[len] /\ Cycle!Top \in Frame
      /\ \A k \in 1 .. len : stack[k] \in Frame
      /\ stack' \in Seq(Frame) /\ Len(stack') = len - 1
      /\ \A k \in 1 .. (len - 1) : stack'[k] = stack[k]
  BY <1>1, TopFrame
<1>5. Cycle!Top.at \in Cycle!Shapes /\ Cycle!Top.at \in grey
  BY <1>1, <1>4 DEF Frame, Path
<1>6. ChildrenOf(Cycle!Top.at) \subseteq black
  <2> SUFFICES ASSUME NEW i \in DOMAIN Children[Cycle!Top.at]
               PROVE  Children[Cycle!Top.at][i] \in black
    BY DEF ChildrenOf
  <2>1. Len(Children[Cycle!Top.at]) \in Nat /\ i \in 1 .. Len(Children[Cycle!Top.at])
    BY <1>3, <1>5, LenProperties
  <2>2. Cycle!Top.next \in Nat /\ i \in 1 .. (Cycle!Top.next - 1)
    BY <1>1, <1>4, <2>1 DEF Frame
  <2> QED BY <1>1, <1>4, <2>2 DEF Behind
<1>7. ~ReachesItself(Cycle!Top.at)
  <2>1. black \in SUBSET Cycle!Shapes /\ ClosedUnderChildren(black) /\ Cycle!Top.at \notin black
    BY <1>1, <1>5 DEF Behind, SearchTyped
  <2> QED BY <1>6, <2>1 DEF ReachesItself
<1>8. SearchTyped'
  BY <1>1, <1>2, <1>4, <1>5 DEF SearchTyped, Frame
<1>9. Path'
  <2>1. \A k \in 1 .. (len - 1) : stack[k].at # Cycle!Top.at /\ k \in 1 .. len
    BY <1>1, <1>4 DEF Path
  <2>2. grey' = {stack'[k].at : k \in 1 .. Len(stack')}
    <3>1. \A k \in 1 .. (len - 1) : stack'[k].at \in grey'
      BY <1>1, <1>4, <2>1 DEF Path
    <3>2. ASSUME NEW s \in grey' PROVE \E k \in 1 .. (len - 1) : stack'[k].at = s
      <4>1. PICK k \in 1 .. len : stack[k].at = s
        BY <1>1 DEF Path
      <4>2. k # len
        BY <1>1, <1>4, <4>1
      <4>3. k \in 1 .. (len - 1)
        BY <1>4, <4>2
      <4> QED BY <1>4, <4>1, <4>3
    <3> QED BY <1>4, <3>1, <3>2
  <2>3. \A j, k \in 1 .. Len(stack') : stack'[j].at = stack'[k].at => j = k
    BY <1>1, <1>4, <2>1 DEF Path
  <2>4. \A k \in 1 .. Len(stack') : stack'[k].next \in 1 .. (Len(Children'[stack'[k].at]) + 1)
    BY <1>1, <1>2, <1>4, <2>1 DEF Path
  <2>5. ASSUME NEW k \in 1 .. (Len(stack') - 1)
        PROVE  /\ stack'[k].next > 1
               /\ Children'[stack'[k].at][stack'[k].next - 1] = stack'[k + 1].at
    <3>1. k \in 1 .. (len - 1) /\ k + 1 \in 1 .. (len - 1)
      BY <1>4
    <3> QED BY <1>1, <1>2, <1>4, <3>1 DEF Path
  <2> QED BY <2>2, <2>3, <2>4, <2>5 DEF Path
<1>10. Behind'
  <2>1. grey' \cap black' = {} /\ \A s \in 1 .. (start' - 1) : s \in grey' \cup black'
    BY <1>1 DEF Behind
  <2>2. ASSUME NEW k \in 1 .. (len - 1), NEW i \in 1 .. (stack[k].next - 1)
        PROVE  Children[stack[k].at][i] \in black'
                  \/ (k < len - 1 /\ i = stack[k].next - 1)
    <3>1. k \in 1 .. len /\ k < len
      BY <1>4
    <3>2. CASE Children[stack[k].at][i] \in black
      BY <1>1, <3>2
    <3>3. CASE i = stack[k].next - 1
      <4>1. Children[stack[k].at][i] = stack[k + 1].at
        BY <1>1, <3>3 DEF Path
      <4>2. CASE k = len - 1
        BY <1>1, <1>4, <4>1, <4>2
      <4>3. CASE k # len - 1
        BY <1>4, <3>3, <4>3
      <4> QED BY <4>2, <4>3
    <3> QED BY <1>1, <3>1, <3>2, <3>3 DEF Behind
  <2>3. ClosedUnderChildren(black)'
    BY <1>1, <1>2, <1>6 DEF ClosedUnderChildren, Behind, ChildrenOf
  <2>4. \A s \in black' : ~ReachesItself(s)'
    BY <1>1, <1>2, <1>7 DEF Behind
  <2> QED BY <1>2, <1>4, <2>1, <2>2, <2>3, <2>4 DEF Behind
<1> QED BY <1>1, <1>8, <1>9, <1>10 DEF SearchInv, SearchAnswers

\* When the outer loop is through, every shape is done.
LEMMA NoneLeftKeeps == SearchInv /\ Cycle!NoneLeft => SearchInv'
<1> SUFFICES ASSUME SearchInv, Cycle!NoneLeft PROVE SearchInv'
  OBVIOUS
<1>1. /\ SearchTyped /\ Path /\ Behind /\ stack = <<>> /\ start \notin Cycle!Shapes
      /\ answer' = "acyclic"
      /\ Children' = Children /\ start' = start /\ stack' = stack /\ grey' = grey /\ black' = black
  BY DEF SearchInv, Cycle!NoneLeft, Cycle!Searching
<1>2. /\ Cycle!Shapes' = Cycle!Shapes /\ Arena' /\ \A s : ReachesItself(s)' <=> ReachesItself(s)
  BY <1>1, FixedStep DEF Cycle!NextSearch, SearchTyped
<1>3. Cycle!Shapes = 1 .. (start - 1)
  BY <1>1, ArenaShapes DEF SearchTyped
<1>4. \A s \in Cycle!Shapes : s \in black
  BY <1>1, <1>3 DEF Path, Behind
<1>5. SearchTyped'
  BY <1>1, <1>2 DEF SearchTyped, Frame
<1>6. SearchAnswers'
  BY <1>1, <1>2, <1>4 DEF SearchAnswers, Behind
<1> QED BY <1>1, <1>5, <1>6 DEF SearchInv

\* The search starts with everything white ...
LEMMA SearchInit == Arena /\ Cycle!InitSearch => SearchInv
<1> SUFFICES ASSUME Arena, Cycle!InitSearch PROVE SearchInv
  OBVIOUS
<1>1. Len(Children) \in Nat
  BY ArenaShapes
<1>2. SearchTyped
  BY <1>1 DEF SearchTyped, Cycle!InitSearch
<1> QED BY <1>2 DEF Cycle!InitSearch, SearchInv, Path, Behind, ClosedUnderChildren, SearchAnswers

\* ... and every step of it keeps the invariant.
LEMMA SearchStep == SearchInv /\ [Cycle!NextSearch]_(Cycle!vars) => SearchInv'
<1>1. SearchInv /\ UNCHANGED Cycle!vars => SearchInv'
  <2> SUFFICES ASSUME SearchInv, UNCHANGED Cycle!vars PROVE SearchInv'
    OBVIOUS
  <2>1. /\ Children' = Children /\ start' = start /\ stack' = stack /\ grey' = grey
        /\ black' = black /\ answer' = answer
    BY DEF Cycle!vars, Cycle!search
  <2>2. /\ Cycle!Shapes' = Cycle!Shapes /\ (Arena <=> Arena')
        /\ \A s : ReachesItself(s)' <=> ReachesItself(s)
    BY <2>1 DEF Cycle!Shapes, Arena, ClosedUnderChildren, ReachesItself, ChildrenOf
  <2>3. SearchTyped' /\ SearchAnswers'
    BY <2>1, <2>2 DEF SearchInv, SearchTyped, SearchAnswers, Frame
  <2>4. answer = "none" => Path' /\ Behind'
    BY <2>1, <2>2 DEF SearchInv, Path, Behind, ClosedUnderChildren, ChildrenOf
  <2> QED BY <2>1, <2>3, <2>4 DEF SearchInv
<1> QED
  BY <1>1, NextStartKeeps, FollowChildKeeps, CloseShapeKeeps, NoneLeftKeeps DEF Cycle!NextSearch

\* On every arena, of any size and shape, the three-colour search that
\* has_cycle runs answers cycle only if some shape reaches itself through the
\* shapes it refers to, and acyclic only if none does.
THEOREM SearchIsRight ==
    Arena /\ Cycle!InitSearch /\ [][Cycle!NextSearch]_(Cycle!vars) => []SearchAnswers
<1>1. SearchInv => SearchAnswers
  BY DEF SearchInv
<1> QED BY <1>1, SearchInit, SearchStep, PTL

-----------------------------------------------------------------------------

\* What lies below a shape: all its children, and theirs.
BelowShape(s) ==
    {t \in Cycle!Shapes : \A S \in SUBSET Cycle!Shapes :
                       ChildrenOf(s) \subseteq S /\ ClosedUnderChildren(S) => t \in S}

\* A rank that falls along every reference, as the bounds on the recursion
\* guard ask for (IsRank of DescentBounds, with every shape within).
Ranked ==
    \E rank \in [Cycle!Shapes -> 0 .. (Cardinality(Cycle!Shapes) - 1)] :
        \A s \in Cycle!Shapes : \A t \in ChildrenOf(s) : t \in Cycle!Shapes /\ rank[t] < rank[s]

\* Where no shape reaches itself, each is ranked by how many lie below it.
LEMMA NumberBelowIsRank ==
    ASSUME Arena, \A s \in Cycle!Shapes : ~ReachesItself(s)
    PROVE  Ranked
<1>1. /\ IsFiniteSet(Cycle!Shapes)
      /\ \A s \in Cycle!Shapes : Children[s] \in Seq(Cycle!Shapes)
  BY ArenaShapes, FS_Interval
<1>2. \A s \in Cycle!Shapes : s \notin BelowShape(s) /\ BelowShape(s) \in SUBSET Cycle!Shapes
  BY DEF BelowShape, ReachesItself
<1>3. ASSUME NEW s \in Cycle!Shapes, NEW t \in ChildrenOf(s)
      PROVE  /\ t \in Cycle!Shapes /\ t \in BelowShape(s)
             /\ BelowShape(t) \subseteq BelowShape(s)
  <2>1. t \in Cycle!Shapes
    <3>1. PICK i \in DOMAIN Children[s] : t = Children[s][i]
      BY DEF ChildrenOf
    <3> QED BY <1>1, <3>1
  <2>2. t \in BelowShape(s)
    BY <2>1 DEF BelowShape
  <2>3. BelowShape(t) \subseteq BelowShape(s)
    <3>1. \A S \in SUBSET Cycle!Shapes :
             ChildrenOf(s) \subseteq S /\ ClosedUnderChildren(S) => ChildrenOf(t) \subseteq S
      BY DEF ClosedUnderChildren
    <3> QED BY <3>1 DEF BelowShape
  <2> QED BY <2>1, <2>2, <2>3
<1> DEFINE rank == [s \in Cycle!Shapes |-> Cardinality(BelowShape(s))]
<1>4. ASSUME NEW S \in SUBSET Cycle!Shapes, NEW T \in SUBSET S, T # S
      PROVE  Cardinality(T) \in Nat /\ Cardinality(S) \in Nat /\ Cardinality(T) < Cardinality(S)
  <2>1. IsFiniteSet(S)
    BY <1>1, FS_Subset
  <2> QED BY <1>4, <2>1, FS_Subset, FS_CardinalityType
<1>5. rank \in [Cycle!Shapes -> 0 .. (Cardinality(Cycle!Shapes) - 1)]
  <2> SUFFICES ASSUME NEW s \in Cycle!Shapes
               PROVE  Cardinality(BelowShape(s)) \in 0 .. (Cardinality(Cycle!Shapes) - 1)
    OBVIOUS
  <2>1. BelowShape(s) \in SUBSET Cycle!Shapes /\ BelowShape(s) # Cycle!Shapes
    BY <1>2
  <2> QED BY <1>4, <2>1
<1>6. ASSUME NEW s \in Cycle!Shapes, NEW t \in ChildrenOf(s)
      PROVE  t \in Cycle!Shapes /\ rank[t] < rank[s]
  <2>1. /\ t \in Cycle!Shapes /\ BelowShape(s) \in SUBSET Cycle!Shapes
        /\ BelowShape(t) \in SUBSET BelowShape(s) /\ BelowShape(t) # BelowShape(s)
    BY <1>2, <1>3
  <2> QED BY <1>4, <2>1
<1> HIDE DEF rank
<1> QED BY <1>5, <1>6 DEF Ranked

\* is_focus_separable relies on it: an answer of acyclic means that the shapes
\* can be ranked so that every reference falls, which is what bounds nesting
\* and keeps the visited set idle in the recursion guard.
THEOREM AcyclicIsRanked ==
    Arena /\ Cycle!InitSearch /\ [][Cycle!NextSearch]_(Cycle!vars)
        => [](answer = "acyclic" => Ranked)
<1>1. SearchInv => (answer = "acyclic" => Ranked)
  BY NumberBelowIsRank DEF SearchInv, SearchTyped, SearchAnswers
<1> QED BY <1>1, SearchInit, SearchStep, PTL

-----------------------------------------------------------------------------
(* The search on what the compiler leaves. *)

\* What the compiler leaves is an arena the search can run on.
LEMMA ArenaReady == CompileInv /\ Done => Arena
<1> SUFFICES ASSUME CompileInv, Done PROVE Arena
  OBVIOUS
<1>1. Len(shapes) \in Nat /\ DOMAIN shapes = 1 .. Len(shapes)
  BY LenProperties DEF CompileInv, Numbering
<1>2. DOMAIN Children = DOMAIN shapes /\ Children = [i \in DOMAIN shapes |-> Children[i]]
  BY DEF Children
<1>3. \A i \in DOMAIN shapes : Children[i] \in Seq(DOMAIN shapes)
  BY ChildrenRefer
<1> DEFINE n == Len(shapes)
<1>4. n \in Nat /\ Children \in [1 .. n -> Seq(1 .. n)]
  BY <1>1, <1>2, <1>3
<1> HIDE DEF n
<1> QED BY <1>4 DEF Arena

\* A shape's number reaches itself along the children exactly if its node
\* reaches itself along what the statements say.
LEMMA ReachesAsNode ==
    ASSUME CompileInv, Done, NEW i \in DOMAIN shapes
    PROVE  ReachesItself(i)
             <=> \A T \in SUBSET DOMAIN byNode :
                    Closed(T, RefersTo(shapes[i].node), RefersTo) => shapes[i].node \in T
<1>1. /\ \A j \in DOMAIN shapes : shapes[j].node \in DOMAIN byNode /\ byNode[shapes[j].node] = j
      /\ \A m \in DOMAIN byNode : byNode[m] \in DOMAIN shapes /\ shapes[byNode[m]].node = m
  BY DEF CompileInv, Numbering
<1>2. \A j \in DOMAIN shapes : /\ ToSet(Children[j]) \subseteq DOMAIN shapes
                              /\ Names(ToSet(Children[j])) = RefersTo(shapes[j].node)
  BY ChildrenRefer, MembersOfSeq
<1>3. Cycle!Shapes = DOMAIN shapes
  BY DEF Cycle!Shapes, Children
<1>4. \A j : ChildrenOf(j) = ToSet(Children[j])
  BY DEF ChildrenOf, ToSet
<1>5. ASSUME ReachesItself(i), NEW T \in SUBSET DOMAIN byNode,
             RefersTo(shapes[i].node) \subseteq T, \A m \in T : RefersTo(m) \subseteq T
      PROVE  shapes[i].node \in T
  <2> DEFINE S == {j \in DOMAIN shapes : shapes[j].node \in T}
  <2>1. ASSUME NEW j \in DOMAIN shapes, RefersTo(shapes[j].node) \subseteq T
        PROVE  ToSet(Children[j]) \subseteq S
    <3> SUFFICES ASSUME NEW k \in ToSet(Children[j]) PROVE k \in S
      OBVIOUS
    <3>1. k \in DOMAIN shapes /\ shapes[k].node \in Names(ToSet(Children[j]))
      BY <1>2 DEF Names
    <3> QED BY <1>2, <2>1, <3>1
  <2>2. ChildrenOf(i) \subseteq S
    BY <1>4, <1>5, <2>1
  <2>3. \A j \in S : ChildrenOf(j) \subseteq S
    BY <1>4, <1>5, <2>1
  <2>4. S \in SUBSET Cycle!Shapes
    BY <1>3
  <2> HIDE DEF S
  <2>5. ClosedUnderChildren(S)
    BY <2>3 DEF ClosedUnderChildren
  <2>6. i \in S
    BY <1>5, <2>2, <2>4, <2>5 DEF ReachesItself
  <2> QED BY <2>6 DEF S
<1>6. ASSUME \A T \in SUBSET DOMAIN byNode :
                 RefersTo(shapes[i].node) \subseteq T /\ (\A m \in T : RefersTo(m) \subseteq T)
                    => shapes[i].node \in T,
             NEW S \in SUBSET Cycle!Shapes, ChildrenOf(i) \subseteq S, ClosedUnderChildren(S)
      PROVE  i \in S
  <2>1. S \subseteq DOMAIN shapes /\ ToSet(Children[i]) \subseteq S
        /\ \A j \in S : ToSet(Children[j]) \subseteq S
    BY <1>3, <1>4, <1>6 DEF ClosedUnderChildren
  <2> DEFINE T == Names(S)
  <2>2. \A j \in DOMAIN shapes : ToSet(Children[j]) \subseteq S => RefersTo(shapes[j].node) \subseteq T
    BY <1>2 DEF Names
  <2>3. T \in SUBSET DOMAIN byNode
    BY <1>1, <2>1 DEF Names
  <2>4. RefersTo(shapes[i].node) \subseteq T
    BY <2>1, <2>2
  <2>5. ASSUME NEW m \in T PROVE RefersTo(m) \subseteq T
    <3>1. PICK j \in S : m = shapes[j].node
      BY DEF Names
    <3> QED BY <2>1, <2>2, <3>1
  <2> HIDE DEF T
  <2>6. shapes[i].node \in T
    BY <1>6, <2>3, <2>4, <2>5
  <2>7. PICK j \in S : shapes[i].node = shapes[j].node
    BY <2>6 DEF T, Names
  <2> QED BY <1>1, <2>1, <2>7
<1>7. (\A T \in SUBSET DOMAIN byNode :
          Closed(T, RefersTo(shapes[i].node), RefersTo) => shapes[i].node \in T)
       <=> \A T \in SUBSET DOMAIN byNode :
              RefersTo(shapes[i].node) \subseteq T /\ (\A m \in T : RefersTo(m) \subseteq T)
                 => shapes[i].node \in T
  BY DEF Closed
<1> QED BY <1>5, <1>6, <1>7 DEF ReachesItself

\* The search has not begun before the arena is done, and is right from there.
SearchRight ==
    /\ pc # "done" => Cycle!InitSearch
    /\ pc = "done" => SearchInv

\* On a finished arena the search begins as it should.
LEMMA SearchBegins == CompileInv /\ Done /\ Cycle!InitSearch => SearchInv
BY ArenaReady, SearchInit

\* Compiling leaves the search at its beginning, and a step of the search keeps
\* what the search relies on.
LEMMA SearchKeeps == CompileInv /\ SearchRight /\ [NextAll]_<<vars, search>> => SearchRight'
<1> SUFFICES ASSUME CompileInv, SearchRight, [NextAll]_<<vars, search>> PROVE SearchRight'
  OBVIOUS
<1>1. CompileInv'
  BY CompileStep
<1>2. CompileInv' /\ Done' /\ Cycle!InitSearch' => SearchInv'
  BY SearchBegins, PTL
<1>3. CASE Compile
  <2>1. pc # "done"
    BY <1>3 DEF Compile, Next, Discover, CompileNext, CompileFails, ChooseRoots
  <2>2. Cycle!InitSearch'
    BY <1>3, <2>1 DEF SearchRight, Compile, search, Cycle!InitSearch
  <2> QED BY <1>1, <1>2, <2>2 DEF SearchRight, Done
<1>4. CASE Search
  <2>1. pc = "done" /\ pc' = "done"
    BY <1>4 DEF Search, vars
  <2>2. Cycle!NextSearch
    BY <1>4 DEF Search
  <2> QED BY <2>1, <2>2, SearchStep DEF SearchRight
<1>5. CASE UNCHANGED <<vars, search>>
  <2>1. pc' = pc /\ shapes' = shapes /\ byNode' = byNode /\ UNCHANGED search
    BY <1>5 DEF vars
  <2>2. Children' = Children
    BY <2>1 DEF Children, ReferencedShapes, EachOf
  <2>3. UNCHANGED Cycle!vars
    BY <2>1, <2>2 DEF Cycle!vars, Cycle!search, search
  <2>4. SearchInv => SearchInv'
    BY <2>3, SearchStep
  <2>5. Cycle!InitSearch => Cycle!InitSearch'
    BY <2>1 DEF Cycle!InitSearch, search
  <2> QED BY <2>1, <2>4, <2>5 DEF SearchRight
<1> QED BY <1>3, <1>4, <1>5 DEF NextAll

\* has_cycle: over the arena the compiler leaves for any shapes graph, the
\* search answers cycle only if some shape of the graph reaches itself along
\* what active statements and sh:targetWhere name, and acyclic only if none
\* does.
THEOREM AnswersForTheGraph == SpecAll => []AnswerIsRight
<1>1. InitAll => SearchRight
  BY DEF InitAll, Init, SearchRight
<1>2. SpecAll => []SearchRight
  BY <1>1, ArenaInvariant, SearchKeeps, PTL DEF SpecAll
<1>3. CompileInv /\ SearchRight => AnswerIsRight
  <2> SUFFICES ASSUME CompileInv, SearchRight PROVE AnswerIsRight
    OBVIOUS
  <2> DEFINE reaches(n) == \A T \in SUBSET DOMAIN byNode : Closed(T, RefersTo(n), RefersTo) => n \in T
  <2>1. CASE pc # "done"
    <3>1. answer = "none"
      BY <2>1 DEF SearchRight, Cycle!InitSearch
    <3> QED BY <3>1 DEF AnswerIsRight
  <2>2. CASE pc = "done"
    <3>1. \A i \in DOMAIN shapes : ReachesItself(i) <=> reaches(shapes[i].node)
      BY <2>2, ReachesAsNode DEF Done
    <3>2. SearchAnswers
      BY <2>2 DEF SearchRight, SearchInv
    <3>3. Cycle!Shapes = DOMAIN shapes
      BY DEF Cycle!Shapes, Children
    <3>4. /\ \A j \in DOMAIN shapes : shapes[j].node \in DOMAIN byNode
          /\ \A m \in DOMAIN byNode : byNode[m] \in DOMAIN shapes /\ shapes[byNode[m]].node = m
      BY DEF CompileInv, Numbering
    <3> HIDE DEF reaches
    <3>5. answer = "cycle" => \E n \in DOMAIN byNode : reaches(n)
      BY <3>1, <3>2, <3>3, <3>4 DEF SearchAnswers
    <3>6. answer = "acyclic" => \A n \in DOMAIN byNode : ~reaches(n)
      <4> SUFFICES ASSUME answer = "acyclic", NEW n \in DOMAIN byNode PROVE ~reaches(n)
        OBVIOUS
      <4>1. byNode[n] \in DOMAIN shapes /\ shapes[byNode[n]].node = n
        BY <3>4
      <4>2. ~ReachesItself(byNode[n])
        BY <3>2, <3>3, <4>1 DEF SearchAnswers
      <4> QED BY <3>1, <4>1, <4>2
    <3> QED BY <3>5, <3>6 DEF AnswerIsRight, reaches
  <2> QED BY <2>1, <2>2
<1> QED BY <1>2, <1>3, ArenaInvariant, PTL

\* The shapes of a graph for which has_cycle answers no can be ranked so that
\* every reference falls: the condition under which the recursion guard is
\* idle and nesting is bounded by the number of shapes.
THEOREM AcyclicGraphIsRanked == SpecAll => [](answer = "acyclic" => Ranked)
<1>1. InitAll => SearchRight
  BY DEF InitAll, Init, SearchRight
<1>2. SpecAll => []SearchRight
  BY <1>1, ArenaInvariant, SearchKeeps, PTL DEF SpecAll
<1>3. SearchRight => (answer = "acyclic" => Ranked)
  <2> SUFFICES ASSUME SearchRight, answer = "acyclic" PROVE Ranked
    OBVIOUS
  <2>1. SearchInv
    BY DEF SearchRight, Cycle!InitSearch
  <2>2. Arena /\ \A s \in Cycle!Shapes : ~ReachesItself(s)
    BY <2>1 DEF SearchInv, SearchTyped, SearchAnswers
  <2> QED BY <2>2, NumberBelowIsRank
<1> QED BY <1>2, <1>3, PTL
=============================================================================
