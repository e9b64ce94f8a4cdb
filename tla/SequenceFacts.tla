---------------------------- MODULE SequenceFacts ----------------------------
(***************************************************************************)
(* Facts about numbers and sequences that the proofs of several components *)
(* rest on: the least number of a set, the members of a sequence, and      *)
(* sequences laid end to end.                                              *)
(***************************************************************************)
EXTENDS SequencesExt, NaturalsInduction, WellFoundedInduction, SequenceTheorems,
        FiniteSetTheorems, FunctionTheorems, TLAPS

\* A set of numbers has a least one: what an induction over numbers comes
\* down to, as the least number that breaks the claim.
LEMMA LeastNumber ==
    ASSUME NEW T \in SUBSET Nat, T # {}
    PROVE  \E m \in T : \A n \in T : m <= n
<1>1. PICK m \in T : \A n \in T : <<n, m>> \notin OpToRel(<, Nat)
  BY WFMin, NatLessThanWellFounded, Zenon
<1>2. \A n \in T : ~(n < m)
  BY <1>1, Zenon DEF OpToRel
<1> QED BY <1>2

\* What becomes of x when F[1], F[2], ... are applied to it, one after the other.
InTurn(f, n, F, x) == \A k \in 0 .. n : f[k] = IF k = 0 THEN x ELSE F[k][f[k - 1]]

\* Functions can be applied one after the other, any number of them.
LEMMA InTurnExists ==
    ASSUME NEW n \in Nat, NEW S, NEW F, \A k \in 1 .. n : F[k] \in [S -> S], NEW x \in S
    PROVE  \E f \in [0 .. n -> S] : InTurn(f, n, F, x)
<1> DEFINE Some(m) == \E f \in [0 .. m -> S] : InTurn(f, m, F, x)
           Bad == {m \in 0 .. n : ~Some(m)}
<1>1. SUFFICES Bad = {}
  OBVIOUS
<1> HIDE DEF Some
<1>2. SUFFICES ASSUME NEW m \in Bad, \A k \in Bad : m <= k
               PROVE  FALSE
  <2>1. Bad \in SUBSET Nat
    OBVIOUS
  <2> HIDE DEF Bad
  <2> QED BY <1>2, <2>1, LeastNumber
<1>3. m \in 0 .. n /\ ~Some(m)
  OBVIOUS
<1>4. CASE m = 0
  <2> DEFINE g == [k \in 0 .. 0 |-> x]
  <2>1. g \in [0 .. 0 -> S] /\ \A k \in 0 .. 0 : k = 0 /\ g[k] = x
    OBVIOUS
  <2>2. InTurn(g, 0, F, x)
    BY <2>1 DEF InTurn
  <2> QED BY <1>3, <1>4, <2>1, <2>2 DEF Some
<1>5. CASE m > 0
  <2>1. m - 1 \in 0 .. n /\ ~(m <= m - 1) /\ m \in 1 .. n
    BY <1>3, <1>5
  <2>2. Some(m - 1)
    BY <1>2, <2>1
  <2>3. PICK f \in [0 .. (m - 1) -> S] : InTurn(f, m - 1, F, x)
    BY <2>2 DEF Some
  <2> DEFINE g == [k \in 0 .. m |-> IF k = m THEN F[m][f[m - 1]] ELSE f[k]]
  <2>4. \A k \in 0 .. m : k = m \/ k \in 0 .. (m - 1)
    BY <1>3
  <2>5. F[m][f[m - 1]] \in S
    <3>1. f[m - 1] \in S
      BY <2>1, <2>3
    <3> QED BY <2>1, <3>1
  <2>6. g \in [0 .. m -> S]
    BY <2>3, <2>4, <2>5
  <2>7. ASSUME NEW k \in 0 .. m
        PROVE  g[k] = IF k = 0 THEN x ELSE F[k][g[k - 1]]
    <3>1. CASE k = m
      <4>1. m - 1 \in 0 .. m /\ m - 1 # m
        BY <1>3, <1>5
      <4>2. g[m - 1] = f[m - 1]
        BY <4>1
      <4> QED BY <1>5, <3>1, <4>2
    <3>2. CASE k # m
      <4>1. k \in 0 .. (m - 1) /\ (k # 0 => k - 1 \in 0 .. m /\ k - 1 # m)
        BY <1>3, <3>2
      <4>2. g[k] = f[k] /\ (k # 0 => g[k - 1] = f[k - 1])
        BY <3>2, <4>1
      <4> QED BY <2>3, <4>1, <4>2 DEF InTurn
    <3> QED BY <3>1, <3>2
  <2>8. InTurn(g, m, F, x)
    BY <2>7 DEF InTurn
  <2> HIDE DEF g
  <2> QED BY <1>3, <2>6, <2>8 DEF Some
<1> QED BY <1>3, <1>4, <1>5

\* A function on the numbers up to n is a sequence.
LEMMA FunctionIsSeq ==
    ASSUME NEW S, NEW n \in Nat, NEW s \in [1 .. n -> S]
    PROVE  s \in Seq(S) /\ Len(s) = n /\ DOMAIN s = 1 .. n
<1>1. s \in Seq(S)
  BY SeqDef
<1>2. Len(s) \in Nat /\ 1 .. Len(s) = 1 .. n
  BY <1>1, LenProperties
<1> QED BY <1>1, <1>2

\* A sequence has its members in the set it is over.
LEMMA MembersOfSeq ==
    ASSUME NEW S, NEW s \in Seq(S)
    PROVE  /\ ToSet(s) \subseteq S
           /\ \A i \in DOMAIN s : s[i] \in ToSet(s)
           /\ s \in Seq(ToSet(s))
<1>1. Len(s) \in Nat /\ DOMAIN s = 1 .. Len(s) /\ s = [i \in 1 .. Len(s) |-> s[i]]
  BY LenProperties
<1>2. ToSet(s) \subseteq S /\ \A i \in DOMAIN s : s[i] \in ToSet(s)
  BY <1>1, ElementOfSeq DEF ToSet
<1>3. s \in [1 .. Len(s) -> ToSet(s)]
  BY <1>1, <1>2
<1> QED BY <1>1, <1>2, <1>3, SeqDef

\* Where the members of two sequences are in the one made of both.
LEMMA PlacesOfBoth ==
    ASSUME NEW S, NEW s \in Seq(S), NEW t \in Seq(S)
    PROVE  /\ s \o t \in Seq(S)
           /\ DOMAIN (s \o t) = 1 .. (Len(s) + Len(t))
           /\ \A i \in 1 .. (Len(s) + Len(t)) :
                 (s \o t)[i] = IF i <= Len(s) THEN s[i] ELSE t[i - Len(s)]
<1>1. /\ s \o t \in Seq(S)
      /\ Len(s \o t) = Len(s) + Len(t)
      /\ \A i \in 1 .. (Len(s) + Len(t)) :
             (s \o t)[i] = IF i <= Len(s) THEN s[i] ELSE t[i - Len(s)]
  BY ConcatProperties
<1>2. DOMAIN (s \o t) = 1 .. (Len(s) + Len(t))
  BY <1>1, LenProperties
<1> QED BY <1>1, <1>2

\* A sequence with no repetition, and its last member taken from it.
LEMMA LastTaken ==
    ASSUME NEW S, NEW s \in Seq(S), s # <<>>,
           \A i, j \in DOMAIN s : s[i] = s[j] => i = j
    PROVE  /\ Last(s) \in S /\ Last(s) \in ToSet(s)
           /\ Front(s) \in Seq(S)
           /\ \A i, j \in DOMAIN Front(s) : Front(s)[i] = Front(s)[j] => i = j
           /\ ToSet(Front(s)) = ToSet(s) \ {Last(s)}
<1> DEFINE n == Len(s)
           front == Front(s)
<1>1. n \in Nat /\ DOMAIN s = 1 .. n /\ \A i \in 1 .. n : s[i] \in S
  BY LenProperties, ElementOfSeq
<1>2. n >= 1
  BY <1>1, EmptySeq
<1>3. Last(s) = s[n] /\ n \in DOMAIN s
  BY <1>1, <1>2 DEF Last
<1>4. front = [i \in 1 .. (n - 1) |-> s[i]]
  BY <1>1, <1>2 DEF Front
<1> HIDE DEF n, front
<1>5. front \in [1 .. (n - 1) -> S] /\ n - 1 \in Nat
  BY <1>1, <1>2, <1>4
<1>6. front \in Seq(S) /\ DOMAIN front = 1 .. (n - 1)
  BY <1>5, FunctionIsSeq
<1>7. \A i \in 1 .. (n - 1) : i \in DOMAIN s /\ front[i] = s[i] /\ i # n
  BY <1>1, <1>2, <1>4
<1>8. \A i \in DOMAIN s : i = n \/ i \in 1 .. (n - 1)
  BY <1>1, <1>2
<1>9. \A i, j \in DOMAIN front : front[i] = front[j] => i = j
  BY <1>6, <1>7
<1>10. ToSet(front) = ToSet(s) \ {Last(s)}
  <2>1. ASSUME NEW i \in DOMAIN front PROVE front[i] \in ToSet(s) \ {Last(s)}
    BY <1>3, <1>6, <1>7 DEF ToSet
  <2>2. ASSUME NEW i \in DOMAIN s, s[i] # Last(s) PROVE s[i] \in ToSet(front)
    BY <1>3, <1>6, <1>7, <1>8, <2>2 DEF ToSet
  <2> QED BY <2>1, <2>2 DEF ToSet
<1>11. Last(s) \in S /\ Last(s) \in ToSet(s)
  BY <1>1, <1>3 DEF ToSet
<1> QED BY <1>6, <1>9, <1>10, <1>11 DEF front

\* Two sequences with no repetition and no common member make another.
LEMMA BothOnce ==
    ASSUME NEW S, NEW s \in Seq(S), NEW t \in Seq(S),
           ToSet(s) \cap ToSet(t) = {},
           \A i, j \in DOMAIN s : s[i] = s[j] => i = j,
           \A i, j \in DOMAIN t : t[i] = t[j] => i = j
    PROVE  \A i, j \in DOMAIN (s \o t) : (s \o t)[i] = (s \o t)[j] => i = j
<1> DEFINE both == s \o t
           inS(i) == i \in DOMAIN s /\ both[i] = s[i]
           inT(i) == i - Len(s) \in DOMAIN t /\ both[i] = t[i - Len(s)]
<1>1. /\ Len(s) \in Nat /\ DOMAIN s = 1 .. Len(s)
      /\ Len(t) \in Nat /\ DOMAIN t = 1 .. Len(t)
  BY LenProperties
<1>2. /\ DOMAIN both = 1 .. (Len(s) + Len(t))
      /\ \A i \in 1 .. (Len(s) + Len(t)) :
            both[i] = IF i <= Len(s) THEN s[i] ELSE t[i - Len(s)]
  BY PlacesOfBoth
<1> HIDE DEF both
<1>3. \A i \in DOMAIN both : i \in Nat /\ (inS(i) \/ inT(i))
  BY <1>1, <1>2
<1>4. \A i \in DOMAIN s : s[i] \in ToSet(s)
  BY DEF ToSet
<1>5. \A i \in DOMAIN t : t[i] \in ToSet(t)
  BY DEF ToSet
<1>6. ASSUME NEW i \in DOMAIN both, NEW j \in DOMAIN both, both[i] = both[j]
      PROVE  i = j
  <2>1. CASE inS(i) /\ inS(j)
    BY <1>6, <2>1
  <2>2. CASE inT(i) /\ inT(j)
    <3>1. i - Len(s) = j - Len(s)
      BY <1>6, <2>2
    <3> QED BY <1>1, <1>3, <3>1
  <2>3. ~(inS(i) /\ inT(j)) /\ ~(inT(i) /\ inS(j))
    BY <1>4, <1>5, <1>6
  <2> QED BY <1>3, <2>1, <2>2, <2>3
<1> QED BY <1>6 DEF both

\* What is in a sequence made of two is in one of them.
LEMMA MembersOfBoth ==
    ASSUME NEW S, NEW s \in Seq(S), NEW t \in Seq(S)
    PROVE  s \o t \in Seq(S) /\ ToSet(s \o t) = ToSet(s) \cup ToSet(t)
<1>1. /\ Len(s) \in Nat /\ DOMAIN s = 1 .. Len(s)
      /\ Len(t) \in Nat /\ DOMAIN t = 1 .. Len(t)
  BY LenProperties
<1>2. /\ s \o t \in Seq(S)
      /\ Len(s \o t) = Len(s) + Len(t)
      /\ \A i \in 1 .. (Len(s) + Len(t)) :
             (s \o t)[i] = IF i <= Len(s) THEN s[i] ELSE t[i - Len(s)]
  BY ConcatProperties
<1>3. DOMAIN (s \o t) = 1 .. (Len(s) + Len(t))
  BY <1>2, LenProperties
<1> DEFINE both == s \o t
<1> HIDE DEF both
<1>4. ToSet(both) \subseteq ToSet(s) \cup ToSet(t)
  <2> SUFFICES ASSUME NEW i \in 1 .. (Len(s) + Len(t))
               PROVE  both[i] \in ToSet(s) \cup ToSet(t)
    BY <1>3 DEF ToSet, both
  <2>1. CASE i <= Len(s)
    BY <2>1, <1>1, <1>2 DEF ToSet, both
  <2>2. CASE ~(i <= Len(s))
    <3>1. i - Len(s) \in 1 .. Len(t)
      BY <2>2, <1>1
    <3> QED BY <2>2, <3>1, <1>1, <1>2 DEF ToSet, both
  <2> QED BY <2>1, <2>2
<1>5. ToSet(s) \subseteq ToSet(both)
  <2> SUFFICES ASSUME NEW i \in 1 .. Len(s) PROVE s[i] \in ToSet(both)
    BY <1>1 DEF ToSet
  <2>1. i \in 1 .. (Len(s) + Len(t)) /\ both[i] = s[i]
    BY <1>1, <1>2 DEF both
  <2> QED BY <2>1, <1>3 DEF ToSet, both
<1>6. ToSet(t) \subseteq ToSet(both)
  <2> SUFFICES ASSUME NEW i \in 1 .. Len(t) PROVE t[i] \in ToSet(both)
    BY <1>1 DEF ToSet
  <2>1. /\ Len(s) + i \in 1 .. (Len(s) + Len(t)) /\ ~(Len(s) + i <= Len(s))
        /\ Len(s) + i - Len(s) = i
    BY <1>1
  <2>2. both[Len(s) + i] = t[i]
    BY <2>1, <1>2 DEF both
  <2> QED BY <2>1, <2>2, <1>3 DEF ToSet, both
<1> QED BY <1>2, <1>4, <1>5, <1>6 DEF both

\* The function FlattenSeq defines exists, and is built one sequence at a time.
LEMMA FlattenStep ==
    ASSUME NEW S, NEW seqs \in Seq(Seq(S)), NEW n \in Nat, n <= Len(seqs)
    PROVE  \E f : f = [i \in 1 .. n |-> IF i = 1 THEN seqs[i] ELSE f[i - 1] \o seqs[i]]
<1> DEFINE Is(f, m) ==
             f = [i \in 1 .. m |-> IF i = 1 THEN seqs[i] ELSE f[i - 1] \o seqs[i]]
           Some(m) == \E f : Is(f, m)
           Bad == {m \in 0 .. n : ~Some(m)}
<1> HIDE DEF Some
<1>1. SUFFICES ASSUME NEW m \in Bad, \A k \in Bad : m <= k
               PROVE  FALSE
  <2>1. Bad \in SUBSET Nat
    OBVIOUS
  <2>2. n \in 0 .. n
    OBVIOUS
  <2>3. SUFFICES Bad = {}
    BY <2>2 DEF Some
  <2> HIDE DEF Bad
  <2> QED BY <1>1, <2>1, LeastNumber
<1>2. m \in 0 .. n /\ ~Some(m)
  OBVIOUS
<1>3. CASE m = 0
  <2>1. Is([i \in 1 .. 0 |-> 0], 0)
    OBVIOUS
  <2> QED BY <1>2, <1>3, <2>1 DEF Some
<1>4. CASE m > 0
  <2>1. m - 1 \in 0 .. n /\ ~(m <= m - 1)
    BY <1>2, <1>4
  <2>2. Some(m - 1)
    BY <1>1, <2>1
  <2>3. PICK f : Is(f, m - 1)
    BY <2>2 DEF Some
  <2> DEFINE h == [i \in 1 .. m |->
                     IF i = 1 THEN seqs[i] ELSE IF i = m THEN f[m - 1] \o seqs[m] ELSE f[i]]
  <2>4. ASSUME NEW i \in 1 .. m
        PROVE  h[i] = IF i = 1 THEN seqs[i] ELSE h[i - 1] \o seqs[i]
    <3>1. CASE i = 1
      BY <3>1
    <3>2. CASE i # 1
      <4>1. i - 1 \in 1 .. (m - 1) /\ i - 1 \in 1 .. m /\ i - 1 # m
        BY <1>2, <3>2
      <4>2. f[i - 1] = h[i - 1]
        BY <2>3, <4>1
      <4>3. CASE i = m
        BY <3>2, <4>2, <4>3
      <4>4. CASE i # m
        <5>1. i \in 1 .. (m - 1)
          BY <4>4, <1>2
        <5>2. f[i] = f[i - 1] \o seqs[i]
          BY <2>3, <3>2, <5>1
        <5> QED BY <3>2, <4>2, <4>4, <5>2
      <4> QED BY <4>3, <4>4
    <3> QED BY <3>1, <3>2
  <2>5. Is(h, m)
    <3>1. h = [i \in 1 .. m |-> h[i]]
      OBVIOUS
    <3> HIDE DEF h
    <3> QED BY <2>4, <3>1
  <2> QED BY <1>2, <2>5 DEF Some
<1> QED BY <1>2, <1>3, <1>4

\* Sequences laid end to end hold what they hold.
LEMMA FlattenMembers ==
    ASSUME NEW S, NEW seqs \in Seq(Seq(S))
    PROVE  /\ FlattenSeq(seqs) \in Seq(S)
           /\ ToSet(FlattenSeq(seqs)) = UNION {ToSet(seqs[i]) : i \in DOMAIN seqs}
<1> DEFINE n == Len(seqs)
<1>1. n \in Nat /\ DOMAIN seqs = 1 .. n /\ \A i \in 1 .. n : seqs[i] \in Seq(S)
  BY LenProperties, ElementOfSeq
<1>2. CASE n = 0
  <2>1. seqs = <<>> /\ seqs \in Seq(S)
    BY <1>2, EmptySeq
  <2> QED BY <1>1, <1>2, <2>1 DEF FlattenSeq, ToSet
<1>3. CASE n # 0
  <2> DEFINE Is(f) == f = [i \in 1 .. n |-> IF i = 1 THEN seqs[i] ELSE f[i - 1] \o seqs[i]]
             flat == CHOOSE f : Is(f)
  <2>1. Is(flat)
    <3>0. n \in Nat /\ n <= Len(seqs)
      BY <1>1
    <3>1. \E f : Is(f)
      BY <3>0, FlattenStep, Zenon
    <3> HIDE DEF Is
    <3> QED BY <3>1
  <2>2. FlattenSeq(seqs) = flat[n]
    BY <1>3 DEF FlattenSeq
  <2> HIDE DEF flat
  <2> DEFINE Right(i) ==
               flat[i] \in Seq(S) /\ ToSet(flat[i]) = UNION {ToSet(seqs[j]) : j \in 1 .. i}
             Bad == {i \in 1 .. n : ~Right(i)}
  <2> HIDE DEF Right
  <2>3. ASSUME NEW m \in Bad, \A k \in Bad : m <= k
        PROVE  FALSE
    <3>1. m \in 1 .. n /\ ~Right(m)
      OBVIOUS
    <3>2. CASE m = 1
      <4>1. flat[1] = seqs[1]
        BY <2>1, <3>1, <3>2
      <4>2. 1 .. 1 = {1}
        OBVIOUS
      <4>3. UNION {ToSet(seqs[j]) : j \in 1 .. 1} = ToSet(seqs[1])
        BY <4>2
      <4> QED BY <1>1, <3>1, <3>2, <4>1, <4>3 DEF Right
    <3>3. CASE m # 1
      <4>1. m - 1 \in 1 .. n /\ ~(m <= m - 1)
        BY <1>1, <3>1, <3>3
      <4>2. Right(m - 1)
        BY <2>3, <4>1
      <4>3. flat[m] = flat[m - 1] \o seqs[m]
        BY <2>1, <3>1, <3>3
      <4>4. flat[m] \in Seq(S) /\ ToSet(flat[m]) = ToSet(flat[m - 1]) \cup ToSet(seqs[m])
        BY <1>1, <3>1, <4>2, <4>3, MembersOfBoth DEF Right
      <4>5. 1 .. m = (1 .. (m - 1)) \cup {m}
        BY <1>1, <3>1
      <4>6. UNION {ToSet(seqs[j]) : j \in 1 .. m}
              = (UNION {ToSet(seqs[j]) : j \in 1 .. (m - 1)}) \cup ToSet(seqs[m])
        BY <4>5
      <4> QED BY <3>1, <4>2, <4>4, <4>6 DEF Right
    <3> QED BY <3>2, <3>3
  <2>4. Bad = {}
    <3>1. Bad \in SUBSET Nat
      BY <1>1
    <3> HIDE DEF Bad
    <3> QED BY <2>3, <3>1, LeastNumber
  <2>5. Right(n)
    BY <1>1, <1>3, <2>4
  <2> QED BY <1>1, <2>2, <2>5 DEF Right
<1> QED BY <1>2, <1>3

\* What a function gives for each member of a sequence, laid end to end, and
\* all that it gives for the members of a set.
Each(f, seq) == FlattenSeq([i \in DOMAIN seq |-> f[seq[i]]])
Held(f, T) == UNION {ToSet(f[a]) : a \in T}

\* Each holds what the function gives for the members of the sequence.
LEMMA EachMembers ==
    ASSUME NEW A, NEW seq \in Seq(A), NEW S, NEW f \in [A -> Seq(S)]
    PROVE  Each(f, seq) \in Seq(S) /\ ToSet(Each(f, seq)) = Held(f, ToSet(seq))
<1> DEFINE each == [i \in DOMAIN seq |-> f[seq[i]]]
<1>1. /\ Len(seq) \in Nat /\ DOMAIN seq = 1 .. Len(seq)
      /\ \A i \in 1 .. Len(seq) : seq[i] \in A
  BY LenProperties, ElementOfSeq
<1>2. each \in [1 .. Len(seq) -> Seq(S)]
  BY <1>1
<1>4. \A i \in DOMAIN seq : each[i] = f[seq[i]]
  OBVIOUS
<1> HIDE DEF each
<1>3. each \in Seq(Seq(S)) /\ DOMAIN each = DOMAIN seq
  BY <1>1, <1>2, FunctionIsSeq
<1>5. /\ FlattenSeq(each) \in Seq(S)
      /\ ToSet(FlattenSeq(each)) = UNION {ToSet(each[i]) : i \in DOMAIN each}
  BY <1>3, FlattenMembers
<1>6. ASSUME NEW i \in DOMAIN each
      PROVE  ToSet(each[i]) \subseteq UNION {ToSet(f[a]) : a \in ToSet(seq)}
  <2>1. seq[i] \in ToSet(seq) /\ each[i] = f[seq[i]]
    BY <1>3, <1>4 DEF ToSet
  <2> QED BY <2>1
<1>7. ASSUME NEW a \in ToSet(seq)
      PROVE  ToSet(f[a]) \subseteq UNION {ToSet(each[i]) : i \in DOMAIN each}
  <2>1. PICK i \in DOMAIN seq : seq[i] = a
    BY DEF ToSet
  <2>2. i \in DOMAIN each /\ each[i] = f[a]
    BY <1>3, <1>4, <2>1
  <2> QED BY <2>2
<1>8. UNION {ToSet(each[i]) : i \in DOMAIN each} = UNION {ToSet(f[a]) : a \in ToSet(seq)}
  BY <1>6, <1>7
<1> QED BY <1>5, <1>8 DEF each, Each, Held

\* What comes before each member of a set, in a total order.
TotalOrder(S, before) ==
    /\ before \in [S -> SUBSET S]
    /\ \A x \in S : x \notin before[x]
    /\ \A x, y \in S : x \in before[y] => before[x] \subseteq before[y]
    /\ \A x, y \in S : x = y \/ x \in before[y] \/ y \in before[x]

\* A sequence that has at each place a member with as many before it, if any.
PlacedBy(seq, S, before) ==
    /\ seq = [i \in 1 .. Cardinality(S) |-> seq[i]]
    /\ \A i \in 1 .. Cardinality(S) :
           (\E x \in S : Cardinality(before[x]) = i - 1)
               => seq[i] \in S /\ Cardinality(before[seq[i]]) = i - 1

\* All members of a set, in order and none twice.
Lists(seq, S, before) ==
    /\ seq \in Seq(S) /\ Len(seq) = Cardinality(S)
    /\ DOMAIN seq = 1 .. Cardinality(S)
    /\ ToSet(seq) = S
    /\ \A i, j \in DOMAIN seq : seq[i] = seq[j] => i = j
    /\ \A i, j \in DOMAIN seq : i < j => seq[i] \in before[seq[j]]

\* The members of a finite set, each at the place that the number of those
\* before it says.
LEMMA Enumeration ==
    ASSUME NEW S, IsFiniteSet(S), NEW before, TotalOrder(S, before),
           NEW seq, PlacedBy(seq, S, before)
    PROVE  Lists(seq, S, before)
<1> USE DEF TotalOrder, PlacedBy
<1> DEFINE n == Cardinality(S)
           rank == [x \in S |-> Cardinality(before[x])]
<1>1. n \in Nat
  BY FS_CardinalityType
<1>2. \A x \in S : IsFiniteSet(before[x]) /\ rank[x] \in Nat /\ rank[x] < n
  <2> TAKE x \in S
  <2>1. before[x] \in SUBSET S /\ before[x] # S
    OBVIOUS
  <2>2. /\ IsFiniteSet(before[x]) /\ Cardinality(before[x]) <= Cardinality(S)
        /\ Cardinality(before[x]) # Cardinality(S)
    BY <2>1, FS_Subset
  <2>3. Cardinality(before[x]) \in Nat
    BY <2>2, FS_CardinalityType
  <2> QED BY <1>1, <2>2, <2>3
<1>3. \A x, y \in S : x \in before[y] => rank[x] < rank[y]
  <2> SUFFICES ASSUME NEW x \in S, NEW y \in S, x \in before[y] PROVE rank[x] < rank[y]
    OBVIOUS
  <2>1. before[x] \in SUBSET before[y] /\ before[x] # before[y]
    OBVIOUS
  <2>2. IsFiniteSet(before[y])
    BY <1>2
  <2>3. /\ Cardinality(before[x]) <= Cardinality(before[y])
        /\ Cardinality(before[x]) # Cardinality(before[y])
    BY <2>1, <2>2, FS_Subset
  <2>4. Cardinality(before[x]) \in Nat /\ Cardinality(before[y]) \in Nat
    BY <1>2
  <2> QED BY <2>3, <2>4
<1>4. \A x, y \in S : rank[x] = rank[y] => x = y
  <2> HIDE DEF rank
  <2> SUFFICES ASSUME NEW x \in S, NEW y \in S, rank[x] = rank[y] PROVE x = y
    OBVIOUS
  <2>1. x \notin before[y] /\ y \notin before[x]
    BY <1>2, <1>3
  <2> QED BY <2>1
<1>5. \A k \in 0 .. (n - 1) : \E x \in S : rank[x] = k
  <2>1. rank \in Injection(S, 0 .. (n - 1))
    <3>1. rank \in [S -> 0 .. (n - 1)]
      <4>1. \A x \in S : rank[x] \in 0 .. (n - 1)
        BY <1>1, <1>2
      <4> QED BY <4>1
    <3> HIDE DEF rank
    <3> QED BY <1>4, <3>1, Fun_IsInj
  <2>2. IsFiniteSet(0 .. (n - 1)) /\ Cardinality(0 .. (n - 1)) = n
    <3>1. 0 \in Int /\ n - 1 \in Int
      BY <1>1
    <3>2. /\ IsFiniteSet(0 .. (n - 1))
          /\ Cardinality(0 .. (n - 1)) = IF 0 > n - 1 THEN 0 ELSE n - 1 - 0 + 1
      BY <3>1, FS_Interval
    <3> QED BY <1>1, <3>2
  <2>3. rank \in Surjection(S, 0 .. (n - 1))
    <3> HIDE DEF rank
    <3> QED BY <2>1, <2>2, FS_Injection
  <2> HIDE DEF rank
  <2> QED BY <2>3 DEF Surjection
<1>6. \A i \in 1 .. n : seq[i] \in S /\ rank[seq[i]] = i - 1
  <2> TAKE i \in 1 .. n
  <2>1. i - 1 \in 0 .. (n - 1)
    BY <1>1
  <2>2. \E x \in S : Cardinality(before[x]) = i - 1
    BY <1>5, <2>1
  <2> QED BY <2>2
<1> HIDE DEF rank
<1>7. seq \in [1 .. n -> S] /\ DOMAIN seq = 1 .. n
  BY <1>6
<1>8. seq \in Seq(S) /\ Len(seq) = n
  <2> HIDE DEF n
  <2> QED BY <1>1, <1>7, FunctionIsSeq
<1>9. \A x \in S : x \in ToSet(seq)
  <2> TAKE x \in S
  <2> DEFINE k == rank[x] + 1
  <2>1. k \in 1 .. n /\ k - 1 = rank[x]
    BY <1>1, <1>2
  <2> HIDE DEF k
  <2>2. seq[k] \in S /\ rank[seq[k]] = rank[x]
    BY <1>6, <2>1, Zenon
  <2>3. seq[k] = x
    BY <1>4, <2>2, Zenon
  <2> QED BY <1>7, <2>1, <2>3 DEF ToSet
<1>10. \A i, j \in 1 .. n : seq[i] = seq[j] => i = j
  <2> SUFFICES ASSUME NEW i \in 1 .. n, NEW j \in 1 .. n, seq[i] = seq[j] PROVE i = j
    OBVIOUS
  <2>1. i - 1 = j - 1
    BY <1>6
  <2> QED BY <2>1
<1>11. \A i, j \in 1 .. n : i < j => seq[i] \in before[seq[j]]
  <2> SUFFICES ASSUME NEW i \in 1 .. n, NEW j \in 1 .. n, i < j
               PROVE  seq[i] \in before[seq[j]]
    OBVIOUS
  <2>1. seq[i] \in S /\ seq[j] \in S /\ rank[seq[i]] = i - 1 /\ rank[seq[j]] = j - 1
    BY <1>6
  <2>2. i - 1 < j - 1 /\ ~(j - 1 < i - 1) /\ i - 1 # j - 1
    OBVIOUS
  <2>3. ASSUME seq[j] \in before[seq[i]] PROVE FALSE
    <3>1. rank[seq[j]] < rank[seq[i]]
      BY <1>3, <2>1, <2>3
    <3> QED BY <2>1, <2>2, <3>1
  <2>4. seq[i] # seq[j]
    BY <2>1, <2>2
  <2> QED BY <2>1, <2>3, <2>4
<1>12. ToSet(seq) \subseteq S
  BY <1>8, MembersOfSeq
<1> QED BY <1>7, <1>8, <1>9, <1>10, <1>11, <1>12 DEF Lists

\* A finite set of numbers from the least on: each place has the one with as
\* many below it.
LEMMA NumbersListed ==
    ASSUME NEW S \in SUBSET Nat, IsFiniteSet(S)
    PROVE  Lists([i \in 1 .. Cardinality(S) |->
                     CHOOSE n \in S : Cardinality({m \in S : m < n}) = i - 1],
                 S, [x \in S |-> {m \in S : m < x}])
<1> DEFINE before == [x \in S |-> {m \in S : m < x}]
           seq == [i \in 1 .. Cardinality(S) |->
                      CHOOSE n \in S : Cardinality({m \in S : m < n}) = i - 1]
<1>1. TotalOrder(S, before)
  <2>1. \A x \in S : x \in Nat /\ before[x] = {m \in S : m < x}
    OBVIOUS
  <2>2. before \in [S -> SUBSET S]
    OBVIOUS
  <2> HIDE DEF before
  <2>3. \A x, y \in S : x \in before[y] <=> x < y
    BY <2>1
  <2>4. ASSUME NEW x \in S, NEW y \in S, x \in before[y], NEW z \in before[x]
        PROVE  z \in before[y]
    <3>1. z \in S
      BY <2>1
    <3>2. z < x /\ x < y /\ z \in Nat /\ x \in Nat /\ y \in Nat
      BY <2>1, <2>3, <2>4, <3>1
    <3> QED BY <2>3, <3>1, <3>2
  <2>5. \A x, y \in S : x = y \/ x \in before[y] \/ y \in before[x]
    BY <2>1, <2>3
  <2>6. \A x \in S : x \notin before[x]
    BY <2>1, <2>3
  <2> QED BY <2>2, <2>4, <2>5, <2>6 DEF TotalOrder
<1>2. PlacedBy(seq, S, before)
  <2>1. seq = [i \in 1 .. Cardinality(S) |-> seq[i]]
    <3> DEFINE place(i) == CHOOSE n \in S : Cardinality({m \in S : m < n}) = i - 1
    <3>1. seq = [i \in 1 .. Cardinality(S) |-> place(i)]
      OBVIOUS
    <3> HIDE DEF place, seq
    <3> QED BY <3>1
  <2>2. ASSUME NEW i \in 1 .. Cardinality(S), NEW x \in S,
               Cardinality(before[x]) = i - 1
        PROVE  seq[i] \in S /\ Cardinality(before[seq[i]]) = i - 1
    <3> DEFINE fits(n) == Cardinality({m \in S : m < n}) = i - 1
    <3>1. fits(x)
      BY <2>2
    <3>2. seq[i] = CHOOSE n \in S : fits(n)
      OBVIOUS
    <3> HIDE DEF fits
    <3>3. seq[i] \in S /\ fits(seq[i])
      BY <3>1, <3>2
    <3> QED BY <3>3 DEF fits
  <2> HIDE DEF seq, before
  <2> QED BY <2>1, <2>2 DEF PlacedBy
<1> HIDE DEF seq, before
<1> QED BY <1>1, <1>2, Enumeration DEF before, seq

\* What a function gives for the members of a finite set is finite.
LEMMA ImageIsFinite ==
    ASSUME NEW S, IsFiniteSet(S), NEW f, DOMAIN f = S, f = [x \in S |-> f[x]]
    PROVE  IsFiniteSet({f[x] : x \in S})
<1> DEFINE T == {f[x] : x \in S}
<1>1. f \in [S -> T] /\ \A y \in T : \E x \in S : f[x] = y
  OBVIOUS
<1> HIDE DEF T
<1>2. f \in Surjection(S, T)
  BY <1>1, Fun_IsSurj
<1>3. IsFiniteSet(T)
  BY <1>2, FS_Surjection
<1> QED BY <1>3 DEF T
=============================================================================
