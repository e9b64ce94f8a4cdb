------------------------- MODULE DescentStackProofs -------------------------
(***************************************************************************)
(* Theorems about the recursion guard, for any shapes, any data and any    *)
(* limit.  Marks and Disjoint are what makes unwind sound: the marks cut   *)
(* pairs into one segment per frame, and no pair occurs in two segments,   *)
(* so removing a frame's pairs by value cannot take away a pair that a     *)
(* frame below it still needs.                                             *)
(***************************************************************************)
EXTENDS DescentBounds, FiniteSetTheorems, SequenceTheorems, TLAPS

Marks ==
    /\ \A k \in 1..Len(frames) : frames[k].mark < Len(pairs)
    /\ \A k \in 1..Len(frames) : \A j \in 1..(k - 1) : frames[j].mark < frames[k].mark
    /\ frames # <<>> => frames[1].mark = 0
    /\ frames = <<>> => pairs = <<>>

Disjoint ==
    \A k \in 1..Len(frames) :
        \A i \in 1..frames[k].mark : \A j \in (frames[k].mark + 1)..Len(pairs) :
            pairs[i] # pairs[j]

Nesting ==
    /\ bases = <<>> => frames = <<>>
    /\ bases # <<>> => bases[1] = 0
    /\ \A i \in 1..Len(bases) : bases[i] <= Len(frames) /\ bases[i] >= i - 1
    /\ \A i \in 1..Len(bases) : \A j \in 1..(i - 1) : bases[j] < bases[i]
    /\ depth = Len(bases)
    /\ depth <= MaxDepth

IInv == TypeOK /\ SeenIsPairs /\ Marks /\ Disjoint /\ Nesting

-----------------------------------------------------------------------------

\* A prefix of a sequence.
LEMMA PrefixProperties ==
    ASSUME NEW S, NEW q \in Seq(S), NEW k \in 0..Len(q)
    PROVE  /\ SubSeq(q, 1, k) \in Seq(S) /\ Len(SubSeq(q, 1, k)) = k
           /\ \A i \in 1..k : SubSeq(q, 1, k)[i] = q[i]
<1>1. Len(q) \in Nat /\ k \in Int /\ 1 \in Int
  OBVIOUS
<1>2. \A i \in 1..k : q[i] \in S
  BY <1>1, ElementOfSeq
<1>3. /\ SubSeq(q, 1, k) \in Seq(S)
      /\ Len(SubSeq(q, 1, k)) = IF 1 <= k THEN k - 1 + 1 ELSE 0
      /\ \A i \in 1..(k - 1 + 1) : SubSeq(q, 1, k)[i] = q[1 + i - 1]
  BY <1>1, <1>2, SubSeqProperties
<1>4. k - 1 + 1 = k /\ \A i \in 1..k : 1 + i - 1 = i
  BY <1>1
<1> QED BY <1>1, <1>3, <1>4

\* What push_frame appends to pairs, position by position.
LEMMA ExtendPairs ==
    ASSUME NEW P \in Seq(Pair), NEW s \in Shapes, NEW n \in Nat,
           NEW kept \in Seq(Nodes), Len(kept) = n,
           NEW Q, Q = P \o Tagged(s, kept)
    PROVE  /\ Q \in Seq(Pair) /\ Len(Q) = Len(P) + n
           /\ \A i \in 1..Len(P) : Q[i] = P[i]
           /\ \A i \in 1..n : Len(P) + i \in 1..Len(Q) /\ Q[Len(P) + i] = <<s, kept[i]>>
           /\ \A i \in (Len(P) + 1)..Len(Q) : i - Len(P) \in 1..n /\ Q[i] = <<s, kept[i - Len(P)]>>
<1> DEFINE new == Tagged(s, kept)
<1>1. new \in Seq(Pair) /\ Len(new) = n
  <2>1. \A i \in 1..n : <<s, kept[i]>> \in Pair
    BY ElementOfSeq DEF Pair
  <2>2. new \in [1..n -> Pair]
    BY <2>1 DEF Tagged
  <2>3. new \in Seq(Pair)
    BY <2>2, SeqDef
  <2>4. DOMAIN new = 1..n /\ DOMAIN new = 1..Len(new) /\ Len(new) \in Nat
    BY <2>2, <2>3, LenProperties
  <2>5. Len(new) = n
    <3> HIDE DEF new
    <3>1. 1..Len(new) = 1..n /\ Len(new) \in Nat /\ n \in Nat
      BY <2>4
    <3>2. Len(new) \in 1..Len(new) \/ Len(new) = 0
      BY <3>1
    <3>3. n \in 1..n \/ n = 0
      BY <3>1
    <3> QED BY <3>1, <3>2, <3>3
  <2> QED BY <2>3, <2>5
<1>2. Len(P) \in Nat
  OBVIOUS
<1>3. Q = P \o new
  OBVIOUS
<1>4. \A i \in 1..n : new[i] = <<s, kept[i]>>
  <2>1. new = [i \in 1..n |-> <<s, kept[i]>>]
    BY DEF Tagged
  <2> HIDE DEF new
  <2> QED BY <2>1
<1> HIDE DEF new
<1>5. Q \in Seq(Pair) /\ Len(Q) = Len(P) + n
      /\ \A i \in 1..(Len(P) + n) : Q[i] = IF i <= Len(P) THEN P[i] ELSE new[i - Len(P)]
  <2>1. P \in Seq(Pair) /\ new \in Seq(Pair) /\ Len(new) = n
    BY <1>1
  <2>2. /\ P \o new \in Seq(Pair)
        /\ Len(P \o new) = Len(P) + Len(new)
        /\ \A i \in 1..(Len(P) + Len(new)) :
              (P \o new)[i] = IF i <= Len(P) THEN P[i] ELSE new[i - Len(P)]
    BY <2>1, ConcatProperties, Zenon
  <2> QED BY <2>1, <2>2, <1>3
<1>6. \A i \in (Len(P) + 1)..Len(Q) : i - Len(P) \in 1..n /\ Q[i] = <<s, kept[i - Len(P)]>>
  <2> TAKE i \in (Len(P) + 1)..Len(Q)
  <2>1. i \in 1..(Len(P) + n) /\ ~(i <= Len(P)) /\ i - Len(P) \in 1..n
    BY <1>2, <1>5
  <2>2. Q[i] = new[i - Len(P)]
    BY <2>1, <1>5
  <2> QED BY <2>1, <2>2, <1>4
<1>7. \A i \in 1..n : Len(P) + i \in 1..Len(Q) /\ Q[Len(P) + i] = <<s, kept[i]>>
  <2> TAKE i \in 1..n
  <2>1. /\ Len(P) + i \in (Len(P) + 1)..Len(Q)
        /\ Len(P) + i \in 1..Len(Q)
        /\ (Len(P) + i) - Len(P) = i
    BY <1>2, <1>5
  <2>2. Q[Len(P) + i] = <<s, kept[(Len(P) + i) - Len(P)]>>
    BY <2>1, <1>6
  <2> QED BY <2>1, <2>2
<1> QED BY <1>2, <1>5, <1>6, <1>7

\* Pushing a frame: types, marks and the agreement of seen with pairs survive
\* because the filter has left only pairs that are not standing.
LEMMA PushKeeps ==
    ASSUME TypeOK, SeenIsPairs, Marks, Disjoint,
           NEW s \in Shapes, NEW kept \in FocusSets, Fresh(s, kept), PushFrame(s, kept)
    PROVE  /\ frames' \in Seq(Frame) /\ pairs' \in Seq(Pair) /\ seen' \subseteq Pair
           /\ SeenIsPairs' /\ Marks' /\ Disjoint'
           /\ Len(frames') >= Len(frames)
<1>1. CASE kept = <<>>
  <2>1. UNCHANGED <<frames, pairs, seen>>
    BY <1>1 DEF PushFrame
  <2>2. SeenIsPairs' /\ Marks' /\ Disjoint'
    BY <2>1 DEF SeenIsPairs, Marks, Disjoint
  <2>3. Len(frames') >= Len(frames)
    BY <2>1 DEF TypeOK
  <2> QED BY <2>1, <2>2, <2>3 DEF TypeOK
<1>2. CASE kept # <<>>
  <2> DEFINE L == Len(pairs)
             f == [id |-> s, mark |-> L]
  <2> DEFINE n == Len(kept)
  <2>1. kept \in Seq(Nodes) /\ n \in Nat
    BY FocusAssumption
  <2>2. n \in Nat /\ kept \in Seq(Nodes) /\ Len(kept) = n /\ n > 0
    BY <2>1, <1>2, EmptySeq
  <2> HIDE DEF n
  <2>3. /\ frames' = Append(frames, f)
        /\ pairs' = pairs \o Tagged(s, kept)
        /\ seen' = seen \cup {<<s, kept[i]>> : i \in 1..n}
    BY <1>2, <2>2 DEF PushFrame
  <2>4. L \in Nat /\ f \in Frame /\ f.mark = L
    BY DEF Frame, TypeOK
  <2>5. /\ frames' \in Seq(Frame) /\ Len(frames') = Len(frames) + 1 /\ frames' # <<>>
        /\ \A k \in 1..Len(frames) : frames'[k] = frames[k]
        /\ frames'[Len(frames) + 1] = f
    <3>1. frames' = Append(frames, f) /\ frames \in Seq(Frame) /\ f \in Frame
      BY <2>3, <2>4 DEF TypeOK
    <3> HIDE DEF f
    <3> QED BY <3>1, AppendProperties
  <2>6. /\ pairs' \in Seq(Pair) /\ Len(pairs') = L + n
        /\ \A i \in 1..L : pairs'[i] = pairs[i]
        /\ \A i \in 1..n : L + i \in 1..Len(pairs') /\ pairs'[L + i] = <<s, kept[i]>>
        /\ \A i \in (L + 1)..Len(pairs') : i - L \in 1..n /\ pairs'[i] = <<s, kept[i - L]>>
    <3>1. pairs \in Seq(Pair)
      BY DEF TypeOK
    <3>2. \A Q : Q = pairs \o Tagged(s, kept) =>
            /\ Q \in Seq(Pair) /\ Len(Q) = Len(pairs) + n
            /\ \A i \in 1..Len(pairs) : Q[i] = pairs[i]
            /\ \A i \in 1..n : Len(pairs) + i \in 1..Len(Q) /\ Q[Len(pairs) + i] = <<s, kept[i]>>
            /\ \A i \in (Len(pairs) + 1)..Len(Q) :
                  i - Len(pairs) \in 1..n /\ Q[i] = <<s, kept[i - Len(pairs)]>>
      <4> HIDE DEF L, f
      <4> QED BY <3>1, <2>2, ExtendPairs, Zenon
    <3> QED BY <2>3, <3>2, Zenon
  <2>7. Len(frames) \in Nat /\ \A k \in 1..Len(frames) : frames[k].mark \in Nat
    <3>1. \A k \in 1..Len(frames) : frames[k] \in Frame
      BY ElementOfSeq DEF TypeOK
    <3> QED BY <3>1 DEF TypeOK, Frame
  <2> HIDE DEF L, f
  <2>10. seen' \subseteq Pair
    BY <2>1, <2>2, <2>3 DEF Pair, TypeOK
  <2>11. SeenIsPairs'
    <3>1. \A p \in seen' : \E i \in 1..Len(pairs') : pairs'[i] = p
      <4> TAKE p \in seen'
      <4>1. CASE p \in seen
        <5>1. PICK i \in 1..L : pairs[i] = p
          BY <4>1 DEF SeenIsPairs, L
        <5> QED BY <5>1, <2>2, <2>4, <2>6
      <4>2. CASE p \in {<<s, kept[i]>> : i \in 1..n}
        BY <4>2, <2>6
      <4> QED BY <4>1, <4>2, <2>3
    <3>2. \A i \in 1..Len(pairs') : pairs'[i] \in seen'
      <4> TAKE i \in 1..Len(pairs')
      <4>1. CASE i \in 1..L
        <5>1. pairs[i] \in seen
          BY <4>1 DEF SeenIsPairs, L
        <5> QED BY <4>1, <5>1, <2>3, <2>6
      <4>2. CASE i \in (L + 1)..Len(pairs')
        BY <4>2, <2>3, <2>6
      <4> QED BY <4>1, <4>2, <2>2, <2>4, <2>6
    <3> QED BY <3>1, <3>2 DEF SeenIsPairs
  <2>12. Marks'
    <3>1. \A k \in 1..Len(frames') : frames'[k].mark < Len(pairs')
      <4> TAKE k \in 1..Len(frames')
      <4>1. CASE k \in 1..Len(frames)
        <5>1. frames[k].mark < L /\ frames[k].mark \in Nat
          BY <4>1, <2>7 DEF Marks, L
        <5> QED BY <4>1, <5>1, <2>2, <2>4, <2>5, <2>6
      <4>2. CASE k = Len(frames) + 1
        BY <4>2, <2>2, <2>4, <2>5, <2>6
      <4> QED BY <4>1, <4>2, <2>5, <2>7
    <3>2. \A k \in 1..Len(frames') : \A j \in 1..(k - 1) : frames'[j].mark < frames'[k].mark
      <4> TAKE k \in 1..Len(frames')
      <4> TAKE j \in 1..(k - 1)
      <4>1. j \in 1..Len(frames) /\ frames'[j] = frames[j]
        BY <2>5, <2>7
      <4>2. CASE k \in 1..Len(frames)
        BY <4>1, <4>2, <2>5 DEF Marks
      <4>3. CASE k = Len(frames) + 1
        BY <4>1, <4>3, <2>4, <2>5 DEF Marks, L
      <4>4. k \in 1..Len(frames) \/ k = Len(frames) + 1
        BY <2>5, <2>7
      <4> QED BY <4>2, <4>3, <4>4
    <3>3. frames'[1].mark = 0
      <4>1. CASE frames = <<>>
        BY <4>1, <2>4, <2>5 DEF Marks, L
      <4>2. CASE frames # <<>>
        BY <4>2, <2>5, <2>7 DEF Marks, TypeOK
      <4> QED BY <4>1, <4>2
    <3> QED BY <3>1, <3>2, <3>3, <2>5 DEF Marks
  <2>13. Disjoint'
    <3> SUFFICES ASSUME NEW k \in 1..Len(frames'), NEW i \in 1..frames'[k].mark,
                        NEW j \in (frames'[k].mark + 1)..Len(pairs')
                 PROVE  pairs'[i] # pairs'[j]
      BY DEF Disjoint
    <3>1. CASE k = Len(frames) + 1
      <4>1. i \in 1..L /\ j \in (L + 1)..Len(pairs')
        BY <3>1, <2>4, <2>5
      <4>2. pairs'[i] \in seen
        BY <4>1, <2>6 DEF SeenIsPairs, L
      <4> QED BY <4>1, <4>2, <2>2, <2>6 DEF Fresh
    <3>2. CASE k \in 1..Len(frames)
      <4>1. frames'[k] = frames[k] /\ frames[k].mark \in Nat /\ frames[k].mark < L
        BY <3>2, <2>5, <2>7 DEF Marks, L
      <4>2. i \in 1..L /\ pairs'[i] = pairs[i] /\ pairs[i] \in seen
        BY <4>1, <2>4, <2>6 DEF SeenIsPairs, L
      <4>3. CASE j \in 1..L
        <5>1. j \in (frames[k].mark + 1)..Len(pairs) /\ pairs'[j] = pairs[j]
          BY <4>1, <4>3, <2>6 DEF L
        <5> QED BY <3>2, <4>1, <4>2, <5>1 DEF Disjoint
      <4>4. CASE j \in (L + 1)..Len(pairs')
        BY <4>2, <4>4, <2>2, <2>6 DEF Fresh
      <4> QED BY <4>1, <4>3, <4>4, <2>2, <2>4, <2>6
    <3> QED BY <3>1, <3>2, <2>5, <2>7
  <2> QED BY <2>5, <2>6, <2>7, <2>10, <2>11, <2>12, <2>13
<1> QED BY <1>1, <1>2

\* Popping the top frame: removing its pairs by value removes nothing else.
LEMMA PopKeeps ==
    ASSUME TypeOK, SeenIsPairs, Marks, Disjoint, frames # <<>>, PopFrame
    PROVE  /\ frames' \in Seq(Frame) /\ pairs' \in Seq(Pair) /\ seen' \subseteq Pair
           /\ SeenIsPairs' /\ Marks' /\ Disjoint'
           /\ Len(frames') = Len(frames) - 1
           /\ \A k \in 1..Len(frames') : frames'[k] = frames[k]
           /\ Len(pairs') = Top.mark
           /\ \A i \in 1..Len(pairs') : pairs'[i] = pairs[i]
<1> DEFINE N == Len(frames)
           M == Top.mark
<1>1. N \in Nat /\ N > 0 /\ Len(pairs) \in Nat
  BY DEF TypeOK
<1>2. \A k \in 1..N : frames[k] \in Frame /\ frames[k].mark \in Nat
  <2>1. \A k \in 1..N : frames[k] \in Frame
    BY ElementOfSeq DEF TypeOK
  <2> QED BY <2>1 DEF Frame
<1>3. M = frames[N].mark /\ M \in Nat /\ M < Len(pairs)
  BY <1>1, <1>2 DEF Top, Marks
<1>4. \A i \in 1..Len(pairs) : pairs[i] \in Pair
  BY ElementOfSeq DEF TypeOK
<1>5. /\ frames' \in Seq(Frame) /\ Len(frames') = N - 1
      /\ \A k \in 1..(N - 1) : frames'[k] = frames[k]
  <2>1. frames' = SubSeq(frames, 1, N - 1)
    BY DEF PopFrame
  <2>2. N - 1 \in 0..Len(frames) /\ frames \in Seq(Frame)
    BY <1>1 DEF TypeOK
  <2> QED BY <2>1, <2>2, PrefixProperties
<1>6. /\ pairs' \in Seq(Pair) /\ Len(pairs') = M
      /\ \A i \in 1..M : pairs'[i] = pairs[i]
  <2>1. pairs' = SubSeq(pairs, 1, M)
    BY DEF PopFrame
  <2>2. M \in 0..Len(pairs) /\ pairs \in Seq(Pair)
    BY <1>1, <1>3 DEF TypeOK
  <2> QED BY <2>1, <2>2, PrefixProperties
<1>7. seen' = seen \ {pairs[i] : i \in (M + 1)..Len(pairs)}
  BY DEF PopFrame, Above
<1> HIDE DEF M, N
<1>8. SeenIsPairs'
  <2>1. \A q \in seen' : \E i \in 1..Len(pairs') : pairs'[i] = q
    <3> TAKE q \in seen'
    <3>1. q \in seen /\ q \notin {pairs[i] : i \in (M + 1)..Len(pairs)}
      BY <1>7
    <3>2. PICK i \in 1..Len(pairs) : pairs[i] = q
      BY <3>1 DEF SeenIsPairs
    <3>3. i \in 1..M
      BY <3>1, <3>2, <1>1, <1>3
    <3> QED BY <3>2, <3>3, <1>6
  <2>2. \A i \in 1..Len(pairs') : pairs'[i] \in seen'
    <3> TAKE i \in 1..Len(pairs')
    <3>1. i \in 1..Len(pairs) /\ pairs'[i] = pairs[i]
      BY <1>1, <1>3, <1>6
    <3>2. pairs[i] \in seen
      BY <3>1 DEF SeenIsPairs
    <3>3. \A j \in (M + 1)..Len(pairs) : pairs[i] # pairs[j]
      <4>1. i \in 1..frames[N].mark /\ N \in 1..Len(frames) /\ M = frames[N].mark
        BY <1>1, <1>3, <1>6 DEF N
      <4> QED BY <4>1 DEF Disjoint
    <3> QED BY <3>1, <3>2, <3>3, <1>7
  <2> QED BY <2>1, <2>2 DEF SeenIsPairs
<1>9. Marks'
  <2>1. \A k \in 1..Len(frames') : frames'[k].mark < Len(pairs')
    <3> TAKE k \in 1..Len(frames')
    <3>1. k \in 1..(N - 1) /\ N \in 1..Len(frames) /\ frames'[k] = frames[k]
      BY <1>1, <1>5 DEF N
    <3>2. frames[k].mark < frames[N].mark
      BY <3>1 DEF Marks
    <3> QED BY <3>1, <3>2, <1>3, <1>6
  <2>2. \A k \in 1..Len(frames') : \A j \in 1..(k - 1) : frames'[j].mark < frames'[k].mark
    <3> TAKE k \in 1..Len(frames')
    <3> TAKE j \in 1..(k - 1)
    <3>1. k \in 1..(N - 1) /\ j \in 1..(N - 1) /\ k \in 1..Len(frames)
      BY <1>1, <1>5 DEF N
    <3> QED BY <3>1, <1>5 DEF Marks
  <2>3. CASE N = 1
    <3>1. frames' = <<>> /\ M = 0
      BY <2>3, <1>1, <1>3, <1>5 DEF Marks, N
    <3>2. pairs' = <<>>
      BY <3>1, <1>6
    <3> QED BY <2>1, <2>2, <3>1, <3>2 DEF Marks
  <2>4. CASE N # 1
    <3>1. 1 \in 1..(N - 1) /\ frames' # <<>>
      BY <2>4, <1>1, <1>5
    <3>2. frames'[1].mark = 0
      BY <3>1, <1>5 DEF Marks
    <3> QED BY <2>1, <2>2, <3>1, <3>2 DEF Marks
  <2> QED BY <2>3, <2>4
<1>10. Disjoint'
  <2> SUFFICES ASSUME NEW k \in 1..Len(frames'), NEW i \in 1..frames'[k].mark,
                      NEW j \in (frames'[k].mark + 1)..Len(pairs')
               PROVE  pairs'[i] # pairs'[j]
    BY DEF Disjoint
  <2>1. k \in 1..Len(frames) /\ frames'[k] = frames[k] /\ frames[k].mark \in Nat
    BY <1>1, <1>2, <1>5 DEF N
  <2>2. frames'[k].mark < Len(pairs')
    BY <1>9 DEF Marks
  <2>3. i \in 1..frames[k].mark
    BY <2>1
  <2>4. Len(pairs') = M /\ M <= Len(pairs) /\ M \in Nat /\ Len(pairs) \in Nat
    BY <1>1, <1>3, <1>6
  <2>5. j \in (frames[k].mark + 1)..M
    BY <2>1, <2>4
  <2>6. j \in (frames[k].mark + 1)..Len(pairs) /\ i \in 1..M /\ j \in 1..M
    BY <2>1, <2>2, <2>3, <2>4, <2>5
  <2>7. pairs[i] # pairs[j]
    BY <2>1, <2>3, <2>6 DEF Disjoint
  <2> QED BY <2>6, <2>7, <1>6
<1>11. seen' \subseteq Pair
  BY <1>7 DEF TypeOK
<1> QED BY <1>3, <1>5, <1>6, <1>8, <1>9, <1>10, <1>11 DEF M, N

-----------------------------------------------------------------------------

\* The nesting record: an invocation starts above all the frames standing.
LEMMA NestKeeps ==
    ASSUME TypeOK, Nesting, bases = <<>> \/ Running, depth < MaxDepth,
           depth' = depth + 1, bases' = Append(bases, Len(frames)),
           frames' \in Seq(Frame), Len(frames') >= Len(frames)
    PROVE  bases' \in Seq(Nat) /\ depth' \in Nat /\ Nesting'
<1> DEFINE B == Len(bases)
<1>1. B \in Nat /\ Len(frames) \in Nat /\ Len(frames') \in Nat /\ depth \in Nat
  BY DEF TypeOK
<1>2. /\ bases' \in Seq(Nat) /\ bases' # <<>> /\ Len(bases') = B + 1
      /\ \A i \in 1..B : bases'[i] = bases[i]
      /\ bases'[B + 1] = Len(frames)
  <2>1. bases \in Seq(Nat) /\ Len(frames) \in Nat /\ bases' = Append(bases, Len(frames))
    BY <1>1 DEF TypeOK
  <2> QED BY <2>1, AppendProperties
<1>3. \A i \in 1..B : bases[i] \in Nat
  BY ElementOfSeq DEF TypeOK
<1>4. \A i \in 1..B : bases[i] < Len(frames)
  <2> TAKE i \in 1..B
  <2>1. bases # <<>> /\ B \in 1..B
    BY <1>1
  <2>2. bases[B] < Len(frames) /\ bases[B] \in Nat
    BY <2>1, <1>1, <1>3 DEF Running
  <2>3. bases[i] <= bases[B]
    BY <2>1, <1>1, <1>3 DEF Nesting
  <2> QED BY <2>2, <2>3, <1>1, <1>3
<1>5. Len(frames) >= B
  <2>1. CASE B = 0
    BY <2>1, <1>1
  <2>2. CASE B # 0
    <3>1. B \in 1..B /\ bases[B] >= B - 1 /\ bases[B] < Len(frames)
      BY <2>2, <1>1, <1>4 DEF Nesting
    <3> QED BY <3>1, <1>1, <1>3
  <2> QED BY <2>1, <2>2
<1> HIDE DEF B
<1>6. \A i \in 1..Len(bases') : bases'[i] <= Len(frames') /\ bases'[i] >= i - 1
  <2> TAKE i \in 1..Len(bases')
  <2>1. CASE i \in 1..B
    <3>1. bases[i] >= i - 1 /\ bases[i] < Len(frames)
      BY <2>1, <1>4 DEF Nesting, B
    <3> QED BY <2>1, <3>1, <1>1, <1>2, <1>3
  <2>2. CASE i = B + 1
    BY <2>2, <1>1, <1>2, <1>5
  <2>3. i \in 1..B \/ i = B + 1
    BY <1>1, <1>2
  <2> QED BY <2>1, <2>2, <2>3
<1>7. \A i \in 1..Len(bases') : \A j \in 1..(i - 1) : bases'[j] < bases'[i]
  <2> TAKE i \in 1..Len(bases')
  <2> TAKE j \in 1..(i - 1)
  <2>1. j \in 1..B
    BY <1>1, <1>2
  <2>2. CASE i \in 1..B
    BY <2>1, <2>2, <1>2 DEF Nesting, B
  <2>3. CASE i = B + 1
    BY <2>1, <2>3, <1>2, <1>4
  <2>4. i \in 1..B \/ i = B + 1
    BY <1>1, <1>2
  <2> QED BY <2>2, <2>3, <2>4
<1>8. bases'[1] = 0
  <2>1. CASE B = 0
    <3>1. bases = <<>> /\ frames = <<>>
      BY <2>1 DEF B, TypeOK, Nesting
    <3> QED BY <2>1, <3>1, <1>2
  <2>2. CASE B # 0
    <3>1. 1 \in 1..B /\ bases # <<>>
      BY <2>2, <1>1 DEF B
    <3> QED BY <3>1, <1>2 DEF Nesting
  <2> QED BY <2>1, <2>2
<1>9. depth' = Len(bases') /\ depth' <= MaxDepth /\ depth' \in Nat
  BY <1>1, <1>2, DepthAssumption DEF Nesting, B
<1> QED BY <1>2, <1>6, <1>7, <1>9, <1>8 DEF Nesting

-----------------------------------------------------------------------------

LEMMA InitIInv == Init => IInv
<1> SUFFICES ASSUME Init PROVE IInv
  OBVIOUS
<1> USE DEF Init
<1>1. TypeOK
  BY EmptySeq DEF TypeOK
<1>2. Len(frames) = 0 /\ Len(bases) = 0 /\ Len(pairs) = 0
  BY EmptySeq
<1>3. SeenIsPairs /\ Marks /\ Disjoint
  BY <1>2 DEF SeenIsPairs, Marks, Disjoint
<1>4. 0 <= MaxDepth
  BY DepthAssumption
<1>5. Nesting
  BY <1>2, <1>4 DEF Nesting
<1> QED BY <1>1, <1>3, <1>5 DEF IInv

LEMMA NextIInv == IInv /\ [Next]_vars => IInv'
<1> SUFFICES ASSUME IInv, [Next]_vars PROVE IInv'
  OBVIOUS
<1> USE DEF IInv
<1>0. /\ Len(frames) \in Nat /\ Len(bases) \in Nat /\ depth \in Nat
      /\ \A i \in 1..Len(bases) : bases[i] \in Nat
  <2>1. \A i \in 1..Len(bases) : bases[i] \in Nat
    BY ElementOfSeq DEF TypeOK
  <2> QED BY <2>1 DEF TypeOK
<1>1. ASSUME NEW s \in Shapes, NEW kept \in FocusSets, Enter(s, kept)
      PROVE  IInv'
  <2>1. /\ frames' \in Seq(Frame) /\ pairs' \in Seq(Pair) /\ seen' \subseteq Pair
        /\ SeenIsPairs' /\ Marks' /\ Disjoint' /\ Len(frames') >= Len(frames)
    BY <1>1, PushKeeps DEF Enter
  <2>2. bases' \in Seq(Nat) /\ depth' \in Nat /\ Nesting'
    BY <1>1, <2>1, NestKeeps DEF Enter
  <2>3. failing' \in BOOLEAN
    BY <1>1 DEF Enter, TypeOK
  <2> QED BY <2>1, <2>2, <2>3 DEF TypeOK
<1>2. ASSUME NEW s \in Shapes, NEW kept \in FocusSets, Descend(s, kept)
      PROVE  IInv'
  <2>1. /\ frames' \in Seq(Frame) /\ pairs' \in Seq(Pair) /\ seen' \subseteq Pair
        /\ SeenIsPairs' /\ Marks' /\ Disjoint' /\ Len(frames') >= Len(frames)
    BY <1>2, PushKeeps DEF Descend
  <2>2. UNCHANGED <<bases, depth, failing>> /\ Len(frames') \in Nat /\ bases # <<>>
    BY <1>2, <2>1 DEF Descend, Running
  <2>3. Nesting'
    BY <1>0, <2>1, <2>2 DEF Nesting
  <2> QED BY <2>1, <2>2, <2>3 DEF TypeOK
<1>3. CASE Refuse
  BY <1>3 DEF Refuse, TypeOK, SeenIsPairs, Marks, Disjoint, Nesting
<1>4. CASE Fail
  BY <1>4 DEF Fail, TypeOK, SeenIsPairs, Marks, Disjoint, Nesting
<1>5. CASE Leave
  <2>1. frames # <<>>
    BY <1>0, <1>5 DEF Leave, Running
  <2>2. /\ frames' \in Seq(Frame) /\ pairs' \in Seq(Pair) /\ seen' \subseteq Pair
        /\ SeenIsPairs' /\ Marks' /\ Disjoint' /\ Len(frames') = Len(frames) - 1
    BY <1>5, <2>1, PopKeeps DEF Leave
  <2>3. UNCHANGED <<bases, depth, failing>> /\ bases # <<>>
    BY <1>5 DEF Leave, Running
  <2>4. \A i \in 1..Len(bases) : bases[i] <= Len(frames) - 1
    <3> TAKE i \in 1..Len(bases)
    <3>1. Len(bases) \in 1..Len(bases) /\ bases[Len(bases)] < Len(frames)
      BY <1>0, <1>5, <2>3 DEF Leave, Running
    <3>2. bases[i] <= bases[Len(bases)]
      BY <1>0, <3>1 DEF Nesting
    <3> QED BY <1>0, <3>1, <3>2
  <2>5. Nesting'
    BY <1>0, <2>2, <2>3, <2>4 DEF Nesting
  <2> QED BY <2>2, <2>3, <2>5 DEF TypeOK
<1>6. CASE Return
  <2> DEFINE B == Len(bases)
  <2>1. /\ B \in Nat /\ B > 0 /\ B - 1 \in 0..Len(bases)
        /\ Len(frames) = bases[B] /\ bases' = SubSeq(bases, 1, B - 1)
        /\ depth' = depth - 1 /\ UNCHANGED <<frames, pairs, seen>>
        /\ failing' \in BOOLEAN
    BY <1>0, <1>6 DEF Return, InvocationEmpty, TypeOK
  <2>2. /\ bases' \in Seq(Nat) /\ Len(bases') = B - 1
        /\ \A i \in 1..(B - 1) : bases'[i] = bases[i]
    BY <2>1, PrefixProperties DEF TypeOK
  <2>3. depth' \in Nat /\ depth' = Len(bases') /\ depth' <= MaxDepth
    BY <1>0, <2>1, <2>2, DepthAssumption DEF Nesting
  <2>4. bases' = <<>> => frames' = <<>>
    <3> SUFFICES ASSUME bases' = <<>> PROVE frames = <<>>
      BY <2>1
    <3>1. B = 1
      BY <2>1, <2>2
    <3>2. Len(frames) = 0
      BY <3>1, <1>6, <2>1 DEF Nesting, Return, InvocationEmpty
    <3> QED BY <3>2 DEF TypeOK
  <2>5. bases' # <<>> => bases'[1] = 0
    <3> SUFFICES ASSUME bases' # <<>> PROVE bases'[1] = 0
      OBVIOUS
    <3>1. B - 1 # 0
      BY <2>1, <2>2, EmptySeq
    <3>2. 1 \in 1..(B - 1) /\ bases # <<>>
      BY <3>1, <2>1
    <3> QED BY <3>2, <2>2 DEF Nesting
  <2>6. /\ \A i \in 1..(B - 1) : bases'[i] <= Len(frames') /\ bases'[i] >= i - 1
        /\ \A i \in 1..(B - 1) : \A j \in 1..(i - 1) : bases'[j] < bases'[i]
    <3>1. \A i \in 1..(B - 1) : i \in 1..B /\ \A j \in 1..(i - 1) : j \in 1..(B - 1)
      BY <2>1
    <3> QED BY <3>1, <2>1, <2>2 DEF Nesting
  <2>7. Nesting'
    BY <2>2, <2>3, <2>4, <2>5, <2>6 DEF Nesting
  <2>8. TypeOK'
    BY <2>1, <2>2, <2>3 DEF TypeOK
  <2>9. SeenIsPairs' /\ Marks' /\ Disjoint'
    BY <2>1 DEF SeenIsPairs, Marks, Disjoint
  <2> QED BY <2>7, <2>8, <2>9
<1>7. CASE UNCHANGED vars
  BY <1>7 DEF vars, TypeOK, SeenIsPairs, Marks, Disjoint, Nesting
<1>8. ASSUME NEW s \in Shapes, Falter(s)
      PROVE  IInv'
  <2>1. UNCHANGED <<frames, pairs, seen>> /\ failing' = TRUE
    BY <1>8 DEF Falter
  <2>2. bases' \in Seq(Nat) /\ depth' \in Nat /\ Nesting'
    <3>1. frames' \in Seq(Frame) /\ Len(frames') >= Len(frames)
      BY <1>0, <2>1 DEF TypeOK
    <3> QED BY <1>8, <3>1, NestKeeps DEF Falter
  <2>3. SeenIsPairs' /\ Marks' /\ Disjoint'
    BY <2>1 DEF SeenIsPairs, Marks, Disjoint
  <2> QED BY <2>1, <2>2, <2>3 DEF TypeOK
<1> QED BY <1>1, <1>2, <1>3, <1>4, <1>5, <1>6, <1>7, <1>8 DEF Next

THEOREM Inductive == Spec => []IInv
BY InitIInv, NextIInv, PTL DEF Spec

\* The stack's state keeps its types in every run.
THEOREM TypeCorrect == Spec => []TypeOK
<1>1. IInv => TypeOK
  BY DEF IInv
<1> QED BY <1>1, Inductive, PTL

\* The set that is searched holds exactly the pairs that are standing.
THEOREM VisitedExact == Spec => []SeenIsPairs
<1>1. IInv => SeenIsPairs
  BY DEF IInv
<1> QED BY <1>1, Inductive, PTL

\* Whatever a run met on the way, error or not, the stack it gives back is the
\* one it was given, and it never nested past the limit.
THEOREM CleanStack == Spec => []NothingLeftBehind
<1>1. IInv => NothingLeftBehind
  <2> SUFFICES ASSUME IInv PROVE NothingLeftBehind
    OBVIOUS
  <2>1. bases = <<>> => frames = <<>> /\ pairs = <<>>
    BY DEF IInv, Nesting, Marks
  <2>2. pairs = <<>> => seen = {}
    BY EmptySeq DEF IInv, SeenIsPairs
  <2>3. bases = <<>> => depth = 0
    BY EmptySeq DEF IInv, Nesting
  <2> QED BY <2>1, <2>2, <2>3 DEF IInv, Nesting, NothingLeftBehind
<1> QED BY <1>1, Inductive, PTL

-----------------------------------------------------------------------------

\* Below a shape of a ranked set: every frame is for a shape of the set, ranks
\* fall from each frame to the next, and every pair has a frame of its shape
\* whose mark is below it.
Within(within) == frames # <<>> /\ frames[1].id \in within

Falling(within, rank) ==
    /\ \A k \in 1..Len(frames) : frames[k].id \in within
    /\ \A k \in 1..Len(frames) : \A j \in 1..(k - 1) : rank[frames[k].id] < rank[frames[j].id]
    /\ \A k \in 1..Len(frames) : rank[frames[k].id] + k <= Cardinality(Shapes)
    /\ \A i \in 1..Len(pairs) :
          \E k \in 1..Len(frames) : frames[k].id = pairs[i][1] /\ frames[k].mark < i

Ranked(within, rank) == Within(within) => Falling(within, rank)

RankInv ==
    \A within \in SUBSET Shapes : \A rank \in Ranks :
        IsRank(within, rank) => Ranked(within, rank)

LEMMA RankRange ==
    ASSUME NEW rank \in Ranks
    PROVE  /\ Cardinality(Shapes) \in Nat
           /\ \A s \in Shapes : rank[s] \in Nat /\ rank[s] <= Cardinality(Shapes) - 1
<1>1. Cardinality(Shapes) \in Nat
  BY ShapesAssumption, FS_CardinalityType
<1> QED BY <1>1 DEF Ranks

LEMMA FrameFields ==
    ASSUME TypeOK
    PROVE  \A k \in 1..Len(frames) : frames[k].id \in Shapes /\ frames[k].mark \in Nat
<1>1. \A k \in 1..Len(frames) : frames[k] \in Frame
  BY ElementOfSeq DEF TypeOK
<1> QED BY <1>1 DEF Frame

LEMMA PushRanks ==
    ASSUME TypeOK, Marks, NEW s \in Callable, s \in Shapes, NEW kept \in FocusSets, PushFrame(s, kept),
           NEW within \in SUBSET Shapes, NEW rank \in Ranks,
           IsRank(within, rank), Ranked(within, rank)
    PROVE  Ranked(within, rank)'
<1>1. CASE kept = <<>>
  BY <1>1 DEF PushFrame, Ranked, Within, Falling
<1>2. CASE kept # <<>>
  <2> SUFFICES ASSUME Within(within)' PROVE Falling(within, rank)'
    BY DEF Ranked
  <2> DEFINE F == Len(frames)
             n == Len(kept)
             new == [id |-> s, mark |-> Len(pairs)]
  <2>1. /\ n \in Nat /\ kept \in Seq(Nodes) /\ F \in Nat /\ Len(pairs) \in Nat
        /\ frames' = Append(frames, new) /\ pairs' = pairs \o Tagged(s, kept)
    <3>1. kept \in Seq(Nodes) /\ n \in Nat
      BY FocusAssumption
    <3>2. F \in Nat /\ Len(pairs) \in Nat
      BY DEF TypeOK
    <3> QED BY <1>2, <3>1, <3>2 DEF PushFrame
  <2>2. /\ Len(frames') = F + 1 /\ frames'[F + 1] = new
        /\ \A k \in 1..F : frames'[k] = frames[k]
    BY <2>1 DEF TypeOK
  <2>3. /\ Len(pairs') = Len(pairs) + n
        /\ \A i \in 1..Len(pairs) : pairs'[i] = pairs[i]
        /\ \A i \in (Len(pairs) + 1)..Len(pairs') : pairs'[i] = <<s, kept[i - Len(pairs)]>>
    <3>1. pairs \in Seq(Pair)
      BY DEF TypeOK
    <3>2. \A Q : Q = pairs \o Tagged(s, kept) =>
             /\ Len(Q) = Len(pairs) + n
             /\ \A i \in 1..Len(pairs) : Q[i] = pairs[i]
             /\ \A i \in (Len(pairs) + 1)..Len(Q) : Q[i] = <<s, kept[i - Len(pairs)]>>
      <4> DEFINE P == pairs
      <4>1. \A Q : Q = P \o Tagged(s, kept) =>
             /\ Q \in Seq(Pair) /\ Len(Q) = Len(P) + n
             /\ \A i \in 1..Len(P) : Q[i] = P[i]
             /\ \A i \in 1..n : Len(P) + i \in 1..Len(Q) /\ Q[Len(P) + i] = <<s, kept[i]>>
             /\ \A i \in (Len(P) + 1)..Len(Q) :
                   i - Len(P) \in 1..n /\ Q[i] = <<s, kept[i - Len(P)]>>
        <5> HIDE DEF new, F
        <5> QED BY <2>1, <3>1, ExtendPairs, Zenon
      <4> QED BY <4>1
    <3> QED BY <3>2, <2>1
  <2>4. /\ Cardinality(Shapes) \in Nat
        /\ \A t \in Shapes : rank[t] \in Nat /\ rank[t] <= Cardinality(Shapes) - 1
    BY RankRange
  <2>5. \A k \in 1..F : frames[k].id \in Shapes /\ frames[k].mark \in Nat
    BY FrameFields
  <2>12. Falling(within, rank)
    <3>1. CASE F = 0
      <4>1. Len(pairs) = 0
        BY <3>1, EmptySeq DEF Marks, TypeOK
      <4> QED BY <3>1, <4>1 DEF Falling
    <3>2. CASE F # 0
      <4>1. 1 \in 1..F /\ frames # <<>>
        BY <3>2, <2>1, EmptySeq
      <4>2. frames'[1] = frames[1]
        BY <4>1, <2>2
      <4> QED BY <4>1, <4>2 DEF Ranked, Within
    <3> QED BY <3>1, <3>2
  <2>6. s \in within /\ (F # 0 => rank[s] < rank[frames[F].id])
    <3>1. CASE F = 0
      <4>1. F + 1 = 1
        BY <3>1
      <4>2. frames'[1] = new
        BY <4>1, <2>2
      <4> QED BY <3>1, <4>2 DEF Within
    <3>2. CASE F # 0
      <4>1. frames # <<>> /\ F \in 1..F
        BY <3>2, <2>1, EmptySeq
      <4>2. s \in Refs[frames[F].id]
        BY <4>1 DEF Callable, Top
      <4>3. frames[F].id \in within
        BY <4>1, <2>12 DEF Falling
      <4> QED BY <4>2, <4>3 DEF IsRank
    <3> QED BY <3>1, <3>2
  <2>7. \A j \in 1..F : rank[s] < rank[frames[j].id]
    <3> TAKE j \in 1..F
    <3>1. F \in 1..F /\ F # 0 /\ (j = F \/ j \in 1..(F - 1))
      BY <2>1
    <3>2. j \in 1..(F - 1) => rank[frames[F].id] < rank[frames[j].id]
      BY <3>1, <2>12 DEF Falling
    <3>3. rank[s] \in Nat /\ rank[frames[F].id] \in Nat /\ rank[frames[j].id] \in Nat
      BY <3>1, <2>4, <2>5
    <3> QED BY <3>1, <3>2, <3>3, <2>6
  <2>8. rank[s] + (F + 1) <= Cardinality(Shapes)
    <3>1. CASE F = 0
      BY <3>1, <2>4
    <3>2. CASE F # 0
      <4>1. F \in 1..F
        BY <3>2, <2>1
      <4>2. rank[frames[F].id] + F <= Cardinality(Shapes)
        BY <4>1, <2>12 DEF Falling
      <4>3. rank[s] \in Nat /\ rank[frames[F].id] \in Nat
        BY <4>1, <2>4, <2>5
      <4> QED BY <4>2, <4>3, <2>1, <2>4, <2>6, <3>2
    <3> QED BY <3>1, <3>2
  <2> HIDE DEF n
  <2>9. \A k \in 1..Len(frames') : \A j \in 1..(k - 1) :
            rank[frames'[k].id] < rank[frames'[j].id]
    <3> TAKE k \in 1..Len(frames')
    <3> TAKE j \in 1..(k - 1)
    <3>1. CASE k \in 1..F
      <4>1. j \in 1..F
        BY <3>1, <2>1
      <4> QED BY <3>1, <4>1, <2>2, <2>12 DEF Falling
    <3>2. CASE k = F + 1
      <4>1. j \in 1..F
        BY <3>2, <2>1
      <4>2. frames'[k].id = s /\ frames'[j] = frames[j]
        BY <3>2, <4>1, <2>2
      <4> QED BY <4>1, <4>2, <2>7
    <3> QED BY <3>1, <3>2, <2>1, <2>2
  <2>10. \A k \in 1..Len(frames') : rank[frames'[k].id] + k <= Cardinality(Shapes)
    <3> TAKE k \in 1..Len(frames')
    <3>1. CASE k \in 1..F
      BY <3>1, <2>2, <2>12 DEF Falling
    <3>2. CASE k = F + 1
      BY <3>2, <2>2, <2>8
    <3> QED BY <3>1, <3>2, <2>1, <2>2
  <2>11. \A i \in 1..Len(pairs') :
            \E k \in 1..Len(frames') : frames'[k].id = pairs'[i][1] /\ frames'[k].mark < i
    <3> TAKE i \in 1..Len(pairs')
    <3>1. CASE i \in 1..Len(pairs)
      <4>1. PICK k \in 1..F : frames[k].id = pairs[i][1] /\ frames[k].mark < i
        BY <3>1, <2>12 DEF Falling
      <4>2. k \in 1..Len(frames')
        BY <2>1, <2>2
      <4> QED BY <3>1, <4>1, <4>2, <2>2, <2>3
    <3>2. CASE i \in (Len(pairs) + 1)..Len(pairs')
      <4>1. F + 1 \in 1..Len(frames') /\ Len(pairs) < i
        BY <3>2, <2>1, <2>2
      <4>2. pairs'[i][1] = s
        BY <3>2, <2>3
      <4> QED BY <4>1, <4>2, <2>2
    <3>3. i \in 1..Len(pairs) \/ i \in (Len(pairs) + 1)..Len(pairs')
      BY <2>1
    <3> QED BY <3>1, <3>2, <3>3
  <2>13. \A k \in 1..Len(frames') : frames'[k].id \in within
    <3> TAKE k \in 1..Len(frames')
    <3>1. CASE k \in 1..F
      BY <3>1, <2>2, <2>12 DEF Falling
    <3>2. CASE k = F + 1
      BY <3>2, <2>2, <2>6
    <3> QED BY <3>1, <3>2, <2>1, <2>2
  <2> QED BY <2>9, <2>10, <2>11, <2>13 DEF Falling
<1> QED BY <1>1, <1>2

LEMMA PopRanks ==
    ASSUME TypeOK, Marks, frames # <<>>, PopFrame,
           NEW within, NEW rank, Ranked(within, rank)
    PROVE  Ranked(within, rank)'
<1> SUFFICES ASSUME Within(within)' PROVE Falling(within, rank)'
  BY DEF Ranked
<1> DEFINE F == Len(frames)
<1>1. /\ F \in Nat /\ F > 0 /\ Len(pairs) \in Nat /\ F - 1 \in 0..Len(frames) /\ F \in 1..F
  BY EmptySeq DEF TypeOK
<1>2. /\ frames' = SubSeq(frames, 1, F - 1) /\ pairs' = SubSeq(pairs, 1, Top.mark)
      /\ Top = frames[F]
  BY DEF PopFrame, Top
<1>3. \A k \in 1..F : frames[k].mark \in Nat
  BY FrameFields
<1>4. Top.mark \in 0..Len(pairs)
  BY <1>1, <1>2, <1>3 DEF Marks
<1>5. Len(frames') = F - 1 /\ \A k \in 1..(F - 1) : frames'[k] = frames[k]
  BY <1>1, <1>2, PrefixProperties DEF TypeOK
<1>6. Len(pairs') = Top.mark /\ \A i \in 1..Top.mark : pairs'[i] = pairs[i]
  BY <1>2, <1>4, PrefixProperties DEF TypeOK
<1>9. Falling(within, rank)
  <2>1. Len(frames') # 0
    BY EmptySeq, <1>1, <1>2, PrefixProperties DEF Within, TypeOK
  <2>2. 1 \in 1..(F - 1)
    BY <2>1, <1>1, <1>5
  <2> QED BY <2>2, <1>5 DEF Ranked, Within
<1>7. /\ \A k \in 1..(F - 1) : frames'[k].id \in within
      /\ \A k \in 1..(F - 1) : \A j \in 1..(k - 1) :
            rank[frames'[k].id] < rank[frames'[j].id]
      /\ \A k \in 1..(F - 1) : rank[frames'[k].id] + k <= Cardinality(Shapes)
  <2>1. \A k \in 1..(F - 1) : k \in 1..F /\ \A j \in 1..(k - 1) : j \in 1..(F - 1)
    BY <1>1
  <2> QED BY <2>1, <1>5, <1>9 DEF Falling
<1>8. \A i \in 1..Top.mark :
          \E k \in 1..(F - 1) : frames'[k].id = pairs'[i][1] /\ frames'[k].mark < i
  <2> TAKE i \in 1..Top.mark
  <2>1. i \in 1..Len(pairs)
    BY <1>4, <1>1
  <2>2. PICK k \in 1..F : frames[k].id = pairs[i][1] /\ frames[k].mark < i
    BY <2>1, <1>9 DEF Falling
  <2>3. k # F
    BY <2>2, <1>1, <1>2, <1>3
  <2>4. k \in 1..(F - 1)
    BY <2>3, <1>1
  <2> QED BY <2>2, <2>4, <1>5, <1>6
<1> QED BY <1>5, <1>6, <1>7, <1>8 DEF Falling

LEMMA InitRankInv == Init => RankInv
BY DEF Init, RankInv, Ranked, Within

LEMMA NextRankInv == IInv /\ RankInv /\ [Next]_vars => RankInv'
<1> SUFFICES ASSUME IInv, RankInv, [Next]_vars,
                    NEW within \in SUBSET Shapes, NEW rank \in Ranks, IsRank(within, rank)
             PROVE  Ranked(within, rank)'
  BY DEF RankInv
<1>0. TypeOK /\ Marks /\ Ranked(within, rank)
  BY DEF IInv, RankInv
<1>1. ASSUME NEW s \in Shapes, NEW kept \in FocusSets, Enter(s, kept)
      PROVE  Ranked(within, rank)'
  BY <1>0, <1>1, PushRanks DEF Enter
<1>2. ASSUME NEW s \in Shapes, NEW kept \in FocusSets, Descend(s, kept)
      PROVE  Ranked(within, rank)'
  BY <1>0, <1>2, PushRanks DEF Descend
<1>3. CASE Leave
  <2>1. frames # <<>>
    <3> SUFFICES ASSUME frames = <<>> PROVE FALSE
      OBVIOUS
    <3>1. Len(frames) = 0 /\ bases # <<>> /\ 0 > bases[Len(bases)]
      BY <1>3, EmptySeq DEF Leave, Running
    <3>2. Len(bases) \in 1..Len(bases)
      BY <3>1, EmptySeq, <1>0 DEF TypeOK
    <3>3. bases[Len(bases)] \in Nat
      BY <3>2, <1>0, ElementOfSeq DEF TypeOK
    <3> QED BY <3>1, <3>3
  <2> QED BY <1>0, <1>3, <2>1, PopRanks DEF Leave
<1>4. CASE Refuse
  BY <1>0, <1>4 DEF Refuse, Ranked, Within, Falling
<1>5. CASE Fail
  BY <1>0, <1>5 DEF Fail, Ranked, Within, Falling
<1>6. CASE Return
  BY <1>0, <1>6 DEF Return, Ranked, Within, Falling
<1>7. CASE UNCHANGED vars
  BY <1>0, <1>7 DEF vars, Ranked, Within, Falling
<1>8. ASSUME NEW s \in Shapes, Falter(s)
      PROVE  Ranked(within, rank)'
  BY <1>0, <1>8 DEF Falter, Ranked, Within, Falling
<1> QED BY <1>1, <1>2, <1>3, <1>4, <1>5, <1>6, <1>7, <1>8 DEF Next

THEOREM RanksFall == Spec => [](IInv /\ RankInv)
BY InitIInv, NextIInv, InitRankInv, NextRankInv, PTL DEF Spec

\* Where no shape can reach itself the visited set never answers yes: nothing
\* that is validated in one batch, or split over threads, can be dropped.
THEOREM FilterIdle == Spec => []GuardIdle
<1>1. IInv /\ RankInv => GuardIdle
  <2> SUFFICES ASSUME IInv, RankInv, Calm,
                      NEW s \in Callable, NEW n \in Nodes, <<s, n>> \in seen
               PROVE  FALSE
    BY DEF GuardIdle
  <2> DEFINE F == Len(frames)
  <2>1. PICK within \in SUBSET Shapes, rank \in Ranks :
            frames[1].id \in within /\ IsRank(within, rank)
    BY DEF Calm, Acyclic
  <2>2. Falling(within, rank)
    BY <2>1 DEF RankInv, Ranked, Within, Calm
  <2>3. F \in Nat /\ F \in 1..F
    BY EmptySeq DEF IInv, TypeOK, Calm
  <2>4. \A k \in 1..F : frames[k].id \in Shapes /\ rank[frames[k].id] \in Nat
    BY RankRange, FrameFields DEF IInv
  <2>5. s \in Refs[frames[F].id] /\ s \in Shapes
    BY <2>3, <2>4, RefsAssumption DEF Callable, Top, Calm
  <2>6. rank[s] < rank[frames[F].id] /\ rank[s] \in Nat
    <3>1. frames[F].id \in within
      BY <2>2, <2>3 DEF Falling
    <3> QED BY <3>1, <2>1, <2>5, RankRange DEF IsRank
  <2>7. PICK i \in 1..Len(pairs) : pairs[i] = <<s, n>>
    BY DEF IInv, SeenIsPairs
  <2>8. PICK k \in 1..F : frames[k].id = s
    BY <2>2, <2>7 DEF Falling
  <2>9. k = F \/ k \in 1..(F - 1)
    BY <2>3
  <2>10. rank[frames[F].id] <= rank[s]
    <3>1. CASE k = F
      BY <3>1, <2>3, <2>4, <2>8
    <3>2. CASE k \in 1..(F - 1)
      <4>1. rank[frames[F].id] < rank[frames[k].id]
        BY <3>2, <2>2, <2>3 DEF Falling
      <4> QED BY <4>1, <2>3, <2>4, <2>6, <2>8
    <3> QED BY <2>9, <3>1, <3>2
  <2> QED BY <2>3, <2>4, <2>6, <2>10
<1> QED BY <1>1, RanksFall, PTL

\* The bottom frame stays while there are frames.
LEMMA BottomStays ==
    ASSUME TypeOK, NEW s \in Shapes,
           frames # <<>>, frames' # <<>>,
           \/ \E kept \in FocusSets : PushFrame(s, kept)
           \/ PopFrame
    PROVE  frames'[1] = frames[1]
<1>1. frames \in Seq(Frame) /\ Len(frames) \in Nat /\ 1 \in 1..Len(frames)
  BY EmptySeq DEF TypeOK
<1>2. ASSUME NEW new, frames' = Append(frames, new)
      PROVE  frames'[1] = frames[1]
  BY <1>1, <1>2
<1>3. ASSUME frames' = SubSeq(frames, 1, Len(frames) - 1)
      PROVE  frames'[1] = frames[1]
  <2>1. Len(frames) - 1 \in 0..Len(frames)
    BY <1>1
  <2>2. Len(frames') = Len(frames) - 1 /\ frames' \in Seq(Frame)
    BY <1>1, <1>3, <2>1, PrefixProperties
  <2>3. Len(frames') # 0
    BY <2>2, EmptySeq
  <2>4. 1 \in 1..(Len(frames) - 1)
    BY <2>2, <2>3, <1>1
  <2> QED BY <1>1, <1>3, <2>1, <2>4, PrefixProperties
<1>4. CASE \E kept \in FocusSets : PushFrame(s, kept)
  BY <1>2, <1>4 DEF PushFrame
<1>5. CASE PopFrame
  BY <1>3, <1>5 DEF PopFrame
<1> QED BY <1>4, <1>5

LEMMA ShapesCounted == Cardinality(Shapes) \in Nat
BY ShapesAssumption, FS_CardinalityType

\* A call from within is for a shape that ranks below all the frames standing.
LEMMA CallDepth ==
    ASSUME IInv, RankInv, NEW s \in Shapes, s \in Callable, bases = <<>> \/ Running,
           depth' = depth + 1, frames # <<>> => frames'[1] = frames[1], Calm'
    PROVE  depth' <= Cardinality(Shapes)
<1> DEFINE F == Len(frames)
           B == Len(bases)
<1>1. depth' = depth + 1 /\ depth = B /\ B \in Nat /\ F \in Nat /\ Cardinality(Shapes) \in Nat
  BY ShapesCounted DEF IInv, TypeOK, Nesting
<1>2. CASE bases = <<>>
  <2>1. PICK rank \in Ranks : TRUE
    BY DEF Calm, Acyclic
  <2>2. rank[s] \in Nat /\ rank[s] <= Cardinality(Shapes) - 1
    BY RankRange
  <2>3. B = 0
    BY <1>2, EmptySeq
  <2> QED BY <1>1, <2>2, <2>3
<1>3. CASE Running
  <2>1. B \in 1..B /\ F > bases[B]
    BY <1>1, <1>3, EmptySeq DEF Running, IInv, TypeOK
  <2>2. bases[B] >= B - 1 /\ bases[B] \in Nat
    BY <2>1, ElementOfSeq DEF IInv, TypeOK, Nesting
  <2>3. F >= B /\ F \in 1..F
    BY <1>1, <2>1, <2>2
  <2>4. frames[F].id \in Shapes /\ frames # <<>>
    BY <2>3, FrameFields, EmptySeq DEF IInv
  <2>5. s \in Refs[frames[F].id]
    BY <2>4 DEF Callable, Top
  <2>6. frames' # <<>> /\ frames'[1].id \in Acyclic
    BY DEF Calm
  <2>7. frames'[1] = frames[1]
    BY <2>4
  <2>8. PICK within \in SUBSET Shapes, rank \in Ranks :
            frames[1].id \in within /\ IsRank(within, rank)
    BY <2>6, <2>7 DEF Acyclic
  <2>9. Falling(within, rank)
    BY <2>4, <2>8 DEF RankInv, Ranked, Within
  <2>10. rank[frames[F].id] + F <= Cardinality(Shapes) /\ frames[F].id \in within
    BY <2>3, <2>9 DEF Falling
  <2>11. rank[s] < rank[frames[F].id]
    BY <2>5, <2>8, <2>10 DEF IsRank
  <2>12. rank[s] \in Nat /\ rank[frames[F].id] \in Nat
    BY <2>4, RankRange
  <2> QED BY <1>1, <2>3, <2>10, <2>11, <2>12
<1> QED BY <1>2, <1>3

\* Where no shape can reach itself, nesting is bounded by the number of
\* shapes: no data graph can bring Error::Recursion about.
THEOREM ShallowNesting == Spec => []DepthByShapes
<1>1. Init => DepthByShapes
  BY DEF Init, DepthByShapes, Calm
<1>2. IInv /\ RankInv /\ DepthByShapes /\ [Next]_vars => DepthByShapes'
  <2> SUFFICES ASSUME IInv, RankInv, DepthByShapes, [Next]_vars, Calm'
               PROVE  depth' <= Cardinality(Shapes)
    BY DEF DepthByShapes
  <2>1. depth \in Nat /\ Cardinality(Shapes) \in Nat
    BY ShapesCounted DEF IInv, TypeOK
  <2>2. ASSUME NEW s \in Shapes, NEW kept \in FocusSets, Enter(s, kept)
        PROVE  depth' <= Cardinality(Shapes)
    <3>1. frames # <<>> => frames'[1] = frames[1]
      BY <2>2, BottomStays DEF Enter, IInv, Calm
    <3> QED BY <2>2, <3>1, CallDepth DEF Enter
  <2>3. Running => frames # <<>>
    <3> SUFFICES ASSUME Running, frames = <<>> PROVE FALSE
      OBVIOUS
    <3>1. Len(frames) = 0 /\ bases # <<>> /\ 0 > bases[Len(bases)]
      BY EmptySeq DEF Running
    <3>2. Len(bases) \in 1..Len(bases)
      BY <3>1, EmptySeq DEF IInv, TypeOK
    <3>3. bases[Len(bases)] \in Nat
      BY <3>2, ElementOfSeq DEF IInv, TypeOK
    <3> QED BY <3>1, <3>3
  <2>4. ASSUME frames # <<>>, frames'[1] = frames[1]
        PROVE  depth <= Cardinality(Shapes)
    BY <2>4 DEF Calm, DepthByShapes
  <2>5. ASSUME NEW s \in Shapes, NEW kept \in FocusSets, Descend(s, kept)
        PROVE  depth' <= Cardinality(Shapes)
    <3>1. frames # <<>> /\ frames' # <<>>
      BY <2>3, <2>5 DEF Descend, Calm
    <3>2. frames'[1] = frames[1]
      BY <2>5, <3>1, BottomStays DEF Descend, IInv
    <3> QED BY <2>4, <2>5, <3>1, <3>2 DEF Descend
  <2>6. CASE Leave
    <3>1. frames # <<>> /\ frames' # <<>>
      BY <2>3, <2>6 DEF Leave, Calm
    <3>2. frames[1].id \in Shapes
      <4>1. 1 \in 1..Len(frames)
        BY <3>1, EmptySeq DEF IInv, TypeOK
      <4> QED BY <4>1, FrameFields DEF IInv
    <3>3. frames'[1] = frames[1]
      BY <2>6, <3>1, <3>2, BottomStays DEF Leave, IInv
    <3> QED BY <2>4, <2>6, <3>1, <3>3 DEF Leave
  <2>7. CASE Refuse \/ Fail \/ UNCHANGED vars
    BY <2>7 DEF Refuse, Fail, vars, Calm, DepthByShapes
  <2>8. CASE Return
    <3>1. depth <= Cardinality(Shapes)
      BY <2>8 DEF Return, Calm, DepthByShapes
    <3> QED BY <2>1, <2>8, <3>1 DEF Return
  <2>9. ASSUME NEW s \in Shapes, Falter(s)
        PROVE  depth' <= Cardinality(Shapes)
    <3>1. frames # <<>> => frames'[1] = frames[1]
      BY <2>9 DEF Falter
    <3> QED BY <2>9, <3>1, CallDepth DEF Falter
  <2> QED BY <2>2, <2>5, <2>6, <2>7, <2>8, <2>9 DEF Next
<1> QED BY <1>1, <1>2, RanksFall, PTL DEF Spec
=============================================================================
