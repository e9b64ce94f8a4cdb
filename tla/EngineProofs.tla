----------------------------- MODULE EngineProofs -----------------------------
(***************************************************************************)
(* Theorems about runs of the engine, for any shapes graph, any data and   *)
(* any limit: a run follows the discipline of the recursion guard, so what *)
(* is proved of the guard holds of the engine; and a run fails only for    *)
(* what cannot be evaluated or for questions that nest past the limit.     *)
(***************************************************************************)
EXTENDS EngineGuard, SequenceFacts

\* The guard the engine follows, asked about focus sets of any length.
G == INSTANCE DescentStackProofs WITH
        frames <- Standing(frames), bases <- Bases(calls), FocusSets <- Seq(Nodes)

-----------------------------------------------------------------------------
(* Sequences. *)

\* All but the last element of a sequence.
LEMMA FrontOf ==
    ASSUME NEW S, NEW q \in Seq(S), q # <<>>
    PROVE  /\ Len(q) \in Nat \ {0} /\ Last(q) \in S /\ Last(q) = q[Len(q)]
           /\ Front(q) \in Seq(S) /\ Len(Front(q)) = Len(q) - 1
           /\ \A i \in 1..(Len(q) - 1) : Front(q)[i] = q[i]
<1>0. PICK n \in Nat \ {0} : n = Len(q)
  BY EmptySeq
<1>1. \A i \in 1..n : q[i] \in S
  BY <1>0, ElementOfSeq
<1>2. Last(q) \in S /\ Last(q) = q[n]
  BY <1>0, <1>1 DEF Last
<1>3. 1 \in Int /\ n - 1 \in Int /\ \A i \in 1..(n - 1) : q[i] \in S
  BY <1>1
<1>4. /\ SubSeq(q, 1, n - 1) \in Seq(S)
      /\ Len(SubSeq(q, 1, n - 1)) = IF 1 <= n - 1 THEN n - 1 - 1 + 1 ELSE 0
      /\ \A i \in 1..(n - 1 - 1 + 1) : SubSeq(q, 1, n - 1)[i] = q[1 + i - 1]
  BY <1>3, SubSeqProperties
<1>5. /\ (IF 1 <= n - 1 THEN n - 1 - 1 + 1 ELSE 0) = n - 1
      /\ \A i \in 1..(n - 1) : i \in 1..(n - 1 - 1 + 1) /\ 1 + i - 1 = i
  OBVIOUS
<1>6. /\ Len(SubSeq(q, 1, n - 1)) = n - 1
      /\ \A i \in 1..(n - 1) : SubSeq(q, 1, n - 1)[i] = q[i]
  BY <1>4, <1>5
<1>7. Front(q) = SubSeq(q, 1, n - 1)
  BY <1>0 DEF Front
<1> QED BY <1>0, <1>2, <1>4, <1>6, <1>7

\* One more element at the end of a sequence.
LEMMA AppendOf ==
    ASSUME NEW S, NEW q \in Seq(S), NEW x \in S
    PROVE  /\ Len(q) \in Nat /\ Append(q, x) \in Seq(S) /\ Len(Append(q, x)) = Len(q) + 1
           /\ \A i \in 1..Len(q) : Append(q, x)[i] = q[i]
           /\ Append(q, x)[Len(q) + 1] = x
           /\ Append(q, x) # <<>>
<1>1. Len(q) \in Nat
  BY EmptySeq
<1>2. Append(q, x) \in Seq(S) /\ Len(Append(q, x)) = Len(q) + 1
  BY AppendProperties
<1>3. Len(<<>>) = 0
  BY EmptySeq
<1> QED BY <1>1, <1>2, <1>3, AppendProperties

\* Another last element.
LEMMA ReplaceOf ==
    ASSUME NEW S, NEW q \in Seq(S), q # <<>>, NEW x \in S
    PROVE  /\ Len(q) \in Nat \ {0}
           /\ Replace(q, x) \in Seq(S) /\ Len(Replace(q, x)) = Len(q)
           /\ \A i \in 1..(Len(q) - 1) : Replace(q, x)[i] = q[i]
           /\ Replace(q, x)[Len(q)] = x
<1> DEFINE front == Front(q)
<1>1. /\ Len(q) \in Nat \ {0} /\ front \in Seq(S) /\ Len(front) = Len(q) - 1
      /\ \A i \in 1..(Len(q) - 1) : front[i] = q[i]
  BY FrontOf
<1>2. Replace(q, x) = Append(front, x)
  BY DEF Replace
<1> HIDE DEF front
<1>3. /\ Append(front, x) \in Seq(S) /\ Len(Append(front, x)) = Len(front) + 1
      /\ \A i \in 1..Len(front) : Append(front, x)[i] = front[i]
      /\ Append(front, x)[Len(front) + 1] = x
  BY <1>1, AppendOf
<1> QED BY <1>1, <1>2, <1>3

-----------------------------------------------------------------------------
(* The state of a run. *)

Idleness == [row: Nat, val: Nat, ans: Seq(BOOLEAN), n: Nat]
RowSet == [focus: Nodes, values: Seq(Nodes)]
FrameSet == [id: Shapes, rows: Seq(RowSet), next: Nat, mark: Nat, cur: Idleness]

\* A frame in the middle of a constraint that asks, at a row there is.
Busy(f) ==
    /\ f.next \in 1..Len(Defs[f.id].constraints)
    /\ Defs[f.id].constraints[f.next].kind \in Asking
    /\ f.cur.row \in 1..Len(f.rows) /\ f.cur.val >= 1
FrameOK(f) ==
    /\ f.rows # <<>>
    /\ f.next <= Len(Defs[f.id].constraints)
    /\ f.cur = Idle \/ Busy(f)
FramesOK == frames \in Seq(FrameSet) /\ \A i \in 1..Len(frames) : FrameOK(frames[i])

\* A call but the first was made by a frame that waits for the answer.
CallsOK ==
    /\ IsSeq(calls)
    /\ \A k \in 1..Len(calls) : DOMAIN calls[k] = {"base", "out"}
    /\ \A k \in 2..Len(calls) : Busy(frames[calls[k].base])

PieceOK(p) ==
    DOMAIN p = {"shape", "focus", "state", "out"} /\ p.shape \in in.graph /\ p.focus \in Seq(Nodes)
DriverOK ==
    /\ in \in Inputs
    /\ IsSeq(pieces) /\ \A i \in DOMAIN pieces : PieceOK(pieces[i])
    /\ jobs \in Seq([shape: in.graph, nodes: SUBSET Nodes])
    /\ asks \in Seq([shape: in.graph, node: Nodes])
    /\ calls # <<>> => pc \in {"targets", "validate", "work"}
    /\ calls # <<>> /\ pc = "targets" => asks # <<>>
    /\ failing => calls # <<>>
    /\ pc \in {"targets", "validate"} => jobs # <<>>

Inv == G!IInv /\ FramesOK /\ CallsOK /\ DriverOK

-----------------------------------------------------------------------------
(* The frames and calls as the guard knows them. *)

\* The guard's view of frames, place by place.
LEMMA StandingIs ==
    ASSUME NEW stack \in Seq(FrameSet)
    PROVE  /\ Len(stack) \in Nat
           /\ Standing(stack) \in Seq(G!Frame) /\ Len(Standing(stack)) = Len(stack)
           /\ \A i \in 1..Len(stack) :
                 Standing(stack)[i] = [id |-> stack[i].id, mark |-> stack[i].mark]
           /\ Standing(stack) = <<>> <=> stack = <<>>
<1> DEFINE view == Standing(stack)
<1>1. Len(stack) \in Nat /\ \A i \in 1..Len(stack) : stack[i] \in FrameSet
  BY EmptySeq, ElementOfSeq
<1>2. \A i \in 1..Len(stack) : stack[i].id \in Shapes /\ stack[i].mark \in Nat
  BY <1>1 DEF FrameSet
<1>3. \A i \in 1..Len(stack) : [id |-> stack[i].id, mark |-> stack[i].mark] \in G!Frame
  BY <1>2 DEF G!Frame
<1>4. view \in [1..Len(stack) -> G!Frame]
  BY <1>3 DEF Standing
<1>5. view \in Seq(G!Frame) /\ Len(view) = Len(stack)
  BY <1>1, <1>4, FunctionIsSeq
<1>6. \A i \in 1..Len(stack) : view[i] = [id |-> stack[i].id, mark |-> stack[i].mark]
  BY DEF Standing
<1> HIDE DEF view
<1>7. view = <<>> <=> stack = <<>>
  BY <1>1, <1>5, EmptySeq
<1> QED BY <1>1, <1>5, <1>6, <1>7 DEF view

\* A frame on top of the others is one on top for the guard.
LEMMA StandingAppend ==
    ASSUME NEW stack \in Seq(FrameSet), NEW f \in FrameSet
    PROVE  Standing(Append(stack, f)) = Append(Standing(stack), [id |-> f.id, mark |-> f.mark])
<1> DEFINE n == Len(stack)
           more == Append(stack, f)
           v == Standing(stack)
           w == Standing(more)
           x == [id |-> f.id, mark |-> f.mark]
<1>1. /\ n \in Nat /\ more \in Seq(FrameSet) /\ Len(more) = n + 1
      /\ \A i \in 1..n : more[i] = stack[i]
      /\ more[n + 1] = f
  BY AppendOf
<1>2. /\ v \in Seq(G!Frame) /\ Len(v) = n
      /\ \A i \in 1..n : v[i] = [id |-> stack[i].id, mark |-> stack[i].mark]
  BY StandingIs
<1> HIDE DEF more
<1>3. /\ w \in Seq(G!Frame) /\ Len(w) = n + 1
      /\ \A i \in 1..(n + 1) : w[i] = [id |-> more[i].id, mark |-> more[i].mark]
  BY <1>1, StandingIs
<1>4. x \in G!Frame
  BY DEF FrameSet, G!Frame
<1> HIDE DEF v, w, x
<1>5. /\ Append(v, x) \in Seq(G!Frame) /\ Len(Append(v, x)) = n + 1
      /\ \A i \in 1..n : Append(v, x)[i] = v[i]
      /\ Append(v, x)[n + 1] = x
  BY <1>2, <1>4, AppendOf
<1> HIDE DEF n
<1>6. \A i \in 1..n : w[i] = Append(v, x)[i]
  <2> TAKE i \in 1..n
  <2>1. i \in 1..(n + 1)
    BY <1>1
  <2>2. w[i] = [id |-> stack[i].id, mark |-> stack[i].mark]
    BY <1>1, <1>3, <2>1
  <2> QED BY <1>2, <1>5, <2>2
<1>7. w[n + 1] = Append(v, x)[n + 1]
  BY <1>1, <1>3, <1>5 DEF x
<1>8. \A i \in 1..(n + 1) : w[i] = Append(v, x)[i]
  <2> TAKE i \in 1..(n + 1)
  <2>1. i \in 1..n \/ i = n + 1
    BY <1>1
  <2> QED BY <1>6, <1>7, <2>1, Zenon
<1>9. w = Append(v, x)
  BY <1>3, <1>5, <1>8, SeqEqual
<1> QED BY <1>9 DEF w, v, x, more

\* Popping a frame is popping one for the guard.
LEMMA StandingFront ==
    ASSUME NEW stack \in Seq(FrameSet), stack # <<>>
    PROVE  Standing(Front(stack)) = SubSeq(Standing(stack), 1, Len(Standing(stack)) - 1)
<1> DEFINE n == Len(stack)
           less == Front(stack)
           v == Standing(stack)
           w == Standing(less)
<1>1. /\ n \in Nat \ {0} /\ less \in Seq(FrameSet) /\ Len(less) = n - 1
      /\ \A i \in 1..(n - 1) : less[i] = stack[i]
  BY FrontOf
<1>2. /\ v \in Seq(G!Frame) /\ Len(v) = n /\ v # <<>>
      /\ \A i \in 1..n : v[i] = [id |-> stack[i].id, mark |-> stack[i].mark]
  BY StandingIs
<1> HIDE DEF less
<1>3. /\ w \in Seq(G!Frame) /\ Len(w) = n - 1
      /\ \A i \in 1..(n - 1) : w[i] = [id |-> less[i].id, mark |-> less[i].mark]
  BY <1>1, StandingIs
<1> HIDE DEF v, w
<1>4. /\ Front(v) \in Seq(G!Frame) /\ Len(Front(v)) = n - 1
      /\ \A i \in 1..(n - 1) : Front(v)[i] = v[i]
  BY <1>2, FrontOf
<1> HIDE DEF n
<1>5. \A i \in 1..(n - 1) : w[i] = Front(v)[i]
  <2> TAKE i \in 1..(n - 1)
  <2>1. i \in 1..n
    BY <1>1
  <2>2. w[i] = [id |-> stack[i].id, mark |-> stack[i].mark]
    BY <1>1, <1>3
  <2> QED BY <1>2, <1>4, <2>1, <2>2
<1>6. w = Front(v)
  BY <1>3, <1>4, <1>5, SeqEqual
<1> QED BY <1>6 DEF w, v, less, Front

\* A top frame with the same shape and mark is the same to the guard.
LEMMA StandingReplace ==
    ASSUME NEW stack \in Seq(FrameSet), stack # <<>>, NEW f \in FrameSet,
           f.id = Last(stack).id, f.mark = Last(stack).mark
    PROVE  Standing(Replace(stack, f)) = Standing(stack)
<1> DEFINE n == Len(stack)
           other == Replace(stack, f)
           v == Standing(stack)
           w == Standing(other)
<1>1. /\ n \in Nat \ {0} /\ other \in Seq(FrameSet) /\ Len(other) = n
      /\ \A i \in 1..(n - 1) : other[i] = stack[i]
      /\ other[n] = f /\ Last(stack) = stack[n]
  <2>1. /\ n \in Nat \ {0} /\ other \in Seq(FrameSet) /\ Len(other) = n
        /\ \A i \in 1..(n - 1) : other[i] = stack[i]
        /\ other[n] = f
    BY ReplaceOf
  <2> QED BY <2>1 DEF Last
<1>2. /\ v \in Seq(G!Frame) /\ Len(v) = n
      /\ \A i \in 1..n : v[i] = [id |-> stack[i].id, mark |-> stack[i].mark]
  BY StandingIs
<1> HIDE DEF other
<1>3. /\ w \in Seq(G!Frame) /\ Len(w) = n
      /\ \A i \in 1..n : w[i] = [id |-> other[i].id, mark |-> other[i].mark]
  BY <1>1, StandingIs
<1>4. \A i \in 1..n : other[i].id = stack[i].id /\ other[i].mark = stack[i].mark
  BY <1>1
<1> HIDE DEF v, w
<1>5. \A i \in 1..n : w[i] = v[i]
  BY <1>2, <1>3, <1>4
<1>6. w = v
  BY <1>2, <1>3, <1>5, SeqEqual
<1> QED BY <1>6 DEF w, v, other

\* The guard's view of the calls, place by place.
LEMMA BasesIs ==
    ASSUME NEW S, NEW open \in Seq(S), \A i \in 1..Len(open) : open[i].base \in Nat
    PROVE  /\ Len(open) \in Nat
           /\ Bases(open) \in Seq(Nat) /\ Len(Bases(open)) = Len(open)
           /\ \A i \in 1..Len(open) : Bases(open)[i] = open[i].base
           /\ Bases(open) = <<>> <=> open = <<>>
<1> DEFINE view == Bases(open)
<1>1. Len(open) \in Nat
  BY EmptySeq
<1>2. view \in [1..Len(open) -> Nat]
  BY DEF Bases
<1>3. view \in Seq(Nat) /\ Len(view) = Len(open)
  BY <1>1, <1>2, FunctionIsSeq
<1>4. \A i \in 1..Len(open) : view[i] = open[i].base
  BY DEF Bases
<1> HIDE DEF view
<1>5. view = <<>> <=> open = <<>>
  BY <1>1, <1>3, EmptySeq
<1> QED BY <1>1, <1>3, <1>4, <1>5 DEF view

\* A call made is one made for the guard.
LEMMA BasesAppend ==
    ASSUME NEW S, NEW open \in Seq(S), \A i \in 1..Len(open) : open[i].base \in Nat,
           NEW x \in S, x.base \in Nat
    PROVE  Bases(Append(open, x)) = Append(Bases(open), x.base)
<1> DEFINE n == Len(open)
           more == Append(open, x)
           v == Bases(open)
           w == Bases(more)
<1>1. /\ n \in Nat /\ more \in Seq(S) /\ Len(more) = n + 1
      /\ \A i \in 1..n : more[i] = open[i]
      /\ more[n + 1] = x
  BY AppendOf
<1>2. v \in Seq(Nat) /\ Len(v) = n /\ \A i \in 1..n : v[i] = open[i].base
  BY BasesIs
<1> HIDE DEF more, n
<1>3. \A i \in 1..(n + 1) : i \in 1..n \/ i = n + 1
  BY <1>1
<1>4. \A i \in 1..n : open[i].base \in Nat
  BY DEF n
<1>5. \A i \in 1..Len(more) : more[i].base \in Nat
  BY <1>1, <1>3, <1>4
<1>6. w \in Seq(Nat) /\ Len(w) = n + 1 /\ \A i \in 1..(n + 1) : w[i] = more[i].base
  BY <1>1, <1>5, BasesIs
<1> HIDE DEF v, w
<1>7. /\ Append(v, x.base) \in Seq(Nat) /\ Len(Append(v, x.base)) = n + 1
      /\ \A i \in 1..n : Append(v, x.base)[i] = v[i]
      /\ Append(v, x.base)[n + 1] = x.base
  BY <1>2, AppendOf
<1>8. \A i \in 1..(n + 1) : w[i] = Append(v, x.base)[i]
  <2> TAKE i \in 1..(n + 1)
  <2>1. CASE i \in 1..n
    <3>1. w[i] = more[i].base
      BY <1>6
    <3>2. more[i] = open[i] /\ v[i] = open[i].base
      BY <1>1, <1>2, <2>1
    <3>3. Append(v, x.base)[i] = v[i]
      BY <1>7, <2>1
    <3> QED BY <3>1, <3>2, <3>3
  <2>2. CASE i = n + 1
    BY <2>2, <1>1, <1>6, <1>7
  <2> QED BY <2>1, <2>2, <1>3
<1>9. w = Append(v, x.base)
  BY <1>6, <1>7, <1>8, SeqEqual
<1> QED BY <1>9 DEF w, v, more

\* A call that returns is one that returns for the guard.
LEMMA BasesFront ==
    ASSUME NEW S, NEW open \in Seq(S), \A i \in 1..Len(open) : open[i].base \in Nat,
           open # <<>>
    PROVE  Bases(Front(open)) = SubSeq(Bases(open), 1, Len(Bases(open)) - 1)
<1> DEFINE n == Len(open)
           less == Front(open)
           v == Bases(open)
           w == Bases(less)
<1>1. /\ n \in Nat \ {0} /\ less \in Seq(S) /\ Len(less) = n - 1
      /\ \A i \in 1..(n - 1) : less[i] = open[i]
  BY FrontOf
<1>2. /\ v \in Seq(Nat) /\ Len(v) = n /\ v # <<>>
      /\ \A i \in 1..n : v[i] = open[i].base
  BY BasesIs
<1> HIDE DEF less, n
<1>3. \A i \in 1..(n - 1) : i \in 1..n
  BY <1>1
<1>4. \A i \in 1..n : open[i].base \in Nat
  BY DEF n
<1>5. \A i \in 1..Len(less) : less[i].base \in Nat
  BY <1>1, <1>3, <1>4
<1>6. w \in Seq(Nat) /\ Len(w) = n - 1 /\ \A i \in 1..(n - 1) : w[i] = less[i].base
  BY <1>1, <1>5, BasesIs
<1> HIDE DEF v, w
<1>7. /\ Front(v) \in Seq(Nat) /\ Len(Front(v)) = n - 1
      /\ \A i \in 1..(n - 1) : Front(v)[i] = v[i]
  BY <1>2, FrontOf
<1>8. \A i \in 1..(n - 1) : w[i] = Front(v)[i]
  <2> TAKE i \in 1..(n - 1)
  <2>1. w[i] = less[i].base /\ Front(v)[i] = v[i]
    BY <1>6, <1>7
  <2>2. less[i] = open[i] /\ v[i] = open[i].base
    BY <1>1, <1>2, <1>3
  <2> QED BY <2>1, <2>2
<1>9. w = Front(v)
  BY <1>6, <1>7, <1>8, SeqEqual
<1> QED BY <1>9 DEF w, v, less, Front

\* What a call has found so far is nothing to the guard.
LEMMA BasesReplace ==
    ASSUME NEW S, NEW open \in Seq(S), \A i \in 1..Len(open) : open[i].base \in Nat,
           open # <<>>, NEW x \in S, x.base = Last(open).base
    PROVE  Bases(Replace(open, x)) = Bases(open)
<1> DEFINE n == Len(open)
           other == Replace(open, x)
           v == Bases(open)
           w == Bases(other)
<1>1. /\ n \in Nat \ {0} /\ other \in Seq(S) /\ Len(other) = n
      /\ \A i \in 1..(n - 1) : other[i] = open[i]
      /\ other[n] = x
  BY ReplaceOf
<1>2. v \in Seq(Nat) /\ Len(v) = n /\ \A i \in 1..n : v[i] = open[i].base
  BY BasesIs
<1>3. x.base = open[n].base
  BY DEF Last
<1> HIDE DEF other, n
<1>4. \A i \in 1..n : i \in 1..(n - 1) \/ i = n
  BY <1>1
<1>5. \A i \in 1..n : other[i].base = open[i].base
  BY <1>1, <1>3, <1>4
<1>6. \A i \in 1..n : open[i].base \in Nat
  BY DEF n
<1>7. \A i \in 1..Len(other) : other[i].base \in Nat
  BY <1>1, <1>5, <1>6
<1>8. w \in Seq(Nat) /\ Len(w) = n /\ \A i \in 1..n : w[i] = other[i].base
  BY <1>1, <1>7, BasesIs
<1> HIDE DEF v, w
<1>9. \A i \in 1..n : w[i] = v[i]
  BY <1>2, <1>5, <1>8
<1>10. w = v
  BY <1>2, <1>8, <1>9, SeqEqual
<1> QED BY <1>10 DEF w, v, other

-----------------------------------------------------------------------------
(* Focus sets and questions are over nodes of the data. *)

\* A set of nodes in id order has its members, each once.
LEMMA SortedIs ==
    ASSUME NEW nodes \in SUBSET Nat, IsFiniteSet(nodes)
    PROVE  Sorted(nodes) \in Seq(nodes) /\ ToSet(Sorted(nodes)) = nodes
<1>1. Lists(Sorted(nodes), nodes, [x \in nodes |-> {m \in nodes : m < x}])
  BY NumbersListed DEF Sorted
<1> QED BY <1>1 DEF Lists

\* The same of a set of nodes of the data.
LEMMA SortedNodes ==
    ASSUME NEW nodes \in SUBSET Nodes
    PROVE  Sorted(nodes) \in Seq(Nodes) /\ ToSet(Sorted(nodes)) = nodes
<1>1. nodes \in SUBSET Nat /\ IsFiniteSet(nodes)
  BY NodesAssumption, FS_Subset
<1>2. Sorted(nodes) \in Seq(nodes) /\ ToSet(Sorted(nodes)) = nodes
  BY <1>1, SortedIs
<1> QED BY <1>2, SeqMonotonic

\* What the compiler leaves of a shape, as facts about its fields.
LEMMA WellFormed ==
    ASSUME NEW s \in Shapes
    PROVE  /\ Defs[s].targets \subseteq Nodes /\ Defs[s].where \subseteq Shapes
           /\ \A of \in Defs[s].values : of \in [DOMAIN of -> SUBSET Nodes]
           /\ Len(Defs[s].constraints) \in Nat
           /\ DOMAIN Defs[s].constraints = 1..Len(Defs[s].constraints)
           /\ \A i \in 1..Len(Defs[s].constraints) : ConstraintOK(Defs[s].constraints[i])
<1>1. ShapeOK(Defs[s])
  BY DefsAssumption
<1>2. /\ Len(Defs[s].constraints) \in Nat
      /\ DOMAIN Defs[s].constraints = 1..Len(Defs[s].constraints)
  BY <1>1, LenProperties DEF ShapeOK, IsSeq
<1> QED BY <1>1, <1>2 DEF ShapeOK

\* The value nodes of a focus node, where its expression has an answer.
LEMMA ValuesAreNodes ==
    ASSUME NEW data, DataOK(data), NEW s \in Shapes, NEW node \in Nodes,
           \A of \in Defs[s].values : node \in DOMAIN of
    PROVE  ValuesOf(data, s, node) \in Seq(Nodes)
<1>1. CASE Defs[s].values # {}
  <2>1. UNION {of[node] : of \in Defs[s].values} \in SUBSET Nodes
    <3>1. ASSUME NEW of \in Defs[s].values
          PROVE  of[node] \in SUBSET Nodes
      BY WellFormed
    <3> QED BY <3>1
  <2> QED BY <1>1, <2>1, SortedNodes DEF ValuesOf
<1>2. CASE Defs[s].values = {} /\ Defs[s].path = NoPath
  <2>1. <<node>> \in Seq(Nodes)
    OBVIOUS
  <2> QED BY <1>2, <2>1 DEF ValuesOf
<1>3. CASE Defs[s].values = {} /\ Defs[s].path # NoPath
  <2>1. data.edges[Defs[s].path][node] \in SUBSET Nodes
    BY <1>3 DEF DataOK
  <2> QED BY <1>3, <2>1, SortedNodes DEF ValuesOf, PathValues
<1> QED BY <1>1, <1>2, <1>3

\* One row per focus node.
LEMMA RowsOverNodes ==
    ASSUME NEW data, DataOK(data), NEW s \in Shapes, NEW focus \in Seq(Nodes),
           Valued(s, focus)
    PROVE  Rows(data, s, focus) \in Seq(RowSet) /\ Len(Rows(data, s, focus)) = Len(focus)
<1>1. Len(focus) \in Nat /\ \A i \in 1..Len(focus) : focus[i] \in Nodes
  BY EmptySeq, ElementOfSeq
<1>2. \A i \in 1..Len(focus) :
          [focus |-> focus[i], values |-> ValuesOf(data, s, focus[i])] \in RowSet
  <2> TAKE i \in 1..Len(focus)
  <2>1. focus[i] \in ToSet(focus)
    BY LenProperties DEF ToSet
  <2>2. ValuesOf(data, s, focus[i]) \in Seq(Nodes)
    BY <1>1, <2>1, ValuesAreNodes DEF Valued
  <2> QED BY <1>1, <2>2 DEF RowSet
<1> DEFINE rows == Rows(data, s, focus)
<1>3. rows \in [1..Len(focus) -> RowSet]
  BY <1>2 DEF Rows
<1> HIDE DEF rows
<1>4. rows \in Seq(RowSet) /\ Len(rows) = Len(focus)
  BY <1>1, <1>3, FunctionIsSeq
<1> QED BY <1>4 DEF rows

\* The focus set of a property descent.
LEMMA AllValuesAreNodes ==
    ASSUME NEW rows \in Seq(RowSet)
    PROVE  AllValues(rows) \in Seq(Nodes)
<1>1. Len(rows) \in Nat /\ \A i \in 1..Len(rows) : rows[i] \in RowSet
  BY EmptySeq, ElementOfSeq
<1> DEFINE each == [i \in 1..Len(rows) |-> rows[i].values]
<1>2. each \in [1..Len(rows) -> Seq(Nodes)]
  BY <1>1 DEF RowSet
<1>3. each \in Seq(Seq(Nodes))
  BY <1>1, <1>2, FunctionIsSeq
<1> HIDE DEF each
<1>4. FlattenSeq(each) \in Seq(Nodes)
  BY <1>3, FlattenMembers
<1> QED BY <1>4 DEF AllValues, each

\* The filter leaves nodes of the focus set, and only fresh ones.
LEMMA KeptIsFresh ==
    ASSUME NEW s \in Shapes, NEW focus \in Seq(Nodes), pairs = <<>> => seen = {}
    PROVE  /\ Kept(s, focus) \in Seq(Nodes)
           /\ \A i \in 1..Len(Kept(s, focus)) : <<s, Kept(s, focus)[i]>> \notin seen
<1>1. CASE pairs = <<>>
  BY <1>1 DEF Kept
<1>2. CASE pairs # <<>>
  <2> DEFINE each == [i \in DOMAIN focus |->
                         IF <<s, focus[i]>> \in seen THEN <<>> ELSE <<focus[i]>>]
             fresh == {n \in Nodes : <<s, n>> \notin seen}
             kept == FlattenSeq(each)
  <2>1. /\ Len(focus) \in Nat /\ DOMAIN focus = 1..Len(focus)
        /\ \A i \in 1..Len(focus) : focus[i] \in Nodes
    BY LenProperties, ElementOfSeq
  <2>2. ASSUME NEW i \in 1..Len(focus)
        PROVE  (IF <<s, focus[i]>> \in seen THEN <<>> ELSE <<focus[i]>>) \in Seq(fresh)
    <3>1. CASE <<s, focus[i]>> \in seen
      BY <3>1, EmptySeq
    <3>2. CASE <<s, focus[i]>> \notin seen
      <4>1. focus[i] \in fresh
        BY <2>1, <3>2
      <4> HIDE DEF fresh
      <4>2. <<focus[i]>> \in Seq(fresh)
        BY <4>1
      <4> QED BY <3>2, <4>2
    <3> QED BY <3>1, <3>2
  <2>3. each \in [1..Len(focus) -> Seq(fresh)]
    BY <2>1, <2>2
  <2>4. Kept(s, focus) = kept
    BY <1>2 DEF Kept
  <2>5. fresh \subseteq Nodes /\ \A n \in fresh : <<s, n>> \notin seen
    OBVIOUS
  <2> HIDE DEF each, fresh
  <2>6. each \in Seq(Seq(fresh))
    BY <2>1, <2>3, FunctionIsSeq
  <2>7. kept \in Seq(fresh)
    BY <2>6, FlattenMembers
  <2> HIDE DEF kept
  <2>8. kept \in Seq(Nodes) /\ \A i \in 1..Len(kept) : kept[i] \in fresh
    BY <2>5, <2>7, SeqMonotonic, ElementOfSeq
  <2> QED BY <2>4, <2>5, <2>8
<1> QED BY <1>1, <1>2

\* A constraint that asks, asks shapes it names, over nodes of the data.
LEMMA QuestionsOverNodes ==
    ASSUME NEW data, DataOK(data), NEW c, ConstraintOK(c), c.kind \in Asking,
           NEW s, NEW focus, NEW value \in Nodes, Expressible(c, value)
    PROVE  Questions(data, s, c, focus, value) \in Seq([shape: Named(c), focus: Seq(Nodes)])
<1> DEFINE questions == Questions(data, s, c, focus, value)
           Question == [shape: Named(c), focus: Seq(Nodes)]
<1>0. <<value>> \in Seq(Nodes)
  OBVIOUS
<1>1. CASE c.kind = "member" \/ c.kind = "reifier"
  <2>1. c.shapes \in Seq(Shapes) /\ c.shapes # <<>> /\ Named(c) = ToSet(c.shapes)
    BY <1>1 DEF ConstraintOK, Asking, Named
  <2>2. c.shapes[1] \in Named(c)
    <3>1. Len(c.shapes) \in Nat \ {0} /\ DOMAIN c.shapes = 1..Len(c.shapes)
      BY <2>1, EmptySeq, LenProperties
    <3> QED BY <2>1, <3>1 DEF ToSet
  <2>3. questions = <<>> \/ \E nodes \in Seq(Nodes) :
                               questions = <<[shape |-> c.shapes[1], focus |-> nodes]>>
    BY <1>1 DEF Questions, DataOK
  <2>4. <<>> \in Seq(Question)
    BY EmptySeq
  <2>5. ASSUME NEW nodes \in Seq(Nodes)
        PROVE  <<[shape |-> c.shapes[1], focus |-> nodes]>> \in Seq(Question)
    <3> DEFINE q == [shape |-> c.shapes[1], focus |-> nodes]
    <3>1. q \in Question
      BY <2>2
    <3> HIDE DEF q, Question
    <3> QED BY <3>1 DEF q
  <2> QED BY <2>3, <2>4, <2>5
<1>2. CASE c.kind = "nodeBy"
  <2> DEFINE names == c.names[value]
  <2>1. names \in Seq(Shapes) /\ value \in DOMAIN c.names
        /\ Named(c) = UNION {ToSet(c.names[v]) : v \in DOMAIN c.names}
    BY <1>2 DEF ConstraintOK, Expressible, Asking, Named
  <2>2. questions = [k \in 1..Len(names) |-> [shape |-> names[k], focus |-> <<value>>]]
    BY <1>2 DEF Questions, Asking
  <2>3. Len(names) \in Nat /\ DOMAIN names = 1..Len(names)
    BY <2>1, LenProperties
  <2>4. \A k \in 1..Len(names) : names[k] \in Named(c)
    <3> TAKE k \in 1..Len(names)
    <3>1. names[k] \in ToSet(names)
      BY <2>3 DEF ToSet
    <3> QED BY <2>1, <3>1
  <2> HIDE DEF names
  <2>5. questions \in [1..Len(names) -> Question]
    BY <1>0, <2>2, <2>4
  <2> HIDE DEF questions, Question
  <2> QED BY <2>3, <2>5, FunctionIsSeq DEF questions, Question
<1>3. CASE c.kind \notin {"member", "reifier", "nodeBy"}
  <2>1. c.shapes \in Seq(Shapes) /\ Named(c) = ToSet(c.shapes)
    BY <1>3 DEF ConstraintOK, Asking, Named
  <2>2. questions = [k \in 1..Len(c.shapes) |-> [shape |-> c.shapes[k], focus |-> <<value>>]]
    BY <1>3 DEF Questions
  <2>3. Len(c.shapes) \in Nat /\ DOMAIN c.shapes = 1..Len(c.shapes)
    BY <2>1, LenProperties
  <2>4. \A k \in 1..Len(c.shapes) : c.shapes[k] \in Named(c)
    BY <2>1, <2>3 DEF ToSet
  <2>5. questions \in [1..Len(c.shapes) -> Question]
    BY <1>0, <2>2, <2>4
  <2> HIDE DEF questions, Question
  <2> QED BY <2>3, <2>5, FunctionIsSeq DEF questions, Question
<1> QED BY <1>1, <1>2, <1>3

-----------------------------------------------------------------------------
(* The invariant, as facts. *)

\* The shapes a constraint names are shapes of the graph.
LEMMA NamedAreShapes ==
    ASSUME NEW c, ConstraintOK(c)
    PROVE  Named(c) \subseteq Shapes
<1>1. CASE c.kind \in Asking \ {"nodeBy"}
  <2>1. c.shapes \in Seq(Shapes)
    BY <1>1 DEF ConstraintOK
  <2>2. Named(c) = ToSet(c.shapes)
    BY <1>1 DEF Named, Asking
  <2> QED BY <2>1, <2>2, MembersOfSeq
<1>2. CASE c.kind = "nodeBy"
  <2>1. c.names \in [DOMAIN c.names -> Seq(Shapes)]
    BY <1>2 DEF ConstraintOK
  <2>2. Named(c) = UNION {ToSet(c.names[v]) : v \in DOMAIN c.names}
    BY <1>2 DEF Named, Asking
  <2>3. \A v \in DOMAIN c.names : ToSet(c.names[v]) \subseteq Shapes
    BY <2>1, MembersOfSeq
  <2> QED BY <2>2, <2>3
<1>3. CASE c.kind = "property"
  <2>1. c.shape \in Shapes /\ Named(c) = {c.shape}
    BY <1>3 DEF ConstraintOK, Named, Asking
  <2> QED BY <2>1
<1>4. CASE c.kind \notin Asking \cup {"property"}
  <2>1. Named(c) = {}
    BY <1>4 DEF Named, Asking
  <2> QED BY <2>1
<1> QED BY <1>1, <1>2, <1>3, <1>4 DEF Asking

\* What the guard assumes of its constants holds of the engine's.
LEMMA GuardAssumptions ==
    /\ MaxDepth \in Nat \ {0} /\ Seq(Nodes) \subseteq Seq(Nodes)
    /\ IsFiniteSet(Shapes) /\ G!IsFiniteSet(Shapes)
    /\ Refs \in [Shapes -> SUBSET Shapes]
<1>1. ASSUME NEW s \in Shapes
      PROVE  UNION {Named(c) : c \in ToSet(Defs[s].constraints)} \subseteq Shapes
  <2>1. \A i \in DOMAIN Defs[s].constraints : Named(Defs[s].constraints[i]) \subseteq Shapes
    BY WellFormed, NamedAreShapes
  <2> QED BY <2>1 DEF ToSet
<1>2. Refs \in [Shapes -> SUBSET Shapes]
  BY <1>1 DEF Refs
<1>3. IsFiniteSet(Shapes) /\ G!IsFiniteSet(Shapes)
  BY DefsAssumption DEF IsFiniteSet, G!IsFiniteSet
<1> QED BY <1>2, <1>3, DepthAssumption

\* What the invariant says of frames, calls and the guard's state.
LEMMA Facts ==
    ASSUME Inv
    PROVE  /\ frames \in Seq(FrameSet) /\ Len(frames) \in Nat
           /\ calls \in Seq(ToSet(calls)) /\ Len(calls) \in Nat
           /\ \A k \in 1..Len(calls) : calls[k].base \in Nat /\ calls[k].base <= Len(frames)
           /\ \A k \in 1..Len(calls) : k < Len(calls) => calls[k].base < calls[Len(calls)].base
           /\ calls # <<>> => Len(calls) \in 1..Len(calls)
                              /\ Last(calls) = calls[Len(calls)] /\ calls[1].base = 0
           /\ \A k \in 2..Len(calls) : calls[k].base >= 1
           /\ calls = <<>> => frames = <<>>
           /\ frames # <<>> => Len(frames) \in 1..Len(frames) /\ Top = frames[Len(frames)]
                               /\ Top \in FrameSet /\ FrameOK(Top)
           /\ depth = Len(calls)
           /\ pairs = <<>> => seen = {}
           /\ pairs \in Seq(Shapes \X Nodes)
           /\ failing \in BOOLEAN
<1>1. /\ G!TypeOK /\ G!SeenIsPairs /\ G!Nesting
      /\ frames \in Seq(FrameSet) /\ \A i \in 1..Len(frames) : FrameOK(frames[i])
      /\ calls \in Seq(ToSet(calls))
  BY DEF Inv, G!IInv, FramesOK, CallsOK, IsSeq
<1>2. Len(frames) \in Nat /\ Len(calls) \in Nat
  BY <1>1, EmptySeq
<1>3. /\ Bases(calls) \in Seq(Nat) /\ pairs \in Seq(Shapes \X Nodes) /\ failing \in BOOLEAN
  BY <1>1 DEF G!TypeOK, G!Pair
<1>4. \A k \in 1..Len(calls) : calls[k].base \in Nat
  <2>1. DOMAIN Bases(calls) = 1..Len(calls)
        /\ \A k \in 1..Len(calls) : Bases(calls)[k] = calls[k].base
    BY DEF Bases
  <2>2. DOMAIN Bases(calls) = 1..Len(Bases(calls))
        /\ \A k \in 1..Len(Bases(calls)) : Bases(calls)[k] \in Nat
    BY <1>3, LenProperties, ElementOfSeq
  <2> QED BY <2>1, <2>2
<1>5. /\ Len(Bases(calls)) = Len(calls)
      /\ \A k \in 1..Len(calls) : Bases(calls)[k] = calls[k].base
      /\ Bases(calls) = <<>> <=> calls = <<>>
  BY <1>1, <1>4, BasesIs
<1>6. /\ Len(Standing(frames)) = Len(frames)
      /\ Standing(frames) = <<>> <=> frames = <<>>
  BY <1>1, StandingIs
<1>7. /\ \A k \in 1..Len(calls) : calls[k].base <= Len(frames) /\ calls[k].base >= k - 1
      /\ calls # <<>> => calls[1].base = 0
      /\ calls = <<>> => frames = <<>>
      /\ depth = Len(calls)
  <2>1. calls # <<>> => 1 \in 1..Len(calls)
    BY <1>1, <1>2, EmptySeq
  <2> QED BY <1>1, <1>5, <1>6, <2>1 DEF G!Nesting
<1>8. ASSUME NEW k \in 1..Len(calls), k < Len(calls)
      PROVE  calls[k].base < calls[Len(calls)].base
  <2>1. Len(calls) \in 1..Len(calls) /\ k \in 1..(Len(calls) - 1)
    BY <1>2, <1>8
  <2>2. Bases(calls)[k] < Bases(calls)[Len(calls)]
    BY <1>1, <1>5, <2>1 DEF G!Nesting
  <2> QED BY <1>5, <2>1, <2>2
<1>9. calls # <<>> => Len(calls) \in 1..Len(calls) /\ Last(calls) = calls[Len(calls)]
  BY <1>1, <1>2, EmptySeq DEF Last
<1>10. \A k \in 2..Len(calls) : calls[k].base >= 1
  <2> TAKE k \in 2..Len(calls)
  <2>1. k \in 1..Len(calls) /\ k - 1 >= 1 /\ calls[k].base \in Nat
    BY <1>2, <1>4
  <2> QED BY <1>7, <2>1
<1>11. frames # <<>> => Len(frames) \in 1..Len(frames) /\ Top = frames[Len(frames)]
                        /\ Top \in FrameSet /\ FrameOK(Top)
  <2> SUFFICES ASSUME frames # <<>>
               PROVE  Len(frames) \in 1..Len(frames) /\ Top = frames[Len(frames)]
                        /\ Top \in FrameSet /\ FrameOK(Top)
    OBVIOUS
  <2>1. Len(frames) \in 1..Len(frames) /\ Top = frames[Len(frames)]
    BY <1>1, <1>2, EmptySeq DEF Top, Last
  <2> QED BY <1>1, <2>1, ElementOfSeq
<1>12. pairs = <<>> => seen = {}
  <2> SUFFICES ASSUME pairs = <<>> PROVE seen = {}
    OBVIOUS
  <2>1. seen = {pairs[i] : i \in 1..Len(pairs)} /\ Len(pairs) = 0
    BY <1>1, EmptySeq DEF G!SeenIsPairs
  <2> QED BY <2>1
<1> QED BY <1>1, <1>2, <1>3, <1>4, <1>7, <1>8, <1>9, <1>10, <1>11, <1>12

\* The guard sees the calls and the top frame as the engine does.
LEMMA SameView ==
    ASSUME Inv
    PROVE  /\ Standing(frames) = <<>> <=> frames = <<>>
           /\ Bases(calls) = <<>> <=> calls = <<>>
           /\ Len(Standing(frames)) = Len(frames) /\ Len(Bases(calls)) = Len(calls)
           /\ frames # <<>> => G!Top.id = Top.id /\ G!Top.mark = Top.mark
           /\ G!Running <=> Running
           /\ G!InvocationEmpty <=> Returning
<1>1. /\ Standing(frames) = <<>> <=> frames = <<>>
      /\ Len(Standing(frames)) = Len(frames)
      /\ \A i \in 1..Len(frames) :
            Standing(frames)[i] = [id |-> frames[i].id, mark |-> frames[i].mark]
  BY Facts, StandingIs
<1>2. /\ Bases(calls) = <<>> <=> calls = <<>>
      /\ Len(Bases(calls)) = Len(calls)
      /\ \A k \in 1..Len(calls) : Bases(calls)[k] = calls[k].base
  BY Facts, BasesIs
<1>3. frames # <<>> => G!Top.id = Top.id /\ G!Top.mark = Top.mark
  <2> SUFFICES ASSUME frames # <<>> PROVE G!Top.id = Top.id /\ G!Top.mark = Top.mark
    OBVIOUS
  <2>1. Len(frames) \in 1..Len(frames) /\ Top = frames[Len(frames)]
    BY Facts
  <2>2. G!Top = Standing(frames)[Len(frames)]
    BY <1>1 DEF G!Top
  <2>3. G!Top = [id |-> frames[Len(frames)].id, mark |-> frames[Len(frames)].mark]
    BY <1>1, <2>1, <2>2
  <2> QED BY <2>1, <2>3
<1>4. calls # <<>> => Bases(calls)[Len(Bases(calls))] = Last(calls).base
  BY <1>2, Facts
<1> QED BY <1>1, <1>2, <1>3, <1>4 DEF G!Running, Running, G!InvocationEmpty, Returning

-----------------------------------------------------------------------------
(* Changes to the frames and the calls, and what the guard makes of them. *)

\* A sequence over any set is one over its members.
LEMMA SeqIsSeq ==
    ASSUME NEW S, NEW q \in Seq(S)
    PROVE  IsSeq(q)
BY MembersOfSeq DEF IsSeq

\* While a call has frames of its own, no other call has the top frame.
LEMMA RunningFacts ==
    ASSUME Inv, Running
    PROVE  /\ frames # <<>> /\ calls # <<>> /\ Len(frames) >= 1
           /\ Top \in FrameSet /\ FrameOK(Top) /\ Top = frames[Len(frames)]
           /\ \A k \in 1..Len(calls) : calls[k].base <= Len(frames) - 1
<1>1. /\ calls # <<>> /\ Len(frames) > Last(calls).base
      /\ Len(calls) \in 1..Len(calls) /\ Last(calls) = calls[Len(calls)]
  BY Facts DEF Running
<1>2. /\ Len(frames) \in Nat /\ frames \in Seq(FrameSet)
      /\ \A k \in 1..Len(calls) : calls[k].base \in Nat
      /\ \A k \in 1..Len(calls) : k < Len(calls) => calls[k].base < calls[Len(calls)].base
      /\ Len(calls) \in Nat
  BY Facts
<1>3. Len(frames) >= 1
  BY <1>1, <1>2
<1>4. frames # <<>>
  BY <1>2, <1>3, EmptySeq
<1>5. ASSUME NEW k \in 1..Len(calls)
      PROVE  calls[k].base <= Len(frames) - 1
  <2>1. k = Len(calls) \/ k < Len(calls)
    BY <1>2
  <2>2. calls[k].base <= calls[Len(calls)].base
    BY <1>1, <1>2, <2>1
  <2> QED BY <1>1, <1>2, <2>2
<1> QED BY <1>1, <1>3, <1>4, <1>5, Facts

\* The top frame moves on: the guard sees nothing of it.
LEMMA TopChanges ==
    ASSUME Inv, frames # <<>>, NEW f \in FrameSet,
           f.id = Top.id, f.mark = Top.mark, FrameOK(f)
    PROVE  /\ WithTop(f) \in Seq(FrameSet) /\ Len(WithTop(f)) = Len(frames)
           /\ \A i \in 1..Len(WithTop(f)) : FrameOK(WithTop(f)[i])
           /\ \A i \in 1..(Len(frames) - 1) : WithTop(f)[i] = frames[i]
           /\ WithTop(f)[Len(frames)] = f
           /\ Standing(WithTop(f)) = Standing(frames)
<1> DEFINE n == Len(frames)
           stack == Replace(frames, f)
<1>1. /\ frames \in Seq(FrameSet) /\ n \in Nat /\ \A i \in 1..n : FrameOK(frames[i])
  BY Facts DEF Inv, FramesOK
<1>2. Last(frames) = Top
  BY DEF Top
<1>3. /\ stack \in Seq(FrameSet) /\ Len(stack) = n
      /\ \A i \in 1..(n - 1) : stack[i] = frames[i]
      /\ stack[n] = f
  BY <1>1, ReplaceOf
<1>4. Standing(stack) = Standing(frames)
  BY <1>1, <1>2, StandingReplace
<1> HIDE DEF stack, n
<1>5. ASSUME NEW i \in 1..n
      PROVE  FrameOK(stack[i])
  <2>1. i = n \/ i \in 1..(n - 1)
    BY <1>1
  <2>2. CASE i = n
    BY <2>2, <1>3
  <2>3. CASE i \in 1..(n - 1)
    BY <2>3, <1>1, <1>3
  <2> QED BY <2>1, <2>2, <2>3
<1> QED BY <1>3, <1>4, <1>5 DEF stack, n, WithTop

\* The last call finds something: the guard sees nothing of it.
LEMMA EmitChanges ==
    ASSUME Inv, calls # <<>>, NEW found
    PROVE  /\ IsSeq(Emit(found)) /\ Len(Emit(found)) = Len(calls)
           /\ \A k \in 1..Len(calls) :
                 DOMAIN Emit(found)[k] = {"base", "out"} /\ Emit(found)[k].base = calls[k].base
           /\ Bases(Emit(found)) = Bases(calls)
           /\ Emit(found) # <<>>
<1> DEFINE x == [Last(calls) EXCEPT !.out = @ \o found]
           S == ToSet(calls) \cup {x}
           open == Replace(calls, x)
           n == Len(calls)
<1>1. /\ calls \in Seq(S) /\ n \in Nat
      /\ \A k \in 1..n : calls[k].base \in Nat
      /\ \A k \in 1..n : DOMAIN calls[k] = {"base", "out"}
      /\ n \in 1..n /\ Last(calls) = calls[n]
  <2>1. calls \in Seq(S)
    BY Facts, SeqMonotonic, Zenon
  <2> QED BY <2>1, Facts DEF Inv, CallsOK
<1>0. x \in S
  OBVIOUS
<1>2. DOMAIN x = {"base", "out"} /\ x.base = Last(calls).base
  BY <1>1
<1> HIDE DEF x, S
<1>3. /\ open \in Seq(S) /\ Len(open) = n
      /\ \A i \in 1..(n - 1) : open[i] = calls[i]
      /\ open[n] = x
  BY <1>0, <1>1, ReplaceOf
<1>4. Bases(open) = Bases(calls)
  BY <1>0, <1>1, <1>2, BasesReplace
<1>5. Emit(found) = open
  BY DEF Emit, x
<1> HIDE DEF open, n
<1>6. ASSUME NEW k \in 1..n
      PROVE  DOMAIN open[k] = {"base", "out"} /\ open[k].base = calls[k].base
  <2>1. k = n \/ k \in 1..(n - 1)
    BY <1>1
  <2>2. CASE k = n
    BY <2>2, <1>1, <1>2, <1>3
  <2>3. CASE k \in 1..(n - 1)
    BY <2>3, <1>1, <1>3
  <2> QED BY <2>1, <2>2, <2>3
<1>7. IsSeq(open)
  BY <1>3, SeqIsSeq
<1>8. open # <<>>
  BY <1>1, <1>3, EmptySeq
<1> QED BY <1>3, <1>4, <1>5, <1>6, <1>7, <1>8 DEF n

\* The frames that wait stay as they are when only what lies above them moves.
LEMMA WaitingStay ==
    ASSUME Inv, Running, IsSeq(calls'), Len(calls') = Len(calls),
           \A k \in 1..Len(calls) :
              DOMAIN calls'[k] = {"base", "out"} /\ calls'[k].base = calls[k].base,
           \A i \in 1..(Len(frames) - 1) : frames'[i] = frames[i]
    PROVE  CallsOK'
<1>1. \A k \in 1..Len(calls) : calls[k].base <= Len(frames) - 1 /\ calls[k].base \in Nat
  BY RunningFacts, Facts
<1>2. /\ \A k \in 2..Len(calls) : Busy(frames[calls[k].base]) /\ calls[k].base >= 1
      /\ Len(calls) \in Nat
  BY Facts DEF Inv, CallsOK
<1>3. ASSUME NEW k \in 2..Len(calls)
      PROVE  Busy(frames'[calls'[k].base])
  <2>1. k \in 1..Len(calls)
    BY <1>2
  <2>2. calls[k].base \in 1..(Len(frames) - 1)
    <3>1. Len(frames) \in Nat
      BY Facts
    <3> QED BY <1>1, <1>2, <2>1, <3>1
  <2>3. frames'[calls'[k].base] = frames[calls[k].base]
    BY <2>1, <2>2
  <2> QED BY <1>2, <2>3
<1>4. \A k \in 2..Len(calls') : Busy(frames'[calls'[k].base])
  BY <1>3
<1>5. /\ IsSeq(calls)'
      /\ \A k \in 1..Len(calls') : DOMAIN calls'[k] = {"base", "out"}
  BY DEF IsSeq
<1> QED BY <1>4, <1>5 DEF CallsOK, IsSeq, Busy

\* push_frame, onto frames the guard cannot tell from the standing ones, pushes
\* what the filter leaves, the guard's own push of a fresh focus set, or fails.
LEMMA PushStep ==
    ASSUME Inv, NEW stack \in Seq(FrameSet), Standing(stack) = Standing(frames),
           \A i \in 1..Len(stack) : FrameOK(stack[i]),
           NEW s \in Shapes, NEW focus \in Seq(Nodes), PushFrame(stack, s, focus)
    PROVE  /\ \/ /\ failing' = failing
                 /\ \E kept \in Seq(Nodes) : G!Fresh(s, kept) /\ G!PushFrame(s, kept)
              \/ /\ failing' = TRUE /\ pairs' = pairs /\ seen' = seen
                 /\ Standing(frames') = Standing(frames)
           /\ FramesOK'
           /\ Len(frames') >= Len(stack)
           /\ \A i \in 1..Len(stack) : frames'[i] = stack[i]
<1> DEFINE kept == Kept(s, focus)
           rows == Rows(in.data, s, kept)
           new == [id |-> s, rows |-> rows, next |-> 0, mark |-> Len(pairs), cur |-> Idle]
           n == Len(stack)
<1>1. /\ kept \in Seq(Nodes)
      /\ \A i \in 1..Len(kept) : <<s, kept[i]>> \notin seen
  BY Facts, KeptIsFresh
<1>2. n \in Nat
  BY EmptySeq
<1>3. CASE Defs[s].deactivated \/ kept = <<>>
  <2>1. frames' = stack /\ pairs' = pairs /\ seen' = seen /\ failing' = failing
    BY <1>3 DEF PushFrame
  <2>2. Standing(frames') = Standing(frames)
    BY <2>1
  <2>3. <<>> \in Seq(Nodes) /\ G!Fresh(s, <<>>)
    BY EmptySeq DEF G!Fresh
  <2>4. G!PushFrame(s, <<>>)
    BY <2>1, <2>2 DEF G!PushFrame
  <2>5. FramesOK'
    BY <2>1 DEF FramesOK, FrameOK, Busy
  <2>6. Len(frames') >= n /\ \A i \in 1..n : frames'[i] = stack[i]
    BY <1>2, <2>1
  <2> QED BY <2>1, <2>3, <2>4, <2>5, <2>6
<1>5. CASE ~(Defs[s].deactivated \/ kept = <<>>) /\ ~Valued(s, kept)
  <2>1. frames' = stack /\ pairs' = pairs /\ seen' = seen /\ failing' = TRUE
    BY <1>5 DEF PushFrame
  <2>2. Standing(frames') = Standing(frames)
    BY <2>1
  <2>3. FramesOK'
    BY <2>1 DEF FramesOK, FrameOK, Busy
  <2>4. Len(frames') >= n /\ \A i \in 1..n : frames'[i] = stack[i]
    BY <1>2, <2>1
  <2> QED BY <2>1, <2>2, <2>3, <2>4
<1>4. CASE ~(Defs[s].deactivated \/ kept = <<>>) /\ Valued(s, kept)
  <2>1. /\ frames' = Append(stack, new) /\ failing' = failing
        /\ pairs' = pairs \o [i \in 1..Len(kept) |-> <<s, kept[i]>>]
        /\ seen' = seen \cup {<<s, x>> : x \in ToSet(kept)}
    BY <1>4 DEF PushFrame
  <2>2. DataOK(in.data)
    BY InputsAssumption DEF Inv, DriverOK, InputOK
  <2>3. /\ rows \in Seq(RowSet) /\ rows # <<>>
        /\ Len(pairs) \in Nat
    <3>1. rows \in Seq(RowSet) /\ Len(rows) = Len(kept)
      BY <1>1, <1>4, <2>2, RowsOverNodes
    <3>2. Len(kept) # 0
      BY <1>1, <1>4, EmptySeq
    <3>3. Len(pairs) \in Nat
      BY Facts, EmptySeq
    <3> HIDE DEF rows
    <3> QED BY <3>1, <3>2, <3>3, EmptySeq
  <2>4. Idle \in Idleness
    BY EmptySeq DEF Idle, Idleness
  <2> HIDE DEF rows
  <2>5. new \in FrameSet
    BY <2>3, <2>4 DEF FrameSet
  <2>6. FrameOK(new)
    BY <2>3, WellFormed DEF FrameOK
  <2>7. new.id = s /\ new.mark = Len(pairs)
    OBVIOUS
  <2> HIDE DEF new, kept
  <2>8. /\ frames' \in Seq(FrameSet) /\ Len(frames') = n + 1
        /\ \A i \in 1..n : frames'[i] = stack[i]
        /\ frames'[n + 1] = new
    BY <2>1, <2>5, AppendOf
  <2>9. Standing(frames') = Append(Standing(frames), [id |-> s, mark |-> Len(pairs)])
    BY <2>1, <2>5, <2>7, StandingAppend
  <2>10. seen' = seen \cup {<<s, kept[i]>> : i \in 1..Len(kept)}
    <3>1. DOMAIN kept = 1..Len(kept)
      BY <1>1, LenProperties
    <3>2. ToSet(kept) = {kept[i] : i \in 1..Len(kept)}
      BY <3>1 DEF ToSet
    <3> QED BY <2>1, <3>2
  <2>11. G!Fresh(s, kept)
    BY <1>1 DEF G!Fresh
  <2>12. G!PushFrame(s, kept)
    BY <1>4, <2>1, <2>9, <2>10 DEF G!PushFrame, G!Tagged
  <2>13. ASSUME NEW i \in 1..(n + 1)
         PROVE  FrameOK(frames'[i])
    <3>1. i = n + 1 \/ i \in 1..n
      BY <1>2
    <3> HIDE DEF n
    <3>2. CASE i = n + 1
      BY <3>2, <2>6, <2>8
    <3>3. CASE i \in 1..n
      BY <3>3, <2>8 DEF n
    <3> QED BY <3>1, <3>2, <3>3
  <2>14. FramesOK'
    BY <2>8, <2>13 DEF FramesOK, FrameOK, Busy
  <2> QED BY <1>1, <1>2, <2>1, <2>8, <2>11, <2>12, <2>14
<1> QED BY <1>3, <1>4, <1>5

\* A frame is popped: so it is for the guard.
LEMMA PopStep ==
    ASSUME Inv, Running, PopFrame
    PROVE  /\ G!PopFrame
           /\ FramesOK'
           /\ \A i \in 1..(Len(frames) - 1) : frames'[i] = frames[i]
<1> DEFINE n == Len(frames)
<1>1. /\ frames \in Seq(FrameSet) /\ frames # <<>> /\ n \in Nat \ {0}
      /\ \A i \in 1..n : FrameOK(frames[i])
  <2>1. n >= 1 /\ frames # <<>>
    BY RunningFacts
  <2> QED BY <2>1, Facts DEF Inv, FramesOK
<1>2. /\ frames' = Front(frames)
      /\ seen' = seen \ {pairs[i] : i \in (Top.mark + 1)..Len(pairs)}
      /\ pairs' = SubSeq(pairs, 1, Top.mark)
  BY DEF PopFrame
<1>3. /\ frames' \in Seq(FrameSet) /\ Len(frames') = n - 1
      /\ \A i \in 1..(n - 1) : frames'[i] = frames[i]
  BY <1>1, <1>2, FrontOf
<1>4. Standing(frames') = SubSeq(Standing(frames), 1, Len(Standing(frames)) - 1)
  BY <1>1, <1>2, StandingFront
<1>5. G!Top.mark = Top.mark
  BY <1>1, SameView
<1>6. G!PopFrame
  BY <1>2, <1>4, <1>5 DEF G!PopFrame, G!Above
<1>7. FramesOK'
  <2> HIDE DEF n
  <2>1. \A i \in 1..(n - 1) : i \in 1..n /\ FrameOK(frames'[i])
    BY <1>1, <1>3
  <2> QED BY <1>3, <2>1 DEF FramesOK, FrameOK, Busy
<1> QED BY <1>3, <1>6, <1>7

\* validate_shape is called: by the driver, or by the frame on top, which waits.
LEMMA CallStep ==
    ASSUME Inv, ~failing, NEW s \in Shapes, NEW focus \in Seq(Nodes), NEW out,
           Call(s, focus, out),
           \/ calls = <<>>
           \/ Running /\ s \in Refs[Top.id] /\ Busy(Top)
    PROVE  /\ G!Next
           /\ G!Refuse \/ G!Falter(s) \/ \E kept \in Seq(Nodes) : G!Enter(s, kept)
           /\ FramesOK' /\ CallsOK'
           /\ failing' => calls' # <<>>
           /\ calls' = <<>> => calls = <<>>
<1>1. frames = <<>> \/ (Running /\ s \in Refs[Top.id] /\ Busy(Top) /\ calls # <<>>)
  BY Facts, RunningFacts
<1>2. CASE depth >= MaxDepth
  <2>1. /\ failing' = TRUE
        /\ frames' = frames /\ calls' = calls /\ pairs' = pairs /\ seen' = seen /\ depth' = depth
    BY <1>2 DEF Call, guard
  <2>2. calls # <<>> /\ Running
    <3>1. calls = <<>> => depth = 0
      BY Facts, EmptySeq
    <3> QED BY <1>2, <3>1, DepthAssumption
  <2>3. G!Refuse
    BY <1>2, <2>1, <2>2, SameView DEF G!Refuse
  <2>4. FramesOK' /\ CallsOK'
    BY <2>1 DEF Inv, FramesOK, FrameOK, CallsOK, IsSeq, Busy
  <2>5. G!Next
    BY <2>3 DEF G!Next
  <2> QED BY <2>1, <2>2, <2>3, <2>4, <2>5
<1>3. CASE ~(depth >= MaxDepth)
  <2> DEFINE x == [base |-> Len(frames), out |-> out]
             S == ToSet(calls) \cup {x}
             n == Len(calls)
  <2>1. /\ depth' = depth + 1 /\ calls' = Append(calls, x)
        /\ PushFrame(frames, s, focus)
    BY <1>3 DEF Call
  <2>2. /\ frames \in Seq(FrameSet) /\ Len(frames) \in Nat
        /\ \A i \in 1..Len(frames) : FrameOK(frames[i])
        /\ depth \in Nat
    BY Facts DEF Inv, FramesOK
  <2>3. \/ /\ failing' = failing
           /\ \E kept \in Seq(Nodes) : G!Fresh(s, kept) /\ G!PushFrame(s, kept)
        \/ /\ failing' = TRUE /\ pairs' = pairs /\ seen' = seen
           /\ Standing(frames') = Standing(frames)
    BY <2>1, <2>2, PushStep
  <2>4. /\ FramesOK' /\ Len(frames') >= Len(frames)
        /\ \A i \in 1..Len(frames) : frames'[i] = frames[i]
    BY <2>1, <2>2, PushStep
  <2>5. /\ calls \in Seq(S) /\ n \in Nat /\ x \in S
        /\ \A k \in 1..n : calls[k].base \in Nat
        /\ \A k \in 1..n : DOMAIN calls[k] = {"base", "out"}
    <3>1. calls \in Seq(S)
      BY Facts, SeqMonotonic, Zenon
    <3> QED BY <3>1, Facts DEF Inv, CallsOK
  <2>6. x.base = Len(frames) /\ DOMAIN x = {"base", "out"}
    OBVIOUS
  <2> HIDE DEF x, S
  <2>7. Bases(calls') = Append(Bases(calls), Len(frames))
    BY <2>1, <2>2, <2>5, <2>6, BasesAppend
  <2>8. /\ calls' \in Seq(S) /\ Len(calls') = n + 1 /\ calls' # <<>>
        /\ \A k \in 1..n : calls'[k] = calls[k]
        /\ calls'[n + 1] = x
    BY <2>1, <2>5, AppendOf
  <2>9. s \in G!Callable
    BY <1>1, SameView, RunningFacts DEF G!Callable
  <2>10. G!Falter(s) \/ \E kept \in Seq(Nodes) : G!Enter(s, kept)
    <3>1. /\ depth < MaxDepth /\ (Bases(calls) = <<>> \/ G!Running)
          /\ Len(Standing(frames)) = Len(frames)
      BY <1>3, <2>2, DepthAssumption, SameView
    <3>2. ASSUME NEW kept \in Seq(Nodes), G!Fresh(s, kept), G!PushFrame(s, kept),
                 failing' = failing
          PROVE  G!Enter(s, kept)
      BY <2>1, <2>7, <2>9, <3>1, <3>2 DEF G!Enter
    <3>3. ASSUME failing' = TRUE, pairs' = pairs, seen' = seen,
                 Standing(frames') = Standing(frames)
          PROVE  G!Falter(s)
      BY <2>1, <2>7, <2>9, <3>1, <3>3 DEF G!Falter
    <3> QED BY <2>3, <3>2, <3>3
  <2>11. G!Next
    BY <2>9, <2>10 DEF G!Next
  <2>12. CallsOK'
    <3> HIDE DEF n
    <3>1. ASSUME NEW k \in 1..(n + 1)
          PROVE  DOMAIN calls'[k] = {"base", "out"} /\ (k >= 2 => Busy(frames'[calls'[k].base]))
      <4>1. k = n + 1 \/ k \in 1..n
        BY <2>5
      <4>2. CASE k \in 1..n
        <5>1. calls'[k] = calls[k] /\ DOMAIN calls'[k] = {"base", "out"}
          BY <4>2, <2>5, <2>8
        <5>2. ASSUME k >= 2
              PROVE  Busy(frames'[calls'[k].base])
          <6>1. k \in 2..Len(calls)
            BY <2>5, <4>2, <5>2 DEF n
          <6>2. Busy(frames[calls[k].base]) /\ calls[k].base >= 1
            BY <6>1, Facts DEF Inv, CallsOK
          <6>3. calls[k].base \in Nat /\ calls[k].base <= Len(frames)
            BY <4>2, Facts DEF n
          <6>4. calls[k].base \in 1..Len(frames)
            BY <2>2, <6>2, <6>3
          <6> QED BY <2>4, <5>1, <6>2, <6>4
        <5> QED BY <5>1, <5>2
      <4>3. CASE k = n + 1
        <5>1. calls'[k].base = Len(frames) /\ DOMAIN calls'[k] = {"base", "out"}
          BY <4>3, <2>6, <2>8
        <5>2. ASSUME k >= 2
              PROVE  Busy(frames'[calls'[k].base])
          <6>1. calls # <<>>
            BY <2>5, <4>3, <5>2, EmptySeq DEF n
          <6>2. Busy(Top) /\ Running
            BY <1>1, <6>1, Facts DEF Running
          <6>3. Top = frames[Len(frames)] /\ Len(frames) >= 1
            BY <6>2, RunningFacts
          <6>4. frames'[Len(frames)] = Top
            BY <2>2, <2>4, <6>3
          <6> QED BY <5>1, <6>2, <6>4
        <5> QED BY <5>1, <5>2
      <4> QED BY <4>1, <4>2, <4>3
    <3>2. IsSeq(calls')
      BY <2>8, SeqIsSeq
    <3>3. ASSUME NEW k \in 2..(n + 1)
          PROVE  Busy(frames'[calls'[k].base])
      <4>1. k \in 1..(n + 1) /\ k >= 2
        BY <2>5
      <4> QED BY <3>1, <4>1
    <3>4. Len(calls') = n + 1
      BY <2>8
    <3>5. \A k \in 1..Len(calls') : DOMAIN calls'[k] = {"base", "out"}
      BY <3>1, <3>4
    <3>6. \A k \in 2..Len(calls') : Busy(frames'[calls'[k].base])
      BY <3>3, <3>4
    <3>7. IsSeq(calls)' /\ (\A k \in 1..Len(calls) : DOMAIN calls[k] = {"base", "out"})'
      BY <3>2, <3>5 DEF IsSeq
    <3>8. (\A k \in 2..Len(calls) : Busy(frames[calls[k].base]))'
      BY <3>6
    <3> QED BY <3>7, <3>8 DEF CallsOK
  <2>13. calls' # <<>>
    BY <2>8
  <2> QED BY <2>4, <2>10, <2>11, <2>12, <2>13
<1> QED BY <1>2, <1>3

-----------------------------------------------------------------------------
(* The frames' steps: each is a step of the guard, or leaves it alone. *)

\* What a run was asked for.
LEMMA InputFacts ==
    ASSUME Inv
    PROVE  InputOK(in) /\ DataOK(in.data) /\ in.graph \subseteq Shapes
BY InputsAssumption DEF Inv, DriverOK, InputOK

\* What a constraint of a shape names, the shape refers to.
LEMMA NamedIsReferred ==
    ASSUME NEW s \in Shapes, NEW i \in 1..Len(Defs[s].constraints)
    PROVE  /\ ConstraintOK(Defs[s].constraints[i])
           /\ Named(Defs[s].constraints[i]) \subseteq Refs[s]
           /\ Refs[s] \subseteq Shapes
<1>1. Refs[s] = UNION {Named(c) : c \in ToSet(Defs[s].constraints)}
  BY DEF Refs
<1>2. Defs[s].constraints[i] \in ToSet(Defs[s].constraints)
  BY WellFormed DEF ToSet
<1>3. Refs[s] \subseteq Shapes
  BY GuardAssumptions
<1> QED BY <1>1, <1>2, <1>3, WellFormed

\* The next constraint of the top frame, when there is one.
LEMMA UpcomingFacts ==
    ASSUME Inv, NEW kinds, Upcoming(kinds)
    PROVE  /\ Running /\ ~failing /\ Top.next \in Nat
           /\ Top.next + 1 \in 1..Len(Defs[Top.id].constraints)
           /\ Defs[Top.id].constraints[Top.next + 1].kind \in kinds
           /\ Advanced \in FrameSet /\ Advanced.id = Top.id /\ Advanced.mark = Top.mark
           /\ Advanced.next = Top.next + 1 /\ Advanced.cur = Idle /\ Advanced.rows = Top.rows
           /\ FrameOK(Advanced)
<1>1. /\ Running /\ ~failing /\ Top.cur = Idle
      /\ Top.next < Len(Defs[Top.id].constraints)
      /\ Defs[Top.id].constraints[Top.next + 1].kind \in kinds
  BY DEF Upcoming, Between, Def
<1>2. Top \in FrameSet /\ FrameOK(Top)
  BY <1>1, RunningFacts
<1>3. Top.next \in Nat /\ Top.id \in Shapes
  BY <1>2 DEF FrameSet
<1>4. Len(Defs[Top.id].constraints) \in Nat
  BY <1>3, WellFormed
<1>5. /\ Top.next + 1 \in 1..Len(Defs[Top.id].constraints)
      /\ Top.next + 1 <= Len(Defs[Top.id].constraints)
  BY <1>1, <1>3, <1>4
<1>6. /\ Advanced \in FrameSet /\ Advanced.id = Top.id /\ Advanced.mark = Top.mark
      /\ Advanced.next = Top.next + 1 /\ Advanced.cur = Idle /\ Advanced.rows = Top.rows
  BY <1>1, <1>2, <1>3 DEF Advanced, FrameSet
<1>7. FrameOK(Advanced)
  BY <1>2, <1>5, <1>6 DEF FrameOK
<1> QED BY <1>1, <1>3, <1>5, <1>6, <1>7

\* sh:property: a frame for a shape the one on top refers to.
LEMMA DescendStep ==
    ASSUME Inv, Descend
    PROVE  G!Next /\ FramesOK' /\ CallsOK'
<1> DEFINE i == Top.next + 1
           s == Defs[Top.id].constraints[i].shape
           stack == WithTop(Advanced)
           focus == AllValues(Top.rows)
<1>1. /\ Upcoming({"property"})
      /\ PushFrame(stack, s, focus)
      /\ calls' = calls /\ depth' = depth
  BY DEF Descend, Def
<1>2. /\ Running /\ ~failing /\ i \in 1..Len(Defs[Top.id].constraints)
      /\ Defs[Top.id].constraints[i].kind = "property"
      /\ Advanced \in FrameSet /\ Advanced.id = Top.id /\ Advanced.mark = Top.mark
      /\ FrameOK(Advanced)
  BY <1>1, UpcomingFacts
<1>3. /\ frames # <<>> /\ Top \in FrameSet /\ Top.id \in Shapes /\ Top.rows \in Seq(RowSet)
  BY <1>2, RunningFacts DEF FrameSet
<1>4. s \in Refs[Top.id] /\ s \in Shapes
  <2> DEFINE c == Defs[Top.id].constraints[i]
  <2>1. ConstraintOK(c) /\ Named(c) \subseteq Refs[Top.id] /\ Refs[Top.id] \subseteq Shapes
    BY <1>2, <1>3, NamedIsReferred
  <2>2. c.kind = "property"
    BY <1>2
  <2>3. s = c.shape
    OBVIOUS
  <2> HIDE DEF c, s
  <2>4. Named(c) = {c.shape}
    BY <2>2 DEF Named, Asking
  <2> QED BY <2>1, <2>3, <2>4
<1>5. focus \in Seq(Nodes)
  BY <1>3, AllValuesAreNodes
<1>6. /\ stack \in Seq(FrameSet) /\ Len(stack) = Len(frames)
      /\ \A k \in 1..Len(stack) : FrameOK(stack[k])
      /\ \A k \in 1..(Len(frames) - 1) : stack[k] = frames[k]
      /\ Standing(stack) = Standing(frames)
  BY <1>2, <1>3, TopChanges
<1> HIDE DEF stack, focus, s, i
<1>7. \/ /\ failing' = failing
         /\ \E kept \in Seq(Nodes) : G!Fresh(s, kept) /\ G!PushFrame(s, kept)
      \/ /\ failing' = TRUE /\ pairs' = pairs /\ seen' = seen
         /\ Standing(frames') = Standing(frames)
  BY <1>1, <1>4, <1>5, <1>6, PushStep
<1>8. FramesOK' /\ \A k \in 1..Len(frames) : frames'[k] = stack[k]
  BY <1>1, <1>4, <1>5, <1>6, PushStep
<1>9. s \in G!Callable
  BY <1>3, <1>4, SameView DEF G!Callable
<1>10. G!Fail \/ \E kept \in Seq(Nodes) : G!Descend(s, kept)
  <2>1. ASSUME NEW kept \in Seq(Nodes), G!Fresh(s, kept), G!PushFrame(s, kept),
               failing' = failing
        PROVE  G!Descend(s, kept)
    BY <1>1, <1>2, <1>9, <2>1, SameView DEF G!Descend, Bases
  <2>2. ASSUME failing' = TRUE, pairs' = pairs, seen' = seen,
               Standing(frames') = Standing(frames)
        PROVE  G!Fail
    BY <1>1, <1>2, <2>2, SameView DEF G!Fail, Bases
  <2> QED BY <1>7, <2>1, <2>2
<1>11. G!Next
  BY <1>4, <1>9, <1>10 DEF G!Next
<1>12. CallsOK'
  <2>1. \A k \in 1..(Len(frames) - 1) : frames'[k] = frames[k]
    <3>1. Len(frames) \in Nat
      BY Facts
    <3>2. \A k \in 1..(Len(frames) - 1) : k \in 1..Len(frames)
      BY <3>1
    <3> QED BY <1>6, <1>8, <3>2
  <2>2. IsSeq(calls') /\ Len(calls') = Len(calls)
        /\ \A k \in 1..Len(calls) :
              DOMAIN calls'[k] = {"base", "out"} /\ calls'[k].base = calls[k].base
    BY <1>1 DEF Inv, CallsOK
  <2> QED BY <1>2, <2>1, <2>2, WaitingStay
<1> QED BY <1>8, <1>11, <1>12

\* The top frame moves on and its call may find something, nothing else.
LEMMA QuietStep ==
    ASSUME Inv, Running, NEW f \in FrameSet, f.id = Top.id, f.mark = Top.mark, FrameOK(f),
           frames' = WithTop(f),
           calls' = calls \/ \E found : calls' = Emit(found),
           UNCHANGED guard
    PROVE  /\ Standing(frames') = Standing(frames) /\ Bases(calls') = Bases(calls)
           /\ pairs' = pairs /\ seen' = seen /\ depth' = depth
           /\ FramesOK' /\ CallsOK' /\ calls' # <<>>
<1>1. calls # <<>> /\ frames # <<>>
  BY RunningFacts
<1>2. /\ IsSeq(calls') /\ Len(calls') = Len(calls) /\ calls' # <<>>
      /\ Bases(calls') = Bases(calls)
      /\ \A k \in 1..Len(calls) :
            DOMAIN calls'[k] = {"base", "out"} /\ calls'[k].base = calls[k].base
  <2>1. CASE calls' = calls
    BY <1>1, <2>1 DEF Inv, CallsOK
  <2>2. ASSUME NEW found, calls' = Emit(found)
        PROVE  /\ IsSeq(calls') /\ Len(calls') = Len(calls) /\ calls' # <<>>
               /\ Bases(calls') = Bases(calls)
               /\ \A k \in 1..Len(calls) :
                     DOMAIN calls'[k] = {"base", "out"} /\ calls'[k].base = calls[k].base
    BY <1>1, <2>2, EmitChanges
  <2> QED BY <2>1, <2>2
<1>3. /\ WithTop(f) \in Seq(FrameSet) /\ Len(WithTop(f)) = Len(frames)
      /\ \A i \in 1..Len(WithTop(f)) : FrameOK(WithTop(f)[i])
      /\ \A i \in 1..(Len(frames) - 1) : WithTop(f)[i] = frames[i]
      /\ Standing(WithTop(f)) = Standing(frames)
  BY <1>1, TopChanges
<1>4. FramesOK'
  BY <1>3 DEF FramesOK, FrameOK, Busy
<1>5. CallsOK'
  BY <1>2, <1>3, WaitingStay
<1> QED BY <1>2, <1>3, <1>4, <1>5 DEF guard

\* A constraint that needs no other shape, one that cannot be evaluated and one
\* that is begun, or skipped.
LEMMA TakenUp ==
    ASSUME Inv, Check \/ Fail \/ Begin
    PROVE  [G!Next]_(G!vars) /\ FramesOK' /\ CallsOK' /\ calls' # <<>>
<1>1. CASE Check
  <2>1. Upcoming(DirectKinds) /\ frames' = WithTop(Advanced)
        /\ \E found : calls' = Emit(found)
        /\ pairs' = pairs /\ seen' = seen /\ depth' = depth /\ failing' = failing
    BY <1>1 DEF Check, guard
  <2>2. /\ Running /\ Advanced \in FrameSet /\ Advanced.id = Top.id /\ Advanced.mark = Top.mark
        /\ FrameOK(Advanced)
    BY <2>1, UpcomingFacts
  <2>3. UNCHANGED guard
    BY <2>1 DEF guard
  <2>4. /\ Standing(frames') = Standing(frames) /\ Bases(calls') = Bases(calls)
        /\ FramesOK' /\ CallsOK' /\ calls' # <<>>
    BY <2>1, <2>2, <2>3, QuietStep
  <2> QED BY <2>1, <2>4 DEF G!vars
<1>2. CASE Fail
  <2>1. Upcoming(DirectKinds) /\ frames' = WithTop(Advanced) /\ failing' = TRUE
        /\ calls' = calls /\ pairs' = pairs /\ seen' = seen /\ depth' = depth
    BY <1>2 DEF Fail, guard
  <2>2. /\ Running /\ Advanced \in FrameSet /\ Advanced.id = Top.id /\ Advanced.mark = Top.mark
        /\ FrameOK(Advanced) /\ ~failing
    BY <2>1, UpcomingFacts
  <2>3. UNCHANGED guard
    BY <2>1 DEF guard
  <2>4. /\ Standing(frames') = Standing(frames) /\ Bases(calls') = Bases(calls)
        /\ FramesOK' /\ CallsOK' /\ calls' # <<>>
    BY <2>1, <2>2, <2>3, QuietStep
  <2>5. G!Fail
    BY <2>1, <2>2, <2>4, SameView DEF G!Fail
  <2> QED BY <2>4, <2>5 DEF G!Next
<1>3. CASE Begin
  <2> DEFINE cur == IF Skipped(Top.id, Def.constraints[Top.next + 1]) THEN Idle ELSE Start
             f == [Advanced EXCEPT !.cur = cur]
  <2>1. Upcoming(Asking) /\ frames' = WithTop(f)
        /\ calls' = calls /\ pairs' = pairs /\ seen' = seen /\ depth' = depth /\ failing' = failing
    BY <1>3 DEF Begin, guard
  <2>2. /\ Running /\ Advanced \in FrameSet /\ Advanced.id = Top.id /\ Advanced.mark = Top.mark
        /\ FrameOK(Advanced) /\ Advanced.next = Top.next + 1
        /\ Top.next + 1 \in 1..Len(Defs[Top.id].constraints)
        /\ Defs[Top.id].constraints[Top.next + 1].kind \in Asking
    BY <2>1, UpcomingFacts
  <2>3. Idle \in Idleness /\ Start \in Idleness /\ Start.row = 1 /\ Start.val = 1
    BY EmptySeq DEF Start, Idle, Idleness
  <2>10. cur = Idle \/ cur = Start
    OBVIOUS
  <2> HIDE DEF cur
  <2>4. /\ f \in FrameSet /\ f.id = Top.id /\ f.mark = Top.mark
        /\ f.next = Top.next + 1 /\ f.rows = Advanced.rows /\ f.cur = cur
    BY <2>2, <2>3, <2>10 DEF FrameSet
  <2> HIDE DEF f
  <2>5. Len(Advanced.rows) \in Nat /\ Advanced.rows # <<>> /\ Len(Advanced.rows) >= 1
    <3>1. Advanced.rows \in Seq(RowSet) /\ Advanced.rows # <<>>
      BY <2>2 DEF FrameSet, FrameOK
    <3> QED BY <3>1, EmptySeq
  <2>6. cur = Start => Busy(f)
    BY <2>2, <2>3, <2>4, <2>5 DEF Busy
  <2>7. FrameOK(f)
    BY <2>2, <2>4, <2>5, <2>6, <2>10 DEF FrameOK
  <2>8. UNCHANGED guard
    BY <2>1 DEF guard
  <2>9. /\ Standing(frames') = Standing(frames) /\ Bases(calls') = Bases(calls)
        /\ FramesOK' /\ CallsOK' /\ calls' # <<>>
    BY <2>1, <2>2, <2>4, <2>7, <2>8, QuietStep
  <2> QED BY <2>1, <2>9 DEF G!vars
<1> QED BY <1>1, <1>2, <1>3

\* Where the top frame stands in the constraint it asks about.
LEMMA AskedFacts ==
    ASSUME Inv, Asked
    PROVE  /\ Running /\ ~failing /\ calls # <<>>
           /\ Top \in FrameSet /\ FrameOK(Top) /\ Busy(Top)
           /\ Top.cur \in Idleness /\ Top.rows \in Seq(RowSet) /\ Top.id \in Shapes
           /\ Top.next \in 1..Len(Defs[Top.id].constraints)
           /\ Constraint = Defs[Top.id].constraints[Top.next]
           /\ Constraint.kind \in Asking /\ ConstraintOK(Constraint)
           /\ Named(Constraint) \subseteq Refs[Top.id] /\ Refs[Top.id] \subseteq Shapes
           /\ Row \in RowSet
           /\ InRow => Value \in Nodes
<1>1. Running /\ ~failing /\ Top.cur # Idle
  BY DEF Asked
<1>2. Top \in FrameSet /\ FrameOK(Top) /\ calls # <<>>
  BY <1>1, RunningFacts
<1>3. Busy(Top)
  BY <1>1, <1>2 DEF FrameOK
<1>4. Top.cur \in Idleness /\ Top.rows \in Seq(RowSet) /\ Top.id \in Shapes
  BY <1>2 DEF FrameSet
<1>5. /\ Top.next \in 1..Len(Defs[Top.id].constraints)
      /\ Constraint = Defs[Top.id].constraints[Top.next]
      /\ Constraint.kind \in Asking
  BY <1>3 DEF Busy, Constraint, Def
<1>6. /\ ConstraintOK(Constraint)
      /\ Named(Constraint) \subseteq Refs[Top.id] /\ Refs[Top.id] \subseteq Shapes
  BY <1>4, <1>5, NamedIsReferred
<1>7. Row \in RowSet
  <2>1. Top.cur.row \in 1..Len(Top.rows)
    BY <1>3 DEF Busy
  <2> QED BY <1>4, <2>1, ElementOfSeq DEF Row
<1>8. ASSUME InRow
      PROVE  Value \in Nodes
  <2>1. Row.values \in Seq(Nodes)
    BY <1>7 DEF RowSet
  <2>2. Top.cur.val \in Nat /\ Top.cur.val >= 1 /\ Top.cur.val <= Len(Row.values)
    BY <1>3, <1>4, <1>8 DEF Busy, InRow, Idleness
  <2>3. Top.cur.val \in 1..Len(Row.values)
    BY <2>1, <2>2, EmptySeq
  <2> QED BY <2>1, <2>3, ElementOfSeq DEF Value
<1> QED BY <1>1, <1>2, <1>3, <1>4, <1>5, <1>6, <1>7, <1>8

\* Where the shapes to ask cannot be found the error is all there is.
LEMMA NoQuestionsStep ==
    ASSUME Inv, NoQuestions
    PROVE  G!Next /\ FramesOK' /\ CallsOK' /\ calls' = calls /\ calls # <<>>
<1>1. Running /\ ~failing /\ calls # <<>>
  BY AskedFacts DEF NoQuestions
<1>2. /\ failing' = TRUE /\ frames' = frames /\ calls' = calls
      /\ pairs' = pairs /\ seen' = seen /\ depth' = depth
  BY DEF NoQuestions, guard
<1>3. G!Fail
  BY <1>1, <1>2, SameView DEF G!Fail
<1>4. G!Next
  BY <1>3 DEF G!Next
<1>5. FramesOK' /\ CallsOK'
  BY <1>2 DEF Inv, FramesOK, FrameOK, CallsOK, IsSeq, Busy
<1> QED BY <1>1, <1>2, <1>4, <1>5

\* The next question is a call for a shape that the constraint names.
LEMMA AskNamed ==
    ASSUME Inv, Ask
    PROVE  \E s \in Named(Constraint), focus \in Seq(Nodes) : Call(s, focus, <<>>)
<1> DEFINE i == Len(Top.cur.ans) + 1
           q == Pending[i]
<1>1. /\ Asked /\ InRow /\ Expressible(Constraint, Value)
      /\ Len(Top.cur.ans) < Len(Pending) /\ Call(q.shape, q.focus, <<>>)
  BY DEF Ask, Open
<1>2. /\ Top.cur \in Idleness /\ ConstraintOK(Constraint) /\ Constraint.kind \in Asking
      /\ Value \in Nodes
  BY <1>1, AskedFacts
<1>3. Pending \in Seq([shape: Named(Constraint), focus: Seq(Nodes)])
  BY <1>1, <1>2, InputFacts, QuestionsOverNodes DEF Pending
<1>4. i \in 1..Len(Pending)
  <2>1. Len(Top.cur.ans) \in Nat
    BY <1>2, EmptySeq DEF Idleness
  <2>2. Len(Pending) \in Nat
    BY <1>3, EmptySeq
  <2> QED BY <1>1, <2>1, <2>2
<1>5. q \in [shape: Named(Constraint), focus: Seq(Nodes)]
  BY <1>3, <1>4, ElementOfSeq
<1>6. q.shape \in Named(Constraint) /\ q.focus \in Seq(Nodes)
  BY <1>5
<1> HIDE DEF q
<1> QED BY <1>1, <1>6

\* To the guard, a question is a call for a shape the one on top refers to.
LEMMA AskStep ==
    ASSUME Inv, Ask
    PROVE  /\ G!Next /\ FramesOK' /\ CallsOK'
           /\ G!Refuse \/ \E s \in Named(Constraint) :
                             G!Falter(s) \/ \E kept \in Seq(Nodes) : G!Enter(s, kept)
           /\ failing' => calls' # <<>>
           /\ calls # <<>> /\ calls' # <<>>
<1>1. /\ Running /\ ~failing /\ calls # <<>> /\ Busy(Top)
      /\ Named(Constraint) \subseteq Refs[Top.id] /\ Refs[Top.id] \subseteq Shapes
  BY AskedFacts DEF Ask
<1>2. PICK s \in Named(Constraint), focus \in Seq(Nodes) : Call(s, focus, <<>>)
  BY AskNamed
<1>3. s \in Refs[Top.id] /\ s \in Shapes
  BY <1>1
<1>4. /\ G!Next /\ FramesOK' /\ CallsOK'
      /\ G!Refuse \/ G!Falter(s) \/ \E kept \in Seq(Nodes) : G!Enter(s, kept)
      /\ failing' => calls' # <<>>
      /\ calls' = <<>> => calls = <<>>
  BY <1>1, <1>2, <1>3, CallStep
<1> QED BY <1>1, <1>4

\* A value is judged, or a row closed: only the top frame and its buffer move.
LEMMA JudgeStep ==
    ASSUME Inv, Judge \/ CloseRow
    PROVE  UNCHANGED G!vars /\ FramesOK' /\ CallsOK' /\ calls' # <<>>
<1>1. Asked /\ UNCHANGED guard /\ failing' = failing
  BY DEF Judge, CloseRow
<1>2. /\ Running /\ Top \in FrameSet /\ FrameOK(Top) /\ Busy(Top)
      /\ Top.cur \in Idleness /\ Top.rows \in Seq(RowSet)
  BY <1>1, AskedFacts
<1>3. ASSUME NEW f, f \in FrameSet, f.id = Top.id, f.mark = Top.mark, FrameOK(f),
             frames' = WithTop(f), \E found : calls' = Emit(found)
      PROVE  UNCHANGED G!vars /\ FramesOK' /\ CallsOK' /\ calls' # <<>>
  <2>1. /\ Standing(frames') = Standing(frames) /\ Bases(calls') = Bases(calls)
        /\ pairs' = pairs /\ seen' = seen /\ depth' = depth
        /\ FramesOK' /\ CallsOK' /\ calls' # <<>>
    BY <1>1, <1>2, <1>3, QuietStep
  <2> QED BY <1>1, <2>1 DEF G!vars
<1>4. ASSUME NEW cur, cur \in Idleness,
             cur = Idle \/ (cur.row \in 1..Len(Top.rows) /\ cur.val >= 1)
      PROVE  LET f == [Top EXCEPT !.cur = cur]
             IN  f \in FrameSet /\ f.id = Top.id /\ f.mark = Top.mark /\ FrameOK(f)
  <2> DEFINE f == [Top EXCEPT !.cur = cur]
  <2>1. /\ f \in FrameSet /\ f.id = Top.id /\ f.mark = Top.mark
        /\ f.next = Top.next /\ f.rows = Top.rows /\ f.cur = cur
    BY <1>2, <1>4 DEF FrameSet
  <2> HIDE DEF f
  <2>2. FrameOK(f)
    BY <1>2, <1>4, <2>1 DEF FrameOK, Busy
  <2> QED BY <2>1, <2>2 DEF f
<1>5. CASE Judge
  <2>1. PICK val, n :
           /\ val = Len(Row.values) + 1 \/ val = Top.cur.val + 1
           /\ n = Top.cur.n \/ n = Top.cur.n + 1
           /\ frames' = WithTop([Top EXCEPT !.cur = [row |-> Top.cur.row, val |-> val,
                                                     ans |-> <<>>, n |-> n]])
    BY <1>5 DEF Judge
  <2> DEFINE cur == [row |-> Top.cur.row, val |-> val, ans |-> <<>>, n |-> n]
  <2>3. val \in Nat /\ val >= 1 /\ n \in Nat
    <3>1. Len(Row.values) \in Nat
      BY <1>1, AskedFacts, EmptySeq DEF RowSet
    <3>2. Top.cur.val \in Nat /\ Top.cur.n \in Nat
      BY <1>2 DEF Idleness
    <3>3. n \in Nat
      BY <2>1, <3>2
    <3>4. CASE val = Len(Row.values) + 1
      BY <3>1, <3>3, <3>4
    <3>5. CASE val = Top.cur.val + 1
      BY <3>2, <3>3, <3>5
    <3> QED BY <2>1, <3>4, <3>5
  <2>4. cur \in Idleness /\ cur.row \in 1..Len(Top.rows) /\ cur.val >= 1
    BY <1>2, <2>3, EmptySeq DEF Idleness, Busy
  <2>5. \E found : calls' = Emit(found)
    BY <1>5 DEF Judge
  <2>6. frames' = WithTop([Top EXCEPT !.cur = cur])
    BY <2>1
  <2> HIDE DEF cur
  <2> QED BY <1>3, <1>4, <2>4, <2>5, <2>6
<1>6. CASE CloseRow
  <2> DEFINE cur == IF Top.cur.row < Len(Top.rows) THEN [Start EXCEPT !.row = Top.cur.row + 1]
                    ELSE Idle
  <2>1. frames' = WithTop([Top EXCEPT !.cur = cur]) /\ \E found : calls' = Emit(found)
    BY <1>6 DEF CloseRow
  <2>2. cur \in Idleness /\ (cur = Idle \/ (cur.row \in 1..Len(Top.rows) /\ cur.val >= 1))
    <3>1. Idle \in Idleness /\ Start \in Idleness /\ Start.val = 1
      BY EmptySeq DEF Start, Idle, Idleness
    <3>2. CASE Top.cur.row < Len(Top.rows)
      <4>1. cur = [Start EXCEPT !.row = Top.cur.row + 1]
        BY <3>2
      <4>2. Top.cur.row \in Nat /\ Len(Top.rows) \in Nat
        BY <1>2, EmptySeq DEF Idleness
      <4>3. Top.cur.row + 1 \in 1..Len(Top.rows) /\ Top.cur.row + 1 \in Nat
        BY <3>2, <4>2
      <4> HIDE DEF cur
      <4>4. cur \in Idleness /\ cur.row = Top.cur.row + 1 /\ cur.val = 1
        BY <3>1, <4>1, <4>3 DEF Idleness
      <4> QED BY <4>3, <4>4
    <3>3. CASE ~(Top.cur.row < Len(Top.rows))
      BY <3>1, <3>3
    <3> QED BY <3>2, <3>3
  <2> HIDE DEF cur
  <2> QED BY <1>3, <1>4, <2>1, <2>2
<1> QED BY <1>5, <1>6

\* The top frame is popped, done or dropped.
LEMMA LeaveStep ==
    ASSUME Inv, FrameDone \/ Drop
    PROVE  G!Next /\ FramesOK' /\ CallsOK' /\ calls # <<>> /\ calls' = calls /\ failing' = failing
<1>1. /\ Running /\ PopFrame /\ calls' = calls /\ depth' = depth /\ failing' = failing
  BY DEF FrameDone, Drop, Between
<1>2. /\ G!PopFrame /\ FramesOK'
      /\ \A i \in 1..(Len(frames) - 1) : frames'[i] = frames[i]
  BY <1>1, PopStep
<1>3. G!Leave
  BY <1>1, <1>2, SameView DEF G!Leave
<1>4. CallsOK'
  <2>1. IsSeq(calls') /\ Len(calls') = Len(calls)
        /\ \A k \in 1..Len(calls) :
              DOMAIN calls'[k] = {"base", "out"} /\ calls'[k].base = calls[k].base
    BY <1>1 DEF Inv, CallsOK
  <2> QED BY <1>1, <1>2, <2>1, WaitingStay
<1> QED BY <1>1, <1>2, <1>3, <1>4, RunningFacts DEF G!Next

-----------------------------------------------------------------------------
(* The end of a call. *)

\* A call that returns to another returns to the frame that waits for it; the
\* only other call that returns is the one the driver made.
LEMMA ReturningFacts ==
    ASSUME Inv, Returning
    PROVE  /\ calls # <<>> /\ Len(calls) \in Nat \ {0}
           /\ \A k \in 1..(Len(calls) - 1) : calls[k].base <= Len(frames) - 1
           /\ frames # <<>> => Top \in FrameSet /\ FrameOK(Top) /\ Busy(Top) /\ Len(calls) > 1
           /\ frames = <<>> => Len(calls) = 1
<1> DEFINE n == Len(calls)
<1>1. /\ calls # <<>> /\ Len(frames) = Last(calls).base
      /\ n \in 1..n /\ Last(calls) = calls[n]
  BY Facts DEF Returning
<1>2. /\ Len(frames) \in Nat /\ frames \in Seq(FrameSet) /\ n \in Nat
      /\ \A k \in 1..n : calls[k].base \in Nat
      /\ \A k \in 1..n : k < n => calls[k].base < calls[n].base
      /\ calls[1].base = 0
      /\ \A k \in 2..n : calls[k].base >= 1 /\ Busy(frames[calls[k].base])
  BY <1>1, Facts DEF Inv, CallsOK
<1> HIDE DEF n
<1>3. \A k \in 1..(n - 1) : calls[k].base <= Len(frames) - 1
  <2> TAKE k \in 1..(n - 1)
  <2>1. k \in 1..n /\ k < n
    BY <1>2
  <2> QED BY <1>1, <1>2, <2>1
<1>4. ASSUME frames # <<>>
      PROVE  Top \in FrameSet /\ FrameOK(Top) /\ Busy(Top) /\ n > 1
  <2>1. /\ Top \in FrameSet /\ FrameOK(Top)
        /\ Top = frames[Len(frames)] /\ Len(frames) \in 1..Len(frames)
    BY <1>4, Facts
  <2>2. n # 1
    BY <1>1, <1>2, <2>1
  <2>3. n > 1 /\ n \in 2..n
    BY <1>1, <1>2, <2>2
  <2>4. Busy(frames[calls[n].base])
    BY <1>2, <2>3
  <2> QED BY <1>1, <2>1, <2>3, <2>4
<1>5. ASSUME frames = <<>>
      PROVE  n = 1
  <2>1. calls[n].base = 0
    BY <1>1, <1>5, EmptySeq
  <2>2. n \notin 2..n
    BY <1>2, <2>1
  <2> QED BY <1>1, <1>2, <2>2
<1> QED BY <1>1, <1>2, <1>3, <1>4, <1>5 DEF n

\* One call fewer.
LEMMA CallsReturn ==
    ASSUME Inv, Returning, calls' = Front(calls)
    PROVE  /\ IsSeq(calls') /\ Len(calls') = Len(calls) - 1
           /\ \A k \in 1..(Len(calls) - 1) : calls'[k] = calls[k]
           /\ Bases(calls') = SubSeq(Bases(calls), 1, Len(Bases(calls)) - 1)
           /\ calls' = <<>> <=> Len(calls) = 1
<1> DEFINE S == ToSet(calls)
           n == Len(calls)
<1>1. /\ calls \in Seq(S) /\ calls # <<>> /\ n \in Nat \ {0}
      /\ \A k \in 1..n : calls[k].base \in Nat
  BY Facts, ReturningFacts
<1> HIDE DEF S
<1>2. /\ calls' \in Seq(S) /\ Len(calls') = n - 1
      /\ \A k \in 1..(n - 1) : calls'[k] = calls[k]
  BY <1>1, FrontOf
<1>3. Bases(calls') = SubSeq(Bases(calls), 1, Len(Bases(calls)) - 1)
  BY <1>1, BasesFront
<1>4. IsSeq(calls')
  BY <1>2, SeqIsSeq
<1>5. calls' = <<>> <=> n = 1
  BY <1>1, <1>2, EmptySeq
<1> QED BY <1>2, <1>3, <1>4, <1>5

\* The caller takes the answer, or the error goes on: the guard's own return.
LEMMA ReturnStep ==
    ASSUME Inv, Return
    PROVE  /\ G!Next /\ FramesOK' /\ CallsOK'
           /\ failing' => calls' # <<>>
<1> DEFINE n == Len(calls)
<1>1. /\ Returning /\ calls' = Front(calls) /\ depth' = depth - 1
      /\ pairs' = pairs /\ seen' = seen
      /\ failing => Throw
      /\ ~failing => failing' = failing /\ \E conforms \in BOOLEAN : Answer(conforms)
  BY DEF Return
<1>2. /\ n \in Nat \ {0}
      /\ \A k \in 1..(n - 1) : calls[k].base <= Len(frames) - 1
      /\ frames # <<>> => Top \in FrameSet /\ FrameOK(Top) /\ Busy(Top) /\ Len(calls) > 1
      /\ frames = <<>> => n = 1
  BY <1>1, ReturningFacts
<1>3. /\ IsSeq(calls') /\ Len(calls') = n - 1
      /\ \A k \in 1..(n - 1) : calls'[k] = calls[k]
      /\ Bases(calls') = SubSeq(Bases(calls), 1, Len(Bases(calls)) - 1)
      /\ calls' = <<>> <=> n = 1
  BY <1>1, CallsReturn
<1>4. frames' = frames \/ (frames # <<>> /\ \E conforms \in BOOLEAN :
                              frames' = WithTop([Top EXCEPT !.cur.ans = Append(@, conforms)]))
  <2>1. CASE failing
    BY <1>1, <2>1 DEF Throw
  <2>2. CASE ~failing
    <3>1. PICK conforms \in BOOLEAN : Answer(conforms)
      BY <1>1, <2>2
    <3> QED BY <3>1 DEF Answer
  <2> QED BY <2>1, <2>2
<1>5. /\ Standing(frames') = Standing(frames) /\ FramesOK'
      /\ \A i \in 1..(Len(frames) - 1) : frames'[i] = frames[i]
  <2>1. CASE frames' = frames
    BY <2>1 DEF Inv, FramesOK, FrameOK, Busy
  <2>2. ASSUME frames # <<>>, NEW conforms \in BOOLEAN,
               frames' = WithTop([Top EXCEPT !.cur.ans = Append(@, conforms)])
        PROVE  /\ Standing(frames') = Standing(frames) /\ FramesOK'
               /\ \A i \in 1..(Len(frames) - 1) : frames'[i] = frames[i]
    <3> DEFINE at == Top.cur
               cur == [at EXCEPT !.ans = Append(@, conforms)]
               f == [Top EXCEPT !.cur = cur]
    <3>1. Top \in FrameSet /\ Busy(Top) /\ FrameOK(Top) /\ at \in Idleness
      BY <1>2, <2>2 DEF FrameSet
    <3>2. [Top EXCEPT !.cur.ans = Append(@, conforms)] = f
      BY <3>1 DEF FrameSet
    <3>3. Append(at.ans, conforms) \in Seq(BOOLEAN)
      BY <3>1, AppendProperties DEF Idleness
    <3>4. cur \in Idleness /\ cur.row = at.row /\ cur.val = at.val
      <4> HIDE DEF at
      <4> QED BY <3>1, <3>3 DEF Idleness
    <3> HIDE DEF cur
    <3>5. /\ f \in FrameSet /\ f.id = Top.id /\ f.mark = Top.mark
          /\ f.next = Top.next /\ f.rows = Top.rows /\ f.cur = cur
      BY <3>1, <3>4 DEF FrameSet
    <3> HIDE DEF f
    <3>6. FrameOK(f)
      BY <3>1, <3>4, <3>5 DEF FrameOK, Busy
    <3>7. frames' = WithTop(f)
      BY <2>2, <3>2
    <3>8. /\ WithTop(f) \in Seq(FrameSet)
          /\ \A i \in 1..Len(WithTop(f)) : FrameOK(WithTop(f)[i])
          /\ \A i \in 1..(Len(frames) - 1) : WithTop(f)[i] = frames[i]
          /\ Standing(WithTop(f)) = Standing(frames)
      BY <2>2, <3>5, <3>6, TopChanges
    <3>9. FramesOK'
      BY <3>7, <3>8 DEF FramesOK, FrameOK, Busy
    <3> QED BY <3>7, <3>8, <3>9
  <2> QED BY <1>4, <2>1, <2>2
<1>6. failing' = (failing /\ Len(Bases(calls)) > 1)
  <2>1. Len(Bases(calls)) = n
    BY SameView
  <2>2. CASE failing
    <3>1. failing' = (n > 1)
      BY <1>1, <2>2 DEF Throw
    <3>2. failing = TRUE
      BY <2>2, Facts
    <3> QED BY <2>1, <3>1, <3>2
  <2>3. CASE ~failing
    <3>1. failing' = FALSE /\ failing = FALSE
      BY <1>1, <2>3, Facts
    <3> QED BY <3>1
  <2> QED BY <2>2, <2>3
<1>7. G!Return
  BY <1>1, <1>3, <1>5, <1>6, SameView DEF G!Return
<1>8. CallsOK'
  <2> HIDE DEF n
  <2>1. ASSUME NEW k \in 1..(n - 1)
        PROVE  DOMAIN calls'[k] = {"base", "out"}
    <3>1. k \in 1..n
      BY <1>2
    <3> QED BY <1>3, <3>1 DEF Inv, CallsOK, n
  <2>2. ASSUME NEW k \in 2..(n - 1)
        PROVE  Busy(frames'[calls'[k].base])
    <3>1. k \in 1..(n - 1) /\ k \in 2..Len(calls) /\ k \in 1..Len(calls)
      BY <1>2 DEF n
    <3>2. Busy(frames[calls[k].base]) /\ calls[k].base >= 1 /\ calls[k].base \in Nat
      BY <3>1, Facts DEF Inv, CallsOK
    <3>3. calls[k].base \in 1..(Len(frames) - 1)
      <4>1. Len(frames) \in Nat
        BY Facts
      <4> QED BY <1>2, <3>1, <3>2, <4>1
    <3> QED BY <1>3, <1>5, <3>1, <3>2, <3>3
  <2> QED BY <1>3, <2>1, <2>2 DEF CallsOK, IsSeq, Busy
<1>9. failing' => calls' # <<>>
  <2>1. Len(Bases(calls)) = n
    BY SameView
  <2>2. CASE failing'
    <3>1. n > 1
      BY <1>6, <2>1, <2>2
    <3> QED BY <1>2, <1>3, <3>1
  <2> QED BY <2>2
<1> QED BY <1>5, <1>7, <1>8, <1>9 DEF G!Next

-----------------------------------------------------------------------------
(* The driver's work: over shapes of the graph and nodes of the data. *)

JobSet == [shape: in.graph, nodes: SUBSET Nodes]
AskSet == [shape: in.graph, node: Nodes]

\* The members of a finite set, as a sequence.
LEMMA SetToSeqIs ==
    ASSUME NEW S, IsFiniteSet(S)
    PROVE  SetToSeq(S) \in Seq(S)
<1> DEFINE n == Cardinality(S)
           fits(f) == f \in [1..n -> S] /\ IsInjective(f)
           pick == CHOOSE f \in [1..n -> S] : IsInjective(f)
<1>1. n \in Nat /\ ExistsBijection(1..n, S)
  BY FS_CardinalityType
<1>2. \E f : fits(f)
  BY <1>1 DEF ExistsBijection, Bijection, Injection, IsInjective
<1>3. pick = CHOOSE f : fits(f)
  OBVIOUS
<1> HIDE DEF pick
<1>4. fits(pick)
  <2> HIDE DEF fits
  <2> QED BY <1>2, <1>3
<1>5. pick \in Seq(S)
  <2> HIDE DEF n
  <2> QED BY <1>1, <1>4, FunctionIsSeq
<1> QED BY <1>5 DEF SetToSeq, pick

\* The candidates of a shape's sh:targetWhere.
LEMMA CandidatesOK ==
    ASSUME InputOK(in), in.graph \subseteq Shapes, NEW s \in in.graph,
           NEW S, Defs[s].where \subseteq S
    PROVE  Candidates(s) \in Seq([shape: S, node: Nodes])
<1> DEFINE Asks == [shape: S, node: Nodes]
           all == Sorted(in.data.all)
           where == SetToSeq(Defs[s].where)
           for(t) == [i \in 1..Len(all) |-> [shape |-> t, node |-> all[i]]]
           each == [i \in 1..Len(where) |-> for(where[i])]
<1>1. all \in Seq(Nodes) /\ Len(all) \in Nat /\ \A i \in 1..Len(all) : all[i] \in Nodes
  <2>1. all \in Seq(Nodes)
    BY SortedNodes DEF InputOK, DataOK
  <2> QED BY <2>1, EmptySeq, ElementOfSeq
<1>2. where \in Seq(S) /\ Len(where) \in Nat /\ \A i \in 1..Len(where) : where[i] \in S
  <2>1. Defs[s].where \subseteq S /\ IsFiniteSet(Defs[s].where)
    <3>1. Defs[s].where \subseteq Shapes
      BY WellFormed
    <3> QED BY <3>1, DefsAssumption, FS_Subset
  <2>2. where \in Seq(Defs[s].where)
    BY <2>1, SetToSeqIs
  <2>3. where \in Seq(S)
    BY <2>1, <2>2, SeqMonotonic
  <2> QED BY <2>3, EmptySeq, ElementOfSeq
<1> HIDE DEF all, where
<1>3. ASSUME NEW t \in S
      PROVE  for(t) \in Seq(Asks)
  <2>1. for(t) \in [1..Len(all) -> Asks]
    BY <1>1
  <2> HIDE DEF for
  <2> QED BY <1>1, <2>1, FunctionIsSeq
<1>4. each \in [1..Len(where) -> Seq(Asks)]
  <2> HIDE DEF for
  <2> QED BY <1>2, <1>3
<1> HIDE DEF each
<1>5. each \in Seq(Seq(Asks))
  BY <1>2, <1>4, FunctionIsSeq
<1>6. FlattenSeq(each) \in Seq(Asks)
  BY <1>5, FlattenMembers
<1>7. Candidates(s) = FlattenSeq(each)
  BY DEF Candidates, each, where, all
<1> QED BY <1>6, <1>7

\* The shapes whose focus nodes are given.
LEMMA GivenOK ==
    ASSUME InputOK(in)
    PROVE  Given \in Seq(JobSet)
<1> DEFINE places == {i \in DOMAIN in.work : \A j \in 1..(i - 1) : in.work[j][1] # in.work[i][1]}
           firsts == Sorted(places)
           job(i) == [shape |-> in.work[firsts[i]][1],
                      nodes |-> {w[2] : w \in {w \in ToSet(in.work) :
                                                  w[1] = in.work[firsts[i]][1]}}]
           named == [i \in DOMAIN in.byNode |-> [shape |-> in.byNode[i].shape,
                                                 nodes |-> {in.byNode[i].node}]]
<1>1. /\ in.work \in Seq(in.graph \X Nodes)
      /\ in.byNode \in Seq([node: Nodes, shape: in.graph])
  BY DEF InputOK
<1>2. /\ DOMAIN in.work = 1..Len(in.work) /\ Len(in.work) \in Nat
      /\ \A i \in DOMAIN in.work : in.work[i] \in in.graph \X Nodes
      /\ ToSet(in.work) \subseteq in.graph \X Nodes
  BY <1>1, LenProperties, ElementOfSeq, MembersOfSeq
<1>3. places \in SUBSET Nat /\ IsFiniteSet(places) /\ places \subseteq DOMAIN in.work
  <2>1. IsFiniteSet(1..Len(in.work)) /\ 1..Len(in.work) \subseteq Nat
    <3>1. 1 \in Int /\ Len(in.work) \in Int /\ 1..Len(in.work) \subseteq Nat
      BY <1>2
    <3> QED BY <3>1, FS_Interval
  <2>2. places \subseteq 1..Len(in.work)
    BY <1>2
  <2> QED BY <1>2, <2>1, <2>2, FS_Subset
<1>4. /\ firsts \in Seq(places) /\ DOMAIN firsts = 1..Len(firsts) /\ Len(firsts) \in Nat
      /\ \A i \in DOMAIN firsts : firsts[i] \in DOMAIN in.work
  <2>1. firsts \in Seq(places)
    BY <1>3, SortedIs
  <2>2. \A i \in 1..Len(firsts) : firsts[i] \in places
    BY <2>1, ElementOfSeq
  <2>3. DOMAIN firsts = 1..Len(firsts) /\ Len(firsts) \in Nat
    BY <2>1, LenProperties
  <2> HIDE DEF firsts, places
  <2> QED BY <1>3, <2>1, <2>2, <2>3
<1> HIDE DEF firsts
<1>5. ASSUME NEW i \in DOMAIN firsts
      PROVE  job(i) \in JobSet
  <2>1. firsts[i] \in DOMAIN in.work
    BY <1>4
  <2>2. in.work[firsts[i]][1] \in in.graph
    BY <1>2, <2>1
  <2>3. {w[2] : w \in {w \in ToSet(in.work) : w[1] = in.work[firsts[i]][1]}} \subseteq Nodes
    BY <1>2
  <2> QED BY <2>2, <2>3 DEF JobSet
<1>6. Grouped \in Seq(JobSet)
  <2>1. Grouped = [i \in DOMAIN firsts |-> job(i)]
    BY DEF Grouped, firsts
  <2> HIDE DEF job
  <2>2. Grouped \in [1..Len(firsts) -> JobSet]
    BY <1>4, <1>5, <2>1
  <2> QED BY <1>4, <2>2, FunctionIsSeq
<1>7. named \in Seq(JobSet)
  <2>1. DOMAIN in.byNode = 1..Len(in.byNode) /\ Len(in.byNode) \in Nat
        /\ \A i \in DOMAIN in.byNode : in.byNode[i] \in [node: Nodes, shape: in.graph]
    BY <1>1, LenProperties, ElementOfSeq
  <2>2. \A i \in DOMAIN in.byNode :
            [shape |-> in.byNode[i].shape, nodes |-> {in.byNode[i].node}] \in JobSet
    BY <2>1 DEF JobSet
  <2>3. named \in [1..Len(in.byNode) -> JobSet]
    BY <2>1, <2>2
  <2> HIDE DEF named
  <2> QED BY <2>1, <2>3, FunctionIsSeq
<1>8. Given = Grouped \o named
  BY DEF Given
<1> HIDE DEF named
<1> QED BY <1>6, <1>7, <1>8, ConcatProperties

\* A run starts with every count at zero.
LEMMA InitInv == Init => Inv /\ G!Init
<1> SUFFICES ASSUME Init PROVE Inv /\ G!Init
  OBVIOUS
<1>1. /\ in \in Inputs /\ pc = "next" /\ pieces = <<>> /\ asks = <<>> /\ calls = <<>>
      /\ frames = <<>> /\ pairs = <<>> /\ seen = {} /\ depth = 0 /\ failing = FALSE
      /\ jobs = [i \in DOMAIN in.roots |-> Job(in.roots[i])] \o Given
  BY DEF Init
<1>2. InputOK(in) /\ in.graph \subseteq Shapes
  BY <1>1, InputsAssumption DEF InputOK
<1>3. G!Init
  <2>1. Len(<<>>) = 0
    BY EmptySeq
  <2>2. Standing(<<>>) = <<>> /\ Bases(<<>>) = <<>>
    <3>1. <<>> \in Seq(FrameSet) /\ <<>> \in Seq({})
      BY EmptySeq
    <3>2. Standing(<<>>) = <<>>
      BY <3>1, StandingIs
    <3>3. \A i \in 1..Len(<<>>) : <<>>[i].base \in Nat
      BY <2>1
    <3>4. Bases(<<>>) = <<>>
      BY <3>1, <3>3, BasesIs
    <3> QED BY <3>2, <3>4
  <2> QED BY <1>1, <2>2 DEF G!Init
<1>4. G!IInv
  BY <1>3, GuardAssumptions, G!InitIInv
<1>5. FramesOK /\ CallsOK
  <2>1. Len(<<>>) = 0 /\ <<>> \in Seq(FrameSet) /\ <<>> \in Seq(ToSet(<<>>))
    BY EmptySeq
  <2> QED BY <1>1, <2>1 DEF FramesOK, CallsOK, IsSeq
<1>6. jobs \in Seq(JobSet)
  <2> DEFINE firsts == [i \in DOMAIN in.roots |-> Job(in.roots[i])]
  <2>1. in.roots \in Seq(in.graph)
    BY <1>2 DEF InputOK
  <2>2. DOMAIN in.roots = 1..Len(in.roots) /\ Len(in.roots) \in Nat
        /\ \A i \in DOMAIN in.roots : in.roots[i] \in in.graph
    BY <2>1, LenProperties, ElementOfSeq
  <2>3. \A s \in in.graph : Job(s) \in JobSet
    BY <1>2, WellFormed DEF Job, JobSet
  <2>4. firsts \in [1..Len(in.roots) -> JobSet]
    BY <2>2, <2>3
  <2> HIDE DEF firsts
  <2>5. firsts \in Seq(JobSet)
    BY <2>2, <2>4, FunctionIsSeq
  <2>6. jobs = firsts \o Given
    BY <1>1 DEF firsts
  <2> QED BY <1>2, <2>5, <2>6, GivenOK, ConcatProperties
<1>7. DriverOK
  <2>1. IsSeq(<<>>) /\ DOMAIN <<>> = {} /\ <<>> \in Seq(AskSet)
    BY EmptySeq DEF IsSeq
  <2> QED BY <1>1, <1>6, <2>1 DEF DriverOK, JobSet, AskSet
<1> QED BY <1>3, <1>4, <1>5, <1>7 DEF Inv

-----------------------------------------------------------------------------
(* The parallel split. *)

\* The focus sets of some shapes that wait to be validated.
WaitSet(S) == [shape: S, focus: Seq(Nodes), state: {"waiting"}, out: {<<>>}]

\* The driver's pieces, as facts.
LEMMA PiecesFacts ==
    ASSUME DriverOK
    PROVE  /\ DOMAIN pieces = 1..Len(pieces) /\ Len(pieces) \in Nat
           /\ \A i \in DOMAIN pieces :
                 pieces[i].shape \in in.graph /\ pieces[i].focus \in Seq(Nodes)
           /\ [i \in DOMAIN pieces |-> pieces[i].focus] \in Seq(Seq(Nodes))
           /\ Total \in Nat
<1> DEFINE each == [i \in DOMAIN pieces |-> pieces[i].focus]
<1>1. DOMAIN pieces = 1..Len(pieces) /\ Len(pieces) \in Nat
  BY LenProperties DEF DriverOK, IsSeq
<1>2. \A i \in DOMAIN pieces : pieces[i].shape \in in.graph /\ pieces[i].focus \in Seq(Nodes)
  BY DEF DriverOK, PieceOK
<1>3. each \in [1..Len(pieces) -> Seq(Nodes)]
  BY <1>1, <1>2
<1>4. Total = Len(FlattenSeq(each))
  BY DEF Total
<1>5. each \in Seq(Seq(Nodes))
  <2> HIDE DEF each
  <2> QED BY <1>1, <1>3, FunctionIsSeq
<1>6. Total \in Nat
  <2>1. FlattenSeq(each) \in Seq(Nodes)
    <3> HIDE DEF each
    <3> QED BY <1>5, FlattenMembers
  <2> HIDE DEF each
  <2> QED BY <1>4, <2>1, EmptySeq
<1> QED BY <1>1, <1>2, <1>5, <1>6

\* The size of a slice: at least one focus node, when there is one at all.
LEMMA PerTaskIs ==
    ASSUME Inv, Total >= MinFocus
    PROVE  PerTask \in Nat \ {0}
<1>1. Total \in Nat /\ in.threads \in Nat \ {0} /\ MinFocus \in Nat \ {0}
  BY PiecesFacts, InputFacts, FocusAssumption DEF Inv, InputOK
<1>2. ASSUME NEW t \in Nat \ {0}, NEW h \in Nat \ {0}
      PROVE  (t + h - 1) \div h \in Nat \ {0}
  <2>1. t + h - 1 \in Nat /\ t + h - 1 >= h
    OBVIOUS
  <2> DEFINE a == t + h - 1
  <2> HIDE DEF a
  <2>2. a \in Nat /\ a >= h
    BY <2>1 DEF a
  <2>3. a \div h \in Int /\ a % h \in 0..(h - 1) /\ a = h * (a \div h) + (a % h)
    BY <2>2
  <2>4. a \div h >= 1
    BY <2>2, <2>3
  <2> QED BY <2>3, <2>4 DEF a
<1> QED BY <1>1, <1>2 DEF PerTask

\* The slices of a focus set.
LEMMA ChunksOK ==
    ASSUME Inv, Total >= MinFocus, NEW i \in DOMAIN pieces, NEW S, pieces[i].shape \in S
    PROVE  Chunks(pieces[i]) \in Seq(WaitSet(S))
<1> DEFINE focus == pieces[i].focus
           s == pieces[i].shape
           n == Len(focus)
           per == PerTask
           count == (n + per - 1) \div per
           last(k) == IF k * per < n THEN k * per ELSE n
           slice(k) == SubSeq(focus, (k - 1) * per + 1, last(k))
           chunks == [k \in 1..count |-> Piece(s, slice(k))]
<1>1. focus \in Seq(Nodes) /\ s \in S /\ n \in Nat /\ \A k \in 1..n : focus[k] \in Nodes
  <2>1. focus \in Seq(Nodes) /\ s \in S
    BY PiecesFacts DEF Inv
  <2> QED BY <2>1, EmptySeq, ElementOfSeq
<1>2. per \in Nat \ {0}
  BY PerTaskIs
<1>3. Chunks(pieces[i]) = chunks
  BY DEF Chunks
<1> HIDE DEF focus, s, n, per
<1>4. count \in Nat
  <2> DEFINE a == n + per - 1
  <2>1. a \in Nat
    BY <1>1, <1>2
  <2> HIDE DEF a
  <2>2. a \div per \in Int /\ a % per \in 0..(per - 1) /\ a = per * (a \div per) + (a % per)
    BY <1>2, <2>1
  <2>3. a \div per >= 0
    BY <1>2, <2>1, <2>2
  <2> QED BY <2>2, <2>3 DEF a
<1>5. ASSUME NEW k \in 1..count
      PROVE  slice(k) \in Seq(Nodes)
  <2> DEFINE from == (k - 1) * per + 1
             to == last(k)
  <2>1. from \in Int /\ from >= 1
    BY <1>2, <1>4
  <2>2. to \in Int /\ to <= n
    BY <1>1, <1>2, <1>4
  <2>3. slice(k) = SubSeq(focus, from, to)
    OBVIOUS
  <2> HIDE DEF from, to, slice
  <2>4. \A j \in from..to : focus[j] \in Nodes
    BY <1>1, <2>1, <2>2
  <2> QED BY <2>1, <2>2, <2>3, <2>4, SubSeqProperties
<1> HIDE DEF slice, count
<1>6. chunks \in [1..count -> WaitSet(S)]
  BY <1>1, <1>5 DEF Piece, WaitSet
<1> HIDE DEF chunks
<1> QED BY <1>3, <1>4, <1>6, FunctionIsSeq

\* Pieces that wait are pieces.
LEMMA WaitingArePieces ==
    ASSUME NEW list \in Seq(WaitSet(in.graph))
    PROVE  IsSeq(list) /\ \A i \in DOMAIN list : PieceOK(list[i])
<1>1. \A i \in DOMAIN list : list[i] \in WaitSet(in.graph)
  BY LenProperties, ElementOfSeq
<1> QED BY <1>1, SeqIsSeq DEF WaitSet, PieceOK

-----------------------------------------------------------------------------
(* The driver's steps. *)

\* The driver's state keeps its shape when each part of it does.
LEMMA DriverIs ==
    ASSUME in \in Inputs, in' = in,
           IsSeq(pieces'), \A i \in DOMAIN pieces' : PieceOK(pieces'[i]),
           jobs' \in Seq(JobSet), asks' \in Seq(AskSet),
           calls' # <<>> => pc' \in {"targets", "validate", "work"},
           calls' # <<>> /\ pc' = "targets" => asks' # <<>>,
           failing' => calls' # <<>>,
           pc' \in {"targets", "validate"} => jobs' # <<>>
    PROVE  DriverOK'
BY DEF DriverOK, IsSeq, PieceOK, JobSet, AskSet

\* The first job of the line, and the line without it.
LEMMA FirstJob ==
    ASSUME jobs \in Seq(JobSet), jobs # <<>>
    PROVE  jobs[1].shape \in in.graph /\ jobs[1].nodes \subseteq Nodes /\ Tail(jobs) \in Seq(JobSet)
<1>1. Len(jobs) \in Nat \ {0}
  BY EmptySeq
<1>2. jobs[1] \in JobSet
  BY <1>1, ElementOfSeq
<1>3. Tail(jobs) \in Seq(JobSet)
  BY HeadTailProperties
<1> QED BY <1>2, <1>3 DEF JobSet

\* What the invariant says of the driver.
LEMMA DriverFacts ==
    ASSUME Inv
    PROVE  /\ in \in Inputs /\ IsSeq(pieces) /\ \A i \in DOMAIN pieces : PieceOK(pieces[i])
           /\ jobs \in Seq(JobSet) /\ asks \in Seq(AskSet)
           /\ calls # <<>> => pc \in {"targets", "validate", "work"}
           /\ calls # <<>> /\ pc = "targets" => asks # <<>>
           /\ failing => calls # <<>>
           /\ pc \in {"targets", "validate"} => jobs # <<>>
BY DEF Inv, DriverOK, JobSet, AskSet

\* A step of the frames is none of the driver's business.
LEMMA DriverWaits ==
    ASSUME Inv, UNCHANGED <<in, pc, driver>>, calls # <<>>, failing' => calls' # <<>>
    PROVE  DriverOK'
<1>1. in' = in /\ pc' = pc /\ pieces' = pieces /\ jobs' = jobs /\ asks' = asks
  BY DEF driver
<1> QED BY <1>1, DriverFacts, DriverIs

\* A step of the driver is none of the guard's business.
LEMMA GuardWaits ==
    ASSUME Inv, UNCHANGED <<calls, frames, guard, failing>>
    PROVE  UNCHANGED G!vars /\ FramesOK' /\ CallsOK'
<1>1. /\ calls' = calls /\ frames' = frames /\ failing' = failing
      /\ pairs' = pairs /\ seen' = seen /\ depth' = depth
  BY DEF guard
<1>2. UNCHANGED G!vars
  BY <1>1 DEF G!vars
<1>3. FramesOK'
  BY <1>1 DEF Inv, FramesOK, FrameOK, Busy
<1>4. CallsOK'
  BY <1>1 DEF Inv, CallsOK, IsSeq, Busy
<1> QED BY <1>2, <1>3, <1>4

\* The shapes the run is about are put in line, resolved and cut up.
LEMMA DriverStep ==
    ASSUME Inv, NextJob \/ TargetsFail \/ Resolved \/ Keep \/ Split \/ Merge
    PROVE  UNCHANGED G!vars /\ FramesOK' /\ CallsOK' /\ DriverOK'
<1>1. UNCHANGED <<calls, frames, guard, failing>> /\ in' = in
  BY DEF NextJob, TargetsFail, Resolved, Keep, Split, Merge
<1>2. UNCHANGED G!vars /\ FramesOK' /\ CallsOK'
  BY <1>1, GuardWaits
<1>3. calls = <<>>
  BY DriverFacts DEF NextJob, TargetsFail, Resolved, Keep, Split, Merge
<1>4. calls' = <<>> /\ ~failing'
  BY <1>1, <1>3, DriverFacts
<1>5. CASE NextJob
  <2>1. /\ pieces' = pieces /\ jobs' = jobs
        /\ \/ pc' = "done" /\ asks' = asks
           \/ pc' = "targets" /\ jobs # <<>> /\ asks' = Candidates(jobs[1].shape)
           \/ pc' = "targets" /\ jobs # <<>> /\ asks' = <<>>
    BY <1>5 DEF NextJob
  <2>2. asks' \in Seq(AskSet)
    <3>1. asks \in Seq(AskSet) /\ <<>> \in Seq(AskSet)
      BY DriverFacts, EmptySeq
    <3>2. CASE jobs # <<>> /\ asks' = Candidates(jobs[1].shape)
      <4>1. jobs[1].shape \in in.graph
        BY <3>2, DriverFacts, FirstJob
      <4>2. Defs[jobs[1].shape].where \subseteq in.graph
        BY <4>1, InputFacts DEF InputOK
      <4> QED BY <3>2, <4>1, <4>2, InputFacts, CandidatesOK DEF AskSet
    <3> QED BY <2>1, <3>1, <3>2
  <2>3. pc' \in {"targets", "validate"} => jobs' # <<>>
    BY <2>1
  <2> QED BY <1>1, <1>2, <1>4, <2>1, <2>2, <2>3, DriverFacts, DriverIs
<1>6. CASE Resolved
  <2> DEFINE piece == Piece(jobs[1].shape, Sorted(jobs[1].nodes))
  <2>1. /\ pc = "targets" /\ pc' = "next" /\ asks' = asks /\ jobs' = Tail(jobs)
        /\ pieces' = Append(pieces, piece)
    BY <1>6 DEF Resolved
  <2>2. /\ jobs[1].shape \in in.graph /\ jobs[1].nodes \subseteq Nodes
        /\ Tail(jobs) \in Seq(JobSet)
    BY <2>1, DriverFacts, FirstJob
  <2>3. PieceOK(piece)
    BY <2>2, SortedNodes DEF Piece, PieceOK
  <2> HIDE DEF piece
  <2>4. IsSeq(pieces') /\ \A i \in DOMAIN pieces' : PieceOK(pieces'[i])
    <3> DEFINE S == ToSet(pieces) \cup {piece}
    <3>1. \A p \in S : PieceOK(p)
      BY <2>3, DriverFacts DEF ToSet
    <3>2. pieces \in Seq(S)
      BY DriverFacts, SeqMonotonic DEF IsSeq
    <3>3. piece \in S
      OBVIOUS
    <3> HIDE DEF S
    <3>4. pieces' \in Seq(S)
      BY <2>1, <3>2, <3>3, AppendProperties
    <3>5. \A i \in DOMAIN pieces' : pieces'[i] \in S
      BY <3>4, LenProperties, ElementOfSeq
    <3> QED BY <3>1, <3>4, <3>5, SeqIsSeq
  <2> QED BY <1>1, <1>2, <1>4, <2>1, <2>2, <2>4, DriverFacts, DriverIs
<1>7. CASE Keep
  <2> DEFINE inHand == [i \in DOMAIN pieces |->
                            [shape |-> pieces[i].shape, nodes |-> ToSet(pieces[i].focus)]]
  <2>1. pc' = pc /\ pc = "next" /\ asks' = asks /\ jobs' = inHand \o jobs /\ pieces' = <<>>
    BY <1>7 DEF Keep
  <2>2. inHand \in [1..Len(pieces) -> JobSet]
    BY PiecesFacts, MembersOfSeq DEF Inv, JobSet
  <2> HIDE DEF inHand
  <2>3. inHand \in Seq(JobSet)
    BY <2>2, PiecesFacts, FunctionIsSeq DEF Inv
  <2>4. jobs' \in Seq(JobSet)
    BY <2>1, <2>3, DriverFacts, ConcatProperties
  <2>5. IsSeq(<<>>) /\ DOMAIN <<>> = {}
    BY EmptySeq DEF IsSeq
  <2> QED BY <1>1, <1>2, <1>4, <2>1, <2>4, <2>5, DriverFacts, DriverIs
<1>8. CASE Split
  <2> DEFINE each == [i \in DOMAIN pieces |-> Chunks(pieces[i])]
  <2>1. /\ Total >= MinFocus /\ pc' = "work" /\ asks' = asks /\ jobs' = jobs
        /\ pieces' = FlattenSeq(each)
    BY <1>8 DEF Split
  <2>2. each \in [1..Len(pieces) -> Seq(WaitSet(in.graph))]
    BY <2>1, PiecesFacts, ChunksOK DEF Inv
  <2> HIDE DEF each
  <2>3. each \in Seq(Seq(WaitSet(in.graph)))
    BY <2>2, PiecesFacts, FunctionIsSeq DEF Inv
  <2>4. pieces' \in Seq(WaitSet(in.graph))
    BY <2>1, <2>3, FlattenMembers
  <2>5. IsSeq(pieces') /\ \A i \in DOMAIN pieces' : PieceOK(pieces'[i])
    BY <2>4, WaitingArePieces
  <2> QED BY <1>1, <1>2, <1>4, <2>1, <2>5, DriverFacts, DriverIs
<1>9. CASE Merge
  <2>1. /\ pc' \in {"error", "next"} /\ asks' = asks /\ jobs' = jobs /\ pieces' = <<>>
    BY <1>9 DEF Merge
  <2>2. IsSeq(<<>>) /\ DOMAIN <<>> = {}
    BY EmptySeq DEF IsSeq
  <2> QED BY <1>1, <1>2, <1>4, <2>1, <2>2, DriverFacts, DriverIs
<1>10. CASE TargetsFail
  <2>1. pc' = "error" /\ asks' = asks /\ jobs' = jobs /\ pieces' = pieces
    BY <1>10 DEF TargetsFail, driver
  <2> QED BY <1>1, <1>2, <1>4, <2>1, DriverFacts, DriverIs
<1> QED BY <1>5, <1>6, <1>7, <1>8, <1>9, <1>10

\* The driver, or a worker, calls validate_shape.
LEMMA DriverCalls ==
    ASSUME Inv, TestTarget \/ ValidateRoot \/ Work
    PROVE  G!Next /\ FramesOK' /\ CallsOK' /\ DriverOK'
<1>1. ASSUME NEW s \in in.graph, NEW focus \in Seq(Nodes), NEW out,
             calls = <<>>, ~failing, Call(s, focus, out)
      PROVE  /\ G!Next /\ FramesOK' /\ CallsOK'
             /\ failing' => calls' # <<>>
  <2>1. s \in Shapes
    BY InputFacts
  <2> QED BY <1>1, <2>1, CallStep
<1>2. CASE TestTarget
  <2>1. /\ calls = <<>> /\ ~failing /\ asks # <<>> /\ pc = "targets"
        /\ Call(Head(asks).shape, <<Head(asks).node>>, <<>>)
        /\ in' = in /\ pc' = pc /\ pieces' = pieces /\ jobs' = jobs /\ asks' = asks
    BY <1>2 DEF TestTarget, driver
  <2>2. Head(asks) \in AskSet
    BY <2>1, DriverFacts, HeadTailProperties
  <2>3. Head(asks).shape \in in.graph /\ <<Head(asks).node>> \in Seq(Nodes)
    BY <2>2 DEF AskSet
  <2>4. /\ G!Next /\ FramesOK' /\ CallsOK' /\ (failing' => calls' # <<>>)
    BY <1>1, <2>1, <2>3
  <2> QED BY <2>1, <2>4, DriverFacts, DriverIs
<1>3. CASE ValidateRoot
  <2>1. /\ calls = <<>> /\ ~failing /\ pc = "targets" /\ pc' = "validate"
        /\ Call(jobs[1].shape, Sorted(jobs[1].nodes), results)
        /\ in' = in /\ pieces' = pieces /\ jobs' = jobs /\ asks' = asks
    BY <1>3 DEF ValidateRoot, driver
  <2>2. jobs # <<>> /\ jobs[1].shape \in in.graph /\ Sorted(jobs[1].nodes) \in Seq(Nodes)
    BY <2>1, DriverFacts, FirstJob, SortedNodes
  <2>3. /\ G!Next /\ FramesOK' /\ CallsOK' /\ (failing' => calls' # <<>>)
    BY <1>1, <2>1, <2>2
  <2> QED BY <2>1, <2>2, <2>3, DriverFacts, DriverIs
<1>4. CASE Work
  <2>1. PICK i \in DOMAIN pieces :
           /\ pieces' = [pieces EXCEPT ![i].state = "running"]
           /\ Call(pieces[i].shape, pieces[i].focus, <<>>)
    BY <1>4 DEF Work
  <2>2. /\ calls = <<>> /\ pc = "work"
        /\ in' = in /\ pc' = pc /\ jobs' = jobs /\ asks' = asks
    BY <1>4 DEF Work
  <2>3. ~failing /\ pieces[i].shape \in in.graph /\ pieces[i].focus \in Seq(Nodes)
    BY <2>2, DriverFacts DEF PieceOK
  <2>4. /\ G!Next /\ FramesOK' /\ CallsOK' /\ (failing' => calls' # <<>>)
    BY <1>1, <2>1, <2>2, <2>3
  <2>5. IsSeq(pieces') /\ \A k \in DOMAIN pieces' : PieceOK(pieces'[k])
    <3> DEFINE run == [pieces[i] EXCEPT !.state = "running"]
               S == ToSet(pieces) \cup {run}
    <3>1. PieceOK(run)
      BY DriverFacts DEF PieceOK
    <3>2. \A p \in S : PieceOK(p)
      BY <3>1, DriverFacts DEF ToSet
    <3>3. pieces \in Seq(S)
      BY DriverFacts, SeqMonotonic DEF IsSeq
    <3>4. pieces' = [pieces EXCEPT ![i] = run] /\ run \in S
      BY <2>1
    <3> HIDE DEF S, run
    <3>5. pieces' \in Seq(S)
      BY <3>3, <3>4, ExceptSeq
    <3>6. \A k \in DOMAIN pieces' : pieces'[k] \in S
      BY <3>5, LenProperties, ElementOfSeq
    <3> QED BY <3>2, <3>5, <3>6, SeqIsSeq
  <2> QED BY <2>2, <2>4, <2>5, DriverFacts, DriverIs
<1> QED BY <1>2, <1>3, <1>4

\* A piece is through: the pieces are what they were, but for state and out.
LEMMA PieceDoneOK ==
    ASSUME Inv, NEW state, NEW out, PieceDone(state, out)
    PROVE  IsSeq(pieces') /\ \A i \in DOMAIN pieces' : PieceOK(pieces'[i])
<1> DEFINE after(p) == IF p.state = "running" THEN [p EXCEPT !.state = state, !.out = out] ELSE p
           S == {after(pieces[i]) : i \in DOMAIN pieces}
<1>1. DOMAIN pieces = 1..Len(pieces) /\ Len(pieces) \in Nat
  BY PiecesFacts DEF Inv
<1>2. pieces' = [i \in DOMAIN pieces |-> after(pieces[i])]
  BY DEF PieceDone
<1>3. ASSUME NEW p, PieceOK(p)
      PROVE  PieceOK(after(p))
  <2>1. CASE p.state = "running"
    <3> DEFINE q == [p EXCEPT !.state = state]
               r == [q EXCEPT !.out = out]
    <3>1. DOMAIN q = {"shape", "focus", "state", "out"} /\ q.shape = p.shape /\ q.focus = p.focus
      BY <1>3 DEF PieceOK
    <3>2. after(p) = r
      BY <2>1
    <3> HIDE DEF q
    <3>3. DOMAIN r = {"shape", "focus", "state", "out"} /\ r.shape = p.shape /\ r.focus = p.focus
      BY <3>1
    <3> HIDE DEF r
    <3> QED BY <1>3, <3>2, <3>3 DEF PieceOK
  <2>2. CASE p.state # "running"
    BY <1>3, <2>2
  <2> QED BY <2>1, <2>2
<1> HIDE DEF after
<1>4. \A p \in S : PieceOK(p)
  BY <1>3, DriverFacts
<1>5. pieces' \in [1..Len(pieces) -> S]
  BY <1>1, <1>2
<1> HIDE DEF S
<1>6. pieces' \in Seq(S) /\ DOMAIN pieces' = 1..Len(pieces)
  BY <1>1, <1>5, FunctionIsSeq
<1>7. \A i \in DOMAIN pieces' : pieces'[i] \in S
  BY <1>5
<1> QED BY <1>4, <1>6, <1>7, SeqIsSeq

\* The driver goes on with what a call of its own came to.
LEMMA DriverReturns ==
    ASSUME Inv, Return
    PROVE  DriverOK'
<1> DEFINE n == Len(calls)
<1>1. /\ Returning /\ calls' = Front(calls) /\ in' = in
      /\ failing => Throw
      /\ ~failing => failing' = failing /\ \E conforms \in BOOLEAN : Answer(conforms)
  BY DEF Return
<1>2. calls # <<>> /\ n \in Nat \ {0} /\ (frames # <<>> => n > 1) /\ (frames = <<>> => n = 1)
  BY <1>1, ReturningFacts
<1>3. (calls' = <<>> <=> n = 1) /\ (failing' => calls' # <<>>)
  BY <1>1, CallsReturn, ReturnStep
<1>4. /\ pc \in {"targets", "validate", "work"}
      /\ pc = "targets" => asks # <<>>
      /\ pc \in {"targets", "validate"} => jobs # <<>>
  BY <1>2, DriverFacts
<1> HIDE DEF n
<1>5. CASE failing
  <2>1. /\ jobs' = jobs /\ asks' = asks
        /\ \/ n = 1 /\ pc = "work" /\ PieceDone("failed", <<>>) /\ pc' = pc
           \/ n > 1 /\ pc' = pc /\ pieces' = pieces
           \/ n = 1 /\ pc' = "error" /\ pieces' = pieces
    BY <1>1, <1>2, <1>5 DEF Throw, n
  <2>2. IsSeq(pieces') /\ \A i \in DOMAIN pieces' : PieceOK(pieces'[i])
    BY <2>1, DriverFacts, PieceDoneOK
  <2>3. pc' \in {"targets", "validate"} => jobs' # <<>>
    BY <1>4, <2>1
  <2>4. calls' # <<>> => pc' = pc
    BY <1>3, <2>1
  <2> QED BY <1>1, <1>3, <1>4, <2>1, <2>2, <2>3, <2>4, DriverFacts, DriverIs
<1>6. CASE ~failing
  <2>1. PICK conforms \in BOOLEAN : Answer(conforms)
    BY <1>1, <1>6
  <2>2. CASE frames # <<>>
    <3>1. pc' = pc /\ pieces' = pieces /\ jobs' = jobs /\ asks' = asks
      BY <2>1, <2>2 DEF Answer, driver
    <3> QED BY <1>1, <1>3, <1>4, <3>1, DriverFacts, DriverIs
  <2>3. CASE frames = <<>>
    <3>1. calls' = <<>>
      BY <1>2, <1>3, <2>3
    <3>2. CASE pc = "targets"
      <4> DEFINE ask == Head(asks).node
                 first == [jobs[1] EXCEPT !.nodes = @ \cup {ask}]
                 more == [jobs EXCEPT ![1] = first]
      <4>1. /\ pc' = pc /\ pieces' = pieces /\ asks' = Tail(asks)
            /\ jobs' = jobs \/ jobs' = more
        BY <2>1, <2>3, <3>2 DEF Answer
      <4>2. Tail(asks) \in Seq(AskSet) /\ ask \in Nodes
        <5>1. asks # <<>> /\ asks \in Seq(AskSet)
          BY <1>4, <3>2, DriverFacts
        <5>2. Head(asks) \in AskSet /\ Tail(asks) \in Seq(AskSet)
          BY <5>1, HeadTailProperties
        <5> QED BY <5>2 DEF AskSet
      <4>3. jobs # <<>> /\ jobs \in Seq(JobSet) /\ jobs[1] \in JobSet /\ Len(jobs) \in Nat \ {0}
        <5>1. jobs # <<>> /\ jobs \in Seq(JobSet)
          BY <1>4, <3>2, DriverFacts
        <5> QED BY <5>1, EmptySeq, ElementOfSeq
      <4>4. first \in JobSet
        BY <4>2, <4>3 DEF JobSet
      <4> HIDE DEF first
      <4>5. more \in Seq(JobSet) /\ Len(more) = Len(jobs)
        BY <4>3, <4>4, ExceptSeq
      <4>6. more # <<>>
        BY <4>3, <4>5, EmptySeq
      <4> HIDE DEF more
      <4>7. jobs' \in Seq(JobSet) /\ jobs' # <<>> /\ asks' \in Seq(AskSet)
        BY <4>1, <4>2, <4>3, <4>5, <4>6
      <4> QED BY <1>1, <1>3, <3>1, <4>1, <4>7, DriverFacts, DriverIs
    <3>3. CASE pc = "work"
      <4>1. PieceDone("done", Last(calls).out) /\ pc' = pc /\ jobs' = jobs /\ asks' = asks
        BY <2>1, <2>3, <3>3 DEF Answer
      <4>2. IsSeq(pieces') /\ \A i \in DOMAIN pieces' : PieceOK(pieces'[i])
        BY <4>1, PieceDoneOK
      <4> QED BY <1>1, <1>3, <3>1, <3>3, <4>1, <4>2, DriverFacts, DriverIs
    <3>4. CASE pc = "validate"
      <4>1. pc' = "next" /\ jobs' = Tail(jobs) /\ pieces' = pieces /\ asks' = asks
        BY <2>1, <2>3, <3>4 DEF Answer
      <4>2. Tail(jobs) \in Seq(JobSet)
        BY <1>4, <3>4, DriverFacts, FirstJob
      <4> QED BY <1>1, <1>3, <3>1, <4>1, <4>2, DriverFacts, DriverIs
    <3> QED BY <1>4, <3>2, <3>3, <3>4
  <2> QED BY <2>2, <2>3
<1> QED BY <1>5, <1>6

-----------------------------------------------------------------------------
(* The engine implements the guard. *)

\* Every step of the engine is one of the guard, or leaves it alone, and keeps
\* the frames, the calls and the driver in order.
LEMMA StepFollows ==
    ASSUME Inv, [Next]_vars
    PROVE  [G!Next]_(G!vars) /\ FramesOK' /\ CallsOK' /\ DriverOK'
<1>1. CASE NextJob \/ TargetsFail \/ Resolved \/ Keep \/ Split \/ Merge
  BY <1>1, DriverStep
<1>2. CASE TestTarget \/ ValidateRoot \/ Work
  BY <1>2, DriverCalls
<1>3. CASE FrameDone \/ Drop
  <2>1. UNCHANGED <<in, pc, driver>>
    BY <1>3 DEF FrameDone, Drop
  <2>2. /\ G!Next /\ FramesOK' /\ CallsOK'
        /\ calls # <<>> /\ (failing' => calls' # <<>>)
    BY <1>3, LeaveStep
  <2> QED BY <2>1, <2>2, DriverWaits
<1>4. CASE Descend
  <2>1. UNCHANGED <<in, pc, driver>> /\ Running /\ calls' = calls
    BY <1>4 DEF Descend, Upcoming, Between
  <2>2. calls # <<>>
    BY <2>1, RunningFacts
  <2>3. G!Next /\ FramesOK' /\ CallsOK'
    BY <1>4, DescendStep
  <2> QED BY <2>1, <2>2, <2>3, DriverWaits
<1>5. CASE Check \/ Fail \/ Begin
  <2>1. UNCHANGED <<in, pc, driver>> /\ Running
    BY <1>5 DEF Check, Fail, Begin, Upcoming, Between
  <2>2. calls # <<>>
    BY <2>1, RunningFacts
  <2>3. [G!Next]_(G!vars) /\ FramesOK' /\ CallsOK' /\ calls' # <<>>
    BY <1>5, TakenUp
  <2> QED BY <2>1, <2>2, <2>3, DriverWaits
<1>6. CASE Ask
  <2>1. UNCHANGED <<in, pc, driver>>
    BY <1>6 DEF Ask
  <2>2. G!Next /\ FramesOK' /\ CallsOK' /\ calls # <<>> /\ calls' # <<>>
    BY <1>6, AskStep
  <2> QED BY <2>1, <2>2, DriverWaits
<1>7. CASE Judge \/ CloseRow
  <2>1. UNCHANGED <<in, pc, driver>> /\ Running
    BY <1>7 DEF Judge, CloseRow, Asked
  <2>2. calls # <<>>
    BY <2>1, RunningFacts
  <2>3. UNCHANGED G!vars /\ FramesOK' /\ CallsOK' /\ calls' # <<>>
    BY <1>7, JudgeStep
  <2> QED BY <2>1, <2>2, <2>3, DriverWaits
<1>8. CASE Return
  BY <1>8, ReturnStep, DriverReturns
<1>9. CASE UNCHANGED vars
  <2>1. /\ UNCHANGED <<calls, frames, guard, failing>> /\ in' = in /\ pc' = pc
        /\ pieces' = pieces /\ jobs' = jobs /\ asks' = asks
    BY <1>9 DEF vars, driver, guard
  <2>2. calls' = calls /\ failing' = failing
    BY <2>1
  <2>3. DriverOK'
    BY <2>1, <2>2, DriverFacts, DriverIs
  <2> QED BY <2>1, <2>3, GuardWaits
<1>10. CASE NoQuestions
  <2>1. UNCHANGED <<in, pc, driver>>
    BY <1>10 DEF NoQuestions
  <2>2. G!Next /\ FramesOK' /\ CallsOK' /\ calls' = calls /\ calls # <<>>
    BY <1>10, NoQuestionsStep
  <2> QED BY <2>1, <2>2, DriverWaits
<1> QED BY <1>1, <1>2, <1>3, <1>4, <1>5, <1>6, <1>7, <1>8, <1>9, <1>10 DEF Next

\* The invariant of the engine's runs is inductive.
LEMMA StepInv == Inv /\ [Next]_vars => Inv' /\ [G!Next]_(G!vars)
<1> SUFFICES ASSUME Inv, [Next]_vars PROVE Inv' /\ [G!Next]_(G!vars)
  OBVIOUS
<1>1. [G!Next]_(G!vars) /\ FramesOK' /\ CallsOK' /\ DriverOK'
  BY StepFollows
<1>2. G!IInv'
  BY <1>1, GuardAssumptions, G!NextIInv DEF Inv
<1> QED BY <1>1, <1>2 DEF Inv

\* In every run of the engine the guard's state, the frames, the calls and the
\* driver are in order.
THEOREM EngineInductive == Spec => []Inv
BY InitInv, StepInv, PTL DEF Spec

\* Nested calls, property descents, early stops, errors and pieces of work: all
\* that a run of the engine does is what the recursion guard allows.
THEOREM EngineFollowsGuard == Spec => G!Spec
BY InitInv, StepInv, PTL DEF Spec, G!Spec

\* The refinement the model checker is asked about, when it may pick focus sets
\* of any length.
THEOREM Follows ==
    ASSUME FocusSets = Seq(Nodes)
    PROVE  Spec => FollowsGuard
<1>1. Init => Guard!Init
  BY InitInv DEF Guard!Init, G!Init
<1>2. Inv /\ [Next]_vars => [Guard!Next]_(Guard!vars)
  <2>1. (Guard!vars)' = Guard!vars <=> (G!vars)' = G!vars
    BY DEF Guard!vars, G!vars
  <2>2. Guard!Callable = G!Callable /\ (Guard!Running <=> G!Running)
    BY DEF Guard!Callable, G!Callable, Guard!Top, G!Top, Guard!Running, G!Running
  <2>3. ASSUME NEW s, NEW kept
        PROVE  /\ G!Enter(s, kept) => Guard!Enter(s, kept)
               /\ G!Descend(s, kept) => Guard!Descend(s, kept)
    BY <2>2 DEF Guard!Enter, G!Enter, Guard!Descend, G!Descend, Guard!Fresh, G!Fresh,
                Guard!PushFrame, G!PushFrame, Guard!Tagged, G!Tagged
  <2>4. /\ G!Refuse => Guard!Refuse
        /\ G!Fail => Guard!Fail
    BY <2>2 DEF Guard!Refuse, G!Refuse, Guard!Fail, G!Fail
  <2>5. /\ G!Leave => Guard!Leave
        /\ G!Return => Guard!Return
    BY <2>2 DEF Guard!Leave, G!Leave, Guard!PopFrame, G!PopFrame, Guard!Above, G!Above,
                Guard!Top, G!Top, Guard!Return, G!Return,
                Guard!InvocationEmpty, G!InvocationEmpty
  <2>7. ASSUME NEW s
        PROVE  G!Falter(s) => Guard!Falter(s)
    BY <2>2 DEF Guard!Falter, G!Falter
  <2>6. G!Next => Guard!Next
    BY <2>2, <2>3, <2>4, <2>5, <2>7 DEF Guard!Next, G!Next
  <2> QED BY <2>1, <2>6, StepInv
<1> QED BY <1>1, <1>2, InitInv, StepInv, PTL DEF Spec, FollowsGuard, Guard!Spec

-----------------------------------------------------------------------------
(* What the guard's theorems say of the engine. *)

\* The set that is searched for visited pairs holds those that stand and no
\* others; a call that returns, or hands an error up, leaves nothing behind for
\* the next root shape, question or piece of work; and calls nest no deeper
\* than the limit.
Unwound ==
    /\ seen = {pairs[i] : i \in 1..Len(pairs)}
    /\ calls = <<>> => frames = <<>> /\ pairs = <<>> /\ seen = {} /\ depth = 0
    /\ depth = Len(calls) /\ depth <= MaxDepth

\* "An error leaves the visited set exactly as it was found" (validate.rs): so
\* does everything else that a run does, whatever the shapes and the data.
THEOREM EngineUnwinds == Spec => []Unwound
<1>1. Spec => []G!SeenIsPairs /\ []G!NothingLeftBehind
  BY EngineFollowsGuard, GuardAssumptions, G!VisitedExact, G!CleanStack, PTL
<1>2. Inv /\ G!SeenIsPairs /\ G!NothingLeftBehind => Unwound
  <2> SUFFICES ASSUME Inv, G!SeenIsPairs, G!NothingLeftBehind PROVE Unwound
    OBVIOUS
  <2>1. /\ Len(Bases(calls)) = Len(calls)
        /\ calls = <<>> => Bases(calls) = <<>> /\ frames = <<>>
    BY Facts, BasesIs DEF Inv
  <2>2. calls = <<>> => pairs = <<>> /\ seen = {} /\ depth = 0
    BY <2>1 DEF G!NothingLeftBehind
  <2> QED BY <2>1, <2>2 DEF Unwound, G!NothingLeftBehind, G!SeenIsPairs
<1> QED BY <1>1, <1>2, EngineInductive, PTL

\* The driver, or a worker, has called a shape below which no shape can reach
\* itself.
CalmRun == frames # <<>> /\ frames[1].id \in G!Acyclic

\* is_focus_separable: below such a shape the filter never drops a focus node,
\* so what a piece of work reports does not depend on which nodes came with it;
\* and the nesting is bounded by the shapes, whatever the data.
THEOREM AcyclicRunIsCalm ==
    Spec => [](CalmRun =>
                  /\ \A s \in Refs[Top.id], n \in Nodes : <<s, n>> \notin seen
                  /\ depth <= Cardinality(Shapes))
<1>1. Spec => []G!GuardIdle /\ []G!DepthByShapes
  BY EngineFollowsGuard, GuardAssumptions, G!FilterIdle, G!ShallowNesting, PTL
<1>2. Inv /\ G!GuardIdle /\ G!DepthByShapes =>
         (CalmRun => /\ \A s \in Refs[Top.id], n \in Nodes : <<s, n>> \notin seen
                     /\ depth <= Cardinality(Shapes))
  <2> SUFFICES ASSUME Inv, G!GuardIdle, G!DepthByShapes, CalmRun
               PROVE  /\ \A s \in Refs[Top.id], n \in Nodes : <<s, n>> \notin seen
                      /\ depth <= Cardinality(Shapes)
    OBVIOUS
  <2>1. /\ Len(frames) \in Nat \ {0} /\ Top = frames[Len(frames)]
        /\ frames \in Seq(FrameSet)
    BY Facts, FrontOf DEF CalmRun, Top
  <2>2. /\ Len(Standing(frames)) = Len(frames)
        /\ \A i \in 1..Len(frames) : Standing(frames)[i].id = frames[i].id
    <3>1. Len(Standing(frames)) = Len(frames)
      BY <2>1, StandingIs
    <3>2. ASSUME NEW i \in 1..Len(frames) PROVE Standing(frames)[i].id = frames[i].id
      <4>1. Standing(frames)[i] = [id |-> frames[i].id, mark |-> frames[i].mark]
        BY <2>1, StandingIs
      <4> QED BY <4>1
    <3> QED BY <3>1, <3>2
  <2>3. /\ Standing(frames) # <<>> /\ Standing(frames)[1].id = frames[1].id
        /\ G!Top.id = Top.id
    BY <2>1, <2>2, EmptySeq DEF G!Top
  <2>4. G!Calm /\ G!Callable = Refs[Top.id]
    BY <2>3 DEF G!Calm, G!Callable, CalmRun
  <2>5. G!Cardinality(Shapes) = Cardinality(Shapes)
    BY DEF G!Cardinality, Cardinality
  <2> QED BY <2>4, <2>5 DEF G!GuardIdle, G!DepthByShapes
<1> QED BY <1>1, <1>2, EngineInductive, PTL

-----------------------------------------------------------------------------
(* What a run can come to. *)

\* What becomes of x when F is applied to it, up to n times.
Iterates(f, n, F, x) == \A k \in 0..n : f[k] = IF k = 0 THEN x ELSE F[f[k - 1]]

\* A function can be applied any number of times.
LEMMA IterateExists ==
    ASSUME NEW n \in Nat, NEW S, NEW F \in [S -> S], NEW x \in S
    PROVE  \E f \in [0..n -> S] : Iterates(f, n, F, x)
<1> DEFINE each == [k \in 1..n |-> F]
<1>1. \A k \in 1..n : each[k] = F /\ each[k] \in [S -> S]
  OBVIOUS
<1> HIDE DEF each
<1>2. PICK f \in [0..n -> S] : InTurn(f, n, each, x)
  BY <1>1, InTurnExists
<1>3. \A k \in 0..n : k # 0 => k \in 1..n
  OBVIOUS
<1>4. Iterates(f, n, F, x)
  BY <1>1, <1>2, <1>3 DEF Iterates, InTurn
<1> QED BY <1>4

\* Closure: what is reached in as many steps as there are elements has all
\* that it leads to, and nothing that could be left out.
LEMMA ClosureIs ==
    ASSUME NEW D, IsFiniteSet(D), NEW R \in [D -> SUBSET D], NEW x \in D
    PROVE  /\ x \in Closure(R, x)
           /\ \A y \in Closure(R, x) : y \in D /\ R[y] \subseteq Closure(R, x)
           /\ \A T \in SUBSET D :
                 x \in T /\ (\A y \in T : R[y] \subseteq T) => Closure(R, x) \subseteq T
<1> DEFINE N == Cardinality(D)
           next(A) == UNION {{y} \cup R[y] : y \in A}
           F == [A \in SUBSET D |-> next(A)]
           Reach(f) == f = [n \in 0..N |-> IF n = 0 THEN {x} ELSE next(f[n - 1])]
           reach == CHOOSE f : Reach(f)
<1>1. N \in Nat
  BY FS_CardinalityType
<1>2. \A A \in SUBSET D : next(A) \in SUBSET D
  OBVIOUS
<1>3. Closure(R, x) = reach[N]
  <2>1. DOMAIN R = D
    OBVIOUS
  <2> QED BY <2>1 DEF Closure
<1>4. \E f : Reach(f)
  <2> DEFINE S == SUBSET D
             s == {x}
  <2>1. F \in [S -> S] /\ s \in S
    BY <1>2
  <2>2. \A A \in S : F[A] = next(A)
    OBVIOUS
  <2> HIDE DEF F, N, next, S, s
  <2>3. PICK f \in [0..N -> S] : Iterates(f, N, F, s)
    BY <1>1, <2>1, IterateExists
  <2>4. s = {x}
    BY DEF s
  <2>5. ASSUME NEW k \in 0..N
        PROVE  f[k] = IF k = 0 THEN {x} ELSE next(f[k - 1])
    <3>1. k # 0 => k - 1 \in 0..N
      BY <1>1
    <3> QED BY <2>2, <2>3, <2>4, <3>1 DEF Iterates
  <2>6. f = [k \in 0..N |-> IF k = 0 THEN {x} ELSE next(f[k - 1])]
    BY <2>5
  <2> QED BY <2>6
<1>5. Reach(reach)
  <2> HIDE DEF Reach
  <2> QED BY <1>4
<1> HIDE DEF reach
<1>6. reach[0] = {x} /\ \A k \in 1..N : reach[k] = next(reach[k - 1])
  <2>1. 0 \in 0..N /\ \A k \in 1..N : k \in 0..N /\ k # 0
    BY <1>1
  <2> HIDE DEF N, next
  <2> QED BY <1>5, <2>1
<1> DEFINE Stable(A) == \A y \in A : R[y] \subseteq A
           Good(k) == /\ reach[k] \in SUBSET D /\ x \in reach[k]
                      /\ \A T \in SUBSET D : x \in T /\ Stable(T) => reach[k] \subseteq T
                      /\ Stable(reach[k]) \/ Cardinality(reach[k]) >= k + 1
           Bad == {k \in 0..N : ~Good(k)}
<1>7. \A A \in SUBSET D : IsFiniteSet(A) /\ Cardinality(A) \in Nat /\ Cardinality(A) <= N
  BY FS_Subset, FS_CardinalityType
<1>8. Bad = {}
  <2> SUFFICES ASSUME NEW m \in Bad, \A k \in Bad : m <= k
               PROVE  FALSE
    <3>1. Bad \in SUBSET Nat
      BY <1>1
    <3> HIDE DEF Bad
    <3> QED BY <3>1, LeastNumber
  <2> HIDE DEF Good, N
  <2>1. m \in 0..N /\ ~Good(m)
    OBVIOUS
  <2>2. CASE m = 0
    <3>1. Cardinality({x}) = 1
      BY FS_Singleton
    <3>2. Cardinality(reach[0]) >= 0 + 1
      BY <1>6, <3>1
    <3> QED BY <1>6, <2>1, <2>2, <3>2 DEF Good
  <2>3. CASE m # 0
    <3>1. m \in 1..N /\ m - 1 \in 0..N /\ ~(m <= m - 1) /\ m - 1 + 1 = m
      BY <1>1, <2>1, <2>3
    <3>2. Good(m - 1)
      BY <3>1
    <3> DEFINE A == reach[m - 1]
               B == reach[m]
    <3>3. /\ A \in SUBSET D /\ x \in A
          /\ \A T \in SUBSET D : x \in T /\ Stable(T) => A \subseteq T
          /\ Stable(A) \/ Cardinality(A) >= m
      BY <3>1, <3>2 DEF Good
    <3>4. B = next(A)
      BY <1>6, <3>1
    <3> HIDE DEF A, B
    <3>5. B \in SUBSET D /\ A \subseteq B /\ x \in B
      BY <3>3, <3>4
    <3>6. \A T \in SUBSET D : x \in T /\ Stable(T) => B \subseteq T
      BY <3>3, <3>4
    <3>7. CASE Stable(A)
      <4>1. B = A
        BY <3>4, <3>7
      <4> QED BY <2>1, <3>5, <3>6, <3>7, <4>1 DEF Good, B
    <3>8. CASE ~Stable(A)
      <4>1. PICK y \in A : ~(R[y] \subseteq A)
        BY <3>8
      <4>2. R[y] \subseteq B
        BY <3>4, <4>1
      <4>3. A # B
        BY <4>1, <4>2
      <4>4. IsFiniteSet(B) /\ Cardinality(A) \in Nat /\ Cardinality(B) \in Nat
        BY <1>7, <3>3, <3>5
      <4>5. Cardinality(A) < Cardinality(B)
        BY <3>5, <4>3, <4>4, FS_Subset
      <4>6. Cardinality(B) >= m + 1
        BY <2>1, <3>3, <3>8, <4>4, <4>5
      <4> QED BY <2>1, <3>5, <3>6, <4>6 DEF Good, B
    <3> QED BY <3>7, <3>8
  <2> QED BY <2>2, <2>3
<1>9. Good(N)
  <2>1. N \in 0..N
    BY <1>1
  <2> HIDE DEF Good, N
  <2> QED BY <1>8, <2>1
<1>10. Stable(reach[N])
  <2>1. Cardinality(reach[N]) \in Nat /\ Cardinality(reach[N]) <= N
    BY <1>7, <1>9
  <2> HIDE DEF N
  <2>2. ~(Cardinality(reach[N]) >= N + 1)
    BY <1>1, <2>1
  <2> QED BY <1>9, <2>2
<1> HIDE DEF N, next
<1> QED BY <1>3, <1>9, <1>10


\* The shapes a run can come to n calls below one it starts from: those that
\* are entered there, and what they reach by property descents.
Within == [n \in 0..MaxDepth |-> UNION {Closure(Refs, t) : t \in Nested[n]}]

\* The shapes entered n calls down, starting with others than the run's.
AskedFrom(starts) == UNION {AskedBy(s) : s \in UNION {Closure(Refs, t) : t \in starts}}
NestedBelow(starts) ==
    CHOOSE f : f = [n \in 0..MaxDepth |-> IF n = 0 THEN starts ELSE AskedFrom(f[n - 1])]

\* The shapes a run starts from are shapes of its graph.
LEMMA EnteredOK ==
    ASSUME InputOK(in)
    PROVE  /\ Entered \subseteq in.graph
           /\ ToSet(in.roots) \subseteq Entered
           /\ \A s \in ToSet(in.roots) : Defs[s].where \subseteq Entered
           /\ \A i \in DOMAIN Given : Given[i].shape \in Entered
<1>1. ToSet(in.roots) \subseteq in.graph
  BY MembersOfSeq DEF InputOK
<1>2. \A s \in ToSet(in.roots) : Defs[s].where \subseteq in.graph
  BY <1>1 DEF InputOK
<1>3. \A i \in DOMAIN Given : Given[i].shape \in in.graph
  <2>1. \A i \in DOMAIN Given : Given[i] \in JobSet
    BY GivenOK, LenProperties, ElementOfSeq
  <2> QED BY <2>1 DEF JobSet
<1> QED BY <1>1, <1>2, <1>3 DEF Entered

\* What a shape of the graph reaches.
LEMMA ReachIs ==
    ASSUME InputOK(in), NEW t \in in.graph
    PROVE  /\ t \in Closure(Refs, t)
           /\ Closure(Refs, t) \subseteq in.graph
           /\ \A s \in Closure(Refs, t) : s \in Shapes /\ Refs[s] \subseteq Closure(Refs, t)
<1>1. in.graph \in SUBSET Shapes /\ \A s \in in.graph : Refs[s] \subseteq in.graph
  BY DEF InputOK
<1>2. t \in Shapes /\ IsFiniteSet(Shapes) /\ Refs \in [Shapes -> SUBSET Shapes]
  BY <1>1, GuardAssumptions
<1> HIDE DEF Refs, Shapes
<1>3. /\ t \in Closure(Refs, t)
      /\ \A y \in Closure(Refs, t) : y \in Shapes /\ Refs[y] \subseteq Closure(Refs, t)
      /\ \A T \in SUBSET Shapes :
            t \in T /\ (\A y \in T : Refs[y] \subseteq T) => Closure(Refs, t) \subseteq T
  BY <1>2, ClosureIs
<1> QED BY <1>1, <1>3

\* What a shape asks it refers to.
LEMMA AskedIsReferred ==
    ASSUME NEW s \in Shapes
    PROVE  AskedBy(s) \subseteq Refs[s]
BY DEF AskedBy, Refs

\* The shapes of the nested calls are shapes of the graph, each level has what
\* the one above asks for, and no property descent leads out of a level.
LEMMA NestedIs ==
    ASSUME InputOK(in)
    PROVE  /\ Nested[0] = Entered
           /\ \A n \in 1..MaxDepth : \A s \in Within[n - 1] : AskedBy(s) \subseteq Nested[n]
           /\ \A n \in 0..MaxDepth :
                 /\ Nested[n] \subseteq Within[n] /\ Within[n] \subseteq in.graph
                 /\ \A s \in Within[n] : Refs[s] \subseteq Within[n]
<1> DEFINE S == SUBSET in.graph
           F == [A \in S |-> AskedFrom(A)]
           Fits(f) == f = [n \in 0..MaxDepth |-> IF n = 0 THEN Entered ELSE AskedFrom(f[n - 1])]
<1>0. MaxDepth \in Nat \ {0}
  BY DepthAssumption
<1>1. \A A \in S : AskedFrom(A) \in S
  <2> TAKE A \in S
  <2>1. \A s \in UNION {Closure(Refs, t) : t \in A} :
           s \in in.graph /\ AskedBy(s) \subseteq in.graph
    <3> TAKE s \in UNION {Closure(Refs, t) : t \in A}
    <3>1. s \in in.graph /\ s \in Shapes
      BY ReachIs
    <3>2. AskedBy(s) \subseteq Refs[s]
      BY <3>1, AskedIsReferred
    <3>3. Refs[s] \subseteq in.graph
      BY <3>1 DEF InputOK
    <3> QED BY <3>1, <3>2, <3>3
  <2> QED BY <2>1 DEF AskedFrom
<1>2. Entered \in S
  BY EnteredOK
<1>3. \E f : Fits(f)
  <2>1. F \in [S -> S]
    BY <1>1
  <2>2. \A A \in S : F[A] = AskedFrom(A)
    OBVIOUS
  <2> HIDE DEF F, S
  <2>3. PICK f \in [0..MaxDepth -> S] : Iterates(f, MaxDepth, F, Entered)
    BY <1>0, <1>2, <2>1, IterateExists
  <2>4. ASSUME NEW k \in 0..MaxDepth
        PROVE  f[k] = IF k = 0 THEN Entered ELSE AskedFrom(f[k - 1])
    <3>1. k # 0 => k - 1 \in 0..MaxDepth
      BY <1>0
    <3> QED BY <2>2, <2>3, <3>1 DEF Iterates
  <2>5. f = [k \in 0..MaxDepth |-> IF k = 0 THEN Entered ELSE AskedFrom(f[k - 1])]
    BY <2>4
  <2> QED BY <2>5
<1>4. Nested = CHOOSE f : Fits(f)
  BY DEF Nested, AskedFrom
<1>5. Fits(Nested)
  <2> HIDE DEF Fits
  <2> QED BY <1>3, <1>4
<1>6. Nested[0] = Entered /\ \A n \in 1..MaxDepth : Nested[n] = AskedFrom(Nested[n - 1])
  <2>1. 0 \in 0..MaxDepth /\ \A n \in 1..MaxDepth : n \in 0..MaxDepth /\ n # 0
    BY <1>0
  <2> QED BY <1>5, <2>1
<1> HIDE DEF Fits
<1>7. \A n \in 0..MaxDepth : Nested[n] \in S
  <2> DEFINE Bad == {n \in 0..MaxDepth : Nested[n] \notin S}
  <2> HIDE DEF S
  <2>1. SUFFICES ASSUME NEW m \in Bad, \A n \in Bad : m <= n
                 PROVE  FALSE
    <3>1. Bad \in SUBSET Nat
      BY <1>0
    <3>2. (\A n \in 0..MaxDepth : Nested[n] \in S) <=> Bad = {}
      OBVIOUS
    <3> HIDE DEF Bad
    <3> QED BY <2>1, <3>1, <3>2, LeastNumber
  <2>2. m \in 0..MaxDepth /\ Nested[m] \notin S
    OBVIOUS
  <2>3. m # 0
    BY <1>2, <1>6, <2>2
  <2>4. m \in 1..MaxDepth /\ m - 1 \in 0..MaxDepth /\ ~(m <= m - 1)
    BY <1>0, <2>2, <2>3
  <2>5. Nested[m - 1] \in S
    BY <2>1, <2>4
  <2> QED BY <1>1, <1>6, <2>2, <2>4, <2>5
<1>8. \A n \in 1..MaxDepth : \A s \in Within[n - 1] : AskedBy(s) \subseteq Nested[n]
  <2> TAKE n \in 1..MaxDepth
  <2>1. n - 1 \in 0..MaxDepth
    BY <1>0
  <2>2. Within[n - 1] = UNION {Closure(Refs, t) : t \in Nested[n - 1]}
    BY <2>1 DEF Within
  <2> QED BY <1>6, <2>2 DEF AskedFrom
<1>9. ASSUME NEW n \in 0..MaxDepth
      PROVE  /\ Nested[n] \subseteq Within[n] /\ Within[n] \subseteq in.graph
             /\ \A s \in Within[n] : Refs[s] \subseteq Within[n]
  <2> DEFINE A == Nested[n]
  <2>1. A \subseteq in.graph
    BY <1>7
  <2>2. Within[n] = UNION {Closure(Refs, t) : t \in A}
    BY DEF Within
  <2> HIDE DEF A
  <2>3. A \subseteq Within[n] /\ Within[n] \subseteq in.graph
    BY <2>1, <2>2, ReachIs
  <2>4. \A s \in Within[n] : Refs[s] \subseteq Within[n]
    <3> TAKE s \in Within[n]
    <3>1. PICK t \in A : s \in Closure(Refs, t)
      BY <2>2
    <3>2. Refs[s] \subseteq Closure(Refs, t)
      BY <2>1, <3>1, ReachIs
    <3> QED BY <2>2, <3>2
  <2> QED BY <2>3, <2>4 DEF A
<1> QED BY <1>6, <1>8, <1>9

\* What a run starts from, and so what it can come to, stays as it is.
LEMMA NestedStays ==
    ASSUME in' = in
    PROVE  Entered' = Entered /\ Nested' = Nested /\ Within' = Within /\ Given' = Given
<1>1. Given' = Given
  BY DEF Given, Grouped
<1>2. Entered' = Entered
  BY <1>1 DEF Entered
<1>3. Nested = NestedBelow(Entered)
  BY DEF Nested, NestedBelow, AskedFrom
<1>4. Nested' = NestedBelow(Entered')
  BY DEF Nested, NestedBelow, AskedFrom
<1>5. Nested' = Nested
  BY <1>2, <1>3, <1>4
<1>6. Within' = Within
  BY <1>5 DEF Within
<1> QED BY <1>1, <1>2, <1>5, <1>6

-----------------------------------------------------------------------------
(* How deep a shape is asked for. *)

\* The frames of a call are those above its base and below the next one's; each
\* is for a shape of that level.
Chained(levels, stack, marks) ==
    \A k \in 1..Len(marks), i \in 1..Len(stack) :
        marks[k] < i /\ (k < Len(marks) => i <= marks[k + 1]) => stack[i].id \in levels[k - 1]
Chain == Chained(Within, Standing(frames), Bases(calls))

\* A frame is popped.
LEMMA ChainPop ==
    ASSUME NEW levels, NEW S, NEW stack \in Seq(S), NEW marks \in Seq(Nat), Len(stack) > 0,
           Chained(levels, stack, marks)
    PROVE  Chained(levels, SubSeq(stack, 1, Len(stack) - 1), marks)
<1> DEFINE n == Len(stack)
           less == SubSeq(stack, 1, n - 1)
<1>1. n \in Nat \ {0} /\ stack # <<>>
  BY EmptySeq
<1>2. less = Front(stack)
  BY DEF Front
<1>3. Len(less) = n - 1 /\ \A i \in 1..(n - 1) : less[i] = stack[i]
  BY <1>1, <1>2, FrontOf
<1> HIDE DEF less
<1>4. \A i \in 1..(n - 1) : i \in 1..Len(stack)
  BY <1>1
<1>5. Chained(levels, less, marks)
  BY <1>3, <1>4 DEF Chained
<1> QED BY <1>5 DEF less

\* A call without frames returns.
LEMMA ChainReturn ==
    ASSUME NEW levels, NEW stack, Len(stack) \in Nat, NEW marks \in Seq(Nat), marks # <<>>,
           Len(stack) = marks[Len(marks)],
           Chained(levels, stack, marks)
    PROVE  Chained(levels, stack, SubSeq(marks, 1, Len(marks) - 1))
<1> DEFINE m == Len(marks)
           less == SubSeq(marks, 1, m - 1)
<1>1. m \in Nat \ {0}
  BY EmptySeq
<1>2. less = Front(marks)
  BY DEF Front
<1>3. Len(less) = m - 1 /\ \A i \in 1..(m - 1) : less[i] = marks[i]
  BY <1>1, <1>2, FrontOf
<1> HIDE DEF less
<1>4. ASSUME NEW k \in 1..(m - 1), NEW i \in 1..Len(stack),
             less[k] < i, k < m - 1 => i <= less[k + 1]
      PROVE  stack[i].id \in levels[k - 1]
  <2>1. k \in 1..m /\ marks[k] < i
    BY <1>1, <1>3, <1>4
  <2>2. i <= marks[k + 1]
    <3>1. CASE k < m - 1
      <4>1. k + 1 \in 1..(m - 1)
        BY <1>1, <3>1
      <4> QED BY <1>3, <1>4, <3>1, <4>1
    <3>2. CASE ~(k < m - 1)
      <4>1. k + 1 = m
        BY <1>1, <3>2
      <4> QED BY <4>1
    <3> QED BY <3>1, <3>2
  <2> QED BY <2>1, <2>2 DEF Chained
<1>5. Chained(levels, stack, less)
  BY <1>3, <1>4 DEF Chained
<1> QED BY <1>5 DEF less

\* The running call gets a frame for a shape of its level.
LEMMA ChainPush ==
    ASSUME NEW levels, NEW S, NEW stack \in Seq(S), NEW marks \in Seq(Nat), marks # <<>>,
           \A k \in 1..Len(marks) : marks[k] <= Len(stack),
           NEW x \in S, x.id \in levels[Len(marks) - 1],
           Chained(levels, stack, marks)
    PROVE  Chained(levels, Append(stack, x), marks)
<1> DEFINE n == Len(stack)
           m == Len(marks)
           more == Append(stack, x)
<1>1. /\ n \in Nat /\ Len(more) = n + 1
      /\ \A i \in 1..n : more[i] = stack[i]
      /\ more[n + 1] = x
  BY AppendOf
<1>2. m \in Nat \ {0} /\ \A k \in 1..m : marks[k] \in Nat /\ marks[k] <= n
  BY EmptySeq, ElementOfSeq
<1> HIDE DEF more
<1>3. ASSUME NEW k \in 1..m, NEW i \in 1..(n + 1),
             marks[k] < i, k < m => i <= marks[k + 1]
      PROVE  more[i].id \in levels[k - 1]
  <2>1. CASE i = n + 1
    <3>1. k = m
      <4> SUFFICES ASSUME k < m PROVE FALSE
        BY <1>2
      <4>1. k + 1 \in 1..m
        BY <1>2
      <4>2. i <= marks[k + 1] /\ marks[k + 1] <= n /\ marks[k + 1] \in Nat
        BY <1>2, <1>3, <4>1
      <4> QED BY <1>1, <2>1, <4>2
    <3> QED BY <1>1, <2>1, <3>1
  <2>2. CASE i # n + 1
    <3>1. i \in 1..n
      BY <1>1, <2>2
    <3>2. stack[i].id \in levels[k - 1]
      BY <1>3, <3>1 DEF Chained
    <3> QED BY <1>1, <3>1, <3>2
  <2> QED BY <2>1, <2>2
<1>4. Chained(levels, more, marks)
  BY <1>1, <1>3 DEF Chained
<1> QED BY <1>4 DEF more

\* A call is made on top of the frames that stand.
LEMMA ChainEnter ==
    ASSUME NEW levels, NEW stack, Len(stack) \in Nat, NEW marks \in Seq(Nat),
           Chained(levels, stack, marks)
    PROVE  Chained(levels, stack, Append(marks, Len(stack)))
<1> DEFINE m == Len(marks)
           more == Append(marks, Len(stack))
<1>1. /\ m \in Nat /\ Len(more) = m + 1
      /\ \A k \in 1..m : more[k] = marks[k]
      /\ more[m + 1] = Len(stack)
  BY AppendOf
<1> HIDE DEF more
<1>2. ASSUME NEW k \in 1..(m + 1), NEW i \in 1..Len(stack),
             more[k] < i, k < m + 1 => i <= more[k + 1]
      PROVE  stack[i].id \in levels[k - 1]
  <2>1. k # m + 1
    BY <1>1, <1>2
  <2>2. k \in 1..m
    BY <1>1, <2>1
  <2>3. marks[k] < i
    BY <1>1, <1>2, <2>2
  <2>4. k < m => i <= marks[k + 1]
    <3> SUFFICES ASSUME k < m PROVE i <= marks[k + 1]
      OBVIOUS
    <3>1. k + 1 \in 1..m /\ k < m + 1
      BY <1>1
    <3> QED BY <1>1, <1>2, <3>1
  <2> QED BY <2>2, <2>3, <2>4 DEF Chained
<1>3. Chained(levels, stack, more)
  BY <1>1, <1>2 DEF Chained
<1> QED BY <1>3 DEF more


\* What the guard's invariant says of its view of the frames and the calls.
LEMMA ViewFacts ==
    ASSUME Inv
    PROVE  /\ Standing(frames) \in Seq(G!Frame) /\ Bases(calls) \in Seq(Nat)
           /\ Len(Standing(frames)) = Len(frames) /\ Len(frames) \in Nat
           /\ Len(Bases(calls)) = Len(calls) /\ Len(calls) \in 0..MaxDepth
           /\ depth = Len(calls)
           /\ \A k \in 1..Len(Bases(calls)) : Bases(calls)[k] <= Len(Standing(frames))
           /\ calls # <<>> => Len(calls) \in 1..MaxDepth /\ Bases(calls) # <<>>
           /\ frames # <<>> => G!Top.id = Top.id
           /\ Running => /\ calls # <<>> /\ frames # <<>>
                         /\ Len(frames) \in 1..Len(frames)
                         /\ Bases(calls)[Len(calls)] < Len(frames)
                         /\ Standing(frames)[Len(frames)].id = Top.id
<1>1. /\ G!TypeOK /\ G!Nesting /\ InputOK(in)
  BY InputFacts DEF Inv, G!IInv
<1>2. /\ Standing(frames) \in Seq(G!Frame) /\ Bases(calls) \in Seq(Nat)
      /\ depth \in Nat /\ depth <= MaxDepth
      /\ \A k \in 1..Len(Bases(calls)) : Bases(calls)[k] <= Len(Standing(frames))
  BY <1>1 DEF G!TypeOK, G!Nesting
<1>3. /\ Len(Standing(frames)) = Len(frames) /\ Len(frames) \in Nat
      /\ Len(Bases(calls)) = Len(calls) /\ Len(calls) \in Nat /\ depth = Len(calls)
      /\ Bases(calls) = <<>> <=> calls = <<>>
      /\ frames # <<>> => G!Top.id = Top.id
  BY SameView, Facts
<1>4. Len(calls) \in 0..MaxDepth
  BY <1>2, <1>3, DepthAssumption
<1>5. calls # <<>> => Len(calls) \in 1..MaxDepth
  BY <1>4, Facts, DepthAssumption
<1>6. ASSUME Running
      PROVE  /\ calls # <<>> /\ frames # <<>> /\ Len(frames) \in 1..Len(frames)
             /\ Bases(calls)[Len(calls)] < Len(frames)
             /\ Standing(frames)[Len(frames)].id = Top.id
  <2>1. calls # <<>> /\ frames # <<>> /\ Len(frames) \in 1..Len(frames)
    BY <1>6, RunningFacts, Facts
  <2>2. G!Running
    BY <1>6, SameView
  <2>3. Bases(calls)[Len(calls)] < Len(frames)
    BY <1>3, <2>2 DEF G!Running
  <2>4. Standing(frames)[Len(frames)].id = Top.id
    BY <1>3, <2>1 DEF G!Top
  <2> QED BY <2>1, <2>3, <2>4
<1> QED BY <1>2, <1>3, <1>4, <1>5, <1>6

\* The top frame of a call is for a shape of the call's level.
LEMMA ChainTop ==
    ASSUME Inv, Chain, Running
    PROVE  Top.id \in Within[Len(calls) - 1]
<1>1. /\ Len(Bases(calls)) = Len(calls) /\ Len(calls) \in 1..Len(Bases(calls))
      /\ Len(frames) \in 1..Len(Standing(frames))
      /\ Bases(calls)[Len(calls)] < Len(frames)
      /\ Standing(frames)[Len(frames)].id = Top.id
      /\ Len(calls) \in Nat
  BY ViewFacts, Facts
<1> QED BY <1>1 DEF Chain, Chained

\* push_frame adds a frame for a shape of the running call's level, or none.
LEMMA ChainFrame ==
    ASSUME NEW levels, NEW marks \in Seq(Nat), marks # <<>>, Inv,
           \A k \in 1..Len(marks) : marks[k] <= Len(Standing(frames)),
           Chained(levels, Standing(frames), marks),
           NEW s \in Shapes, NEW kept, s \in levels[Len(marks) - 1], G!PushFrame(s, kept)
    PROVE  Chained(levels, Standing(frames'), marks)
<1> DEFINE stack == Standing(frames)
           x == [id |-> s, mark |-> Len(pairs)]
<1>1. Standing(frames') = stack \/ Standing(frames') = Append(stack, x)
  BY DEF G!PushFrame
<1>2. stack \in Seq(G!Frame)
  BY ViewFacts
<1>3. x \in G!Frame /\ x.id = s
  <2>1. Len(pairs) \in Nat
    BY Facts, EmptySeq
  <2> QED BY <2>1 DEF G!Frame
<1> HIDE DEF stack, x
<1>4. Chained(levels, Append(stack, x), marks)
  <2>1. /\ \A k \in 1..Len(marks) : marks[k] <= Len(stack)
        /\ Chained(levels, stack, marks)
    BY DEF stack
  <2> QED BY <1>2, <1>3, <2>1, ChainPush
<1> QED BY <1>1, <1>4 DEF stack

\* A call is made for a shape of the next level.
LEMMA ChainCall ==
    ASSUME Inv, Chain, in' = in, NEW s \in Shapes, NEW kept,
           s \in Within[Len(calls)], G!Enter(s, kept)
    PROVE  Chain'
<1> DEFINE marks == Append(Bases(calls), Len(Standing(frames)))
<1>1. /\ Standing(frames) \in Seq(G!Frame) /\ Bases(calls) \in Seq(Nat)
      /\ Len(Standing(frames)) \in Nat /\ Len(Bases(calls)) = Len(calls)
      /\ \A k \in 1..Len(Bases(calls)) : Bases(calls)[k] <= Len(Standing(frames))
  BY ViewFacts
<1>2. Bases(calls') = marks /\ G!PushFrame(s, kept)
  BY DEF G!Enter
<1>3. Chained(Within, Standing(frames), marks)
  BY <1>1, ChainEnter DEF Chain
<1>4. /\ marks \in Seq(Nat) /\ marks # <<>> /\ Len(marks) = Len(calls) + 1
      /\ \A k \in 1..Len(marks) : marks[k] <= Len(Standing(frames))
  <2> DEFINE bs == Bases(calls)
             l == Len(Standing(frames))
  <2>1. bs \in Seq(Nat) /\ l \in Nat /\ \A k \in 1..Len(bs) : bs[k] <= l
    BY <1>1
  <2>2. marks = Append(bs, l) /\ Len(bs) = Len(calls)
    BY <1>1
  <2> HIDE DEF bs, l, marks
  <2>3. /\ Append(bs, l) \in Seq(Nat) /\ Append(bs, l) # <<>>
        /\ Len(Append(bs, l)) = Len(bs) + 1 /\ Len(bs) \in Nat
        /\ \A k \in 1..Len(bs) : Append(bs, l)[k] = bs[k]
        /\ Append(bs, l)[Len(bs) + 1] = l
    BY <2>1, AppendOf
  <2>4. ASSUME NEW k \in 1..(Len(bs) + 1)
        PROVE  Append(bs, l)[k] <= l
    <3>1. k \in 1..Len(bs) \/ k = Len(bs) + 1
      BY <2>3
    <3>2. CASE k \in 1..Len(bs)
      BY <2>1, <2>3, <3>2
    <3>3. CASE k = Len(bs) + 1
      BY <2>1, <2>3, <3>3
    <3> QED BY <3>1, <3>2, <3>3
  <2> QED BY <2>2, <2>3, <2>4 DEF l
<1>5. s \in Within[Len(marks) - 1]
  <2>1. Len(marks) - 1 = Len(calls)
    BY <1>4, ViewFacts
  <2> QED BY <2>1
<1> HIDE DEF marks
<1>6. Chained(Within, Standing(frames'), marks)
  BY <1>2, <1>3, <1>4, <1>5, ChainFrame
<1>7. Within' = Within
  BY NestedStays
<1> QED BY <1>2, <1>6, <1>7 DEF Chain

\* A call that comes to nothing has no frames.
LEMMA ChainFalter ==
    ASSUME Inv, Chain, in' = in, NEW s, G!Falter(s)
    PROVE  Chain'
<1>1. /\ Standing(frames') = Standing(frames)
      /\ Bases(calls') = Append(Bases(calls), Len(Standing(frames)))
  BY DEF G!Falter
<1>2. Bases(calls) \in Seq(Nat) /\ Len(Standing(frames)) \in Nat
  BY ViewFacts
<1>3. Chained(Within, Standing(frames), Append(Bases(calls), Len(Standing(frames))))
  BY <1>2, ChainEnter DEF Chain
<1>4. Within' = Within
  BY NestedStays
<1> QED BY <1>1, <1>3, <1>4 DEF Chain

\* Any other step of the guard keeps to the levels of the calls that stand.
LEMMA ChainStep ==
    ASSUME Inv, Chain, in' = in, [G!Next]_(G!vars), depth' # depth + 1
    PROVE  Chain'
<1>1. /\ Standing(frames) \in Seq(G!Frame) /\ Bases(calls) \in Seq(Nat)
      /\ Len(Standing(frames)) \in Nat /\ Len(Bases(calls)) = Len(calls)
      /\ \A k \in 1..Len(Bases(calls)) : Bases(calls)[k] <= Len(Standing(frames))
  BY ViewFacts
<1>2. Within' = Within
  BY NestedStays
<1>3. SUFFICES Chained(Within, Standing(frames'), Bases(calls'))
  BY <1>2 DEF Chain
<1>4. Chained(Within, Standing(frames), Bases(calls))
  BY DEF Chain
<1>5. CASE UNCHANGED G!vars \/ G!Refuse \/ G!Fail
  <2>1. Standing(frames') = Standing(frames) /\ Bases(calls') = Bases(calls)
    BY <1>5 DEF G!vars, G!Refuse, G!Fail
  <2> QED BY <1>4, <2>1
<1>6. CASE G!Leave
  <2>1. /\ Bases(calls') = Bases(calls) /\ Running
        /\ Standing(frames') = SubSeq(Standing(frames), 1, Len(Standing(frames)) - 1)
    BY <1>6, SameView DEF G!Leave, G!PopFrame
  <2>2. Len(Standing(frames)) > 0
    BY <2>1, RunningFacts, ViewFacts
  <2> QED BY <1>1, <1>4, <2>1, <2>2, ChainPop
<1>7. CASE G!Return
  <2>1. /\ Bases(calls) # <<>> /\ Len(Standing(frames)) = Bases(calls)[Len(Bases(calls))]
        /\ Bases(calls') = SubSeq(Bases(calls), 1, Len(Bases(calls)) - 1)
        /\ Standing(frames') = Standing(frames)
    BY <1>7 DEF G!Return, G!InvocationEmpty
  <2> QED BY <1>1, <1>4, <2>1, ChainReturn
<1>8. ASSUME NEW s \in Shapes, NEW kept \in Seq(Nodes), G!Descend(s, kept)
      PROVE  Chained(Within, Standing(frames'), Bases(calls'))
  <2>1. /\ Bases(calls') = Bases(calls) /\ Running /\ s \in G!Callable /\ G!PushFrame(s, kept)
    BY <1>8, SameView DEF G!Descend
  <2>2. /\ frames # <<>> /\ Bases(calls) # <<>> /\ G!Top.id = Top.id
        /\ Len(calls) - 1 \in 0..MaxDepth
    <3>1. frames # <<>> /\ calls # <<>>
      BY <2>1, RunningFacts
    <3>2. Len(calls) \in 1..MaxDepth
      BY <3>1, ViewFacts
    <3>3. Len(calls) - 1 \in 0..MaxDepth
      BY <3>2, DepthAssumption
    <3> QED BY <3>1, <3>3, ViewFacts
  <2>3. s \in Refs[Top.id]
    BY <2>1, <2>2, SameView DEF G!Callable
  <2>4. s \in Within[Len(Bases(calls)) - 1]
    BY <1>1, <2>1, <2>2, <2>3, ChainTop, InputFacts, NestedIs
  <2> QED BY <1>1, <1>4, <2>1, <2>2, <2>4, ChainFrame
<1>9. ASSUME NEW s \in Shapes, NEW kept \in Seq(Nodes), G!Enter(s, kept)
      PROVE  FALSE
  BY <1>9 DEF G!Enter
<1>10. ASSUME NEW s \in Shapes, G!Falter(s)
       PROVE  FALSE
  BY <1>10 DEF G!Falter
<1> QED BY <1>5, <1>6, <1>7, <1>8, <1>9, <1>10 DEF G!Next

-----------------------------------------------------------------------------
(* Where the driver's shapes come from. *)

\* A line of jobs: each for a shape the run starts from, and for one of the
\* roots as long as n more jobs come behind it.
InLine(line, starts, roots, n) ==
    \A i \in 1..Len(line) :
        line[i].shape \in starts /\ (i + n <= Len(line) => line[i].shape \in roots)

\* The driver's jobs and pieces are for shapes the run starts from; its targets
\* are resolved, and its work cut up, for roots only.
Lines ==
    /\ InLine(jobs, Entered, ToSet(in.roots), Len(Given))
    /\ \A i \in DOMAIN asks : asks[i].shape \in Entered
    /\ \A i \in DOMAIN pieces : pieces[i].shape \in ToSet(in.roots)
    /\ pc = "targets" /\ plan = "resolve" => ToResolve

\* The same after a step, part by part.
LEMMA LinesAre ==
    ASSUME in' = in,
           InLine(jobs', Entered, ToSet(in.roots), Len(Given)),
           \A i \in DOMAIN asks' : asks'[i].shape \in Entered,
           \A i \in DOMAIN pieces' : pieces'[i].shape \in ToSet(in.roots),
           pc' = "targets" /\ plan' = "resolve" => Len(jobs') > Len(Given)
    PROVE  Lines'
<1>1. Entered' = Entered /\ Given' = Given
  BY NestedStays
<1> QED BY <1>1 DEF Lines, InLine, ToResolve

\* How many focus sets are given.
LEMMA GivenLen ==
    ASSUME Inv
    PROVE  Len(Given) \in Nat
BY InputFacts, GivenOK, EmptySeq

\* The first job is done.
LEMMA InLineTail ==
    ASSUME NEW S, NEW line \in Seq(S), line # <<>>, NEW starts, NEW roots, NEW n \in Nat,
           InLine(line, starts, roots, n)
    PROVE  /\ line[1].shape \in starts
           /\ Len(line) > n => line[1].shape \in roots
           /\ InLine(Tail(line), starts, roots, n)
<1> DEFINE l == Len(line)
           rest == Tail(line)
<1>1. l \in Nat \ {0} /\ 1 \in 1..l
  BY EmptySeq
<1>2. line[1].shape \in starts /\ (l > n => line[1].shape \in roots)
  BY <1>1 DEF InLine
<1>3. Len(rest) = l - 1 /\ \A i \in 1..(l - 1) : rest[i] = line[i + 1]
  <2>1. rest \in Seq(S) /\ Len(rest) = l - 1
    BY HeadTailProperties
  <2>2. \A i \in 1..Len(rest) : rest[i] = line[i + 1]
    BY HeadTailProperties
  <2> QED BY <2>1, <2>2
<1> HIDE DEF rest
<1>4. ASSUME NEW i \in 1..(l - 1)
      PROVE  rest[i].shape \in starts /\ (i + n <= l - 1 => rest[i].shape \in roots)
  <2>1. i + 1 \in 1..l /\ (i + n <= l - 1 => i + 1 + n <= l)
    BY <1>1
  <2> QED BY <1>3, <2>1 DEF InLine
<1>5. InLine(rest, starts, roots, n)
  BY <1>3, <1>4 DEF InLine
<1> QED BY <1>2, <1>5 DEF rest

\* Jobs for roots go to the head of the line.
LEMMA InLineBoth ==
    ASSUME NEW S, NEW new \in Seq(S), NEW line \in Seq(S),
           NEW starts, NEW roots, roots \subseteq starts, NEW n \in Nat,
           \A i \in 1..Len(new) : new[i].shape \in roots,
           InLine(line, starts, roots, n)
    PROVE  InLine(new \o line, starts, roots, n)
<1> DEFINE a == Len(new)
           l == Len(line)
           both == new \o line
<1>1. a \in Nat /\ l \in Nat
  BY EmptySeq
<1>2. /\ Len(both) = a + l
      /\ \A i \in 1..(a + l) : both[i] = IF i <= a THEN new[i] ELSE line[i - a]
  BY ConcatProperties
<1> HIDE DEF both
<1>3. ASSUME NEW i \in 1..(a + l)
      PROVE  both[i].shape \in starts /\ (i + n <= a + l => both[i].shape \in roots)
  <2>1. CASE i <= a
    <3>1. i \in 1..a
      BY <1>1, <2>1
    <3> QED BY <1>2, <2>1, <3>1
  <2>2. CASE ~(i <= a)
    <3>1. i - a \in 1..l /\ (i + n <= a + l => i - a + n <= l)
      BY <1>1, <2>2
    <3> QED BY <1>2, <2>2, <3>1 DEF InLine
  <2> QED BY <2>1, <2>2
<1>4. InLine(both, starts, roots, n)
  BY <1>2, <1>3 DEF InLine
<1> QED BY <1>4 DEF both

\* A run starts with its roots in front of what is given.
LEMMA InitLines == Init => Lines
<1> SUFFICES ASSUME Init PROVE Lines
  OBVIOUS
<1>1. /\ pc = "next" /\ pieces = <<>> /\ asks = <<>> /\ InputOK(in)
      /\ jobs = [i \in DOMAIN in.roots |-> Job(in.roots[i])] \o Given
  BY InputsAssumption DEF Init
<1> DEFINE firsts == [i \in DOMAIN in.roots |-> Job(in.roots[i])]
           g == Given
           roots == ToSet(in.roots)
<1>2. /\ g \in Seq(JobSet) /\ Len(g) \in Nat /\ \A i \in 1..Len(g) : g[i].shape \in Entered
  <2>1. g \in Seq(JobSet)
    BY <1>1, GivenOK
  <2>2. DOMAIN g = 1..Len(g) /\ Len(g) \in Nat
    BY <2>1, LenProperties
  <2> QED BY <1>1, <2>1, <2>2, EnteredOK
<1>3. firsts \in Seq(JobSet) /\ \A i \in 1..Len(firsts) : firsts[i].shape \in roots
  <2>1. in.roots \in Seq(in.graph) /\ in.graph \subseteq Shapes
    BY <1>1 DEF InputOK
  <2>2. /\ DOMAIN in.roots = 1..Len(in.roots) /\ Len(in.roots) \in Nat
        /\ \A i \in DOMAIN in.roots : in.roots[i] \in in.graph /\ in.roots[i] \in roots
    BY <2>1, LenProperties, ElementOfSeq DEF ToSet
  <2>3. \A s \in in.graph : Job(s) \in JobSet /\ Job(s).shape = s
    BY <2>1, WellFormed DEF Job, JobSet
  <2>4. /\ firsts \in [1..Len(in.roots) -> JobSet]
        /\ \A i \in 1..Len(in.roots) : firsts[i].shape \in roots
    BY <2>2, <2>3
  <2> HIDE DEF firsts, roots
  <2>5. firsts \in Seq(JobSet) /\ Len(firsts) = Len(in.roots)
    BY <2>2, <2>4, FunctionIsSeq
  <2> QED BY <2>4, <2>5
<1>4. roots \subseteq Entered
  BY <1>1, EnteredOK
<1> HIDE DEF firsts, roots, g
<1>5. InLine(g, Entered, roots, Len(g))
  <2>1. \A i \in 1..Len(g) : ~(i + Len(g) <= Len(g))
    BY <1>2
  <2> QED BY <1>2, <2>1 DEF InLine
<1>6. InLine(firsts \o g, Entered, roots, Len(g))
  BY <1>2, <1>3, <1>4, <1>5, InLineBoth
<1>7. DOMAIN <<>> = {}
  OBVIOUS
<1> QED BY <1>1, <1>6, <1>7 DEF Lines, firsts, roots, g


\* What the driver's state is made of, for the steps below.
LEMMA LineFacts ==
    ASSUME Inv, Lines
    PROVE  /\ jobs \in Seq(JobSet) /\ asks \in Seq(AskSet)
           /\ DOMAIN pieces = 1..Len(pieces) /\ Len(pieces) \in Nat
           /\ \A i \in DOMAIN asks : asks[i].shape \in Entered
           /\ \A i \in DOMAIN pieces : pieces[i].shape \in ToSet(in.roots)
           /\ InLine(jobs, Entered, ToSet(in.roots), Len(Given))
           /\ Len(Given) \in Nat /\ Len(jobs) \in Nat
           /\ jobs # <<>> => /\ jobs[1].shape \in Entered
                             /\ ToResolve => jobs[1].shape \in ToSet(in.roots)
                             /\ InLine(Tail(jobs), Entered, ToSet(in.roots), Len(Given))
                             /\ Len(Tail(jobs)) = Len(jobs) - 1
<1>1. /\ jobs \in Seq(JobSet) /\ asks \in Seq(AskSet)
      /\ DOMAIN pieces = 1..Len(pieces) /\ Len(pieces) \in Nat
  BY DriverFacts, PiecesFacts DEF Inv
<1>2. /\ \A i \in DOMAIN asks : asks[i].shape \in Entered
      /\ \A i \in DOMAIN pieces : pieces[i].shape \in ToSet(in.roots)
      /\ InLine(jobs, Entered, ToSet(in.roots), Len(Given))
  BY DEF Lines
<1>3. Len(Given) \in Nat /\ Len(jobs) \in Nat
  BY <1>1, GivenLen, EmptySeq
<1>4. ASSUME jobs # <<>>
      PROVE  /\ jobs[1].shape \in Entered
             /\ ToResolve => jobs[1].shape \in ToSet(in.roots)
             /\ InLine(Tail(jobs), Entered, ToSet(in.roots), Len(Given))
             /\ Len(Tail(jobs)) = Len(jobs) - 1
  <2>1. /\ jobs[1].shape \in Entered
        /\ Len(jobs) > Len(Given) => jobs[1].shape \in ToSet(in.roots)
        /\ InLine(Tail(jobs), Entered, ToSet(in.roots), Len(Given))
    BY <1>1, <1>2, <1>3, <1>4, InLineTail
  <2>2. Len(Tail(jobs)) = Len(jobs) - 1
    BY <1>1, <1>4, HeadTailProperties
  <2> QED BY <2>1, <2>2 DEF ToResolve
<1> QED BY <1>1, <1>2, <1>3, <1>4

\* The driver waits.
LEMMA LinesWait ==
    ASSUME Inv, Lines, in' = in, pc' = pc \/ pc' # "targets", plan' = plan,
           jobs' = jobs, asks' = asks, pieces' = pieces
    PROVE  Lines'
<1>1. pc' = "targets" /\ plan' = "resolve" => Len(jobs') > Len(Given)
  BY DEF Lines, ToResolve
<1> QED BY <1>1, LineFacts, LinesAre

\* A job is taken up, resolved, kept or cut up, and the pieces put together.
LEMMA LinesStep ==
    ASSUME Inv, Lines, NextJob \/ TargetsFail \/ Resolved \/ Keep \/ Split \/ Merge
    PROVE  Lines'
<1>0. in' = in /\ ToSet(in.roots) \subseteq Entered
      /\ \A s \in ToSet(in.roots) : Defs[s].where \subseteq Entered
  BY InputFacts, EnteredOK DEF NextJob, TargetsFail, Resolved, Keep, Split, Merge
<1>1. DOMAIN <<>> = {}
  OBVIOUS
<1>2. CASE NextJob
  <2>1. /\ pieces' = pieces /\ jobs' = jobs /\ plan' = plan
        /\ pc' = "targets" /\ plan = "resolve" => ToResolve
        /\ \/ asks' = asks
           \/ ToResolve /\ jobs # <<>> /\ asks' = Candidates(jobs[1].shape)
           \/ asks' = <<>>
    BY <1>2 DEF NextJob
  <2>2. \A i \in DOMAIN asks' : asks'[i].shape \in Entered
    <3>1. CASE ToResolve /\ jobs # <<>> /\ asks' = Candidates(jobs[1].shape)
      <4> DEFINE s == jobs[1].shape
                 Asks == [shape: Entered, node: Nodes]
      <4>1. s \in in.graph /\ Defs[s].where \subseteq Entered
        BY <1>0, <3>1, LineFacts, FirstJob
      <4>2. Candidates(s) \in Seq(Asks)
        BY <4>1, InputFacts, CandidatesOK
      <4>3. \A i \in DOMAIN asks' : asks'[i] \in Asks
        <5> HIDE DEF Asks, s
        <5>1. asks' \in Seq(Asks)
          BY <3>1, <4>2 DEF s
        <5> QED BY <5>1, LenProperties, ElementOfSeq
      <4> QED BY <4>3
    <3> QED BY <1>1, <2>1, <3>1, LineFacts
  <2>3. pc' = "targets" /\ plan' = "resolve" => Len(jobs') > Len(Given)
    BY <2>1 DEF ToResolve
  <2> QED BY <1>0, <2>1, <2>2, <2>3, LineFacts, LinesAre
<1>3. CASE Resolved
  <2> DEFINE piece == Piece(jobs[1].shape, Sorted(jobs[1].nodes))
  <2>1. /\ pc = "targets" /\ pc' = "next" /\ asks' = asks /\ jobs' = Tail(jobs)
        /\ pieces' = Append(pieces, piece) /\ plan = "resolve"
    BY <1>3 DEF Resolved
  <2>2. jobs # <<>> /\ ToResolve
    BY <2>1, DriverFacts DEF Lines
  <2>3. piece.shape \in ToSet(in.roots)
    BY <2>2, LineFacts DEF Piece
  <2>4. \A i \in DOMAIN pieces' : pieces'[i].shape \in ToSet(in.roots)
    <3> DEFINE S == ToSet(pieces) \cup {piece}
    <3>1. \A p \in S : p.shape \in ToSet(in.roots)
      BY <2>3, LineFacts DEF ToSet
    <3>2. pieces \in Seq(S)
      BY DriverFacts, SeqMonotonic DEF IsSeq
    <3>3. piece \in S
      OBVIOUS
    <3> HIDE DEF S, piece
    <3>4. pieces' \in Seq(S)
      BY <2>1, <3>2, <3>3, AppendProperties
    <3>5. \A i \in DOMAIN pieces' : pieces'[i] \in S
      BY <3>4, LenProperties, ElementOfSeq
    <3> QED BY <3>1, <3>5
  <2> HIDE DEF piece
  <2> QED BY <1>0, <2>1, <2>2, <2>4, LineFacts, LinesAre
<1>4. CASE Keep
  <2> DEFINE inHand == [i \in DOMAIN pieces |->
                            [shape |-> pieces[i].shape, nodes |-> ToSet(pieces[i].focus)]]
  <2>1. /\ pc' = pc /\ pc = "next" /\ asks' = asks /\ jobs' = inHand \o jobs
        /\ pieces' = <<>>
    BY <1>4 DEF Keep
  <2>2. /\ inHand \in [1..Len(pieces) -> JobSet]
        /\ \A i \in 1..Len(pieces) : inHand[i].shape \in ToSet(in.roots)
    BY PiecesFacts, LineFacts, MembersOfSeq DEF Inv, JobSet
  <2> HIDE DEF inHand
  <2>3. inHand \in Seq(JobSet) /\ Len(inHand) = Len(pieces)
    BY <2>2, LineFacts, FunctionIsSeq
  <2>4. InLine(inHand \o jobs, Entered, ToSet(in.roots), Len(Given))
    BY <1>0, <2>2, <2>3, LineFacts, InLineBoth
  <2> QED BY <1>0, <1>1, <2>1, <2>4, LineFacts, LinesAre
<1>5. CASE Split
  <2> DEFINE each == [i \in DOMAIN pieces |-> Chunks(pieces[i])]
             roots == ToSet(in.roots)
             Waiting == WaitSet(roots)
  <2>1. /\ Total >= MinFocus /\ pc' = "work" /\ asks' = asks /\ jobs' = jobs
        /\ pieces' = FlattenSeq(each)
    BY <1>5 DEF Split
  <2>2. each \in [1..Len(pieces) -> Seq(Waiting)]
    BY <2>1, LineFacts, ChunksOK
  <2>3. \A p \in Waiting : p.shape \in roots
    BY DEF WaitSet
  <2> HIDE DEF each, Waiting
  <2>4. each \in Seq(Seq(Waiting))
    BY <2>2, LineFacts, FunctionIsSeq
  <2>5. pieces' \in Seq(Waiting)
    BY <2>1, <2>4, FlattenMembers
  <2>6. \A i \in DOMAIN pieces' : pieces'[i] \in Waiting
    BY <2>5, LenProperties, ElementOfSeq
  <2> QED BY <1>0, <2>1, <2>3, <2>6, LineFacts, LinesAre
<1>6. CASE Merge
  <2>1. /\ pc' \in {"error", "next"} /\ asks' = asks /\ jobs' = jobs /\ pieces' = <<>>
    BY <1>6 DEF Merge
  <2> QED BY <1>0, <1>1, <2>1, LineFacts, LinesAre
<1>7. CASE TargetsFail
  <2>1. /\ pc' = "error" /\ plan' = plan /\ asks' = asks /\ jobs' = jobs /\ pieces' = pieces
    BY <1>7 DEF TargetsFail, driver
  <2> QED BY <1>0, <2>1, LinesWait
<1> QED BY <1>2, <1>3, <1>4, <1>5, <1>6, <1>7

\* A piece in hand is through: the shapes are the same.
LEMMA PieceDoneShapes ==
    ASSUME Inv, Lines, NEW state, NEW out, PieceDone(state, out)
    PROVE  \A i \in DOMAIN pieces' : pieces'[i].shape \in ToSet(in.roots)
<1>1. /\ DOMAIN pieces' = DOMAIN pieces
      /\ \A i \in DOMAIN pieces :
            \/ pieces'[i] = [pieces[i] EXCEPT !.state = state, !.out = out]
            \/ pieces'[i] = pieces[i]
  BY DEF PieceDone
<1>2. ASSUME NEW p, PieceOK(p)
      PROVE  [p EXCEPT !.state = state, !.out = out].shape = p.shape
  <2> DEFINE q == [p EXCEPT !.state = state]
             r == [q EXCEPT !.out = out]
  <2>1. DOMAIN q = {"shape", "focus", "state", "out"} /\ q.shape = p.shape
    BY <1>2 DEF PieceOK
  <2>2. [p EXCEPT !.state = state, !.out = out] = r
    OBVIOUS
  <2> HIDE DEF q
  <2>3. r.shape = p.shape
    BY <2>1
  <2> QED BY <2>2, <2>3
<1> QED BY <1>1, <1>2, LineFacts, DriverFacts

\* The driver or a worker calls, or takes what a call came to.
LEMMA LinesTurn ==
    ASSUME Inv, Lines, TestTarget \/ ValidateRoot \/ Work \/ Return
    PROVE  Lines'
<1>1. CASE TestTarget \/ ValidateRoot
  <2>1. /\ in' = in /\ plan' = plan /\ jobs' = jobs /\ asks' = asks /\ pieces' = pieces
        /\ pc' = pc \/ pc' # "targets"
    BY <1>1 DEF TestTarget, ValidateRoot, driver
  <2> QED BY <2>1, LinesWait
<1>2. CASE Work
  <2>1. PICK k \in DOMAIN pieces : pieces' = [pieces EXCEPT ![k].state = "running"]
    BY <1>2 DEF Work
  <2>2. in' = in /\ pc' = pc /\ pc = "work" /\ plan' = plan /\ jobs' = jobs /\ asks' = asks
    BY <1>2 DEF Work
  <2>3. \A i \in DOMAIN pieces' : pieces'[i].shape \in ToSet(in.roots)
    <3> DEFINE run == [pieces[k] EXCEPT !.state = "running"]
    <3>1. run.shape = pieces[k].shape
      BY DriverFacts DEF PieceOK
    <3>2. pieces' = [pieces EXCEPT ![k] = run]
      BY <2>1
    <3> HIDE DEF run
    <3> QED BY <3>1, <3>2, LineFacts
  <2> QED BY <2>2, <2>3, LineFacts, LinesAre
<1>3. CASE Return
  <2>1. /\ Returning /\ in' = in
        /\ failing => Throw
        /\ ~failing => \E conforms \in BOOLEAN : Answer(conforms)
    BY <1>3 DEF Return
  <2>2. calls # <<>>
    BY <2>1 DEF Returning
  <2>3. CASE failing
    <3>1. /\ plan' = plan /\ jobs' = jobs /\ asks' = asks
          /\ \/ pc = "work" /\ pc' = pc /\ PieceDone("failed", <<>>)
             \/ pc' = pc /\ pieces' = pieces
             \/ pc' = "error" /\ pieces' = pieces
      BY <2>1, <2>3 DEF Throw
    <3>2. CASE pc = "work" /\ pc' = pc /\ PieceDone("failed", <<>>)
      BY <2>1, <3>1, <3>2, PieceDoneShapes, LineFacts, LinesAre
    <3>3. CASE pieces' = pieces /\ (pc' = pc \/ pc' = "error")
      BY <2>1, <3>1, <3>3, LinesWait
    <3> QED BY <3>1, <3>2, <3>3
  <2>4. CASE ~failing
    <3>1. PICK conforms \in BOOLEAN : Answer(conforms)
      BY <2>1, <2>4
    <3>2. pc \in {"targets", "validate", "work"} /\ (pc = "targets" => asks # <<>>)
          /\ (pc \in {"targets", "validate"} => jobs # <<>>)
      BY <2>2, DriverFacts
    <3>3. CASE frames # <<>>
      <4>1. /\ plan' = plan /\ jobs' = jobs /\ asks' = asks /\ pieces' = pieces /\ pc' = pc
        BY <3>1, <3>3 DEF Answer, driver
      <4> QED BY <2>1, <4>1, LinesWait
    <3>4. CASE frames = <<>> /\ pc = "targets"
      <4> DEFINE first == [jobs[1] EXCEPT !.nodes = @ \cup {Head(asks).node}]
                 more == [jobs EXCEPT ![1] = first]
      <4>1. /\ asks' = Tail(asks)
            /\ jobs' = jobs \/ jobs' = more
            /\ pc' = pc /\ plan' = plan /\ pieces' = pieces
        BY <3>1, <3>4 DEF Answer
      <4>2. \A i \in DOMAIN asks' : asks'[i].shape \in Entered
        <5>1. asks \in Seq(AskSet) /\ asks # <<>> /\ DOMAIN asks = 1..Len(asks)
              /\ Len(asks) \in Nat
          BY <3>2, <3>4, LineFacts, LenProperties
        <5>2. /\ DOMAIN Tail(asks) = 1..(Len(asks) - 1)
              /\ \A i \in 1..(Len(asks) - 1) : Tail(asks)[i] = asks[i + 1]
          <6>1. Tail(asks) \in Seq(AskSet) /\ Len(Tail(asks)) = Len(asks) - 1
                /\ \A i \in 1..Len(Tail(asks)) : Tail(asks)[i] = asks[i + 1]
            BY <5>1, HeadTailProperties
          <6>2. DOMAIN Tail(asks) = 1..Len(Tail(asks))
            BY <6>1, LenProperties
          <6> QED BY <6>1, <6>2
        <5>3. \A i \in 1..(Len(asks) - 1) : i + 1 \in DOMAIN asks
          BY <5>1
        <5>4. \A i \in DOMAIN asks : asks[i].shape \in Entered
          BY LineFacts
        <5>5. \A i \in DOMAIN Tail(asks) : Tail(asks)[i].shape \in Entered
          BY <5>2, <5>3, <5>4
        <5> QED BY <4>1, <5>5
      <4>3. /\ jobs # <<>> /\ jobs \in Seq(JobSet) /\ Len(jobs) \in Nat \ {0}
            /\ jobs[1] \in JobSet /\ DOMAIN jobs = 1..Len(jobs)
        <5>1. jobs # <<>> /\ jobs \in Seq(JobSet)
          BY <3>2, <3>4, LineFacts
        <5>2. Len(jobs) \in Nat \ {0}
          BY <5>1, EmptySeq
        <5> QED BY <5>1, <5>2, ElementOfSeq, LenProperties
      <4>4. first \in JobSet /\ first.shape = jobs[1].shape
        <5>1. Head(asks) \in AskSet
          BY <3>2, <3>4, LineFacts, HeadTailProperties
        <5>2. Head(asks).node \in Nodes
          BY <5>1 DEF AskSet
        <5> QED BY <4>3, <5>2 DEF JobSet
      <4> HIDE DEF first
      <4>5. Len(more) = Len(jobs) /\ \A i \in 1..Len(jobs) : more[i].shape = jobs[i].shape
        <5>1. more \in Seq(JobSet) /\ Len(more) = Len(jobs)
          BY <4>3, <4>4, ExceptSeq
        <5>2. \A i \in 1..Len(jobs) : more[i] = IF i = 1 THEN first ELSE jobs[i]
          BY <4>3
        <5> HIDE DEF more
        <5> QED BY <4>4, <5>1, <5>2
      <4> HIDE DEF more
      <4>6. /\ Len(jobs') = Len(jobs)
            /\ \A i \in 1..Len(jobs) : jobs'[i].shape = jobs[i].shape
        BY <4>1, <4>5
      <4>7. InLine(jobs', Entered, ToSet(in.roots), Len(Given))
        BY <4>6, LineFacts DEF InLine
      <4>8. pc' = "targets" /\ plan' = "resolve" => Len(jobs') > Len(Given)
        BY <4>1, <4>6 DEF Lines, ToResolve
      <4> QED BY <2>1, <4>1, <4>2, <4>7, <4>8, LineFacts, LinesAre
    <3>5. CASE frames = <<>> /\ pc = "work"
      <4>1. /\ PieceDone("done", Last(calls).out) /\ pc' = pc /\ plan' = plan
            /\ jobs' = jobs /\ asks' = asks
        BY <3>1, <3>5 DEF Answer
      <4>2. \A i \in DOMAIN pieces' : pieces'[i].shape \in ToSet(in.roots)
        BY <4>1, PieceDoneShapes
      <4> QED BY <2>1, <3>5, <4>1, <4>2, LineFacts, LinesAre
    <3>6. CASE frames = <<>> /\ pc = "validate"
      <4>1. pc' = "next" /\ jobs' = Tail(jobs) /\ pieces' = pieces /\ asks' = asks
        BY <3>1, <3>6 DEF Answer
      <4> QED BY <2>1, <3>2, <3>6, <4>1, LineFacts, LinesAre
    <3> QED BY <3>2, <3>3, <3>4, <3>5, <3>6
  <2> QED BY <2>3, <2>4
<1> QED BY <1>1, <1>2, <1>3


-----------------------------------------------------------------------------
(* Why a run fails. *)

\* The shapes have a reason for a failure.
HasReason == (\E s \in in.graph : CanFail(s)) \/ Nested[MaxDepth] # {}

\* Something has failed, here or in a piece of work.
Blamed == failing \/ pc = "error" \/ \E i \in DOMAIN pieces : pieces[i].state = "failed"

\* What a run can come to holds of where it is, and what has failed had to.
Reasons == Lines /\ Chain /\ (Blamed => HasReason)

\* A shape whose value nodes cannot be found can fail.
LEMMA UnvaluedCanFail ==
    ASSUME NEW s \in Shapes, NEW focus \in Seq(Nodes), ~Valued(s, focus)
    PROVE  CanFail(s)
<1>1. PICK of \in Defs[s].values, n \in ToSet(focus) : n \notin DOMAIN of
  BY DEF Valued
<1>2. n \in Nodes
  <2>1. PICK i \in DOMAIN focus : focus[i] = n
    BY <1>1 DEF ToSet
  <2> QED BY <2>1, LenProperties, ElementOfSeq
<1>3. Nodes \ DOMAIN of # {}
  BY <1>1, <1>2
<1> QED BY <1>1, <1>3 DEF CanFail

\* push_frame fails for a shape whose value nodes cannot be found.
LEMMA PushFails ==
    ASSUME Inv, NEW stack, NEW s \in Shapes, NEW focus \in Seq(Nodes),
           PushFrame(stack, s, focus), failing' # failing
    PROVE  CanFail(s)
<1>1. ~Valued(s, Kept(s, focus))
  BY DEF PushFrame
<1>2. Kept(s, focus) \in Seq(Nodes)
  BY Facts, KeptIsFresh
<1> QED BY <1>1, <1>2, UnvaluedCanFail

\* A call fails for its shape, or at the limit, where the guard refuses it.
LEMMA CallFails ==
    ASSUME Inv, NEW s \in Shapes, NEW focus \in Seq(Nodes), NEW out, Call(s, focus, out),
           failing' # failing
    PROVE  CanFail(s) \/ (depth = MaxDepth /\ calls # <<>>)
<1>1. CASE depth >= MaxDepth
  <2>1. depth = Len(calls) /\ Len(calls) \in 0..MaxDepth
    BY ViewFacts
  <2>2. depth = MaxDepth /\ Len(calls) # 0
    BY <1>1, <2>1, DepthAssumption
  <2> QED BY <2>2, EmptySeq
<1>2. CASE ~(depth >= MaxDepth)
  <2>1. PushFrame(frames, s, focus)
    BY <1>2 DEF Call
  <2> QED BY <2>1, PushFails
<1> QED BY <1>1, <1>2

\* The shape of the top frame is of the graph.
LEMMA TopInGraph ==
    ASSUME Inv, Chain, Running
    PROVE  Top.id \in in.graph /\ Top.id \in Shapes /\ Refs[Top.id] \subseteq in.graph
<1>1. Len(calls) \in 1..MaxDepth /\ Top.id \in Within[Len(calls) - 1]
  BY ViewFacts, ChainTop
<1>2. Len(calls) - 1 \in 0..MaxDepth
  BY <1>1, DepthAssumption
<1>3. Top.id \in in.graph /\ in.graph \subseteq Shapes
  BY <1>1, <1>2, NestedIs, InputFacts
<1>4. Refs[Top.id] \subseteq in.graph
  BY <1>3, InputFacts DEF InputOK
<1> QED BY <1>3, <1>4

\* What cannot be run or evaluated is a constraint of a shape that can fail.
LEMMA FailHasReason ==
    ASSUME Inv, Chain, Fail
    PROVE  HasReason
<1> DEFINE s == Top.id
           i == Top.next + 1
           c == Defs[s].constraints[i]
<1>1. /\ Upcoming(DirectKinds) /\ CannotRun(c, Top.rows)
  BY DEF Fail, Def
<1>2. Running /\ i \in 1..Len(Defs[s].constraints)
  BY <1>1, UpcomingFacts
<1>3. s \in in.graph /\ s \in Shapes
  BY <1>2, TopInGraph
<1>4. c \in ToSet(Defs[s].constraints)
  BY <1>2, <1>3, WellFormed DEF ToSet
<1>5. Top.rows \in Seq(RowSet)
  BY <1>2, RunningFacts DEF FrameSet
<1> HIDE DEF s, i, c
<1>6. PICK row \in ToSet(Top.rows) :
         \/ c.kind = "sparql" /\ row.focus \notin DOMAIN c.solutions
         \/ c.kind = "expression" /\ \E v \in ToSet(row.values) : v \notin DOMAIN c.holds
         \/ c.kind = "custom" /\ \E v \in ToSet(row.values) :
                                   <<row.focus, v>> \notin DOMAIN c.answers
  BY <1>1 DEF CannotRun
<1>7. row.focus \in Nodes /\ \A v \in ToSet(row.values) : v \in Nodes
  <2>1. PICK k \in DOMAIN Top.rows : Top.rows[k] = row
    BY <1>6 DEF ToSet
  <2>2. row \in RowSet
    BY <1>5, <2>1, LenProperties, ElementOfSeq
  <2>3. row.focus \in Nodes /\ row.values \in Seq(Nodes)
    BY <2>2 DEF RowSet
  <2>4. \A v \in ToSet(row.values) : v \in Nodes
    BY <2>3, LenProperties, ElementOfSeq DEF ToSet
  <2> QED BY <2>3, <2>4
<1>8. CanFail(s)
  <2>1. CASE c.kind = "sparql" /\ row.focus \notin DOMAIN c.solutions
    <3>1. Nodes \ DOMAIN c.solutions # {}
      BY <1>7, <2>1
    <3> QED BY <1>4, <2>1, <3>1 DEF CanFail
  <2>2. CASE c.kind = "expression" /\ \E v \in ToSet(row.values) : v \notin DOMAIN c.holds
    <3>1. Nodes \ DOMAIN c.holds # {}
      BY <1>7, <2>2
    <3> QED BY <1>4, <2>2, <3>1 DEF CanFail
  <2>3. CASE c.kind = "custom" /\ \E v \in ToSet(row.values) :
                                     <<row.focus, v>> \notin DOMAIN c.answers
    <3>1. (Nodes \X Nodes) \ DOMAIN c.answers # {}
      BY <1>7, <2>3
    <3> QED BY <1>4, <2>3, <3>1 DEF CanFail
  <2> QED BY <1>6, <2>1, <2>2, <2>3
<1> QED BY <1>3, <1>8 DEF HasReason

\* Nor does an expression that should name shapes fail elsewhere.
LEMMA NoQuestionsHasReason ==
    ASSUME Inv, Chain, NoQuestions
    PROVE  HasReason
<1> DEFINE s == Top.id
           c == Constraint
<1>1. Asked /\ InRow /\ ~Expressible(c, Value)
  BY DEF NoQuestions
<1>2. /\ Running /\ s \in Shapes /\ Top.next \in 1..Len(Defs[s].constraints)
      /\ c = Defs[s].constraints[Top.next] /\ Value \in Nodes
  BY <1>1, AskedFacts
<1>3. s \in in.graph
  BY <1>2, TopInGraph
<1>4. c \in ToSet(Defs[s].constraints)
  BY <1>2, WellFormed DEF ToSet
<1> HIDE DEF s, c
<1>5. c.kind = "nodeBy" /\ Nodes \ DOMAIN c.names # {}
  BY <1>1, <1>2 DEF Expressible
<1>6. CanFail(s)
  BY <1>4, <1>5 DEF CanFail
<1> QED BY <1>3, <1>6 DEF HasReason

\* A descent fails for the shape it goes down to.
LEMMA DescendHasReason ==
    ASSUME Inv, Chain, Descend, failing' # failing
    PROVE  HasReason
<1> DEFINE i == Top.next + 1
           c == Defs[Top.id].constraints[i]
           s == c.shape
           focus == AllValues(Top.rows)
<1>1. Upcoming({"property"}) /\ PushFrame(WithTop(Advanced), s, focus)
  BY DEF Descend, Def
<1>2. Running /\ i \in 1..Len(Defs[Top.id].constraints) /\ c.kind = "property"
  BY <1>1, UpcomingFacts
<1>3. Top.rows \in Seq(RowSet) /\ Top.id \in Shapes
  BY <1>2, RunningFacts DEF FrameSet
<1>4. s \in in.graph
  <2>1. Named(c) \subseteq Refs[Top.id] /\ Refs[Top.id] \subseteq in.graph
    BY <1>2, <1>3, NamedIsReferred, TopInGraph
  <2> HIDE DEF c
  <2>2. Named(c) = {c.shape}
    BY <1>2 DEF Named, Asking
  <2> QED BY <2>1, <2>2
<1>5. focus \in Seq(Nodes) /\ s \in Shapes
  BY <1>3, <1>4, AllValuesAreNodes, InputFacts
<1> HIDE DEF s, focus
<1>6. CanFail(s)
  BY <1>1, <1>5, PushFails
<1> QED BY <1>4, <1>6 DEF HasReason

\* A question is one of the next level.
LEMMA AskLevel ==
    ASSUME Inv, Chain, Ask
    PROVE  Len(calls) \in 1..MaxDepth /\ Named(Constraint) \subseteq Nested[Len(calls)]
<1> DEFINE s == Top.id
<1>1. /\ Running /\ s \in Shapes /\ Top.next \in 1..Len(Defs[s].constraints)
      /\ Constraint = Defs[s].constraints[Top.next] /\ Constraint.kind \in Asking
  BY AskedFacts DEF Ask
<1>2. Len(calls) \in 1..MaxDepth /\ s \in Within[Len(calls) - 1]
  BY <1>1, ViewFacts, ChainTop
<1>3. AskedBy(s) \subseteq Nested[Len(calls)]
  BY <1>2, NestedIs, InputFacts
<1>4. Constraint \in ToSet(Defs[s].constraints)
  BY <1>1, WellFormed DEF ToSet
<1>5. Named(Constraint) \subseteq AskedBy(s)
  BY <1>1, <1>4 DEF AskedBy
<1> QED BY <1>2, <1>3, <1>5

\* A question nests by a level, and is refused only if there are shapes to ask
\* for at the limit.
LEMMA AskReasons ==
    ASSUME Inv, Chain, Ask
    PROVE  Chain' /\ (failing' # failing => HasReason)
<1>1. in' = in
  BY DEF Ask
<1>2. Len(calls) \in 1..MaxDepth /\ Named(Constraint) \subseteq Nested[Len(calls)]
  BY AskLevel
<1>3. Named(Constraint) \subseteq Within[Len(calls)] /\ Named(Constraint) \subseteq Shapes
  <2>1. Len(calls) \in 0..MaxDepth
    BY <1>2
  <2>2. Nested[Len(calls)] \subseteq Within[Len(calls)] /\ Within[Len(calls)] \subseteq in.graph
    BY <2>1, InputFacts, NestedIs
  <2> QED BY <1>2, <2>2, InputFacts
<1>4. Chain'
  <2>1. CASE G!Refuse
    <3>1. [G!Next]_(G!vars) /\ depth' = depth /\ depth \in Nat
      BY <2>1, Facts DEF G!Next, G!Refuse
    <3>2. depth' # depth + 1
      BY <3>1
    <3> QED BY <1>1, <3>1, <3>2, ChainStep
  <2>2. ASSUME NEW s \in Named(Constraint), NEW kept \in Seq(Nodes), G!Enter(s, kept)
        PROVE  Chain'
    <3>1. s \in Within[Len(calls)] /\ s \in Shapes
      BY <1>3
    <3> QED BY <1>1, <2>2, <3>1, ChainCall
  <2>3. ASSUME NEW s \in Named(Constraint), G!Falter(s)
        PROVE  Chain'
    BY <1>1, <2>3, ChainFalter
  <2> QED BY <2>1, <2>2, <2>3, AskStep
<1>5. ASSUME failing' # failing
      PROVE  HasReason
  <2>1. PICK s \in Named(Constraint), focus \in Seq(Nodes) : Call(s, focus, <<>>)
    BY AskNamed
  <2>2. s \in Shapes /\ s \in in.graph
    BY <1>3, TopInGraph, AskedFacts DEF Ask
  <2>3. CanFail(s) \/ depth = MaxDepth
    BY <1>5, <2>1, <2>2, CallFails
  <2>4. depth = MaxDepth => Len(calls) = MaxDepth
    BY ViewFacts
  <2> QED BY <1>2, <2>1, <2>2, <2>3, <2>4 DEF HasReason
<1> QED BY <1>4, <1>5

\* The driver, and a worker, call shapes the run starts from.
LEMMA TurnReasons ==
    ASSUME Inv, Lines, Chain, TestTarget \/ ValidateRoot \/ Work
    PROVE  Chain' /\ (Blamed' => Blamed \/ HasReason)
<1>1. in' = in /\ calls = <<>>
  <2>1. CASE TestTarget \/ ValidateRoot
    BY <2>1 DEF TestTarget, ValidateRoot
  <2>2. CASE Work
    BY <2>2 DEF Work
  <2> QED BY <2>1, <2>2
<1>2. ASSUME NEW s, s \in Entered, NEW focus \in Seq(Nodes), NEW out, Call(s, focus, out), ~failing
      PROVE  Chain' /\ (failing' = failing \/ HasReason)
  <2>1. Len(calls) = 0 /\ 0 \in 0..MaxDepth
    BY <1>1, EmptySeq, DepthAssumption
  <2>2. s \in Within[Len(calls)] /\ s \in Shapes /\ s \in in.graph
    <3>1. Nested[0] = Entered /\ Nested[0] \subseteq Within[0] /\ Within[0] \subseteq in.graph
      BY <2>1, InputFacts, NestedIs
    <3> QED BY <1>2, <2>1, <3>1, InputFacts
  <2>3. failing' = failing \/ HasReason
    BY <1>1, <1>2, <2>2, CallFails DEF HasReason
  <2>4. G!Refuse \/ G!Falter(s) \/ \E kept \in Seq(Nodes) : G!Enter(s, kept)
    BY <1>1, <1>2, <2>2, CallStep
  <2>5. ~G!Refuse
    <3>1. ~Running
      BY <1>1 DEF Running
    <3> QED BY <3>1, SameView DEF G!Refuse
  <2>6. CASE G!Falter(s)
    BY <1>1, <2>3, <2>6, ChainFalter
  <2>7. CASE \E kept \in Seq(Nodes) : G!Enter(s, kept)
    <3>1. Chain'
      BY <1>1, <2>2, <2>7, ChainCall
    <3> QED BY <2>3, <3>1
  <2> QED BY <2>4, <2>5, <2>6, <2>7
<1>3. CASE TestTarget
  <2>1. /\ ~failing /\ asks # <<>> /\ pc' = pc /\ pieces' = pieces
        /\ Call(Head(asks).shape, <<Head(asks).node>>, <<>>)
    BY <1>3 DEF TestTarget, driver
  <2>2. /\ asks \in Seq(AskSet) /\ DOMAIN asks = 1..Len(asks) /\ Len(asks) \in Nat \ {0}
        /\ Head(asks) = asks[1]
    <3>1. asks \in Seq(AskSet)
      BY LineFacts
    <3> QED BY <2>1, <3>1, EmptySeq, LenProperties, HeadTailProperties
  <2>3. Head(asks).shape \in Entered /\ <<Head(asks).node>> \in Seq(Nodes)
    <3>1. 1 \in DOMAIN asks
      BY <2>2
    <3>2. asks[1].shape \in Entered /\ asks[1] \in AskSet
      BY <2>2, <3>1, LineFacts, ElementOfSeq
    <3> QED BY <2>2, <3>2 DEF AskSet
  <2>4. Chain' /\ (failing' = failing \/ HasReason)
    BY <1>2, <2>1, <2>3
  <2> QED BY <2>1, <2>4 DEF Blamed
<1>4. CASE ValidateRoot
  <2>1. /\ ~failing /\ pc = "targets" /\ pc' = "validate" /\ pieces' = pieces
        /\ Call(jobs[1].shape, Sorted(jobs[1].nodes), results)
    BY <1>4 DEF ValidateRoot, driver
  <2>2. jobs[1].shape \in Entered /\ Sorted(jobs[1].nodes) \in Seq(Nodes)
    BY <2>1, DriverFacts, LineFacts, FirstJob, SortedNodes
  <2>3. Chain' /\ (failing' = failing \/ HasReason)
    BY <1>2, <2>1, <2>2
  <2> QED BY <2>1, <2>3 DEF Blamed
<1>5. CASE Work
  <2>1. PICK k \in DOMAIN pieces :
           /\ pieces' = [pieces EXCEPT ![k].state = "running"]
           /\ Call(pieces[k].shape, pieces[k].focus, <<>>)
    BY <1>5 DEF Work
  <2>2. pc' = pc /\ ~failing
    BY <1>1, <1>5, DriverFacts DEF Work
  <2>3. pieces[k].shape \in Entered /\ pieces[k].focus \in Seq(Nodes)
    BY <2>1, LineFacts, InputFacts, EnteredOK, DriverFacts DEF PieceOK
  <2>4. Chain' /\ (failing' = failing \/ HasReason)
    BY <1>2, <2>1, <2>2, <2>3
  <2>5. \A i \in DOMAIN pieces' :
           i \in DOMAIN pieces /\ (pieces'[i].state = "failed" => pieces[i].state = "failed")
    <3> DEFINE run == [pieces[k] EXCEPT !.state = "running"]
    <3>1. run.state = "running"
      BY DriverFacts DEF PieceOK
    <3>2. pieces' = [pieces EXCEPT ![k] = run]
      BY <2>1
    <3> HIDE DEF run
    <3> QED BY <3>1, <3>2
  <2> QED BY <2>2, <2>4, <2>5 DEF Blamed
<1> QED BY <1>3, <1>4, <1>5

\* The query that finds no targets is in a shape of the graph.
LEMMA TargetsHaveReason ==
    ASSUME Inv, TargetsFail
    PROVE  HasReason
<1>1. jobs # <<>> /\ Defs[jobs[1].shape].selector = "fails"
  BY DEF TargetsFail, NoTargets
<1>2. jobs[1].shape \in in.graph
  BY <1>1, DriverFacts, FirstJob
<1>3. CanFail(jobs[1].shape)
  BY <1>1 DEF CanFail
<1> QED BY <1>2, <1>3 DEF HasReason

\* The driver blames nobody.
LEMMA DriverReasons ==
    ASSUME Inv, Lines, NextJob \/ Resolved \/ Keep \/ Split \/ Merge
    PROVE  Blamed' => Blamed
<1>1. failing' = failing
  BY DEF NextJob, Resolved, Keep, Split, Merge
<1>2. DOMAIN <<>> = {}
  OBVIOUS
<1>3. CASE NextJob \/ Keep \/ Merge
  <2>1. /\ pc' = "error" => pc = "error" \/ \E i \in DOMAIN pieces : pieces[i].state = "failed"
        /\ pieces' = pieces \/ pieces' = <<>>
    BY <1>3 DEF NextJob, Keep, Merge
  <2> QED BY <1>1, <1>2, <2>1 DEF Blamed
<1>4. CASE Resolved
  <2> DEFINE piece == Piece(jobs[1].shape, Sorted(jobs[1].nodes))
  <2>1. pc' = "next" /\ pieces' = Append(pieces, piece)
    BY <1>4 DEF Resolved
  <2>2. \A i \in DOMAIN pieces' : pieces'[i].state = "failed" =>
                                    i \in DOMAIN pieces /\ pieces[i].state = "failed"
    <3> DEFINE S == ToSet(pieces) \cup {piece}
    <3>1. piece.state = "waiting"
      BY DEF Piece
    <3>2. pieces \in Seq(S) /\ DOMAIN pieces = 1..Len(pieces)
      BY DriverFacts, SeqMonotonic, LineFacts DEF IsSeq
    <3>3. piece \in S
      OBVIOUS
    <3> HIDE DEF S, piece
    <3>4. /\ pieces' \in Seq(S) /\ Len(pieces) \in Nat /\ Len(pieces') = Len(pieces) + 1
          /\ \A i \in 1..Len(pieces) : pieces'[i] = pieces[i]
          /\ pieces'[Len(pieces) + 1] = piece
      BY <2>1, <3>2, <3>3, AppendOf
    <3>5. DOMAIN pieces' = 1..(Len(pieces) + 1)
      BY <3>4, LenProperties
    <3>6. \A i \in 1..(Len(pieces) + 1) : i = Len(pieces) + 1 \/ i \in 1..Len(pieces)
      BY <3>4
    <3>7. ASSUME NEW i \in 1..(Len(pieces) + 1), pieces'[i].state = "failed"
          PROVE  i \in DOMAIN pieces /\ pieces[i].state = "failed"
      <4>1. i # Len(pieces) + 1
        BY <3>1, <3>4, <3>7
      <4>2. i \in 1..Len(pieces)
        BY <3>6, <4>1
      <4>3. pieces'[i] = pieces[i]
        BY <3>4, <4>2
      <4> QED BY <3>2, <3>7, <4>2, <4>3
    <3> QED BY <3>5, <3>7
  <2> QED BY <1>1, <2>1, <2>2 DEF Blamed
<1>5. CASE Split
  <2> DEFINE each == [i \in DOMAIN pieces |-> Chunks(pieces[i])]
             Waiting == WaitSet(ToSet(in.roots))
  <2>1. Total >= MinFocus /\ pc' = "work" /\ pieces' = FlattenSeq(each)
    BY <1>5 DEF Split
  <2>2. each \in [1..Len(pieces) -> Seq(Waiting)]
    BY <2>1, LineFacts, ChunksOK
  <2>3. \A p \in Waiting : p.state = "waiting"
    BY DEF WaitSet
  <2> HIDE DEF each, Waiting
  <2>4. each \in Seq(Seq(Waiting))
    BY <2>2, LineFacts, FunctionIsSeq
  <2>5. pieces' \in Seq(Waiting)
    BY <2>1, <2>4, FlattenMembers
  <2>6. \A i \in DOMAIN pieces' : pieces'[i].state = "waiting"
    BY <2>3, <2>5, LenProperties, ElementOfSeq
  <2> QED BY <1>1, <2>1, <2>6 DEF Blamed
<1> QED BY <1>3, <1>4, <1>5

\* An error that goes up was there before.
LEMMA ReturnReasons ==
    ASSUME Inv, Return
    PROVE  Blamed' => Blamed
<1>1. /\ failing => Throw
      /\ ~failing => failing' = failing /\ \E conforms \in BOOLEAN : Answer(conforms)
      /\ Returning
  BY DEF Return
<1>2. CASE failing
  BY <1>2 DEF Blamed
<1>3. CASE ~failing
  <2>1. PICK conforms \in BOOLEAN : Answer(conforms)
    BY <1>1, <1>3
  <2>2. \/ pieces' = pieces
        \/ PieceDone("done", Last(calls).out)
    BY <2>1 DEF Answer, driver
  <2>3. pc' = pc \/ pc' = "next"
    BY <2>1 DEF Answer
  <2>4. ASSUME NEW i \in DOMAIN pieces', pieces'[i].state = "failed"
        PROVE  i \in DOMAIN pieces /\ pieces[i].state = "failed"
    <3>1. CASE pieces' = pieces
      BY <2>4, <3>1
    <3>2. CASE PieceDone("done", Last(calls).out)
      <4> DEFINE out == Last(calls).out
                 p == pieces[i]
                 q == [p EXCEPT !.state = "done"]
                 r == [q EXCEPT !.out = out]
      <4>1. /\ i \in DOMAIN pieces
            /\ (p.state = "running" /\ pieces'[i] = r) \/ pieces'[i] = p
        BY <3>2, <2>4 DEF PieceDone
      <4>2. DOMAIN p = {"shape", "focus", "state", "out"}
        BY <4>1, DriverFacts DEF PieceOK
      <4> HIDE DEF p, out
      <4>3. q.state = "done" /\ DOMAIN q = {"shape", "focus", "state", "out"}
        BY <4>2
      <4> HIDE DEF q
      <4>4. r.state = "done"
        BY <4>3
      <4> HIDE DEF r
      <4>5. pieces'[i] = p
        BY <2>4, <4>1, <4>4
      <4> QED BY <2>4, <4>1, <4>5 DEF p
    <3> QED BY <2>2, <3>1, <3>2
  <2> QED BY <1>1, <1>3, <2>3, <2>4 DEF Blamed
<1> QED BY <1>2, <1>3

\* The calls keep to their levels, the driver to its shapes, and what fails has
\* a reason.
LEMMA ReasonsStep == Inv /\ Reasons /\ [Next]_vars => Reasons'
<1> SUFFICES ASSUME Inv, Reasons, [Next]_vars PROVE Reasons'
  OBVIOUS
<1>1. Lines /\ Chain /\ (Blamed => HasReason)
  BY DEF Reasons
<1>2. [G!Next]_(G!vars) /\ depth \in Nat
  BY StepFollows, Facts
<1>3. SUFFICES /\ in' = in /\ Lines' /\ Chain'
               /\ Blamed' => Blamed \/ HasReason
  <2>1. in' = in => HasReason' = HasReason
    BY NestedStays DEF HasReason
  <2> QED BY <1>1, <1>3, <2>1 DEF Reasons
<1>4. ASSUME UNCHANGED <<in, pc, driver>>
      PROVE  in' = in /\ Lines' /\ (Blamed' => Blamed \/ failing' # failing)
  <2>1. /\ in' = in /\ pc' = pc /\ plan' = plan /\ jobs' = jobs /\ asks' = asks
        /\ pieces' = pieces
    BY <1>4 DEF driver
  <2>2. Blamed' => Blamed \/ failing' # failing
    BY <2>1 DEF Blamed
  <2> QED BY <1>1, <2>1, <2>2, LinesWait
<1>5. ASSUME in' = in, depth' = depth \/ depth' = depth - 1
      PROVE  Chain'
  <2>1. depth' # depth + 1
    BY <1>2, <1>5
  <2> QED BY <1>1, <1>2, <1>5, <2>1, ChainStep
<1>6. CASE NextJob \/ Resolved \/ Keep \/ Split \/ Merge
  <2>1. in' = in /\ depth' = depth
    BY <1>6 DEF NextJob, Resolved, Keep, Split, Merge, guard
  <2> QED BY <1>1, <1>5, <1>6, <2>1, LinesStep, DriverReasons
<1>7. CASE TestTarget \/ ValidateRoot \/ Work
  <2>1. in' = in
    <3>1. CASE TestTarget \/ ValidateRoot
      BY <3>1 DEF TestTarget, ValidateRoot
    <3>2. CASE Work
      BY <3>2 DEF Work
    <3> QED BY <1>7, <3>1, <3>2
  <2> QED BY <1>1, <1>7, <2>1, LinesTurn, TurnReasons
<1>8. CASE FrameDone \/ Drop
  <2>1. UNCHANGED <<in, pc, driver>> /\ depth' = depth /\ failing' = failing
    BY <1>8 DEF FrameDone, Drop
  <2> QED BY <1>4, <1>5, <2>1
<1>9. CASE Check \/ Begin \/ Judge \/ CloseRow
  <2>1. UNCHANGED <<in, pc, driver>> /\ depth' = depth /\ failing' = failing
    BY <1>9 DEF Check, Begin, Judge, CloseRow, guard
  <2> QED BY <1>4, <1>5, <2>1
<1>10. CASE Fail \/ NoQuestions \/ Descend
  <2>1. UNCHANGED <<in, pc, driver>> /\ depth' = depth
    BY <1>10 DEF Fail, NoQuestions, Descend, guard
  <2>2. failing' # failing => HasReason
    BY <1>1, <1>10, FailHasReason, NoQuestionsHasReason, DescendHasReason
  <2> QED BY <1>4, <1>5, <2>1, <2>2
<1>11. CASE Ask
  <2>1. UNCHANGED <<in, pc, driver>>
    BY <1>11 DEF Ask
  <2> QED BY <1>1, <1>4, <1>11, <2>1, AskReasons
<1>12. CASE Return
  <2>1. in' = in /\ depth' = depth - 1
    BY <1>12 DEF Return
  <2> QED BY <1>1, <1>5, <1>12, <2>1, LinesTurn, ReturnReasons
<1>13. CASE TargetsFail
  <2>1. in' = in /\ depth' = depth
    BY <1>13 DEF TargetsFail, guard
  <2> QED BY <1>1, <1>5, <1>13, <2>1, LinesStep, TargetsHaveReason
<1>14. CASE UNCHANGED vars
  <2>1. UNCHANGED <<in, pc, driver>> /\ depth' = depth /\ failing' = failing
    BY <1>14 DEF vars, guard
  <2> QED BY <1>4, <1>5, <2>1
<1> QED BY <1>6, <1>7, <1>8, <1>9, <1>10, <1>11, <1>12, <1>13, <1>14 DEF Next

\* A run starts with no calls and no errors.
LEMMA InitReasons == Init => Reasons
<1> SUFFICES ASSUME Init PROVE Reasons
  OBVIOUS
<1>1. Lines
  BY InitLines
<1>2. Chain
  <2>1. G!Init
    BY InitInv
  <2>2. Bases(calls) = <<>>
    BY <2>1 DEF G!Init
  <2>3. Len(Bases(calls)) = 0
    BY <2>2, EmptySeq
  <2> QED BY <2>3 DEF Chain, Chained
<1>3. ~Blamed
  <2>1. DOMAIN <<>> = {}
    OBVIOUS
  <2> QED BY <2>1 DEF Blamed, Init
<1> QED BY <1>1, <1>2, <1>3 DEF Reasons

\* A run fails for a query or a node expression of a shape that some node has no
\* answer from, or for questions that nest past the limit, and for nothing else:
\* where both are ruled out every run ends with a report, a recursive property
\* shape's included, however long the chain of data it walks.
THEOREM ErrorsAreReasoned == Spec => []ErrorsHaveAReason
<1>1. Inv /\ Reasons => ErrorsHaveAReason
  BY DEF Reasons, Blamed, HasReason, ErrorsHaveAReason
<1> QED BY <1>1, InitReasons, ReasonsStep, EngineInductive, PTL DEF Spec
=============================================================================
