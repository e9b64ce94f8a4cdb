----------------------------- MODULE LoadProofs -----------------------------
(***************************************************************************)
(* Proofs about the store of terms and the graphs that loading makes, for  *)
(* any documents, any cut of them and any number of workers.               *)
(*                                                                         *)
(* A graph's three arrays hold its triples turned three ways, each in      *)
(* ascending order, so the offset table and the two partition points of a  *)
(* lookup bound just the rows that are asked for (RunOfRows, PrefixOfRun), *)
(* and two rising columns of one set are one sequence (OneRising). A store *)
(* is right (StoreRight) when strings and triple terms are listed once,    *)
(* each term refers to what is there and each table leads from a term's    *)
(* identity to its id and back; interning keeps that, whatever the parser  *)
(* gives.                                                                  *)
(*                                                                         *)
(* The texts a document is cut into are its prologue with one stretch of   *)
(* its units each, and the stretches tile what follows the prologue        *)
(* (Pieces, TextsAre). A text of a tame document knows the prefixes of the *)
(* prologue and no others wherever its stretch begins, so all texts parse  *)
(* just when the document does (PiecesParse).                              *)
(*                                                                         *)
(* A store shows a list of terms that have been met (Shows) when each id   *)
(* is the place of what its term says, N giving the node of a document     *)
(* that a scope and a label stand for; interning a parser's term comes to  *)
(* meeting it (TermsShown). A text's triples are the document's, each at   *)
(* its Place, its labels renamed (Layout, LayoutExists), and no two nodes  *)
(* have one name (NodeNamesDistinct), because the documents of a run and   *)
(* the chunks of one have scopes apart. So the prologue, which every text  *)
(* states again, adds nothing (OldTriple), the rest is met in the order of *)
(* the document (NewTriple), and Sofar holds from triple to triple.        *)
(***************************************************************************)
EXTENDS LoadProperties, SequenceFacts

\* Three ids.
Row == Nat \X Nat \X Nat

\* Rows in ascending order.
Ascends(s) == \A i, j \in DOMAIN s : i < j => Precedes(s[i], s[j])

-----------------------------------------------------------------------------
(* The order of rows. *)

\* Precedes is the lexicographic order.
LEMMA PrecedesRead ==
    ASSUME NEW q \in Row, NEW r \in Row
    PROVE  Precedes(q, r) <=> \/ q[1] < r[1]
                              \/ q[1] = r[1] /\ q[2] < r[2]
                              \/ q[1] = r[1] /\ q[2] = r[2] /\ q[3] < r[3]
<1>1. 1 .. 3 = {1, 2, 3} /\ 1 .. (1 - 1) = {} /\ 1 .. (2 - 1) = {1} /\ 1 .. (3 - 1) = {1, 2}
  OBVIOUS
<1> DEFINE firstAt(i) == q[i] < r[i] /\ \A j \in 1 .. (i - 1) : q[j] = r[j]
<1>2. Precedes(q, r) <=> firstAt(1) \/ firstAt(2) \/ firstAt(3)
  BY <1>1 DEF Precedes
<1>3. /\ firstAt(1) <=> q[1] < r[1]
      /\ firstAt(2) <=> q[2] < r[2] /\ q[1] = r[1]
      /\ firstAt(3) <=> q[3] < r[3] /\ q[1] = r[1] /\ q[2] = r[2]
  BY <1>1
<1> HIDE DEF firstAt
<1> QED BY <1>2, <1>3

\* It is a strict total order.
LEMMA PrecedesOrders ==
    ASSUME NEW q \in Row, NEW r \in Row
    PROVE  /\ ~Precedes(q, q)
           /\ Precedes(q, r) => ~Precedes(r, q)
           /\ q = r \/ Precedes(q, r) \/ Precedes(r, q)
           /\ \A p \in Row : Precedes(p, q) /\ Precedes(q, r) => Precedes(p, r)
<1>1. /\ q[1] \in Nat /\ q[2] \in Nat /\ q[3] \in Nat /\ q = <<q[1], q[2], q[3]>>
      /\ r[1] \in Nat /\ r[2] \in Nat /\ r[3] \in Nat /\ r = <<r[1], r[2], r[3]>>
  BY DEF Row
<1>2. ~Precedes(q, q) /\ (Precedes(q, r) => ~Precedes(r, q))
  BY <1>1, PrecedesRead
<1>3. q = r \/ Precedes(q, r) \/ Precedes(r, q)
  <2>1. q[1] = r[1] /\ q[2] = r[2] /\ q[3] = r[3] => q = r
    BY <1>1
  <2> QED BY <1>1, <2>1, PrecedesRead
<1>4. ASSUME NEW p \in Row, Precedes(p, q), Precedes(q, r)
      PROVE  Precedes(p, r)
  <2>1. p[1] \in Nat /\ p[2] \in Nat /\ p[3] \in Nat
    BY DEF Row
  <2> QED BY <1>1, <1>4, <2>1, PrecedesRead
<1> QED BY <1>2, <1>3, <1>4

\* sort and dedup: the rows of a set in ascending order, each once.
LEMMA SortedRows ==
    ASSUME NEW S \in SUBSET Row, IsFiniteSet(S)
    PROVE  /\ Sorted(S) \in Seq(Row) /\ Len(Sorted(S)) = Cardinality(S)
           /\ ToSet(Sorted(S)) = S
           /\ Ascends(Sorted(S))
<1> DEFINE before == [r \in S |-> {q \in S : Precedes(q, r)}]
           seq == Sorted(S)
<1>1. TotalOrder(S, before)
  <2>1. before \in [S -> SUBSET S]
    OBVIOUS
  <2>2. \A q, r \in S : q \in before[r] <=> Precedes(q, r)
    OBVIOUS
  <2> HIDE DEF before
  <2>3. \A q \in S : q \notin before[q]
    BY <2>2, PrecedesOrders
  <2>4. ASSUME NEW q \in S, NEW r \in S, q \in before[r]
        PROVE  before[q] \subseteq before[r]
    <3> SUFFICES ASSUME NEW p \in before[q] PROVE p \in before[r]
      OBVIOUS
    <3>1. p \in S
      BY <2>1
    <3> QED BY <2>2, <2>4, <3>1, PrecedesOrders
  <2>5. \A q, r \in S : q = r \/ q \in before[r] \/ r \in before[q]
    BY <2>2, PrecedesOrders
  <2> QED BY <2>1, <2>3, <2>4, <2>5 DEF TotalOrder
<1>2. PlacedBy(seq, S, before)
  <2> DEFINE pick(i) == CHOOSE r \in S : Cardinality({q \in S : Precedes(q, r)}) = i - 1
  <2>1. \A r \in S : before[r] = {q \in S : Precedes(q, r)}
    OBVIOUS
  <2>2. seq = [i \in 1 .. Cardinality(S) |-> pick(i)]
    BY DEF Sorted
  <2> HIDE DEF before, seq, pick
  <2>3. seq = [i \in 1 .. Cardinality(S) |-> seq[i]]
    BY <2>2
  <2>4. ASSUME NEW i \in 1 .. Cardinality(S), NEW r \in S, Cardinality(before[r]) = i - 1
        PROVE  seq[i] \in S /\ Cardinality(before[seq[i]]) = i - 1
    <3> DEFINE P(z) == z \in S /\ Cardinality({q \in S : Precedes(q, z)}) = i - 1
    <3>1. P(r)
      BY <2>1, <2>4
    <3>2. seq[i] = CHOOSE z \in S : P(z)
      BY <2>2 DEF pick
    <3>3. P(seq[i])
      BY <3>1, <3>2
    <3> QED BY <2>1, <3>3
  <2> QED BY <2>3, <2>4 DEF PlacedBy
<1>3. \A q, r \in S : q \in before[r] => Precedes(q, r)
  OBVIOUS
<1> HIDE DEF before, seq
<1>4. Lists(seq, S, before)
  BY <1>1, <1>2, Enumeration
<1>5. seq \in Seq(Row) /\ Len(seq) = Cardinality(S) /\ ToSet(seq) = S
  BY <1>4, SeqMonotonic DEF Lists
<1>6. \A i \in DOMAIN seq : seq[i] \in S
  BY <1>4, MembersOfSeq DEF Lists
<1>7. Ascends(seq)
  BY <1>3, <1>4, <1>6 DEF Lists, Ascends
<1> QED BY <1>5, <1>7 DEF seq

-----------------------------------------------------------------------------
(* Runs of rows. *)

\* The rows with less than v in a column.
Below(s, c, v) == Cardinality({k \in DOMAIN s : s[k][c] < v})

\* Rows with a column that never falls.
Climbs(s, c) == \A i, j \in DOMAIN s : i <= j => s[i][c] <= s[j][c]

\* Where a column never falls, the rows with less than v in it come first.
LEMMA PartitionPoint ==
    ASSUME NEW s \in Seq(Row), NEW c \in 1 .. 3, Climbs(s, c), NEW v \in Nat
    PROVE  /\ Below(s, c, v) \in 0 .. Len(s)
           /\ \A k \in DOMAIN s : s[k][c] < v <=> k <= Below(s, c, v)
<1> DEFINE low == {k \in DOMAIN s : s[k][c] < v}
           rest == (1 .. (Len(s) + 1)) \ low
<1>1. Len(s) \in Nat /\ DOMAIN s = 1 .. Len(s) /\ \A k \in DOMAIN s : s[k][c] \in Nat
  <2>1. \A k \in 1 .. Len(s) : s[k] \in Row
    BY ElementOfSeq
  <2>2. \A r \in Row : r[c] \in Nat
    <3>1. c \in {1, 2, 3}
      OBVIOUS
    <3> QED BY <3>1 DEF Row
  <2> QED BY <2>1, <2>2, LenProperties
<1>2. rest \in SUBSET Nat /\ rest # {}
  <2>1. Len(s) + 1 \in rest
    BY <1>1
  <2> QED BY <1>1, <2>1
<1>3. PICK m \in rest : \A k \in rest : m <= k
  <2> HIDE DEF rest
  <2> QED BY <1>2, LeastNumber
<1>4. m \in 1 .. (Len(s) + 1)
  OBVIOUS
<1>5. low = 1 .. (m - 1)
  <2>1. ASSUME NEW k \in 1 .. (m - 1) PROVE k \in low
    BY <1>1, <1>3, <1>4
  <2>2. ASSUME NEW k \in low, k >= m PROVE FALSE
    <3>1. m \in DOMAIN s /\ k \in DOMAIN s /\ m <= k
      BY <1>1, <1>4, <2>2
    <3>2. s[m][c] <= s[k][c] /\ s[k][c] < v
      BY <3>1 DEF Climbs
    <3>3. m \in low
      BY <1>1, <3>1, <3>2
    <3> QED BY <1>3, <3>3
  <2>3. low \subseteq 1 .. Len(s)
    BY <1>1
  <2> HIDE DEF low, rest
  <2>4. ASSUME NEW k \in low PROVE k \in 1 .. (m - 1)
    BY <1>1, <1>4, <2>2, <2>3
  <2> QED BY <2>1, <2>4
<1>6. Cardinality(low) = m - 1
  <2> HIDE DEF low, rest
  <2>1. 1 \in Int /\ m - 1 \in Int
    BY <1>1, <1>4
  <2>2. Cardinality(1 .. (m - 1)) = IF 1 > m - 1 THEN 0 ELSE m - 1 - 1 + 1
    BY <2>1, FS_Interval
  <2> QED BY <1>1, <1>4, <1>5, <2>2
<1>7. Below(s, c, v) = m - 1
  BY <1>6 DEF Below
<1>8. \A k \in DOMAIN s : s[k][c] < v <=> k \in 1 .. (m - 1)
  BY <1>5
<1> HIDE DEF low, rest
<1> QED BY <1>1, <1>4, <1>7, <1>8

\* The rows between two partition points.
Band(s, c, v) == SubSeq(s, Below(s, c, v) + 1, Below(s, c, v + 1))

\* In ascending order a column never falls if those before it stay the same.
LEMMA BandOfRows ==
    ASSUME NEW s \in Seq(Row), Ascends(s), NEW c \in 1 .. 3, Climbs(s, c), NEW v \in Nat
    PROVE  /\ Band(s, c, v) \in Seq(Row)
           /\ Ascends(Band(s, c, v))
           /\ ToSet(Band(s, c, v)) = {r \in ToSet(s) : r[c] = v}
<1> DEFINE lo == Below(s, c, v)
           hi == Below(s, c, v + 1)
           band == SubSeq(s, lo + 1, hi)
<1>1. Len(s) \in Nat /\ DOMAIN s = 1 .. Len(s) /\ \A k \in 1 .. Len(s) : s[k] \in Row
  BY ElementOfSeq, LenProperties
<1>2. \A k \in DOMAIN s : s[k][c] \in Nat
  <2>1. c \in {1, 2, 3}
    OBVIOUS
  <2> QED BY <1>1, <2>1 DEF Row
<1>3. /\ lo \in 0 .. Len(s) /\ hi \in 0 .. Len(s)
      /\ \A k \in DOMAIN s : s[k][c] < v <=> k <= lo
      /\ \A k \in DOMAIN s : s[k][c] < v + 1 <=> k <= hi
  <2>1. v + 1 \in Nat
    OBVIOUS
  <2> QED BY <2>1, PartitionPoint
<1>4. \A k \in DOMAIN s : s[k][c] = v <=> lo < k /\ k <= hi
  <2> SUFFICES ASSUME NEW k \in DOMAIN s PROVE s[k][c] = v <=> lo < k /\ k <= hi
    OBVIOUS
  <2>1. k \in Nat /\ s[k][c] \in Nat
    BY <1>1, <1>2
  <2>2. (s[k][c] < v <=> k <= lo) /\ (s[k][c] < v + 1 <=> k <= hi)
    BY <1>3
  <2> HIDE DEF lo, hi
  <2> QED BY <1>3, <2>1, <2>2
<1> HIDE DEF lo, hi
<1>5. lo <= hi
  <2> SUFFICES ASSUME hi < lo PROVE FALSE
    BY <1>1, <1>3
  <2>1. lo \in DOMAIN s /\ lo \in Nat
    BY <1>1, <1>3
  <2>2. s[lo][c] < v /\ ~(s[lo][c] < v + 1)
    BY <1>1, <1>3, <2>1
  <2> QED BY <1>2, <2>1, <2>2
<1>6. /\ band \in Seq(Row) /\ Len(band) = hi - lo
      /\ \A i \in 1 .. (hi - lo) : band[i] = s[lo + i]
  <2>1. lo + 1 \in Int /\ hi \in Int /\ \A i \in (lo + 1) .. hi : s[i] \in Row
    BY <1>1, <1>3
  <2>2. /\ band \in Seq(Row)
        /\ Len(band) = IF lo + 1 <= hi THEN hi - (lo + 1) + 1 ELSE 0
        /\ \A i \in 1 .. (hi - (lo + 1) + 1) : band[i] = s[lo + 1 + i - 1]
    BY <2>1, SubSeqProperties
  <2> HIDE DEF band
  <2>3. hi - (lo + 1) + 1 = hi - lo /\ \A i \in 1 .. (hi - lo) : lo + 1 + i - 1 = lo + i
    BY <1>1, <1>3
  <2> QED BY <1>1, <1>3, <1>5, <2>2, <2>3
<1> HIDE DEF band
<1>7. DOMAIN band = 1 .. (hi - lo)
  BY <1>6, LenProperties
<1>8. Ascends(band)
  <2> SUFFICES ASSUME NEW i \in DOMAIN band, NEW j \in DOMAIN band, i < j
               PROVE  Precedes(band[i], band[j])
    BY DEF Ascends
  <2>1. lo + i \in DOMAIN s /\ lo + j \in DOMAIN s /\ lo + i < lo + j
    BY <1>1, <1>3, <1>7
  <2> QED BY <1>6, <1>7, <2>1 DEF Ascends
<1>9. ASSUME NEW r \in ToSet(band) PROVE r \in ToSet(s) /\ r[c] = v
  <2>1. PICK i \in DOMAIN band : r = band[i]
    BY DEF ToSet
  <2>2. lo + i \in DOMAIN s /\ lo < lo + i /\ lo + i <= hi /\ r = s[lo + i]
    BY <1>1, <1>3, <1>6, <1>7, <2>1
  <2> QED BY <1>4, <2>2 DEF ToSet
<1>10. ASSUME NEW r \in ToSet(s), r[c] = v PROVE r \in ToSet(band)
  <2>1. PICK k \in DOMAIN s : r = s[k]
    BY DEF ToSet
  <2>2. lo < k /\ k <= hi
    BY <1>4, <1>10, <2>1
  <2>3. k - lo \in DOMAIN band /\ lo + (k - lo) = k
    BY <1>1, <1>3, <1>7, <2>1, <2>2
  <2>4. r = band[k - lo]
    BY <1>6, <1>7, <2>1, <2>3
  <2> QED BY <2>3, <2>4 DEF ToSet
<1>11. ToSet(band) = {r \in ToSet(s) : r[c] = v}
  BY <1>9, <1>10
<1> QED BY <1>6, <1>8, <1>11 DEF band, Band, lo, hi

\* The leading column of ascending rows never falls.
LEMMA LeadingClimbs ==
    ASSUME NEW s \in Seq(Row), Ascends(s)
    PROVE  Climbs(s, 1)
<1> SUFFICES ASSUME NEW i \in DOMAIN s, NEW j \in DOMAIN s, i <= j
             PROVE  s[i][1] <= s[j][1]
  BY DEF Climbs
<1>1. s[i] \in Row /\ s[j] \in Row /\ i \in Nat /\ j \in Nat
  BY ElementOfSeq, LenProperties
<1>2. s[i][1] \in Nat /\ s[j][1] \in Nat
  BY <1>1 DEF Row
<1>3. CASE i = j
  BY <1>2, <1>3
<1>4. CASE i < j
  <2>1. Precedes(s[i], s[j])
    BY <1>4 DEF Ascends
  <2> QED BY <1>1, <1>2, <2>1, PrecedesRead
<1> QED BY <1>1, <1>3, <1>4

\* Where all rows have one leading term, the next column never falls.
LEMMA NextClimbs ==
    ASSUME NEW s \in Seq(Row), Ascends(s), NEW a, \A r \in ToSet(s) : r[1] = a
    PROVE  Climbs(s, 2)
<1> SUFFICES ASSUME NEW i \in DOMAIN s, NEW j \in DOMAIN s, i <= j
             PROVE  s[i][2] <= s[j][2]
  BY DEF Climbs
<1>1. s[i] \in Row /\ s[j] \in Row /\ i \in Nat /\ j \in Nat
  BY ElementOfSeq, LenProperties
<1>2. s[i][2] \in Nat /\ s[j][2] \in Nat /\ s[i][1] \in Nat
  BY <1>1 DEF Row
<1>3. CASE i = j
  BY <1>2, <1>3
<1>4. CASE i < j
  <2>1. Precedes(s[i], s[j])
    BY <1>4 DEF Ascends
  <2>2. s[i][1] = s[j][1]
    BY MembersOfSeq
  <2> QED BY <1>1, <1>2, <2>1, <2>2, PrecedesRead
<1> QED BY <1>1, <1>3, <1>4

\* The offset table of the rows: what is led by a lies between the offsets of
\* a and of the next term, and a term outside the table leads nothing.
LEMMA RunOfRows ==
    ASSUME NEW s \in Seq(Row), Ascends(s), NEW a \in Nat
    PROVE  /\ Run(Starts(s), s, a) \in Seq(Row)
           /\ Ascends(Run(Starts(s), s, a))
           /\ ToSet(Run(Starts(s), s, a)) = {r \in ToSet(s) : r[1] = a}
<1> DEFINE run == Run(Starts(s), s, a)
<1>1. Len(s) \in Nat /\ DOMAIN s = 1 .. Len(s) /\ \A k \in 1 .. Len(s) : s[k] \in Row
  BY ElementOfSeq, LenProperties
<1>2. /\ <<>> \in Seq(Row) /\ Ascends(<<>>) /\ ToSet(<<>>) = {}
  BY DEF Ascends, ToSet
<1>3. CASE s = <<>>
  <2>1. Starts(s) = [base |-> 0, starts |-> <<>>]
    BY <1>3 DEF Starts
  <2>2. run = <<>>
    BY <2>1 DEF Run
  <2>3. ToSet(s) = {}
    BY <1>2, <1>3
  <2> HIDE DEF run
  <2> QED BY <1>2, <2>2, <2>3 DEF run
<1>4. CASE s # <<>>
  <2> DEFINE base == s[1][1]
             last == s[Len(s)][1]
             count(i) == Cardinality({k \in DOMAIN s : s[k][1] < base + i - 1})
             offsets == [i \in 1 .. (last - base + 2) |-> count(i)]
  <2>1. 1 \in DOMAIN s /\ Len(s) \in DOMAIN s
    BY <1>1, <1>4, EmptySeq
  <2>2. \A k \in DOMAIN s : s[k][1] \in Nat /\ base <= s[k][1] /\ s[k][1] <= last
    <3>1. \A k \in DOMAIN s : 1 <= k /\ k <= Len(s)
      BY <1>1
    <3>2. Climbs(s, 1)
      BY LeadingClimbs
    <3>3. \A k \in DOMAIN s : s[k][1] \in Nat
      BY <1>1 DEF Row
    <3> QED BY <2>1, <3>1, <3>2, <3>3 DEF Climbs
  <2>3. base \in Nat /\ last \in Nat /\ base <= last
    BY <2>1, <2>2
  <2>4. Starts(s) = [base |-> base, starts |-> offsets]
    BY <1>4 DEF Starts
  <2>5. Len(offsets) = last - base + 2
    <3> HIDE DEF count, base, last
    <3>1. last - base + 2 \in Nat
      BY <2>3
    <3> QED BY <3>1
  <2>8. run = IF a < base \/ a - base + 1 + 1 > last - base + 2 THEN <<>>
              ELSE SubSeq(s, offsets[a - base + 1] + 1, offsets[a - base + 1 + 1])
    <3> DEFINE table == [base |-> base, starts |-> offsets]
    <3>1. table.base = base /\ table.starts = offsets
      OBVIOUS
    <3>2. run = Run(table, s, a)
      BY <2>4
    <3> HIDE DEF table, offsets, base, last, run
    <3>3. run = IF a < base \/ a - base + 1 + 1 > Len(offsets) THEN <<>>
                ELSE SubSeq(s, offsets[a - base + 1] + 1, offsets[a - base + 1 + 1])
      BY <3>1, <3>2 DEF Run
    <3> QED BY <2>5, <3>3
  <2>6. CASE a < base \/ a > last
    <3>1. \A r \in ToSet(s) : r[1] # a
      BY <2>2, <2>3, <2>6 DEF ToSet
    <3>3. a < base \/ a - base + 1 + 1 > last - base + 2
      BY <2>3, <2>6
    <3>4. run = <<>>
      BY <2>8, <3>3
    <3> HIDE DEF run, base, last
    <3> QED BY <1>2, <3>1, <3>4 DEF run
  <2>7. CASE base <= a /\ a <= last
    <3>2. ~(a < base) /\ ~(a - base + 1 + 1 > last - base + 2)
      BY <2>3, <2>7
    <3>3. a - base + 1 \in 1 .. (last - base + 2) /\ a - base + 1 + 1 \in 1 .. (last - base + 2)
      <4> HIDE DEF base, last
      <4> QED BY <2>3, <2>7
    <3>4. base + (a - base + 1) - 1 = a /\ base + (a - base + 1 + 1) - 1 = a + 1
      <4> HIDE DEF base
      <4> QED BY <2>3
    <3>5. count(a - base + 1) = Below(s, 1, a) /\ count(a - base + 1 + 1) = Below(s, 1, a + 1)
      <4> HIDE DEF base
      <4> QED BY <3>4 DEF Below
    <3> HIDE DEF count, base, last
    <3>6. /\ offsets[a - base + 1] = Below(s, 1, a)
          /\ offsets[a - base + 1 + 1] = Below(s, 1, a + 1)
      BY <3>3, <3>5
    <3>7. run = Band(s, 1, a)
      <4> HIDE DEF run, offsets
      <4> QED BY <2>8, <3>2, <3>6 DEF Band
    <3>8. 1 \in 1 .. 3
      OBVIOUS
    <3> HIDE DEF run
    <3> QED BY <3>7, <3>8, BandOfRows, LeadingClimbs DEF run
  <2> QED BY <2>3, <2>6, <2>7
<1> QED BY <1>3, <1>4

\* The two partition points in a run.
LEMMA PrefixOfRun ==
    ASSUME NEW s \in Seq(Row), Ascends(s), NEW a, \A r \in ToSet(s) : r[1] = a, NEW b \in Nat
    PROVE  /\ Prefix2(s, b) \in Seq(Row)
           /\ Ascends(Prefix2(s, b))
           /\ ToSet(Prefix2(s, b)) = {r \in ToSet(s) : r[2] = b}
<1>1. \A k \in DOMAIN s : s[k][2] \in Nat
  <2>1. \A k \in DOMAIN s : s[k] \in Row
    BY ElementOfSeq, LenProperties
  <2> QED BY <2>1 DEF Row
<1>2. {k \in DOMAIN s : s[k][2] <= b} = {k \in DOMAIN s : s[k][2] < b + 1}
  BY <1>1
<1>3. Prefix2(s, b) = Band(s, 2, b)
  BY <1>2 DEF Prefix2, Band, Below
<1>4. 2 \in 1 .. 3
  OBVIOUS
<1> QED BY <1>3, <1>4, BandOfRows, NextClimbs

\* One column of some rows.
LEMMA ColumnOfRows ==
    ASSUME NEW s \in Seq(Row), NEW c \in 1 .. 3
    PROVE  /\ Column(s, c) \in Seq(Nat) /\ Len(Column(s, c)) = Len(s)
           /\ DOMAIN Column(s, c) = DOMAIN s
           /\ \A k \in DOMAIN s : Column(s, c)[k] = s[k][c]
           /\ ToSet(Column(s, c)) = {r[c] : r \in ToSet(s)}
<1> DEFINE col == Column(s, c)
<1>1. Len(s) \in Nat /\ DOMAIN s = 1 .. Len(s) /\ \A k \in 1 .. Len(s) : s[k] \in Row
  BY ElementOfSeq, LenProperties
<1>2. \A k \in 1 .. Len(s) : s[k][c] \in Nat
  <2>1. c \in {1, 2, 3}
    OBVIOUS
  <2> QED BY <1>1, <2>1 DEF Row
<1>3. col \in [1 .. Len(s) -> Nat] /\ \A k \in DOMAIN s : col[k] = s[k][c]
  BY <1>1, <1>2 DEF Column
<1> HIDE DEF col
<1>4. col \in Seq(Nat) /\ Len(col) = Len(s) /\ DOMAIN col = 1 .. Len(s)
  BY <1>1, <1>3, FunctionIsSeq
<1>5. ToSet(col) = {r[c] : r \in ToSet(s)}
  <2>1. ASSUME NEW x \in ToSet(col) PROVE x \in {r[c] : r \in ToSet(s)}
    <3>1. PICK k \in DOMAIN s : x = col[k]
      BY <1>1, <1>4, <2>1 DEF ToSet
    <3>2. s[k] \in ToSet(s) /\ x = s[k][c]
      BY <1>3, <3>1 DEF ToSet
    <3> QED BY <3>2
  <2>2. ASSUME NEW r \in ToSet(s) PROVE r[c] \in ToSet(col)
    <3>1. PICK k \in DOMAIN s : r = s[k]
      BY DEF ToSet
    <3>2. k \in DOMAIN col /\ col[k] = r[c]
      BY <1>1, <1>3, <1>4, <3>1
    <3> QED BY <3>2 DEF ToSet
  <2> QED BY <2>1, <2>2
<1> QED BY <1>1, <1>3, <1>4, <1>5 DEF col

\* Numbers in ascending order, each once.
Rises(f) == \A i, j \in DOMAIN f : i < j => f[i] < f[j]

\* Two rising sequences of one set of numbers: up to where they agree, what
\* the first has next, the second has no later.
LEMMA NextOfRising ==
    ASSUME NEW f \in Seq(Nat), NEW h \in Seq(Nat), Rises(f), Rises(h),
           ToSet(f) \subseteq ToSet(h), NEW m \in DOMAIN f,
           \A j \in DOMAIN h : j < m => j \in DOMAIN f /\ f[j] = h[j]
    PROVE  m \in DOMAIN h /\ h[m] <= f[m]
<1>1. /\ Len(f) \in Nat /\ DOMAIN f = 1 .. Len(f) /\ \A k \in DOMAIN f : f[k] \in Nat
      /\ Len(h) \in Nat /\ DOMAIN h = 1 .. Len(h) /\ \A k \in DOMAIN h : h[k] \in Nat
  BY ElementOfSeq, LenProperties
<1>2. PICK j \in DOMAIN h : h[j] = f[m]
  BY DEF ToSet
<1>3. ~(j < m)
  <2> SUFFICES ASSUME j < m PROVE FALSE
    OBVIOUS
  <2>1. j \in DOMAIN f /\ f[j] = f[m]
    BY <1>2
  <2>2. f[j] < f[m]
    BY <2>1 DEF Rises
  <2> QED BY <1>1, <2>1, <2>2
<1>4. m \in DOMAIN h
  BY <1>1, <1>3
<1>5. CASE j = m
  BY <1>1, <1>2, <1>4, <1>5
<1>6. CASE j # m
  <2>1. m < j
    BY <1>1, <1>3, <1>6
  <2>2. h[m] < h[j]
    BY <1>4, <2>1 DEF Rises
  <2> QED BY <1>1, <1>2, <1>4, <2>2
<1> QED BY <1>5, <1>6

\* A set of numbers has one rising sequence.
LEMMA OneRising ==
    ASSUME NEW f \in Seq(Nat), NEW h \in Seq(Nat), Rises(f), Rises(h), ToSet(f) = ToSet(h)
    PROVE  f = h
<1> DEFINE differ == {k \in DOMAIN f \cup DOMAIN h :
                         ~(k \in DOMAIN f /\ k \in DOMAIN h /\ f[k] = h[k])}
<1>1. /\ Len(f) \in Nat /\ DOMAIN f = 1 .. Len(f) /\ \A k \in DOMAIN f : f[k] \in Nat
      /\ Len(h) \in Nat /\ DOMAIN h = 1 .. Len(h) /\ \A k \in DOMAIN h : h[k] \in Nat
  BY ElementOfSeq, LenProperties
<1>2. differ = {}
  <2> SUFFICES ASSUME differ # {} PROVE FALSE
    OBVIOUS
  <2>1. differ \in SUBSET Nat
    BY <1>1
  <2>2. PICK m \in differ : \A k \in differ : m <= k
    <3> HIDE DEF differ
    <3> QED BY <2>1, LeastNumber
  <2>3. /\ \A j \in DOMAIN f : j < m => j \in DOMAIN h /\ f[j] = h[j]
        /\ \A j \in DOMAIN h : j < m => j \in DOMAIN f /\ f[j] = h[j]
    <3>1. \A j \in DOMAIN f \cup DOMAIN h : j < m => ~(m <= j)
      BY <1>1, <2>1
    <3>2. \A j \in DOMAIN f \cup DOMAIN h : j < m => j \notin differ
      <4> HIDE DEF differ
      <4> QED BY <2>2, <3>1
    <3> QED BY <3>2
  <2>4. m \in DOMAIN f => m \in DOMAIN h /\ h[m] <= f[m]
    BY <2>3, NextOfRising
  <2>5. m \in DOMAIN h => m \in DOMAIN f /\ f[m] <= h[m]
    BY <2>3, NextOfRising
  <2>6. m \in DOMAIN f /\ m \in DOMAIN h
    BY <2>4, <2>5
  <2> QED BY <1>1, <2>4, <2>5, <2>6
<1>3. DOMAIN f = DOMAIN h /\ \A k \in DOMAIN f : f[k] = h[k]
  BY <1>2
<1> HIDE DEF differ
<1>4. Len(f) = Len(h)
  <2>1. 1 .. Len(f) = 1 .. Len(h)
    BY <1>1, <1>3
  <2>2. CASE Len(f) < Len(h)
    <3>1. Len(h) \in 1 .. Len(h) /\ Len(h) \notin 1 .. Len(f)
      BY <1>1, <2>2
    <3> QED BY <2>1, <3>1
  <2>3. CASE Len(h) < Len(f)
    <3>1. Len(f) \in 1 .. Len(f) /\ Len(f) \notin 1 .. Len(h)
      BY <1>1, <2>3
    <3> QED BY <2>1, <3>1
  <2>4. Len(f) \in Int /\ Len(h) \in Int
    BY <1>1
  <2> QED BY <2>2, <2>3, <2>4
<1> QED BY <1>1, <1>3, <1>4, SeqEqual

\* Where the other two columns stay the same, ascending rows rise in the third.
LEMMA ColumnRises ==
    ASSUME NEW s \in Seq(Row), Ascends(s), NEW c \in 1 .. 3,
           \A q, r \in ToSet(s) : \A d \in (1 .. 3) \ {c} : q[d] = r[d]
    PROVE  Rises(Column(s, c))
<1>1. /\ DOMAIN Column(s, c) = DOMAIN s
      /\ \A k \in DOMAIN s : Column(s, c)[k] = s[k][c]
  BY ColumnOfRows
<1> SUFFICES ASSUME NEW i \in DOMAIN s, NEW j \in DOMAIN s, i < j
             PROVE  s[i][c] < s[j][c]
  BY <1>1 DEF Rises
<1>2. s[i] \in ToSet(s) /\ s[j] \in ToSet(s) /\ s[i] \in Row /\ s[j] \in Row
  BY MembersOfSeq
<1>3. Precedes(s[i], s[j])
  BY DEF Ascends
<1>4. /\ s[i][1] \in Nat /\ s[i][2] \in Nat /\ s[i][3] \in Nat
      /\ s[j][1] \in Nat /\ s[j][2] \in Nat /\ s[j][3] \in Nat
  BY <1>2 DEF Row
<1>5. \A d \in (1 .. 3) \ {c} : s[i][d] = s[j][d]
  BY <1>2
<1>6. c = 1 \/ c = 2 \/ c = 3
  OBVIOUS
<1>7. /\ 1 # c => s[i][1] = s[j][1]
      /\ 2 # c => s[i][2] = s[j][2]
      /\ 3 # c => s[i][3] = s[j][3]
  BY <1>5
<1> QED BY <1>2, <1>3, <1>4, <1>6, <1>7, PrecedesRead

-----------------------------------------------------------------------------
(* The lookups. *)

\* What GraphBuilder::build makes of rows.
Indexed(graph) ==
    /\ graph.spo \in Seq(Row) /\ Ascends(graph.spo)
    /\ graph.pos \in Seq(Row) /\ Ascends(graph.pos)
    /\ graph.osp \in Seq(Row) /\ Ascends(graph.osp)
    /\ ToSet(graph.pos) = {<<r[2], r[3], r[1]>> : r \in ToSet(graph.spo)}
    /\ ToSet(graph.osp) = {<<r[3], r[1], r[2]>> : r \in ToSet(graph.spo)}
    /\ graph.spoStarts = Starts(graph.spo)
    /\ graph.posStarts = Starts(graph.pos)
    /\ graph.ospStarts = Starts(graph.osp)

\* A sequence has finitely many members.
LEMMA FiniteMembers ==
    ASSUME NEW S, NEW s \in Seq(S)
    PROVE  IsFiniteSet(ToSet(s))
<1>1. Len(s) \in Nat /\ DOMAIN s = 1 .. Len(s) /\ s = [i \in 1 .. Len(s) |-> s[i]]
  BY LenProperties
<1>2. IsFiniteSet(1 .. Len(s))
  <2>1. 1 \in Int /\ Len(s) \in Int
    BY <1>1
  <2> QED BY <2>1, FS_Interval
<1>3. IsFiniteSet({s[i] : i \in 1 .. Len(s)})
  BY <1>1, <1>2, ImageIsFinite
<1> QED BY <1>1, <1>3 DEF ToSet

\* The three orders hold the same triples, each in its own arrangement.
LEMMA BuiltIsIndexed ==
    ASSUME NEW s \in Seq(Row)
    PROVE  Indexed(Built(s)) /\ ToSet(Built(s).spo) = ToSet(s)
<1> DEFINE spo == Sorted(ToSet(s))
           second == [r \in ToSet(spo) |-> <<r[2], r[3], r[1]>>]
           third == [r \in ToSet(spo) |-> <<r[3], r[1], r[2]>>]
           seconds == {<<r[2], r[3], r[1]>> : r \in ToSet(spo)}
           thirds == {<<r[3], r[1], r[2]>> : r \in ToSet(spo)}
<1>1. ToSet(s) \in SUBSET Row /\ IsFiniteSet(ToSet(s))
  BY MembersOfSeq, FiniteMembers
<1>2. spo \in Seq(Row) /\ ToSet(spo) = ToSet(s) /\ Ascends(spo)
  BY <1>1, SortedRows
<1> HIDE DEF spo
<1>3. seconds = {second[r] : r \in ToSet(spo)} /\ thirds = {third[r] : r \in ToSet(spo)}
  OBVIOUS
<1>4. IsFiniteSet(seconds) /\ IsFiniteSet(thirds)
  <2>1. /\ DOMAIN second = ToSet(spo) /\ second = [r \in ToSet(spo) |-> second[r]]
        /\ DOMAIN third = ToSet(spo) /\ third = [r \in ToSet(spo) |-> third[r]]
    OBVIOUS
  <2> HIDE DEF second, third, seconds, thirds
  <2>2. IsFiniteSet({second[r] : r \in ToSet(spo)})
    BY <1>1, <1>2, <2>1, ImageIsFinite
  <2>3. IsFiniteSet({third[r] : r \in ToSet(spo)})
    BY <1>1, <1>2, <2>1, ImageIsFinite
  <2> QED BY <1>3, <2>2, <2>3
<1>5. seconds \in SUBSET Row /\ thirds \in SUBSET Row
  BY <1>1, <1>2 DEF Row
<1>6. /\ Sorted(seconds) \in Seq(Row) /\ ToSet(Sorted(seconds)) = seconds
      /\ Ascends(Sorted(seconds))
      /\ Sorted(thirds) \in Seq(Row) /\ ToSet(Sorted(thirds)) = thirds
      /\ Ascends(Sorted(thirds))
  <2> HIDE DEF seconds, thirds
  <2> QED BY <1>4, <1>5, SortedRows
<1>7. /\ Built(s).spo = spo /\ Built(s).pos = Sorted(seconds) /\ Built(s).osp = Sorted(thirds)
      /\ Built(s).spoStarts = Starts(spo) /\ Built(s).posStarts = Starts(Sorted(seconds))
      /\ Built(s).ospStarts = Starts(Sorted(thirds))
  BY DEF Built, spo
<1>8. seconds = {<<r[2], r[3], r[1]>> : r \in ToSet(spo)}
      /\ thirds = {<<r[3], r[1], r[2]>> : r \in ToSet(spo)}
  OBVIOUS
<1> HIDE DEF seconds, thirds
<1> QED BY <1>2, <1>6, <1>7, <1>8 DEF Indexed

\* What leads in each of the three orders.
LEMMA RunsOfGraph ==
    ASSUME NEW graph, Indexed(graph), NEW a \in Nat
    PROVE  LET triples == ToSet(graph.spo)
               spo == Run(graph.spoStarts, graph.spo, a)
               pos == Run(graph.posStarts, graph.pos, a)
               osp == Run(graph.ospStarts, graph.osp, a)
           IN  /\ triples \in SUBSET Row /\ IsFiniteSet(triples)
               /\ spo \in Seq(Row) /\ Ascends(spo)
               /\ pos \in Seq(Row) /\ Ascends(pos)
               /\ osp \in Seq(Row) /\ Ascends(osp)
               /\ ToSet(spo) = {r \in triples : r[1] = a}
               /\ ToSet(pos) = {<<r[2], r[3], r[1]>> : r \in {t \in triples : t[2] = a}}
               /\ ToSet(osp) = {<<r[3], r[1], r[2]>> : r \in {t \in triples : t[3] = a}}
<1> DEFINE triples == ToSet(graph.spo)
           spo == Run(graph.spoStarts, graph.spo, a)
           pos == Run(graph.posStarts, graph.pos, a)
           osp == Run(graph.ospStarts, graph.osp, a)
<1>1. triples \in SUBSET Row /\ IsFiniteSet(triples)
  BY MembersOfSeq, FiniteMembers DEF Indexed
<1>2. /\ spo \in Seq(Row) /\ Ascends(spo)
      /\ ToSet(spo) = {r \in triples : r[1] = a}
  BY RunOfRows DEF Indexed
<1>3. /\ pos \in Seq(Row) /\ Ascends(pos)
      /\ ToSet(pos) = {r \in ToSet(graph.pos) : r[1] = a}
  BY RunOfRows DEF Indexed
<1>4. /\ osp \in Seq(Row) /\ Ascends(osp)
      /\ ToSet(osp) = {r \in ToSet(graph.osp) : r[1] = a}
  BY RunOfRows DEF Indexed
<1>5. /\ ToSet(graph.pos) = {<<r[2], r[3], r[1]>> : r \in triples}
      /\ ToSet(graph.osp) = {<<r[3], r[1], r[2]>> : r \in triples}
  BY DEF Indexed
<1> HIDE DEF triples, spo, pos, osp
<1>6. ToSet(pos) = {<<r[2], r[3], r[1]>> : r \in {t \in triples : t[2] = a}}
  BY <1>3, <1>5
<1>7. ToSet(osp) = {<<r[3], r[1], r[2]>> : r \in {t \in triples : t[3] = a}}
  BY <1>4, <1>5
<1> QED BY <1>1, <1>2, <1>3, <1>4, <1>6, <1>7 DEF triples, spo, pos, osp

\* Each triple with a certain predicate is one row of a run.
LEMMA RunIsCounted ==
    ASSUME NEW s \in Seq(Row), Ascends(s), NEW T \in SUBSET Row,
           ToSet(s) = {<<r[2], r[3], r[1]>> : r \in T}
    PROVE  Len(s) = Cardinality(T)
<1> DEFINE turned == [k \in 1 .. Len(s) |-> <<s[k][3], s[k][1], s[k][2]>>]
<1>1. Len(s) \in Nat /\ DOMAIN s = 1 .. Len(s) /\ \A k \in 1 .. Len(s) : s[k] \in Row
  BY ElementOfSeq, LenProperties
<1>2. \A k \in 1 .. Len(s) : turned[k] \in T
  <2> SUFFICES ASSUME NEW k \in 1 .. Len(s) PROVE turned[k] \in T
    OBVIOUS
  <2>1. PICK r \in T : s[k] = <<r[2], r[3], r[1]>>
    BY <1>1, MembersOfSeq
  <2>2. turned[k] = <<r[1], r[2], r[3]>>
    BY <2>1
  <2>3. r = <<r[1], r[2], r[3]>>
    BY DEF Row
  <2> QED BY <2>2, <2>3
<1>3. \A r \in T : \E k \in 1 .. Len(s) : turned[k] = r
  <2> SUFFICES ASSUME NEW r \in T PROVE \E k \in 1 .. Len(s) : turned[k] = r
    OBVIOUS
  <2>1. <<r[2], r[3], r[1]>> \in ToSet(s)
    OBVIOUS
  <2>2. PICK k \in 1 .. Len(s) : s[k] = <<r[2], r[3], r[1]>>
    BY <1>1, <2>1 DEF ToSet
  <2>3. turned[k] = <<r[1], r[2], r[3]>>
    BY <2>2
  <2>4. turned[k] = r
    BY <2>3 DEF Row
  <2> QED BY <2>4
<1>4. \A i, j \in 1 .. Len(s) : turned[i] = turned[j] => i = j
  <2> SUFFICES ASSUME NEW i \in 1 .. Len(s), NEW j \in 1 .. Len(s), turned[i] = turned[j]
               PROVE  i = j
    OBVIOUS
  <2>1. /\ s[i] = <<s[i][1], s[i][2], s[i][3]>> /\ s[j] = <<s[j][1], s[j][2], s[j][3]>>
    <3>1. \A r \in Row : r = <<r[1], r[2], r[3]>>
      BY DEF Row
    <3>2. s[i] \in Row /\ s[j] \in Row
      BY <1>1
    <3> QED BY <3>1, <3>2
  <2>2. s[i] = s[j]
    BY <2>1
  <2>3. ~Precedes(s[i], s[j]) /\ ~Precedes(s[j], s[i])
    BY <1>1, <2>2, PrecedesOrders
  <2> QED BY <1>1, <2>3 DEF Ascends
<1>5. turned \in [1 .. Len(s) -> T]
  BY <1>2
<1> HIDE DEF turned
<1>6. turned \in Bijection(1 .. Len(s), T)
  BY <1>3, <1>4, <1>5, Fun_IsInj, Fun_IsSurj DEF Bijection
<1>7. ExistsBijection(1 .. Len(s), T)
  BY <1>6 DEF ExistsBijection
<1>8. IsFiniteSet(1 .. Len(s)) /\ Cardinality(1 .. Len(s)) = Len(s)
  <2>1. 1 \in Int /\ Len(s) \in Int
    BY <1>1
  <2>2. /\ IsFiniteSet(1 .. Len(s))
        /\ Cardinality(1 .. Len(s)) = IF 1 > Len(s) THEN 0 ELSE Len(s) - 1 + 1
    BY <2>1, FS_Interval
  <2> QED BY <1>1, <2>2
<1> QED BY <1>7, <1>8, FS_Bijection

\* The columns of rows that were turned to lead with their second or third term.
LEMMA TurnedColumns ==
    ASSUME NEW T
    PROVE  /\ {p[3] : p \in {<<r[2], r[3], r[1]>> : r \in T}} = {r[1] : r \in T}
           /\ {p[2] : p \in {<<r[2], r[3], r[1]>> : r \in T}} = {r[3] : r \in T}
           /\ {<<p[2], p[3]>> : p \in {<<r[3], r[1], r[2]>> : r \in T}} =
                 {<<r[1], r[2]>> : r \in T}
<1> DEFINE second(r) == <<r[2], r[3], r[1]>>
           third(r) == <<r[3], r[1], r[2]>>
<1>1. \A r \in T : /\ second(r)[3] = r[1] /\ second(r)[2] = r[3]
                   /\ third(r)[2] = r[1] /\ third(r)[3] = r[2]
  OBVIOUS
<1> HIDE DEF second, third
<1>2. /\ {p[3] : p \in {second(r) : r \in T}} = {second(r)[3] : r \in T}
      /\ {p[2] : p \in {second(r) : r \in T}} = {second(r)[2] : r \in T}
      /\ {<<p[2], p[3]>> : p \in {third(r) : r \in T}} = {<<third(r)[2], third(r)[3]>> : r \in T}
  OBVIOUS
<1>3. /\ {second(r)[3] : r \in T} = {r[1] : r \in T}
      /\ {second(r)[2] : r \in T} = {r[3] : r \in T}
      /\ {<<third(r)[2], third(r)[3]>> : r \in T} = {<<r[1], r[2]>> : r \in T}
  BY <1>1
<1>4. \A r \in T : second(r) = <<r[2], r[3], r[1]>> /\ third(r) = <<r[3], r[1], r[2]>>
  BY DEF second, third
<1>5. /\ {second(r) : r \in T} = {<<r[2], r[3], r[1]>> : r \in T}
      /\ {third(r) : r \in T} = {<<r[3], r[1], r[2]>> : r \in T}
  BY <1>4
<1> QED BY <1>2, <1>3, <1>5

\* Pairs of columns of a run.
LEMMA PairsOfRows ==
    ASSUME NEW s \in Seq(Row)
    PROVE  ToSet([k \in DOMAIN s |-> <<s[k][2], s[k][3]>>]) = {<<r[2], r[3]>> : r \in ToSet(s)}
BY DEF ToSet

\* The lookups of one id in a graph that was built: has_subject, predicates and
\* objects, subjects and predicates, subjects_of and objects_of.
LEMMA LookupsOfOne ==
    ASSUME NEW graph, Indexed(graph), NEW a \in Nat
    PROVE  FindsOf(graph, a)
<1> DEFINE triples == ToSet(graph.spo)
           spo == Run(graph.spoStarts, graph.spo, a)
           pos == Run(graph.posStarts, graph.pos, a)
           osp == Run(graph.ospStarts, graph.osp, a)
<1>1. /\ triples \in SUBSET Row /\ IsFiniteSet(triples)
      /\ spo \in Seq(Row) /\ Ascends(spo)
      /\ pos \in Seq(Row) /\ Ascends(pos)
      /\ osp \in Seq(Row) /\ Ascends(osp)
      /\ ToSet(spo) = {r \in triples : r[1] = a}
      /\ ToSet(pos) = {<<r[2], r[3], r[1]>> : r \in {t \in triples : t[2] = a}}
      /\ ToSet(osp) = {<<r[3], r[1], r[2]>> : r \in {t \in triples : t[3] = a}}
  BY RunsOfGraph
<1>2. /\ HasSubject(graph, a) = (spo # <<>>)
      /\ PredicateObjects(graph, a) = [k \in DOMAIN spo |-> <<spo[k][2], spo[k][3]>>]
      /\ SubjectPredicates(graph, a) = [k \in DOMAIN osp |-> <<osp[k][2], osp[k][3]>>]
      /\ SubjectsOf(graph, a) = Column(pos, 3)
      /\ ObjectsOf(graph, a) = Column(pos, 2)
  BY DEF HasSubject, PredicateObjects, SubjectPredicates, SubjectsOf, ObjectsOf
<1> HIDE DEF triples, spo, pos, osp
<1>3. HasSubject(graph, a) = \E t \in triples : t[1] = a
  <2>1. spo = <<>> => ToSet(spo) = {}
    BY DEF ToSet
  <2>2. spo # <<>> => spo[1] \in ToSet(spo)
    <3>1. spo # <<>> => 1 \in DOMAIN spo
      BY <1>1, EmptySeq, LenProperties
    <3> QED BY <3>1 DEF ToSet
  <2> QED BY <1>1, <1>2, <2>1, <2>2
<1>4. ToSet(PredicateObjects(graph, a)) = {<<t[2], t[3]>> : t \in {u \in triples : u[1] = a}}
  BY <1>1, <1>2, PairsOfRows
<1>5. ToSet(SubjectPredicates(graph, a)) = {<<t[1], t[2]>> : t \in {u \in triples : u[3] = a}}
  <2>1. ToSet(SubjectPredicates(graph, a)) = {<<r[2], r[3]>> : r \in ToSet(osp)}
    BY <1>1, <1>2, PairsOfRows
  <2> QED BY <1>1, <2>1, TurnedColumns
<1>6. ToSet(SubjectsOf(graph, a)) = {t[1] : t \in {u \in triples : u[2] = a}}
  <2>1. ToSet(SubjectsOf(graph, a)) = {r[3] : r \in ToSet(pos)}
    BY <1>1, <1>2, ColumnOfRows
  <2> QED BY <1>1, <2>1, TurnedColumns
<1>7. ToSet(ObjectsOf(graph, a)) = {t[3] : t \in {u \in triples : u[2] = a}}
  <2>1. ToSet(ObjectsOf(graph, a)) = {r[2] : r \in ToSet(pos)}
    BY <1>1, <1>2, ColumnOfRows
  <2> QED BY <1>1, <2>1, TurnedColumns
<1>8. Len(SubjectsOf(graph, a)) = Cardinality({u \in triples : u[2] = a})
  <2>1. Len(SubjectsOf(graph, a)) = Len(pos)
    BY <1>1, <1>2, ColumnOfRows
  <2>2. {u \in triples : u[2] = a} \in SUBSET Row
    BY <1>1
  <2> QED BY <1>1, <2>1, <2>2, RunIsCounted
<1> QED BY <1>3, <1>4, <1>5, <1>6, <1>7, <1>8 DEF FindsOf, triples

\* The lookups of two: objects of a subject, subjects of an object.
LEMMA LookupsOfTwo ==
    ASSUME NEW graph, Indexed(graph), NEW a \in Nat, NEW b \in Nat
    PROVE  FindsOfBoth(graph, a, b)
<1> DEFINE triples == ToSet(graph.spo)
           spo == Run(graph.spoStarts, graph.spo, a)
           pos == Run(graph.posStarts, graph.pos, a)
           ab == {t \in triples : t[1] = a /\ t[2] = b}
           bc == {t \in triples : t[2] = a /\ t[3] = b}
<1>1. /\ triples \in SUBSET Row /\ IsFiniteSet(triples)
      /\ spo \in Seq(Row) /\ Ascends(spo)
      /\ pos \in Seq(Row) /\ Ascends(pos)
      /\ ToSet(spo) = {r \in triples : r[1] = a}
      /\ ToSet(pos) = {<<r[2], r[3], r[1]>> : r \in {t \in triples : t[2] = a}}
  BY RunsOfGraph
<1>2. /\ Objects(graph, a, b) = Column(Prefix2(spo, b), 3)
      /\ Subjects(graph, a, b) = Column(Prefix2(pos, b), 3)
  BY DEF Objects, Subjects
<1> HIDE DEF triples, spo, pos
<1>3. ab \in SUBSET Row /\ IsFiniteSet(ab) /\ bc \in SUBSET Row /\ IsFiniteSet(bc)
  <2>1. ab \in SUBSET triples /\ bc \in SUBSET triples
    OBVIOUS
  <2> HIDE DEF ab, bc
  <2> QED BY <1>1, <2>1, FS_Subset
<1>4. /\ Sorted(ab) \in Seq(Row) /\ Ascends(Sorted(ab)) /\ ToSet(Sorted(ab)) = ab
      /\ Sorted(bc) \in Seq(Row) /\ Ascends(Sorted(bc)) /\ ToSet(Sorted(bc)) = bc
  <2> HIDE DEF ab, bc
  <2> QED BY <1>3, SortedRows
<1>5. Column(Prefix2(spo, b), 3) = Column(Sorted(ab), 3)
  <2> DEFINE found == Prefix2(spo, b)
  <2>1. /\ found \in Seq(Row) /\ Ascends(found)
        /\ ToSet(found) = {r \in ToSet(spo) : r[2] = b}
    <3>1. \A r \in ToSet(spo) : r[1] = a
      BY <1>1
    <3> QED BY <1>1, <3>1, PrefixOfRun
  <2> HIDE DEF found
  <2>2. ToSet(found) = ab
    BY <1>1, <2>1
  <2>3. \A q, r \in ab : \A d \in (1 .. 3) \ {3} : q[d] = r[d]
    <3>1. (1 .. 3) \ {3} = {1, 2}
      OBVIOUS
    <3> QED BY <3>1
  <2> HIDE DEF ab
  <2>4. 3 \in 1 .. 3
    OBVIOUS
  <2>5. Rises(Column(found, 3)) /\ Rises(Column(Sorted(ab), 3))
    BY <1>4, <2>1, <2>2, <2>3, <2>4, ColumnRises
  <2>6. /\ Column(found, 3) \in Seq(Nat) /\ ToSet(Column(found, 3)) = {r[3] : r \in ab}
        /\ Column(Sorted(ab), 3) \in Seq(Nat)
        /\ ToSet(Column(Sorted(ab), 3)) = {r[3] : r \in ab}
    <3>1. Column(found, 3) \in Seq(Nat) /\ ToSet(Column(found, 3)) = {r[3] : r \in ToSet(found)}
      BY <2>1, <2>4, ColumnOfRows
    <3>2. /\ Column(Sorted(ab), 3) \in Seq(Nat)
          /\ ToSet(Column(Sorted(ab), 3)) = {r[3] : r \in ToSet(Sorted(ab))}
      BY <1>4, <2>4, ColumnOfRows
    <3> QED BY <1>4, <2>2, <3>1, <3>2
  <2>7. Column(found, 3) = Column(Sorted(ab), 3)
    BY <2>5, <2>6, OneRising
  <2> QED BY <2>7 DEF found
<1>6. Column(Prefix2(pos, b), 3) = Column(Sorted(bc), 1)
  <2> DEFINE found == Prefix2(pos, b)
  <2>1. /\ found \in Seq(Row) /\ Ascends(found)
        /\ ToSet(found) = {r \in ToSet(pos) : r[2] = b}
    <3>1. \A r \in ToSet(pos) : r[1] = a
      BY <1>1
    <3> QED BY <1>1, <3>1, PrefixOfRun
  <2> HIDE DEF found
  <2>2. ToSet(found) = {<<r[2], r[3], r[1]>> : r \in bc}
    BY <1>1, <2>1
  <2>3. /\ \A q, r \in ToSet(found) : \A d \in (1 .. 3) \ {3} : q[d] = r[d]
        /\ \A q, r \in bc : \A d \in (1 .. 3) \ {1} : q[d] = r[d]
    <3>1. (1 .. 3) \ {3} = {1, 2} /\ (1 .. 3) \ {1} = {2, 3}
      OBVIOUS
    <3>2. \A r \in bc : r[2] = a /\ r[3] = b
      OBVIOUS
    <3>3. \A r \in ToSet(found) : r[1] = a /\ r[2] = b
      BY <2>2, <3>2
    <3> QED BY <3>1, <3>2, <3>3
  <2> HIDE DEF bc
  <2>4. 3 \in 1 .. 3 /\ 1 \in 1 .. 3
    OBVIOUS
  <2>5. Rises(Column(found, 3)) /\ Rises(Column(Sorted(bc), 1))
    BY <1>4, <2>1, <2>3, <2>4, ColumnRises
  <2>6. /\ Column(found, 3) \in Seq(Nat) /\ Column(Sorted(bc), 1) \in Seq(Nat)
        /\ ToSet(Column(found, 3)) = {r[3] : r \in ToSet(found)}
        /\ ToSet(Column(Sorted(bc), 1)) = {r[1] : r \in bc}
    BY <1>4, <2>1, <2>4, ColumnOfRows
  <2>7. {r[3] : r \in ToSet(found)} = {r[1] : r \in bc}
    BY <2>2, TurnedColumns
  <2>8. Column(found, 3) = Column(Sorted(bc), 1)
    BY <2>5, <2>6, <2>7, OneRising
  <2> QED BY <2>8 DEF found
<1> QED BY <1>2, <1>5, <1>6 DEF FindsOfBoth, ab, bc, triples

-----------------------------------------------------------------------------
(* A store of terms and its tables. *)

\* Sequences and functions of any values; what is listed once.
IsList(s) == s \in Seq(ToSet(s))
Distinct(s) == \A i, j \in DOMAIN s : s[i] = s[j] => i = j
IsTable(f) == f = [x \in DOMAIN f |-> f[x]]

\* Nothing that was there is lost or changed.
Grows(f, g) == DOMAIN f \subseteq DOMAIN g /\ \A x \in DOMAIN f : g[x] = f[x]

\* A store has its seven fields and no other.
Fields == {"strings", "terms", "lookup", "namedOf", "blankOf", "tripleTerms", "blankNumbers"}
Whole(st) == st = [field \in Fields |-> st[field]]

IsIri(t) == t.kind = "iri" /\ t = IriTerm(t.s)
IsTag(lang, strings) == lang = <<>> \/ \E l \in DOMAIN strings : lang = <<l>>
LooksUp(table, key, i) == key \in DOMAIN table /\ table[key] = i

\* What a term refers to is there.
IriFits(st, t) == IsIri(t) /\ t.s \in DOMAIN st.strings
BlankFits(st, t) == t.kind = "blank" /\ t = BlankTerm(t.s) /\ t.s \in DOMAIN st.strings
TripleFits(st, t) == t.kind = "triple" /\ t = TripleTermAt(t.i) /\ t.i \in DOMAIN st.tripleTerms
LiteralFits(st, t) ==
    /\ t.kind = "literal" /\ t = LiteralTerm(t.s, t.datatype, t.lang, t.dir)
    /\ t.s \in DOMAIN st.strings /\ IsTag(t.lang, st.strings)
    /\ t.datatype \in DOMAIN st.terms /\ IsIri(st.terms[t.datatype])

\* The table of its kind leads back to it.
IriRight(st, t, i) == IriFits(st, t) /\ LooksUp(st.namedOf, t.s, i)
BlankRight(st, t, i) == BlankFits(st, t) /\ LooksUp(st.blankOf, t.s, i)
TripleRight(st, t, i) == TripleFits(st, t) /\ LooksUp(st.lookup, t, i)
LiteralRight(st, t, i) == LiteralFits(st, t) /\ LooksUp(st.lookup, t, i)
TermRight(st, t, i) ==
    IriRight(st, t, i) \/ BlankRight(st, t, i) \/ TripleRight(st, t, i) \/ LiteralRight(st, t, i)

\* An entry of a table leads to the term it was made for.
MadeOf(kind, key) ==
    CASE kind = "iri" -> IriTerm(key) [] kind = "blank" -> BlankTerm(key) [] OTHER -> key
Names(st, table, kind) ==
    /\ IsTable(table)
    /\ \A k \in DOMAIN table :
          table[k] \in DOMAIN st.terms /\ st.terms[table[k]] = MadeOf(kind, k)
LooksRight(st) == \A d \in DOMAIN st.lookup : d.kind \in {"literal", "triple"}

\* Strings, triple terms and terms are lists, the first two of distinct entries.
Listed(st) ==
    /\ IsList(st.strings) /\ Distinct(st.strings)
    /\ IsList(st.tripleTerms) /\ Distinct(st.tripleTerms)
    /\ IsList(st.terms)
\* The tables lead to terms of their kind.
Tabled(st) ==
    /\ Names(st, st.namedOf, "iri")
    /\ Names(st, st.blankOf, "blank")
    /\ Names(st, st.lookup, "other")
    /\ LooksRight(st)

\* The invariant of the store.
StoreRight(st) ==
    /\ Whole(st) /\ Listed(st) /\ Tabled(st)
    /\ \A i \in DOMAIN st.terms : TermRight(st, st.terms[i], i)

\* A list with one more.
LEMMA AppendedList ==
    ASSUME NEW s, IsList(s), NEW x
    PROVE  /\ IsList(Append(s, x)) /\ Grows(s, Append(s, x))
           /\ Len(s) \in Nat /\ DOMAIN s = 1 .. Len(s)
           /\ DOMAIN Append(s, x) = 1 .. (Len(s) + 1)
           /\ Append(s, x)[Len(s) + 1] = x
<1> DEFINE S == ToSet(s) \cup {x}
<1>1. s \in Seq(S) /\ x \in S
  BY SeqMonotonic DEF IsList
<1>2. Len(s) \in Nat /\ DOMAIN s = 1 .. Len(s)
  BY <1>1, LenProperties
<1>3. /\ Append(s, x) \in Seq(S) /\ Len(Append(s, x)) = Len(s) + 1
      /\ \A i \in 1 .. Len(s) : Append(s, x)[i] = s[i]
      /\ Append(s, x)[Len(s) + 1] = x
  BY <1>1, AppendProperties
<1>4. DOMAIN Append(s, x) = 1 .. (Len(s) + 1)
  BY <1>3, LenProperties
<1>5. IsList(Append(s, x))
  BY <1>3, MembersOfSeq DEF IsList
<1> QED BY <1>2, <1>3, <1>4, <1>5 DEF Grows

\* What growing keeps, it keeps over many steps.
LEMMA GrowsOn ==
    ASSUME NEW f, NEW g, NEW h, Grows(f, g), Grows(g, h)
    PROVE  Grows(f, f) /\ Grows(f, h)
BY DEF Grows

\* The position of what a list holds once.
LEMMA PositionOnce ==
    ASSUME NEW s, IsList(s), Distinct(s), NEW i \in DOMAIN s
    PROVE  Position(s, s[i]) = i
<1> DEFINE P(j) == j \in DOMAIN s /\ s[j] = s[i]
<1>1. P(i)
  OBVIOUS
<1>2. Position(s, s[i]) = CHOOSE j \in DOMAIN s : P(j)
  BY DEF Position
<1>3. P(Position(s, s[i]))
  BY <1>1, <1>2
<1> QED BY <1>3 DEF Distinct

\* Interner::intern: no string gets two ids, and none loses the one it has.
LEMMA InternedOnce ==
    ASSUME NEW s, IsList(s), Distinct(s), NEW x
    PROVE  /\ IsList(Interned(s, x)) /\ Distinct(Interned(s, x))
           /\ Grows(s, Interned(s, x))
           /\ LooksUp(Interned(s, x), Position(Interned(s, x), x), x)
<1> DEFINE t == Interned(s, x)
<1>1. \A i \in DOMAIN t : t[i] = x => LooksUp(t, Position(t, x), x)
  <2> TAKE i \in DOMAIN t
  <2> HAVE t[i] = x
  <2> DEFINE P(j) == j \in DOMAIN t /\ t[j] = x
  <2> HIDE DEF t
  <2>1. P(i) /\ Position(t, x) = CHOOSE j \in DOMAIN t : P(j)
    BY DEF Position
  <2>2. P(Position(t, x))
    BY <2>1
  <2> QED BY <2>2 DEF LooksUp
<1>2. CASE x \in ToSet(s)
  <2>1. t = s
    BY <1>2 DEF Interned
  <2>2. PICK i \in DOMAIN s : s[i] = x
    BY <1>2 DEF ToSet
  <2> HIDE DEF t
  <2>3. IsList(t) /\ Distinct(t) /\ Grows(s, t) /\ LooksUp(t, Position(t, x), x)
    BY <1>1, <2>1, <2>2 DEF Grows
  <2> QED BY <2>3 DEF t
<1>3. CASE x \notin ToSet(s)
  <2>1. t = Append(s, x)
    BY <1>3 DEF Interned
  <2> HIDE DEF t
  <2>2. /\ IsList(t) /\ Grows(s, t) /\ Len(s) \in Nat /\ DOMAIN s = 1 .. Len(s)
        /\ DOMAIN t = 1 .. (Len(s) + 1) /\ t[Len(s) + 1] = x
    BY <2>1, AppendedList
  <2>3. \A i \in DOMAIN s : s[i] # x
    BY <1>3 DEF ToSet
  <2>4. Distinct(t)
    <3> SUFFICES ASSUME NEW i \in DOMAIN t, NEW j \in DOMAIN t, t[i] = t[j] PROVE i = j
      BY DEF Distinct
    <3>1. \A k \in DOMAIN t : k \in DOMAIN s \/ k = Len(s) + 1
      BY <2>2
    <3>2. \A k \in DOMAIN s : t[k] = s[k] /\ t[k] # x
      BY <2>2, <2>3 DEF Grows
    <3>3. CASE i \in DOMAIN s /\ j \in DOMAIN s
      BY <3>2, <3>3 DEF Distinct
    <3> QED BY <2>2, <3>1, <3>2, <3>3
  <2>5. LooksUp(t, Position(t, x), x)
    <3>1. Len(s) + 1 \in DOMAIN t
      BY <2>2
    <3> QED BY <1>1, <2>2, <3>1
  <2> QED BY <2>2, <2>4, <2>5 DEF t
<1> QED BY <1>2, <1>3

\* A term stays right as the store grows.
LEMMA RightStill ==
    ASSUME NEW st, NEW more, Grows(st.strings, more.strings),
           Grows(st.tripleTerms, more.tripleTerms), Grows(st.terms, more.terms),
           Grows(st.namedOf, more.namedOf), Grows(st.blankOf, more.blankOf),
           Grows(st.lookup, more.lookup), NEW t, NEW i, TermRight(st, t, i)
    PROVE  TermRight(more, t, i)
<1>1. IriRight(st, t, i) => IriRight(more, t, i)
  BY DEF IriRight, IriFits, LooksUp, Grows
<1>2. BlankRight(st, t, i) => BlankRight(more, t, i)
  BY DEF BlankRight, BlankFits, LooksUp, Grows
<1>3. TripleRight(st, t, i) => TripleRight(more, t, i)
  BY DEF TripleRight, TripleFits, LooksUp, Grows
<1>4. LiteralRight(st, t, i) => LiteralRight(more, t, i)
  <2>1. IsTag(t.lang, st.strings) => IsTag(t.lang, more.strings)
    BY DEF IsTag, Grows
  <2> QED BY <2>1 DEF LiteralRight, LiteralFits, LooksUp, Grows
<1> QED BY <1>1, <1>2, <1>3, <1>4 DEF TermRight

\* A store with the same terms and other strings, triples and numbers of labels.
Besides(st, strings, tripleTerms, blankNumbers) ==
    [st EXCEPT !.strings = strings, !.tripleTerms = tripleTerms, !.blankNumbers = blankNumbers]

\* If nothing in them is lost, its terms stay right.
LEMMA MoreBesides ==
    ASSUME NEW st, StoreRight(st), NEW strings, NEW tripleTerms, NEW blankNumbers,
           IsList(strings), Distinct(strings), Grows(st.strings, strings),
           IsList(tripleTerms), Distinct(tripleTerms), Grows(st.tripleTerms, tripleTerms)
    PROVE  StoreRight(Besides(st, strings, tripleTerms, blankNumbers))
<1> DEFINE more == Besides(st, strings, tripleTerms, blankNumbers)
<1>1. /\ Whole(more) /\ more.strings = strings /\ more.tripleTerms = tripleTerms
      /\ more.terms = st.terms /\ more.lookup = st.lookup
      /\ more.namedOf = st.namedOf /\ more.blankOf = st.blankOf
  BY DEF StoreRight, Whole, Fields, Besides
<1> HIDE DEF more
<1>2. Listed(more)
  BY <1>1 DEF StoreRight, Listed
<1>3. Tabled(more)
  BY <1>1 DEF StoreRight, Tabled, Names, LooksRight
<1>4. ASSUME NEW i \in DOMAIN st.terms PROVE TermRight(more, st.terms[i], i)
  <2>1. TermRight(st, st.terms[i], i)
    BY DEF StoreRight
  <2>2. /\ Grows(st.terms, st.terms) /\ Grows(st.namedOf, st.namedOf)
        /\ Grows(st.blankOf, st.blankOf) /\ Grows(st.lookup, st.lookup)
    BY DEF Grows
  <2> QED BY <1>1, <2>1, <2>2, RightStill
<1> QED BY <1>1, <1>2, <1>3, <1>4 DEF StoreRight, more

\* A table with one more entry.
LEMMA WithOne ==
    ASSUME NEW table, IsTable(table), NEW key, NEW value
    PROVE  /\ IsTable(With(table, key, value))
           /\ DOMAIN With(table, key, value) = DOMAIN table \cup {key}
           /\ With(table, key, value)[key] = value
           /\ \A k \in DOMAIN table \ {key} : With(table, key, value)[k] = table[k]
           /\ key \notin DOMAIN table => Grows(table, With(table, key, value))
BY DEF With, IsTable, Grows

\* A table and one entry more, made for one term more.
LEMMA NamesOneMore ==
    ASSUME NEW st, NEW kind, NEW table, Names(st, table, kind), NEW key, key \notin DOMAIN table,
           NEW more, IsList(st.terms), more.terms = Append(st.terms, MadeOf(kind, key))
    PROVE  Names(more, With(table, key, Len(st.terms) + 1), kind)
<1> DEFINE grown == With(table, key, Len(st.terms) + 1)
<1>1. /\ Grows(st.terms, more.terms) /\ Len(st.terms) \in Nat
      /\ Len(st.terms) + 1 \in DOMAIN more.terms
      /\ more.terms[Len(st.terms) + 1] = MadeOf(kind, key)
  BY AppendedList
<1>2. /\ IsTable(grown) /\ DOMAIN grown = DOMAIN table \cup {key}
      /\ grown[key] = Len(st.terms) + 1
      /\ \A k \in DOMAIN table \ {key} : grown[k] = table[k]
  <2>1. IsTable(table)
    BY DEF Names
  <2> QED BY <2>1 DEF With, IsTable
<1> HIDE DEF grown
<1>3. ASSUME NEW k \in DOMAIN grown
      PROVE  grown[k] \in DOMAIN more.terms /\ more.terms[grown[k]] = MadeOf(kind, k)
  <2>1. CASE k = key
    BY <1>1, <1>2, <2>1
  <2>2. CASE k # key
    <3>1. k \in DOMAIN table /\ grown[k] = table[k]
      BY <1>2, <2>2
    <3> QED BY <1>1, <3>1 DEF Names, Grows
  <2> QED BY <2>1, <2>2
<1> QED BY <1>2, <1>3 DEF Names, grown

\* A table stays right as terms are added.
LEMMA NamesStill ==
    ASSUME NEW st, NEW kind, NEW table, Names(st, table, kind),
           NEW more, Grows(st.terms, more.terms)
    PROVE  Names(more, table, kind)
BY DEF Names, Grows

\* A store with one more term, which its table finds.
LEMMA OneMoreTerm ==
    ASSUME NEW st, StoreRight(st), NEW more, Whole(more), Listed(more), Tabled(more),
           Grows(st.strings, more.strings), Grows(st.tripleTerms, more.tripleTerms),
           Grows(st.namedOf, more.namedOf), Grows(st.blankOf, more.blankOf),
           Grows(st.lookup, more.lookup),
           NEW data, more.terms = Append(st.terms, data),
           TermRight(more, data, Len(st.terms) + 1)
    PROVE  /\ StoreRight(more)
           /\ Len(st.terms) + 1 \in Nat /\ Len(st.terms) + 1 \in DOMAIN more.terms
           /\ more.terms[Len(st.terms) + 1] = data
<1>1. IsList(st.terms)
  BY DEF StoreRight, Listed
<1>2. /\ Grows(st.terms, more.terms) /\ Len(st.terms) \in Nat
      /\ DOMAIN st.terms = 1 .. Len(st.terms)
      /\ DOMAIN more.terms = 1 .. (Len(st.terms) + 1)
      /\ more.terms[Len(st.terms) + 1] = data
  BY <1>1, AppendedList
<1>3. ASSUME NEW i \in DOMAIN st.terms PROVE TermRight(more, more.terms[i], i)
  <2>1. TermRight(st, st.terms[i], i) /\ more.terms[i] = st.terms[i]
    BY <1>2 DEF StoreRight, Grows
  <2> QED BY <1>2, <2>1, RightStill
<1>4. \A i \in DOMAIN more.terms : i \in DOMAIN st.terms \/ i = Len(st.terms) + 1
  BY <1>2
<1>5. \A i \in DOMAIN more.terms : TermRight(more, more.terms[i], i)
  BY <1>2, <1>3, <1>4
<1> QED BY <1>2, <1>5 DEF StoreRight

\* What entering a term comes to.
Entered(st, found) ==
    /\ StoreRight(found.store) /\ Grows(st.strings, found.store.strings)
    /\ found.id \in DOMAIN found.store.terms /\ found.id \in Nat

\* A term a table finds is one the store holds.
LEMMA FoundIsHeld ==
    ASSUME NEW st, StoreRight(st), NEW kind, NEW table, Names(st, table, kind),
           NEW key \in DOMAIN table
    PROVE  /\ table[key] \in DOMAIN st.terms /\ table[key] \in Nat
           /\ st.terms[table[key]] = MadeOf(kind, key)
<1>1. DOMAIN st.terms \subseteq Nat
  <2>1. DOMAIN st.terms = 1 .. Len(st.terms)
    BY LenProperties DEF StoreRight, Listed, IsList
  <2> QED BY <2>1
<1> QED BY <1>1 DEF Names

\* by_string for an IRI.
LEMMA NamedNodeEntered ==
    ASSUME NEW st, StoreRight(st), NEW iri
    PROVE  LET found == NamedNode(st, iri)
           IN  Entered(st, found) /\ IsIri(found.store.terms[found.id])
<1> DEFINE strings == Interned(st.strings, iri)
           s == Position(strings, iri)
           n == Len(st.terms) + 1
           terms == Append(st.terms, IriTerm(s))
           namedOf == With(st.namedOf, s, n)
           more == [st EXCEPT !.strings = strings, !.terms = terms, !.namedOf = namedOf]
           found == NamedNode(st, iri)
<1>1. /\ IsList(strings) /\ Distinct(strings) /\ Grows(st.strings, strings)
      /\ s \in DOMAIN strings
  BY InternedOnce DEF StoreRight, Listed, LooksUp
<1>2. IsIri(IriTerm(s)) /\ IriTerm(s).s = s
  BY DEF IsIri, IriTerm
<1>3. Names(st, st.namedOf, "iri")
  BY DEF StoreRight, Tabled
<1>4. MadeOf("iri", s) = IriTerm(s)
  BY DEF MadeOf
<1>5. CASE s \in DOMAIN st.namedOf
  <2>1. found.store = st /\ found.id = st.namedOf[s]
    BY <1>5 DEF NamedNode
  <2>2. /\ st.namedOf[s] \in DOMAIN st.terms /\ st.namedOf[s] \in Nat
        /\ st.terms[st.namedOf[s]] = IriTerm(s)
    BY <1>3, <1>4, <1>5, FoundIsHeld
  <2> HIDE DEF found, s, strings
  <2>3. Grows(st.strings, st.strings)
    BY DEF Grows
  <2> QED BY <1>2, <2>1, <2>2, <2>3 DEF Entered, found
<1>6. CASE s \notin DOMAIN st.namedOf
  <2>1. found.store = more /\ found.id = n
    BY <1>6 DEF NamedNode
  <2> HIDE DEF found, s, strings, terms, namedOf
  <2>2. /\ Whole(more) /\ more.strings = strings /\ more.tripleTerms = st.tripleTerms
        /\ more.terms = terms /\ more.lookup = st.lookup
        /\ more.namedOf = namedOf /\ more.blankOf = st.blankOf
    BY DEF StoreRight, Whole, Fields
  <2> HIDE DEF more
  <2> USE DEF terms, namedOf
  <2>3. IsList(st.terms)
    BY DEF StoreRight, Listed
  <2>4. IsList(more.terms) /\ Grows(st.terms, more.terms)
    BY <2>2, <2>3, AppendedList
  <2>5. /\ Names(more, more.namedOf, "iri") /\ Names(more, more.blankOf, "blank")
        /\ Names(more, more.lookup, "other")
    <3>1. Names(more, With(st.namedOf, s, n), "iri")
      BY <1>3, <1>4, <1>6, <2>2, <2>3, NamesOneMore DEF n
    <3>2. Names(st, st.blankOf, "blank") /\ Names(st, st.lookup, "other")
      BY DEF StoreRight, Tabled
    <3> QED BY <2>2, <2>4, <3>1, <3>2, NamesStill
  <2>6. Tabled(more)
    BY <2>2, <2>5 DEF Tabled, LooksRight, StoreRight
  <2>7. Listed(more)
    BY <1>1, <2>2, <2>4 DEF Listed, StoreRight
  <2>8. /\ Grows(st.namedOf, more.namedOf) /\ LooksUp(more.namedOf, s, n)
        /\ Grows(st.tripleTerms, more.tripleTerms)
        /\ Grows(st.blankOf, more.blankOf) /\ Grows(st.lookup, more.lookup)
    <3>1. IsTable(st.namedOf)
      BY <1>3 DEF Names
    <3>2. /\ DOMAIN With(st.namedOf, s, n) = DOMAIN st.namedOf \cup {s}
          /\ With(st.namedOf, s, n)[s] = n
          /\ Grows(st.namedOf, With(st.namedOf, s, n))
      <4> HIDE DEF n
      <4> QED BY <1>6 DEF With, Grows
    <3> QED BY <2>2, <3>2 DEF LooksUp, Grows
  <2>9. TermRight(more, IriTerm(s), n)
    BY <1>1, <1>2, <2>2, <2>8 DEF TermRight, IriRight, IriFits
  <2>10. /\ StoreRight(more) /\ n \in Nat /\ n \in DOMAIN more.terms
         /\ more.terms[n] = IriTerm(s)
    BY <1>1, <2>2, <2>6, <2>7, <2>8, <2>9, OneMoreTerm
  <2> HIDE DEF n
  <2> QED BY <1>1, <1>2, <2>1, <2>2, <2>10 DEF Entered, found
<1> QED BY <1>5, <1>6

\* blank_node.
LEMMA BlankNodeEntered ==
    ASSUME NEW st, StoreRight(st), NEW scope, NEW label
    PROVE  Entered(st, BlankNode(st, scope, label))
<1> DEFINE key == <<scope, label>>
           numbers == IF key \in DOMAIN st.blankNumbers THEN st.blankNumbers
                      ELSE With(st.blankNumbers, key, Cardinality(DOMAIN st.blankNumbers))
           name == <<"b", scope, numbers[key]>>
           strings == Interned(st.strings, name)
           s == Position(strings, name)
           n == Len(st.terms) + 1
           terms == Append(st.terms, BlankTerm(s))
           blankOf == With(st.blankOf, s, n)
           more == [st EXCEPT !.strings = strings, !.blankNumbers = numbers,
                              !.terms = terms, !.blankOf = blankOf]
           found == BlankNode(st, scope, label)
<1>0. /\ s \in DOMAIN st.blankOf => found.store = st /\ found.id = st.blankOf[s]
      /\ s \notin DOMAIN st.blankOf => found.store = more /\ found.id = n
  BY DEF BlankNode
<1> HIDE DEF found, numbers, name
<1>1. /\ IsList(strings) /\ Distinct(strings) /\ Grows(st.strings, strings)
      /\ s \in DOMAIN strings
  BY InternedOnce DEF StoreRight, Listed, LooksUp
<1>2. BlankTerm(s).kind = "blank" /\ BlankTerm(s).s = s /\ BlankTerm(s) = BlankTerm(BlankTerm(s).s)
  BY DEF BlankTerm
<1>3. Names(st, st.blankOf, "blank")
  BY DEF StoreRight, Tabled
<1>4. MadeOf("blank", s) = BlankTerm(s)
  BY DEF MadeOf
<1> HIDE DEF s, strings
<1>5. CASE s \in DOMAIN st.blankOf
  <2>1. st.blankOf[s] \in DOMAIN st.terms /\ st.blankOf[s] \in Nat
    BY <1>3, <1>5, FoundIsHeld
  <2>2. Grows(st.strings, st.strings)
    BY DEF Grows
  <2> QED BY <1>0, <1>5, <2>1, <2>2 DEF Entered, found
<1>6. CASE s \notin DOMAIN st.blankOf
  <2> HIDE DEF terms, blankOf
  <2>2. /\ Whole(more) /\ more.strings = strings /\ more.tripleTerms = st.tripleTerms
        /\ more.terms = terms /\ more.lookup = st.lookup
        /\ more.namedOf = st.namedOf /\ more.blankOf = blankOf
    BY DEF StoreRight, Whole, Fields
  <2> HIDE DEF more
  <2> USE DEF terms, blankOf
  <2>3. IsList(st.terms)
    BY DEF StoreRight, Listed
  <2>4. IsList(more.terms) /\ Grows(st.terms, more.terms)
    BY <2>2, <2>3, AppendedList
  <2>5. /\ Names(more, more.namedOf, "iri") /\ Names(more, more.blankOf, "blank")
        /\ Names(more, more.lookup, "other")
    <3>1. Names(more, With(st.blankOf, s, n), "blank")
      BY <1>3, <1>4, <1>6, <2>2, <2>3, NamesOneMore DEF n
    <3>2. Names(st, st.namedOf, "iri") /\ Names(st, st.lookup, "other")
      BY DEF StoreRight, Tabled
    <3> QED BY <2>2, <2>4, <3>1, <3>2, NamesStill
  <2>6. Tabled(more)
    BY <2>2, <2>5 DEF Tabled, LooksRight, StoreRight
  <2>7. Listed(more)
    BY <1>1, <2>2, <2>4 DEF Listed, StoreRight
  <2>8. /\ Grows(st.blankOf, more.blankOf) /\ LooksUp(more.blankOf, s, n)
        /\ Grows(st.tripleTerms, more.tripleTerms)
        /\ Grows(st.namedOf, more.namedOf) /\ Grows(st.lookup, more.lookup)
    <3>1. /\ DOMAIN With(st.blankOf, s, n) = DOMAIN st.blankOf \cup {s}
          /\ With(st.blankOf, s, n)[s] = n
          /\ Grows(st.blankOf, With(st.blankOf, s, n))
      <4> HIDE DEF n
      <4> QED BY <1>6 DEF With, Grows
    <3> QED BY <2>2, <3>1 DEF LooksUp, Grows
  <2>9. TermRight(more, BlankTerm(s), n)
    BY <1>1, <1>2, <2>2, <2>8 DEF TermRight, BlankRight, BlankFits
  <2>10. StoreRight(more) /\ n \in Nat /\ n \in DOMAIN more.terms
    BY <1>1, <2>2, <2>6, <2>7, <2>8, <2>9, OneMoreTerm
  <2> HIDE DEF n
  <2> QED BY <1>0, <1>1, <1>6, <2>2, <2>10 DEF Entered, found
<1> QED BY <1>5, <1>6 DEF found

\* push, for a literal or a triple term whose parts are in the store.
LEMMA PushedEntered ==
    ASSUME NEW st, StoreRight(st), NEW data, TripleFits(st, data) \/ LiteralFits(st, data)
    PROVE  Entered(st, Pushed(st, data))
<1> DEFINE n == Len(st.terms) + 1
           terms == Append(st.terms, data)
           lookup == With(st.lookup, data, n)
           more == [st EXCEPT !.terms = terms, !.lookup = lookup]
           found == Pushed(st, data)
<1>0. /\ data \in DOMAIN st.lookup => found.store = st /\ found.id = st.lookup[data]
      /\ data \notin DOMAIN st.lookup => found.store = more /\ found.id = n
  BY DEF Pushed
<1> HIDE DEF found
<1>1. Grows(st.strings, st.strings) /\ Grows(st.tripleTerms, st.tripleTerms)
      /\ Grows(st.namedOf, st.namedOf) /\ Grows(st.blankOf, st.blankOf)
  BY DEF Grows
<1>3. Names(st, st.lookup, "other")
  BY DEF StoreRight, Tabled
<1>4. MadeOf("other", data) = data
  BY DEF MadeOf
<1>5. CASE data \in DOMAIN st.lookup
  <2>1. st.lookup[data] \in DOMAIN st.terms /\ st.lookup[data] \in Nat
    BY <1>3, <1>5, FoundIsHeld
  <2> QED BY <1>0, <1>1, <1>5, <2>1 DEF Entered, found
<1>6. CASE data \notin DOMAIN st.lookup
  <2> HIDE DEF terms, lookup
  <2>2. /\ Whole(more) /\ more.strings = st.strings /\ more.tripleTerms = st.tripleTerms
        /\ more.terms = terms /\ more.lookup = lookup
        /\ more.namedOf = st.namedOf /\ more.blankOf = st.blankOf
    BY DEF StoreRight, Whole, Fields
  <2> HIDE DEF more
  <2> USE DEF terms, lookup
  <2>3. IsList(st.terms)
    BY DEF StoreRight, Listed
  <2>4. IsList(more.terms) /\ Grows(st.terms, more.terms)
    BY <2>2, <2>3, AppendedList
  <2>5. /\ Names(more, more.namedOf, "iri") /\ Names(more, more.blankOf, "blank")
        /\ Names(more, more.lookup, "other")
    <3>1. Names(more, With(st.lookup, data, n), "other")
      BY <1>3, <1>4, <1>6, <2>2, <2>3, NamesOneMore DEF n
    <3>2. Names(st, st.namedOf, "iri") /\ Names(st, st.blankOf, "blank")
      BY DEF StoreRight, Tabled
    <3> QED BY <2>2, <2>4, <3>1, <3>2, NamesStill
  <2>8. /\ DOMAIN more.lookup = DOMAIN st.lookup \cup {data}
        /\ Grows(st.lookup, more.lookup) /\ LooksUp(more.lookup, data, n)
    <3>1. /\ DOMAIN With(st.lookup, data, n) = DOMAIN st.lookup \cup {data}
          /\ With(st.lookup, data, n)[data] = n
          /\ Grows(st.lookup, With(st.lookup, data, n))
      <4> HIDE DEF n
      <4> QED BY <1>6 DEF With, Grows
    <3> QED BY <2>2, <3>1 DEF LooksUp
  <2>6. Tabled(more)
    <3>1. data.kind \in {"literal", "triple"}
      BY DEF TripleFits, LiteralFits
    <3>2. LooksRight(more)
      BY <2>8, <3>1 DEF LooksRight, StoreRight, Tabled
    <3> QED BY <2>5, <3>2 DEF Tabled
  <2>7. Listed(more)
    BY <2>2, <2>4 DEF Listed, StoreRight
  <2>9. TermRight(more, data, n)
    <3>1. TripleFits(st, data) => TripleRight(more, data, n)
      BY <2>2, <2>8 DEF TripleRight, TripleFits
    <3>2. LiteralFits(st, data) => LiteralRight(more, data, n)
      BY <2>2, <2>4, <2>8 DEF LiteralRight, LiteralFits, Grows
    <3> QED BY <3>1, <3>2 DEF TermRight
  <2>10. StoreRight(more) /\ n \in Nat /\ n \in DOMAIN more.terms
    BY <1>1, <2>2, <2>6, <2>7, <2>8, <2>9, OneMoreTerm
  <2> HIDE DEF n
  <2> QED BY <1>0, <1>1, <1>6, <2>2, <2>10 DEF Entered, found
<1> QED BY <1>5, <1>6 DEF found

\* Interning alone leaves the store right.
LEMMA WithStrings ==
    ASSUME NEW st, StoreRight(st), NEW strings,
           IsList(strings), Distinct(strings), Grows(st.strings, strings)
    PROVE  /\ StoreRight([st EXCEPT !.strings = strings])
           /\ [st EXCEPT !.strings = strings].strings = strings
<1> DEFINE more == Besides(st, strings, st.tripleTerms, st.blankNumbers)
<1>1. [st EXCEPT !.strings = strings] = more
  BY DEF StoreRight, Whole, Fields, Besides
<1>2. more.strings = strings
  BY DEF StoreRight, Whole, Fields, Besides
<1>3. StoreRight(more)
  <2>1. /\ IsList(st.tripleTerms) /\ Distinct(st.tripleTerms)
        /\ Grows(st.tripleTerms, st.tripleTerms)
    BY DEF StoreRight, Listed, Grows
  <2> QED BY <2>1, MoreBesides
<1> QED BY <1>1, <1>2, <1>3

\* Entering a triple alone leaves it right too.
LEMMA WithTriples ==
    ASSUME NEW st, StoreRight(st), NEW triples,
           IsList(triples), Distinct(triples), Grows(st.tripleTerms, triples)
    PROVE  /\ StoreRight([st EXCEPT !.tripleTerms = triples])
           /\ [st EXCEPT !.tripleTerms = triples].tripleTerms = triples
           /\ [st EXCEPT !.tripleTerms = triples].strings = st.strings
<1> DEFINE more == Besides(st, st.strings, triples, st.blankNumbers)
<1>1. [st EXCEPT !.tripleTerms = triples] = more
  BY DEF StoreRight, Whole, Fields, Besides
<1>2. more.tripleTerms = triples /\ more.strings = st.strings
  BY DEF StoreRight, Whole, Fields, Besides
<1>3. StoreRight(more)
  <2>1. IsList(st.strings) /\ Distinct(st.strings) /\ Grows(st.strings, st.strings)
    BY DEF StoreRight, Listed, Grows
  <2> QED BY <2>1, MoreBesides
<1> QED BY <1>1, <1>2, <1>3

\* Where a sequence holds something, that has a position in it.
LEMMA HeldHasPosition ==
    ASSUME NEW s, NEW x, NEW i \in DOMAIN s, s[i] = x
    PROVE  Position(s, x) \in DOMAIN s /\ s[Position(s, x)] = x
<1> DEFINE P(j) == j \in DOMAIN s /\ s[j] = x
<1>1. P(i)
  OBVIOUS
<1>2. Position(s, x) = CHOOSE j \in DOMAIN s : P(j)
  BY DEF Position
<1> QED BY <1>1, <1>2

\* literal_with_direction: what the literal is made of goes in before it.
LEMMA LiteralEntered ==
    ASSUME NEW st, StoreRight(st), NEW lex, NEW datatype, NEW lang, NEW dir
    PROVE  Entered(st, Literal(st, lex, datatype, lang, dir))
<1> DEFINE text == Interned(st.strings, lex)
           strings == IF lang = <<>> THEN text ELSE Interned(text, lang[1])
           typed == NamedNode([st EXCEPT !.strings = strings], datatype)
           at0(s) == Position(typed.store.strings, s)
           tag == Tagged(lang, at0)
           data == LiteralTerm(at0(lex), typed.id, tag, dir)
<1>1. Literal(st, lex, datatype, lang, dir) = Pushed(typed.store, data)
  BY DEF Literal
<1>2. tag = IF lang = <<>> THEN <<>> ELSE <<at0(lang[1])>>
  BY DEF Tagged
<1> HIDE DEF tag
<1>3. /\ IsList(text) /\ Distinct(text) /\ Grows(st.strings, text)
      /\ \E i \in DOMAIN text : text[i] = lex
  BY InternedOnce DEF StoreRight, Listed, LooksUp
<1>4. /\ IsList(strings) /\ Distinct(strings) /\ Grows(text, strings)
      /\ lang # <<>> => \E i \in DOMAIN strings : strings[i] = lang[1]
  <2> HIDE DEF text
  <2>1. CASE lang = <<>>
    BY <1>3, <2>1 DEF Grows
  <2>2. CASE lang # <<>>
    <3>1. strings = Interned(text, lang[1])
      BY <2>2
    <3> HIDE DEF strings
    <3> QED BY <1>3, <3>1, InternedOnce DEF LooksUp
  <2> QED BY <2>1, <2>2
<1> HIDE DEF text, strings
<1>5. Grows(st.strings, strings)
  BY <1>3, <1>4, GrowsOn
<1>6. /\ StoreRight([st EXCEPT !.strings = strings])
      /\ [st EXCEPT !.strings = strings].strings = strings
  BY <1>4, <1>5, WithStrings
<1>7. /\ Entered([st EXCEPT !.strings = strings], typed)
      /\ IsIri(typed.store.terms[typed.id])
  BY <1>6, NamedNodeEntered
<1> HIDE DEF typed
<1>8. /\ StoreRight(typed.store) /\ Grows(strings, typed.store.strings)
      /\ typed.id \in DOMAIN typed.store.terms
  BY <1>6, <1>7 DEF Entered
<1>9. Grows(text, typed.store.strings) /\ Grows(st.strings, typed.store.strings)
  BY <1>3, <1>4, <1>8, GrowsOn
<1>10. at0(lex) \in DOMAIN typed.store.strings
  <2>1. PICK i \in DOMAIN text : text[i] = lex
    BY <1>3
  <2>2. i \in DOMAIN typed.store.strings /\ typed.store.strings[i] = lex
    BY <1>9, <2>1 DEF Grows
  <2> QED BY <2>2, HeldHasPosition
<1>11. IsTag(tag, typed.store.strings)
  <2>1. CASE lang = <<>>
    BY <1>2, <2>1 DEF IsTag
  <2>2. CASE lang # <<>>
    <3>1. PICK i \in DOMAIN strings : strings[i] = lang[1]
      BY <1>4, <2>2
    <3>2. i \in DOMAIN typed.store.strings /\ typed.store.strings[i] = lang[1]
      BY <1>8, <3>1 DEF Grows
    <3>3. at0(lang[1]) \in DOMAIN typed.store.strings
      BY <3>2, HeldHasPosition
    <3> QED BY <1>2, <2>2, <3>3 DEF IsTag
  <2> QED BY <2>1, <2>2
<1>12. LiteralFits(typed.store, data)
  <2> HIDE DEF at0
  <2>1. /\ data.kind = "literal" /\ data.s = at0(lex) /\ data.datatype = typed.id
        /\ data.lang = tag /\ data.dir = dir
    BY DEF LiteralTerm
  <2> QED BY <1>7, <1>8, <1>10, <1>11, <2>1 DEF LiteralFits
<1> HIDE DEF data
<1>13. Entered(typed.store, Pushed(typed.store, data))
  BY <1>8, <1>12, PushedEntered
<1> QED BY <1>1, <1>9, <1>13, GrowsOn DEF Entered

\* triple_term.
LEMMA TripleTermEntered ==
    ASSUME NEW st, StoreRight(st), NEW triple
    PROVE  Entered(st, TripleTerm(st, triple))
<1> DEFINE triples == Interned(st.tripleTerms, triple)
           more == [st EXCEPT !.tripleTerms = triples]
           data == TripleTermAt(Position(triples, triple))
<1>1. TripleTerm(st, triple) = Pushed(more, data)
  BY DEF TripleTerm
<1>2. /\ IsList(triples) /\ Distinct(triples) /\ Grows(st.tripleTerms, triples)
      /\ Position(triples, triple) \in DOMAIN triples
  BY InternedOnce DEF StoreRight, Listed, LooksUp
<1> HIDE DEF triples
<1>3. StoreRight(more) /\ more.tripleTerms = triples /\ more.strings = st.strings
  BY <1>2, WithTriples
<1>4. TripleFits(more, data)
  <2>1. data.kind = "triple" /\ data.i = Position(triples, triple)
    BY DEF TripleTermAt
  <2> QED BY <1>2, <1>3, <2>1 DEF TripleFits
<1> HIDE DEF more, data
<1> QED BY <1>1, <1>3, <1>4, PushedEntered DEF Entered

\* intern_oxrdf, of a term that is no triple term.
LEMMA SimpleEntered ==
    ASSUME NEW st, StoreRight(st), NEW term, NEW scope
    PROVE  Entered(st, InternSimple(st, term, scope))
<1>1. CASE term.t = "iri"
  <2>1. InternSimple(st, term, scope) = NamedNode(st, term.s)
    BY <1>1 DEF InternSimple
  <2> QED BY <2>1, NamedNodeEntered
<1>2. CASE term.t = "blank"
  <2>1. InternSimple(st, term, scope) = BlankNode(st, scope, term.label)
    BY <1>2 DEF InternSimple
  <2> QED BY <2>1, BlankNodeEntered
<1>3. CASE term.t # "iri" /\ term.t # "blank"
  <2>1. InternSimple(st, term, scope)
           = Literal(st, term.lex, term.datatype, term.lang, term.dir)
    BY <1>3 DEF InternSimple
  <2> QED BY <2>1, LiteralEntered
<1> QED BY <1>1, <1>2, <1>3

\* Three terms in a row leave the store right and make a row of ids.
RowEntered(made) == StoreRight(made.store) /\ made.row \in Row

\* The parts of a triple term.
LEMMA SimpleThreeEntered ==
    ASSUME NEW st, StoreRight(st), NEW terms, NEW scope
    PROVE  RowEntered(InternThree(InternSimple, st, terms, scope))
<1> DEFINE s == InternSimple(st, terms[1], scope)
           p == InternSimple(s.store, terms[2], scope)
           o == InternSimple(p.store, terms[3], scope)
<1>1. InternThree(InternSimple, st, terms, scope)
         = [store |-> o.store, row |-> <<s.id, p.id, o.id>>]
  BY DEF InternThree
<1>2. StoreRight(s.store) /\ s.id \in Nat
  BY SimpleEntered DEF Entered
<1> HIDE DEF s
<1>3. StoreRight(p.store) /\ p.id \in Nat
  BY <1>2, SimpleEntered DEF Entered
<1> HIDE DEF p
<1>4. StoreRight(o.store) /\ o.id \in Nat
  BY <1>3, SimpleEntered DEF Entered
<1> HIDE DEF o
<1> QED BY <1>1, <1>2, <1>3, <1>4 DEF RowEntered, Row

\* intern_oxrdf.
LEMMA TermEntered ==
    ASSUME NEW st, StoreRight(st), NEW term, NEW scope
    PROVE  /\ StoreRight(InternTerm(st, term, scope).store)
           /\ InternTerm(st, term, scope).id \in Nat
<1>1. CASE term.t # "triple"
  <2>1. InternTerm(st, term, scope) = InternSimple(st, term, scope)
    BY <1>1 DEF InternTerm
  <2> QED BY <2>1, SimpleEntered DEF Entered
<1>2. CASE term.t = "triple"
  <2> DEFINE parts == InternThree(InternSimple, st, term.parts, scope)
  <2>1. InternTerm(st, term, scope) = TripleTerm(parts.store, parts.row)
    BY <1>2 DEF InternTerm
  <2>2. StoreRight(parts.store)
    BY SimpleThreeEntered DEF RowEntered
  <2> HIDE DEF parts
  <2> QED BY <2>1, <2>2, TripleTermEntered DEF Entered
<1> QED BY <1>1, <1>2

\* The terms of a triple.
LEMMA ThreeEntered ==
    ASSUME NEW st, StoreRight(st), NEW terms, NEW scope
    PROVE  RowEntered(InternThree(InternTerm, st, terms, scope))
<1> DEFINE s == InternTerm(st, terms[1], scope)
           p == InternTerm(s.store, terms[2], scope)
           o == InternTerm(p.store, terms[3], scope)
<1>1. InternThree(InternTerm, st, terms, scope)
         = [store |-> o.store, row |-> <<s.id, p.id, o.id>>]
  BY DEF InternThree
<1>2. StoreRight(s.store) /\ s.id \in Nat
  BY TermEntered
<1> HIDE DEF s
<1>3. StoreRight(p.store) /\ p.id \in Nat
  BY <1>2, TermEntered
<1> HIDE DEF p
<1>4. StoreRight(o.store) /\ o.id \in Nat
  BY <1>3, TermEntered
<1> HIDE DEF o
<1> QED BY <1>1, <1>2, <1>3, <1>4 DEF RowEntered, Row

\* A store before anything is in it.
LEMMA EmptyRight == StoreRight(EmptyStore)
<1> DEFINE st == EmptyStore
<1>1. /\ st.strings = <<>> /\ st.terms = <<>> /\ st.lookup = <<>> /\ st.namedOf = <<>>
      /\ st.blankOf = <<>> /\ st.tripleTerms = <<>>
  BY DEF EmptyStore
<1>2. Whole(st)
  BY DEF EmptyStore, Whole, Fields
<1> HIDE DEF st
<1>3. DOMAIN <<>> = {}
  OBVIOUS
<1>4. IsList(<<>>) /\ Distinct(<<>>)
  BY <1>3 DEF IsList, Distinct
<1>5. \A kind : Names(st, <<>>, kind)
  <2>1. <<>> = [x \in DOMAIN <<>> |-> <<>>[x]]
    OBVIOUS
  <2> QED BY <1>3, <2>1 DEF Names, IsTable
<1>6. Listed(st) /\ Tabled(st)
  BY <1>1, <1>3, <1>4, <1>5 DEF Listed, Tabled, LooksRight
<1>7. StoreRight(st)
  BY <1>1, <1>2, <1>3, <1>6 DEF StoreRight
<1> QED BY <1>7 DEF st

-----------------------------------------------------------------------------
(* The store with the vocabulary in it. *)

\* The stores on the way to it, up to the n-th IRI.
Steps(f, n) ==
    f = [k \in 0 .. n |-> IF k = 0 THEN EmptyStore ELSE NamedNode(f[k - 1], Vocabulary[k]).store]

\* They exist, by the least n for which they would not.
LEMMA StepsExist ==
    ASSUME NEW n \in Nat
    PROVE  \E f : Steps(f, n)
<1> DEFINE Some(m) == \E f : Steps(f, m)
           Bad == {m \in 0 .. n : ~Some(m)}
<1> HIDE DEF Some
<1>1. SUFFICES ASSUME NEW m \in Bad, \A k \in Bad : m <= k
               PROVE  FALSE
  <2>1. Bad \in SUBSET Nat
    OBVIOUS
  <2>2. n \in 0 .. n
    OBVIOUS
  <2>3. SUFFICES Bad = {}
    BY <2>2 DEF Some
  <2> HIDE DEF Bad
  <2> QED BY <1>1, <2>1, LeastNumber
<1>2. m \in 0 .. n /\ ~Some(m)
  OBVIOUS
<1>3. CASE m = 0
  <2>1. Steps([k \in 0 .. 0 |-> EmptyStore], 0)
    BY DEF Steps
  <2> QED BY <1>2, <1>3, <2>1 DEF Some
<1>4. CASE m > 0
  <2>1. m - 1 \in 0 .. n /\ ~(m <= m - 1)
    BY <1>2, <1>4
  <2>2. Some(m - 1)
    BY <1>1, <2>1
  <2>3. PICK f : Steps(f, m - 1)
    BY <2>2 DEF Some
  <2> DEFINE h == [k \in 0 .. m |->
                     IF k = m THEN NamedNode(f[m - 1], Vocabulary[m]).store ELSE f[k]]
  <2>4. ASSUME NEW k \in 0 .. m
        PROVE  h[k] = IF k = 0 THEN EmptyStore ELSE NamedNode(h[k - 1], Vocabulary[k]).store
    <3>1. CASE k = m
      <4>1. m - 1 \in 0 .. m /\ m - 1 # m
        BY <1>2, <1>4
      <4>2. h[m - 1] = f[m - 1]
        BY <4>1
      <4> QED BY <1>4, <3>1, <4>2
    <3>2. CASE k # m
      <4>1. k \in 0 .. (m - 1) /\ (k # 0 => k - 1 \in 0 .. (m - 1))
        BY <1>2, <3>2
      <4>2. h[k] = f[k] /\ (k # 0 => h[k - 1] = f[k - 1])
        BY <1>2, <3>2, <4>1
      <4>3. f[k] = IF k = 0 THEN EmptyStore ELSE NamedNode(f[k - 1], Vocabulary[k]).store
        BY <2>3, <4>1 DEF Steps
      <4> QED BY <4>2, <4>3
    <3> QED BY <3>1, <3>2
  <2>5. Steps(h, m)
    <3>1. h = [k \in 0 .. m |-> h[k]]
      OBVIOUS
    <3> HIDE DEF h
    <3> QED BY <2>4, <3>1 DEF Steps
  <2> QED BY <1>2, <2>5 DEF Some
<1> QED BY <1>2, <1>3, <1>4

\* TermStore::new.
LEMMA FreshRight == StoreRight(Fresh)
<1> DEFINE n == Len(Vocabulary)
           f == CHOOSE g : Steps(g, n)
<1>1. n \in Nat
  BY VocabularyAssumption, LenProperties
<1>2. Fresh = f[n]
  BY DEF Fresh, Steps
<1>3. Steps(f, n)
  BY <1>1, StepsExist
<1> DEFINE Bad == {k \in 0 .. n : ~StoreRight(f[k])}
<1> HIDE DEF f, n
<1>4. SUFFICES Bad = {}
  BY <1>1, <1>2
<1>5. SUFFICES ASSUME NEW m \in Bad, \A k \in Bad : m <= k
               PROVE  FALSE
  <2>1. Bad \in SUBSET Nat
    BY <1>1
  <2> HIDE DEF Bad
  <2> QED BY <1>5, <2>1, LeastNumber
<1>6. m \in 0 .. n /\ ~StoreRight(f[m])
  OBVIOUS
<1>7. CASE m = 0
  <2>1. f[m] = EmptyStore
    BY <1>3, <1>6, <1>7 DEF Steps
  <2> QED BY <1>6, <2>1, EmptyRight
<1>8. CASE m > 0
  <2>1. m - 1 \in 0 .. n /\ ~(m <= m - 1)
    BY <1>1, <1>6, <1>8
  <2>2. StoreRight(f[m - 1])
    BY <1>5, <2>1
  <2>3. f[m] = NamedNode(f[m - 1], Vocabulary[m]).store
    BY <1>1, <1>3, <1>6, <1>8 DEF Steps
  <2> QED BY <1>6, <2>2, <2>3, NamedNodeEntered DEF Entered
<1> QED BY <1>1, <1>6, <1>7, <1>8

-----------------------------------------------------------------------------
(* Through the file and back. *)

\* An entry of a table of the store.
LEMMA EntriesAre ==
    ASSUME NEW st, StoreRight(st)
    PROVE  /\ \A s \in DOMAIN st.namedOf : /\ st.namedOf[s] \in DOMAIN st.terms
                                           /\ st.terms[st.namedOf[s]] = IriTerm(s)
           /\ \A s \in DOMAIN st.blankOf : /\ st.blankOf[s] \in DOMAIN st.terms
                                           /\ st.terms[st.blankOf[s]] = BlankTerm(s)
           /\ \A d \in DOMAIN st.lookup : /\ st.lookup[d] \in DOMAIN st.terms
                                          /\ st.terms[st.lookup[d]] = d
                                          /\ d.kind \in {"literal", "triple"}
BY DEF StoreRight, Tabled, Names, MadeOf, LooksRight

\* A term of each kind is in the table of its kind and in no other.
LEMMA KindsAre ==
    ASSUME NEW st, StoreRight(st), NEW i \in DOMAIN st.terms
    PROVE  LET t == st.terms[i]
           IN  /\ t.kind = "iri" => IriRight(st, t, i)
               /\ t.kind = "blank" => BlankRight(st, t, i)
               /\ t.kind = "triple" => TripleRight(st, t, i)
               /\ t.kind = "literal" => LiteralRight(st, t, i)
               /\ t.kind \in {"iri", "blank", "triple", "literal"}
<1> DEFINE t == st.terms[i]
<1>1. TermRight(st, t, i)
  BY DEF StoreRight
<1> HIDE DEF t
<1>2. /\ IriRight(st, t, i) => t.kind = "iri"
      /\ BlankRight(st, t, i) => t.kind = "blank"
      /\ TripleRight(st, t, i) => t.kind = "triple"
      /\ LiteralRight(st, t, i) => t.kind = "literal"
  BY DEF IriRight, IriFits, IsIri, BlankRight, BlankFits, TripleRight, TripleFits,
         LiteralRight, LiteralFits
<1>3. /\ t.kind = "iri" => IriRight(st, t, i)
      /\ t.kind = "blank" => BlankRight(st, t, i)
      /\ t.kind = "triple" => TripleRight(st, t, i)
      /\ t.kind = "literal" => LiteralRight(st, t, i)
      /\ t.kind \in {"iri", "blank", "triple", "literal"}
  BY <1>1, <1>2 DEF TermRight
<1> QED BY <1>3 DEF t

\* from_parts: the tables are those the terms were entered with.
LEMMA TablesAgain ==
    ASSUME NEW st, StoreRight(st)
    PROVE  FromParts(Parts(st)) = st
<1> DEFINE parts == Parts(st)
           terms == st.terms
           ids(kind) == IdsOf(parts, kind)
           byString(kind) == [s \in {terms[i].s : i \in ids(kind)} |->
                                CHOOSE i \in ids(kind) : terms[i].s = s]
           others == ids("literal") \cup ids("triple")
           lookup == [d \in {terms[i] : i \in others} |-> Position(terms, d)]
<1>1. /\ parts.strings = st.strings /\ parts.terms = terms
      /\ parts.tripleTerms = st.tripleTerms /\ parts.blankNumbers = st.blankNumbers
  BY DEF Parts
<1>2. FromParts(parts) =
         [strings |-> st.strings, terms |-> terms, lookup |-> lookup,
          namedOf |-> byString("iri"), blankOf |-> byString("blank"),
          tripleTerms |-> st.tripleTerms, blankNumbers |-> st.blankNumbers]
  BY <1>1 DEF FromParts
<1>3. \A kind : \A i : i \in ids(kind) <=> i \in DOMAIN terms /\ terms[i].kind = kind
  BY <1>1 DEF IdsOf
<1> HIDE DEF parts, ids, terms
<1>4. IsTable(st.namedOf) /\ IsTable(st.blankOf) /\ IsTable(st.lookup)
  BY DEF StoreRight, Tabled, Names
<1>5. byString("iri") = st.namedOf
  <2>1. \A i \in ids("iri") : LooksUp(st.namedOf, terms[i].s, i)
    BY <1>3, KindsAre DEF IriRight, terms
  <2>2. \A s \in DOMAIN st.namedOf : st.namedOf[s] \in ids("iri") /\ terms[st.namedOf[s]].s = s
    <3> TAKE s \in DOMAIN st.namedOf
    <3>1. st.namedOf[s] \in DOMAIN terms /\ terms[st.namedOf[s]] = IriTerm(s)
      BY EntriesAre DEF terms
    <3>2. IriTerm(s).kind = "iri" /\ IriTerm(s).s = s
      BY DEF IriTerm
    <3> QED BY <1>3, <3>1, <3>2
  <2>3. {terms[i].s : i \in ids("iri")} = DOMAIN st.namedOf
    BY <2>1, <2>2 DEF LooksUp
  <2>4. ASSUME NEW s \in DOMAIN st.namedOf
        PROVE  (CHOOSE i \in ids("iri") : terms[i].s = s) = st.namedOf[s]
    BY <2>1, <2>2 DEF LooksUp
  <2> QED BY <1>4, <2>3, <2>4 DEF IsTable
<1>6. byString("blank") = st.blankOf
  <2>1. \A i \in ids("blank") : LooksUp(st.blankOf, terms[i].s, i)
    BY <1>3, KindsAre DEF BlankRight, terms
  <2>2. \A s \in DOMAIN st.blankOf : st.blankOf[s] \in ids("blank") /\ terms[st.blankOf[s]].s = s
    <3> TAKE s \in DOMAIN st.blankOf
    <3>1. st.blankOf[s] \in DOMAIN terms /\ terms[st.blankOf[s]] = BlankTerm(s)
      BY EntriesAre DEF terms
    <3>2. BlankTerm(s).kind = "blank" /\ BlankTerm(s).s = s
      BY DEF BlankTerm
    <3> QED BY <1>3, <3>1, <3>2
  <2>3. {terms[i].s : i \in ids("blank")} = DOMAIN st.blankOf
    BY <2>1, <2>2 DEF LooksUp
  <2>4. ASSUME NEW s \in DOMAIN st.blankOf
        PROVE  (CHOOSE i \in ids("blank") : terms[i].s = s) = st.blankOf[s]
    BY <2>1, <2>2 DEF LooksUp
  <2> QED BY <1>4, <2>3, <2>4 DEF IsTable
<1>7. lookup = st.lookup
  <2>1. \A i \in others : LooksUp(st.lookup, terms[i], i)
    BY <1>3, KindsAre DEF LiteralRight, TripleRight, terms
  <2>2. \A d \in DOMAIN st.lookup : st.lookup[d] \in others /\ terms[st.lookup[d]] = d
    BY <1>3, EntriesAre DEF terms
  <2>3. {terms[i] : i \in others} = DOMAIN st.lookup
    BY <2>1, <2>2 DEF LooksUp
  <2>4. ASSUME NEW d \in DOMAIN st.lookup PROVE Position(terms, d) = st.lookup[d]
    <3>1. st.lookup[d] \in DOMAIN terms /\ terms[st.lookup[d]] = d
      BY EntriesAre DEF terms
    <3>2. Position(terms, d) \in DOMAIN terms /\ terms[Position(terms, d)] = d
      BY <3>1, HeldHasPosition
    <3>3. Position(terms, d) \in others
      BY <1>3, <3>2, EntriesAre
    <3> QED BY <2>1, <3>2, <3>3 DEF LooksUp
  <2> HIDE DEF others
  <2> QED BY <1>4, <2>3, <2>4 DEF IsTable
<1> HIDE DEF byString, lookup
<1>8. FromParts(parts) =
         [strings |-> st.strings, terms |-> st.terms, lookup |-> st.lookup,
          namedOf |-> st.namedOf, blankOf |-> st.blankOf,
          tripleTerms |-> st.tripleTerms, blankNumbers |-> st.blankNumbers]
  BY <1>2, <1>5, <1>6, <1>7 DEF terms
<1>9. st = [strings |-> st.strings, terms |-> st.terms, lookup |-> st.lookup,
          namedOf |-> st.namedOf, blankOf |-> st.blankOf,
          tripleTerms |-> st.tripleTerms, blankNumbers |-> st.blankNumbers]
  BY DEF StoreRight, Whole, Fields
<1> QED BY <1>8, <1>9 DEF parts

\* An IRI, by its string.
LEMMA IriFound ==
    ASSUME NEW st, StoreRight(st), NEW i \in DOMAIN st.terms, st.terms[i].kind = "iri"
    PROVE  GetNamedNode(st, st.strings[st.terms[i].s]) = {i}
<1> DEFINE s == st.terms[i].s
<1>1. s \in DOMAIN st.strings /\ s \in DOMAIN st.namedOf /\ st.namedOf[s] = i
  BY KindsAre DEF IriRight, IriFits, LooksUp
<1>2. DOMAIN st.namedOf \subseteq DOMAIN st.strings
  <2> SUFFICES ASSUME NEW k \in DOMAIN st.namedOf PROVE k \in DOMAIN st.strings
    OBVIOUS
  <2>1. st.namedOf[k] \in DOMAIN st.terms /\ st.terms[st.namedOf[k]] = IriTerm(k)
    BY EntriesAre
  <2>2. IriTerm(k).kind = "iri" /\ IriTerm(k).s = k
    BY DEF IriTerm
  <2> QED BY <2>1, <2>2, KindsAre DEF IriRight, IriFits
<1>3. Distinct(st.strings)
  BY DEF StoreRight, Listed
<1> HIDE DEF s
<1>4. {k \in DOMAIN st.namedOf : st.strings[k] = st.strings[s]} = {s}
  BY <1>1, <1>2, <1>3 DEF Distinct
<1> QED BY <1>1, <1>4 DEF GetNamedNode, s

\* A blank node, by the label it is given in the output.
LEMMA BlankFound ==
    ASSUME NEW st, StoreRight(st), NEW i \in DOMAIN st.terms, st.terms[i].kind = "blank"
    PROVE  GetBlankNode(st, st.strings[st.terms[i].s]) = {i}
<1> DEFINE s == st.terms[i].s
<1>1. s \in DOMAIN st.strings /\ s \in DOMAIN st.blankOf /\ st.blankOf[s] = i
  BY KindsAre DEF BlankRight, BlankFits, LooksUp
<1>2. DOMAIN st.blankOf \subseteq DOMAIN st.strings
  <2> SUFFICES ASSUME NEW k \in DOMAIN st.blankOf PROVE k \in DOMAIN st.strings
    OBVIOUS
  <2>1. st.blankOf[k] \in DOMAIN st.terms /\ st.terms[st.blankOf[k]] = BlankTerm(k)
    BY EntriesAre
  <2>2. BlankTerm(k).kind = "blank" /\ BlankTerm(k).s = k
    BY DEF BlankTerm
  <2> QED BY <2>1, <2>2, KindsAre DEF BlankRight, BlankFits
<1>3. Distinct(st.strings)
  BY DEF StoreRight, Listed
<1> HIDE DEF s
<1>4. {k \in DOMAIN st.blankOf : st.strings[k] = st.strings[s]} = {s}
  BY <1>1, <1>2, <1>3 DEF Distinct
<1> QED BY <1>1, <1>4 DEF GetBlankNode, s

\* A triple term, by its triple.
LEMMA TripleFound ==
    ASSUME NEW st, StoreRight(st), NEW i \in DOMAIN st.terms, st.terms[i].kind = "triple"
    PROVE  GetTripleTerm(st, st.tripleTerms[st.terms[i].i]) = {i}
<1> DEFINE t == st.terms[i]
<1>1. /\ t.i \in DOMAIN st.tripleTerms /\ t = TripleTermAt(t.i)
      /\ t \in DOMAIN st.lookup /\ st.lookup[t] = i
  BY KindsAre DEF TripleRight, TripleFits, LooksUp
<1>2. Distinct(st.tripleTerms)
  BY DEF StoreRight, Listed
<1> HIDE DEF t
<1>3. {j \in DOMAIN st.tripleTerms : st.tripleTerms[j] = st.tripleTerms[t.i]} = {t.i}
  BY <1>1, <1>2 DEF Distinct
<1>4. {TripleTermAt(j) : j \in {t.i}} \cap DOMAIN st.lookup = {t}
  BY <1>1
<1> QED BY <1>1, <1>3, <1>4 DEF GetTripleTerm, t

\* A literal, by its text, its datatype's IRI, its language and its direction.
LEMMA LiteralFound ==
    ASSUME NEW st, StoreRight(st), NEW i \in DOMAIN st.terms, st.terms[i].kind = "literal"
    PROVE  LET t == st.terms[i]
               text(s) == st.strings[s]
           IN  GetLiteral(st, text(t.s), text(st.terms[t.datatype].s), Tagged(t.lang, text), t.dir)
                  = {i}
<1> DEFINE t == st.terms[i]
           lex == st.strings[t.s]
           datatype == st.strings[st.terms[t.datatype].s]
           lang == IF t.lang = <<>> THEN <<>> ELSE <<st.strings[t.lang[1]]>>
           at0(s) == Position(st.strings, s)
           tag == IF lang = <<>> THEN <<>> ELSE <<at0(lang[1])>>
           known == \A s \in {lex} \cup ToSet(lang) : s \in ToSet(st.strings)
           data == {LiteralTerm(at0(lex), d, tag, t.dir) :
                       d \in IF known THEN GetNamedNode(st, datatype) ELSE {}}
<1>1. /\ t = LiteralTerm(t.s, t.datatype, t.lang, t.dir)
      /\ t.s \in DOMAIN st.strings /\ IsTag(t.lang, st.strings)
      /\ t.datatype \in DOMAIN st.terms /\ IsIri(st.terms[t.datatype])
      /\ t \in DOMAIN st.lookup /\ st.lookup[t] = i
  BY KindsAre DEF LiteralRight, LiteralFits, LooksUp
<1> HIDE DEF t
<1>2. IsList(st.strings) /\ Distinct(st.strings)
  BY DEF StoreRight, Listed
<1>3. GetNamedNode(st, datatype) = {t.datatype}
  BY <1>1, IriFound DEF IsIri
<1>4. at0(lex) = t.s /\ lex \in ToSet(st.strings)
  BY <1>1, <1>2, PositionOnce DEF ToSet
<1>5. tag = t.lang /\ \A s \in ToSet(lang) : s \in ToSet(st.strings)
  <2>1. CASE t.lang = <<>>
    <3>1. ToSet(<<>>) = {}
      BY DEF ToSet
    <3> QED BY <2>1, <3>1
  <2>2. CASE t.lang # <<>>
    <3>1. PICK l \in DOMAIN st.strings : t.lang = <<l>>
      BY <1>1, <2>2 DEF IsTag
    <3>2. lang = <<st.strings[l]>> /\ lang # <<>> /\ lang[1] = st.strings[l]
      BY <2>2, <3>1
    <3>3. at0(lang[1]) = l /\ st.strings[l] \in ToSet(st.strings)
      BY <1>2, <3>1, <3>2, PositionOnce DEF ToSet
    <3>4. ToSet(lang) = {st.strings[l]}
      BY <3>2 DEF ToSet
    <3> QED BY <3>1, <3>2, <3>3, <3>4
  <2> QED BY <2>1, <2>2
<1>6. known
  BY <1>4, <1>5
<1>7. GetLiteral(st, lex, datatype, lang, t.dir) = {st.lookup[l] : l \in data \cap DOMAIN st.lookup}
  BY DEF GetLiteral, Tagged
<1>8. data = {t}
  <2> HIDE DEF known, tag, at0, lex, datatype
  <2> QED BY <1>1, <1>3, <1>4, <1>5, <1>6
<1>9. GetLiteral(st, lex, datatype, lang, t.dir) = {i}
  <2> HIDE DEF data, lex, datatype, lang
  <2> QED BY <1>1, <1>7, <1>8
<1> QED BY <1>9 DEF t, Tagged

\* Each term of a store is found at its own id.
LEMMA AllFound ==
    ASSUME NEW st, StoreRight(st), NEW i \in DOMAIN st.terms
    PROVE  LookedUp(st, i) = {i}
<1>1. CASE st.terms[i].kind = "iri"
  BY <1>1, IriFound DEF LookedUp
<1>2. CASE st.terms[i].kind = "blank"
  BY <1>2, BlankFound DEF LookedUp
<1>3. CASE st.terms[i].kind = "triple"
  BY <1>3, TripleFound DEF LookedUp
<1>4. CASE st.terms[i].kind = "literal"
  BY <1>4, LiteralFound DEF LookedUp
<1> QED BY <1>1, <1>2, <1>3, <1>4, KindsAre

-----------------------------------------------------------------------------
(* Where a document is cut. *)

\* Every unit ends behind the one before it.
LEMMA EndsRise ==
    ASSUME NEW doc, DocOK(doc)
    PROVE  /\ Len(doc.units) \in Nat /\ DOMAIN doc.units = 1 .. Len(doc.units)
           /\ Ends(doc)[0] = 0
           /\ \A i \in 0 .. Len(doc.units) : Ends(doc)[i] \in Nat
           /\ \A i, j \in 0 .. Len(doc.units) : i < j => Ends(doc)[i] < Ends(doc)[j]
<1> DEFINE units == doc.units
           n == Len(units)
           Is(f) == f = [i \in 0 .. n |-> IF i = 0 THEN 0 ELSE f[i - 1] + units[i].len]
           end == CHOOSE f : Is(f)
           F == [k \in 1 .. n |-> [v \in Nat |-> v + units[k].len]]
<1>1. /\ n \in Nat /\ DOMAIN units = 1 .. n
      /\ \A i \in 1 .. n : units[i].len \in Nat \ {0}
  <2>1. units \in Seq(ToSet(units)) /\ \A u \in ToSet(units) : u.len \in Nat \ {0}
    BY DEF DocOK, UnitOK, IsSeq
  <2> HIDE DEF units
  <2> QED BY <2>1, LenProperties, ElementOfSeq
<1>2. Ends(doc) = end
  BY DEF Ends
<1> HIDE DEF units, n
<1>3. \A k \in 1 .. n : F[k] \in [Nat -> Nat] /\ \A v \in Nat : F[k][v] = v + units[k].len
  BY <1>1
<1> HIDE DEF F
<1>4. PICK f \in [0 .. n -> Nat] : InTurn(f, n, F, 0)
  BY <1>1, <1>3, InTurnExists
<1>5. Is(f)
  <2>1. ASSUME NEW i \in 0 .. n
        PROVE  f[i] = IF i = 0 THEN 0 ELSE f[i - 1] + units[i].len
    <3>1. i # 0 => i \in 1 .. n /\ i - 1 \in 0 .. n
      BY <1>1
    <3>2. f[i] = IF i = 0 THEN 0 ELSE F[i][f[i - 1]]
      BY <1>4 DEF InTurn
    <3> QED BY <1>3, <1>4, <3>1, <3>2
  <2>2. f = [i \in 0 .. n |-> f[i]]
    BY <1>4
  <2> QED BY <2>1, <2>2
<1>6. Is(end)
  <2> HIDE DEF Is
  <2> QED BY <1>5
<1>7. \A i \in 0 .. n : end[i] = IF i = 0 THEN 0 ELSE end[i - 1] + units[i].len
  <2> HIDE DEF end
  <2> QED BY <1>6
<1> HIDE DEF end
<1>8. \A i \in 0 .. n : end[i] \in Nat
  <2> DEFINE Bad == {j \in 0 .. n : end[j] \notin Nat}
  <2>1. ASSUME NEW m \in Bad, \A j \in Bad : m <= j PROVE FALSE
    <3>1. CASE m = 0
      BY <1>7, <3>1
    <3>2. CASE m # 0
      <4>1. m - 1 \in 0 .. n /\ ~(m <= m - 1) /\ m \in 1 .. n
        BY <1>1, <3>2
      <4>2. end[m - 1] \in Nat
        BY <2>1, <4>1
      <4>3. end[m] = end[m - 1] + units[m].len
        BY <1>7, <3>2
      <4> QED BY <1>1, <4>1, <4>2, <4>3
    <3> QED BY <3>1, <3>2
  <2>2. Bad \in SUBSET Nat
    BY <1>1
  <2>3. Bad = {}
    <3> SUFFICES ASSUME Bad # {} PROVE FALSE
      OBVIOUS
    <3> HIDE DEF Bad
    <3>1. PICK m \in Bad : \A j \in Bad : m <= j
      BY <2>2, LeastNumber
    <3> QED BY <2>1, <3>1
  <2> QED BY <2>3
<1>9. ASSUME NEW i \in 0 .. n, NEW j \in 0 .. n, i < j PROVE end[i] < end[j]
  <2> DEFINE Bad == {k \in 0 .. n : i < k /\ ~(end[i] < end[k])}
  <2>1. ASSUME NEW m \in Bad, \A k \in Bad : m <= k PROVE FALSE
    <3>1. m \in 1 .. n /\ m - 1 \in 0 .. n /\ ~(m <= m - 1) /\ (i < m - 1 \/ i = m - 1)
      BY <1>1
    <3>2. end[m] = end[m - 1] + units[m].len
      BY <1>7, <3>1
    <3>3. end[m - 1] < end[m]
      BY <1>1, <1>8, <3>1, <3>2
    <3>4. end[i] \in Nat /\ end[m] \in Nat /\ end[m - 1] \in Nat
      BY <1>8, <3>1
    <3>5. i < m - 1 => end[i] < end[m - 1]
      BY <2>1, <3>1
    <3> QED BY <3>1, <3>3, <3>4, <3>5
  <2>2. Bad \in SUBSET Nat
    BY <1>1
  <2>3. Bad = {}
    <3> SUFFICES ASSUME Bad # {} PROVE FALSE
      OBVIOUS
    <3> HIDE DEF Bad
    <3>1. PICK m \in Bad : \A k \in Bad : m <= k
      BY <2>2, LeastNumber
    <3> QED BY <2>1, <3>1
  <2> QED BY <1>9, <2>3
<1>10. end[0] = 0
  <2>1. 0 \in 0 .. n
    BY <1>1
  <2> QED BY <1>7, <2>1
<1> QED BY <1>1, <1>2, <1>8, <1>9, <1>10 DEF n, units

\* As many units end by some offset as stand before it.
LEMMA UnitsBy ==
    ASSUME NEW doc, DocOK(doc), NEW k \in 0 .. Len(doc.units), NEW v \in Nat,
           Ends(doc)[k] <= v, k = Len(doc.units) \/ v < Ends(doc)[k + 1]
    PROVE  Cardinality({i \in DOMAIN doc.units : Ends(doc)[i] <= v}) = k
<1> DEFINE n == Len(doc.units)
           end == Ends(doc)
<1>1. /\ n \in Nat /\ DOMAIN doc.units = 1 .. n
      /\ \A i \in 0 .. n : end[i] \in Nat
      /\ \A i, j \in 0 .. n : i < j => end[i] < end[j]
  BY EndsRise
<1> HIDE DEF end
<1>2. ASSUME NEW i \in 1 .. n
      PROVE  end[i] <= v <=> i <= k
  <2>1. i \in 0 .. n /\ k \in 0 .. n /\ end[i] \in Nat /\ end[k] \in Nat
    BY <1>1
  <2>2. CASE i <= k
    <3>1. i < k \/ i = k
      BY <2>1, <2>2
    <3>2. end[i] <= end[k]
      BY <1>1, <2>1, <3>1
    <3> QED BY <2>1, <2>2, <3>2 DEF end
  <2>3. CASE k < i
    <3>1. k + 1 \in 0 .. n /\ k # n /\ (k + 1 < i \/ k + 1 = i)
      BY <1>1, <2>1, <2>3
    <3>2. end[k + 1] <= end[i] /\ end[k + 1] \in Nat
      BY <1>1, <2>1, <3>1
    <3>3. v < end[k + 1]
      BY <3>1 DEF end
    <3> QED BY <1>1, <2>1, <2>3, <3>2, <3>3
  <2> QED BY <1>1, <2>1, <2>2, <2>3
<1>3. {i \in DOMAIN doc.units : end[i] <= v} = 1 .. k
  BY <1>1, <1>2
<1>4. Cardinality(1 .. k) = k
  <2>1. 1 \in Int /\ k \in Int
    BY <1>1
  <2>2. Cardinality(1 .. k) = IF 1 > k THEN 0 ELSE k - 1 + 1
    BY <2>1, FS_Interval
  <2> QED BY <1>1, <2>2
<1> QED BY <1>3, <1>4 DEF end

\* The units of a stretch that goes from the end of one unit to that of another,
\* and of the last, which goes to the end of the text.
LEMMA UnitsOfStretch ==
    ASSUME NEW doc, DocOK(doc), NEW a \in 0 .. Len(doc.units), NEW b \in 0 .. Len(doc.units)
    PROVE  /\ UnitsIn(doc, Ends(doc)[a], Ends(doc)[b]) = SubSeq(doc.units, a + 1, b)
           /\ UnitsIn(doc, Ends(doc)[a], LengthOf(doc)) =
                  SubSeq(doc.units, a + 1, Len(doc.units))
<1> DEFINE n == Len(doc.units)
           end == Ends(doc)
           upTo(v) == Cardinality({i \in DOMAIN doc.units : end[i] <= v})
<1>1. /\ n \in Nat
      /\ \A i \in 0 .. n : end[i] \in Nat
      /\ \A i, j \in 0 .. n : i < j => end[i] < end[j]
  BY EndsRise
<1>2. ASSUME NEW k \in 0 .. n PROVE upTo(end[k]) = k
  <2>1. end[k] \in Nat /\ end[k] <= end[k]
    BY <1>1
  <2>2. k = n \/ end[k] < end[k + 1]
    <3>1. k # n => k + 1 \in 0 .. n /\ k < k + 1
      BY <1>1
    <3> HIDE DEF end
    <3> QED BY <1>1, <3>1
  <2> QED BY <2>1, <2>2, UnitsBy
<1>3. upTo(LengthOf(doc)) = n
  <2>1. doc.tail \in Nat /\ n \in 0 .. n
    BY <1>1 DEF DocOK
  <2>2. LengthOf(doc) = end[n] + doc.tail
    BY DEF LengthOf
  <2>3. LengthOf(doc) \in Nat /\ end[n] <= LengthOf(doc)
    BY <1>1, <2>1, <2>2
  <2> QED BY <2>1, <2>3, UnitsBy
<1>4. \A from, to : UnitsIn(doc, from, to) = SubSeq(doc.units, upTo(from) + 1, upTo(to))
  BY DEF UnitsIn
<1> HIDE DEF upTo, end, n
<1> QED BY <1>2, <1>3, <1>4 DEF end, n

\* The prologue: everything before the first unit that is no directive, all of
\* it directives, and nothing behind it is one.
LEMMA PrologueFirst ==
    ASSUME NEW doc, DocOK(doc), NEW want, MayBeSplit(doc, want)
    PROVE  /\ FirstOrdinary(doc) - 1 \in 0 .. Len(doc.units)
           /\ FirstOrdinary(doc) \in 1 .. Len(doc.units)
           /\ \A i \in 1 .. (FirstOrdinary(doc) - 1) : doc.units[i].head = "directive"
           /\ \A i \in FirstOrdinary(doc) .. Len(doc.units) : doc.units[i].head # "directive"
<1>1. Len(doc.units) \in Nat /\ DOMAIN doc.units = 1 .. Len(doc.units)
  BY EndsRise
<1>2. Ordinary(doc) \in SUBSET (1 .. Len(doc.units)) /\ Ordinary(doc) # {}
  BY <1>1 DEF Ordinary, MayBeSplit
<1>3. \E i \in Ordinary(doc) : \A j \in Ordinary(doc) : i <= j
  <2>1. Ordinary(doc) \in SUBSET Nat
    BY <1>1, <1>2
  <2> QED BY <1>2, <2>1, LeastNumber
<1>4. FirstOrdinary(doc) \in Ordinary(doc)
  BY <1>3 DEF FirstOrdinary
<1>5. FirstOrdinary(doc) \in 1 .. Len(doc.units)
  BY <1>2, <1>4
<1>6. ASSUME NEW i \in FirstOrdinary(doc) .. Len(doc.units)
      PROVE  doc.units[i].head # "directive"
  <2>1. i \in DOMAIN doc.units /\ ~(i < FirstOrdinary(doc))
    BY <1>1, <1>5
  <2> QED BY <2>1 DEF MayBeSplit
<1>7. ASSUME NEW i \in 1 .. (FirstOrdinary(doc) - 1)
      PROVE  doc.units[i].head = "directive"
  <2>1. i \in DOMAIN doc.units /\ ~(FirstOrdinary(doc) <= i)
    BY <1>1, <1>5
  <2>2. \A j \in Ordinary(doc) : FirstOrdinary(doc) <= j
    BY <1>3 DEF FirstOrdinary
  <2>3. i \notin Ordinary(doc)
    BY <2>1, <2>2
  <2> QED BY <2>1, <2>3 DEF Ordinary
<1> QED BY <1>1, <1>5, <1>6, <1>7

\* The places the text is cut at, behind the units c[1], c[2], ... and at its end.
CutAfter(doc, m, c) ==
    /\ m \in Nat \ {0}
    /\ c \in [1 .. (m + 1) -> 0 .. Len(doc.units)]
    /\ c[1] = FirstOrdinary(doc) - 1 /\ c[m + 1] = Len(doc.units)
    /\ \A i \in 1 .. m : c[i] <= c[i + 1]

\* No cut is before the end of the prologue or behind that of the text.
LEMMA CutsBehind ==
    ASSUME NEW doc, DocOK(doc), NEW m, NEW c, CutAfter(doc, m, c)
    PROVE  /\ m \in Nat \ {0}
           /\ \A i \in 1 .. m : /\ c[i] \in 0 .. Len(doc.units)
                                /\ c[i + 1] \in 0 .. Len(doc.units)
                                /\ c[1] <= c[i] /\ c[i] <= c[i + 1]
<1> DEFINE n == Len(doc.units)
           Bad == {i \in 1 .. m : ~(c[1] <= c[i])}
<1>1. /\ m \in Nat \ {0} /\ n \in Nat
      /\ \A i \in 1 .. (m + 1) : c[i] \in 0 .. n
      /\ \A i \in 1 .. m : c[i] <= c[i + 1]
  <2>1. n \in Nat
    BY EndsRise
  <2> QED BY <2>1 DEF CutAfter
<1> HIDE DEF n
<1>2. ASSUME NEW j \in Bad, \A i \in Bad : j <= i PROVE FALSE
  <2>1. j \in 1 .. m /\ ~(c[1] <= c[j]) /\ 1 \in 1 .. (m + 1) /\ j \in 1 .. (m + 1)
    BY <1>1
  <2>2. c[1] \in 0 .. n /\ c[j] \in 0 .. n
    BY <1>1, <2>1
  <2>3. j # 1
    BY <1>1, <2>1, <2>2
  <2>4. j - 1 \in 1 .. m /\ j - 1 \in 1 .. (m + 1) /\ (j - 1) + 1 = j /\ ~(j <= j - 1)
    BY <1>1, <2>1, <2>3
  <2>5. c[1] <= c[j - 1] /\ c[j - 1] <= c[(j - 1) + 1]
    BY <1>1, <1>2, <2>4
  <2>6. c[j - 1] \in 0 .. n
    BY <1>1, <2>4
  <2> QED BY <1>1, <2>1, <2>2, <2>4, <2>5, <2>6
<1>3. Bad \in SUBSET Nat
  BY <1>1
<1>4. Bad = {}
  <2> SUFFICES ASSUME Bad # {} PROVE FALSE
    OBVIOUS
  <2> HIDE DEF Bad
  <2>1. PICK j \in Bad : \A i \in Bad : j <= i
    BY <1>3, LeastNumber
  <2> QED BY <1>2, <2>1
<1>5. ASSUME NEW i \in 1 .. m
      PROVE  c[i] \in 0 .. n /\ c[i + 1] \in 0 .. n /\ c[1] <= c[i] /\ c[i] <= c[i + 1]
  <2>1. i \in 1 .. (m + 1) /\ i + 1 \in 1 .. (m + 1)
    BY <1>1
  <2> QED BY <1>1, <1>4, <2>1
<1> QED BY <1>1, <1>5 DEF n

\* The stretches begin where the prologue ends, each where the one before it
\* ended, and leave nothing out.
LEMMA StretchesTile ==
    ASSUME NEW doc, DocOK(doc), NEW want \in Nat, MayBeSplit(doc, want)
    PROVE  \E m, c :
              /\ CutAfter(doc, m, c)
              /\ Stretches(doc, want) =
                    [i \in 1 .. m |->
                        <<Ends(doc)[c[i]],
                          IF i = m THEN LengthOf(doc) ELSE Ends(doc)[c[i + 1]]>>]
<1> DEFINE n == Len(doc.units)
           end == Ends(doc)
           p == FirstOrdinary(doc) - 1
           start == end[FirstOrdinary(doc) - 1]
           boundaries == {end[i] : i \in DOMAIN doc.units}
           target(k) == start + ((LengthOf(doc) - start) * k) \div want
           next(q, k) ==
              {b \in boundaries : /\ b >= target(k) /\ b > Last(q)
                                  /\ \A x \in boundaries : x >= target(k) => b <= x}
           cut(q, k) == IF next(q, k) = {} THEN q
                        ELSE Append(q, CHOOSE b \in next(q, k) : TRUE)
           Is(f) == f = [k \in 0 .. (want - 1) |-> IF k = 0 THEN <<start>> ELSE cut(f[k - 1], k)]
           upTo == CHOOSE f : Is(f)
           cuts == Append(upTo[want - 1], LengthOf(doc))
           Q == {q \in Seq(Nat) :
                    /\ Len(q) >= 1 /\ q[1] = start
                    /\ \A i \in 1 .. Len(q) : \E j \in p .. n : q[i] = end[j]
                    /\ \A i \in 1 .. (Len(q) - 1) : q[i] < q[i + 1]}
           F == [k \in 1 .. (want - 1) |-> [q \in Q |-> cut(q, k)]]
<1>1. /\ n \in Nat /\ DOMAIN doc.units = 1 .. n
      /\ \A i \in 0 .. n : end[i] \in Nat
      /\ \A i, j \in 0 .. n : i < j => end[i] < end[j]
  BY EndsRise
<1>2. p \in 0 .. n
  BY PrologueFirst
<1>3. want - 1 \in Nat
  BY DEF MayBeSplit
<1>4. Stretches(doc, want) = [i \in 1 .. (Len(cuts) - 1) |-> <<cuts[i], cuts[i + 1]>>]
  BY DEF Stretches
<1>5. start = end[p]
  OBVIOUS
<1> HIDE DEF n, end, p, start
<1>6. ASSUME NEW q \in Q, NEW b, b \in boundaries, b > Last(q)
      PROVE  Append(q, b) \in Q
  <2>1. /\ q \in Seq(Nat) /\ Len(q) >= 1 /\ q[1] = start
        /\ \A i \in 1 .. Len(q) : \E j \in p .. n : q[i] = end[j]
        /\ \A i \in 1 .. (Len(q) - 1) : q[i] < q[i + 1]
    OBVIOUS
  <2>2. Len(q) \in Nat /\ Last(q) = q[Len(q)]
    BY <2>1, LenProperties DEF Last
  <2>3. PICK j \in 1 .. n : b = end[j]
    BY <1>1, <1>6
  <2>4. j \in 0 .. n /\ b \in Nat
    BY <1>1, <2>3
  <2>5. PICK l \in p .. n : q[Len(q)] = end[l]
    BY <2>1, <2>2
  <2>6. l \in 0 .. n /\ end[l] < end[j] /\ end[l] \in Nat
    BY <1>1, <1>2, <1>6, <2>2, <2>3, <2>5
  <2>7. ~(j < l) /\ j # l
    <3>1. j < l => end[j] < end[l]
      BY <1>1, <2>4, <2>6
    <3> QED BY <2>3, <2>4, <2>6, <3>1
  <2>8. j \in p .. n
    BY <1>1, <1>2, <2>4, <2>5, <2>7
  <2>9. /\ Append(q, b) \in Seq(Nat) /\ Len(Append(q, b)) = Len(q) + 1
        /\ \A i \in 1 .. Len(q) : Append(q, b)[i] = q[i]
        /\ Append(q, b)[Len(q) + 1] = b
    BY <2>1, <2>4, AppendProperties
  <2> DEFINE t == Append(q, b)
  <2> HIDE DEF t
  <2>10. Len(t) >= 1 /\ t[1] = start
    <3>1. 1 \in 1 .. Len(q)
      BY <2>1, <2>2
    <3> QED BY <2>1, <2>2, <2>9, <3>1 DEF t
  <2>11. ASSUME NEW i \in 1 .. Len(t) PROVE \E k \in p .. n : t[i] = end[k]
    <3>1. CASE i \in 1 .. Len(q)
      BY <2>1, <2>9, <3>1 DEF t
    <3>2. CASE i = Len(q) + 1
      BY <2>3, <2>8, <2>9, <3>2 DEF t
    <3> QED BY <2>2, <2>9, <3>1, <3>2 DEF t
  <2>12. ASSUME NEW i \in 1 .. (Len(t) - 1) PROVE t[i] < t[i + 1]
    <3>1. CASE i \in 1 .. (Len(q) - 1)
      <4>1. i \in 1 .. Len(q) /\ i + 1 \in 1 .. Len(q)
        BY <2>2, <3>1
      <4>2. t[i] = q[i] /\ t[i + 1] = q[i + 1]
        BY <2>9, <4>1 DEF t
      <4> QED BY <2>1, <3>1, <4>2
    <3>2. CASE i = Len(q)
      <4>1. i \in 1 .. Len(q)
        BY <2>1, <2>2, <3>2
      <4>2. t[i] = q[i] /\ t[i + 1] = b
        BY <2>9, <3>2, <4>1 DEF t
      <4>3. q[i] < b
        BY <2>3, <2>5, <2>6, <3>2
      <4> QED BY <4>2, <4>3
    <3> QED BY <2>2, <2>9, <3>1, <3>2 DEF t
  <2>13. t \in Seq(Nat)
    BY <2>9 DEF t
  <2> QED BY <2>10, <2>11, <2>12, <2>13 DEF t
<1>7. ASSUME NEW q \in Q, NEW k \in 1 .. (want - 1)
      PROVE  cut(q, k) \in Q
  <2> DEFINE b == CHOOSE x \in next(q, k) : TRUE
  <2>1. CASE next(q, k) = {}
    <3> HIDE DEF next, Q
    <3> QED BY <2>1
  <2>2. CASE next(q, k) # {}
    <3>1. b \in next(q, k)
      <4> HIDE DEF next
      <4> QED BY <2>2
    <3>2. b \in boundaries /\ b > Last(q)
      <4> HIDE DEF b, boundaries, target
      <4> QED BY <3>1
    <3>3. Append(q, b) \in Q
      <4> HIDE DEF b, boundaries, Q
      <4> QED BY <1>6, <3>2
    <3> HIDE DEF next, Q
    <3> QED BY <2>2, <3>3
  <2> HIDE DEF next, Q
  <2> QED BY <2>1, <2>2
<1>8. <<start>> \in Q
  <2>1. start \in Nat
    BY <1>1, <1>2, <1>5
  <2>2. <<start>> \in Seq(Nat) /\ Len(<<start>>) = 1 /\ <<start>>[1] = start
    BY <2>1
  <2>3. p \in p .. n
    BY <1>1, <1>2
  <2> QED BY <1>5, <2>2, <2>3
<1> HIDE DEF cut
<1>9. \A k \in 1 .. (want - 1) : F[k] \in [Q -> Q] /\ \A q \in Q : F[k][q] = cut(q, k)
  <2> HIDE DEF Q
  <2> QED BY <1>7
<1> HIDE DEF F, Q
<1>10. PICK f \in [0 .. (want - 1) -> Q] : InTurn(f, want - 1, F, <<start>>)
  BY <1>3, <1>8, <1>9, InTurnExists
<1>11. Is(f)
  <2>1. ASSUME NEW k \in 0 .. (want - 1)
        PROVE  f[k] = IF k = 0 THEN <<start>> ELSE cut(f[k - 1], k)
    <3>1. k # 0 => k \in 1 .. (want - 1) /\ k - 1 \in 0 .. (want - 1)
      BY <1>3
    <3>2. f[k] = IF k = 0 THEN <<start>> ELSE F[k][f[k - 1]]
      BY <1>10 DEF InTurn
    <3> QED BY <1>9, <1>10, <3>1, <3>2
  <2>2. f = [k \in 0 .. (want - 1) |-> f[k]]
    BY <1>10
  <2> QED BY <2>1, <2>2
<1>12. Is(upTo)
  <2> HIDE DEF Is
  <2> QED BY <1>11
<1>13. \A k \in 0 .. (want - 1) : upTo[k] = IF k = 0 THEN <<start>> ELSE cut(upTo[k - 1], k)
  <2> HIDE DEF upTo
  <2> QED BY <1>12
<1> HIDE DEF upTo
<1>14. upTo[want - 1] \in Q
  <2> DEFINE Bad == {k \in 0 .. (want - 1) : upTo[k] \notin Q}
  <2>1. ASSUME NEW m \in Bad, \A k \in Bad : m <= k PROVE FALSE
    <3>1. CASE m = 0
      BY <1>8, <1>13, <3>1
    <3>2. CASE m # 0
      <4>1. m - 1 \in 0 .. (want - 1) /\ ~(m <= m - 1) /\ m \in 1 .. (want - 1)
        BY <1>3, <3>2
      <4>2. upTo[m - 1] \in Q
        BY <2>1, <4>1
      <4>3. upTo[m] = cut(upTo[m - 1], m)
        BY <1>13, <3>2
      <4> QED BY <1>7, <4>1, <4>2, <4>3
    <3> QED BY <3>1, <3>2
  <2>2. Bad \in SUBSET Nat
    BY <1>3
  <2>3. Bad = {}
    <3> SUFFICES ASSUME Bad # {} PROVE FALSE
      OBVIOUS
    <3> HIDE DEF Bad
    <3>1. PICK m \in Bad : \A k \in Bad : m <= k
      BY <2>2, LeastNumber
    <3> QED BY <2>1, <3>1
  <2>4. want - 1 \in 0 .. (want - 1)
    BY <1>3
  <2> QED BY <2>3, <2>4
<1> DEFINE q == upTo[want - 1]
           m == Len(q)
           c == [i \in 1 .. (m + 1) |->
                    IF i = m + 1 THEN n ELSE CHOOSE j \in p .. n : q[i] = end[j]]
<1> HIDE DEF q
<1>15. /\ q \in Seq(Nat) /\ m \in Nat \ {0} /\ q[1] = start
       /\ \A i \in 1 .. m : \E j \in p .. n : q[i] = end[j]
       /\ \A i \in 1 .. (m - 1) : q[i] < q[i + 1]
  <2>1. q \in Q
    BY <1>14 DEF q
  <2>2. q \in Seq(Nat) /\ m >= 1 /\ q[1] = start
    BY <2>1 DEF Q
  <2>3. m \in Nat
    BY <2>2, LenProperties
  <2>4. \A i \in 1 .. m : \E j \in p .. n : q[i] = end[j]
    BY <2>1 DEF Q
  <2>5. \A i \in 1 .. (m - 1) : q[i] < q[i + 1]
    BY <2>1 DEF Q
  <2> QED BY <2>2, <2>3, <2>4, <2>5
<1>16. /\ Len(cuts) = m + 1
       /\ \A i \in 1 .. m : cuts[i] = q[i]
       /\ cuts[m + 1] = LengthOf(doc)
  <2>1. LengthOf(doc) \in Nat
    BY <1>1 DEF LengthOf, DocOK, n, end
  <2> QED BY <1>15, <2>1, AppendProperties DEF q
<1> HIDE DEF cuts, m
<1>17. ASSUME NEW i \in 1 .. m
       PROVE  i \in 1 .. (m + 1) /\ i # m + 1 /\ c[i] \in p .. n /\ q[i] = end[c[i]]
  <2>1. i \in 1 .. (m + 1) /\ i # m + 1
    BY <1>15
  <2>2. c[i] = CHOOSE j \in p .. n : q[i] = end[j]
    BY <2>1
  <2>3. \E j \in p .. n : q[i] = end[j]
    BY <1>15
  <2> HIDE DEF c
  <2> QED BY <2>1, <2>2, <2>3
<1>18. c[m + 1] = n /\ m + 1 \in 1 .. (m + 1)
  BY <1>15
<1>19. DOMAIN c = 1 .. (m + 1) /\ c = [i \in 1 .. (m + 1) |-> c[i]]
  OBVIOUS
<1> HIDE DEF c
<1>20. ASSUME NEW i \in 1 .. (m + 1) PROVE c[i] \in p .. n
  <2>1. i \in 1 .. m \/ i = m + 1
    BY <1>15
  <2>2. n \in p .. n
    BY <1>1, <1>2
  <2> QED BY <1>17, <1>18, <2>1, <2>2
<1>21. c \in [1 .. (m + 1) -> 0 .. n]
  <2>1. \A j \in p .. n : j \in 0 .. n
    BY <1>1, <1>2
  <2>2. \A i \in 1 .. (m + 1) : c[i] \in 0 .. n
    BY <1>20, <2>1
  <2> QED BY <1>19, <2>2
<1>22. c[1] = p
  <2>1. 1 \in 1 .. m
    BY <1>15
  <2>2. end[c[1]] = end[p] /\ c[1] \in p .. n
    BY <1>5, <1>15, <1>17, <2>1
  <2>3. c[1] \in 0 .. n /\ end[p] \in Nat /\ (c[1] = p \/ p < c[1])
    BY <1>1, <1>2, <2>2
  <2>4. p < c[1] => end[p] < end[c[1]]
    BY <1>1, <1>2, <2>3
  <2> QED BY <2>2, <2>3, <2>4
<1>23. ASSUME NEW i \in 1 .. m PROVE c[i] <= c[i + 1]
  <2>1. i \in 1 .. (m + 1) /\ i + 1 \in 1 .. (m + 1)
    BY <1>15
  <2>2. c[i] \in 0 .. n /\ c[i + 1] \in 0 .. n
    BY <1>21, <2>1
  <2>3. CASE i = m
    BY <1>1, <1>18, <2>2, <2>3
  <2>4. CASE i # m
    <3>1. i \in 1 .. (m - 1) /\ i + 1 \in 1 .. m
      BY <1>15, <2>4
    <3>2. end[c[i]] < end[c[i + 1]]
      BY <1>15, <1>17, <3>1
    <3>3. c[i + 1] < c[i] => end[c[i + 1]] < end[c[i]]
      BY <1>1, <2>2
    <3>4. end[c[i]] \in Nat /\ end[c[i + 1]] \in Nat
      BY <1>1, <2>2
    <3> QED BY <1>1, <2>2, <3>2, <3>3, <3>4
  <2> QED BY <2>3, <2>4
<1>24. CutAfter(doc, m, c)
  BY <1>15, <1>18, <1>21, <1>22, <1>23 DEF CutAfter, n, p
<1>25. Stretches(doc, want) =
          [i \in 1 .. m |-> <<end[c[i]], IF i = m THEN LengthOf(doc) ELSE end[c[i + 1]]>>]
  <2>1. Len(cuts) - 1 = m
    BY <1>15, <1>16
  <2>2. ASSUME NEW i \in 1 .. m
        PROVE  /\ cuts[i] = end[c[i]]
               /\ cuts[i + 1] = IF i = m THEN LengthOf(doc) ELSE end[c[i + 1]]
    <3>1. i # m => i + 1 \in 1 .. m
      BY <1>15
    <3> QED BY <1>16, <1>17, <3>1
  <2> QED BY <1>4, <2>1, <2>2
<1> QED BY <1>24, <1>25 DEF end

\* The prologue with the units between two cuts.
Pieces(doc, m, c) ==
    [i \in 1 .. m |-> SubSeq(doc.units, 1, c[1]) \o SubSeq(doc.units, c[i] + 1, c[i + 1])]

\* The texts to parse: such pieces, or the whole.
LEMMA TextsAre ==
    ASSUME NEW doc, DocOK(doc), NEW want \in Nat
    PROVE  \/ ~IsSplit(doc, want) /\ Texts(doc, want) = <<doc.units>>
           \/ /\ IsSplit(doc, want) /\ MayBeSplit(doc, want)
              /\ \E m, c : CutAfter(doc, m, c) /\ Texts(doc, want) = Pieces(doc, m, c)
<1>1. CASE ~IsSplit(doc, want)
  BY <1>1 DEF Texts
<1>2. CASE IsSplit(doc, want)
  <2> DEFINE n == Len(doc.units)
             st == Stretches(doc, want)
             end == Ends(doc)
  <2>1. MayBeSplit(doc, want)
    BY <1>2 DEF IsSplit
  <2>2. PICK m, c : /\ CutAfter(doc, m, c)
                    /\ st = [i \in 1 .. m |->
                                <<end[c[i]], IF i = m THEN LengthOf(doc) ELSE end[c[i + 1]]>>]
    BY <2>1, StretchesTile
  <2>3. Texts(doc, want) = [i \in DOMAIN st |->
            UnitsIn(doc, 0, st[1][1]) \o UnitsIn(doc, st[i][1], st[i][2])]
    BY <1>2 DEF Texts
  <2>4. n \in Nat /\ end[0] = 0
    BY EndsRise
  <2> HIDE DEF st, end, n
  <2>5. m \in Nat \ {0} /\ \A i \in 1 .. (m + 1) : c[i] \in 0 .. n
    BY <2>2 DEF CutAfter, n
  <2>6. c[m + 1] = n
    BY <2>2 DEF CutAfter, n
  <2>7. /\ DOMAIN st = 1 .. m /\ st[1][1] = end[c[1]]
        /\ \A i \in 1 .. m : /\ st[i][1] = end[c[i]]
                             /\ st[i][2] = IF i = m THEN LengthOf(doc) ELSE end[c[i + 1]]
    <3>1. 1 \in 1 .. m
      BY <2>5
    <3> QED BY <2>2, <3>1
  <2>8. UnitsIn(doc, 0, st[1][1]) = SubSeq(doc.units, 1, c[1])
    <3>1. c[1] \in 0 .. n /\ 0 \in 0 .. n /\ 0 + 1 = 1
      BY <2>4, <2>5
    <3>2. UnitsIn(doc, end[0], end[c[1]]) = SubSeq(doc.units, 0 + 1, c[1])
      BY <3>1, UnitsOfStretch DEF n, end
    <3> QED BY <2>4, <2>7, <3>1, <3>2
  <2>9. ASSUME NEW i \in 1 .. m
        PROVE  UnitsIn(doc, st[i][1], st[i][2]) = SubSeq(doc.units, c[i] + 1, c[i + 1])
    <3>1. c[i] \in 0 .. n /\ c[i + 1] \in 0 .. n
      <4>1. i \in 1 .. (m + 1) /\ i + 1 \in 1 .. (m + 1)
        BY <2>5
      <4> QED BY <2>5, <4>1
    <3>2. /\ UnitsIn(doc, end[c[i]], end[c[i + 1]]) = SubSeq(doc.units, c[i] + 1, c[i + 1])
          /\ UnitsIn(doc, end[c[i]], LengthOf(doc)) = SubSeq(doc.units, c[i] + 1, n)
      BY <3>1, UnitsOfStretch DEF n, end
    <3>3. CASE i = m
      BY <2>6, <2>7, <3>2, <3>3
    <3>4. CASE i # m
      BY <2>7, <3>2, <3>4
    <3> QED BY <3>3, <3>4
  <2>10. Texts(doc, want) = Pieces(doc, m, c)
    BY <2>3, <2>7, <2>8, <2>9 DEF Pieces
  <2> QED BY <1>2, <2>1, <2>2, <2>10
<1> QED BY <1>1, <1>2

-----------------------------------------------------------------------------
(* Reading a text unit by unit. *)

\* What a parser knows: at first, and after some units of a text.
AtFirst == [ok |-> TRUE, env |-> <<>>, made |-> 0, triples |-> <<>>]
Reading(f, n, text) ==
    f = [i \in 0 .. n |-> IF i = 0 THEN AtFirst ELSE ParseUnit(f[i - 1], text[i])]
After(text) == CHOOSE f : Reading(f, Len(text), text)
Knows(acc) ==
    /\ acc = [field \in {"ok", "env", "made", "triples"} |-> acc[field]]
    /\ acc.ok \in BOOLEAN

\* Any number of units can be read.
LEMMA ReadingExists ==
    ASSUME NEW n \in Nat, NEW text
    PROVE  \E f : Reading(f, n, text)
<1> DEFINE Some(m) == \E f : Reading(f, m, text)
           Bad == {m \in 0 .. n : ~Some(m)}
<1> HIDE DEF Some
<1>1. SUFFICES ASSUME NEW m \in Bad, \A k \in Bad : m <= k
               PROVE  FALSE
  <2>1. Bad \in SUBSET Nat
    OBVIOUS
  <2>2. n \in 0 .. n
    OBVIOUS
  <2>3. SUFFICES Bad = {}
    BY <2>2 DEF Some
  <2> HIDE DEF Bad
  <2> QED BY <1>1, <2>1, LeastNumber
<1>2. m \in 0 .. n /\ ~Some(m)
  OBVIOUS
<1>3. CASE m = 0
  <2>1. Reading([k \in 0 .. 0 |-> AtFirst], 0, text)
    BY DEF Reading
  <2> QED BY <1>2, <1>3, <2>1 DEF Some
<1>4. CASE m > 0
  <2>1. m - 1 \in 0 .. n /\ ~(m <= m - 1)
    BY <1>2, <1>4
  <2>2. Some(m - 1)
    BY <1>1, <2>1
  <2>3. PICK f : Reading(f, m - 1, text)
    BY <2>2 DEF Some
  <2> DEFINE h == [k \in 0 .. m |-> IF k = m THEN ParseUnit(f[m - 1], text[m]) ELSE f[k]]
  <2>4. ASSUME NEW k \in 0 .. m
        PROVE  h[k] = IF k = 0 THEN AtFirst ELSE ParseUnit(h[k - 1], text[k])
    <3>1. CASE k = m
      <4>1. m - 1 \in 0 .. m /\ m - 1 # m
        BY <1>2, <1>4
      <4>2. h[m - 1] = f[m - 1]
        BY <4>1
      <4> QED BY <1>4, <3>1, <4>2
    <3>2. CASE k # m
      <4>1. k \in 0 .. (m - 1) /\ (k # 0 => k - 1 \in 0 .. (m - 1))
        BY <1>2, <3>2
      <4>2. h[k] = f[k] /\ (k # 0 => h[k - 1] = f[k - 1])
        BY <1>2, <3>2, <4>1
      <4>3. f[k] = IF k = 0 THEN AtFirst ELSE ParseUnit(f[k - 1], text[k])
        BY <2>3, <4>1 DEF Reading
      <4> QED BY <4>2, <4>3
    <3> QED BY <3>1, <3>2
  <2>5. Reading(h, m, text)
    <3>1. h = [k \in 0 .. m |-> h[k]]
      OBVIOUS
    <3> HIDE DEF h
    <3> QED BY <2>4, <3>1 DEF Reading
  <2> QED BY <1>2, <2>5 DEF Some
<1> QED BY <1>2, <1>3, <1>4

\* No declarations leave the prefixes as they are.
LEMMA NothingDeclared ==
    ASSUME NEW env
    PROVE  Declared(env, <<>>) = env
<1> DEFINE Is(f) == f = [i \in 0 .. 0 |-> IF i = 0 THEN env
                                        ELSE With(f[i - 1], <<>>[i][1], <<>>[i][2])]
           upTo == CHOOSE f : Is(f)
<1>1. Declared(env, <<>>) = upTo[0]
  BY DEF Declared
<1>2. Is([i \in 0 .. 0 |-> env])
  OBVIOUS
<1>3. Is(upTo)
  <2> HIDE DEF Is
  <2> QED BY <1>2
<1>4. upTo[0] = env
  <2>1. 0 \in 0 .. 0
    OBVIOUS
  <2> HIDE DEF upTo
  <2> QED BY <1>3, <2>1
<1> QED BY <1>1, <1>4

\* What a unit says is understood with these prefixes.
Fine(unit, env) ==
    /\ ~unit.bad
    /\ \A term \in TermsOf(unit.triples) : term.t = "name" => term.prefix \in DOMAIN env

\* What is known after one more unit.
IsNext(next, acc, unit) ==
    LET env == Declared(acc.env, unit.decl)
    IN  /\ Knows(next)
        /\ ~acc.ok => next = acc
        /\ next.ok <=> acc.ok /\ Fine(unit, env)
        /\ ~next.ok => next.env = acc.env
        /\ next.ok =>
              /\ next.env = env
              /\ next.made = acc.made + Cardinality(Anonymous(unit.triples))
              /\ next.triples = acc.triples \o
                    [i \in DOMAIN unit.triples |->
                        [c \in 1..3 |-> Resolved(unit.triples[i][c], env, acc.made)]]

\* What reading one unit comes to.
LEMMA UnitRead ==
    ASSUME NEW acc, Knows(acc), NEW unit
    PROVE  IsNext(ParseUnit(acc, unit), acc, unit)
<1> DEFINE env == Declared(acc.env, unit.decl)
           made == acc.made + Cardinality(Anonymous(unit.triples))
           said == acc.triples \o
                      [i \in DOMAIN unit.triples |->
                          [c \in 1..3 |-> Resolved(unit.triples[i][c], env, acc.made)]]
           next == ParseUnit(acc, unit)
<1>1. next = IF ~acc.ok THEN acc
             ELSE IF ~Fine(unit, env) THEN [acc EXCEPT !.ok = FALSE]
             ELSE [ok |-> TRUE, env |-> env, made |-> made, triples |-> said]
  BY DEF ParseUnit, Fine
<1> DEFINE not == [acc EXCEPT !.ok = FALSE]
<1>2. Knows(not) /\ not.ok = FALSE /\ not.env = acc.env
  <2>1. acc = [field \in {"ok", "env", "made", "triples"} |-> acc[field]]
    BY DEF Knows
  <2>2. DOMAIN acc = {"ok", "env", "made", "triples"}
    BY <2>1
  <2>3. not = [field \in {"ok", "env", "made", "triples"} |->
                  IF field = "ok" THEN FALSE ELSE acc[field]]
    BY <2>2
  <2> HIDE DEF not
  <2>4. not.ok = FALSE /\ not.env = acc.env
    BY <2>3
  <2>5. not = [field \in {"ok", "env", "made", "triples"} |-> not[field]]
    BY <2>3
  <2> QED BY <2>4, <2>5 DEF Knows
<1> HIDE DEF env, made, said, next, not
<1>3. CASE ~acc.ok
  <2>1. next = acc /\ ~next.ok
    BY <1>1, <1>3
  <2> QED BY <1>3, <2>1 DEF next, IsNext
<1>4. CASE acc.ok /\ ~Fine(unit, env)
  <2>1. next = not
    BY <1>1, <1>4 DEF not
  <2>2. Knows(next) /\ ~next.ok /\ next.env = acc.env
    BY <1>2, <2>1
  <2> QED BY <1>4, <2>2 DEF next, env, IsNext
<1>5. CASE acc.ok /\ Fine(unit, env)
  <2>1. next = [ok |-> TRUE, env |-> env, made |-> made, triples |-> said]
    BY <1>1, <1>5
  <2>2. next.ok = TRUE /\ next.env = env /\ next.made = made /\ next.triples = said
    BY <2>1
  <2>3. /\ DOMAIN next = {"ok", "env", "made", "triples"}
        /\ next = [field \in DOMAIN next |-> next[field]]
    BY <2>1
  <2>4. Knows(next)
    BY <2>2, <2>3 DEF Knows
  <2> QED BY <1>5, <2>2, <2>4 DEF next, env, made, said, IsNext
<1> QED BY <1>3, <1>4, <1>5

\* A text is read from its start, each unit knowing what those before it said.
LEMMA TextRead ==
    ASSUME NEW S, NEW text \in Seq(S)
    PROVE  /\ Len(text) \in Nat
           /\ Parse(text) = After(text)[Len(text)]
           /\ After(text)[0] = AtFirst
           /\ \A i \in 1 .. Len(text) : After(text)[i] = ParseUnit(After(text)[i - 1], text[i])
           /\ \A i \in 0 .. Len(text) : Knows(After(text)[i])
<1> DEFINE n == Len(text)
           f == After(text)
<1>1. n \in Nat
  BY LenProperties
<1>2. Parse(text) = f[n]
  BY DEF Parse, After, Reading, AtFirst
<1> HIDE DEF n
<1>3. Reading(f, n, text)
  <2>1. \E g : Reading(g, n, text)
    BY <1>1, ReadingExists
  <2>2. f = CHOOSE g : Reading(g, n, text)
    BY DEF After, n
  <2> HIDE DEF f
  <2> QED BY <2>1, <2>2
<1> HIDE DEF f
<1>4. \A i \in 0 .. n : f[i] = IF i = 0 THEN AtFirst ELSE ParseUnit(f[i - 1], text[i])
  BY <1>3 DEF Reading
<1>5. \A i \in 1 .. n : f[i] = ParseUnit(f[i - 1], text[i])
  <2> TAKE i \in 1 .. n
  <2>1. i \in 0 .. n /\ i # 0
    BY <1>1
  <2> QED BY <1>4, <2>1
<1>6. f[0] = AtFirst
  <2>1. 0 \in 0 .. n
    BY <1>1
  <2> QED BY <1>4, <2>1
<1>7. ASSUME NEW k \in 0 .. n PROVE Knows(f[k])
  <2> DEFINE Bad == {i \in 0 .. n : ~Knows(f[i])}
  <2>1. ASSUME NEW m \in Bad, \A i \in Bad : m <= i PROVE FALSE
    <3>1. m \in 0 .. n /\ ~Knows(f[m])
      OBVIOUS
    <3>2. CASE m = 0
      <4>1. AtFirst = [field \in {"ok", "env", "made", "triples"} |-> AtFirst[field]]
        BY DEF AtFirst
      <4>2. AtFirst.ok = TRUE
        BY DEF AtFirst
      <4>3. Knows(AtFirst)
        BY <4>1, <4>2 DEF Knows
      <4> QED BY <1>6, <3>1, <3>2, <4>3
    <3>3. CASE m # 0
      <4>1. m - 1 \in 0 .. n /\ ~(m <= m - 1) /\ m \in 1 .. n
        BY <1>1, <3>1, <3>3
      <4>2. Knows(f[m - 1])
        BY <2>1, <4>1
      <4>3. f[m] = ParseUnit(f[m - 1], text[m])
        BY <1>5, <4>1
      <4>4. IsNext(ParseUnit(f[m - 1], text[m]), f[m - 1], text[m])
        BY <4>2, UnitRead
      <4>5. Knows(f[m])
        BY <4>3, <4>4 DEF IsNext
      <4> QED BY <3>1, <4>5
    <3> QED BY <3>2, <3>3
  <2>2. Bad \in SUBSET Nat
    BY <1>1
  <2>3. Bad = {}
    <3> SUFFICES ASSUME Bad # {} PROVE FALSE
      OBVIOUS
    <3> HIDE DEF Bad
    <3>1. PICK m \in Bad : \A i \in Bad : m <= i
      BY <2>2, LeastNumber
    <3> QED BY <2>1, <3>1
  <2> QED BY <2>3
<1> QED BY <1>1, <1>2, <1>5, <1>6, <1>7 DEF n, f

\* Texts that start alike are read alike as long as they do.
LEMMA StartAlike ==
    ASSUME NEW S, NEW t \in Seq(S), NEW u \in Seq(S), NEW p \in Nat,
           p <= Len(t), p <= Len(u), \A i \in 1 .. p : t[i] = u[i]
    PROVE  \A i \in 0 .. p : After(t)[i] = After(u)[i]
<1> DEFINE f == After(t)
           g == After(u)
           Bad == {i \in 0 .. p : f[i] # g[i]}
<1>1. /\ Len(t) \in Nat /\ f[0] = AtFirst
      /\ \A i \in 1 .. Len(t) : f[i] = ParseUnit(f[i - 1], t[i])
  BY TextRead
<1>2. /\ Len(u) \in Nat /\ g[0] = AtFirst
      /\ \A i \in 1 .. Len(u) : g[i] = ParseUnit(g[i - 1], u[i])
  BY TextRead
<1> HIDE DEF f, g
<1>3. ASSUME NEW m \in Bad, \A i \in Bad : m <= i PROVE FALSE
  <2>1. m \in 0 .. p /\ f[m] # g[m]
    OBVIOUS
  <2>2. CASE m = 0
    BY <1>1, <1>2, <2>1, <2>2
  <2>3. CASE m # 0
    <3>1. m - 1 \in 0 .. p /\ ~(m <= m - 1) /\ m \in 1 .. p
      BY <2>1, <2>3
    <3>2. m \in 1 .. Len(t) /\ m \in 1 .. Len(u)
      BY <1>1, <1>2, <3>1
    <3>3. f[m - 1] = g[m - 1]
      BY <1>3, <3>1
    <3> QED BY <1>1, <1>2, <2>1, <3>1, <3>2, <3>3
  <2> QED BY <2>2, <2>3
<1>4. Bad \in SUBSET Nat
  OBVIOUS
<1>5. Bad = {}
  <2> SUFFICES ASSUME Bad # {} PROVE FALSE
    OBVIOUS
  <2> HIDE DEF Bad
  <2>1. PICK m \in Bad : \A i \in Bad : m <= i
    BY <1>4, LeastNumber
  <2> QED BY <1>3, <2>1
<1> QED BY <1>5 DEF f, g

\* Behind the last declaration the prefixes stay, and each unit is understood
\* or not whatever stands before it.
LEMMA ReadOn ==
    ASSUME NEW S, NEW text \in Seq(S), NEW p \in 0 .. Len(text),
           \A i \in (p + 1) .. Len(text) : text[i].decl = <<>>
    PROVE  \A i \in p .. Len(text) :
              /\ After(text)[i].env = After(text)[p].env
              /\ After(text)[i].ok <=>
                    /\ After(text)[p].ok
                    /\ \A k \in (p + 1) .. i : Fine(text[k], After(text)[p].env)
<1> DEFINE n == Len(text)
           f == After(text)
           Right(i) == /\ f[i].env = f[p].env
                       /\ f[i].ok <=> /\ f[p].ok
                                      /\ \A k \in (p + 1) .. i : Fine(text[k], f[p].env)
           Bad == {i \in p .. n : ~Right(i)}
<1>1. /\ n \in Nat
      /\ \A i \in 1 .. n : f[i] = ParseUnit(f[i - 1], text[i])
      /\ \A i \in 0 .. n : Knows(f[i])
  BY TextRead
<1> HIDE DEF f
<1>2. ASSUME NEW m \in Bad, \A i \in Bad : m <= i PROVE FALSE
  <2>1. m \in p .. n /\ ~Right(m)
    OBVIOUS
  <2>2. CASE m = p
    <3>1. (p + 1) .. p = {}
      OBVIOUS
    <3> QED BY <2>1, <2>2, <3>1
  <2>3. CASE m # p
    <3>1. /\ m - 1 \in p .. n /\ ~(m <= m - 1) /\ m \in 1 .. n
          /\ m \in (p + 1) .. n /\ m - 1 \in 0 .. n
      BY <1>1, <2>1, <2>3
    <3>2. Right(m - 1)
      <4> HIDE DEF Right
      <4> QED BY <1>2, <3>1
    <3>3. Knows(f[m - 1]) /\ f[m] = ParseUnit(f[m - 1], text[m])
      BY <1>1, <3>1
    <3>4. Declared(f[m - 1].env, text[m].decl) = f[p].env
      BY <3>1, <3>2, NothingDeclared
    <3>5. IsNext(f[m], f[m - 1], text[m])
      <4>1. IsNext(ParseUnit(f[m - 1], text[m]), f[m - 1], text[m])
        BY <3>3, UnitRead
      <4> QED BY <3>3, <4>1
    <3>6. /\ f[m].ok <=> f[m - 1].ok /\ Fine(text[m], f[p].env)
          /\ f[m].env = f[p].env
      BY <3>2, <3>4, <3>5 DEF IsNext
    <3>7. (p + 1) .. m = ((p + 1) .. (m - 1)) \cup {m}
      BY <3>1
    <3> QED BY <2>1, <3>2, <3>6, <3>7
  <2> QED BY <2>2, <2>3
<1>3. Bad \in SUBSET Nat
  BY <1>1
<1>4. Bad = {}
  <2> SUFFICES ASSUME Bad # {} PROVE FALSE
    OBVIOUS
  <2> HIDE DEF Bad
  <2>1. PICK m \in Bad : \A i \in Bad : m <= i
    BY <1>3, LeastNumber
  <2> QED BY <1>2, <2>1
<1> QED BY <1>4 DEF f

-----------------------------------------------------------------------------
(* The pieces of a document, and the documents of a run. *)

\* A run of a sequence.
LEMMA RunOfSeq ==
    ASSUME NEW S, NEW s \in Seq(S), NEW a \in Nat, NEW b \in Nat, a <= b, b <= Len(s)
    PROVE  /\ SubSeq(s, a + 1, b) \in Seq(S)
           /\ Len(SubSeq(s, a + 1, b)) = b - a
           /\ \A k \in 1 .. (b - a) : SubSeq(s, a + 1, b)[k] = s[a + k]
<1>1. Len(s) \in Nat /\ \A i \in 1 .. Len(s) : s[i] \in S
  BY LenProperties, ElementOfSeq
<1> DEFINE t == SubSeq(s, a + 1, b)
<1>2. /\ t \in Seq(S)
      /\ Len(t) = IF a + 1 <= b THEN b - (a + 1) + 1 ELSE 0
      /\ \A k \in 1 .. b - (a + 1) + 1 : t[k] = s[(a + 1) + k - 1]
  <2>1. a + 1 \in Int /\ b \in Int /\ \A i \in (a + 1) .. b : s[i] \in S
    BY <1>1
  <2> QED BY <2>1, SubSeqProperties
<1> HIDE DEF t
<1>3. (IF a + 1 <= b THEN b - (a + 1) + 1 ELSE 0) = b - a
  OBVIOUS
<1>4. \A k \in 1 .. (b - a) : k \in 1 .. b - (a + 1) + 1 /\ (a + 1) + k - 1 = a + k
  OBVIOUS
<1> QED BY <1>2, <1>3, <1>4 DEF t

\* The text of a piece: the prologue, then the units from one cut to the next.
IsPiece(t, units, p, a, b) ==
    /\ t \in Seq(ToSet(units)) /\ Len(t) = p + (b - a)
    /\ \A k \in 1 .. p : t[k] = units[k]
    /\ \A k \in 1 .. (b - a) : t[p + k] = units[a + k]

\* The pieces are such texts, and behind the prologue nothing is declared.
LEMMA PiecesAre ==
    ASSUME NEW doc, DocOK(doc), Tame(doc), NEW want, MayBeSplit(doc, want),
           NEW m, NEW c, CutAfter(doc, m, c)
    PROVE  /\ doc.units \in Seq(ToSet(doc.units)) /\ Len(doc.units) \in Nat
           /\ c[1] \in 0 .. Len(doc.units)
           /\ \A k \in (c[1] + 1) .. Len(doc.units) : doc.units[k].decl = <<>>
           /\ \A k \in 1 .. c[1] : doc.units[k].head = "directive"
           /\ DOMAIN Pieces(doc, m, c) = 1 .. m
           /\ \A i \in 1 .. m : IsPiece(Pieces(doc, m, c)[i], doc.units, c[1], c[i], c[i + 1])
<1> DEFINE units == doc.units
           n == Len(units)
           p == c[1]
<1>1. units \in Seq(ToSet(units)) /\ n \in Nat /\ DOMAIN units = 1 .. n
  <2>1. units \in Seq(ToSet(units))
    BY DEF DocOK, IsSeq
  <2> HIDE DEF units
  <2> QED BY <2>1, LenProperties
<1>2. /\ m \in Nat \ {0} /\ p = FirstOrdinary(doc) - 1
      /\ \A i \in 1 .. (m + 1) : c[i] \in 0 .. n
      /\ \A i \in 1 .. m : c[i] <= c[i + 1]
  BY DEF CutAfter
<1>3. p \in 0 .. n
  <2>1. 1 \in 1 .. (m + 1)
    BY <1>2
  <2> QED BY <1>2, <2>1
<1>4. /\ FirstOrdinary(doc) \in 1 .. n
      /\ \A i \in 1 .. (FirstOrdinary(doc) - 1) : units[i].head = "directive"
      /\ \A i \in FirstOrdinary(doc) .. n : units[i].head # "directive"
  BY PrologueFirst
<1>5. ASSUME NEW k \in (p + 1) .. n PROVE units[k].decl = <<>>
  <2>1. FirstOrdinary(doc) \in Int
    BY <1>1, <1>4
  <2>2. k \in FirstOrdinary(doc) .. n /\ k \in DOMAIN units
    BY <1>1, <1>2, <1>3, <2>1
  <2> QED BY <1>4, <2>2 DEF Tame
<1>6. ASSUME NEW k \in 1 .. p PROVE units[k].head = "directive"
  BY <1>2, <1>4
<1>7. ASSUME NEW i \in 1 .. m
      PROVE  IsPiece(Pieces(doc, m, c)[i], units, p, c[i], c[i + 1])
  <2>1. i \in 1 .. (m + 1) /\ i + 1 \in 1 .. (m + 1)
    BY <1>2
  <2>2. PICK a \in Nat, b \in Nat : a = c[i] /\ b = c[i + 1] /\ a <= b /\ b <= n
    BY <1>1, <1>2, <2>1
  <2> DEFINE D == ToSet(units)
             q == SubSeq(units, 1, p)
             r == SubSeq(units, a + 1, b)
  <2> HIDE DEF D
  <2>3. /\ q \in Seq(D) /\ Len(q) = p
        /\ \A k \in 1 .. p : q[k] = units[k]
    <3>1. /\ SubSeq(units, 0 + 1, p) \in Seq(D) /\ Len(SubSeq(units, 0 + 1, p)) = p - 0
          /\ \A k \in 1 .. (p - 0) : SubSeq(units, 0 + 1, p)[k] = units[0 + k]
      <4>1. p \in Nat /\ 0 \in Nat /\ 0 <= p /\ p <= n /\ units \in Seq(D)
        BY <1>1, <1>3 DEF D
      <4> HIDE DEF p, units
      <4> QED BY <4>1, RunOfSeq DEF n
    <3>2. 0 + 1 = 1 /\ p - 0 = p /\ \A k \in 1 .. p : 0 + k = k
      BY <1>1, <1>3
    <3> QED BY <3>1, <3>2
  <2>4. /\ r \in Seq(D) /\ Len(r) = b - a
        /\ \A k \in 1 .. (b - a) : r[k] = units[a + k]
    <3>1. units \in Seq(D) /\ b <= Len(units) /\ a <= b
      BY <1>1, <2>2 DEF D
    <3> HIDE DEF units, r
    <3>2. /\ SubSeq(units, a + 1, b) \in Seq(D) /\ Len(SubSeq(units, a + 1, b)) = b - a
          /\ \A k \in 1 .. (b - a) : SubSeq(units, a + 1, b)[k] = units[a + k]
      BY <3>1, RunOfSeq
    <3> QED BY <3>2 DEF r
  <2>5. Pieces(doc, m, c)[i] = q \o r
    BY <2>2 DEF Pieces
  <2> HIDE DEF q, r, p, n, units
  <2> DEFINE t == q \o r
  <2>6. /\ t \in Seq(D) /\ Len(t) = p + (b - a)
        /\ \A k \in 1 .. (p + (b - a)) : t[k] = IF k <= p THEN q[k] ELSE r[k - p]
    <3>1. q \in Seq(D) /\ r \in Seq(D)
      BY <2>3, <2>4
    <3>2. /\ t \in Seq(D) /\ Len(t) = Len(q) + Len(r)
          /\ \A k \in 1 .. (Len(q) + Len(r)) :
                t[k] = IF k <= Len(q) THEN q[k] ELSE r[k - Len(q)]
      BY <3>1, ConcatProperties
    <3> HIDE DEF t
    <3> QED BY <2>3, <2>4, <3>2
  <2> HIDE DEF t
  <2>7. \A k \in 1 .. p : t[k] = units[k]
    <3>1. \A k \in 1 .. p : k \in 1 .. (p + (b - a)) /\ k <= p
      BY <1>1, <1>3, <2>2
    <3> QED BY <2>3, <2>6, <3>1
  <2>8. \A k \in 1 .. (b - a) : t[p + k] = units[a + k]
    <3>1. \A k \in 1 .. (b - a) : /\ p + k \in 1 .. (p + (b - a)) /\ ~(p + k <= p)
                                  /\ (p + k) - p = k
      BY <1>1, <1>3, <2>2
    <3> QED BY <2>4, <2>6, <3>1
  <2>9. IsPiece(t, units, p, a, b)
    BY <2>6, <2>7, <2>8 DEF IsPiece, D
  <2> QED BY <2>2, <2>5, <2>9 DEF t
<1>8. DOMAIN Pieces(doc, m, c) = 1 .. m
  BY DEF Pieces
<1> QED BY <1>1, <1>3, <1>5, <1>6, <1>7, <1>8

\* Each unit behind the prologue is in a piece.
LEMMA InSomePiece ==
    ASSUME NEW doc, DocOK(doc), NEW m, NEW c, CutAfter(doc, m, c),
           NEW k \in (c[1] + 1) .. Len(doc.units)
    PROVE  \E i \in 1 .. m : k \in (c[i] + 1) .. c[i + 1]
<1> DEFINE n == Len(doc.units)
           Past == {i \in 1 .. (m + 1) : k <= c[i]}
<1>1. /\ m \in Nat \ {0} /\ n \in Nat /\ c[m + 1] = n
      /\ \A i \in 1 .. (m + 1) : c[i] \in 0 .. n
  <2>1. n \in Nat
    BY EndsRise
  <2> QED BY <2>1 DEF CutAfter
<1>2. c[1] \in 0 .. n
  BY <1>1
<1>3. Past \in SUBSET Nat /\ Past # {}
  <2>1. m + 1 \in Past
    BY <1>1, <1>2
  <2> QED BY <1>1, <2>1
<1>4. PICK j \in Past : \A i \in Past : j <= i
  <2> HIDE DEF Past
  <2> QED BY <1>3, LeastNumber
<1>5. j # 1
  BY <1>1, <1>2
<1>6. j - 1 \in 1 .. m /\ (j - 1) + 1 = j /\ j - 1 \in 1 .. (m + 1) /\ ~(j <= j - 1)
  BY <1>1, <1>5
<1>7. j - 1 \notin Past
  <2> HIDE DEF Past
  <2> QED BY <1>4, <1>6
<1>8. ~(k <= c[j - 1]) /\ k <= c[j] /\ c[j - 1] \in 0 .. n /\ c[j] \in 0 .. n
  BY <1>1, <1>6, <1>7
<1>9. k \in Int
  BY <1>1, <1>2
<1>10. k \in (c[j - 1] + 1) .. c[(j - 1) + 1]
  BY <1>6, <1>8, <1>9
<1> QED BY <1>6, <1>10

\* A document without hidden declarations parses in pieces as it does whole.
LEMMA PiecesParse ==
    ASSUME NEW doc, DocOK(doc), Tame(doc), NEW want \in Nat
    PROVE  (\A i \in DOMAIN Texts(doc, want) : Parse(Texts(doc, want)[i]).ok)
               <=> Parse(doc.units).ok
<1>1. CASE ~IsSplit(doc, want) /\ Texts(doc, want) = <<doc.units>>
  BY <1>1
<1>2. CASE /\ IsSplit(doc, want) /\ MayBeSplit(doc, want)
           /\ \E m, c : CutAfter(doc, m, c) /\ Texts(doc, want) = Pieces(doc, m, c)
  <2> DEFINE units == doc.units
             n == Len(units)
             f == After(units)
  <2>1. PICK m, c : CutAfter(doc, m, c) /\ Texts(doc, want) = Pieces(doc, m, c)
    BY <1>2
  <2> DEFINE p == c[1]
             t == Pieces(doc, m, c)
  <2>2. /\ units \in Seq(ToSet(units)) /\ n \in Nat /\ p \in 0 .. n
        /\ \A k \in (p + 1) .. n : units[k].decl = <<>>
        /\ DOMAIN t = 1 .. m
        /\ \A i \in 1 .. m : IsPiece(t[i], units, p, c[i], c[i + 1])
    BY <1>2, <2>1, PiecesAre
  <2>3. /\ m \in Nat \ {0}
        /\ \A i \in 1 .. m : c[i] \in 0 .. n /\ c[i + 1] \in 0 .. n /\ p <= c[i] /\ c[i] <= c[i + 1]
    BY <2>1, CutsBehind DEF n, units
  <2> HIDE DEF t, p, n
  <2>4. Parse(units).ok <=> f[p].ok /\ \A k \in (p + 1) .. n : Fine(units[k], f[p].env)
    <3>1. Parse(units) = f[n]
      BY <2>2, TextRead DEF n
    <3>2. n \in p .. n
      BY <2>2
    <3> HIDE DEF f, units
    <3> QED BY <2>2, <3>1, <3>2, ReadOn DEF f, n
  <2>5. ASSUME NEW i \in 1 .. m
        PROVE  Parse(t[i]).ok <=> /\ f[p].ok
                                  /\ \A k \in (c[i] + 1) .. c[i + 1] : Fine(units[k], f[p].env)
    <3> DEFINE g == After(t[i])
               a == c[i]
               b == c[i + 1]
               l == Len(t[i])
    <3>1. /\ t[i] \in Seq(ToSet(units)) /\ l = p + (b - a)
          /\ \A k \in 1 .. p : t[i][k] = units[k]
          /\ \A k \in 1 .. (b - a) : t[i][p + k] = units[a + k]
      BY <2>2 DEF IsPiece
    <3>2. a \in 0 .. n /\ b \in 0 .. n /\ a <= b /\ p <= a
      BY <2>3
    <3> HIDE DEF a, b, g, l, units
    <3>3. l \in Nat /\ p \in 0 .. l /\ l \in p .. l /\ p \in Nat /\ p <= n
      BY <2>2, <3>1, <3>2
    <3>4. Parse(t[i]) = g[l]
      BY <3>1, TextRead DEF g, l
    <3>5. g[p] = f[p]
      <4>1. p \in 0 .. p
        BY <3>3
      <4>2. \A k \in 0 .. p : g[k] = f[k]
        BY <2>2, <3>1, <3>3, StartAlike DEF g, l, n
      <4> QED BY <4>1, <4>2
    <3>6. \A k \in (p + 1) .. l : k - p \in 1 .. (b - a) /\ p + (k - p) = k
      BY <2>2, <3>1, <3>2
    <3>7. \A k \in (p + 1) .. l : t[i][k] = units[a + (k - p)]
      BY <3>1, <3>6
    <3>8. \A k \in (p + 1) .. l : a + (k - p) \in (a + 1) .. b /\ a + (k - p) \in (p + 1) .. n
      BY <2>2, <3>2, <3>6
    <3>9. \A k \in (p + 1) .. l : t[i][k].decl = <<>>
      BY <2>2, <3>7, <3>8
    <3>10. g[l].ok <=> g[p].ok /\ \A k \in (p + 1) .. l : Fine(t[i][k], g[p].env)
      BY <3>1, <3>3, <3>9, ReadOn DEF g, l
    <3>11. (\A k \in (p + 1) .. l : Fine(t[i][k], f[p].env))
             <=> \A k \in (a + 1) .. b : Fine(units[k], f[p].env)
      <4>1. ASSUME NEW k \in (a + 1) .. b
            PROVE  \E j \in (p + 1) .. l : t[i][j] = units[k]
        <5>1. p + (k - a) \in (p + 1) .. l /\ a + ((p + (k - a)) - p) = k
          BY <2>2, <3>1, <3>2
        <5> QED BY <3>7, <5>1
      <4> QED BY <3>7, <3>8, <4>1
    <3> QED BY <3>4, <3>5, <3>10, <3>11 DEF a, b
  <2>6. ASSUME NEW k \in (p + 1) .. n
        PROVE  \E i \in 1 .. m : k \in (c[i] + 1) .. c[i + 1]
    BY <2>1, InSomePiece DEF p, n
  <2>7. \A i \in 1 .. m : \A k \in (c[i] + 1) .. c[i + 1] : k \in (p + 1) .. n
    BY <2>2, <2>3
  <2>8. 1 \in 1 .. m
    BY <2>3
  <2> HIDE DEF f, units
  <2>9. (\A i \in 1 .. m : Parse(t[i]).ok) <=> Parse(units).ok
    BY <2>4, <2>5, <2>6, <2>7, <2>8
  <2> QED BY <2>1, <2>2, <2>9 DEF t, units
<1> QED BY <1>1, <1>2, TextsAre

\* The texts of a document are sequences, and what is made of each is known.
LEMMA TextsKnown ==
    ASSUME NEW doc, DocOK(doc), Tame(doc), NEW want \in Nat
    PROVE  /\ Texts(doc, want) \in Seq(ToSet(Texts(doc, want)))
           /\ Texts(doc, want) # <<>>
           /\ \A i \in DOMAIN Texts(doc, want) : Knows(Parse(Texts(doc, want)[i]))
<1> DEFINE texts == Texts(doc, want)
           D == ToSet(doc.units)
<1>1. ASSUME NEW t \in Seq(D) PROVE Knows(Parse(t))
  <2>1. Len(t) \in Nat /\ Parse(t) = After(t)[Len(t)]
        /\ \A i \in 0 .. Len(t) : Knows(After(t)[i])
    <3> HIDE DEF D
    <3> QED BY TextRead
  <2>2. Len(t) \in 0 .. Len(t)
    BY <2>1
  <2> QED BY <2>1, <2>2
<1>2. \E m \in Nat \ {0} : DOMAIN texts = 1 .. m /\ texts \in [1 .. m -> Seq(D)]
  <2>1. CASE texts = <<doc.units>>
    <3>1. doc.units \in Seq(D)
      BY DEF DocOK, IsSeq
    <3> HIDE DEF D, texts
    <3>2. DOMAIN texts = 1 .. 1 /\ texts \in [1 .. 1 -> Seq(D)]
      BY <2>1, <3>1
    <3> QED BY <3>2
  <2>2. CASE /\ IsSplit(doc, want) /\ MayBeSplit(doc, want)
             /\ \E m, c : CutAfter(doc, m, c) /\ texts = Pieces(doc, m, c)
    <3>1. PICK m, c : CutAfter(doc, m, c) /\ texts = Pieces(doc, m, c)
      BY <2>2
    <3>2. /\ DOMAIN texts = 1 .. m
          /\ \A i \in 1 .. m : IsPiece(texts[i], doc.units, c[1], c[i], c[i + 1])
      BY <2>2, <3>1, PiecesAre
    <3>3. m \in Nat \ {0}
      BY <3>1 DEF CutAfter
    <3>4. \A i \in 1 .. m : texts[i] \in Seq(D)
      BY <3>2 DEF IsPiece
    <3>5. texts = [i \in 1 .. m |-> texts[i]]
      BY <3>1 DEF Pieces
    <3> HIDE DEF texts, D
    <3> QED BY <3>2, <3>3, <3>4, <3>5
  <2> QED BY <2>1, <2>2, TextsAre
<1> HIDE DEF texts, D
<1>3. PICK m \in Nat \ {0} : DOMAIN texts = 1 .. m /\ texts \in [1 .. m -> Seq(D)]
  BY <1>2
<1>4. texts \in Seq(Seq(D)) /\ Len(texts) = m
  BY <1>3, FunctionIsSeq
<1>5. texts \in Seq(ToSet(texts))
  BY <1>4, MembersOfSeq
<1>6. texts # <<>>
  BY <1>3, <1>4
<1>7. \A i \in DOMAIN texts : Knows(Parse(texts[i]))
  BY <1>1, <1>3
<1> QED BY <1>5, <1>6, <1>7 DEF texts

\* The documents of a run.
JobsRight(js) ==
    /\ Len(js) \in Nat /\ DOMAIN js = 1 .. Len(js) /\ 1 \in DOMAIN js
    /\ \A j \in DOMAIN js : DocOK(js[j].doc)

\* They are those of the inputs.
LEMMA JobsOfInput ==
    ASSUME NEW input \in Inputs
    PROVE  JobsRight(JobsFor("data", input.data) \o JobsFor("shapes", input.shapes))
<1> DEFINE Made(for, docs) ==
              {[doc |-> docs[i], scope |-> ScopeOf(for, Len(docs), i), for |-> for] :
                  i \in DOMAIN docs}
           S == Made("data", input.data) \cup Made("shapes", input.shapes)
           d == JobsFor("data", input.data)
           s == JobsFor("shapes", input.shapes)
<1>1. /\ input.data \in Seq(ToSet(input.data)) /\ input.shapes \in Seq(ToSet(input.shapes))
      /\ input.data # <<>>
      /\ \A doc \in ToSet(input.data) \cup ToSet(input.shapes) : DocOK(doc)
  BY InputsAssumption DEF IsSeq
<1>2. ASSUME NEW for, NEW docs, docs \in Seq(ToSet(docs)),
             \A doc \in ToSet(docs) : DocOK(doc)
      PROVE  /\ JobsFor(for, docs) \in Seq(Made(for, docs))
             /\ Len(JobsFor(for, docs)) = Len(docs) /\ Len(docs) \in Nat
             /\ \A job \in Made(for, docs) : DocOK(job.doc)
  <2>1. Len(docs) \in Nat /\ DOMAIN docs = 1 .. Len(docs)
        /\ \A i \in 1 .. Len(docs) : docs[i] \in ToSet(docs)
    BY <1>2, LenProperties, ElementOfSeq
  <2>2. JobsFor(for, docs) \in [1 .. Len(docs) -> Made(for, docs)]
    BY <2>1 DEF JobsFor
  <2>3. \A job \in Made(for, docs) : DocOK(job.doc)
    BY <1>2, <2>1
  <2> HIDE DEF Made
  <2> QED BY <2>1, <2>2, <2>3, FunctionIsSeq
<1>3. d \in Seq(S) /\ s \in Seq(S) /\ Len(d) = Len(input.data) /\ Len(s) \in Nat
      /\ Len(d) \in Nat /\ \A job \in S : DocOK(job.doc)
  <2>1. /\ d \in Seq(Made("data", input.data)) /\ Len(d) = Len(input.data)
        /\ Len(input.data) \in Nat /\ \A job \in Made("data", input.data) : DocOK(job.doc)
    BY <1>1, <1>2
  <2>2. /\ s \in Seq(Made("shapes", input.shapes)) /\ Len(s) = Len(input.shapes)
        /\ Len(input.shapes) \in Nat
        /\ \A job \in Made("shapes", input.shapes) : DocOK(job.doc)
    BY <1>1, <1>2
  <2> HIDE DEF Made, d, s
  <2>3. d \in Seq(S) /\ s \in Seq(S)
    BY <2>1, <2>2
  <2> QED BY <2>1, <2>2, <2>3
<1>4. Len(input.data) # 0
  BY <1>1, EmptySeq
<1> HIDE DEF d, s, S
<1>5. Len(d) >= 1
  <2>1. Len(d) \in Nat /\ Len(d) # 0
    BY <1>3, <1>4
  <2> QED BY <2>1
<1>6. /\ d \o s \in Seq(S) /\ DOMAIN (d \o s) = 1 .. (Len(d) + Len(s))
  <2>1. d \in Seq(S) /\ s \in Seq(S)
    BY <1>3
  <2> HIDE DEF Made
  <2> QED BY <2>1, PlacesOfBoth
<1>7. Len(d \o s) \in Nat /\ DOMAIN (d \o s) = 1 .. Len(d \o s)
      /\ \A i \in DOMAIN (d \o s) : (d \o s)[i] \in S
  BY <1>6, LenProperties, ElementOfSeq
<1>8. 1 \in DOMAIN (d \o s)
  BY <1>3, <1>5, <1>6
<1> QED BY <1>3, <1>7, <1>8 DEF JobsRight, d, s

-----------------------------------------------------------------------------
(* The theorems. *)

\* The inductive invariant.
LoadInvariant ==
    /\ StoreRight(store)
    /\ rows \in Seq(Row) /\ merged \in Seq(Row)
    /\ \A for \in DOMAIN graphs : Indexed(graphs[for])

\* The two together: a store that is right, rows of its ids and graphs in order.
THEOREM LoadIsRight == Spec => []LoadInvariant
<1>1. Init => LoadInvariant
  <2> SUFFICES ASSUME Init PROVE LoadInvariant
    OBVIOUS
  <2>1. StoreRight(store)
    BY FreshRight DEF Init
  <2>2. rows \in Seq(Row) /\ merged \in Seq(Row)
    BY DEF Init
  <2>3. DOMAIN graphs = {}
    BY DEF Init
  <2> QED BY <2>1, <2>2, <2>3 DEF LoadInvariant
<1>2. LoadInvariant /\ [Next]_vars => LoadInvariant'
  <2> SUFFICES ASSUME LoadInvariant, [Next]_vars PROVE LoadInvariant'
    OBVIOUS
  <2> USE DEF LoadInvariant
  <2>1. CASE ReadDocument
    BY <2>1 DEF ReadDocument
  <2>2. CASE \E i \in DOMAIN chunks : ParseChunk(i)
    BY <2>2 DEF ParseChunk
  <2>3. CASE MergeFails
    BY <2>3 DEF MergeFails
  <2>4. CASE ChunkDone
    BY <2>4 DEF ChunkDone
  <2>5. CASE InternNext
    <3> DEFINE terms == Head(parsed[NextChunk].triples)
               made == InternThree(InternTerm, store, terms, ChunkScope(NextChunk))
    <3>1. store' = made.store /\ rows' = Append(rows, made.row)
          /\ UNCHANGED <<merged, graphs>>
      BY <2>5 DEF InternNext
    <3>2. RowEntered(made)
      BY ThreeEntered
    <3> HIDE DEF made
    <3>3. StoreRight(store') /\ rows' \in Seq(Row)
      BY <3>1, <3>2, AppendProperties DEF RowEntered
    <3> QED BY <3>1, <3>3
  <2>6. CASE FinishDocument
    <3> DEFINE graph == Built(rows)
               both == merged \o graph.spo
    <3>1. Indexed(graph) /\ both \in Seq(Row)
      <4>1. Indexed(graph)
        BY BuiltIsIndexed
      <4> HIDE DEF graph
      <4> QED BY <4>1, ConcatProperties DEF Indexed
    <3>2. Indexed(Built(both))
      BY <3>1, BuiltIsIndexed
    <3>3. UNCHANGED store /\ rows' = <<>>
      BY <2>6 DEF FinishDocument
    <3>4. CASE LastOfGraph
      <4> DEFINE whole == IF merged = <<>> THEN graph ELSE Built(both)
      <4>1. merged' = <<>> /\ graphs' = With(graphs, Job.for, whole)
        BY <2>6, <3>4 DEF FinishDocument
      <4>2. Indexed(whole)
        BY <3>1, <3>2
      <4> HIDE DEF whole
      <4>3. \A for \in DOMAIN graphs' : Indexed(graphs'[for])
        BY <4>1, <4>2 DEF With
      <4> QED BY <3>3, <4>1, <4>3
    <3>5. CASE ~LastOfGraph
      <4>1. merged' = both /\ UNCHANGED graphs
        BY <2>6, <3>5 DEF FinishDocument
      <4> HIDE DEF both
      <4> QED BY <3>1, <3>3, <4>1
    <3> QED BY <3>4, <3>5
  <2>7. CASE UNCHANGED vars
    BY <2>7 DEF vars
  <2> QED BY <2>1, <2>2, <2>3, <2>4, <2>5, <2>6, <2>7 DEF Next
<1> QED BY <1>1, <1>2, PTL DEF Spec

\* Every lookup in a graph that is complete, of any two ids, finds in the order
\* it searches what the triples say, in order and each once.
THEOREM LookupsFind == Spec => []LookupsAgree
<1>1. LoadInvariant => LookupsAgree
  <2> SUFFICES ASSUME LoadInvariant, NEW for \in DOMAIN graphs, NEW a \in Ids
               PROVE  FindsOf(graphs[for], a) /\ \A b \in Ids : FindsOfBoth(graphs[for], a, b)
    BY DEF LookupsAgree
  <2>1. Ids \subseteq Nat
    BY DEF Ids
  <2>2. Indexed(graphs[for])
    BY DEF LoadInvariant
  <2> QED BY <2>1, <2>2, LookupsOfOne, LookupsOfTwo
<1> QED BY <1>1, LoadIsRight, PTL

\* A store that goes through the index file comes back as it was, with each of
\* its terms found at its own id.
THEOREM RestoresTheStore == Spec => []RestoredIsSame
<1>1. LoadInvariant => RestoredIsSame
  <2> SUFFICES ASSUME LoadInvariant PROVE RestoredIsSame
    OBVIOUS
  <2>1. FromParts(Parts(store)) = store
    BY TablesAgain DEF LoadInvariant
  <2>2. \A i \in DOMAIN store.terms : LookedUp(store, i) = {i}
    BY AllFound DEF LoadInvariant
  <2> QED BY <2>1, <2>2 DEF RestoredIsSame
<1> QED BY <1>1, LoadIsRight, PTL

\* What the workers make, and what is merged, of the document at hand.
Cut == Texts(Job.doc, threads)
Understood(i) == Knows(parsed[i]) /\ parsed[i].ok = Parse(Cut[i]).ok
Parsing ==
    /\ chunks = Cut /\ DOMAIN parsed \subseteq DOMAIN Cut
    /\ \A i \in DOMAIN parsed : Understood(i)
InMerge ==
    /\ chunks \in Seq(ToSet(Cut)) /\ Len(chunks) <= Len(Cut)
    /\ DOMAIN parsed = 1 .. Len(Cut) /\ IsTable(parsed)
    /\ \A i \in DOMAIN parsed : Understood(i)
    /\ \A i \in 1 .. (Len(Cut) - Len(chunks)) : parsed[i].ok

\* The inductive invariant: the documents before the one at hand parse, and of
\* it each chunk that is merged did.
ParseInvariant ==
    /\ JobsRight(jobs) /\ threads \in Nat /\ at \in DOMAIN jobs
    /\ AllTame =>
          /\ \A j \in DOMAIN jobs : j < at => Said(j).ok
          /\ pc = "read" => parsed = <<>>
          /\ pc = "parse" => Parsing
          /\ pc = "merge" => InMerge
          /\ pc = "failed" => ~Said(at).ok
          /\ pc = "done" => \A j \in DOMAIN jobs : Said(j).ok

\* It holds throughout.
LEMMA ParseIsRight == Spec => []ParseInvariant
<1>1. Init => ParseInvariant
  <2> SUFFICES ASSUME Init PROVE ParseInvariant
    OBVIOUS
  <2>1. PICK input \in Inputs :
           jobs = JobsFor("data", input.data) \o JobsFor("shapes", input.shapes)
    BY DEF Init
  <2>2. JobsRight(jobs)
    BY <2>1, JobsOfInput
  <2>3. threads \in Nat /\ at = 1 /\ pc = "read" /\ parsed = <<>>
    BY ThreadsAssumption DEF Init
  <2>4. \A j \in DOMAIN jobs : ~(j < at)
    BY <2>2, <2>3 DEF JobsRight
  <2> QED BY <2>2, <2>3, <2>4 DEF ParseInvariant, JobsRight
<1>2. ParseInvariant /\ [Next]_vars => ParseInvariant'
  <2> SUFFICES ASSUME ParseInvariant, [Next]_vars PROVE ParseInvariant'
    OBVIOUS
  <2>1. /\ JobsRight(jobs) /\ threads \in Nat /\ at \in DOMAIN jobs
        /\ Len(jobs) \in Nat /\ DOMAIN jobs = 1 .. Len(jobs)
        /\ \A j \in DOMAIN jobs : DocOK(jobs[j].doc)
    BY DEF ParseInvariant, JobsRight
  <2>2. UNCHANGED <<jobs, threads>>
    BY DEF Next, vars, ReadDocument, ParseChunk, MergeFails, InternNext, ChunkDone,
           FinishDocument
  <2>3. at' \in DOMAIN jobs
    <3>1. CASE FinishDocument
      <4>1. at' = at \/ (at # Len(jobs) /\ at' = at + 1)
        BY <3>1 DEF FinishDocument
      <4> QED BY <2>1, <4>1
    <3>2. CASE UNCHANGED at
      BY <2>1, <3>2
    <3> QED BY <3>1, <3>2 DEF Next, vars, ReadDocument, ParseChunk, MergeFails, InternNext,
                             ChunkDone
  <2>4. AllTame' <=> AllTame
    BY <2>2 DEF AllTame
  <2>5. \A j : Said(j)' = Said(j)
    BY <2>2 DEF Said
  <2>6. SUFFICES ASSUME AllTame
                 PROVE  /\ \A j \in DOMAIN jobs : j < at' => Said(j).ok
                        /\ pc' = "read" => parsed' = <<>>
                        /\ pc' = "parse" => Parsing'
                        /\ pc' = "merge" => InMerge'
                        /\ pc' = "failed" => ~Said(at').ok
                        /\ pc' = "done" => \A j \in DOMAIN jobs : Said(j).ok
    <3>1. JobsRight(jobs') /\ threads' \in Nat /\ at' \in DOMAIN jobs'
      BY <2>1, <2>2, <2>3
    <3>2. Said(at)' = Said(at')
      BY <2>2 DEF Said
    <3> QED BY <2>2, <2>4, <2>5, <2>6, <3>1, <3>2 DEF ParseInvariant
  <2>7. /\ \A j \in DOMAIN jobs : j < at => Said(j).ok
        /\ pc = "read" => parsed = <<>>
        /\ pc = "parse" => Parsing
        /\ pc = "merge" => InMerge
        /\ pc = "failed" => ~Said(at).ok
        /\ pc = "done" => \A j \in DOMAIN jobs : Said(j).ok
    BY <2>6 DEF ParseInvariant
  <2>8. DocOK(Job.doc) /\ Tame(Job.doc)
    BY <2>1, <2>6 DEF Job, AllTame
  <2>9. /\ Cut \in Seq(ToSet(Cut)) /\ Cut # <<>>
        /\ Len(Cut) \in Nat \ {0} /\ DOMAIN Cut = 1 .. Len(Cut)
        /\ \A i \in DOMAIN Cut : Knows(Parse(Cut[i]))
    <3>1. /\ Cut \in Seq(ToSet(Cut)) /\ Cut # <<>>
          /\ \A i \in DOMAIN Cut : Knows(Parse(Cut[i]))
      BY <2>1, <2>8, TextsKnown DEF Cut
    <3> QED BY <3>1, LenProperties, EmptySeq
  <2>10. (\A i \in DOMAIN Cut : Parse(Cut[i]).ok) <=> Said(at).ok
    BY <2>1, <2>8, PiecesParse DEF Cut, Said, Job
  <2>11. at' = at => Cut' = Cut
    BY <2>2 DEF Cut, Job
  <2>12. ASSUME pc = "merge"
         PROVE  /\ InMerge /\ Len(parsed) = Len(Cut) /\ Len(chunks) \in Nat
                /\ chunks # <<>> => NextChunk \in DOMAIN Cut
    <3>1. InMerge
      BY <2>7, <2>12
    <3>2. parsed = [i \in 1 .. Len(Cut) |-> parsed[i]]
      BY <3>1 DEF InMerge, IsTable
    <3>3. Len(parsed) = Len(Cut)
      <4>1. parsed \in [1 .. Len(Cut) -> {parsed[i] : i \in 1 .. Len(Cut)}]
        BY <3>2
      <4> QED BY <2>9, <4>1, FunctionIsSeq
    <3>4. Len(chunks) \in Nat /\ (chunks # <<>> => Len(chunks) # 0)
      BY <3>1, LenProperties, EmptySeq DEF InMerge
    <3>5. Len(chunks) <= Len(Cut)
      BY <3>1 DEF InMerge
    <3> QED BY <2>9, <3>1, <3>3, <3>4, <3>5 DEF NextChunk
  <2>13. CASE ReadDocument
    <3>1. /\ pc = "read" /\ pc' = "parse" /\ chunks' = Cut /\ UNCHANGED <<at, parsed>>
      BY <2>13 DEF ReadDocument, Cut
    <3>2. parsed' = <<>> /\ DOMAIN parsed' = {}
      BY <2>7, <3>1
    <3>3. Parsing'
      BY <2>11, <3>1, <3>2 DEF Parsing
    <3> QED BY <2>7, <3>1, <3>3
  <2>14. CASE \E i \in DOMAIN chunks : ParseChunk(i)
    <3>1. PICK i \in DOMAIN chunks : ParseChunk(i)
      BY <2>14
    <3>2. /\ pc = "parse" /\ pc' = IF DOMAIN parsed' = DOMAIN chunks THEN "merge" ELSE pc
          /\ parsed' = With(parsed, i, Parse(chunks[i])) /\ UNCHANGED <<at, chunks>>
      BY <3>1 DEF ParseChunk
    <3>3. /\ chunks = Cut /\ DOMAIN parsed \subseteq DOMAIN Cut
          /\ \A j \in DOMAIN parsed : Understood(j)
      BY <2>7, <3>2 DEF Parsing
    <3>4. /\ DOMAIN parsed' = DOMAIN parsed \cup {i}
          /\ parsed'[i] = Parse(Cut[i])
          /\ \A j \in DOMAIN parsed : j # i => parsed'[j] = parsed[j]
          /\ IsTable(parsed)'
      BY <3>2, <3>3 DEF With, IsTable
    <3>5. Cut' = Cut /\ i \in DOMAIN Cut
      BY <2>11, <3>2, <3>3
    <3>6. ASSUME NEW j \in DOMAIN parsed' PROVE Understood(j)'
      <4>1. CASE j = i
        BY <2>9, <3>4, <3>5, <4>1 DEF Understood
      <4>2. CASE j # i
        BY <3>3, <3>4, <3>5, <4>2 DEF Understood
      <4> QED BY <4>1, <4>2
    <3>7. Parsing'
      <4>1. chunks' = Cut' /\ DOMAIN parsed' \subseteq DOMAIN Cut'
        BY <3>2, <3>3, <3>4, <3>5
      <4> QED BY <3>6, <4>1 DEF Parsing
    <3>8. pc' = "merge" => InMerge'
      <4>1. SUFFICES ASSUME pc' = "merge" PROVE InMerge'
        OBVIOUS
      <4>2. DOMAIN parsed' = DOMAIN chunks
        BY <3>2, <4>1
      <4>3. chunks' = Cut' /\ Cut' \in Seq(ToSet(Cut')) /\ Len(Cut') \in Nat
            /\ DOMAIN parsed' = 1 .. Len(Cut')
        BY <2>9, <3>2, <3>3, <3>5, <4>2
      <4>4. chunks' \in Seq(ToSet(Cut')) /\ Len(chunks') <= Len(Cut')
            /\ 1 .. (Len(Cut') - Len(chunks')) = {}
        BY <4>3
      <4> QED BY <3>4, <3>6, <4>3, <4>4 DEF InMerge
    <3> QED BY <2>7, <3>2, <3>7, <3>8
  <2>15. CASE MergeFails
    <3>1. /\ pc = "merge" /\ chunks # <<>> /\ ~parsed[NextChunk].ok /\ pc' = "failed"
          /\ UNCHANGED at
      BY <2>15 DEF MergeFails, Merging
    <3>2. NextChunk \in DOMAIN Cut /\ Understood(NextChunk)
      BY <2>9, <2>12, <3>1 DEF InMerge
    <3>3. ~Parse(Cut[NextChunk]).ok
      BY <3>1, <3>2 DEF Understood
    <3>4. ~Said(at).ok
      BY <2>10, <3>2, <3>3
    <3> QED BY <2>7, <3>1, <3>4
  <2>16. CASE InternNext
    <3> DEFINE n == NextChunk
               less == [parsed[n] EXCEPT !.triples = Tail(@)]
    <3>1. /\ pc = "merge" /\ chunks # <<>> /\ UNCHANGED <<pc, at, chunks>>
          /\ parsed' = [parsed EXCEPT ![n].triples = Tail(@)]
      BY <2>16 DEF InternNext, Merging
    <3>2. InMerge /\ n \in DOMAIN parsed /\ Understood(n) /\ Cut' = Cut
      BY <2>9, <2>11, <2>12, <3>1 DEF InMerge
    <3> HIDE DEF n
    <3>3. Knows(less) /\ less.ok = parsed[n].ok
      <4>1. /\ parsed[n] = [field \in {"ok", "env", "made", "triples"} |-> parsed[n][field]]
            /\ parsed[n].ok \in BOOLEAN
        BY <3>2 DEF Understood, Knows
      <4>2. less = [field \in {"ok", "env", "made", "triples"} |->
                      IF field = "triples" THEN Tail(parsed[n].triples) ELSE parsed[n][field]]
        BY <4>1
      <4> HIDE DEF less
      <4>3. less.ok = parsed[n].ok
        BY <4>2
      <4>4. less = [field \in {"ok", "env", "made", "triples"} |-> less[field]]
        BY <4>2
      <4> QED BY <4>1, <4>3, <4>4 DEF Knows
    <3>4. /\ DOMAIN parsed' = DOMAIN parsed /\ IsTable(parsed)'
          /\ parsed'[n] = less /\ \A j \in DOMAIN parsed : j # n => parsed'[j] = parsed[j]
      <4>1. parsed' = [j \in DOMAIN parsed |-> IF j = n THEN less ELSE parsed[j]]
        BY <3>1
      <4> HIDE DEF less
      <4> QED BY <3>2, <4>1 DEF IsTable
    <3> HIDE DEF less
    <3>5. \A j \in DOMAIN parsed : parsed'[j].ok = parsed[j].ok /\ Understood(j)'
      <4> SUFFICES ASSUME NEW j \in DOMAIN parsed
                   PROVE  parsed'[j].ok = parsed[j].ok /\ Understood(j)'
        OBVIOUS
      <4>1. Understood(j)
        BY <3>2 DEF InMerge
      <4>2. CASE j = n
        BY <3>2, <3>3, <3>4, <4>1, <4>2 DEF Understood
      <4>3. CASE j # n
        BY <3>2, <3>4, <4>1, <4>3 DEF Understood
      <4> QED BY <4>2, <4>3
    <3>6. InMerge'
      <4>1. \A j \in 1 .. (Len(Cut) - Len(chunks)) : j \in DOMAIN parsed /\ parsed[j].ok
        BY <2>9, <2>12, <3>1, <3>2 DEF InMerge
      <4> QED BY <3>1, <3>2, <3>4, <3>5, <4>1 DEF InMerge
    <3> QED BY <2>7, <3>1, <3>6
  <2>17. CASE ChunkDone
    <3>1. /\ pc = "merge" /\ chunks # <<>> /\ parsed[NextChunk].ok /\ chunks' = Tail(chunks)
          /\ UNCHANGED <<pc, at, parsed>>
      BY <2>17 DEF ChunkDone, Merging
    <3>2. InMerge /\ Len(parsed) = Len(Cut) /\ Len(chunks) \in Nat /\ Cut' = Cut
      BY <2>11, <2>12, <3>1
    <3>3. chunks' \in Seq(ToSet(Cut)) /\ Len(chunks') = Len(chunks) - 1
      BY <3>1, <3>2, HeadTailProperties DEF InMerge
    <3>4. \A j \in 1 .. (Len(Cut) - Len(chunks')) : parsed[j].ok
      <4>1. \A j \in 1 .. (Len(Cut) - Len(chunks')) :
               j \in 1 .. (Len(Cut) - Len(chunks)) \/ j = NextChunk
        BY <2>9, <3>2, <3>3 DEF NextChunk
      <4> QED BY <3>1, <3>2, <4>1 DEF InMerge
    <3>5. Len(chunks') <= Len(Cut)
      BY <2>9, <3>2, <3>3 DEF InMerge
    <3>6. \A j \in DOMAIN parsed : Understood(j)'
      BY <3>1, <3>2 DEF InMerge, Understood
    <3>7. InMerge'
      BY <3>1, <3>2, <3>3, <3>4, <3>5, <3>6 DEF InMerge, IsTable
    <3> QED BY <2>7, <3>1, <3>7
  <2>18. CASE FinishDocument
    <3>1. /\ pc = "merge" /\ chunks = <<>> /\ parsed' = <<>>
          /\ \/ at = Len(jobs) /\ pc' = "done" /\ at' = at
             \/ at # Len(jobs) /\ pc' = "read" /\ at' = at + 1
      BY <2>18 DEF FinishDocument
    <3>2. Said(at).ok
      <4>1. InMerge /\ Len(chunks) = 0
        BY <2>12, <3>1, EmptySeq
      <4>2. \A i \in DOMAIN Cut : Understood(i) /\ parsed[i].ok
        BY <2>9, <4>1 DEF InMerge
      <4> QED BY <2>10, <4>2 DEF Understood
    <3>3. \A j \in DOMAIN jobs : j <= at => Said(j).ok
      <4>1. \A j \in DOMAIN jobs : j <= at => j < at \/ j = at
        BY <2>1
      <4> QED BY <2>7, <3>2, <4>1
    <3>4. CASE at = Len(jobs) /\ pc' = "done" /\ at' = at
      BY <2>1, <2>7, <3>3, <3>4
    <3>5. CASE at # Len(jobs) /\ pc' = "read" /\ at' = at + 1
      <4>1. \A j \in DOMAIN jobs : j < at' => j <= at
        BY <2>1, <3>5
      <4> QED BY <3>1, <3>3, <3>5, <4>1
    <3> QED BY <3>1, <3>4, <3>5
  <2>19. CASE UNCHANGED vars
    <3>1. UNCHANGED <<pc, at, chunks, parsed>> /\ Cut' = Cut
      BY <2>11, <2>19 DEF vars
    <3>2. (Parsing => Parsing') /\ (InMerge => InMerge')
      BY <3>1 DEF Parsing, InMerge, Understood, IsTable
    <3> QED BY <2>7, <3>1, <3>2
  <2> QED BY <2>13, <2>14, <2>15, <2>16, <2>17, <2>18, <2>19 DEF Next
<1> QED BY <1>1, <1>2, PTL DEF Spec

\* The run fails exactly at a document that does not parse as a whole.
THEOREM FailsRight == Spec => []FailsAsWritten
<1>1. ParseInvariant => FailsAsWritten
  BY DEF ParseInvariant, FailsAsWritten
<1> QED BY <1>1, ParseIsRight, PTL

-----------------------------------------------------------------------------
(* What a store stands for: the terms that have been met, in their order. *)

\* What a term of a store says; N has the blank node of each scope and label.
IriMeans(st, t, r) == t.kind = "iri" /\ r = Iri(st.strings[t.s])
BlankMeans(st, N, t, r) ==
    /\ t.kind = "blank"
    /\ \E key \in DOMAIN st.blankNumbers :
          /\ st.strings[t.s] = <<"b", key[1], st.blankNumbers[key]>>
          /\ r = [t |-> "blank", label |-> N[key]]
LiteralMeans(st, t, r) ==
    /\ t.kind = "literal"
    /\ r = [t |-> "literal", lex |-> st.strings[t.s],
            datatype |-> st.strings[st.terms[t.datatype].s],
            lang |-> IF t.lang = <<>> THEN <<>> ELSE <<st.strings[t.lang[1]]>>, dir |-> t.dir]
TripleMeans(st, met, t, r) ==
    /\ t.kind = "triple"
    /\ \A c \in 1 .. 3 : st.tripleTerms[t.i][c] \in DOMAIN met
    /\ r = [t |-> "triple", parts |-> [c \in 1 .. 3 |-> met[st.tripleTerms[t.i][c]]]]
Means(st, N, met, t, r) ==
    \/ IriMeans(st, t, r) \/ BlankMeans(st, N, t, r)
    \/ LiteralMeans(st, t, r) \/ TripleMeans(st, met, t, r)

\* Each label has a number of its own, the next one for a new label.
Numbered(st, N) ==
    /\ IsTable(st.blankNumbers) /\ IsFiniteSet(DOMAIN st.blankNumbers)
    /\ DOMAIN st.blankNumbers \subseteq DOMAIN N
    /\ \A key \in DOMAIN st.blankNumbers :
          /\ key = <<key[1], key[2]>>
          /\ st.blankNumbers[key] \in Nat
          /\ st.blankNumbers[key] < Cardinality(DOMAIN st.blankNumbers)
    /\ Distinct(st.blankNumbers)

\* The id of a term is its place in what has been met.
Shows(st, N, met) ==
    /\ StoreRight(st) /\ Numbered(st, N)
    /\ \A k \in DOMAIN st.tripleTerms : st.tripleTerms[k] \in Row
    /\ IsList(met) /\ Distinct(met) /\ DOMAIN met = DOMAIN st.terms
    /\ \A i \in DOMAIN met : Means(st, N, met, st.terms[i], met[i])
ShownAs(found, N, met, r) ==
    Shows(found.store, N, met) /\ found.id \in DOMAIN met /\ met[found.id] = r

\* What was met before is met where it was.
LEMMA MeetAgain ==
    ASSUME NEW met, NEW i \in DOMAIN met
    PROVE  Meet(met, met[i]) = met
BY DEF Meet, ToSet

\* A term means the same as the store grows.
LEMMA MeansStill ==
    ASSUME NEW st, StoreRight(st), NEW N, NEW met, NEW more, NEW after,
           Grows(st.strings, more.strings), Grows(st.tripleTerms, more.tripleTerms),
           Grows(st.terms, more.terms), Grows(st.blankNumbers, more.blankNumbers),
           Grows(met, after),
           NEW t, \E i \in DOMAIN st.terms : t = st.terms[i], NEW r, Means(st, N, met, t, r)
    PROVE  Means(more, N, after, t, r)
<1>0. \E i : TermRight(st, t, i)
  BY DEF StoreRight
<1>1. /\ t.kind = "iri" => IriFits(st, t)
      /\ t.kind = "blank" => BlankFits(st, t)
      /\ t.kind = "triple" => TripleFits(st, t)
      /\ t.kind = "literal" => LiteralFits(st, t)
  BY <1>0 DEF TermRight, IriRight, IriFits, IsIri, BlankRight, BlankFits, TripleRight,
              TripleFits, LiteralRight, LiteralFits
<1>2. CASE IriMeans(st, t, r)
  <2>1. t.s \in DOMAIN st.strings
    BY <1>1, <1>2 DEF IriMeans, IriFits
  <2> QED BY <1>2, <2>1 DEF Means, IriMeans, Grows
<1>3. CASE BlankMeans(st, N, t, r)
  <2>1. t.s \in DOMAIN st.strings
    BY <1>1, <1>3 DEF BlankMeans, BlankFits
  <2>2. PICK key \in DOMAIN st.blankNumbers :
           /\ st.strings[t.s] = <<"b", key[1], st.blankNumbers[key]>>
           /\ r = [t |-> "blank", label |-> N[key]]
    BY <1>3 DEF BlankMeans
  <2>3. /\ key \in DOMAIN more.blankNumbers
        /\ more.strings[t.s] = <<"b", key[1], more.blankNumbers[key]>>
    BY <2>1, <2>2 DEF Grows
  <2>4. BlankMeans(more, N, t, r)
    BY <1>3, <2>2, <2>3 DEF BlankMeans
  <2> QED BY <2>4 DEF Means
<1>4. CASE LiteralMeans(st, t, r)
  <2>1. /\ t.s \in DOMAIN st.strings /\ IsTag(t.lang, st.strings)
        /\ t.datatype \in DOMAIN st.terms /\ IsIri(st.terms[t.datatype])
    BY <1>1, <1>4 DEF LiteralMeans, LiteralFits
  <2>2. more.strings[t.s] = st.strings[t.s] /\ more.terms[t.datatype] = st.terms[t.datatype]
    BY <2>1 DEF Grows
  <2>3. st.terms[t.datatype].s \in DOMAIN st.strings
    <3>1. st.terms[t.datatype].kind = "iri"
      BY <2>1 DEF IsIri
    <3> QED BY <2>1, <3>1, KindsAre DEF IriRight, IriFits
  <2>4. t.lang # <<>> => t.lang[1] \in DOMAIN st.strings
    BY <2>1 DEF IsTag
  <2>5. /\ more.strings[st.terms[t.datatype].s] = st.strings[st.terms[t.datatype].s]
        /\ t.lang # <<>> => more.strings[t.lang[1]] = st.strings[t.lang[1]]
    BY <2>3, <2>4 DEF Grows
  <2>6. LiteralMeans(more, t, r)
    BY <1>4, <2>2, <2>5 DEF LiteralMeans
  <2> QED BY <2>6 DEF Means
<1>5. CASE TripleMeans(st, met, t, r)
  <2>1. t.i \in DOMAIN st.tripleTerms
    BY <1>1, <1>5 DEF TripleMeans, TripleFits
  <2>2. more.tripleTerms[t.i] = st.tripleTerms[t.i]
    BY <2>1 DEF Grows
  <2>3. \A c \in 1 .. 3 : /\ more.tripleTerms[t.i][c] \in DOMAIN after
                          /\ after[more.tripleTerms[t.i][c]] = met[st.tripleTerms[t.i][c]]
    BY <1>5, <2>2 DEF TripleMeans, Grows
  <2>4. [c \in 1 .. 3 |-> after[more.tripleTerms[t.i][c]]] =
        [c \in 1 .. 3 |-> met[st.tripleTerms[t.i][c]]]
    BY <2>3
  <2>5. TripleMeans(more, after, t, r)
    BY <1>5, <2>3, <2>4 DEF TripleMeans
  <2> QED BY <2>5 DEF Means
<1> QED BY <1>2, <1>3, <1>4, <1>5 DEF Means

\* A store with one more term shows one more term to have been met.
LEMMA OneMoreShown ==
    ASSUME NEW st, NEW N, NEW met, Shows(st, N, met),
           NEW more, StoreRight(more), Numbered(more, N),
           Grows(st.strings, more.strings), Grows(st.tripleTerms, more.tripleTerms),
           Grows(st.blankNumbers, more.blankNumbers),
           \A k \in DOMAIN more.tripleTerms : more.tripleTerms[k] \in Row,
           NEW data, more.terms = Append(st.terms, data),
           NEW r, \A i \in DOMAIN met : met[i] # r,
           Means(more, N, Append(met, r), data, r)
    PROVE  /\ Shows(more, N, Meet(met, r))
           /\ Len(st.terms) + 1 \in DOMAIN Meet(met, r) /\ Meet(met, r)[Len(st.terms) + 1] = r
<1> DEFINE after == Append(met, r)
           n == Len(st.terms) + 1
<1>1. IsList(st.terms) /\ IsList(met) /\ DOMAIN met = DOMAIN st.terms /\ StoreRight(st)
  BY DEF Shows, StoreRight, Listed
<1>2. /\ Len(st.terms) \in Nat /\ DOMAIN st.terms = 1 .. Len(st.terms)
      /\ Grows(st.terms, more.terms) /\ DOMAIN more.terms = 1 .. n /\ more.terms[n] = data
  BY <1>1, AppendedList
<1>3. /\ IsList(after) /\ Grows(met, after) /\ Len(met) \in Nat /\ DOMAIN met = 1 .. Len(met)
      /\ DOMAIN after = 1 .. (Len(met) + 1) /\ after[Len(met) + 1] = r
  BY <1>1, AppendedList
<1>4. Len(met) = Len(st.terms)
  BY <1>1, <1>2, <1>3
<1>5. DOMAIN after = DOMAIN more.terms /\ after[n] = r /\ n \in DOMAIN after
  BY <1>2, <1>3, <1>4
<1>6. \A i \in DOMAIN after : i \in DOMAIN met \/ i = n
  BY <1>3, <1>4
<1>7. Meet(met, r) = after
  BY DEF Meet, ToSet
<1> HIDE DEF after, n
<1>8. Distinct(after)
  <2> SUFFICES ASSUME NEW i \in DOMAIN after, NEW j \in DOMAIN after, after[i] = after[j]
               PROVE  i = j
    BY DEF Distinct
  <2>1. \A k \in DOMAIN met : after[k] = met[k] /\ after[k] # r
    BY <1>3 DEF Grows
  <2>2. CASE i \in DOMAIN met /\ j \in DOMAIN met
    BY <2>1, <2>2 DEF Shows, Distinct
  <2> QED BY <1>5, <1>6, <2>1, <2>2
<1>9. ASSUME NEW i \in DOMAIN after PROVE Means(more, N, after, more.terms[i], after[i])
  <2>1. CASE i \in DOMAIN met
    <3>1. more.terms[i] = st.terms[i] /\ after[i] = met[i] /\ i \in DOMAIN st.terms
      BY <1>1, <1>2, <1>3, <2>1 DEF Grows
    <3>2. Means(st, N, met, st.terms[i], met[i])
      BY <2>1 DEF Shows
    <3> DEFINE t == st.terms[i]
               said == met[i]
    <3>3. (\E k \in DOMAIN st.terms : t = st.terms[k]) /\ Means(st, N, met, t, said)
      BY <3>1, <3>2
    <3> HIDE DEF t, said
    <3>4. Means(more, N, after, t, said)
      BY <1>1, <1>2, <1>3, <3>3, MeansStill
    <3> QED BY <3>1, <3>4 DEF t, said
  <2>2. CASE i = n
    BY <1>2, <1>5, <2>2 DEF after
  <2> QED BY <1>6, <2>1, <2>2
<1>10. Shows(more, N, after)
  BY <1>3, <1>5, <1>8, <1>9 DEF Shows
<1> QED BY <1>5, <1>7, <1>10 DEF n

\* Entering strings or a triple of ids alone changes nothing that is met.
LEMMA BesidesShown ==
    ASSUME NEW st, NEW N, NEW met, Shows(st, N, met),
           NEW strings, IsList(strings), Distinct(strings), Grows(st.strings, strings),
           NEW triples, IsList(triples), Distinct(triples), Grows(st.tripleTerms, triples),
           \A k \in DOMAIN triples : triples[k] \in Row
    PROVE  Shows(Besides(st, strings, triples, st.blankNumbers), N, met)
<1> DEFINE more == Besides(st, strings, triples, st.blankNumbers)
<1>1. StoreRight(st)
  BY DEF Shows
<1>2. StoreRight(more)
  BY <1>1, MoreBesides
<1>3. /\ more.strings = strings /\ more.tripleTerms = triples
      /\ more.terms = st.terms /\ more.blankNumbers = st.blankNumbers
  BY <1>1 DEF StoreRight, Whole, Fields, Besides
<1> HIDE DEF more
<1>4. Numbered(more, N)
  BY <1>3 DEF Shows, Numbered
<1>5. ASSUME NEW i \in DOMAIN met PROVE Means(more, N, met, more.terms[i], met[i])
  <2>1. Means(st, N, met, st.terms[i], met[i]) /\ i \in DOMAIN st.terms
    BY DEF Shows
  <2>2. /\ Grows(st.strings, more.strings) /\ Grows(st.tripleTerms, more.tripleTerms)
        /\ Grows(st.terms, more.terms) /\ Grows(st.blankNumbers, more.blankNumbers)
        /\ Grows(met, met)
    BY <1>3 DEF Grows
  <2>3. \E j \in DOMAIN st.terms : st.terms[i] = st.terms[j]
    BY <2>1
  <2> QED BY <1>1, <1>3, <2>1, <2>2, <2>3, MeansStill
<1>6. Shows(more, N, met)
  BY <1>2, <1>3, <1>4, <1>5 DEF Shows
<1> QED BY <1>6 DEF more

\* The kind of a term is that of what it means.
LEMMA KindOfMeaning ==
    ASSUME NEW st, NEW N, NEW met, NEW t, NEW r, Means(st, N, met, t, r)
    PROVE  /\ r.t = t.kind
           /\ r.t = "iri" => IriMeans(st, t, r)
           /\ r.t = "blank" => BlankMeans(st, N, t, r)
           /\ r.t = "literal" => LiteralMeans(st, t, r)
           /\ r.t = "triple" => TripleMeans(st, met, t, r)
<1>1. IriMeans(st, t, r) => r.t = "iri" /\ t.kind = "iri"
  BY DEF IriMeans, Iri
<1>2. BlankMeans(st, N, t, r) => r.t = "blank" /\ t.kind = "blank"
  BY DEF BlankMeans
<1>3. LiteralMeans(st, t, r) => r.t = "literal" /\ t.kind = "literal"
  BY DEF LiteralMeans
<1>4. TripleMeans(st, met, t, r) => r.t = "triple" /\ t.kind = "triple"
  BY DEF TripleMeans
<1> QED BY <1>1, <1>2, <1>3, <1>4 DEF Means

\* A string's position in the strings before and after it is entered.
LEMMA InternedPlace ==
    ASSUME NEW s, IsList(s), Distinct(s), NEW x, NEW i \in DOMAIN s, s[i] = x
    PROVE  Position(Interned(s, x), x) = i
<1>1. Interned(s, x) = s
  BY DEF Interned, ToSet
<1> QED BY <1>1, PositionOnce

\* An IRI is found where it was met, or it is the next term that is.
LEMMA IriShown ==
    ASSUME NEW st, NEW N, NEW met, Shows(st, N, met), NEW iri
    PROVE  ShownAs(NamedNode(st, iri), N, Meet(met, Iri(iri)), Iri(iri))
<1> DEFINE strings == Interned(st.strings, iri)
           s == Position(strings, iri)
           n == Len(st.terms) + 1
           terms == Append(st.terms, IriTerm(s))
           namedOf == With(st.namedOf, s, n)
           more == [st EXCEPT !.strings = strings, !.terms = terms, !.namedOf = namedOf]
           found == NamedNode(st, iri)
           r == Iri(iri)
<1>0. /\ s \in DOMAIN st.namedOf => found.store = st /\ found.id = st.namedOf[s]
      /\ s \notin DOMAIN st.namedOf => found.store = more /\ found.id = n
  BY DEF NamedNode
<1>1. StoreRight(st) /\ DOMAIN met = DOMAIN st.terms /\ IsList(st.strings) /\ Distinct(st.strings)
  BY DEF Shows, StoreRight, Listed
<1>2. Entered(st, found)
  BY <1>1, NamedNodeEntered
<1>3. /\ Grows(st.strings, strings) /\ s \in DOMAIN strings /\ strings[s] = iri
  BY <1>1, InternedOnce DEF LooksUp
<1>4. IriTerm(s).kind = "iri" /\ IriTerm(s).s = s
  BY DEF IriTerm
<1>5. \A i \in DOMAIN met : Means(st, N, met, st.terms[i], met[i])
  BY DEF Shows
<1> HIDE DEF found
<1>6. CASE s \in DOMAIN st.namedOf
  <2> DEFINE i == st.namedOf[s]
  <2>1. i \in DOMAIN met /\ st.terms[i] = IriTerm(s)
    BY <1>1, <1>6, EntriesAre
  <2>2. s \in DOMAIN st.strings
    BY <1>1, <1>4, <2>1, KindsAre DEF IriRight, IriFits
  <2> HIDE DEF s, i, strings
  <2>3. Means(st, N, met, IriTerm(s), met[i])
    BY <1>5, <2>1
  <2>4. met[i] = Iri(st.strings[s])
    BY <1>4, <2>3, KindOfMeaning DEF IriMeans
  <2>5. met[i] = r
    BY <1>3, <2>2, <2>4 DEF Grows
  <2>6. Meet(met, r) = met
    BY <2>1, <2>5, MeetAgain
  <2> QED BY <1>0, <1>6, <2>1, <2>5, <2>6 DEF ShownAs, i, found
<1>7. CASE s \notin DOMAIN st.namedOf
  <2>1. /\ found.store = more /\ found.id = n /\ StoreRight(more)
    BY <1>0, <1>2, <1>7 DEF Entered
  <2> HIDE DEF terms, namedOf
  <2>2. /\ more.strings = strings /\ more.tripleTerms = st.tripleTerms
        /\ more.terms = terms /\ more.blankNumbers = st.blankNumbers
    BY <1>1 DEF StoreRight, Whole, Fields
  <2> HIDE DEF more, n
  <2>3. Numbered(more, N) /\ \A k \in DOMAIN more.tripleTerms : more.tripleTerms[k] \in Row
    BY <2>2 DEF Shows, Numbered
  <2>4. /\ Grows(st.strings, more.strings) /\ Grows(st.tripleTerms, more.tripleTerms)
        /\ Grows(st.blankNumbers, more.blankNumbers)
    BY <1>3, <2>2 DEF Grows
  <2>5. ASSUME NEW i \in DOMAIN met, met[i] = r PROVE FALSE
    <3>1. i \in DOMAIN st.terms /\ Means(st, N, met, st.terms[i], r) /\ r.t = "iri"
      BY <1>1, <1>5, <2>5 DEF Iri
    <3> HIDE DEF r, s, strings
    <3>2. st.terms[i].kind = "iri" /\ r = Iri(st.strings[st.terms[i].s])
      BY <3>1, KindOfMeaning DEF IriMeans
    <3>3. /\ st.terms[i].s \in DOMAIN st.strings /\ st.terms[i].s \in DOMAIN st.namedOf
      BY <1>1, <3>1, <3>2, KindsAre DEF IriRight, IriFits, LooksUp
    <3>4. st.strings[st.terms[i].s] = iri
      BY <3>2 DEF r, Iri
    <3>5. s = st.terms[i].s
      BY <1>1, <3>3, <3>4, InternedPlace DEF s, strings
    <3> QED BY <1>7, <3>3, <3>5
  <2>6. Means(more, N, Append(met, r), IriTerm(s), r)
    <3> HIDE DEF s, strings
    <3> QED BY <1>3, <1>4, <2>2 DEF Means, IriMeans
  <2>7. /\ Shows(more, N, Meet(met, r)) /\ n \in DOMAIN Meet(met, r) /\ Meet(met, r)[n] = r
    <3> HIDE DEF r, s
    <3> QED BY <2>1, <2>2, <2>3, <2>4, <2>5, <2>6, OneMoreShown DEF terms, n
  <2> QED BY <2>1, <2>7 DEF ShownAs, found
<1> QED BY <1>6, <1>7

\* A label of a scope is found as the blank node it names.
LEMMA BlankShown ==
    ASSUME NEW st, NEW N, NEW met, Shows(st, N, met), Distinct(N), NEW scope, NEW label,
           <<scope, label>> \in DOMAIN N
    PROVE  ShownAs(BlankNode(st, scope, label), N,
                   Meet(met, [t |-> "blank", label |-> N[<<scope, label>>]]),
                   [t |-> "blank", label |-> N[<<scope, label>>]])
<1> DEFINE key == <<scope, label>>
           old == st.blankNumbers
           card == Cardinality(DOMAIN old)
           numbers == IF key \in DOMAIN old THEN old ELSE With(old, key, card)
           name == <<"b", scope, numbers[key]>>
           strings == Interned(st.strings, name)
           s == Position(strings, name)
           n == Len(st.terms) + 1
           terms == Append(st.terms, BlankTerm(s))
           blankOf == With(st.blankOf, s, n)
           more == [st EXCEPT !.strings = strings, !.blankNumbers = numbers,
                              !.terms = terms, !.blankOf = blankOf]
           found == BlankNode(st, scope, label)
           r == [t |-> "blank", label |-> N[key]]
<1>0. /\ s \in DOMAIN st.blankOf => found.store = st /\ found.id = st.blankOf[s]
      /\ s \notin DOMAIN st.blankOf => found.store = more /\ found.id = n
  BY DEF BlankNode
<1>1. StoreRight(st) /\ DOMAIN met = DOMAIN st.terms /\ IsList(st.strings) /\ Distinct(st.strings)
  BY DEF Shows, StoreRight, Listed
<1>2. Entered(st, found)
  BY <1>1, BlankNodeEntered
<1>3. key[1] = scope /\ key[2] = label /\ key = <<key[1], key[2]>> /\ key \in DOMAIN N
  OBVIOUS
<1> HIDE DEF found, key
<1>4. /\ IsTable(old) /\ IsFiniteSet(DOMAIN old) /\ DOMAIN old \subseteq DOMAIN N
      /\ \A k \in DOMAIN old : k = <<k[1], k[2]>> /\ old[k] \in Nat /\ old[k] < card
      /\ Distinct(old) /\ card \in Nat
  <2>1. Numbered(st, N)
    BY DEF Shows
  <2> QED BY <2>1, FS_CardinalityType DEF Numbered
<1> HIDE DEF old
<1>5. /\ Grows(old, numbers) /\ key \in DOMAIN numbers /\ DOMAIN numbers = DOMAIN old \cup {key}
      /\ \A k \in DOMAIN old : numbers[k] = numbers[key] => k = key
  <2>1. CASE key \in DOMAIN old
    BY <1>4, <2>1 DEF Grows, Distinct
  <2>2. CASE key \notin DOMAIN old
    <3>1. numbers = With(old, key, card)
      BY <2>2
    <3>2. /\ DOMAIN numbers = DOMAIN old \cup {key} /\ numbers[key] = card
          /\ Grows(old, numbers)
      <4>1. IsTable(old) /\ key \notin DOMAIN old
        BY <1>4, <2>2
      <4> HIDE DEF card, numbers
      <4>2. /\ IsTable(With(old, key, card)) /\ DOMAIN With(old, key, card) = DOMAIN old \cup {key}
            /\ With(old, key, card)[key] = card /\ Grows(old, With(old, key, card))
        BY <4>1 DEF With, IsTable, Grows
      <4> QED BY <3>1, <4>2
    <3>3. \A k \in DOMAIN old : numbers[k] = old[k] /\ old[k] # card
      BY <1>4, <3>2 DEF Grows
    <3> QED BY <3>2, <3>3
  <2> QED BY <2>1, <2>2
<1>6. Numbered([blankNumbers |-> numbers], N)
  <2>1. CASE key \in DOMAIN old
    <3>1. numbers = old
      BY <2>1
    <3> QED BY <1>4, <3>1 DEF Numbered
  <2>2. CASE key \notin DOMAIN old
    <3>1. numbers = With(old, key, card)
      BY <2>2
    <3> HIDE DEF numbers
    <3>2. /\ IsTable(numbers) /\ DOMAIN numbers = DOMAIN old \cup {key} /\ numbers[key] = card
          /\ Grows(old, numbers)
      <4>1. IsTable(old) /\ key \notin DOMAIN old
        BY <1>4, <2>2
      <4> HIDE DEF card
      <4>2. /\ IsTable(With(old, key, card)) /\ DOMAIN With(old, key, card) = DOMAIN old \cup {key}
            /\ With(old, key, card)[key] = card /\ Grows(old, With(old, key, card))
        BY <4>1 DEF With, IsTable, Grows
      <4> QED BY <3>1, <4>2
    <3>3. IsFiniteSet(DOMAIN numbers) /\ Cardinality(DOMAIN numbers) = card + 1
      BY <1>4, <2>2, <3>2, FS_AddElement
    <3> HIDE DEF card
    <3>4. ASSUME NEW k \in DOMAIN numbers
          PROVE  k = <<k[1], k[2]>> /\ numbers[k] \in Nat /\ numbers[k] < card + 1
      <4>1. CASE k = key
        BY <1>3, <1>4, <3>2, <4>1
      <4>2. CASE k \in DOMAIN old
        BY <1>4, <3>2, <4>2 DEF Grows
      <4> QED BY <3>2, <4>1, <4>2
    <3>5. Distinct(numbers)
      <4> SUFFICES ASSUME NEW k \in DOMAIN numbers, NEW l \in DOMAIN numbers,
                          numbers[k] = numbers[l]
                   PROVE  k = l
        BY DEF Distinct
      <4>1. CASE k \in DOMAIN old /\ l \in DOMAIN old
        BY <1>4, <3>2, <4>1 DEF Grows, Distinct
      <4> QED BY <1>5, <3>1, <3>2, <4>1, <2>2
    <3> QED BY <1>3, <1>4, <3>2, <3>3, <3>4, <3>5 DEF Numbered
  <2> QED BY <2>1, <2>2
<1>7. numbers[key] \in Nat
  BY <1>5, <1>6 DEF Numbered
<1> HIDE DEF numbers
<1>8. /\ Grows(st.strings, strings) /\ s \in DOMAIN strings /\ strings[s] = name
  BY <1>1, InternedOnce DEF LooksUp
<1>9. BlankTerm(s).kind = "blank" /\ BlankTerm(s).s = s
  BY DEF BlankTerm
<1>10. \A i \in DOMAIN met : Means(st, N, met, st.terms[i], met[i])
  BY DEF Shows
<1>11. \A i \in DOMAIN met : met[i] = r => s \in DOMAIN st.blankOf
  <2> SUFFICES ASSUME NEW i \in DOMAIN met, met[i] = r PROVE s \in DOMAIN st.blankOf
    OBVIOUS
  <2>1. i \in DOMAIN st.terms /\ Means(st, N, met, st.terms[i], r) /\ r.t = "blank"
    BY <1>1, <1>10
  <2> HIDE DEF r, s, strings, name
  <2>2. BlankMeans(st, N, st.terms[i], r)
    BY <2>1, KindOfMeaning
  <2>3. PICK k \in DOMAIN old : /\ st.strings[st.terms[i].s] = <<"b", k[1], old[k]>>
                                /\ r = [t |-> "blank", label |-> N[k]]
    BY <2>2 DEF BlankMeans, old
  <2>4. k = key
    <3>1. N[k] = N[key] /\ k \in DOMAIN N
      BY <1>4, <2>3 DEF r
    <3> QED BY <1>3, <3>1 DEF Distinct
  <2>5. st.strings[st.terms[i].s] = name
    BY <1>3, <1>5, <2>3, <2>4 DEF name, Grows
  <2>6. st.terms[i].s \in DOMAIN st.strings /\ st.terms[i].s \in DOMAIN st.blankOf
    BY <1>1, <2>1, <2>2, KindsAre DEF BlankMeans, BlankRight, BlankFits, LooksUp
  <2>7. s = st.terms[i].s
    BY <1>1, <2>5, <2>6, InternedPlace DEF s, strings
  <2> QED BY <2>6, <2>7
<1>12. CASE s \in DOMAIN st.blankOf
  <2> DEFINE i == st.blankOf[s]
  <2>1. i \in DOMAIN met /\ st.terms[i] = BlankTerm(s)
    BY <1>1, <1>12, EntriesAre
  <2>2. s \in DOMAIN st.strings
    BY <1>1, <1>9, <2>1, KindsAre DEF BlankRight, BlankFits
  <2> HIDE DEF s, i, strings
  <2>3. Means(st, N, met, BlankTerm(s), met[i])
    BY <1>10, <2>1
  <2>4. PICK k \in DOMAIN old : /\ st.strings[s] = <<"b", k[1], old[k]>>
                                /\ met[i] = [t |-> "blank", label |-> N[k]]
    <3>1. BlankMeans(st, N, BlankTerm(s), met[i])
      BY <1>9, <2>3, KindOfMeaning
    <3> QED BY <1>9, <3>1 DEF BlankMeans, old
  <2>5. <<"b", k[1], old[k]>> = <<"b", scope, numbers[key]>>
    BY <1>8, <2>2, <2>4 DEF Grows
  <2>6. numbers[k] = numbers[key]
    BY <1>5, <2>5 DEF Grows
  <2>7. met[i] = r
    BY <1>5, <2>4, <2>6
  <2>8. Meet(met, r) = met
    BY <2>1, <2>7, MeetAgain
  <2> QED BY <1>0, <1>12, <2>1, <2>7, <2>8 DEF ShownAs, i, found, key
<1>13. CASE s \notin DOMAIN st.blankOf
  <2>1. /\ found.store = more /\ found.id = n /\ StoreRight(more)
    BY <1>0, <1>2, <1>13 DEF Entered
  <2> HIDE DEF terms, blankOf
  <2>2. /\ more.strings = strings /\ more.tripleTerms = st.tripleTerms
        /\ more.terms = terms /\ more.blankNumbers = numbers
    BY <1>1 DEF StoreRight, Whole, Fields
  <2> HIDE DEF more, n
  <2>3. Numbered(more, N) /\ \A k \in DOMAIN more.tripleTerms : more.tripleTerms[k] \in Row
    BY <1>6, <2>2 DEF Shows, Numbered
  <2>4. /\ Grows(st.strings, more.strings) /\ Grows(st.tripleTerms, more.tripleTerms)
        /\ Grows(st.blankNumbers, more.blankNumbers)
    BY <1>5, <1>8, <2>2 DEF Grows, old
  <2>5. \A i \in DOMAIN met : met[i] # r
    BY <1>11, <1>13
  <2>6. Means(more, N, Append(met, r), BlankTerm(s), r)
    <3>1. more.strings[s] = <<"b", key[1], more.blankNumbers[key]>>
      BY <1>3, <1>8, <2>2
    <3>2. key \in DOMAIN more.blankNumbers
      BY <1>5, <2>2
    <3> HIDE DEF s
    <3> QED BY <1>9, <3>1, <3>2 DEF Means, BlankMeans
  <2>7. /\ Shows(more, N, Meet(met, r)) /\ n \in DOMAIN Meet(met, r) /\ Meet(met, r)[n] = r
    <3> HIDE DEF r, s
    <3> QED BY <2>1, <2>2, <2>3, <2>4, <2>5, <2>6, OneMoreShown DEF terms, n
  <2> QED BY <2>1, <2>7 DEF ShownAs, found, key
<1> QED BY <1>12, <1>13

\* push: a literal or a triple term is found where it was met, or is the next.
LEMMA PushedShown ==
    ASSUME NEW st, NEW N, NEW met, Shows(st, N, met),
           NEW data, TripleFits(st, data) \/ LiteralFits(st, data),
           NEW r, Means(st, N, met, data, r),
           \A i \in DOMAIN met : met[i] = r => st.terms[i] = data
    PROVE  ShownAs(Pushed(st, data), N, Meet(met, r), r)
<1> DEFINE n == Len(st.terms) + 1
           terms == Append(st.terms, data)
           lookup == With(st.lookup, data, n)
           more == [st EXCEPT !.terms = terms, !.lookup = lookup]
           found == Pushed(st, data)
<1>0. /\ data \in DOMAIN st.lookup => found.store = st /\ found.id = st.lookup[data]
      /\ data \notin DOMAIN st.lookup => found.store = more /\ found.id = n
  BY DEF Pushed
<1>1. StoreRight(st) /\ DOMAIN met = DOMAIN st.terms /\ IsList(met)
  BY DEF Shows
<1>2. Entered(st, found)
  BY <1>1, PushedEntered
<1>3. data.kind \in {"literal", "triple"}
  BY DEF TripleFits, LiteralFits
<1>4. \A i \in DOMAIN met : Means(st, N, met, st.terms[i], met[i])
  BY DEF Shows
<1> HIDE DEF found
<1>5. CASE data \in DOMAIN st.lookup
  <2> DEFINE i == st.lookup[data]
  <2>1. i \in DOMAIN met /\ st.terms[i] = data
    BY <1>1, <1>5, EntriesAre
  <2> HIDE DEF i
  <2>2. Means(st, N, met, data, met[i])
    BY <1>4, <2>1
  <2>3. met[i] = r
    <3>1. met[i].t = data.kind /\ r.t = data.kind
      BY <2>2, KindOfMeaning
    <3>2. CASE data.kind = "literal"
      <4>1. LiteralMeans(st, data, met[i]) /\ LiteralMeans(st, data, r)
        BY <2>2, <3>1, <3>2, KindOfMeaning
      <4> QED BY <4>1 DEF LiteralMeans
    <3>3. CASE data.kind = "triple"
      <4>1. TripleMeans(st, met, data, met[i]) /\ TripleMeans(st, met, data, r)
        BY <2>2, <3>1, <3>3, KindOfMeaning
      <4> QED BY <4>1 DEF TripleMeans
    <3> QED BY <1>3, <3>2, <3>3
  <2>4. Meet(met, r) = met
    BY <2>1, <2>3, MeetAgain
  <2> QED BY <1>0, <1>5, <2>1, <2>3, <2>4 DEF ShownAs, i, found
<1>6. CASE data \notin DOMAIN st.lookup
  <2>1. /\ found.store = more /\ found.id = n /\ StoreRight(more)
    BY <1>0, <1>2, <1>6 DEF Entered
  <2> HIDE DEF terms, lookup
  <2>2. /\ more.strings = st.strings /\ more.tripleTerms = st.tripleTerms
        /\ more.terms = terms /\ more.blankNumbers = st.blankNumbers
    BY <1>1 DEF StoreRight, Whole, Fields
  <2> HIDE DEF more, n
  <2>3. Numbered(more, N) /\ \A k \in DOMAIN more.tripleTerms : more.tripleTerms[k] \in Row
    BY <2>2 DEF Shows, Numbered
  <2>4. /\ Grows(st.strings, more.strings) /\ Grows(st.tripleTerms, more.tripleTerms)
        /\ Grows(st.blankNumbers, more.blankNumbers)
    BY <2>2 DEF Grows
  <2>5. ASSUME NEW i \in DOMAIN met, met[i] = r PROVE FALSE
    <3>1. i \in DOMAIN st.terms /\ st.terms[i] = data
      BY <1>1, <2>5
    <3> QED BY <1>1, <1>3, <1>6, <3>1, KindsAre DEF LiteralRight, TripleRight, LooksUp
  <2>6. Grows(met, Append(met, r)) /\ Grows(st.terms, more.terms)
    BY <1>1, <2>2, AppendedList DEF terms, StoreRight, Listed
  <2>7. Means(more, N, Append(met, r), data, r)
    <3>1. CASE data.kind = "literal"
      <4>1. LiteralMeans(st, data, r)
        BY <3>1, KindOfMeaning
      <4>2. data.datatype \in DOMAIN st.terms
        BY <3>1 DEF TripleFits, LiteralFits
      <4>3. more.terms[data.datatype] = st.terms[data.datatype]
        BY <2>6, <4>2 DEF Grows
      <4> QED BY <2>2, <4>1, <4>3 DEF Means, LiteralMeans
    <3>2. CASE data.kind = "triple"
      <4>1. TripleMeans(st, met, data, r)
        BY <3>2, KindOfMeaning
      <4> DEFINE after == Append(met, r)
      <4> HIDE DEF after
      <4>2. \A c \in 1 .. 3 : /\ more.tripleTerms[data.i][c] \in DOMAIN after
                              /\ after[more.tripleTerms[data.i][c]] = met[st.tripleTerms[data.i][c]]
        BY <2>2, <2>6, <4>1 DEF TripleMeans, Grows, after
      <4>3. [c \in 1 .. 3 |-> after[more.tripleTerms[data.i][c]]] =
            [c \in 1 .. 3 |-> met[st.tripleTerms[data.i][c]]]
        BY <4>2
      <4>4. TripleMeans(more, after, data, r)
        BY <4>1, <4>2, <4>3 DEF TripleMeans
      <4> QED BY <4>4 DEF Means, after
    <3> QED BY <1>3, <3>1, <3>2
  <2>8. /\ Shows(more, N, Meet(met, r)) /\ n \in DOMAIN Meet(met, r) /\ Meet(met, r)[n] = r
    BY <2>1, <2>2, <2>3, <2>4, <2>5, <2>7, OneMoreShown DEF terms, n
  <2> QED BY <2>1, <2>8 DEF ShownAs, found
<1> QED BY <1>5, <1>6

\* What a literal says.
LiteralSays(lex, datatype, lang, dir) ==
    [t |-> "literal", lex |-> lex, datatype |-> datatype, lang |-> lang, dir |-> dir]

\* literal_with_direction: the datatype's IRI is met before the literal.
LEMMA LiteralShown ==
    ASSUME NEW st, NEW N, NEW met, Shows(st, N, met),
           NEW lex, NEW datatype, NEW lang, lang = <<>> \/ lang = <<lang[1]>>, NEW dir
    PROVE  ShownAs(Literal(st, lex, datatype, lang, dir), N,
                   Meet(Meet(met, Iri(datatype)), LiteralSays(lex, datatype, lang, dir)),
                   LiteralSays(lex, datatype, lang, dir))
<1> DEFINE text == Interned(st.strings, lex)
           strings == IF lang = <<>> THEN text ELSE Interned(text, lang[1])
           before == [st EXCEPT !.strings = strings]
           typed == NamedNode(before, datatype)
           mid == typed.store
           at0(x) == Position(mid.strings, x)
           tag == Tagged(lang, at0)
           data == LiteralTerm(at0(lex), typed.id, tag, dir)
           r == LiteralSays(lex, datatype, lang, dir)
           then == Meet(met, Iri(datatype))
<1>1. Literal(st, lex, datatype, lang, dir) = Pushed(mid, data)
  BY DEF Literal
<1>2. tag = IF lang = <<>> THEN <<>> ELSE <<at0(lang[1])>>
  BY DEF Tagged
<1> HIDE DEF tag
<1>3. StoreRight(st)
  BY DEF Shows
<1>4. /\ IsList(text) /\ Distinct(text) /\ Grows(st.strings, text)
      /\ \E i \in DOMAIN text : text[i] = lex
  BY <1>3, InternedOnce DEF StoreRight, Listed, LooksUp
<1>5. /\ IsList(strings) /\ Distinct(strings) /\ Grows(text, strings)
      /\ lang # <<>> => \E i \in DOMAIN strings : strings[i] = lang[1]
  <2> HIDE DEF text
  <2>1. CASE lang = <<>>
    BY <1>4, <2>1 DEF Grows
  <2>2. CASE lang # <<>>
    <3>1. strings = Interned(text, lang[1])
      BY <2>2
    <3> HIDE DEF strings
    <3> QED BY <1>4, <3>1, InternedOnce DEF LooksUp
  <2> QED BY <2>1, <2>2
<1> HIDE DEF text, strings
<1>6. Grows(st.strings, strings)
  BY <1>4, <1>5, GrowsOn
<1>7. Shows(before, N, met) /\ before.strings = strings
  <2>1. before = Besides(st, strings, st.tripleTerms, st.blankNumbers)
    BY <1>3 DEF StoreRight, Whole, Fields, Besides
  <2>2. before.strings = strings
    BY <1>3 DEF StoreRight, Whole, Fields
  <2>3. /\ IsList(st.tripleTerms) /\ Distinct(st.tripleTerms)
        /\ Grows(st.tripleTerms, st.tripleTerms)
        /\ \A k \in DOMAIN st.tripleTerms : st.tripleTerms[k] \in Row
    BY <1>3 DEF Shows, StoreRight, Listed, Grows
  <2> HIDE DEF before
  <2> QED BY <1>5, <1>6, <2>1, <2>2, <2>3, BesidesShown
<1> HIDE DEF before
<1>8. ShownAs(typed, N, then, Iri(datatype))
  BY <1>7, IriShown
<1>9. StoreRight(before)
  BY <1>7 DEF Shows
<1>10. Entered(before, typed) /\ IsIri(mid.terms[typed.id])
  BY <1>9, NamedNodeEntered
<1> HIDE DEF typed, then, r
<1>11. /\ Shows(mid, N, then) /\ typed.id \in DOMAIN then /\ then[typed.id] = Iri(datatype)
       /\ StoreRight(mid) /\ DOMAIN then = DOMAIN mid.terms
       /\ IsList(mid.strings) /\ Distinct(mid.strings)
       /\ Grows(strings, mid.strings)
       /\ \A i \in DOMAIN then : Means(mid, N, then, mid.terms[i], then[i])
  BY <1>7, <1>8, <1>10 DEF ShownAs, Shows, Entered, StoreRight, Listed
<1> HIDE DEF mid
<1>12. at0(lex) \in DOMAIN mid.strings /\ mid.strings[at0(lex)] = lex
  <2>1. PICK i \in DOMAIN text : text[i] = lex
    BY <1>4
  <2>2. i \in DOMAIN mid.strings /\ mid.strings[i] = lex
    BY <1>5, <1>11, <2>1 DEF Grows
  <2> QED BY <2>2, HeldHasPosition
<1>13. lang # <<>> => at0(lang[1]) \in DOMAIN mid.strings /\ mid.strings[at0(lang[1])] = lang[1]
  <2> SUFFICES ASSUME lang # <<>>
               PROVE  at0(lang[1]) \in DOMAIN mid.strings /\ mid.strings[at0(lang[1])] = lang[1]
    OBVIOUS
  <2>1. PICK i \in DOMAIN strings : strings[i] = lang[1]
    BY <1>5
  <2>2. i \in DOMAIN mid.strings /\ mid.strings[i] = lang[1]
    BY <1>11, <2>1 DEF Grows
  <2> QED BY <2>2, HeldHasPosition
<1> HIDE DEF at0
<1>14. /\ data.kind = "literal" /\ data.s = at0(lex) /\ data.datatype = typed.id
       /\ data.lang = tag /\ data.dir = dir
  BY DEF LiteralTerm
<1>15. IsTag(tag, mid.strings)
  BY <1>2, <1>13 DEF IsTag
<1>16. LiteralFits(mid, data)
  BY <1>10, <1>11, <1>12, <1>14, <1>15 DEF LiteralFits, mid
<1>17. mid.terms[typed.id].kind = "iri" /\ mid.strings[mid.terms[typed.id].s] = datatype
  <2>1. Means(mid, N, then, mid.terms[typed.id], Iri(datatype)) /\ Iri(datatype).t = "iri"
    BY <1>11 DEF Iri
  <2>2. IriMeans(mid, mid.terms[typed.id], Iri(datatype))
    BY <2>1, KindOfMeaning
  <2> QED BY <2>2 DEF IriMeans, Iri
<1>18. Means(mid, N, then, data, r)
  <2>1. (IF tag = <<>> THEN <<>> ELSE <<mid.strings[tag[1]]>>) = lang
    BY <1>2, <1>13
  <2> HIDE DEF data
  <2>2. LiteralMeans(mid, data, r)
    BY <1>12, <1>14, <1>17, <2>1 DEF LiteralMeans, LiteralSays, r
  <2> QED BY <2>2 DEF Means
<1>19. ASSUME NEW i \in DOMAIN then, then[i] = r PROVE mid.terms[i] = data
  <2> DEFINE t == mid.terms[i]
  <2>1. i \in DOMAIN mid.terms /\ Means(mid, N, then, t, r) /\ r.t = "literal"
    BY <1>11, <1>19 DEF LiteralSays, r
  <2>2. LiteralMeans(mid, t, r)
    BY <2>1, KindOfMeaning
  <2>3. LiteralFits(mid, t)
    BY <1>11, <2>1, <2>2, KindsAre DEF LiteralMeans, LiteralRight
  <2> HIDE DEF t
  <2>4. /\ mid.strings[t.s] = lex /\ mid.strings[mid.terms[t.datatype].s] = datatype
        /\ (IF t.lang = <<>> THEN <<>> ELSE <<mid.strings[t.lang[1]]>>) = lang /\ t.dir = dir
    BY <2>2 DEF LiteralMeans, LiteralSays, r
  <2>5. t.s = at0(lex)
    BY <1>11, <1>12, <2>3, <2>4 DEF LiteralFits, Distinct
  <2>6. t.datatype = typed.id
    <3> DEFINE d == mid.terms[t.datatype]
               e == mid.terms[typed.id]
    <3>1. t.datatype \in DOMAIN mid.terms /\ d.kind = "iri"
      BY <2>3 DEF LiteralFits, IsIri
    <3>2. d.s \in DOMAIN mid.strings /\ LooksUp(mid.namedOf, d.s, t.datatype)
      BY <1>11, <3>1, KindsAre DEF IriRight, IriFits
    <3>3. typed.id \in DOMAIN mid.terms
      BY <1>11
    <3>4. e.s \in DOMAIN mid.strings /\ LooksUp(mid.namedOf, e.s, typed.id)
      BY <1>11, <1>17, <3>3, KindsAre DEF IriRight, IriFits
    <3>5. d.s = e.s
      BY <1>11, <1>17, <2>4, <3>2, <3>4 DEF Distinct
    <3> QED BY <3>2, <3>4, <3>5 DEF LooksUp
  <2>7. t.lang = tag
    <3>1. CASE t.lang = <<>>
      BY <1>2, <2>4, <3>1
    <3>2. CASE t.lang # <<>>
      <4>1. PICK l \in DOMAIN mid.strings : t.lang = <<l>>
        BY <2>3, <3>2 DEF LiteralFits, IsTag
      <4>2. lang = <<mid.strings[l]>> /\ lang # <<>> /\ lang[1] = mid.strings[l]
        <5> DEFINE z == mid.strings[l]
        <5>1. t.lang[1] = l
          BY <4>1
        <5>2. lang = <<z>>
          BY <2>4, <3>2, <5>1
        <5> HIDE DEF z
        <5>3. lang # <<>> /\ lang[1] = z
          BY <5>2
        <5> QED BY <5>2, <5>3 DEF z
      <4> DEFINE y == at0(lang[1])
      <4>3. y \in DOMAIN mid.strings /\ mid.strings[y] = lang[1]
        BY <1>13, <4>2
      <4>4. tag = <<y>>
        BY <1>2, <4>2
      <4> HIDE DEF y
      <4>5. mid.strings[y] = mid.strings[l]
        BY <4>2, <4>3
      <4>6. y = l
        BY <1>11, <4>1, <4>3, <4>5 DEF Distinct
      <4> QED BY <4>1, <4>4, <4>6
    <3> QED BY <3>1, <3>2
  <2>8. t = LiteralTerm(t.s, t.datatype, t.lang, t.dir)
    BY <2>3 DEF LiteralFits
  <2>9. t = data
    BY <2>4, <2>5, <2>6, <2>7, <2>8
  <2> QED BY <2>9 DEF t
<1> HIDE DEF data
<1>20. ShownAs(Pushed(mid, data), N, Meet(then, r), r)
  BY <1>11, <1>16, <1>18, <1>19, PushedShown
<1> QED BY <1>1, <1>20 DEF then, r

\* triple_term: met already if its parts are those of one that was.
LEMMA TripleShown ==
    ASSUME NEW st, NEW N, NEW met, Shows(st, N, met),
           NEW triple \in Row, \A c \in 1 .. 3 : triple[c] \in DOMAIN met,
           NEW r, r = [t |-> "triple", parts |-> [c \in 1 .. 3 |-> met[triple[c]]]]
    PROVE  ShownAs(TripleTerm(st, triple), N, Meet(met, r), r)
<1> DEFINE triples == Interned(st.tripleTerms, triple)
           mid == [st EXCEPT !.tripleTerms = triples]
           p == Position(triples, triple)
           data == TripleTermAt(p)
<1>1. TripleTerm(st, triple) = Pushed(mid, data)
  BY DEF TripleTerm
<1>2. /\ StoreRight(st) /\ IsList(st.tripleTerms) /\ Distinct(st.tripleTerms)
      /\ IsList(st.strings) /\ Distinct(st.strings)
      /\ \A k \in DOMAIN st.tripleTerms : st.tripleTerms[k] \in Row
  BY DEF Shows, StoreRight, Listed
<1>3. /\ IsList(triples) /\ Distinct(triples) /\ Grows(st.tripleTerms, triples)
      /\ p \in DOMAIN triples /\ triples[p] = triple
  BY <1>2, InternedOnce DEF LooksUp
<1>4. \A k \in DOMAIN triples : triples[k] \in Row
  <2>1. CASE triple \in ToSet(st.tripleTerms)
    BY <1>2, <2>1 DEF Interned
  <2>2. CASE triple \notin ToSet(st.tripleTerms)
    <3>1. triples = Append(st.tripleTerms, triple)
      BY <2>2 DEF Interned
    <3> DEFINE n == Len(st.tripleTerms)
    <3>2. /\ n \in Nat /\ DOMAIN st.tripleTerms = 1 .. n /\ DOMAIN triples = 1 .. (n + 1)
          /\ triples[n + 1] = triple
      BY <1>2, <3>1, AppendedList
    <3> HIDE DEF triples, n
    <3> SUFFICES ASSUME NEW k \in DOMAIN triples PROVE triples[k] \in Row
      OBVIOUS
    <3>3. k = n + 1 \/ k \in 1 .. n
      BY <3>2
    <3>4. CASE k = n + 1
      BY <3>2, <3>4
    <3>5. CASE k \in 1 .. n
      BY <1>2, <1>3, <3>2, <3>5 DEF Grows
    <3> QED BY <3>3, <3>4, <3>5
  <2> QED BY <2>1, <2>2
<1> HIDE DEF triples, p
<1>5. mid = Besides(st, st.strings, triples, st.blankNumbers)
  BY <1>2 DEF StoreRight, Whole, Fields, Besides
<1>6. mid.tripleTerms = triples
  BY <1>2 DEF StoreRight, Whole, Fields
<1> HIDE DEF mid
<1>7. Shows(mid, N, met)
  <2>1. Grows(st.strings, st.strings)
    BY DEF Grows
  <2> QED BY <1>2, <1>3, <1>4, <1>5, <2>1, BesidesShown
<1>8. data.kind = "triple" /\ data.i = p
  BY DEF TripleTermAt
<1>9. TripleFits(mid, data)
  BY <1>3, <1>6, <1>8 DEF TripleFits
<1> HIDE DEF data
<1>10. Means(mid, N, met, data, r)
  <2>1. mid.tripleTerms[data.i] = triple
    BY <1>3, <1>6, <1>8
  <2>2. TripleMeans(mid, met, data, r)
    BY <1>8, <2>1 DEF TripleMeans
  <2> QED BY <2>2 DEF Means
<1>11. ASSUME NEW i \in DOMAIN met, met[i] = r PROVE mid.terms[i] = data
  <2> DEFINE t == mid.terms[i]
             q == triples[t.i]
  <2>1. /\ i \in DOMAIN mid.terms /\ Means(mid, N, met, t, r) /\ StoreRight(mid)
        /\ Distinct(met)
    BY <1>7, <1>11 DEF Shows
  <2>2. TripleMeans(mid, met, t, r)
    <3>1. r.t = "triple"
      OBVIOUS
    <3> QED BY <2>1, <3>1, KindOfMeaning
  <2>3. TripleFits(mid, t)
    BY <2>1, <2>2, KindsAre DEF TripleMeans, TripleRight
  <2> HIDE DEF t
  <2>4. t.i \in DOMAIN triples /\ q \in Row /\ t = TripleTermAt(t.i)
    BY <1>4, <1>6, <2>3 DEF TripleFits
  <2>5. /\ \A c \in 1 .. 3 : q[c] \in DOMAIN met
        /\ r = [t |-> "triple", parts |-> [c \in 1 .. 3 |-> met[q[c]]]]
    BY <1>6, <2>2 DEF TripleMeans
  <2> HIDE DEF q
  <2>6. [c \in 1 .. 3 |-> met[q[c]]] = [c \in 1 .. 3 |-> met[triple[c]]]
    <3> DEFINE left == [c \in 1 .. 3 |-> met[q[c]]]
               right == [c \in 1 .. 3 |-> met[triple[c]]]
    <3>1. [t |-> "triple", parts |-> left] = [t |-> "triple", parts |-> right]
      BY <2>5
    <3> HIDE DEF left, right
    <3>2. left = right
      BY <3>1
    <3> QED BY <3>2 DEF left, right
  <2>7. \A c \in 1 .. 3 : q[c] = triple[c]
    <3> SUFFICES ASSUME NEW c \in 1 .. 3 PROVE q[c] = triple[c]
      OBVIOUS
    <3>1. met[q[c]] = [e \in 1 .. 3 |-> met[q[e]]][c]
      OBVIOUS
    <3>2. met[triple[c]] = [e \in 1 .. 3 |-> met[triple[e]]][c]
      OBVIOUS
    <3>3. met[q[c]] = met[triple[c]]
      BY <2>6, <3>1, <3>2
    <3> QED BY <2>1, <2>5, <3>3 DEF Distinct
  <2>8. q = triple
    <3>1. q[1] = triple[1] /\ q[2] = triple[2] /\ q[3] = triple[3]
      BY <2>7
    <3> QED BY <2>4, <3>1 DEF Row
  <2>9. t.i = p
    BY <1>3, <2>4, <2>8 DEF Distinct, q
  <2> QED BY <2>4, <2>9 DEF t, data
<1>12. ShownAs(Pushed(mid, data), N, Meet(met, r), r)
  BY <1>7, <1>9, <1>10, <1>11, PushedShown
<1> QED BY <1>1, <1>12

-----------------------------------------------------------------------------
(* What interning a parser's term comes to. *)

\* A parser's term with the blank nodes that N has for its labels.
RenamedSimple(N, scope, term) ==
    IF term.t = "blank" THEN [t |-> "blank", label |-> N[<<scope, term.label>>]] ELSE term
Renamed(N, scope, term) ==
    IF term.t = "triple"
    THEN [t |-> "triple", parts |-> [c \in 1 .. 3 |-> RenamedSimple(N, scope, term.parts[c])]]
    ELSE RenamedSimple(N, scope, term)

\* What a parser gives, and such terms whose labels N knows.
SimpleGiven(term) ==
    \/ term = Iri(term.s)
    \/ term = [t |-> "blank", label |-> term.label]
    \/ /\ term = LiteralSays(term.lex, term.datatype, term.lang, term.dir)
       /\ term.lang = <<>> \/ term.lang = <<term.lang[1]>>
SimpleIn(N, scope, term) ==
    /\ SimpleGiven(term)
    /\ term.t = "blank" => <<scope, term.label>> \in DOMAIN N
TermIn(N, scope, term) ==
    \/ term.t # "triple" /\ SimpleIn(N, scope, term)
    \/ term.t = "triple" /\ \A c \in 1 .. 3 : SimpleIn(N, scope, term.parts[c])

\* A row of ids is that of three terms; what was met before is met still.
Stands(met, row, terms) ==
    \A c \in 1 .. 3 : row[c] \in DOMAIN met /\ met[row[c]] = terms[c]
RowShown(made, N, met, after, terms) ==
    /\ Shows(made.store, N, after) /\ Grows(met, after)
    /\ made.row \in Row /\ Stands(after, made.row, terms)

\* Meeting a term loses none.
LEMMA MeetGrows ==
    ASSUME NEW met, IsList(met), NEW term
    PROVE  IsList(Meet(met, term)) /\ Grows(met, Meet(met, term))
<1>1. CASE term \in ToSet(met)
  BY <1>1 DEF Meet, Grows
<1>2. CASE term \notin ToSet(met)
  <2>1. Meet(met, term) = Append(met, term)
    BY <1>2 DEF Meet
  <2> QED BY <2>1, AppendedList
<1> QED BY <1>1, <1>2

\* intern_oxrdf, of a term that is no triple term.
LEMMA SimpleShown ==
    ASSUME NEW st, NEW N, NEW met, Shows(st, N, met), Distinct(N),
           NEW scope, NEW term, SimpleIn(N, scope, term)
    PROVE  LET r == RenamedSimple(N, scope, term)
           IN  /\ ShownAs(InternSimple(st, term, scope), N, MeetSimple(met, r), r)
               /\ Grows(met, MeetSimple(met, r))
<1> DEFINE r == RenamedSimple(N, scope, term)
           found == InternSimple(st, term, scope)
<1>0. IsList(met)
  BY DEF Shows
<1>1. CASE term = Iri(term.s)
  <2>1. term.t = "iri"
    BY <1>1 DEF Iri
  <2>2. r = term /\ found = NamedNode(st, term.s) /\ MeetSimple(met, r) = Meet(met, term)
    BY <2>1 DEF RenamedSimple, InternSimple, MeetSimple
  <2> HIDE DEF r, found
  <2>3. ShownAs(found, N, Meet(met, term), term)
    BY <1>1, <2>2, IriShown
  <2> QED BY <1>0, <2>2, <2>3, MeetGrows DEF r, found
<1>2. CASE term = [t |-> "blank", label |-> term.label]
  <2>0. term.t = "blank"
    BY <1>2
  <2>1. term.t = "blank" /\ <<scope, term.label>> \in DOMAIN N
    BY <2>0 DEF SimpleIn
  <2>2. r = [t |-> "blank", label |-> N[<<scope, term.label>>]]
    BY <2>1 DEF RenamedSimple
  <2>3. r.t = "blank"
    BY <2>2
  <2>4. found = BlankNode(st, scope, term.label) /\ MeetSimple(met, r) = Meet(met, r)
    BY <2>1, <2>3 DEF InternSimple, MeetSimple
  <2> HIDE DEF r, found
  <2>5. ShownAs(found, N, Meet(met, r), r)
    BY <2>1, <2>2, <2>4, BlankShown
  <2> QED BY <1>0, <2>4, <2>5, MeetGrows DEF r, found
<1>3. CASE /\ term = LiteralSays(term.lex, term.datatype, term.lang, term.dir)
           /\ term.lang = <<>> \/ term.lang = <<term.lang[1]>>
  <2>1. term.t = "literal"
    BY <1>3 DEF LiteralSays
  <2>2. /\ r = term
        /\ found = Literal(st, term.lex, term.datatype, term.lang, term.dir)
        /\ MeetSimple(met, r) = Meet(Meet(met, Iri(term.datatype)), term)
    BY <2>1 DEF RenamedSimple, InternSimple, MeetSimple
  <2> HIDE DEF r, found
  <2>3. ShownAs(found, N, Meet(Meet(met, Iri(term.datatype)), term), term)
    BY <1>3, <2>2, LiteralShown
  <2> DEFINE then == Meet(met, Iri(term.datatype))
  <2>4. IsList(then) /\ Grows(met, then)
    BY <1>0, MeetGrows
  <2> HIDE DEF then
  <2>5. Grows(then, Meet(then, term))
    BY <2>4, MeetGrows
  <2>6. Grows(met, Meet(then, term))
    BY <2>4, <2>5, GrowsOn
  <2> QED BY <2>2, <2>3, <2>6 DEF r, found, then
<1> QED BY <1>1, <1>2, <1>3 DEF SimpleIn, SimpleGiven

\* Three in a row, each found with those before it met.
LEMMA RowStands ==
    ASSUME NEW met, NEW one, NEW two, NEW after,
           Grows(met, one), Grows(one, two), Grows(two, after),
           IsList(after), NEW st, NEW N, Shows(st, N, after),
           NEW s, NEW p, NEW o, NEW terms,
           s \in DOMAIN one, one[s] = terms[1], p \in DOMAIN two, two[p] = terms[2],
           o \in DOMAIN after, after[o] = terms[3],
           NEW made, made = [store |-> st, row |-> <<s, p, o>>]
    PROVE  RowShown(made, N, met, after, terms)
<1>1. Grows(met, after) /\ Grows(one, after)
  BY GrowsOn
<1>2. s \in DOMAIN after /\ after[s] = terms[1] /\ p \in DOMAIN after /\ after[p] = terms[2]
  BY <1>1 DEF Grows
<1>3. \A i \in DOMAIN after : i \in Nat
  <2>1. DOMAIN after = 1 .. Len(after) /\ Len(after) \in Nat
    BY LenProperties DEF IsList
  <2> QED BY <2>1
<1>4. made.store = st /\ made.row = <<s, p, o>>
  OBVIOUS
<1>5. made.row \in Row
  BY <1>2, <1>3, <1>4 DEF Row
<1>6. Stands(after, made.row, terms)
  BY <1>2, <1>4 DEF Stands
<1> QED BY <1>1, <1>4, <1>5, <1>6 DEF RowShown

\* The parts of a triple term.
LEMMA PartsShown ==
    ASSUME NEW st, NEW N, NEW met, Shows(st, N, met), Distinct(N),
           NEW scope, NEW terms, \A c \in 1 .. 3 : SimpleIn(N, scope, terms[c]),
           NEW read, \A c \in 1 .. 3 : read[c] = RenamedSimple(N, scope, terms[c])
    PROVE  RowShown(InternThree(InternSimple, st, terms, scope), N, met,
                    MeetThree(MeetSimple, met, read), read)
<1> DEFINE s == InternSimple(st, terms[1], scope)
           p == InternSimple(s.store, terms[2], scope)
           o == InternSimple(p.store, terms[3], scope)
           one == MeetSimple(met, read[1])
           two == MeetSimple(one, read[2])
           after == MeetSimple(two, read[3])
           made == InternThree(InternSimple, st, terms, scope)
<1>1. made = [store |-> o.store, row |-> <<s.id, p.id, o.id>>]
  BY DEF InternThree
<1>2. MeetThree(MeetSimple, met, read) = after
  BY DEF MeetThree
<1>3. /\ SimpleIn(N, scope, terms[1]) /\ read[1] = RenamedSimple(N, scope, terms[1])
      /\ SimpleIn(N, scope, terms[2]) /\ read[2] = RenamedSimple(N, scope, terms[2])
      /\ SimpleIn(N, scope, terms[3]) /\ read[3] = RenamedSimple(N, scope, terms[3])
  OBVIOUS
<1>4. ShownAs(s, N, one, read[1]) /\ Grows(met, one)
  BY <1>3, SimpleShown
<1> HIDE DEF made, s, one
<1>5. Shows(s.store, N, one)
  BY <1>4 DEF ShownAs
<1>6. ShownAs(p, N, two, read[2]) /\ Grows(one, two)
  BY <1>3, <1>5, SimpleShown
<1> HIDE DEF p, two
<1>7. Shows(p.store, N, two)
  BY <1>6 DEF ShownAs
<1>8. ShownAs(o, N, after, read[3]) /\ Grows(two, after)
  BY <1>3, <1>7, SimpleShown
<1> HIDE DEF o, after
<1>9. IsList(after)
  BY <1>8 DEF ShownAs, Shows
<1>10. RowShown(made, N, met, after, read)
  BY <1>1, <1>4, <1>6, <1>8, <1>9, RowStands DEF ShownAs
<1> QED BY <1>2, <1>10 DEF made

\* intern_oxrdf.
LEMMA TermShown ==
    ASSUME NEW st, NEW N, NEW met, Shows(st, N, met), Distinct(N),
           NEW scope, NEW term, TermIn(N, scope, term)
    PROVE  LET r == Renamed(N, scope, term)
           IN  /\ ShownAs(InternTerm(st, term, scope), N, MeetTerm(met, r), r)
               /\ Grows(met, MeetTerm(met, r))
<1> DEFINE r == Renamed(N, scope, term)
           found == InternTerm(st, term, scope)
<1>1. CASE term.t # "triple"
  <2>1. r = RenamedSimple(N, scope, term) /\ found = InternSimple(st, term, scope)
    BY <1>1 DEF Renamed, InternTerm
  <2>2. r.t # "triple"
    <3>1. CASE term.t = "blank"
      <4>1. r = [t |-> "blank", label |-> N[<<scope, term.label>>]]
        BY <2>1, <3>1 DEF RenamedSimple
      <4> QED BY <4>1
    <3>2. CASE term.t # "blank"
      BY <1>1, <2>1, <3>2 DEF RenamedSimple
    <3> QED BY <3>1, <3>2
  <2>3. MeetTerm(met, r) = MeetSimple(met, r)
    BY <2>2 DEF MeetTerm
  <2>4. SimpleIn(N, scope, term)
    BY <1>1 DEF TermIn
  <2> HIDE DEF r, found
  <2>5. ShownAs(found, N, MeetSimple(met, r), r) /\ Grows(met, MeetSimple(met, r))
    BY <2>1, <2>4, SimpleShown
  <2> QED BY <2>3, <2>5 DEF r, found
<1>2. CASE term.t = "triple"
  <2> DEFINE read == [c \in 1 .. 3 |-> RenamedSimple(N, scope, term.parts[c])]
             parts == InternThree(InternSimple, st, term.parts, scope)
             then == MeetThree(MeetSimple, met, read)
  <2>1. r = [t |-> "triple", parts |-> read]
    BY <1>2 DEF Renamed
  <2>2. found = TripleTerm(parts.store, parts.row)
    BY <1>2 DEF InternTerm
  <2>3. \A c \in 1 .. 3 : SimpleIn(N, scope, term.parts[c])
    BY <1>2 DEF TermIn
  <2>4. \A c \in 1 .. 3 : read[c] = RenamedSimple(N, scope, term.parts[c])
    OBVIOUS
  <2>5. read = [c \in 1 .. 3 |-> read[c]]
    OBVIOUS
  <2> HIDE DEF read, r, found
  <2>6. RowShown(parts, N, met, then, read)
    BY <2>3, <2>4, PartsShown
  <2>7. MeetTerm(met, r) = Meet(then, r)
    <3>1. r.t = "triple" /\ r.parts = read
      BY <2>1
    <3> QED BY <3>1 DEF MeetTerm
  <2> HIDE DEF parts, then
  <2>8. /\ Shows(parts.store, N, then) /\ Grows(met, then) /\ parts.row \in Row
        /\ \A c \in 1 .. 3 : parts.row[c] \in DOMAIN then /\ then[parts.row[c]] = read[c]
    BY <2>6 DEF RowShown, Stands
  <2>9. r = [t |-> "triple", parts |-> [c \in 1 .. 3 |-> then[parts.row[c]]]]
    <3>1. [c \in 1 .. 3 |-> then[parts.row[c]]] = [c \in 1 .. 3 |-> read[c]]
      BY <2>8
    <3> QED BY <2>1, <2>5, <3>1
  <2>10. ShownAs(found, N, Meet(then, r), r)
    <3>1. \A c \in 1 .. 3 : parts.row[c] \in DOMAIN then
      BY <2>8
    <3> QED BY <2>2, <2>8, <2>9, <3>1, TripleShown
  <2>11. Grows(met, Meet(then, r))
    <3>1. IsList(then)
      BY <2>8 DEF Shows
    <3>2. Grows(then, Meet(then, r))
      BY <3>1, MeetGrows
    <3> QED BY <2>8, <3>2, GrowsOn
  <2> QED BY <2>7, <2>10, <2>11 DEF r, found
<1> QED BY <1>1, <1>2

\* The terms of a triple.
LEMMA TermsShown ==
    ASSUME NEW st, NEW N, NEW met, Shows(st, N, met), Distinct(N),
           NEW scope, NEW terms, \A c \in 1 .. 3 : TermIn(N, scope, terms[c]),
           NEW read, \A c \in 1 .. 3 : read[c] = Renamed(N, scope, terms[c])
    PROVE  RowShown(InternThree(InternTerm, st, terms, scope), N, met,
                    MeetThree(MeetTerm, met, read), read)
<1> DEFINE s == InternTerm(st, terms[1], scope)
           p == InternTerm(s.store, terms[2], scope)
           o == InternTerm(p.store, terms[3], scope)
           one == MeetTerm(met, read[1])
           two == MeetTerm(one, read[2])
           after == MeetTerm(two, read[3])
           made == InternThree(InternTerm, st, terms, scope)
<1>1. made = [store |-> o.store, row |-> <<s.id, p.id, o.id>>]
  BY DEF InternThree
<1>2. MeetThree(MeetTerm, met, read) = after
  BY DEF MeetThree
<1>3. /\ TermIn(N, scope, terms[1]) /\ read[1] = Renamed(N, scope, terms[1])
      /\ TermIn(N, scope, terms[2]) /\ read[2] = Renamed(N, scope, terms[2])
      /\ TermIn(N, scope, terms[3]) /\ read[3] = Renamed(N, scope, terms[3])
  OBVIOUS
<1>4. ShownAs(s, N, one, read[1]) /\ Grows(met, one)
  BY <1>3, TermShown
<1> HIDE DEF made, s, one
<1>5. Shows(s.store, N, one)
  BY <1>4 DEF ShownAs
<1>6. ShownAs(p, N, two, read[2]) /\ Grows(one, two)
  BY <1>3, <1>5, TermShown
<1> HIDE DEF p, two
<1>7. Shows(p.store, N, two)
  BY <1>6 DEF ShownAs
<1>8. ShownAs(o, N, after, read[3]) /\ Grows(two, after)
  BY <1>3, <1>7, TermShown
<1> HIDE DEF o, after
<1>9. IsList(after)
  BY <1>8 DEF ShownAs, Shows
<1>10. RowShown(made, N, met, after, read)
  BY <1>1, <1>4, <1>6, <1>8, <1>9, RowStands DEF ShownAs
<1> QED BY <1>2, <1>10 DEF made

\* What a store shows, met again, is met already: a literal's datatype and a
\* triple term's parts were before it.
LEMMA SimpleAgain ==
    ASSUME NEW met, NEW N, NEW st, Shows(st, N, met), NEW i \in DOMAIN met
    PROVE  MeetSimple(met, met[i]) = met
<1> DEFINE r == met[i]
           t == st.terms[i]
<1>1. Meet(met, r) = met
  BY MeetAgain
<1>2. CASE r.t # "literal"
  BY <1>1, <1>2 DEF MeetSimple
<1>3. CASE r.t = "literal"
  <2>1. Means(st, N, met, t, r) /\ StoreRight(st) /\ DOMAIN met = DOMAIN st.terms
    BY DEF Shows
  <2>2. LiteralMeans(st, t, r)
    BY <1>3, <2>1, KindOfMeaning
  <2> DEFINE d == t.datatype
  <2>3. LiteralFits(st, t)
    BY <2>1, <2>2, KindsAre DEF LiteralMeans, LiteralRight
  <2>4. d \in DOMAIN met /\ st.terms[d].kind = "iri"
    BY <2>1, <2>3 DEF LiteralFits, IsIri
  <2>5. Means(st, N, met, st.terms[d], met[d])
    BY <2>4 DEF Shows
  <2>6. met[d] = Iri(st.strings[st.terms[d].s])
    BY <2>4, <2>5, KindOfMeaning DEF IriMeans
  <2>7. r.datatype = st.strings[st.terms[d].s]
    BY <2>2 DEF LiteralMeans
  <2> HIDE DEF r, d, t
  <2>8. Meet(met, Iri(r.datatype)) = met
    BY <2>4, <2>6, <2>7, MeetAgain
  <2> QED BY <1>1, <1>3, <2>8 DEF MeetSimple, r
<1> QED BY <1>2, <1>3

\* The same of any term.
LEMMA TermAgain ==
    ASSUME NEW met, NEW N, NEW st, Shows(st, N, met), NEW i \in DOMAIN met
    PROVE  MeetTerm(met, met[i]) = met
<1> DEFINE r == met[i]
           t == st.terms[i]
<1>1. CASE r.t # "triple"
  BY <1>1, SimpleAgain DEF MeetTerm
<1>2. CASE r.t = "triple"
  <2>1. Means(st, N, met, t, r)
    BY DEF Shows
  <2>2. TripleMeans(st, met, t, r)
    BY <1>2, <2>1, KindOfMeaning
  <2> DEFINE q == st.tripleTerms[t.i]
  <2>3. /\ \A c \in 1 .. 3 : q[c] \in DOMAIN met
        /\ r.parts = [c \in 1 .. 3 |-> met[q[c]]]
    <3>1. /\ \A c \in 1 .. 3 : q[c] \in DOMAIN met
          /\ r = [t |-> "triple", parts |-> [c \in 1 .. 3 |-> met[q[c]]]]
      BY <2>2 DEF TripleMeans
    <3> HIDE DEF r, t, q
    <3> QED BY <3>1
  <2> HIDE DEF q
  <2>4. /\ q[1] \in DOMAIN met /\ r.parts[1] = met[q[1]]
        /\ q[2] \in DOMAIN met /\ r.parts[2] = met[q[2]]
        /\ q[3] \in DOMAIN met /\ r.parts[3] = met[q[3]]
    BY <2>3
  <2>5. /\ MeetSimple(met, r.parts[1]) = met /\ MeetSimple(met, r.parts[2]) = met
        /\ MeetSimple(met, r.parts[3]) = met
    BY <2>4, SimpleAgain
  <2>6. MeetThree(MeetSimple, met, r.parts) = met
    BY <2>5 DEF MeetThree
  <2>7. Meet(met, r) = met
    BY MeetAgain
  <2>8. MeetTerm(met, r) = met
    BY <1>2, <2>6, <2>7 DEF MeetTerm
  <2> QED BY <2>8
<1> QED BY <1>1, <1>2

\* And of the terms of a triple.
LEMMA TermsAgain ==
    ASSUME NEW met, NEW N, NEW st, Shows(st, N, met), NEW row, NEW terms, Stands(met, row, terms)
    PROVE  MeetThree(MeetTerm, met, terms) = met
<1>1. /\ row[1] \in DOMAIN met /\ met[row[1]] = terms[1]
      /\ row[2] \in DOMAIN met /\ met[row[2]] = terms[2]
      /\ row[3] \in DOMAIN met /\ met[row[3]] = terms[3]
  BY DEF Stands
<1>2. /\ MeetTerm(met, terms[1]) = met /\ MeetTerm(met, terms[2]) = met
      /\ MeetTerm(met, terms[3]) = met
  BY <1>1, TermAgain
<1> QED BY <1>2 DEF MeetThree

\* What is met on the way through the first n triples.
Meets(f, met, triples, n) ==
    f = [k \in 0 .. n |-> IF k = 0 THEN met
                        ELSE MeetThree(MeetTerm, f[k - 1], triples[k])]

\* They can be met one after the other, whatever they are.
LEMMA MeetsExist ==
    ASSUME NEW n \in Nat, NEW met, NEW triples
    PROVE  \E f : Meets(f, met, triples, n)
<1> DEFINE Some(m) == \E f : Meets(f, met, triples, m)
           Bad == {m \in 0 .. n : ~Some(m)}
<1> HIDE DEF Some
<1>1. SUFFICES ASSUME NEW m \in Bad, \A k \in Bad : m <= k
               PROVE  FALSE
  <2>1. Bad \in SUBSET Nat
    OBVIOUS
  <2>2. n \in 0 .. n
    OBVIOUS
  <2>3. SUFFICES Bad = {}
    BY <2>2 DEF Some
  <2> HIDE DEF Bad
  <2> QED BY <1>1, <2>1, LeastNumber
<1>2. m \in 0 .. n /\ ~Some(m)
  OBVIOUS
<1>3. CASE m = 0
  <2>1. Meets([k \in 0 .. 0 |-> met], met, triples, 0)
    BY DEF Meets
  <2> QED BY <1>2, <1>3, <2>1 DEF Some
<1>4. CASE m > 0
  <2>1. m - 1 \in 0 .. n /\ ~(m <= m - 1)
    BY <1>2, <1>4
  <2>2. Some(m - 1)
    BY <1>1, <2>1
  <2>3. PICK f : Meets(f, met, triples, m - 1)
    BY <2>2 DEF Some
  <2> DEFINE h == [k \in 0 .. m |->
                     IF k = m THEN MeetThree(MeetTerm, f[m - 1], triples[m]) ELSE f[k]]
  <2>4. ASSUME NEW k \in 0 .. m
        PROVE  h[k] = IF k = 0 THEN met ELSE MeetThree(MeetTerm, h[k - 1], triples[k])
    <3>1. CASE k = m
      <4>1. m - 1 \in 0 .. m /\ m - 1 # m
        BY <1>2, <1>4
      <4>2. h[m - 1] = f[m - 1]
        BY <4>1
      <4> QED BY <1>4, <3>1, <4>2
    <3>2. CASE k # m
      <4>1. k \in 0 .. (m - 1) /\ (k # 0 => k - 1 \in 0 .. (m - 1))
        BY <1>2, <3>2
      <4>2. h[k] = f[k] /\ (k # 0 => h[k - 1] = f[k - 1])
        BY <1>2, <3>2, <4>1
      <4>3. f[k] = IF k = 0 THEN met ELSE MeetThree(MeetTerm, f[k - 1], triples[k])
        BY <2>3, <4>1 DEF Meets
      <4> QED BY <4>2, <4>3
    <3> QED BY <3>1, <3>2
  <2>5. Meets(h, met, triples, m)
    <3>1. h = [k \in 0 .. m |-> h[k]]
      OBVIOUS
    <3> HIDE DEF h
    <3> QED BY <2>4, <3>1 DEF Meets
  <2> QED BY <1>2, <2>5 DEF Some
<1> QED BY <1>2, <1>3, <1>4

\* What is met before the first triple and after each.
LEMMA MetRead ==
    ASSUME NEW n \in Nat, NEW met, NEW triples, n = Len(triples)
    PROVE  /\ MetIn(met, triples)[0] = met
           /\ \A k \in 1 .. n :
                 MetIn(met, triples)[k] =
                    MeetThree(MeetTerm, MetIn(met, triples)[k - 1], triples[k])
<1> DEFINE f == CHOOSE g : Meets(g, met, triples, n)
<1>1. MetIn(met, triples) = f
  BY DEF MetIn, Meets
<1>2. Meets(f, met, triples, n)
  <2>1. \E g : Meets(g, met, triples, n)
    BY MeetsExist
  <2>2. f = CHOOSE g : Meets(g, met, triples, n)
    OBVIOUS
  <2> HIDE DEF f
  <2> QED BY <2>1, <2>2
<1> HIDE DEF f
<1>3. \A k \in 0 .. n : f[k] = IF k = 0 THEN met ELSE MeetThree(MeetTerm, f[k - 1], triples[k])
  BY <1>2 DEF Meets
<1>4. 0 \in 0 .. n /\ \A k \in 1 .. n : k \in 0 .. n /\ k # 0
  OBVIOUS
<1> QED BY <1>1, <1>3, <1>4

\* What is met on the way through the first n IRIs of the vocabulary.
Learns(f, n) ==
    f = [k \in 0 .. n |-> IF k = 0 THEN <<>>
                        ELSE Meet(f[k - 1], Iri(Vocabulary[k]))]

\* They can be met one after the other, whatever they are.
LEMMA LearnsExist ==
    ASSUME NEW n \in Nat
    PROVE  \E f : Learns(f, n)
<1> DEFINE Some(m) == \E f : Learns(f, m)
           Bad == {m \in 0 .. n : ~Some(m)}
<1> HIDE DEF Some
<1>1. SUFFICES ASSUME NEW m \in Bad, \A k \in Bad : m <= k
               PROVE  FALSE
  <2>1. Bad \in SUBSET Nat
    OBVIOUS
  <2>2. n \in 0 .. n
    OBVIOUS
  <2>3. SUFFICES Bad = {}
    BY <2>2 DEF Some
  <2> HIDE DEF Bad
  <2> QED BY <1>1, <2>1, LeastNumber
<1>2. m \in 0 .. n /\ ~Some(m)
  OBVIOUS
<1>3. CASE m = 0
  <2>1. Learns([k \in 0 .. 0 |-> <<>>], 0)
    BY DEF Learns
  <2> QED BY <1>2, <1>3, <2>1 DEF Some
<1>4. CASE m > 0
  <2>1. m - 1 \in 0 .. n /\ ~(m <= m - 1)
    BY <1>2, <1>4
  <2>2. Some(m - 1)
    BY <1>1, <2>1
  <2>3. PICK f : Learns(f, m - 1)
    BY <2>2 DEF Some
  <2> DEFINE h == [k \in 0 .. m |->
                     IF k = m THEN Meet(f[m - 1], Iri(Vocabulary[m])) ELSE f[k]]
  <2>4. ASSUME NEW k \in 0 .. m
        PROVE  h[k] = IF k = 0 THEN <<>> ELSE Meet(h[k - 1], Iri(Vocabulary[k]))
    <3>1. CASE k = m
      <4>1. m - 1 \in 0 .. m /\ m - 1 # m
        BY <1>2, <1>4
      <4>2. h[m - 1] = f[m - 1]
        BY <4>1
      <4> QED BY <1>4, <3>1, <4>2
    <3>2. CASE k # m
      <4>1. k \in 0 .. (m - 1) /\ (k # 0 => k - 1 \in 0 .. (m - 1))
        BY <1>2, <3>2
      <4>2. h[k] = f[k] /\ (k # 0 => h[k - 1] = f[k - 1])
        BY <1>2, <3>2, <4>1
      <4>3. f[k] = IF k = 0 THEN <<>> ELSE Meet(f[k - 1], Iri(Vocabulary[k]))
        BY <2>3, <4>1 DEF Learns
      <4> QED BY <4>2, <4>3
    <3> QED BY <3>1, <3>2
  <2>5. Learns(h, m)
    <3>1. h = [k \in 0 .. m |-> h[k]]
      OBVIOUS
    <3> HIDE DEF h
    <3> QED BY <2>4, <3>1 DEF Learns
  <2> QED BY <1>2, <2>5 DEF Some
<1> QED BY <1>2, <1>3, <1>4

\* Nothing is met before anything is in the store.
LEMMA EmptyShown ==
    ASSUME NEW N
    PROVE  Shows(EmptyStore, N, <<>>)
<1> DEFINE st == EmptyStore
<1>1. st.strings = <<>> /\ st.terms = <<>> /\ st.tripleTerms = <<>> /\ st.blankNumbers = <<>>
  BY DEF EmptyStore
<1>2. StoreRight(st)
  BY EmptyRight
<1> HIDE DEF st
<1>3. DOMAIN <<>> = {} /\ <<>> = [x \in DOMAIN <<>> |-> <<>>[x]]
  OBVIOUS
<1>4. IsFiniteSet({})
  BY FS_EmptySet
<1>5. Numbered(st, N)
  BY <1>1, <1>3, <1>4 DEF Numbered, IsTable, Distinct
<1>6. IsList(<<>>) /\ Distinct(<<>>)
  BY <1>3 DEF IsList, Distinct
<1>7. Shows(st, N, <<>>)
  BY <1>1, <1>2, <1>3, <1>5, <1>6 DEF Shows
<1> QED BY <1>7 DEF st

\* The terms of a new store are those of the vocabulary.
LEMMA FreshShown ==
    ASSUME NEW N
    PROVE  Shows(Fresh, N, Known)
<1> DEFINE n == Len(Vocabulary)
           f == CHOOSE g : Steps(g, n)
           h == CHOOSE g : Learns(g, n)
<1>1. n \in Nat
  BY VocabularyAssumption, LenProperties
<1>2. Fresh = f[n] /\ Known = h[n]
  BY DEF Fresh, Steps, Known, Learns
<1>3. Steps(f, n) /\ Learns(h, n)
  BY <1>1, StepsExist, LearnsExist
<1> DEFINE Bad == {k \in 0 .. n : ~Shows(f[k], N, h[k])}
<1> HIDE DEF f, h, n
<1>4. SUFFICES Bad = {}
  BY <1>1, <1>2
<1>5. SUFFICES ASSUME NEW m \in Bad, \A k \in Bad : m <= k
               PROVE  FALSE
  <2>1. Bad \in SUBSET Nat
    BY <1>1
  <2> HIDE DEF Bad
  <2> QED BY <1>5, <2>1, LeastNumber
<1>6. m \in 0 .. n /\ ~Shows(f[m], N, h[m])
  OBVIOUS
<1>7. CASE m = 0
  <2>1. f[m] = EmptyStore /\ h[m] = <<>>
    BY <1>3, <1>6, <1>7 DEF Steps, Learns
  <2> QED BY <1>6, <2>1, EmptyShown
<1>8. CASE m > 0
  <2>1. m - 1 \in 0 .. n /\ ~(m <= m - 1)
    BY <1>1, <1>6, <1>8
  <2>2. Shows(f[m - 1], N, h[m - 1])
    BY <1>5, <2>1
  <2>3. /\ f[m] = NamedNode(f[m - 1], Vocabulary[m]).store
        /\ h[m] = Meet(h[m - 1], Iri(Vocabulary[m]))
    BY <1>1, <1>3, <1>6, <1>8 DEF Steps, Learns
  <2> QED BY <1>6, <2>2, <2>3, IriShown DEF ShownAs
<1> QED BY <1>1, <1>6, <1>7, <1>8

\* What has been met by the end of the first n documents.
MeetsAll(f, js, n) ==
    f = [k \in 0 .. n |-> IF k = 0 THEN Known
                        ELSE MetIn(f[k - 1], StatedBy(js, k))[Len(StatedBy(js, k))]]

\* They can be met one after the other, whatever they are.
LEMMA MeetsAllExist ==
    ASSUME NEW n \in Nat, NEW js
    PROVE  \E f : MeetsAll(f, js, n)
<1> DEFINE Some(m) == \E f : MeetsAll(f, js, m)
           Bad == {m \in 0 .. n : ~Some(m)}
<1> HIDE DEF Some
<1>1. SUFFICES ASSUME NEW m \in Bad, \A k \in Bad : m <= k
               PROVE  FALSE
  <2>1. Bad \in SUBSET Nat
    OBVIOUS
  <2>2. n \in 0 .. n
    OBVIOUS
  <2>3. SUFFICES Bad = {}
    BY <2>2 DEF Some
  <2> HIDE DEF Bad
  <2> QED BY <1>1, <2>1, LeastNumber
<1>2. m \in 0 .. n /\ ~Some(m)
  OBVIOUS
<1>3. CASE m = 0
  <2>1. MeetsAll([k \in 0 .. 0 |-> Known], js, 0)
    BY DEF MeetsAll
  <2> QED BY <1>2, <1>3, <2>1 DEF Some
<1>4. CASE m > 0
  <2>1. m - 1 \in 0 .. n /\ ~(m <= m - 1)
    BY <1>2, <1>4
  <2>2. Some(m - 1)
    BY <1>1, <2>1
  <2>3. PICK f : MeetsAll(f, js, m - 1)
    BY <2>2 DEF Some
  <2> DEFINE h == [k \in 0 .. m |->
                     IF k = m THEN MetIn(f[m - 1], StatedBy(js, m))[Len(StatedBy(js, m))] ELSE f[k]]
  <2>4. ASSUME NEW k \in 0 .. m
        PROVE  h[k] = IF k = 0 THEN Known
                      ELSE MetIn(h[k - 1], StatedBy(js, k))[Len(StatedBy(js, k))]
    <3>1. CASE k = m
      <4>1. m - 1 \in 0 .. m /\ m - 1 # m
        BY <1>2, <1>4
      <4>2. h[m - 1] = f[m - 1]
        BY <4>1
      <4> QED BY <1>4, <3>1, <4>2
    <3>2. CASE k # m
      <4>1. k \in 0 .. (m - 1) /\ (k # 0 => k - 1 \in 0 .. (m - 1))
        BY <1>2, <3>2
      <4>2. h[k] = f[k] /\ (k # 0 => h[k - 1] = f[k - 1])
        BY <1>2, <3>2, <4>1
      <4>3. f[k] = IF k = 0 THEN Known ELSE MetIn(f[k - 1], StatedBy(js, k))[Len(StatedBy(js, k))]
        BY <2>3, <4>1 DEF MeetsAll
      <4> QED BY <4>2, <4>3
    <3> QED BY <3>1, <3>2
  <2>5. MeetsAll(h, js, m)
    <3>1. h = [k \in 0 .. m |-> h[k]]
      OBVIOUS
    <3> HIDE DEF h
    <3> QED BY <2>4, <3>1 DEF MeetsAll
  <2> QED BY <1>2, <2>5 DEF Some
<1> QED BY <1>2, <1>3, <1>4

\* What is met before the first document and by the end of each.
LEMMA MetByRead ==
    ASSUME NEW n \in Nat, NEW js, n = Len(js)
    PROVE  /\ MetBy(js)[0] = Known
           /\ \A k \in 1 .. n :
                 MetBy(js)[k] = MetIn(MetBy(js)[k - 1], StatedBy(js, k))[Len(StatedBy(js, k))]
<1> DEFINE f == CHOOSE g : MeetsAll(g, js, n)
<1>1. MetBy(js) = f
  BY DEF MetBy, MeetsAll
<1>2. MeetsAll(f, js, n)
  <2>1. \E g : MeetsAll(g, js, n)
    BY MeetsAllExist
  <2>2. f = CHOOSE g : MeetsAll(g, js, n)
    OBVIOUS
  <2> HIDE DEF f
  <2> QED BY <2>1, <2>2
<1> HIDE DEF f
<1>3. \A k \in 0 .. n :
         f[k] = IF k = 0 THEN Known
                ELSE MetIn(f[k - 1], StatedBy(js, k))[Len(StatedBy(js, k))]
  BY <1>2 DEF MeetsAll
<1>4. 0 \in 0 .. n /\ \A k \in 1 .. n : k \in 0 .. n /\ k # 0
  OBVIOUS
<1> QED BY <1>1, <1>3, <1>4

-----------------------------------------------------------------------------
(* What is read of a text that parses. *)

\* What does not fall from one place to the next does not fall over many.
LEMMA NeverFalls ==
    ASSUME NEW lo \in Nat, NEW hi \in Nat, NEW q, \A i \in lo .. hi : q[i] \in Nat,
           \A i \in lo .. hi : i + 1 <= hi => q[i] <= q[i + 1],
           NEW i \in lo .. hi, NEW j \in lo .. hi, i <= j
    PROVE  q[i] <= q[j]
<1> DEFINE Bad == {k \in i .. j : ~(q[i] <= q[k])}
<1>1. ASSUME NEW m \in Bad, \A k \in Bad : m <= k PROVE FALSE
  <2>1. m \in i .. j /\ ~(q[i] <= q[m])
    OBVIOUS
  <2>2. m # i
    BY <2>1
  <2>3. /\ m - 1 \in i .. j /\ ~(m <= m - 1) /\ m - 1 \in lo .. hi /\ m \in lo .. hi
        /\ (m - 1) + 1 = m /\ m <= hi
    BY <2>1, <2>2
  <2>4. q[i] <= q[m - 1]
    BY <1>1, <2>3
  <2>5. q[m - 1] <= q[(m - 1) + 1]
    BY <2>3
  <2>6. q[i] \in Nat /\ q[m - 1] \in Nat /\ q[m] \in Nat
    BY <2>3
  <2> QED BY <2>1, <2>3, <2>4, <2>5, <2>6
<1>2. Bad \in SUBSET Nat
  OBVIOUS
<1>3. Bad = {}
  <2> SUFFICES ASSUME Bad # {} PROVE FALSE
    OBVIOUS
  <2> HIDE DEF Bad
  <2>1. PICK m \in Bad : \A k \in Bad : m <= k
    BY <1>2, LeastNumber
  <2> QED BY <1>1, <2>1
<1>4. j \in i .. j
  OBVIOUS
<1> QED BY <1>3, <1>4

\* A list with another behind it.
LEMMA JoinedLists ==
    ASSUME NEW s, IsList(s), NEW u, IsList(u)
    PROVE  /\ IsList(s \o u) /\ Grows(s, s \o u)
           /\ Len(s) \in Nat /\ DOMAIN s = 1 .. Len(s)
           /\ Len(u) \in Nat /\ DOMAIN u = 1 .. Len(u)
           /\ Len(s \o u) = Len(s) + Len(u) /\ DOMAIN (s \o u) = 1 .. (Len(s) + Len(u))
           /\ \A i \in 1 .. Len(u) : (s \o u)[Len(s) + i] = u[i]
<1> DEFINE S == ToSet(s) \cup ToSet(u)
           both == s \o u
<1>1. s \in Seq(S) /\ u \in Seq(S)
  BY SeqMonotonic DEF IsList
<1>2. /\ Len(s) \in Nat /\ DOMAIN s = 1 .. Len(s)
      /\ Len(u) \in Nat /\ DOMAIN u = 1 .. Len(u)
  BY <1>1, LenProperties
<1> HIDE DEF S
<1>3. /\ both \in Seq(S) /\ DOMAIN both = 1 .. (Len(s) + Len(u))
      /\ Len(both) = Len(s) + Len(u)
      /\ \A i \in 1 .. (Len(s) + Len(u)) :
            both[i] = IF i <= Len(s) THEN s[i] ELSE u[i - Len(s)]
  BY <1>1, PlacesOfBoth, ConcatProperties
<1>4. IsList(both)
  BY <1>3, MembersOfSeq DEF IsList
<1> HIDE DEF both
<1>5. Grows(s, both)
  <2>1. \A i \in 1 .. Len(s) : i \in 1 .. (Len(s) + Len(u)) /\ i <= Len(s)
    BY <1>2
  <2> QED BY <1>2, <1>3, <2>1 DEF Grows
<1>6. ASSUME NEW i \in 1 .. Len(u) PROVE both[Len(s) + i] = u[i]
  <2>1. /\ Len(s) + i \in 1 .. (Len(s) + Len(u)) /\ ~(Len(s) + i <= Len(s))
        /\ (Len(s) + i) - Len(s) = i
    BY <1>2
  <2> QED BY <1>3, <2>1
<1> QED BY <1>2, <1>3, <1>4, <1>5, <1>6 DEF both

\* The triples a unit adds.
SaidIn(unit, env, made) ==
    [i \in DOMAIN unit.triples |-> [c \in 1 .. 3 |-> Resolved(unit.triples[i][c], env, made)]]

\* Reading of which nothing fails: f is what is known after each unit.
ReadsWell(f, text) ==
    /\ f[0] = AtFirst
    /\ \A i \in 0 .. Len(text) : f[i].ok /\ f[i].made \in Nat /\ IsList(f[i].triples)
    /\ \A i \in 1 .. Len(text) :
          /\ f[i].env = Declared(f[i - 1].env, text[i].decl)
          /\ f[i].made = f[i - 1].made + Cardinality(Anonymous(text[i].triples))
          /\ f[i].triples = f[i - 1].triples \o SaidIn(text[i], f[i].env, f[i - 1].made)

\* What a unit says is a list as long as its triples.
LEMMA SaidIsList ==
    ASSUME NEW unit, UnitOK(unit), NEW env, NEW made
    PROVE  /\ IsList(SaidIn(unit, env, made))
           /\ DOMAIN SaidIn(unit, env, made) = DOMAIN unit.triples
           /\ Len(SaidIn(unit, env, made)) = Len(unit.triples) /\ Len(unit.triples) \in Nat
           /\ DOMAIN unit.triples = 1 .. Len(unit.triples)
<1> DEFINE n == Len(unit.triples)
           said == SaidIn(unit, env, made)
           S == {said[i] : i \in DOMAIN unit.triples}
<1>1. n \in Nat /\ DOMAIN unit.triples = 1 .. n
  BY LenProperties DEF UnitOK, IsSeq
<1> HIDE DEF n
<1>2. said = [i \in 1 .. n |-> said[i]] /\ DOMAIN said = 1 .. n
  BY <1>1 DEF SaidIn
<1> HIDE DEF said
<1>3. said \in [1 .. n -> S]
  BY <1>1, <1>2
<1> HIDE DEF S
<1>4. said \in Seq(S) /\ Len(said) = n
  BY <1>1, <1>3, FunctionIsSeq
<1>5. IsList(said)
  BY <1>4, MembersOfSeq DEF IsList
<1> QED BY <1>1, <1>2, <1>4, <1>5 DEF said, n

\* A text that parses is read well.
LEMMA ReadWell ==
    ASSUME NEW S, NEW text \in Seq(S), \A unit \in S : UnitOK(unit), Parse(text).ok
    PROVE  ReadsWell(After(text), text)
<1> DEFINE n == Len(text)
           f == After(text)
           Next1(i) == IsNext(f[i], f[i - 1], text[i])
<1>1. /\ n \in Nat /\ Parse(text) = f[n] /\ f[0] = AtFirst
      /\ \A i \in 1 .. n : f[i] = ParseUnit(f[i - 1], text[i])
      /\ \A i \in 0 .. n : Knows(f[i])
  BY TextRead
<1>2. \A i \in 1 .. n : UnitOK(text[i])
  BY ElementOfSeq
<1> HIDE DEF f, n
<1>3. ASSUME NEW i \in 1 .. n PROVE Next1(i)
  <2>1. i - 1 \in 0 .. n
    BY <1>1
  <2>2. Knows(f[i - 1])
    BY <1>1, <2>1
  <2>3. IsNext(ParseUnit(f[i - 1], text[i]), f[i - 1], text[i])
    BY <2>2, UnitRead
  <2> QED BY <1>1, <2>3
<1>4. \A i \in 0 .. n : f[i].ok
  <2> DEFINE Later == {k \in 0 .. n : ~f[n - k].ok}
  <2>1. ASSUME NEW m \in Later, \A k \in Later : m <= k PROVE FALSE
    <3>1. m \in 0 .. n /\ ~f[n - m].ok
      OBVIOUS
    <3>2. m # 0
      <4>1. n - 0 = n
        BY <1>1
      <4> QED BY <1>1, <3>1, <4>1
    <3>3. /\ m - 1 \in 0 .. n /\ ~(m <= m - 1)
          /\ n - m + 1 \in 1 .. n /\ n - (m - 1) = n - m + 1 /\ (n - m + 1) - 1 = n - m
      BY <1>1, <3>1, <3>2
    <3>4. f[n - m + 1].ok
      BY <2>1, <3>3
    <3>5. Next1(n - m + 1)
      BY <1>3, <3>3
    <3> QED BY <3>1, <3>3, <3>4, <3>5 DEF IsNext
  <2>2. Later \in SUBSET Nat
    BY <1>1
  <2>3. Later = {}
    <3> SUFFICES ASSUME Later # {} PROVE FALSE
      OBVIOUS
    <3> HIDE DEF Later
    <3>1. PICK m \in Later : \A k \in Later : m <= k
      BY <2>2, LeastNumber
    <3> QED BY <2>1, <3>1
  <2> SUFFICES ASSUME NEW i \in 0 .. n PROVE f[i].ok
    OBVIOUS
  <2>4. n - i \in 0 .. n /\ n - (n - i) = i
    BY <1>1
  <2> QED BY <2>3, <2>4
<1>5. ASSUME NEW i \in 1 .. n
      PROVE  /\ f[i].env = Declared(f[i - 1].env, text[i].decl)
             /\ f[i].made = f[i - 1].made + Cardinality(Anonymous(text[i].triples))
             /\ f[i].triples = f[i - 1].triples \o SaidIn(text[i], f[i].env, f[i - 1].made)
  <2>1. i \in 0 .. n
    BY <1>1
  <2>2. Next1(i) /\ f[i].ok
    BY <1>3, <1>4, <2>1
  <2>3. f[i].env = Declared(f[i - 1].env, text[i].decl)
    BY <2>2 DEF IsNext
  <2> QED BY <2>2, <2>3 DEF IsNext, SaidIn
<1> DEFINE Right(i) == f[i].made \in Nat /\ IsList(f[i].triples)
<1>6. \A i \in 0 .. n : Right(i)
  <2> DEFINE Bad == {i \in 0 .. n : ~Right(i)}
  <2>1. ASSUME NEW m \in Bad, \A k \in Bad : m <= k PROVE FALSE
    <3>1. m \in 0 .. n /\ ~Right(m)
      OBVIOUS
    <3>2. CASE m = 0
      <4>1. f[0].made = 0 /\ f[0].triples = <<>>
        BY <1>1 DEF AtFirst
      <4>2. IsList(<<>>)
        BY EmptySeq DEF IsList
      <4> QED BY <3>1, <3>2, <4>1, <4>2
    <3>3. CASE m # 0
      <4>1. m - 1 \in 0 .. n /\ ~(m <= m - 1) /\ m \in 1 .. n
        BY <1>1, <3>1, <3>3
      <4>2. Right(m - 1)
        <5> HIDE DEF Right
        <5> QED BY <2>1, <4>1
      <4>3. Cardinality(Anonymous(text[m].triples)) \in Nat
        BY <1>2, <4>1, FS_CardinalityType DEF UnitOK
      <4>4. f[m].made \in Nat
        <5> DEFINE card == Cardinality(Anonymous(text[m].triples))
        <5>1. f[m].made = f[m - 1].made + card /\ f[m - 1].made \in Nat /\ card \in Nat
          BY <1>5, <4>1, <4>2, <4>3
        <5> HIDE DEF card
        <5> QED BY <5>1
      <4> DEFINE said == SaidIn(text[m], f[m].env, f[m - 1].made)
      <4>5. IsList(said)
        BY <1>2, <4>1, SaidIsList
      <4>6. f[m].triples = f[m - 1].triples \o said
        BY <1>5, <4>1
      <4> HIDE DEF said
      <4>7. IsList(f[m].triples)
        BY <4>2, <4>5, <4>6, JoinedLists
      <4> QED BY <3>1, <4>4, <4>7
    <3> QED BY <3>2, <3>3
  <2>2. Bad \in SUBSET Nat
    BY <1>1
  <2>3. Bad = {}
    <3> SUFFICES ASSUME Bad # {} PROVE FALSE
      OBVIOUS
    <3> HIDE DEF Bad
    <3>1. PICK m \in Bad : \A k \in Bad : m <= k
      BY <2>2, LeastNumber
    <3> QED BY <2>1, <3>1
  <2> HIDE DEF Right
  <2> QED BY <2>3
<1> QED BY <1>1, <1>4, <1>5, <1>6 DEF ReadsWell, f, n

\* What the parser gives of a term that is no triple term.
LEMMA SimpleResolved ==
    ASSUME NEW term, SimpleOK(term), NEW env, NEW made
    PROVE  /\ SimpleGiven(ResolvedSimple(term, env, made))
           /\ ResolvedSimple(term, env, made).t # "triple" /\ term.t # "triple"
<1> DEFINE r == ResolvedSimple(term, env, made)
<1>1. CASE term.t = "name"
  <2>1. r = Iri(<<env[term.prefix], term.local>>)
    BY <1>1 DEF ResolvedSimple, Iri
  <2>2. r = Iri(r.s) /\ r.t = "iri"
    BY <2>1 DEF Iri
  <2> QED BY <1>1, <2>2 DEF SimpleGiven
<1>2. CASE term.t = "anon"
  <2>1. r = [t |-> "blank", label |-> <<"anon", made + term.k>>]
    BY <1>2 DEF ResolvedSimple
  <2>2. r = [t |-> "blank", label |-> r.label] /\ r.t = "blank"
    BY <2>1
  <2> QED BY <1>2, <2>2 DEF SimpleGiven
<1>3. CASE term.t = "label"
  <2>1. r = [t |-> "blank", label |-> <<term.label>>]
    BY <1>3 DEF ResolvedSimple
  <2>2. r = [t |-> "blank", label |-> r.label] /\ r.t = "blank"
    BY <2>1
  <2> QED BY <1>3, <2>2 DEF SimpleGiven
<1>4. CASE /\ term.t = "literal" /\ (term.lang = <<>> \/ term.lang = <<term.lang[1]>>)
           /\ term = [t |-> "literal", lex |-> term.lex, datatype |-> term.datatype,
                      lang |-> term.lang, dir |-> term.dir]
  <2>1. r = term
    BY <1>4 DEF ResolvedSimple
  <2>2. r = LiteralSays(r.lex, r.datatype, r.lang, r.dir)
    BY <1>4, <2>1 DEF LiteralSays
  <2>3. r.t = "literal" /\ (r.lang = <<>> \/ r.lang = <<r.lang[1]>>)
    BY <1>4, <2>1
  <2> QED BY <1>4, <2>2, <2>3 DEF SimpleGiven
<1> QED BY <1>1, <1>2, <1>3, <1>4 DEF SimpleOK

\* Of a triple term it gives the parts.
LEMMA TermResolved ==
    ASSUME NEW term, TermOK(term), NEW env, NEW made
    PROVE  /\ term.t # "triple" =>
                 SimpleOK(term) /\ Resolved(term, env, made) = ResolvedSimple(term, env, made)
           /\ term.t = "triple" =>
                 /\ DOMAIN term.parts = 1 .. 3 /\ \A c \in 1 .. 3 : SimpleOK(term.parts[c])
                 /\ Resolved(term, env, made) =
                       [t |-> "triple",
                        parts |-> [c \in 1 .. 3 |-> ResolvedSimple(term.parts[c], env, made)]]
<1>1. CASE term.t # "triple"
  BY <1>1 DEF TermOK, Resolved
<1>2. CASE term.t = "triple"
  <2>1. ~SimpleOK(term)
    BY <1>2 DEF SimpleOK
  <2>2. /\ term = [t |-> "triple", parts |-> term.parts]
        /\ DOMAIN term.parts = 1 .. 3 /\ \A c \in 1 .. 3 : SimpleOK(term.parts[c])
    BY <2>1 DEF TermOK
  <2> DEFINE parts == [c \in 1 .. 3 |-> ResolvedSimple(term.parts[c], env, made)]
  <2>3. Resolved(term, env, made) = [term EXCEPT !.parts = parts]
    BY <1>2 DEF Resolved
  <2> HIDE DEF parts
  <2>4. [term EXCEPT !.parts = parts] = [t |-> "triple", parts |-> parts]
    BY <2>2
  <2> QED BY <1>2, <2>2, <2>3, <2>4 DEF parts
<1> QED BY <1>1, <1>2

\* name has, for the anonymous nodes of a unit, those that it would have were
\* base others made before.
Moves(name, i, total, made, terms) ==
    \A term \in terms :
        /\ term.t # "label"
        /\ term.t = "anon" =>
              /\ term.k \in Nat
              /\ <<i, <<"anon", made + term.k>>>> \in DOMAIN name
              /\ name[<<i, <<"anon", made + term.k>>>>] = <<"anon", total + term.k>>

\* A term of the unit then has that name in either place.
LEMMA SimpleMoved ==
    ASSUME NEW terms, NEW term \in terms, SimpleOK(term), NEW name, NEW i,
           NEW total, NEW made, Moves(name, i, total, made, terms), NEW env
    PROVE  /\ SimpleIn(name, i, ResolvedSimple(term, env, made))
           /\ ResolvedSimple(term, env, total)
                 = RenamedSimple(name, i, ResolvedSimple(term, env, made))
<1> DEFINE r == ResolvedSimple(term, env, made)
           moved == ResolvedSimple(term, env, total)
<1>1. SimpleGiven(r)
  BY SimpleResolved
<1>2. CASE term.t = "anon"
  <2> DEFINE old == <<"anon", made + term.k>>
             new == <<"anon", total + term.k>>
  <2>1. r = [t |-> "blank", label |-> old] /\ moved = [t |-> "blank", label |-> new]
    BY <1>2 DEF ResolvedSimple
  <2>2. <<i, old>> \in DOMAIN name /\ name[<<i, old>>] = new
    BY <1>2 DEF Moves
  <2> HIDE DEF old, new, r, moved
  <2>3. r.t = "blank" /\ r.label = old
    BY <2>1
  <2> QED BY <1>1, <2>1, <2>2, <2>3 DEF SimpleIn, RenamedSimple, r, moved
<1>3. CASE term.t # "anon"
  <2>1. term.t # "label"
    BY DEF Moves
  <2>2. moved = r
    BY <1>3, <2>1 DEF ResolvedSimple
  <2>3. r.t # "blank"
    <3>1. CASE term.t = "name"
      <4>1. r = [t |-> "iri", s |-> <<env[term.prefix], term.local>>]
        BY <3>1 DEF ResolvedSimple
      <4> QED BY <4>1
    <3>2. CASE term.t = "literal"
      <4>1. r = term
        BY <3>2 DEF ResolvedSimple
      <4> QED BY <3>2, <4>1
    <3> QED BY <1>3, <2>1, <3>1, <3>2 DEF SimpleOK
  <2> QED BY <1>1, <2>2, <2>3 DEF SimpleIn, RenamedSimple
<1> QED BY <1>2, <1>3

\* A term is another but for the names of blank nodes.
IsRenamed(name, i, term, whole) == TermIn(name, i, term) /\ whole = Renamed(name, i, term)

\* The same of any term.
LEMMA TermMoved ==
    ASSUME NEW terms, NEW term \in terms, TermOK(term),
           term.t = "triple" => \A c \in 1 .. 3 : term.parts[c] \in terms,
           NEW name, NEW i, NEW total, NEW made, Moves(name, i, total, made, terms), NEW env
    PROVE  IsRenamed(name, i, Resolved(term, env, made), Resolved(term, env, total))
<1> DEFINE r == Resolved(term, env, made)
           moved == Resolved(term, env, total)
<1>1. CASE term.t # "triple"
  <2>1. /\ SimpleOK(term) /\ r = ResolvedSimple(term, env, made)
        /\ moved = ResolvedSimple(term, env, total)
    BY <1>1, TermResolved
  <2> HIDE DEF r, moved
  <2>2. SimpleIn(name, i, r) /\ moved = RenamedSimple(name, i, r)
    BY <2>1, SimpleMoved
  <2>3. r.t # "triple"
    BY <2>1, SimpleResolved
  <2> QED BY <2>2, <2>3 DEF TermIn, Renamed, r, moved, IsRenamed
<1>2. CASE term.t = "triple"
  <2> DEFINE parts == [c \in 1 .. 3 |-> ResolvedSimple(term.parts[c], env, made)]
             others == [c \in 1 .. 3 |-> ResolvedSimple(term.parts[c], env, total)]
  <2>1. /\ \A c \in 1 .. 3 : SimpleOK(term.parts[c])
        /\ r = [t |-> "triple", parts |-> parts] /\ moved = [t |-> "triple", parts |-> others]
    BY <1>2, TermResolved
  <2>2. \A c \in 1 .. 3 : term.parts[c] \in terms
    BY <1>2
  <2>3. \A c \in 1 .. 3 : /\ SimpleIn(name, i, parts[c])
                          /\ others[c] = RenamedSimple(name, i, parts[c])
    <3> SUFFICES ASSUME NEW c \in 1 .. 3
                 PROVE  /\ SimpleIn(name, i, parts[c])
                        /\ others[c] = RenamedSimple(name, i, parts[c])
      OBVIOUS
    <3> DEFINE x == term.parts[c]
    <3>1. x \in terms /\ SimpleOK(x)
      BY <2>1, <2>2
    <3>2. parts[c] = ResolvedSimple(x, env, made) /\ others[c] = ResolvedSimple(x, env, total)
      OBVIOUS
    <3> HIDE DEF x, parts, others
    <3> QED BY <3>1, <3>2, SimpleMoved
  <2>4. others = [c \in 1 .. 3 |-> RenamedSimple(name, i, parts[c])]
    BY <2>3
  <2> HIDE DEF parts, others, r, moved
  <2>5. r.t = "triple" /\ r.parts = parts
    BY <2>1
  <2>6. moved = Renamed(name, i, r)
    BY <2>1, <2>4, <2>5 DEF Renamed
  <2>7. TermIn(name, i, r)
    BY <2>3, <2>5 DEF TermIn
  <2> QED BY <2>6, <2>7 DEF r, moved, IsRenamed
<1> QED BY <1>1, <1>2

\* And of all a unit says.
LEMMA UnitMoved ==
    ASSUME NEW unit, UnitOK(unit), NEW name, NEW i, NEW total, NEW made,
           Moves(name, i, total, made, TermsOf(unit.triples)), NEW env,
           NEW x \in DOMAIN unit.triples, NEW c \in 1 .. 3
    PROVE  IsRenamed(name, i, SaidIn(unit, env, made)[x][c], SaidIn(unit, env, total)[x][c])
<1> DEFINE term == unit.triples[x][c]
<1>1. unit.triples[x] \in ToSet(unit.triples)
  BY DEF ToSet
<1>2. DOMAIN unit.triples[x] = 1 .. 3 /\ TermOK(term)
  BY <1>1 DEF UnitOK
<1>3. term \in TermsOf(unit.triples)
  <2>1. term \in ToSet(unit.triples[x])
    BY <1>2 DEF ToSet
  <2> QED BY <1>1, <2>1 DEF TermsOf
<1>4. term.t = "triple" => \A d \in 1 .. 3 : term.parts[d] \in TermsOf(unit.triples)
  <2> SUFFICES ASSUME term.t = "triple", NEW d \in 1 .. 3
               PROVE  term.parts[d] \in TermsOf(unit.triples)
    OBVIOUS
  <2>1. DOMAIN term.parts = 1 .. 3
    BY <1>2, TermResolved
  <2>2. term.parts[d] \in ToSet(term.parts)
    BY <2>1 DEF ToSet
  <2>3. term \in UNION {ToSet(t) : t \in ToSet(unit.triples)}
    <3>1. term \in ToSet(unit.triples[x])
      BY <1>2 DEF ToSet
    <3> QED BY <1>1, <3>1
  <2> HIDE DEF term
  <2> QED BY <2>2, <2>3 DEF TermsOf
<1>5. /\ SaidIn(unit, env, made)[x][c] = Resolved(term, env, made)
      /\ SaidIn(unit, env, total)[x][c] = Resolved(term, env, total)
  BY DEF SaidIn
<1> HIDE DEF term
<1>6. IsRenamed(name, i, Resolved(term, env, made), Resolved(term, env, total))
  BY <1>2, <1>3, <1>4, TermMoved
<1> QED BY <1>5, <1>6

\* Reading on, nothing that was read is lost.
LEMMA ReadsGrow ==
    ASSUME NEW S, NEW text \in Seq(S), \A unit \in S : UnitOK(unit),
           NEW f, ReadsWell(f, text), NEW i \in 0 .. Len(text), NEW j \in 0 .. Len(text), i <= j
    PROVE  /\ Grows(f[i].triples, f[j].triples) /\ f[i].made <= f[j].made
           /\ Len(f[i].triples) \in Nat /\ Len(f[j].triples) \in Nat
           /\ Len(f[i].triples) <= Len(f[j].triples)
<1> DEFINE n == Len(text)
           Right(k) == Grows(f[i].triples, f[k].triples) /\ f[i].made <= f[k].made
           Bad == {k \in i .. j : ~Right(k)}
<1>1. /\ n \in Nat /\ \A k \in 1 .. n : UnitOK(text[k])
      /\ \A k \in 0 .. n : f[k].made \in Nat /\ IsList(f[k].triples)
      /\ \A k \in 1 .. n :
            /\ f[k].made = f[k - 1].made + Cardinality(Anonymous(text[k].triples))
            /\ f[k].triples = f[k - 1].triples \o SaidIn(text[k], f[k].env, f[k - 1].made)
  BY LenProperties, ElementOfSeq DEF ReadsWell
<1> HIDE DEF n
<1>2. n \in Nat /\ i \in Nat /\ j \in Nat /\ j <= n /\ i \in 0 .. n /\ j \in 0 .. n
  BY <1>1 DEF n
<1>3. ASSUME NEW m \in Bad, \A k \in Bad : m <= k PROVE FALSE
  <2>1. m \in i .. j /\ ~Right(m)
    OBVIOUS
  <2>2. CASE m = i
    <3>1. f[i].made \in Nat
      BY <1>1, <1>2
    <3>2. Grows(f[i].triples, f[i].triples) /\ f[i].made <= f[i].made
      BY <3>1 DEF Grows
    <3> QED BY <2>1, <2>2, <3>2
  <2>3. CASE m # i
    <3>1. m - 1 \in i .. j /\ ~(m <= m - 1) /\ m \in 1 .. n /\ m - 1 \in 0 .. n /\ m \in 0 .. n
      <4>1. m \in i .. j
        BY <2>1
      <4> HIDE DEF Right, Bad
      <4> QED BY <1>2, <2>3, <4>1
    <3>2. Right(m - 1)
      <4> HIDE DEF Right
      <4> QED BY <1>3, <3>1
    <3> DEFINE card == Cardinality(Anonymous(text[m].triples))
               said == SaidIn(text[m], f[m].env, f[m - 1].made)
    <3>3. card \in Nat
      BY <1>1, <3>1, FS_CardinalityType DEF UnitOK
    <3>4. IsList(said)
      BY <1>1, <3>1, SaidIsList
    <3>5. f[m].made = f[m - 1].made + card /\ f[m].triples = f[m - 1].triples \o said
      BY <1>1, <3>1
    <3>6. f[m - 1].made \in Nat /\ f[i].made \in Nat /\ IsList(f[m - 1].triples)
      BY <1>1, <1>2, <3>1
    <3> HIDE DEF card, said
    <3>7. f[i].made <= f[m].made
      BY <3>2, <3>3, <3>5, <3>6
    <3>8. Grows(f[m - 1].triples, f[m].triples)
      BY <3>4, <3>5, <3>6, JoinedLists
    <3>9. Grows(f[i].triples, f[m].triples)
      BY <3>2, <3>8, GrowsOn
    <3> QED BY <2>1, <3>7, <3>9
  <2> QED BY <2>2, <2>3
<1>4. Bad \in SUBSET Nat
  BY <1>2
<1>5. Bad = {}
  <2> SUFFICES ASSUME Bad # {} PROVE FALSE
    OBVIOUS
  <2> HIDE DEF Bad
  <2>1. PICK m \in Bad : \A k \in Bad : m <= k
    BY <1>4, LeastNumber
  <2> QED BY <1>3, <2>1
<1>6. Grows(f[i].triples, f[j].triples) /\ f[i].made <= f[j].made
  <2>1. j \in i .. j
    BY <1>2
  <2> QED BY <1>5, <2>1
<1> DEFINE s == f[i].triples
           u == f[j].triples
<1>7. IsList(s) /\ IsList(u) /\ Grows(s, u)
  BY <1>1, <1>2, <1>6
<1> HIDE DEF s, u
<1>8. Len(s) \in Nat /\ Len(u) \in Nat /\ Len(s) <= Len(u)
  <2>1. Len(s) \in Nat /\ DOMAIN s = 1 .. Len(s) /\ Len(u) \in Nat /\ DOMAIN u = 1 .. Len(u)
    BY <1>7, LenProperties DEF IsList
  <2>2. Len(s) = 0 \/ Len(s) \in 1 .. Len(s)
    BY <2>1
  <2>3. CASE Len(s) \in 1 .. Len(s)
    <3>1. Len(s) \in 1 .. Len(u)
      BY <1>7, <2>1, <2>3 DEF Grows
    <3> QED BY <2>1, <3>1
  <2> QED BY <2>1, <2>2, <2>3
<1> QED BY <1>6, <1>8 DEF s, u

\* Behind its first P triples a text's are those of the whole behind the first
\* A, but for the names of blank nodes.
Alike(name, i, F, G, P, A) ==
    /\ IsList(F) /\ IsList(G) /\ Len(G) + A = P + Len(F) /\ A <= Len(F)
    /\ \A x \in 1 .. (Len(F) - A) : \A c \in 1 .. 3 : IsRenamed(name, i, G[P + x][c], F[A + x][c])

Continues(f, F, more) == f = F \o more

\* A list that goes on from another.
LEMMA ContinuedList ==
    ASSUME NEW s, IsList(s), NEW u, IsList(u), NEW f, Continues(f, s, u)
    PROVE  /\ IsList(f) /\ Grows(s, f)
           /\ Len(s) \in Nat /\ DOMAIN s = 1 .. Len(s)
           /\ Len(f) = Len(s) + Len(u) /\ DOMAIN f = 1 .. (Len(s) + Len(u))
           /\ \A i \in 1 .. Len(u) : f[Len(s) + i] = u[i]
<1>1. f = s \o u
  BY DEF Continues
<1> QED BY <1>1, JoinedLists

\* One more unit keeps them alike.
LEMMA OneMoreUnit ==
    ASSUME NEW name, NEW i, NEW F, NEW G, NEW P \in Nat, NEW A \in Nat, Alike(name, i, F, G, P, A),
           NEW unit, UnitOK(unit), NEW env, NEW total, NEW made,
           Moves(name, i, total, made, TermsOf(unit.triples)),
           NEW f, Continues(f, F, SaidIn(unit, env, total)),
           NEW g, Continues(g, G, SaidIn(unit, env, made))
    PROVE  Alike(name, i, f, g, P, A)
<1> DEFINE here == SaidIn(unit, env, total)
           there == SaidIn(unit, env, made)
           l == Len(unit.triples)
<1>1. /\ IsList(here) /\ IsList(there) /\ Len(here) = l /\ Len(there) = l /\ l \in Nat
      /\ DOMAIN unit.triples = 1 .. l
  BY SaidIsList
<1>2. \A x \in 1 .. l : \A c \in 1 .. 3 :
         IsRenamed(name, i, there[x][c], here[x][c])
  <2> SUFFICES ASSUME NEW x \in 1 .. l, NEW c \in 1 .. 3
               PROVE  IsRenamed(name, i, there[x][c], here[x][c])
    OBVIOUS
  <2>1. x \in DOMAIN unit.triples
    BY <1>1
  <2> QED BY <2>1, UnitMoved
<1>3. IsList(F) /\ IsList(G) /\ Len(G) + A = P + Len(F) /\ A <= Len(F)
  BY DEF Alike
<1>8. Continues(f, F, here) /\ Continues(g, G, there)
  OBVIOUS
<1> HIDE DEF here, there, l
<1>4. /\ IsList(f) /\ Grows(F, f) /\ Len(F) \in Nat /\ DOMAIN F = 1 .. Len(F)
      /\ Len(f) = Len(F) + l /\ \A x \in 1 .. l : f[Len(F) + x] = here[x]
  <2>1. IsList(F) /\ IsList(here) /\ Len(here) = l
    BY <1>1, <1>3
  <2>2. /\ IsList(f) /\ Grows(F, f) /\ Len(F) \in Nat /\ DOMAIN F = 1 .. Len(F)
        /\ Len(f) = Len(F) + Len(here)
        /\ \A x \in 1 .. Len(here) : f[Len(F) + x] = here[x]
    BY <1>8, <2>1, ContinuedList
  <2> QED BY <2>1, <2>2
<1>5. /\ IsList(g) /\ Grows(G, g) /\ Len(G) \in Nat /\ DOMAIN G = 1 .. Len(G)
      /\ Len(g) = Len(G) + l /\ \A x \in 1 .. l : g[Len(G) + x] = there[x]
  <2>1. IsList(G) /\ IsList(there) /\ Len(there) = l
    BY <1>1, <1>3
  <2>2. /\ IsList(g) /\ Grows(G, g) /\ Len(G) \in Nat /\ DOMAIN G = 1 .. Len(G)
        /\ Len(g) = Len(G) + Len(there)
        /\ \A x \in 1 .. Len(there) : g[Len(G) + x] = there[x]
    BY <1>8, <2>1, ContinuedList
  <2> QED BY <2>1, <2>2
<1>6. Len(g) + A = P + Len(f) /\ A <= Len(f)
  <2>1. /\ Len(F) \in Nat /\ Len(G) \in Nat /\ l \in Nat
        /\ Len(f) = Len(F) + l /\ Len(g) = Len(G) + l
        /\ Len(G) + A = P + Len(F) /\ A <= Len(F)
    BY <1>1, <1>3, <1>4, <1>5
  <2> QED BY <2>1
<1>7. ASSUME NEW x \in 1 .. (Len(f) - A), NEW c \in 1 .. 3
      PROVE  IsRenamed(name, i, g[P + x][c], f[A + x][c])
  <2>1. x \in Nat /\ (x \in 1 .. (Len(F) - A) \/ x - (Len(F) - A) \in 1 .. l)
    BY <1>1, <1>3, <1>4
  <2>2. CASE x \in 1 .. (Len(F) - A)
    <3>1. A + x \in DOMAIN F /\ P + x \in DOMAIN G
      BY <1>3, <1>4, <1>5, <2>2
    <3>2. f[A + x] = F[A + x] /\ g[P + x] = G[P + x]
      BY <1>4, <1>5, <3>1 DEF Grows
    <3> QED BY <2>2, <3>2 DEF Alike
  <2>3. CASE x - (Len(F) - A) \in 1 .. l
    <3> DEFINE y == x - (Len(F) - A)
    <3>1. A + x = Len(F) + y /\ P + x = Len(G) + y
      <4>1. Len(F) \in Nat /\ Len(G) \in Nat /\ Len(G) + A = P + Len(F) /\ x \in Nat
        BY <1>3, <1>4, <1>5, <2>1
      <4> QED BY <4>1
    <3>2. y \in 1 .. l
      BY <2>3
    <3> HIDE DEF y
    <3>3. f[A + x] = here[y] /\ g[P + x] = there[y]
      BY <1>4, <1>5, <3>1, <3>2
    <3> QED BY <1>2, <3>2, <3>3
  <2> QED BY <2>1, <2>2, <2>3
<1> QED BY <1>4, <1>5, <1>6, <1>7 DEF Alike

\* What directives say names no blank nodes.
LEMMA PrologueMoved ==
    ASSUME NEW S, NEW text \in Seq(S), \A unit \in S : UnitOK(unit),
           NEW f, ReadsWell(f, text), NEW p \in 0 .. Len(text),
           \A k \in 1 .. p : \A term \in TermsOf(text[k].triples) : term.t \notin {"label", "anon"},
           NEW name, NEW i
    PROVE  /\ f[p].made = 0
           /\ \A x \in 1 .. Len(f[p].triples) : \A c \in 1 .. 3 :
                 IsRenamed(name, i, f[p].triples[x][c], f[p].triples[x][c])
<1> DEFINE n == Len(text)
           Right(k) == f[k].made = 0 /\ Alike(name, i, f[k].triples, f[k].triples, 0, 0)
           Bad == {k \in 0 .. p : ~Right(k)}
<1>1. /\ n \in Nat /\ \A k \in 1 .. n : UnitOK(text[k])
      /\ f[0] = AtFirst
      /\ \A k \in 1 .. n :
            /\ f[k].made = f[k - 1].made + Cardinality(Anonymous(text[k].triples))
            /\ f[k].triples = f[k - 1].triples \o SaidIn(text[k], f[k].env, f[k - 1].made)
  BY LenProperties, ElementOfSeq DEF ReadsWell
<1> HIDE DEF n
<1>2. n \in Nat /\ p \in 0 .. n /\ p \in Nat
  BY <1>1 DEF n
<1>3. ASSUME NEW m \in Bad, \A k \in Bad : m <= k PROVE FALSE
  <2>1. m \in 0 .. p /\ ~Right(m)
    OBVIOUS
  <2>2. CASE m = 0
    <3>1. f[0].made = 0 /\ f[0].triples = <<>>
      BY <1>1 DEF AtFirst
    <3>2. IsList(<<>>) /\ Len(<<>>) = 0
      BY EmptySeq DEF IsList
    <3>3. Alike(name, i, <<>>, <<>>, 0, 0)
      <4>1. \A x : x \notin 1 .. (Len(<<>>) - 0)
        BY <3>2
      <4> QED BY <3>2, <4>1 DEF Alike
    <3> QED BY <2>1, <2>2, <3>1, <3>3
  <2>3. CASE m # 0
    <3>1. m - 1 \in 0 .. p /\ ~(m <= m - 1) /\ m \in 1 .. n /\ m \in 1 .. p
      <4>1. m \in 0 .. p
        BY <2>1
      <4> HIDE DEF Right, Bad
      <4> QED BY <1>2, <2>3, <4>1
    <3>2. Right(m - 1)
      <4> HIDE DEF Right
      <4> QED BY <1>3, <3>1
    <3> DEFINE unit == text[m]
               T == TermsOf(unit.triples)
    <3>3. UnitOK(unit) /\ \A term \in T : term.t \notin {"label", "anon"}
      BY <1>1, <3>1
    <3>4. Cardinality(Anonymous(unit.triples)) = 0
      <4>1. Anonymous(unit.triples) = {}
        BY <3>3 DEF Anonymous
      <4> QED BY <4>1, FS_EmptySet
    <3> HIDE DEF T
    <3>5. Moves(name, i, 0, 0, T)
      BY <3>3 DEF Moves
    <3> HIDE DEF unit
    <3>6. /\ f[m].made = f[m - 1].made + Cardinality(Anonymous(unit.triples))
          /\ f[m].triples = f[m - 1].triples \o SaidIn(unit, f[m].env, f[m - 1].made)
      BY <1>1, <3>1 DEF unit
    <3>7. f[m].made = 0
      BY <3>2, <3>4, <3>6
    <3>8. Continues(f[m].triples, f[m - 1].triples, SaidIn(unit, f[m].env, 0))
      BY <3>2, <3>6 DEF Continues
    <3>9. Alike(name, i, f[m].triples, f[m].triples, 0, 0)
      <4>1. Alike(name, i, f[m - 1].triples, f[m - 1].triples, 0, 0)
        BY <3>2
      <4> QED BY <3>3, <3>5, <3>8, <4>1, OneMoreUnit DEF T
    <3> QED BY <2>1, <3>7, <3>9
  <2> QED BY <2>2, <2>3
<1>4. Bad \in SUBSET Nat
  OBVIOUS
<1>5. Bad = {}
  <2> SUFFICES ASSUME Bad # {} PROVE FALSE
    OBVIOUS
  <2> HIDE DEF Bad
  <2>1. PICK m \in Bad : \A k \in Bad : m <= k
    BY <1>4, LeastNumber
  <2> QED BY <1>3, <2>1
<1>6. Right(p)
  <2>1. p \in 0 .. p
    BY <1>2
  <2> HIDE DEF Right
  <2> QED BY <1>5, <2>1
<1> DEFINE G == f[p].triples
<1>7. f[p].made = 0 /\ Alike(name, i, G, G, 0, 0)
  BY <1>6
<1> HIDE DEF G
<1>8. ASSUME NEW x \in 1 .. Len(G), NEW c \in 1 .. 3
      PROVE  IsRenamed(name, i, G[x][c], G[x][c])
  <2>1. Len(G) \in Nat
    BY <1>7, LenProperties DEF Alike, IsList
  <2>2. x \in 1 .. (Len(G) - 0) /\ 0 + x = x
    BY <2>1
  <2> QED BY <1>7, <2>2 DEF Alike
<1> QED BY <1>7, <1>8 DEF G

\* A piece's first nodes, so many, are those of the whole behind the first base.
Numbers(name, i, base, limit) ==
    \A k \in 1 .. limit :
        /\ <<i, <<"anon", k>>>> \in DOMAIN name
        /\ name[<<i, <<"anon", k>>>>] = <<"anon", base + k>>

\* So are those of each unit of it.
LEMMA UnitMoves ==
    ASSUME NEW unit, UnitOK(unit), \A term \in TermsOf(unit.triples) : term.t # "label",
           NEW name, NEW i, NEW base \in Nat, NEW made \in Nat, NEW limit \in Nat,
           Numbers(name, i, base, limit),
           made + Cardinality(Anonymous(unit.triples)) <= limit,
           NEW total \in Nat, total = base + made
    PROVE  Moves(name, i, total, made, TermsOf(unit.triples))
<1> DEFINE card == Cardinality(Anonymous(unit.triples))
<1>1. card \in Nat /\ made + card <= limit
  BY FS_CardinalityType DEF UnitOK
<1>2. ASSUME NEW term \in TermsOf(unit.triples), term.t = "anon"
      PROVE  /\ term.k \in Nat
             /\ <<i, <<"anon", made + term.k>>>> \in DOMAIN name
             /\ name[<<i, <<"anon", made + term.k>>>>] = <<"anon", total + term.k>>
  <2>1. term \in Anonymous(unit.triples)
    BY <1>2 DEF Anonymous
  <2>2. PICK k \in 1 .. card : term = [t |-> "anon", k |-> k]
    BY <2>1 DEF UnitOK
  <2>3. term.k = k
    BY <2>2
  <2> HIDE DEF card
  <2>4. k \in Nat /\ made + k \in 1 .. limit /\ base + (made + k) = total + k
    BY <1>1
  <2> DEFINE d == made + k
  <2>5. d \in 1 .. limit /\ base + d = total + k
    BY <2>4
  <2> HIDE DEF d
  <2>6. <<i, <<"anon", d>>>> \in DOMAIN name /\ name[<<i, <<"anon", d>>>>] = <<"anon", total + k>>
    BY <2>5 DEF Numbers
  <2> QED BY <2>3, <2>4, <2>6 DEF d
<1> QED BY <1>2 DEF Moves

\* What is known on the way through the whole, f, and through a piece of it, g.
ReadTogether(units, t, p, a, b, f, g, env) ==
    /\ p \in 0 .. Len(units) /\ a \in p .. Len(units) /\ b \in a .. Len(units)
    /\ Len(t) = p + (b - a) /\ \A k \in 1 .. (b - a) : t[p + k] = units[a + k]
    /\ ReadsWell(f, units) /\ ReadsWell(g, t)
    /\ g[p] = f[p] /\ f[p].made = 0
    /\ \A k \in p .. Len(units) : f[k].env = env
    /\ \A k \in p .. Len(t) : g[k].env = env
Unlabelled(units) ==
    \A k \in 1 .. Len(units) : \A term \in TermsOf(units[k].triples) : term.t # "label"

\* A piece is read as that part of the whole is, but for the names of its nodes.
LEMMA PieceAlike ==
    ASSUME NEW S, NEW units \in Seq(S), \A unit \in S : UnitOK(unit), Unlabelled(units),
           NEW t \in Seq(S), NEW p, NEW a, NEW b, NEW f, NEW g, NEW env,
           ReadTogether(units, t, p, a, b, f, g, env),
           NEW name, NEW i, NEW limit \in Nat, limit = f[b].made - f[a].made,
           Numbers(name, i, f[a].made, limit)
    PROVE  Alike(name, i, f[b].triples, g[Len(t)].triples,
                 Len(f[p].triples), Len(f[a].triples))
<1> DEFINE n == Len(units)
           l == Len(t)
           P == Len(f[p].triples)
           A == Len(f[a].triples)
           base == f[a].made
           Right(d) == /\ f[a + d].made = base + g[p + d].made
                       /\ Alike(name, i, f[a + d].triples, g[p + d].triples, P, A)
           Bad == {d \in 0 .. (b - a) : ~Right(d)}
<1>1. /\ n \in Nat /\ \A k \in 1 .. n : UnitOK(units[k])
      /\ \A k \in 0 .. n : f[k].made \in Nat /\ IsList(f[k].triples)
      /\ \A k \in 1 .. n :
            /\ f[k].made = f[k - 1].made + Cardinality(Anonymous(units[k].triples))
            /\ f[k].triples = f[k - 1].triples \o SaidIn(units[k], f[k].env, f[k - 1].made)
  BY LenProperties, ElementOfSeq DEF ReadsWell, ReadTogether
<1>2. /\ l \in Nat
      /\ \A k \in 0 .. l : g[k].made \in Nat /\ IsList(g[k].triples)
      /\ \A k \in 1 .. l :
            /\ g[k].made = g[k - 1].made + Cardinality(Anonymous(t[k].triples))
            /\ g[k].triples = g[k - 1].triples \o SaidIn(t[k], g[k].env, g[k - 1].made)
  BY LenProperties DEF ReadsWell, ReadTogether
<1>3. /\ n \in Nat /\ l \in Nat /\ p \in Nat /\ a \in Nat /\ b \in Nat
      /\ p <= a /\ a <= b /\ b <= n /\ l = p + (b - a)
  BY <1>1, <1>2 DEF ReadTogether
<1>4. /\ \A k \in p .. n : f[k].env = env
      /\ \A k \in p .. l : g[k].env = env
      /\ \A k \in 1 .. n : \A term \in TermsOf(units[k].triples) : term.t # "label"
      /\ \A k \in 1 .. (b - a) : t[p + k] = units[a + k]
      /\ g[p] = f[p] /\ f[p].made = 0
  BY DEF ReadTogether, Unlabelled
<1> HIDE DEF n, l
<1>5. base \in Nat /\ P \in Nat /\ A \in Nat
  <2>1. p \in 0 .. n /\ a \in 0 .. n
    BY <1>3
  <2>2. IsList(f[p].triples) /\ IsList(f[a].triples)
    BY <1>1, <2>1
  <2> QED BY <1>1, <2>1, <2>2, LenProperties DEF IsList
<1>6. ASSUME NEW d \in Bad, \A e \in Bad : d <= e PROVE FALSE
  <2>1. d \in 0 .. (b - a) /\ ~Right(d)
    OBVIOUS
  <2>2. CASE d = 0
    <3>1. a + 0 = a /\ p + 0 = p /\ p \in 0 .. n /\ a \in 0 .. n
      BY <1>3
    <3>2. f[a].made = base + g[p].made
      BY <1>4, <1>5
    <3> DEFINE F == f[a].triples
               G == f[p].triples
    <3>3. IsList(F) /\ IsList(G) /\ g[p].triples = G
      BY <1>1, <1>4, <3>1
    <3>4. Len(F) = A /\ Len(G) = P
      OBVIOUS
    <3> HIDE DEF F, G, A, P
    <3>5. Len(G) + A = P + Len(F) /\ A <= Len(F) /\ \A x : x \notin 1 .. (Len(F) - A)
      BY <1>5, <3>4
    <3>6. Alike(name, i, F, G, P, A)
      BY <3>3, <3>5 DEF Alike
    <3> QED BY <2>1, <2>2, <3>1, <3>2, <3>3, <3>6 DEF F
  <2>3. CASE d # 0
    <3> DEFINE e == d - 1
               x == a + d
               y == p + d
    <3>1. /\ e \in 0 .. (b - a) /\ ~(d <= e) /\ d \in 1 .. (b - a)
          /\ x \in 1 .. n /\ y \in 1 .. l /\ x - 1 = a + e /\ y - 1 = p + e
          /\ x \in p .. n /\ y \in p .. l /\ x \in 0 .. n /\ b \in 0 .. n /\ x <= b
          /\ x - 1 \in 0 .. n /\ y - 1 \in 0 .. l /\ y \in 0 .. l
      <4>1. d \in 0 .. (b - a)
        BY <2>1
      <4> HIDE DEF Bad, Right
      <4> QED BY <1>3, <2>3, <4>1
    <3>2. Right(e)
      <4> HIDE DEF Right, e
      <4> QED BY <1>6, <3>1
    <3> DEFINE unit == units[x]
               card == Cardinality(Anonymous(unit.triples))
               total == f[x - 1].made
               made == g[y - 1].made
    <3>3. UnitOK(unit) /\ t[y] = unit /\ \A term \in TermsOf(unit.triples) : term.t # "label"
      BY <1>1, <1>4, <3>1
    <3>4. card \in Nat
      BY <3>3, FS_CardinalityType DEF UnitOK
    <3>5. /\ total \in Nat /\ made \in Nat /\ total = base + made
          /\ Alike(name, i, f[x - 1].triples, g[y - 1].triples, P, A)
      <4>1. total \in Nat /\ made \in Nat
        BY <1>1, <1>2, <3>1
      <4> QED BY <3>1, <3>2, <4>1
    <3>6. /\ f[x].made = total + card
          /\ Continues(f[x].triples, f[x - 1].triples, SaidIn(unit, env, total))
      BY <1>1, <1>4, <3>1 DEF Continues
    <3>7. /\ g[y].made = made + card
          /\ Continues(g[y].triples, g[y - 1].triples, SaidIn(unit, env, made))
      BY <1>2, <1>4, <3>1, <3>3 DEF Continues
    <3>8. f[x].made <= f[b].made /\ f[b].made \in Nat
      <4>1. x \in 0 .. Len(units) /\ b \in 0 .. Len(units) /\ x <= b
        BY <3>1 DEF n
      <4>2. f[x].made <= f[b].made
        <5> HIDE DEF x
        <5>1. /\ Grows(f[x].triples, f[b].triples) /\ f[x].made <= f[b].made
              /\ Len(f[x].triples) \in Nat /\ Len(f[b].triples) \in Nat
              /\ Len(f[x].triples) <= Len(f[b].triples)
          BY <4>1, ReadsGrow DEF ReadTogether
        <5> QED BY <5>1
      <4> QED BY <1>1, <3>1, <4>2
    <3>9. /\ f[x].made = base + g[y].made
          /\ made + card <= limit
      <4>1. limit = f[b].made - base
        OBVIOUS
      <4> DEFINE u == f[b].made
                 v == f[x].made
                 w == g[y].made
      <4>2. /\ limit = u - base /\ v <= u /\ u \in Nat /\ v = total + card /\ w = made + card
            /\ total = base + made /\ total \in Nat /\ made \in Nat /\ card \in Nat /\ base \in Nat
        BY <1>5, <3>4, <3>5, <3>6, <3>7, <3>8, <4>1
      <4> HIDE DEF u, v, w, card, total, made, base
      <4>3. v = base + w /\ made + card <= limit
        BY <4>2
      <4> QED BY <4>3 DEF v, w
    <3>10. Moves(name, i, total, made, TermsOf(unit.triples))
      <4>1. Numbers(name, i, base, limit)
        OBVIOUS
      <4>2. made + Cardinality(Anonymous(unit.triples)) <= limit
        BY <3>9
      <4> HIDE DEF unit, total, made, base
      <4> QED BY <1>5, <3>3, <3>5, <4>1, <4>2, UnitMoves
    <3>11. Alike(name, i, f[x].triples, g[y].triples, P, A)
      <4> HIDE DEF unit, total, made, base, P, A, x, y
      <4> QED BY <1>5, <3>3, <3>5, <3>6, <3>7, <3>10, OneMoreUnit
    <3> QED BY <2>1, <3>9, <3>11
  <2> QED BY <2>2, <2>3
<1>7. Bad \in SUBSET Nat
  BY <1>3
<1>8. Bad = {}
  <2> SUFFICES ASSUME Bad # {} PROVE FALSE
    OBVIOUS
  <2> HIDE DEF Bad
  <2>1. PICK d \in Bad : \A e \in Bad : d <= e
    BY <1>7, LeastNumber
  <2> QED BY <1>6, <2>1
<1>9. Right(b - a)
  <2>1. b - a \in 0 .. (b - a)
    BY <1>3
  <2> HIDE DEF Right
  <2> QED BY <1>8, <2>1
<1>10. a + (b - a) = b /\ p + (b - a) = l
  BY <1>3
<1> QED BY <1>9, <1>10 DEF l

\* What the parser gives of a term.
TermGiven(term) ==
    \/ term.t # "triple" /\ SimpleGiven(term)
    \/ /\ term = [t |-> "triple", parts |-> [c \in 1 .. 3 |-> term.parts[c]]]
       /\ \A c \in 1 .. 3 : SimpleGiven(term.parts[c]) /\ term.parts[c].t # "triple"
AllGiven(triples) == \A x \in 1 .. Len(triples) : \A c \in 1 .. 3 : TermGiven(triples[x][c])

\* A unit says such terms.
LEMMA UnitGiven ==
    ASSUME NEW unit, UnitOK(unit), NEW env, NEW made
    PROVE  AllGiven(SaidIn(unit, env, made))
<1> DEFINE said == SaidIn(unit, env, made)
<1>1. Len(said) = Len(unit.triples) /\ DOMAIN unit.triples = 1 .. Len(unit.triples)
  BY SaidIsList
<1>2. ASSUME NEW x \in 1 .. Len(said), NEW c \in 1 .. 3 PROVE TermGiven(said[x][c])
  <2> DEFINE term == unit.triples[x][c]
             r == Resolved(term, env, made)
  <2>1. x \in DOMAIN unit.triples
    BY <1>1, <1>2
  <2>2. unit.triples[x] \in ToSet(unit.triples)
    BY <2>1 DEF ToSet
  <2>3. TermOK(term)
    BY <2>2 DEF UnitOK
  <2>4. said[x][c] = r
    BY <2>1 DEF SaidIn
  <2>5. CASE term.t # "triple"
    <3>1. SimpleOK(term) /\ r = ResolvedSimple(term, env, made)
      BY <2>3, <2>5, TermResolved
    <3>2. SimpleGiven(r) /\ r.t # "triple"
      BY <3>1, SimpleResolved
    <3> QED BY <2>4, <3>2 DEF TermGiven
  <2>6. CASE term.t = "triple"
    <3> DEFINE part(d) == ResolvedSimple(term.parts[d], env, made)
    <3>1. /\ \A d \in 1 .. 3 : SimpleOK(term.parts[d])
          /\ r = [t |-> "triple", parts |-> [d \in 1 .. 3 |-> part(d)]]
      BY <2>3, <2>6, TermResolved
    <3>2. \A d \in 1 .. 3 : SimpleGiven(part(d)) /\ part(d).t # "triple"
      BY <3>1, SimpleResolved
    <3> HIDE DEF part, r
    <3>3. \A d \in 1 .. 3 : r.parts[d] = part(d)
      BY <3>1
    <3>4. r = [t |-> "triple", parts |-> [d \in 1 .. 3 |-> r.parts[d]]]
      BY <3>1
    <3>5. TermGiven(r)
      BY <3>2, <3>3, <3>4 DEF TermGiven
    <3> QED BY <2>4, <3>5
  <2> QED BY <2>5, <2>6
<1> QED BY <1>2 DEF AllGiven

\* And so does a text.
LEMMA TextGiven ==
    ASSUME NEW S, NEW text \in Seq(S), \A unit \in S : UnitOK(unit),
           NEW f, ReadsWell(f, text), NEW k \in 0 .. Len(text)
    PROVE  AllGiven(f[k].triples)
<1> DEFINE n == Len(text)
           Bad == {j \in 0 .. k : ~AllGiven(f[j].triples)}
<1>1. /\ n \in Nat /\ \A j \in 1 .. n : UnitOK(text[j])
      /\ f[0] = AtFirst /\ \A j \in 0 .. n : IsList(f[j].triples)
      /\ \A j \in 1 .. n :
            f[j].triples = f[j - 1].triples \o SaidIn(text[j], f[j].env, f[j - 1].made)
  BY LenProperties, ElementOfSeq DEF ReadsWell
<1>2. k \in Nat /\ k <= n
  BY <1>1
<1> HIDE DEF n
<1>3. ASSUME NEW j \in Bad, \A i \in Bad : j <= i PROVE FALSE
  <2>1. j \in 0 .. k /\ ~AllGiven(f[j].triples)
    OBVIOUS
  <2>2. CASE j = 0
    <3>1. f[0].triples = <<>>
      BY <1>1 DEF AtFirst
    <3>2. \A x : x \notin 1 .. Len(<<>>)
      OBVIOUS
    <3> QED BY <2>1, <2>2, <3>1, <3>2 DEF AllGiven
  <2>3. CASE j # 0
    <3> DEFINE F == f[j - 1].triples
               more == SaidIn(text[j], f[j].env, f[j - 1].made)
    <3>1. j - 1 \in 0 .. k /\ ~(j <= j - 1) /\ j \in 1 .. n /\ j - 1 \in 0 .. n
      <4>1. j \in 0 .. k
        BY <2>1
      <4> HIDE DEF Bad
      <4> QED BY <1>1, <1>2, <2>3, <4>1
    <3>2. AllGiven(F)
      BY <1>3, <3>1
    <3>3. IsList(F) /\ Continues(f[j].triples, F, more) /\ UnitOK(text[j])
      BY <1>1, <3>1 DEF Continues
    <3>4. IsList(more) /\ AllGiven(more)
      BY <3>3, SaidIsList, UnitGiven
    <3> DEFINE G == f[j].triples
    <3> HIDE DEF F, more, G
    <3>5. /\ Len(F) \in Nat /\ DOMAIN F = 1 .. Len(F) /\ Len(G) = Len(F) + Len(more)
          /\ Grows(F, G) /\ \A i \in 1 .. Len(more) : G[Len(F) + i] = more[i]
      BY <3>3, <3>4, ContinuedList DEF G
    <3>6. Len(more) \in Nat
      BY <3>4, LenProperties DEF IsList
    <3>7. ASSUME NEW x \in 1 .. Len(G), NEW c \in 1 .. 3 PROVE TermGiven(G[x][c])
      <4>1. x \in 1 .. Len(F) \/ (x - Len(F) \in 1 .. Len(more) /\ x = Len(F) + (x - Len(F)))
        BY <3>5, <3>6
      <4>2. CASE x \in 1 .. Len(F)
        <5>1. G[x] = F[x]
          BY <3>5, <4>2 DEF Grows
        <5> QED BY <3>2, <4>2, <5>1 DEF AllGiven
      <4>3. CASE x - Len(F) \in 1 .. Len(more) /\ x = Len(F) + (x - Len(F))
        <5> DEFINE y == x - Len(F)
        <5>1. y \in 1 .. Len(more) /\ x = Len(F) + y
          BY <4>3
        <5> HIDE DEF y
        <5>2. G[x] = more[y]
          BY <3>5, <5>1
        <5> QED BY <3>4, <5>1, <5>2 DEF AllGiven
      <4> QED BY <4>1, <4>2, <4>3
    <3>8. AllGiven(G)
      BY <3>7 DEF AllGiven
    <3> QED BY <2>1, <3>8 DEF G
  <2> QED BY <2>2, <2>3
<1>4. Bad \in SUBSET Nat
  OBVIOUS
<1>5. Bad = {}
  <2> SUFFICES ASSUME Bad # {} PROVE FALSE
    OBVIOUS
  <2> HIDE DEF Bad
  <2>1. PICK j \in Bad : \A i \in Bad : j <= i
    BY <1>4, LeastNumber
  <2> QED BY <1>3, <2>1
<1>6. k \in 0 .. k
  BY <1>2
<1> QED BY <1>5, <1>6

\* A term named as it is stays as it is.
LEMMA SameName ==
    ASSUME NEW term, TermGiven(term), NEW name, NEW i,
           NEW labels,
           term.t = "blank" => term.label \in labels,
           term.t = "triple" =>
              \A c \in 1 .. 3 : term.parts[c].t = "blank" => term.parts[c].label \in labels,
           \A label \in labels : <<i, label>> \in DOMAIN name /\ name[<<i, label>>] = label
    PROVE  IsRenamed(name, i, term, term)
<1>1. ASSUME NEW x, SimpleGiven(x), x.t # "triple", x.t = "blank" => x.label \in labels
      PROVE  SimpleIn(name, i, x) /\ RenamedSimple(name, i, x) = x
  <2>1. CASE x.t = "blank"
    <3>1. x = [t |-> "blank", label |-> x.label]
      <4>1. x = Iri(x.s) => x.t = "iri"
        BY DEF Iri
      <4>2. x = LiteralSays(x.lex, x.datatype, x.lang, x.dir) => x.t = "literal"
        BY DEF LiteralSays
      <4> QED BY <1>1, <2>1, <4>1, <4>2 DEF SimpleGiven
    <3>2. <<i, x.label>> \in DOMAIN name /\ name[<<i, x.label>>] = x.label
      BY <1>1, <2>1
    <3> QED BY <1>1, <2>1, <3>1, <3>2 DEF SimpleIn, RenamedSimple
  <2>2. CASE x.t # "blank"
    BY <1>1, <2>2 DEF SimpleIn, RenamedSimple
  <2> QED BY <2>1, <2>2
<1>2. CASE term.t # "triple"
  <2>1. SimpleGiven(term)
    <3>1. term = [t |-> "triple", parts |-> [c \in 1 .. 3 |-> term.parts[c]]] => term.t = "triple"
      OBVIOUS
    <3> QED BY <1>2, <3>1 DEF TermGiven
  <2>2. SimpleIn(name, i, term) /\ RenamedSimple(name, i, term) = term
    BY <1>1, <1>2, <2>1
  <2> QED BY <1>2, <2>2 DEF IsRenamed, TermIn, Renamed
<1>3. CASE term.t = "triple"
  <2>1. /\ term = [t |-> "triple", parts |-> [c \in 1 .. 3 |-> term.parts[c]]]
        /\ \A c \in 1 .. 3 : SimpleGiven(term.parts[c]) /\ term.parts[c].t # "triple"
    BY <1>3 DEF TermGiven
  <2>2. \A c \in 1 .. 3 :
           SimpleIn(name, i, term.parts[c]) /\ RenamedSimple(name, i, term.parts[c]) = term.parts[c]
    BY <1>1, <1>3, <2>1
  <2>3. [t |-> "triple", parts |-> [c \in 1 .. 3 |-> RenamedSimple(name, i, term.parts[c])]]
           = [t |-> "triple", parts |-> [c \in 1 .. 3 |-> term.parts[c]]]
    BY <2>2
  <2>4. Renamed(name, i, term) = term
    BY <1>3, <2>1, <2>3 DEF Renamed
  <2>5. TermIn(name, i, term)
    BY <1>3, <2>2 DEF TermIn
  <2> QED BY <2>4, <2>5 DEF IsRenamed
<1> QED BY <1>2, <1>3

\* How the triples of the texts lie in those of the whole: the first pro of each
\* text are the prologue's, the others are the whole's behind the first from[i];
\* name has, for each text and label, that of the whole.
Place(lay, i, x) == IF x <= lay.pro THEN x ELSE lay.from[i] + (x - lay.pro)
Tiles(lay, m, whole) ==
    /\ m \in Nat \ {0} /\ lay.pro \in Nat /\ IsList(whole)
    /\ \A i \in 1 .. (m + 1) : lay.from[i] \in Nat
    /\ lay.from[1] = lay.pro /\ lay.from[m + 1] = Len(whole)
    /\ \A i \in 1 .. m : lay.from[i] <= lay.from[i + 1]
OwnNames(name, m) ==
    /\ Distinct(name)
    /\ \A key \in DOMAIN name : key = <<key[1], key[2]>> /\ key[1] \in 1 .. m
Laid(lay, i, raw, whole) ==
    /\ IsList(raw) /\ Len(raw) = lay.pro + (lay.from[i + 1] - lay.from[i])
    /\ \A x \in 1 .. Len(raw) : \A c \in 1 .. 3 :
          IsRenamed(lay.name, i, raw[x][c], whole[Place(lay, i, x)][c])
Layout(texts, whole, lay) ==
    /\ DOMAIN texts = 1 .. Len(texts)
    /\ Tiles(lay, Len(texts), whole)
    /\ OwnNames(lay.name, Len(texts))
    /\ \A i \in 1 .. Len(texts) : Laid(lay, i, Parse(texts[i]).triples, whole)

\* A document that is not split is its own text.
LEMMA LayoutWhole ==
    ASSUME NEW S, NEW units \in Seq(S), \A unit \in S : UnitOK(unit), Parse(units).ok
    PROVE  \E lay : Layout(<<units>>, Parse(units).triples, lay)
<1> DEFINE whole == Parse(units).triples
           n == Len(whole)
           outer == {whole[x][c] : x \in 1 .. n, c \in 1 .. 3}
           inner == {term.parts[c] : term \in outer, c \in 1 .. 3}
           labels == {term.label : term \in outer \cup inner}
           name == [key \in {<<1, label>> : label \in labels} |-> key[2]]
           lay == [name |-> name, pro |-> 0, from |-> <<0, n>>]
<1>1. IsList(whole) /\ AllGiven(whole) /\ n \in Nat
  <2>1. ReadsWell(After(units), units)
    BY ReadWell
  <2>2. Len(units) \in Nat /\ Parse(units) = After(units)[Len(units)]
    BY TextRead
  <2>3. Len(units) \in 0 .. Len(units)
    BY <2>2
  <2>4. AllGiven(After(units)[Len(units)].triples)
    BY <2>1, <2>3, TextGiven
  <2>5. IsList(After(units)[Len(units)].triples)
    BY <2>1, <2>3 DEF ReadsWell
  <2>6. IsList(whole) /\ AllGiven(whole)
    BY <2>2, <2>4, <2>5
  <2> QED BY <2>6, LenProperties DEF IsList
<1>2. ASSUME NEW x \in 1 .. n, NEW c \in 1 .. 3
      PROVE  IsRenamed(name, 1, whole[x][c], whole[x][c])
  <2> DEFINE term == whole[x][c]
  <2>1. term \in outer
    OBVIOUS
  <2>2. TermGiven(term)
    BY <1>1 DEF AllGiven
  <2> HIDE DEF term, outer
  <2>3. \A d \in 1 .. 3 : term.parts[d] \in inner
    BY <2>1
  <2> HIDE DEF inner
  <2>4. term.label \in labels /\ \A d \in 1 .. 3 : term.parts[d].label \in labels
    BY <2>1, <2>3
  <2>5. \A label \in labels : <<1, label>> \in DOMAIN name /\ name[<<1, label>>] = label
    <3> HIDE DEF labels
    <3> QED OBVIOUS
  <2> HIDE DEF labels, name
  <2>6. IsRenamed(name, 1, term, term)
    BY <2>2, <2>4, <2>5, SameName
  <2> QED BY <2>6 DEF term
<1>3. OwnNames(name, 1)
  <2> HIDE DEF labels
  <2>1. ASSUME NEW one \in DOMAIN name, NEW two \in DOMAIN name, name[one] = name[two]
        PROVE  one = two
    <3>1. PICK a \in labels : one = <<1, a>>
      OBVIOUS
    <3>2. PICK b \in labels : two = <<1, b>>
      OBVIOUS
    <3>3. name[one] = a /\ name[two] = b
      BY <3>1, <3>2
    <3> QED BY <2>1, <3>1, <3>2, <3>3
  <2>2. ASSUME NEW key \in DOMAIN name PROVE key = <<key[1], key[2]>> /\ key[1] \in 1 .. 1
    <3>1. PICK a \in labels : key = <<1, a>>
      OBVIOUS
    <3> QED BY <3>1
  <2> HIDE DEF name
  <2> QED BY <2>1, <2>2 DEF OwnNames, Distinct
<1> HIDE DEF name
<1>4. /\ lay.name = name /\ lay.pro = 0 /\ lay.from[1] = 0 /\ lay.from[1 + 1] = n
      /\ \A i \in 1 .. (1 + 1) : lay.from[i] \in Nat
  BY <1>1
<1> HIDE DEF lay, n
<1>5. Tiles(lay, 1, whole)
  <2>1. \A i \in 1 .. 1 : lay.from[i] <= lay.from[i + 1]
    BY <1>1, <1>4
  <2> QED BY <1>1, <1>4, <2>1 DEF Tiles, n
<1>6. Laid(lay, 1, whole, whole)
  <2>1. Len(whole) = lay.pro + (lay.from[1 + 1] - lay.from[1])
    BY <1>1, <1>4 DEF n
  <2>2. \A x \in 1 .. n : Place(lay, 1, x) = x
    <3> SUFFICES ASSUME NEW x \in 1 .. n PROVE Place(lay, 1, x) = x
      OBVIOUS
    <3>1. x \in Nat /\ ~(x <= 0) /\ 0 + (x - 0) = x
      BY <1>1
    <3> QED BY <1>4, <3>1 DEF Place
  <2>3. \A x \in 1 .. n : \A c \in 1 .. 3 :
           IsRenamed(lay.name, 1, whole[x][c], whole[Place(lay, 1, x)][c])
    BY <1>2, <1>4, <2>2
  <2> QED BY <1>1, <2>1, <2>3 DEF Laid, n
<1>7. Len(<<units>>) = 1 /\ DOMAIN <<units>> = 1 .. 1 /\ <<units>>[1] = units
  OBVIOUS
<1>8. Layout(<<units>>, whole, lay)
  <2> DEFINE texts == <<units>>
  <2>1. Len(texts) = 1 /\ DOMAIN texts = 1 .. 1 /\ Parse(texts[1]).triples = whole
    BY <1>7
  <2> HIDE DEF texts, whole
  <2>2. Tiles(lay, Len(texts), whole) /\ OwnNames(lay.name, Len(texts))
    BY <1>3, <1>4, <1>5, <2>1
  <2>3. \A i \in 1 .. Len(texts) : Laid(lay, i, Parse(texts[i]).triples, whole)
    BY <1>6, <2>1
  <2>4. Layout(texts, whole, lay)
    BY <2>1, <2>2, <2>3 DEF Layout
  <2> QED BY <2>4 DEF texts
<1> QED BY <1>8

\* A document that is read in pieces, as a whole and in each of them.
InPieces(doc, m, c) ==
    /\ DocOK(doc) /\ Tame(doc) /\ ~Labelled(doc)
    /\ doc.units \in Seq(ToSet(doc.units)) /\ Len(doc.units) \in Nat
    /\ CutAfter(doc, m, c) /\ c[1] \in 0 .. Len(doc.units)
    /\ \A k \in (c[1] + 1) .. Len(doc.units) : doc.units[k].decl = <<>>
    /\ \A k \in 1 .. c[1] : doc.units[k].head = "directive"
    /\ DOMAIN Pieces(doc, m, c) = 1 .. m
    /\ \A i \in 1 .. m : IsPiece(Pieces(doc, m, c)[i], doc.units, c[1], c[i], c[i + 1])
    /\ Parse(doc.units).ok /\ \A i \in 1 .. m : Parse(Pieces(doc, m, c)[i]).ok

\* Its units, and those of its prologue.
LEMMA UnitsInPieces ==
    ASSUME NEW doc, NEW m, NEW c, InPieces(doc, m, c)
    PROVE  /\ \A unit \in ToSet(doc.units) : UnitOK(unit)
           /\ Unlabelled(doc.units)
           /\ ReadsWell(After(doc.units), doc.units)
           /\ Parse(doc.units) = After(doc.units)[Len(doc.units)]
           /\ \A k \in 1 .. c[1] :
                 \A term \in TermsOf(doc.units[k].triples) : term.t \notin {"label", "anon"}
<1> DEFINE n == Len(doc.units)
<1>1. /\ \A unit \in ToSet(doc.units) : UnitOK(unit)
      /\ doc.units \in Seq(ToSet(doc.units)) /\ n \in Nat /\ DOMAIN doc.units = 1 .. n
      /\ c[1] \in 0 .. n
  BY LenProperties DEF InPieces, DocOK
<1>2. Unlabelled(doc.units)
  BY <1>1 DEF InPieces, Labelled, Unlabelled
<1>3. ReadsWell(After(doc.units), doc.units)
  BY <1>1, ReadWell DEF InPieces
<1>4. Parse(doc.units) = After(doc.units)[n]
  BY <1>1, TextRead
<1>5. ASSUME NEW k \in 1 .. c[1], NEW term \in TermsOf(doc.units[k].triples)
      PROVE  term.t \notin {"label", "anon"}
  <2>1. k \in 1 .. n
    BY <1>1
  <2>2. term.t # "label"
    BY <1>2, <2>1 DEF Unlabelled
  <2>3. Anonymous(doc.units[k].triples) = {}
    BY <1>1, <2>1 DEF InPieces, Tame
  <2>4. term.t # "anon"
    BY <2>3 DEF Anonymous
  <2> QED BY <2>2, <2>4
<1> QED BY <1>1, <1>2, <1>3, <1>4, <1>5

\* The cuts follow each other, from the end of the prologue to that of the text.
LEMMA CutsOfPieces ==
    ASSUME NEW doc, NEW m, NEW c, InPieces(doc, m, c), NEW i \in 1 .. m
    PROVE  /\ m \in Nat \ {0} /\ Len(doc.units) \in Nat
           /\ c[1] \in 0 .. Len(doc.units)
           /\ c[i] \in 0 .. Len(doc.units) /\ c[i + 1] \in 0 .. Len(doc.units)
           /\ c[1] <= c[i] /\ c[i] <= c[i + 1] /\ c[m + 1] = Len(doc.units)
<1>1. DocOK(doc) /\ CutAfter(doc, m, c)
  BY DEF InPieces
<1>2. /\ m \in Nat \ {0}
      /\ c[i] \in 0 .. Len(doc.units) /\ c[i + 1] \in 0 .. Len(doc.units)
      /\ c[1] <= c[i] /\ c[i] <= c[i + 1]
  BY <1>1, CutsBehind
<1>3. c[m + 1] = Len(doc.units)
  BY <1>1 DEF CutAfter
<1> QED BY <1>2, <1>3 DEF InPieces

\* What is known on the way through it and through one of its pieces.
LEMMA PieceTogether ==
    ASSUME NEW doc, NEW m, NEW c, InPieces(doc, m, c), NEW i \in 1 .. m
    PROVE  LET t == Pieces(doc, m, c)[i]
               f == After(doc.units)
           IN  /\ t \in Seq(ToSet(doc.units)) /\ Len(t) \in Nat /\ Parse(t) = After(t)[Len(t)]
               /\ ReadTogether(doc.units, t, c[1], c[i], c[i + 1], f, After(t), f[c[1]].env)
<1> DEFINE units == doc.units
           n == Len(units)
           t == Pieces(doc, m, c)[i]
           f == After(units)
           g == After(t)
           p == c[1]
           a == c[i]
           b == c[i + 1]
           env == f[p].env
<1>1. /\ \A unit \in ToSet(units) : UnitOK(unit)
      /\ ReadsWell(f, units)
      /\ \A k \in 1 .. p : \A term \in TermsOf(units[k].triples) : term.t \notin {"label", "anon"}
  BY UnitsInPieces
<1>2. /\ n \in Nat /\ p \in 0 .. n /\ a \in 0 .. n /\ b \in 0 .. n /\ p <= a /\ a <= b
      /\ units \in Seq(ToSet(units))
  BY CutsOfPieces DEF InPieces
<1>3. /\ t \in Seq(ToSet(units)) /\ Len(t) = p + (b - a)
      /\ \A k \in 1 .. p : t[k] = units[k]
      /\ \A k \in 1 .. (b - a) : t[p + k] = units[a + k]
      /\ \A k \in (p + 1) .. n : units[k].decl = <<>>
      /\ Parse(t).ok
  BY DEF InPieces, IsPiece
<1> HIDE DEF t, units, f, g, n, p, a, b, env
<1>4. Len(t) \in Nat /\ p \in 0 .. Len(t) /\ p <= Len(t) /\ p <= n /\ p \in Nat
  BY <1>2, <1>3
<1>5. ReadsWell(g, t) /\ Parse(t) = g[Len(t)]
  BY <1>1, <1>3, ReadWell, TextRead DEF g
<1>6. f[p].made = 0
  BY <1>1, <1>2, PrologueMoved DEF n
<1>7. g[p] = f[p]
  <2>1. \A k \in 0 .. p : After(units)[k] = After(t)[k]
    BY <1>2, <1>3, <1>4, StartAlike DEF n
  <2>2. p \in 0 .. p
    BY <1>4
  <2> QED BY <2>1, <2>2 DEF f, g
<1>8. \A k \in p .. n : f[k].env = env
  BY <1>2, <1>3, ReadOn DEF f, n, env
<1>9. \A k \in p .. Len(t) : g[k].env = env
  <2>1. ASSUME NEW k \in (p + 1) .. Len(t) PROVE t[k].decl = <<>>
    <3> DEFINE d == k - p
    <3>1. d \in 1 .. (b - a) /\ k = p + d /\ a + d \in (p + 1) .. n
      BY <1>2, <1>3
    <3> HIDE DEF d
    <3>2. t[k] = units[a + d]
      BY <1>3, <3>1
    <3> QED BY <1>3, <3>1, <3>2
  <2>2. \A k \in p .. Len(t) : After(t)[k].env = After(t)[p].env
    BY <1>3, <1>4, <2>1, ReadOn
  <2> QED BY <1>7, <2>2 DEF g, env
<1>10. a \in p .. n /\ b \in a .. n
  BY <1>2
<1>11. ReadTogether(units, t, p, a, b, f, g, env)
  BY <1>1, <1>2, <1>3, <1>5, <1>6, <1>7, <1>8, <1>9, <1>10 DEF ReadTogether, n
<1> QED BY <1>3, <1>4, <1>5, <1>11 DEF t, units, f, g, p, a, b, env

\* The nodes that are made before the i-th cut, and those of the pieces.
MadeBy(doc, c, i) == After(doc.units)[c[i]].made
PieceKeys(doc, m, c) ==
    {key \in (1 .. m) \X ({"anon"} \X Nat) :
        key[2][2] \in 1 .. (MadeBy(doc, c, key[1] + 1) - MadeBy(doc, c, key[1]))}
PieceNames(doc, m, c) ==
    [key \in PieceKeys(doc, m, c) |-> <<"anon", MadeBy(doc, c, key[1]) + key[2][2]>>]
PieceLayout(doc, m, c) ==
    [name |-> PieceNames(doc, m, c), pro |-> Len(After(doc.units)[c[1]].triples),
     from |-> [i \in 1 .. (m + 1) |-> Len(After(doc.units)[c[i]].triples)]]

\* From cut to cut there are no fewer nodes and triples.
LEMMA CutsGrow ==
    ASSUME NEW doc, NEW m, NEW c, InPieces(doc, m, c), NEW i \in 1 .. m
    PROVE  LET f == After(doc.units)
           IN  /\ MadeBy(doc, c, i) \in Nat /\ MadeBy(doc, c, i + 1) \in Nat
               /\ MadeBy(doc, c, i) <= MadeBy(doc, c, i + 1)
               /\ IsList(f[c[i]].triples) /\ IsList(f[c[i + 1]].triples)
               /\ Len(f[c[i]].triples) \in Nat /\ Len(f[c[i + 1]].triples) \in Nat
               /\ Len(f[c[i]].triples) <= Len(f[c[i + 1]].triples)
               /\ Grows(f[c[i + 1]].triples, f[Len(doc.units)].triples)
<1> DEFINE f == After(doc.units)
           S == ToSet(doc.units)
           n == Len(doc.units)
           a == c[i]
           b == c[i + 1]
<1>1. doc.units \in Seq(S) /\ (\A unit \in S : UnitOK(unit)) /\ ReadsWell(f, doc.units)
  BY UnitsInPieces DEF InPieces
<1>2. n \in Nat /\ a \in 0 .. n /\ b \in 0 .. n /\ n \in 0 .. n /\ a <= b /\ b <= n
  BY CutsOfPieces
<1>3. f[a].made \in Nat /\ f[b].made \in Nat /\ IsList(f[a].triples) /\ IsList(f[b].triples)
  BY <1>1, <1>2 DEF ReadsWell
<1> HIDE DEF f, S, a, b
<1>4. /\ Grows(f[a].triples, f[b].triples) /\ f[a].made <= f[b].made
      /\ Len(f[a].triples) \in Nat /\ Len(f[b].triples) \in Nat
      /\ Len(f[a].triples) <= Len(f[b].triples)
  BY <1>1, <1>2, ReadsGrow
<1>5. /\ Grows(f[b].triples, f[n].triples) /\ f[b].made <= f[n].made
      /\ Len(f[b].triples) \in Nat /\ Len(f[n].triples) \in Nat
      /\ Len(f[b].triples) <= Len(f[n].triples)
  BY <1>1, <1>2, ReadsGrow
<1> QED BY <1>3, <1>4, <1>5 DEF f, a, b, MadeBy

\* No two nodes of the pieces are one of the whole.
LEMMA NamesApart ==
    ASSUME NEW doc, NEW m, NEW c, InPieces(doc, m, c)
    PROVE  OwnNames(PieceNames(doc, m, c), m)
<1> DEFINE name == PieceNames(doc, m, c)
           made(i) == MadeBy(doc, c, i)
           q == [i \in 1 .. (m + 1) |-> made(i)]
<1>1. /\ m \in Nat \ {0}
      /\ \A i \in 1 .. m :
            made(i) \in Nat /\ made(i + 1) \in Nat /\ made(i) <= made(i + 1)
  <2>1. m \in Nat \ {0}
    BY DEF InPieces, CutAfter
  <2> QED BY <2>1, CutsGrow
<1> HIDE DEF made
<1>2. \A i \in 1 .. (m + 1) : made(i) \in Nat
  <2> SUFFICES ASSUME NEW i \in 1 .. (m + 1) PROVE made(i) \in Nat
    OBVIOUS
  <2>1. i \in 1 .. m \/ (i - 1 \in 1 .. m /\ i = (i - 1) + 1)
    BY <1>1
  <2> QED BY <1>1, <2>1
<1>3. ASSUME NEW i \in 1 .. m, NEW j \in 1 .. m, i < j PROVE made(i + 1) <= made(j)
  <2>1. 1 \in Nat /\ m + 1 \in Nat /\ i + 1 \in 1 .. (m + 1) /\ j \in 1 .. (m + 1) /\ i + 1 <= j
    BY <1>1, <1>3
  <2>2. \A k \in 1 .. (m + 1) : q[k] \in Nat
    BY <1>2
  <2>3. \A k \in 1 .. (m + 1) : k + 1 <= m + 1 => q[k] <= q[k + 1]
    <3> SUFFICES ASSUME NEW k \in 1 .. (m + 1), k + 1 <= m + 1 PROVE q[k] <= q[k + 1]
      OBVIOUS
    <3>1. k \in 1 .. m /\ k + 1 \in 1 .. (m + 1)
      BY <1>1
    <3>2. q[k] = made(k) /\ q[k + 1] = made(k + 1)
      BY <3>1
    <3> HIDE DEF q
    <3> QED BY <1>1, <3>1, <3>2
  <2>4. q[i + 1] = made(i + 1) /\ q[j] = made(j)
    BY <2>1
  <2> HIDE DEF q
  <2>5. q[i + 1] <= q[j]
    BY <2>1, <2>2, <2>3, NeverFalls
  <2> QED BY <2>4, <2>5
<1>4. ASSUME NEW key \in DOMAIN name
      PROVE  /\ key = <<key[1], <<"anon", key[2][2]>>>> /\ key[1] \in 1 .. m
             /\ key[2][2] \in Nat
             /\ 1 <= key[2][2] /\ key[2][2] <= made(key[1] + 1) - made(key[1])
             /\ name[key] = <<"anon", made(key[1]) + key[2][2]>>
  <2>1. key \in PieceKeys(doc, m, c) /\ name[key] = <<"anon", made(key[1]) + key[2][2]>>
    BY DEF PieceNames, made
  <2>2. /\ key \in (1 .. m) \X ({"anon"} \X Nat)
        /\ key[2][2] \in 1 .. (made(key[1] + 1) - made(key[1]))
    BY <2>1 DEF PieceKeys, made
  <2>3. PICK i \in 1 .. m, k \in Nat : key = <<i, <<"anon", k>>>>
    BY <2>2
  <2>4. key[1] = i /\ key[2][2] = k
    BY <2>3
  <2>5. made(i) \in Nat /\ made(i + 1) \in Nat
    BY <1>1
  <2>6. 1 <= k /\ k <= made(i + 1) - made(i)
    BY <2>2, <2>4, <2>5
  <2> QED BY <2>1, <2>3, <2>4, <2>6
<1> HIDE DEF name
<1>5. ASSUME NEW one \in DOMAIN name, NEW two \in DOMAIN name, name[one] = name[two]
      PROVE  one = two
  <2> DEFINE i == one[1]
             j == two[1]
             k == one[2][2]
             l == two[2][2]
  <2>1. /\ one = <<i, <<"anon", k>>>> /\ i \in 1 .. m /\ k \in Nat /\ 1 <= k
        /\ k <= made(i + 1) - made(i) /\ name[one] = <<"anon", made(i) + k>>
    BY <1>4
  <2>2. /\ two = <<j, <<"anon", l>>>> /\ j \in 1 .. m /\ l \in Nat /\ 1 <= l
        /\ l <= made(j + 1) - made(j) /\ name[two] = <<"anon", made(j) + l>>
    BY <1>4
  <2> HIDE DEF i, j, k, l
  <2>3. made(i) + k = made(j) + l
    BY <1>5, <2>1, <2>2
  <2>4. made(i) \in Nat /\ made(i + 1) \in Nat /\ made(j) \in Nat /\ made(j + 1) \in Nat
    BY <1>1, <2>1, <2>2
  <2>5. ~(i < j)
    <3> SUFFICES ASSUME i < j PROVE FALSE
      OBVIOUS
    <3>1. made(i + 1) <= made(j)
      BY <1>3, <2>1, <2>2
    <3> QED BY <2>1, <2>2, <2>3, <2>4, <3>1
  <2>6. ~(j < i)
    <3> SUFFICES ASSUME j < i PROVE FALSE
      OBVIOUS
    <3>1. made(j + 1) <= made(i)
      BY <1>3, <2>1, <2>2
    <3> QED BY <2>1, <2>2, <2>3, <2>4, <3>1
  <2>7. i = j
    BY <1>1, <2>1, <2>2, <2>5, <2>6
  <2>8. k = l
    BY <2>1, <2>2, <2>3, <2>4, <2>7
  <2> QED BY <2>1, <2>2, <2>7, <2>8
<1>6. ASSUME NEW key \in DOMAIN name PROVE key = <<key[1], key[2]>> /\ key[1] \in 1 .. m
  <2>1. key = <<key[1], <<"anon", key[2][2]>>>> /\ key[1] \in 1 .. m
    BY <1>4
  <2> QED BY <2>1
<1>7. OwnNames(name, m)
  BY <1>5, <1>6 DEF OwnNames, Distinct
<1> QED BY <1>7 DEF name

\* The first nodes of a piece have the names of the whole's.
LEMMA PieceNumbers ==
    ASSUME NEW doc, NEW m, NEW c, InPieces(doc, m, c), NEW i \in 1 .. m
    PROVE  /\ MadeBy(doc, c, i + 1) - MadeBy(doc, c, i) \in Nat
           /\ Numbers(PieceNames(doc, m, c), i, MadeBy(doc, c, i),
                      MadeBy(doc, c, i + 1) - MadeBy(doc, c, i))
<1> DEFINE a == MadeBy(doc, c, i)
           b == MadeBy(doc, c, i + 1)
           name == PieceNames(doc, m, c)
<1>1. a \in Nat /\ b \in Nat /\ a <= b
  BY CutsGrow
<1>2. ASSUME NEW k \in 1 .. (b - a)
      PROVE  /\ <<i, <<"anon", k>>>> \in DOMAIN name
             /\ name[<<i, <<"anon", k>>>>] = <<"anon", a + k>>
  <2> DEFINE key == <<i, <<"anon", k>>>>
  <2>1. k \in Nat
    BY <1>1
  <2>2. key \in (1 .. m) \X ({"anon"} \X Nat) /\ key[1] = i /\ key[2][2] = k
    BY <2>1
  <2> HIDE DEF key
  <2>3. key \in PieceKeys(doc, m, c)
    BY <1>2, <2>2 DEF PieceKeys
  <2>4. key \in DOMAIN name /\ name[key] = <<"anon", a + k>>
    BY <2>2, <2>3 DEF PieceNames
  <2> QED BY <2>4 DEF key
<1>3. b - a \in Nat
  BY <1>1
<1> HIDE DEF a, b, name
<1>4. Numbers(name, i, a, b - a)
  BY <1>2 DEF Numbers
<1> QED BY <1>3, <1>4 DEF a, b, name

\* What a piece says lies in the whole as laid out.
LEMMA PieceLaid ==
    ASSUME NEW doc, NEW m, NEW c, InPieces(doc, m, c), NEW i \in 1 .. m
    PROVE  Laid(PieceLayout(doc, m, c), i, Parse(Pieces(doc, m, c)[i]).triples,
                Parse(doc.units).triples)
<1> DEFINE units == doc.units
           S == ToSet(units)
           n == Len(units)
           t == Pieces(doc, m, c)[i]
           f == After(units)
           g == After(t)
           p == c[1]
           a == c[i]
           b == c[i + 1]
           lay == PieceLayout(doc, m, c)
           name == PieceNames(doc, m, c)
           P == Len(f[p].triples)
           A == Len(f[a].triples)
           F == f[b].triples
           G == g[Len(t)].triples
           whole == f[n].triples
           limit == MadeBy(doc, c, i + 1) - MadeBy(doc, c, i)
<1>1. /\ units \in Seq(S) /\ (\A unit \in S : UnitOK(unit)) /\ Unlabelled(units)
      /\ ReadsWell(f, units) /\ Parse(units) = f[n]
      /\ \A k \in 1 .. p : \A term \in TermsOf(units[k].triples) : term.t \notin {"label", "anon"}
  BY UnitsInPieces DEF InPieces
<1>2. /\ n \in Nat /\ p \in 0 .. n /\ a \in 0 .. n /\ b \in 0 .. n /\ p <= a /\ a <= b
      /\ m \in Nat \ {0}
  BY CutsOfPieces
<1>3. /\ t \in Seq(S) /\ Len(t) \in Nat /\ Parse(t) = g[Len(t)]
      /\ ReadTogether(units, t, p, a, b, f, g, f[p].env)
  BY PieceTogether
<1>4. /\ limit \in Nat /\ Numbers(name, i, f[a].made, limit) /\ limit = f[b].made - f[a].made
  BY PieceNumbers DEF MadeBy
<1>5. /\ A \in Nat /\ Len(F) \in Nat /\ A <= Len(F) /\ IsList(F) /\ Grows(F, whole)
  BY CutsGrow
<1>6. /\ g[p] = f[p] /\ ReadsWell(g, t)
      /\ p \in 0 .. Len(t) /\ Len(t) \in 0 .. Len(t) /\ p <= Len(t)
  <2>1. Len(t) = p + (b - a)
    BY <1>3 DEF ReadTogether
  <2> HIDE DEF t, p, a, b, n
  <2>2. p \in 0 .. Len(t) /\ Len(t) \in 0 .. Len(t) /\ p <= Len(t)
    BY <1>2, <1>3, <2>1
  <2> QED BY <1>3, <2>2 DEF ReadTogether
<1> HIDE DEF units, S, n, t, f, g, p, a, b, limit, name
<1>7. Alike(name, i, F, G, P, A)
  BY <1>1, <1>3, <1>4, PieceAlike
<1>8. \A x \in 1 .. P : \A d \in 1 .. 3 : IsRenamed(name, i, f[p].triples[x][d], f[p].triples[x][d])
  BY <1>1, <1>2, PrologueMoved DEF n
<1>9. /\ Grows(g[p].triples, G) /\ g[p].made <= g[Len(t)].made
      /\ Len(g[p].triples) \in Nat /\ Len(G) \in Nat /\ Len(g[p].triples) <= Len(G)
  BY <1>1, <1>3, <1>6, ReadsGrow
<1>10. /\ Grows(f[p].triples, F) /\ f[p].made <= f[b].made
       /\ Len(f[p].triples) \in Nat /\ Len(F) \in Nat /\ Len(f[p].triples) <= Len(F)
  BY <1>1, <1>2, ReadsGrow DEF n
<1>11. lay.name = name /\ lay.pro = P /\ lay.from[i] = A /\ lay.from[i + 1] = Len(F)
  <2>1. i \in 1 .. (m + 1) /\ i + 1 \in 1 .. (m + 1)
    BY <1>2
  <2> HIDE DEF P
  <2> QED BY <2>1 DEF PieceLayout, name, P, f, p, a, b, units
<1>12. IsList(f[p].triples) /\ DOMAIN f[p].triples = 1 .. P
  <2>1. IsList(f[p].triples)
    BY <1>1, <1>2 DEF ReadsWell, n
  <2> QED BY <2>1, LenProperties DEF IsList
<1>13. IsList(G) /\ Len(G) + A = P + Len(F) /\ DOMAIN F = 1 .. Len(F)
  BY <1>5, <1>7, LenProperties DEF Alike, IsList
<1> DEFINE pro == f[p].triples
<1>14. P = Len(pro) /\ Grows(pro, F) /\ Grows(pro, G)
  BY <1>6, <1>9, <1>10
<1>15. P \in Nat /\ Len(G) \in Nat
  BY <1>9, <1>10
<1> HIDE DEF lay, P, A, F, G, whole, pro
<1>16. Len(G) = lay.pro + (lay.from[i + 1] - lay.from[i])
  BY <1>5, <1>11, <1>13, <1>15
<1>17. ASSUME NEW x \in 1 .. Len(G), NEW d \in 1 .. 3
       PROVE  IsRenamed(lay.name, i, G[x][d], whole[Place(lay, i, x)][d])
  <2>1. x \in 1 .. P \/ (x - P \in 1 .. (Len(F) - A) /\ ~(x <= P) /\ P + (x - P) = x)
    BY <1>5, <1>13, <1>15
  <2>2. CASE x \in 1 .. P
    <3>1. Place(lay, i, x) = x
      <4>1. x <= P
        BY <1>15, <2>2
      <4> QED BY <1>11, <4>1 DEF Place
    <3>2. G[x] = pro[x] /\ F[x] = pro[x] /\ x \in DOMAIN F
      BY <1>12, <1>14, <2>2 DEF Grows, pro
    <3>3. whole[x] = pro[x]
      BY <1>5, <3>2 DEF Grows
    <3>4. IsRenamed(name, i, pro[x][d], pro[x][d])
      BY <1>8, <2>2 DEF pro
    <3> QED BY <1>11, <3>1, <3>2, <3>3, <3>4
  <2>3. CASE x - P \in 1 .. (Len(F) - A) /\ ~(x <= P) /\ P + (x - P) = x
    <3> DEFINE y == x - P
    <3>1. Place(lay, i, x) = A + y
      BY <1>11, <2>3 DEF Place
    <3>2. y \in 1 .. (Len(F) - A) /\ P + y = x
      BY <2>3
    <3> HIDE DEF y
    <3>3. A + y \in DOMAIN F
      BY <1>5, <1>13, <3>2
    <3>4. whole[A + y] = F[A + y]
      BY <1>5, <3>3 DEF Grows
    <3>5. IsRenamed(name, i, G[P + y][d], F[A + y][d])
      BY <1>7, <3>2 DEF Alike
    <3> QED BY <1>11, <3>1, <3>2, <3>4, <3>5
  <2> QED BY <2>1, <2>2, <2>3
<1>18. Laid(lay, i, G, whole)
  BY <1>13, <1>16, <1>17 DEF Laid
<1>19. Parse(Pieces(doc, m, c)[i]).triples = G /\ Parse(doc.units).triples = whole
  BY <1>1, <1>3 DEF G, whole, t, units
<1> QED BY <1>18, <1>19 DEF lay

\* A document in pieces is laid out so.
LEMMA LayoutPieces ==
    ASSUME NEW doc, NEW m, NEW c, InPieces(doc, m, c)
    PROVE  Layout(Pieces(doc, m, c), Parse(doc.units).triples, PieceLayout(doc, m, c))
<1> DEFINE texts == Pieces(doc, m, c)
           lay == PieceLayout(doc, m, c)
           whole == Parse(doc.units).triples
           f == After(doc.units)
           n == Len(doc.units)
           upTo(i) == Len(f[c[i]].triples)
<1>1. m \in Nat \ {0} /\ c[m + 1] = n /\ Parse(doc.units) = f[n]
  <2>1. m \in Nat \ {0} /\ c[m + 1] = n
    BY DEF InPieces, CutAfter
  <2> QED BY <2>1, UnitsInPieces
<1>2. Len(texts) = m /\ DOMAIN texts = 1 .. m
  <2>1. texts = [i \in 1 .. m |-> texts[i]]
    BY DEF Pieces
  <2> HIDE DEF texts
  <2> QED BY <1>1, <2>1, LenProperties
<1>3. lay.name = PieceNames(doc, m, c) /\ lay.pro = upTo(1)
      /\ \A i \in 1 .. (m + 1) : lay.from[i] = upTo(i)
  BY DEF PieceLayout
<1>4. \A i \in 1 .. m : upTo(i) \in Nat /\ upTo(i + 1) \in Nat /\ upTo(i) <= upTo(i + 1)
  BY CutsGrow
<1>5. IsList(whole) /\ upTo(m + 1) = Len(whole)
  <2>1. m \in 1 .. m
    BY <1>1
  <2>2. IsList(f[c[m + 1]].triples)
    BY <2>1, CutsGrow
  <2> QED BY <1>1, <2>2
<1> HIDE DEF upTo, lay, whole, texts, f
<1>6. Tiles(lay, m, whole)
  <2>1. \A i \in 1 .. (m + 1) : i \in 1 .. m \/ (i - 1 \in 1 .. m /\ i = (i - 1) + 1)
    BY <1>1
  <2>2. \A i \in 1 .. (m + 1) : upTo(i) \in Nat
    <3> SUFFICES ASSUME NEW i \in 1 .. (m + 1) PROVE upTo(i) \in Nat
      OBVIOUS
    <3> QED BY <1>4, <2>1
  <2>3. /\ 1 \in 1 .. (m + 1) /\ m + 1 \in 1 .. (m + 1)
        /\ \A i \in 1 .. m : i \in 1 .. (m + 1) /\ i + 1 \in 1 .. (m + 1)
    BY <1>1
  <2> QED BY <1>1, <1>3, <1>4, <1>5, <2>2, <2>3 DEF Tiles
<1>7. OwnNames(lay.name, m)
  BY <1>3, NamesApart
<1>8. \A i \in 1 .. m : Laid(lay, i, Parse(texts[i]).triples, whole)
  BY PieceLaid DEF lay, texts, whole
<1>9. Layout(texts, whole, lay)
  BY <1>2, <1>6, <1>7, <1>8 DEF Layout
<1> QED BY <1>9 DEF texts, whole, lay

\* Every document that parses is laid out somehow, in however many texts.
LEMMA LayoutExists ==
    ASSUME NEW doc, DocOK(doc), Tame(doc), NEW want \in Nat, Parse(doc.units).ok
    PROVE  \E lay : Layout(Texts(doc, want), Parse(doc.units).triples, lay)
<1>1. \A i \in DOMAIN Texts(doc, want) : Parse(Texts(doc, want)[i]).ok
  BY PiecesParse
<1>2. CASE ~IsSplit(doc, want) /\ Texts(doc, want) = <<doc.units>>
  <2>1. doc.units \in Seq(ToSet(doc.units)) /\ \A unit \in ToSet(doc.units) : UnitOK(unit)
    BY DEF DocOK, IsSeq
  <2> QED BY <1>2, <2>1, LayoutWhole
<1>3. ASSUME IsSplit(doc, want), MayBeSplit(doc, want),
             NEW m, NEW c, CutAfter(doc, m, c), Texts(doc, want) = Pieces(doc, m, c)
      PROVE  \E lay : Layout(Texts(doc, want), Parse(doc.units).triples, lay)
  <2>1. ~Labelled(doc)
    BY <1>3 DEF MayBeSplit
  <2>2. /\ doc.units \in Seq(ToSet(doc.units)) /\ Len(doc.units) \in Nat
        /\ c[1] \in 0 .. Len(doc.units)
        /\ \A k \in (c[1] + 1) .. Len(doc.units) : doc.units[k].decl = <<>>
        /\ \A k \in 1 .. c[1] : doc.units[k].head = "directive"
        /\ DOMAIN Pieces(doc, m, c) = 1 .. m
        /\ \A i \in 1 .. m : IsPiece(Pieces(doc, m, c)[i], doc.units, c[1], c[i], c[i + 1])
    BY <1>3, PiecesAre
  <2>3. InPieces(doc, m, c)
    BY <1>1, <1>3, <2>1, <2>2 DEF InPieces
  <2>4. Layout(Pieces(doc, m, c), Parse(doc.units).triples, PieceLayout(doc, m, c))
    BY <2>3, LayoutPieces
  <2> QED BY <1>3, <2>4
<1> QED BY <1>2, <1>3, TextsAre

\* Each document has a scope of its own, below those of chunks, and the
\* documents of one graph stand together.
JobsApart(js) ==
    /\ \A j \in DOMAIN js : js[j].scope \in Nat /\ js[j].scope < 65536
    /\ \A j, k \in DOMAIN js : js[j].scope = js[k].scope => j = k
    /\ \A i, j, k \in DOMAIN js : i <= j /\ j <= k /\ js[i].for = js[k].for => js[i].for = js[j].for

\* The scopes documents of data have, and those of shapes.
OfData(scope) == scope = 0 \/ (scope \in Nat /\ 16 <= scope /\ scope <= 1039)
OfShapes(scope) == scope = 1 \/ (scope \in Nat /\ 1040 <= scope /\ scope <= 65535)

\* The scopes of some documents.
LEMMA ScopesOfDocuments ==
    ASSUME NEW for \in {"data", "shapes"}, NEW docs, NEW n \in Nat, n = Len(docs),
           DOMAIN docs = 1 .. n, for = "data" => n <= 1024, n <= 64000
    PROVE  /\ DOMAIN JobsFor(for, docs) = 1 .. n /\ Len(JobsFor(for, docs)) = n
           /\ \A i \in 1 .. n :
                 /\ JobsFor(for, docs)[i].for = for
                 /\ for = "data" => OfData(JobsFor(for, docs)[i].scope)
                 /\ for = "shapes" => OfShapes(JobsFor(for, docs)[i].scope)
           /\ \A i, k \in 1 .. n :
                 JobsFor(for, docs)[i].scope = JobsFor(for, docs)[k].scope => i = k
<1> DEFINE js == JobsFor(for, docs)
<1>1. /\ DOMAIN js = 1 .. n
      /\ \A i \in 1 .. n : js[i].for = for /\ js[i].scope = ScopeOf(for, n, i)
  BY DEF JobsFor
<1>2. Len(js) = n
  <2>1. js = [i \in 1 .. n |-> js[i]]
    BY DEF JobsFor
  <2> HIDE DEF js
  <2> QED BY <2>1, LenProperties
<1>3. BaseOf["data"] = 0 /\ BaseOf["shapes"] = 1 /\ FirstDynamic = 16
  BY DEF BaseOf, FirstDynamic
<1> HIDE DEF js
<1>4. CASE for = "data"
  <2>1. \A i \in 1 .. n : ScopeOf(for, n, i) = IF n = 1 THEN 0 ELSE 16 + i - 1
    BY <1>3, <1>4 DEF ScopeOf
  <2>2. \A i \in 1 .. n : OfData(js[i].scope)
    BY <1>1, <1>4, <2>1 DEF OfData
  <2>3. \A i, k \in 1 .. n : js[i].scope = js[k].scope => i = k
    BY <1>1, <2>1
  <2> QED BY <1>1, <1>2, <1>4, <2>2, <2>3 DEF js
<1>5. CASE for = "shapes"
  <2>1. \A i \in 1 .. n : ScopeOf(for, n, i) = IF n = 1 THEN 1 ELSE 1040 + i - 1
    BY <1>3, <1>5 DEF ScopeOf
  <2>2. \A i \in 1 .. n : OfShapes(js[i].scope)
    BY <1>1, <2>1 DEF OfShapes
  <2>3. \A i, k \in 1 .. n : js[i].scope = js[k].scope => i = k
    BY <1>1, <2>1
  <2> QED BY <1>1, <1>2, <1>5, <2>2, <2>3 DEF js
<1> QED BY <1>4, <1>5

\* Those of a run: first the data, then the shapes.
LEMMA JobsOfInputApart ==
    ASSUME NEW input \in Inputs
    PROVE  JobsApart(JobsFor("data", input.data) \o JobsFor("shapes", input.shapes))
<1> DEFINE a == JobsFor("data", input.data)
           b == JobsFor("shapes", input.shapes)
           m == Len(input.data)
           n == Len(input.shapes)
           js == a \o b
<1>1. IsSeq(input.data) /\ IsSeq(input.shapes) /\ m <= 1024 /\ n <= 64000
  BY InputsAssumption, DocumentsAssumption
<1>2. /\ m \in Nat /\ DOMAIN input.data = 1 .. m
      /\ n \in Nat /\ DOMAIN input.shapes = 1 .. n
  BY <1>1, LenProperties DEF IsSeq
<1>3. m <= 64000
  BY <1>1, <1>2
<1> HIDE DEF m, n
<1>4. /\ DOMAIN a = 1 .. m /\ Len(a) = m
      /\ \A i \in 1 .. m : a[i].for = "data" /\ OfData(a[i].scope)
      /\ \A i, k \in 1 .. m : a[i].scope = a[k].scope => i = k
  BY <1>1, <1>2, <1>3, ScopesOfDocuments DEF m
<1>5. /\ DOMAIN b = 1 .. n /\ Len(b) = n
      /\ \A i \in 1 .. n : b[i].for = "shapes" /\ OfShapes(b[i].scope)
      /\ \A i, k \in 1 .. n : b[i].scope = b[k].scope => i = k
  BY <1>1, <1>2, ScopesOfDocuments DEF n
<1>6. a \in Seq(ToSet(a)) /\ b \in Seq(ToSet(b))
  BY <1>2, <1>4, <1>5 DEF JobsFor, IsSeq, ToSet, m, n
<1> HIDE DEF a, b
<1>7. /\ DOMAIN js = 1 .. (m + n)
      /\ \A i \in 1 .. m : js[i] = a[i]
      /\ \A i \in 1 .. n : js[m + i] = b[i]
  <2>1. IsList(a) /\ IsList(b)
    BY <1>6 DEF IsList
  <2>2. DOMAIN js = 1 .. (m + n) /\ Grows(a, js) /\ \A i \in 1 .. Len(b) : js[m + i] = b[i]
    <3>1. Continues(js, a, b)
      BY DEF Continues
    <3> HIDE DEF js
    <3>2. /\ Grows(a, js) /\ DOMAIN js = 1 .. (Len(a) + Len(b))
          /\ \A i \in 1 .. Len(b) : js[Len(a) + i] = b[i]
      BY <2>1, <3>1, ContinuedList
    <3> QED BY <1>4, <1>5, <3>2
  <2> HIDE DEF js
  <2> QED BY <1>4, <1>5, <2>2 DEF Grows
<1> HIDE DEF js
<1>8. ASSUME NEW j \in DOMAIN js
      PROVE  \/ j \in 1 .. m /\ js[j] = a[j]
             \/ j - m \in 1 .. n /\ j = m + (j - m) /\ j > m /\ js[j] = b[j - m]
  <2>1. j \in 1 .. m \/ (j - m \in 1 .. n /\ j = m + (j - m) /\ j > m)
    BY <1>2, <1>7
  <2>2. CASE j \in 1 .. m
    BY <1>7, <2>2
  <2>3. CASE j - m \in 1 .. n /\ j = m + (j - m) /\ j > m
    <3> DEFINE k == j - m
    <3>1. k \in 1 .. n /\ j = m + k
      BY <2>3
    <3> HIDE DEF k
    <3>2. js[j] = b[k]
      BY <1>7, <3>1
    <3> QED BY <2>3, <3>2 DEF k
  <2> QED BY <2>1, <2>2, <2>3
<1>9. \A j \in DOMAIN js : js[j].scope \in Nat /\ js[j].scope < 65536
  <2> SUFFICES ASSUME NEW j \in DOMAIN js PROVE js[j].scope \in Nat /\ js[j].scope < 65536
    OBVIOUS
  <2>1. CASE j \in 1 .. m /\ js[j] = a[j]
    <3>1. OfData(a[j].scope)
      BY <1>4, <2>1
    <3> QED BY <2>1, <3>1 DEF OfData
  <2>2. CASE j - m \in 1 .. n /\ js[j] = b[j - m]
    <3>1. OfShapes(b[j - m].scope)
      BY <1>5, <2>2
    <3>2. OfShapes(js[j].scope)
      BY <2>2, <3>1
    <3> QED BY <3>2 DEF OfShapes
  <2> QED BY <1>8, <2>1, <2>2
<1>10. ASSUME NEW j \in DOMAIN js, NEW k \in DOMAIN js, js[j].scope = js[k].scope PROVE j = k
  <2> DEFINE InA(i) == i \in 1 .. m /\ js[i] = a[i]
             InB(i) == i - m \in 1 .. n /\ i = m + (i - m) /\ i > m /\ js[i] = b[i - m]
  <2>1. (InA(j) \/ InB(j)) /\ (InA(k) \/ InB(k))
    BY <1>8
  <2>2. \A i : /\ InA(i) => OfData(js[i].scope)
               /\ InB(i) => OfShapes(js[i].scope)
    BY <1>4, <1>5
  <2>3. CASE InA(j) /\ InA(k)
    BY <1>4, <1>10, <2>3
  <2>4. CASE InB(j) /\ InB(k)
    <3>1. j - m = k - m
      BY <1>5, <1>10, <2>4
    <3>2. j = m + (j - m) /\ k = m + (k - m)
      BY <2>4
    <3> QED BY <3>1, <3>2
  <2>5. ~(InA(j) /\ InB(k)) /\ ~(InB(j) /\ InA(k))
    <3> HIDE DEF InA, InB
    <3>1. \A s : OfData(s) => ~OfShapes(s)
      BY DEF OfData, OfShapes
    <3> QED BY <1>10, <2>2, <3>1
  <2> QED BY <2>1, <2>3, <2>4, <2>5
<1>11. ASSUME NEW i \in DOMAIN js, NEW j \in DOMAIN js, NEW k \in DOMAIN js,
              i <= j, j <= k, js[i].for = js[k].for
       PROVE  js[i].for = js[j].for
  <2>1. \A l \in DOMAIN js : \/ l \in 1 .. m /\ js[l].for = "data"
                             \/ l > m /\ js[l].for = "shapes"
    <3> SUFFICES ASSUME NEW l \in DOMAIN js
                 PROVE  \/ l \in 1 .. m /\ js[l].for = "data"
                        \/ l > m /\ js[l].for = "shapes"
      OBVIOUS
    <3> QED BY <1>4, <1>5, <1>8
  <2>2. i \in Nat /\ j \in Nat /\ k \in Nat /\ m \in Nat
    BY <1>2, <1>7
  <2>3. CASE j > m
    <3>1. k > m
      BY <1>11, <2>2, <2>3
    <3>2. ~(k \in 1 .. m) /\ ~(j \in 1 .. m)
      BY <2>2, <2>3, <3>1
    <3> QED BY <1>11, <2>1, <3>2
  <2>4. CASE ~(j > m)
    <3>1. ~(i > m)
      BY <1>11, <2>2, <2>4
    <3> QED BY <2>1, <2>4, <3>1
  <2> QED BY <2>3, <2>4
<1>12. JobsApart(js)
  BY <1>9, <1>10, <1>11 DEF JobsApart
<1> QED BY <1>12 DEF js, a, b

\* The documents of a run and how many cores read them.
RunRight(js, want) ==
    /\ JobsRight(js) /\ JobsApart(js) /\ want \in Nat
    /\ \A j \in DOMAIN js : Tame(js[j].doc)

\* A document's texts, how they lie in it, and the scope of each.
TextsOf(js, want, j) == Texts(js[j].doc, want)
WholeOf(js, j) == Parse(js[j].doc.units)
LayoutOf(js, want, j) ==
    CHOOSE lay : Layout(TextsOf(js, want, j), WholeOf(js, j).triples, lay)
ScopeIn(js, want, j, i) ==
    IF IsSplit(js[j].doc, want) THEN js[j].scope + i * 65536 ELSE js[j].scope

\* Each document that parses has been laid out, in one text if it is not split.
LEMMA LaidOut ==
    ASSUME NEW js, NEW want, RunRight(js, want), NEW j \in DOMAIN js
    PROVE  /\ WholeOf(js, j).ok =>
                 Layout(TextsOf(js, want, j), WholeOf(js, j).triples, LayoutOf(js, want, j))
           /\ IsSplit(js[j].doc, want) \/ Len(TextsOf(js, want, j)) = 1
<1>1. DocOK(js[j].doc) /\ Tame(js[j].doc) /\ want \in Nat
  BY DEF RunRight, JobsRight
<1>2. ASSUME WholeOf(js, j).ok
      PROVE  Layout(TextsOf(js, want, j), WholeOf(js, j).triples, LayoutOf(js, want, j))
  <2>1. \E lay : Layout(TextsOf(js, want, j), WholeOf(js, j).triples, lay)
    BY <1>1, <1>2, LayoutExists DEF TextsOf, WholeOf
  <2> QED BY <2>1 DEF LayoutOf
<1>3. ASSUME ~IsSplit(js[j].doc, want) PROVE Len(TextsOf(js, want, j)) = 1
  <2>1. Texts(js[j].doc, want) = <<js[j].doc.units>>
    BY <1>1, <1>3, TextsAre
  <2> QED BY <2>1 DEF TextsOf
<1> QED BY <1>2, <1>3

\* No two texts of a run have one scope.
LEMMA ScopesApart ==
    ASSUME NEW js, NEW want, RunRight(js, want), NEW j \in DOMAIN js, NEW l \in DOMAIN js,
           NEW i \in Nat \ {0}, i <= Len(TextsOf(js, want, j)),
           NEW k \in Nat \ {0}, k <= Len(TextsOf(js, want, l)),
           ScopeIn(js, want, j, i) = ScopeIn(js, want, l, k)
    PROVE  j = l /\ i = k
<1> DEFINE s == js[j].scope
           t == js[l].scope
           one == IsSplit(js[j].doc, want)
           two == IsSplit(js[l].doc, want)
<1>1. s \in Nat /\ s < 65536 /\ t \in Nat /\ t < 65536 /\ (s = t => j = l)
  <2>1. JobsApart(js)
    BY DEF RunRight
  <2>2. s \in Nat /\ s < 65536 /\ t \in Nat /\ t < 65536
    BY <2>1 DEF JobsApart
  <2>3. s = t => j = l
    BY <2>1 DEF JobsApart
  <2> QED BY <2>2, <2>3
<1>2. (one \/ i = 1) /\ (two \/ k = 1)
  <2>1. one \/ Len(TextsOf(js, want, j)) = 1
    BY LaidOut
  <2>2. two \/ Len(TextsOf(js, want, l)) = 1
    BY LaidOut
  <2> HIDE DEF one, two
  <2>3. Len(TextsOf(js, want, j)) = 1 => i = 1
    OBVIOUS
  <2>4. Len(TextsOf(js, want, l)) = 1 => k = 1
    OBVIOUS
  <2> QED BY <2>1, <2>2, <2>3, <2>4
<1>3. (IF one THEN s + i * 65536 ELSE s) = (IF two THEN t + k * 65536 ELSE t)
  BY DEF ScopeIn
<1>4. j = l => (one <=> two)
  OBVIOUS
<1> HIDE DEF s, t, one, two
<1>5. s = t
  <2>1. CASE one /\ two
    <3>1. s + i * 65536 = t + k * 65536
      BY <1>3, <2>1
    <3> QED BY <1>1, <3>1
  <2>2. CASE one /\ ~two
    <3>1. s + i * 65536 = t
      BY <1>3, <2>2
    <3> QED BY <1>1, <3>1
  <2>3. CASE ~one /\ two
    <3>1. s = t + k * 65536
      BY <1>3, <2>3
    <3> QED BY <1>1, <3>1
  <2>4. CASE ~one /\ ~two
    BY <1>3, <2>4
  <2> QED BY <2>1, <2>2, <2>3, <2>4
<1>6. i = k
  <2>1. CASE one
    <3>1. s + i * 65536 = s + k * 65536
      BY <1>1, <1>3, <1>4, <1>5, <2>1
    <3> QED BY <1>1, <3>1
  <2>2. CASE ~one
    BY <1>1, <1>2, <1>4, <1>5, <2>2
  <2> QED BY <2>1, <2>2
<1> QED BY <1>1, <1>5, <1>6

\* The blank nodes of all texts, by the label and the scope of each, and the
\* nodes of the documents they are.
Nodes(js, want) ==
    UNION {{<<j, key[1], key[2]>> : key \in DOMAIN LayoutOf(js, want, j).name} :
              j \in {j \in DOMAIN js : WholeOf(js, j).ok}}
ScopedLabel(js, want, node) == <<ScopeIn(js, want, node[1], node[2]), node[3]>>
NodeAt(js, want, pair) ==
    CHOOSE node : node \in Nodes(js, want) /\ ScopedLabel(js, want, node) = pair
NodeNames(js, want) ==
    [pair \in {ScopedLabel(js, want, node) : node \in Nodes(js, want)} |->
        LET node == NodeAt(js, want, pair)
        IN  <<node[1], LayoutOf(js, want, node[1]).name[<<node[2], node[3]>>]>>]

\* What such a node is.
LEMMA NodeIs ==
    ASSUME NEW js, NEW want, RunRight(js, want), NEW node \in Nodes(js, want)
    PROVE  /\ node = <<node[1], node[2], node[3]>>
           /\ node[1] \in DOMAIN js /\ WholeOf(js, node[1]).ok
           /\ node[2] \in Nat \ {0} /\ node[2] <= Len(TextsOf(js, want, node[1]))
           /\ <<node[2], node[3]>> \in DOMAIN LayoutOf(js, want, node[1]).name
<1>1. PICK j \in DOMAIN js : /\ WholeOf(js, j).ok
                             /\ \E key \in DOMAIN LayoutOf(js, want, j).name :
                                       node = <<j, key[1], key[2]>>
  BY DEF Nodes
<1>2. PICK key \in DOMAIN LayoutOf(js, want, j).name : node = <<j, key[1], key[2]>>
  BY <1>1
<1>3. /\ Tiles(LayoutOf(js, want, j), Len(TextsOf(js, want, j)), WholeOf(js, j).triples)
      /\ OwnNames(LayoutOf(js, want, j).name, Len(TextsOf(js, want, j)))
  BY <1>1, LaidOut DEF Layout
<1>4. key = <<key[1], key[2]>> /\ key[1] \in 1 .. Len(TextsOf(js, want, j))
  BY <1>2, <1>3 DEF OwnNames
<1>5. Len(TextsOf(js, want, j)) \in Nat
  BY <1>3 DEF Tiles
<1>6. key[1] \in Nat \ {0} /\ key[1] <= Len(TextsOf(js, want, j))
  BY <1>4, <1>5
<1>7. node[1] = j /\ node[2] = key[1] /\ node[3] = key[2]
  BY <1>2
<1>8. <<node[2], node[3]>> = key
  BY <1>4, <1>7
<1> QED BY <1>1, <1>2, <1>6, <1>7, <1>8

\* No two have one label and scope.
LEMMA NodesApart ==
    ASSUME NEW js, NEW want, RunRight(js, want),
           NEW one \in Nodes(js, want), NEW two \in Nodes(js, want),
           ScopedLabel(js, want, one) = ScopedLabel(js, want, two)
    PROVE  one = two
<1>1. /\ one = <<one[1], one[2], one[3]>> /\ one[1] \in DOMAIN js
      /\ one[2] \in Nat \ {0} /\ one[2] <= Len(TextsOf(js, want, one[1]))
  BY NodeIs
<1>2. /\ two = <<two[1], two[2], two[3]>> /\ two[1] \in DOMAIN js
      /\ two[2] \in Nat \ {0} /\ two[2] <= Len(TextsOf(js, want, two[1]))
  BY NodeIs
<1>3. ScopeIn(js, want, one[1], one[2]) = ScopeIn(js, want, two[1], two[2]) /\ one[3] = two[3]
  BY DEF ScopedLabel
<1>4. one[1] = two[1] /\ one[2] = two[2]
  BY <1>1, <1>2, <1>3, ScopesApart
<1> QED BY <1>1, <1>2, <1>3, <1>4

\* Each node has its name.
LEMMA NodeNamed ==
    ASSUME NEW js, NEW want, RunRight(js, want), NEW node \in Nodes(js, want)
    PROVE  /\ ScopedLabel(js, want, node) \in DOMAIN NodeNames(js, want)
           /\ NodeNames(js, want)[ScopedLabel(js, want, node)] =
                 <<node[1], LayoutOf(js, want, node[1]).name[<<node[2], node[3]>>]>>
<1> DEFINE pair == ScopedLabel(js, want, node)
<1>1. NodeAt(js, want, pair) \in Nodes(js, want)
      /\ ScopedLabel(js, want, NodeAt(js, want, pair)) = pair
  BY DEF NodeAt
<1>2. NodeAt(js, want, pair) = node
  BY <1>1, NodesApart
<1>3. pair \in {ScopedLabel(js, want, n) : n \in Nodes(js, want)}
  OBVIOUS
<1> HIDE DEF pair
<1>4. pair \in DOMAIN NodeNames(js, want)
  BY <1>3 DEF NodeNames
<1>5. NodeNames(js, want)[pair] =
         <<node[1], LayoutOf(js, want, node[1]).name[<<node[2], node[3]>>]>>
  BY <1>2, <1>3 DEF NodeNames
<1> QED BY <1>4, <1>5 DEF pair

\* And no two have one name.
LEMMA NodeNamesDistinct ==
    ASSUME NEW js, NEW want, RunRight(js, want)
    PROVE  Distinct(NodeNames(js, want))
<1> DEFINE N == NodeNames(js, want)
<1>1. ASSUME NEW a \in DOMAIN N, NEW b \in DOMAIN N, N[a] = N[b] PROVE a = b
  <2>1. PICK one \in Nodes(js, want) : a = ScopedLabel(js, want, one)
    BY DEF NodeNames
  <2>2. PICK two \in Nodes(js, want) : b = ScopedLabel(js, want, two)
    BY DEF NodeNames
  <2> HIDE DEF N
  <2>3. N[a] = <<one[1], LayoutOf(js, want, one[1]).name[<<one[2], one[3]>>]>>
    <3>1. NodeNames(js, want)[ScopedLabel(js, want, one)]
             = <<one[1], LayoutOf(js, want, one[1]).name[<<one[2], one[3]>>]>>
      BY NodeNamed
    <3> QED BY <2>1, <3>1 DEF N
  <2>4. N[b] = <<two[1], LayoutOf(js, want, two[1]).name[<<two[2], two[3]>>]>>
    <3>1. NodeNames(js, want)[ScopedLabel(js, want, two)]
             = <<two[1], LayoutOf(js, want, two[1]).name[<<two[2], two[3]>>]>>
      BY NodeNamed
    <3> QED BY <2>2, <3>1 DEF N
  <2> DEFINE name == LayoutOf(js, want, one[1]).name
  <2>5. one[1] = two[1] /\ name[<<one[2], one[3]>>] = name[<<two[2], two[3]>>]
    <3> DEFINE x == name[<<one[2], one[3]>>]
               y == LayoutOf(js, want, two[1]).name[<<two[2], two[3]>>]
    <3>1. <<one[1], x>> = <<two[1], y>>
      BY <1>1, <2>3, <2>4
    <3>2. one[1] = two[1] /\ x = y
      <4> HIDE DEF x, y
      <4> QED BY <3>1
    <3> QED BY <3>2
  <2>6. /\ one = <<one[1], one[2], one[3]>> /\ one[1] \in DOMAIN js /\ WholeOf(js, one[1]).ok
        /\ <<one[2], one[3]>> \in DOMAIN name
    BY NodeIs
  <2>7. two = <<two[1], two[2], two[3]>> /\ <<two[2], two[3]>> \in DOMAIN name
    BY <2>5, NodeIs
  <2>8. Distinct(name)
    BY <2>6, LaidOut DEF Layout, OwnNames
  <2>9. <<one[2], one[3]>> = <<two[2], two[3]>>
    BY <2>5, <2>6, <2>7, <2>8 DEF Distinct
  <2>10. one = two
    BY <2>5, <2>6, <2>7, <2>9
  <2> QED BY <2>1, <2>2, <2>10
<1> QED BY <1>1 DEF Distinct

\* The names of a text's nodes are, with the document's, those of the run.
Carries(N, scope, j, name, i) ==
    \A label : <<i, label>> \in DOMAIN name =>
        /\ <<scope, label>> \in DOMAIN N
        /\ N[<<scope, label>>] = <<j, name[<<i, label>>]>>

\* A term of a text is then the document's own.
LEMMA SimpleOwned ==
    ASSUME NEW N, NEW scope, NEW j, NEW name, NEW i, Carries(N, scope, j, name, i),
           NEW raw, SimpleIn(name, i, raw)
    PROVE  /\ SimpleIn(N, scope, raw)
           /\ OwnSimple(j, RenamedSimple(name, i, raw)) = RenamedSimple(N, scope, raw)
<1>1. CASE raw.t = "blank"
  <2> DEFINE label == raw.label
             own == name[<<i, label>>]
             r == [t |-> "blank", label |-> own]
  <2>1. /\ <<scope, label>> \in DOMAIN N /\ N[<<scope, label>>] = <<j, own>>
    BY <1>1 DEF Carries, SimpleIn
  <2>2. RenamedSimple(name, i, raw) = r
    BY <1>1 DEF RenamedSimple
  <2>3. RenamedSimple(N, scope, raw) = [t |-> "blank", label |-> <<j, own>>]
    BY <1>1, <2>1 DEF RenamedSimple
  <2> HIDE DEF own, label
  <2>4. OwnSimple(j, r) = [t |-> "blank", label |-> <<j, own>>]
    BY DEF OwnSimple
  <2>5. SimpleIn(N, scope, raw)
    BY <2>1 DEF SimpleIn, label
  <2> QED BY <2>2, <2>3, <2>4, <2>5
<1>2. CASE raw.t # "blank"
  BY <1>2 DEF SimpleIn, OwnSimple, RenamedSimple
<1> QED BY <1>1, <1>2

\* The same of any term.
LEMMA TermOwned ==
    ASSUME NEW N, NEW scope, NEW j, NEW name, NEW i, Carries(N, scope, j, name, i),
           NEW raw, NEW whole, IsRenamed(name, i, raw, whole)
    PROVE  TermIn(N, scope, raw) /\ Own(j, whole) = Renamed(N, scope, raw)
<1>1. TermIn(name, i, raw) /\ whole = Renamed(name, i, raw)
  BY DEF IsRenamed
<1>2. CASE raw.t # "triple"
  <2>1. SimpleIn(name, i, raw) /\ whole = RenamedSimple(name, i, raw)
    BY <1>1, <1>2 DEF TermIn, Renamed
  <2>2. SimpleIn(N, scope, raw) /\ OwnSimple(j, whole) = RenamedSimple(N, scope, raw)
    BY <2>1, SimpleOwned
  <2>3. whole.t # "triple"
    BY <1>2, <2>1 DEF RenamedSimple
  <2> QED BY <1>2, <2>2, <2>3 DEF TermIn, Own, Renamed
<1>3. CASE raw.t = "triple"
  <2> DEFINE part(c) == RenamedSimple(name, i, raw.parts[c])
             own(c) == RenamedSimple(N, scope, raw.parts[c])
             r == [t |-> "triple", parts |-> [c \in 1 .. 3 |-> part(c)]]
  <2>1. (\A c \in 1 .. 3 : SimpleIn(name, i, raw.parts[c])) /\ whole = r
    BY <1>1, <1>3 DEF TermIn, Renamed
  <2>2. \A c \in 1 .. 3 : SimpleIn(N, scope, raw.parts[c]) /\ OwnSimple(j, part(c)) = own(c)
    BY <2>1, SimpleOwned
  <2>3. Renamed(N, scope, raw) = [t |-> "triple", parts |-> [c \in 1 .. 3 |-> own(c)]]
    BY <1>3 DEF Renamed
  <2>4. TermIn(N, scope, raw)
    BY <1>3, <2>2 DEF TermIn
  <2> HIDE DEF part, own
  <2>5. r.t = "triple" /\ \A c \in 1 .. 3 : r.parts[c] = part(c)
    OBVIOUS
  <2>6. Own(j, r) = [r EXCEPT !.parts = [c \in 1 .. 3 |-> OwnSimple(j, r.parts[c])]]
    BY <2>5 DEF Own
  <2>7. [c \in 1 .. 3 |-> OwnSimple(j, r.parts[c])] = [c \in 1 .. 3 |-> own(c)]
    BY <2>2, <2>5
  <2>8. Own(j, r) = [t |-> "triple", parts |-> [c \in 1 .. 3 |-> own(c)]]
    BY <2>6, <2>7
  <2> QED BY <2>1, <2>3, <2>4, <2>8
<1> QED BY <1>2, <1>3

\* What a document states is as long as what its text says.
LEMMA StatedIsList ==
    ASSUME NEW js, NEW want, RunRight(js, want), NEW j \in DOMAIN js, WholeOf(js, j).ok
    PROVE  /\ Len(StatedBy(js, j)) = Len(WholeOf(js, j).triples)
           /\ Len(StatedBy(js, j)) \in Nat
           /\ DOMAIN StatedBy(js, j) = 1 .. Len(StatedBy(js, j))
           /\ \A q \in DOMAIN StatedBy(js, j) : \A c \in 1 .. 3 :
                 StatedBy(js, j)[q][c] = Own(j, WholeOf(js, j).triples[q][c])
<1> DEFINE said == WholeOf(js, j).triples
           n == Len(said)
           stated == StatedBy(js, j)
<1>1. IsList(said)
  BY LaidOut DEF Layout, Tiles
<1>2. n \in Nat /\ DOMAIN said = 1 .. n
  BY <1>1, LenProperties DEF IsList
<1>3. stated = [q \in DOMAIN said |-> [c \in 1 .. 3 |-> Own(j, said[q][c])]]
  BY DEF StatedBy, WholeOf
<1> HIDE DEF said, stated, n
<1>4. DOMAIN stated = 1 .. n /\ stated = [q \in 1 .. n |-> stated[q]]
  BY <1>2, <1>3
<1>5. Len(stated) = n
  BY <1>2, <1>4, LenProperties
<1>6. \A q \in DOMAIN stated : \A c \in 1 .. 3 : stated[q][c] = Own(j, said[q][c])
  BY <1>3
<1> QED BY <1>2, <1>4, <1>5, <1>6 DEF said, stated, n

\* Each triple of a text is one that the document states.
LEMMA TextStated ==
    ASSUME NEW js, NEW want, RunRight(js, want), NEW j \in DOMAIN js, WholeOf(js, j).ok,
           NEW i \in 1 .. Len(TextsOf(js, want, j)),
           NEW raw, raw = Parse(TextsOf(js, want, j)[i]).triples,
           NEW x \in 1 .. Len(raw), NEW q, q = Place(LayoutOf(js, want, j), i, x)
    PROVE  /\ q \in 1 .. Len(StatedBy(js, j))
           /\ \A c \in 1 .. 3 :
                 /\ TermIn(NodeNames(js, want), ScopeIn(js, want, j, i), raw[x][c])
                 /\ StatedBy(js, j)[q][c] =
                       Renamed(NodeNames(js, want), ScopeIn(js, want, j, i), raw[x][c])
<1> DEFINE lay == LayoutOf(js, want, j)
           N == NodeNames(js, want)
           scope == ScopeIn(js, want, j, i)
           whole == WholeOf(js, j).triples
           m == Len(TextsOf(js, want, j))
           stated == StatedBy(js, j)
<1>1. Tiles(lay, m, whole) /\ OwnNames(lay.name, m) /\ Laid(lay, i, raw, whole)
  BY LaidOut DEF Layout
<1>2. /\ Len(stated) = Len(whole) /\ Len(stated) \in Nat /\ DOMAIN stated = 1 .. Len(stated)
      /\ \A p \in DOMAIN stated : \A c \in 1 .. 3 : stated[p][c] = Own(j, whole[p][c])
  BY StatedIsList
<1>3. Carries(N, scope, j, lay.name, i)
  <2> SUFFICES ASSUME NEW label, <<i, label>> \in DOMAIN lay.name
               PROVE  /\ <<scope, label>> \in DOMAIN N
                      /\ N[<<scope, label>>] = <<j, lay.name[<<i, label>>]>>
    BY DEF Carries
  <2> DEFINE node == <<j, i, label>>
             key == <<i, label>>
  <2>1. node \in Nodes(js, want)
    <3>1. node = <<j, key[1], key[2]>> /\ key \in DOMAIN LayoutOf(js, want, j).name
      OBVIOUS
    <3> HIDE DEF node, key
    <3> QED BY <3>1 DEF Nodes
  <2>2. /\ ScopedLabel(js, want, node) \in DOMAIN N
        /\ N[ScopedLabel(js, want, node)] =
              <<node[1], LayoutOf(js, want, node[1]).name[<<node[2], node[3]>>]>>
    <3> HIDE DEF node
    <3> QED BY <2>1, NodeNamed
  <2>3. /\ ScopedLabel(js, want, node) = <<scope, label>>
        /\ node[1] = j /\ node[2] = i /\ node[3] = label
    BY DEF ScopedLabel
  <2> HIDE DEF N, node, scope
  <2> QED BY <2>2, <2>3
<1>4. q \in 1 .. Len(stated)
  <2>1. /\ m \in Nat \ {0} /\ lay.pro \in Nat /\ \A k \in 1 .. (m + 1) : lay.from[k] \in Nat
        /\ lay.from[1] = lay.pro /\ lay.from[m + 1] = Len(whole)
        /\ \A k \in 1 .. m : lay.from[k] <= lay.from[k + 1]
    BY <1>1 DEF Tiles
  <2>2. Len(raw) = lay.pro + (lay.from[i + 1] - lay.from[i])
    BY <1>1 DEF Laid
  <2> HIDE DEF lay, m, whole, stated, N, scope
  <2>3. /\ i \in 1 .. m /\ i \in 1 .. (m + 1) /\ i + 1 \in 1 .. (m + 1)
        /\ 1 \in 1 .. (m + 1) /\ m + 1 \in 1 .. (m + 1)
    BY <2>1 DEF m
  <2> DEFINE h == [k \in 1 .. (m + 1) |-> lay.from[k]]
  <2>4. \A k \in 1 .. (m + 1) : h[k] \in Nat /\ h[k] = lay.from[k]
    BY <2>1
  <2>5. \A k \in 1 .. (m + 1) : k + 1 <= m + 1 => h[k] <= h[k + 1]
    <3> SUFFICES ASSUME NEW k \in 1 .. (m + 1), k + 1 <= m + 1 PROVE h[k] <= h[k + 1]
      OBVIOUS
    <3>1. k \in 1 .. m /\ k + 1 \in 1 .. (m + 1)
      BY <2>1
    <3>2. h[k] = lay.from[k] /\ h[k + 1] = lay.from[k + 1]
      BY <2>4, <3>1
    <3> HIDE DEF h
    <3> QED BY <2>1, <3>1, <3>2
  <2> HIDE DEF h
  <2>6. 1 \in Nat /\ m + 1 \in Nat /\ i + 1 <= m + 1 /\ 1 <= i
    BY <2>1, <2>3
  <2>7. h[i + 1] <= h[m + 1]
    BY <2>3, <2>4, <2>5, <2>6, NeverFalls
  <2>8. h[1] <= h[i]
    <3> DEFINE e == m + 1
    <3>1. /\ 1 \in Nat /\ e \in Nat /\ 1 \in 1 .. e /\ i \in 1 .. e /\ 1 <= i
          /\ \A k \in 1 .. e : h[k] \in Nat
          /\ \A k \in 1 .. e : k + 1 <= e => h[k] <= h[k + 1]
      BY <2>3, <2>4, <2>5, <2>6
    <3> HIDE DEF e
    <3> QED BY <3>1, NeverFalls
  <2> DEFINE a == lay.from[i]
             b == lay.from[i + 1]
             P == lay.pro
             n == Len(whole)
  <2>9. /\ a \in Nat /\ b \in Nat /\ P \in Nat /\ b <= n /\ P <= a /\ n \in Nat /\ a <= b
        /\ Len(raw) = P + (b - a) /\ Len(stated) = n
    BY <1>2, <2>1, <2>2, <2>3, <2>4, <2>7, <2>8
  <2>10. q = IF x <= P THEN x ELSE a + (x - P)
    BY DEF Place, lay
  <2>11. x \in 1 .. Len(raw)
    OBVIOUS
  <2> HIDE DEF a, b, P, n
  <2>12. x \in Nat /\ 1 <= x /\ x <= P + (b - a)
    BY <2>9, <2>11
  <2>13. CASE x <= P
    BY <2>9, <2>10, <2>12, <2>13
  <2>14. CASE ~(x <= P)
    <3>1. q = a + (x - P)
      BY <2>10, <2>14
    <3> QED BY <2>9, <2>12, <2>14, <3>1
  <2> QED BY <2>13, <2>14
<1>5. ASSUME NEW c \in 1 .. 3
      PROVE  TermIn(N, scope, raw[x][c]) /\ stated[q][c] = Renamed(N, scope, raw[x][c])
  <2>1. IsRenamed(lay.name, i, raw[x][c], whole[q][c])
    BY <1>1 DEF Laid
  <2>2. TermIn(N, scope, raw[x][c]) /\ Own(j, whole[q][c]) = Renamed(N, scope, raw[x][c])
    BY <1>3, <2>1, TermOwned
  <2>3. stated[q][c] = Own(j, whole[q][c])
    BY <1>2, <1>4
  <2> QED BY <2>2, <2>3
<1> QED BY <1>4, <1>5

\* Rows of ids that stand for some triples, each for one and none left out.
Depicts(rs, met, triples) ==
    /\ \A r \in rs : \E t \in triples : Stands(met, r, t)
    /\ \A t \in triples : \E r \in rs : Stands(met, r, t)

\* They stand for them whatever else is met.
LEMMA DepictsStill ==
    ASSUME NEW rs, NEW met, NEW triples, Depicts(rs, met, triples), NEW after, Grows(met, after)
    PROVE  Depicts(rs, after, triples)
<1>1. ASSUME NEW r, NEW t, Stands(met, r, t) PROVE Stands(after, r, t)
  BY <1>1 DEF Stands, Grows
<1> QED BY <1>1 DEF Depicts

\* What is told of several stands together.
LEMMA DepictsBoth ==
    ASSUME NEW met, NEW rs, NEW triples, Depicts(rs, met, triples),
           NEW others, NEW more, Depicts(others, met, more)
    PROVE  Depicts(rs \cup others, met, triples \cup more)
BY DEF Depicts

\* One more row.
LEMMA DepictsOne ==
    ASSUME NEW met, NEW rs, NEW triples, Depicts(rs, met, triples),
           NEW row, NEW t, Stands(met, row, t)
    PROVE  Depicts(rs \cup {row}, met, triples \cup {t})
BY DEF Depicts

\* What has been met after v triples of a document, what the first of them are,
\* and what documents up to one tell of a graph.
MetAt(js, j, v) == MetIn(MetBy(js)[j - 1], StatedBy(js, j))[v]
FirstOf(triples, v) == {triples[k] : k \in 1 .. v}
Told(js, for, n) == UNION {ToSet(StatedBy(js, j)) : j \in {j \in 1 .. n : js[j].for = for}}

\* The store, the rows and the graphs after v triples of a document.
Sofar(js, want, j, st, rs, ms, gs, v) ==
    /\ Shows(st, NodeNames(js, want), MetAt(js, j, v))
    /\ Depicts(ToSet(rs), MetAt(js, j, v), FirstOf(StatedBy(js, j), v))
    /\ Depicts(ToSet(ms), MetAt(js, j, v), Told(js, js[j].for, j - 1))
    /\ \A for \in DOMAIN gs : Depicts(ToSet(gs[for].spo), MetAt(js, j, v), Told(js, for, Len(js)))

\* As more is met, what stands goes on standing.
LEMMA SofarStill ==
    ASSUME NEW js, NEW want, NEW j, NEW st, NEW rs, NEW ms, NEW gs, NEW v,
           Sofar(js, want, j, st, rs, ms, gs, v),
           NEW w, Grows(MetAt(js, j, v), MetAt(js, j, w))
    PROVE  /\ Depicts(ToSet(rs), MetAt(js, j, w), FirstOf(StatedBy(js, j), v))
           /\ Depicts(ToSet(ms), MetAt(js, j, w), Told(js, js[j].for, j - 1))
           /\ \A for \in DOMAIN gs :
                 Depicts(ToSet(gs[for].spo), MetAt(js, j, w), Told(js, for, Len(js)))
<1> DEFINE met == MetAt(js, j, v)
           after == MetAt(js, j, w)
<1>1. /\ Depicts(ToSet(rs), met, FirstOf(StatedBy(js, j), v))
      /\ Depicts(ToSet(ms), met, Told(js, js[j].for, j - 1))
      /\ \A for \in DOMAIN gs : Depicts(ToSet(gs[for].spo), met, Told(js, for, Len(js)))
  BY DEF Sofar
<1> HIDE DEF met, after
<1>2. Depicts(ToSet(rs), after, FirstOf(StatedBy(js, j), v))
  BY <1>1, DepictsStill DEF met, after
<1>3. Depicts(ToSet(ms), after, Told(js, js[j].for, j - 1))
  BY <1>1, DepictsStill DEF met, after
<1>4. ASSUME NEW for \in DOMAIN gs PROVE Depicts(ToSet(gs[for].spo), after, Told(js, for, Len(js)))
  BY <1>1, DepictsStill DEF met, after
<1> QED BY <1>2, <1>3, <1>4 DEF after

\* What the next triple of a document adds to what is met.
LEMMA NextMet ==
    ASSUME NEW js, NEW want, RunRight(js, want), NEW j \in DOMAIN js, WholeOf(js, j).ok,
           NEW v \in Nat, v + 1 <= Len(StatedBy(js, j))
    PROVE  MetAt(js, j, v + 1) = MeetThree(MeetTerm, MetAt(js, j, v), StatedBy(js, j)[v + 1])
<1> DEFINE W == StatedBy(js, j)
           n == Len(W)
           met == MetBy(js)[j - 1]
<1>1. n \in Nat
  BY StatedIsList
<1>2. \A k \in 1 .. n : MetIn(met, W)[k] = MeetThree(MeetTerm, MetIn(met, W)[k - 1], W[k])
  BY <1>1, MetRead
<1> HIDE DEF W, n, met
<1>3. v + 1 \in 1 .. n /\ (v + 1) - 1 = v
  BY <1>1 DEF n, W
<1> QED BY <1>2, <1>3 DEF MetAt, W, met

\* A sequence with one more.
LEMMA AppendedRow ==
    ASSUME NEW rs \in Seq(Row), NEW row \in Row
    PROVE  ToSet(Append(rs, row)) = ToSet(rs) \cup {row} /\ Append(rs, row) \in Seq(Row)
<1>1. /\ Append(rs, row) \in Seq(Row) /\ Len(Append(rs, row)) = Len(rs) + 1
      /\ Len(rs) \in Nat /\ DOMAIN rs = 1 .. Len(rs)
      /\ DOMAIN Append(rs, row) = 1 .. (Len(rs) + 1)
      /\ \A k \in 1 .. Len(rs) : Append(rs, row)[k] = rs[k]
      /\ Append(rs, row)[Len(rs) + 1] = row
  BY AppendProperties, LenProperties
<1> DEFINE all == Append(rs, row)
           n == Len(rs)
<1> HIDE DEF all, n
<1>2. /\ n \in Nat /\ DOMAIN rs = 1 .. n /\ DOMAIN all = 1 .. (n + 1)
      /\ (\A k \in 1 .. n : all[k] = rs[k]) /\ all[n + 1] = row
  BY <1>1 DEF all, n
<1>3. ASSUME NEW r \in ToSet(all) PROVE r \in ToSet(rs) \cup {row}
  <2>1. PICK k \in DOMAIN all : r = all[k]
    BY DEF ToSet
  <2>2. k \in 1 .. n \/ k = n + 1
    BY <1>2, <2>1
  <2> QED BY <1>2, <2>1, <2>2 DEF ToSet
<1>4. ASSUME NEW r \in ToSet(rs) PROVE r \in ToSet(all)
  <2>1. PICK k \in 1 .. n : r = rs[k]
    BY <1>2 DEF ToSet
  <2>2. k \in DOMAIN all /\ all[k] = r
    BY <1>2, <2>1
  <2> QED BY <2>2 DEF ToSet
<1>5. row \in ToSet(all)
  <2>1. n + 1 \in DOMAIN all
    BY <1>2
  <2> QED BY <1>2, <2>1 DEF ToSet
<1>6. ToSet(all) = ToSet(rs) \cup {row}
  BY <1>3, <1>4, <1>5
<1> QED BY <1>1, <1>6 DEF all

\* Interning a triple of a text: terms are met, and the row stands for the
\* triple of the document.
LEMMA TripleInterned ==
    ASSUME NEW js, NEW want, RunRight(js, want), NEW j \in DOMAIN js, WholeOf(js, j).ok,
           NEW st, NEW met, Shows(st, NodeNames(js, want), met),
           NEW i \in 1 .. Len(TextsOf(js, want, j)),
           NEW raw, raw = Parse(TextsOf(js, want, j)[i]).triples,
           NEW x \in 1 .. Len(raw), NEW q, q = Place(LayoutOf(js, want, j), i, x),
           NEW next, next = InternThree(InternTerm, st, raw[x], ScopeIn(js, want, j, i))
    PROVE  RowShown(next, NodeNames(js, want), met,
                    MeetThree(MeetTerm, met, StatedBy(js, j)[q]), StatedBy(js, j)[q])
<1> DEFINE N == NodeNames(js, want)
           scope == ScopeIn(js, want, j, i)
           read == StatedBy(js, j)[q]
           terms == raw[x]
<1>1. \A c \in 1 .. 3 : TermIn(N, scope, terms[c]) /\ read[c] = Renamed(N, scope, terms[c])
  BY TextStated
<1>2. Distinct(N)
  BY NodeNamesDistinct
<1> HIDE DEF N, scope, read, terms
<1>3. Shows(st, N, met) /\ next = InternThree(InternTerm, st, terms, scope)
  BY DEF N, terms, scope
<1>4. RowShown(InternThree(InternTerm, st, terms, scope), N, met,
               MeetThree(MeetTerm, met, read), read)
  BY <1>1, <1>2, <1>3, TermsShown
<1> QED BY <1>3, <1>4 DEF N, read

\* A triple that is read for the first time.
LEMMA NewTriple ==
    ASSUME NEW js, NEW want, RunRight(js, want), NEW j \in DOMAIN js, WholeOf(js, j).ok,
           NEW st, NEW rs \in Seq(Row), NEW ms, NEW gs, NEW v \in Nat,
           Sofar(js, want, j, st, rs, ms, gs, v),
           NEW i \in 1 .. Len(TextsOf(js, want, j)),
           NEW raw, raw = Parse(TextsOf(js, want, j)[i]).triples,
           NEW x \in 1 .. Len(raw), v + 1 = Place(LayoutOf(js, want, j), i, x),
           NEW next, next = InternThree(InternTerm, st, raw[x], ScopeIn(js, want, j, i))
    PROVE  Sofar(js, want, j, next.store, Append(rs, next.row), ms, gs, v + 1)
<1> DEFINE N == NodeNames(js, want)
           W == StatedBy(js, j)
           met == MetAt(js, j, v)
           after == MetAt(js, j, v + 1)
           n == Len(W)
<1>1. Shows(st, N, met)
  BY DEF Sofar
<1>2. RowShown(next, N, met, MeetThree(MeetTerm, met, W[v + 1]), W[v + 1])
  BY <1>1, TripleInterned
<1>3. v + 1 \in 1 .. n /\ n \in Nat
  BY TextStated, StatedIsList
<1>4. after = MeetThree(MeetTerm, met, W[v + 1])
  <2>1. v + 1 <= n
    BY <1>3
  <2> QED BY <2>1, NextMet
<1>5. /\ Shows(next.store, N, after) /\ Grows(met, after)
      /\ next.row \in Row /\ Stands(after, next.row, W[v + 1])
  BY <1>2, <1>4 DEF RowShown
<1>6. /\ Depicts(ToSet(rs), after, FirstOf(W, v))
      /\ Depicts(ToSet(ms), after, Told(js, js[j].for, j - 1))
      /\ \A for \in DOMAIN gs : Depicts(ToSet(gs[for].spo), after, Told(js, for, Len(js)))
  BY <1>5, SofarStill
<1>7. FirstOf(W, v + 1) = FirstOf(W, v) \cup {W[v + 1]}
  <2> HIDE DEF W
  <2>1. 1 .. (v + 1) = (1 .. v) \cup {v + 1}
    OBVIOUS
  <2> QED BY <2>1 DEF FirstOf
<1> HIDE DEF N, W, met, after
<1>8. Depicts(ToSet(rs) \cup {next.row}, after, FirstOf(W, v) \cup {W[v + 1]})
  BY <1>5, <1>6, DepictsOne
<1>9. Depicts(ToSet(Append(rs, next.row)), after, FirstOf(W, v + 1))
  BY <1>5, <1>7, <1>8, AppendedRow
<1> QED BY <1>5, <1>6, <1>9 DEF Sofar, N, W, after

\* One that has been read before, a prologue's.
LEMMA OldTriple ==
    ASSUME NEW js, NEW want, RunRight(js, want), NEW j \in DOMAIN js, WholeOf(js, j).ok,
           NEW st, NEW rs \in Seq(Row), NEW ms, NEW gs, NEW v \in Nat,
           Sofar(js, want, j, st, rs, ms, gs, v),
           NEW i \in 1 .. Len(TextsOf(js, want, j)),
           NEW raw, raw = Parse(TextsOf(js, want, j)[i]).triples,
           NEW x \in 1 .. Len(raw), NEW q \in 1 .. v, q = Place(LayoutOf(js, want, j), i, x),
           NEW next, next = InternThree(InternTerm, st, raw[x], ScopeIn(js, want, j, i))
    PROVE  Sofar(js, want, j, next.store, Append(rs, next.row), ms, gs, v)
<1> DEFINE N == NodeNames(js, want)
           W == StatedBy(js, j)
           met == MetAt(js, j, v)
           t == W[q]
<1>1. /\ Shows(st, N, met) /\ Depicts(ToSet(rs), met, FirstOf(W, v))
      /\ Depicts(ToSet(ms), met, Told(js, js[j].for, j - 1))
      /\ \A for \in DOMAIN gs : Depicts(ToSet(gs[for].spo), met, Told(js, for, Len(js)))
  BY DEF Sofar
<1>2. RowShown(next, N, met, MeetThree(MeetTerm, met, t), t)
  BY <1>1, TripleInterned
<1>3. t \in FirstOf(W, v)
  BY DEF FirstOf
<1> HIDE DEF N, W, met, t
<1>4. PICK row \in ToSet(rs) : Stands(met, row, t)
  BY <1>1, <1>3 DEF Depicts
<1>5. MeetThree(MeetTerm, met, t) = met
  BY <1>1, <1>4, TermsAgain
<1>6. Shows(next.store, N, met) /\ next.row \in Row /\ Stands(met, next.row, t)
  BY <1>2, <1>5 DEF RowShown
<1>7. Depicts(ToSet(rs) \cup {next.row}, met, FirstOf(W, v) \cup {t})
  BY <1>1, <1>6, DepictsOne
<1>8. FirstOf(W, v) \cup {t} = FirstOf(W, v)
  BY <1>3
<1>9. Depicts(ToSet(Append(rs, next.row)), met, FirstOf(W, v))
  BY <1>6, <1>7, <1>8, AppendedRow
<1> QED BY <1>1, <1>6, <1>9 DEF Sofar, N, W, met

\* How many triples of a document have been read after x of its i-th text.
Reached(lay, i, x) == IF i = 1 \/ x > lay.pro THEN Place(lay, i, x) ELSE lay.from[i]

\* Each text is read on from where the one before it ended, the prologue anew.
LEMMA ReachedNext ==
    ASSUME NEW lay, NEW m, NEW whole, Tiles(lay, m, whole), NEW i \in 1 .. m, NEW raw,
           Laid(lay, i, raw, whole)
    PROVE  /\ Reached(lay, 1, 0) = 0 /\ Reached(lay, m + 1, 0) = Len(whole)
           /\ Reached(lay, i, Len(raw)) = Reached(lay, i + 1, 0)
           /\ \A x \in 0 .. (Len(raw) - 1) :
                 /\ Reached(lay, i, x) \in Nat
                 /\ \/ /\ Reached(lay, i, x + 1) = Reached(lay, i, x) + 1
                       /\ Reached(lay, i, x) + 1 = Place(lay, i, x + 1)
                    \/ /\ Reached(lay, i, x + 1) = Reached(lay, i, x)
                       /\ Place(lay, i, x + 1) \in 1 .. Reached(lay, i, x)
<1> DEFINE P == lay.pro
           n == Len(raw)
           a == lay.from[i]
           b == lay.from[i + 1]
           h == [k \in 1 .. (m + 1) |-> lay.from[k]]
<1>1. /\ m \in Nat \ {0} /\ P \in Nat /\ \A k \in 1 .. (m + 1) : lay.from[k] \in Nat
      /\ lay.from[1] = P /\ lay.from[m + 1] = Len(whole)
      /\ \A k \in 1 .. m : lay.from[k] <= lay.from[k + 1]
  BY DEF Tiles
<1>2. n = P + (b - a) /\ IsList(raw)
  BY DEF Laid
<1>3. i \in 1 .. (m + 1) /\ i + 1 \in 1 .. (m + 1) /\ i + 1 # 1 /\ m + 1 # 1 /\ i \in Nat
  BY <1>1
<1>4. a \in Nat /\ b \in Nat /\ a <= b /\ P <= a
  <2>1. \A k \in 1 .. (m + 1) : h[k] \in Nat /\ h[k] = lay.from[k]
    BY <1>1
  <2>2. \A k \in 1 .. (m + 1) : k + 1 <= m + 1 => h[k] <= h[k + 1]
    <3> SUFFICES ASSUME NEW k \in 1 .. (m + 1), k + 1 <= m + 1 PROVE h[k] <= h[k + 1]
      OBVIOUS
    <3>1. k \in 1 .. m /\ k + 1 \in 1 .. (m + 1)
      BY <1>1
    <3>2. h[k] = lay.from[k] /\ h[k + 1] = lay.from[k + 1]
      BY <2>1, <3>1
    <3> HIDE DEF h
    <3> QED BY <1>1, <3>1, <3>2
  <2> HIDE DEF h
  <2>3. 1 \in Nat /\ m + 1 \in Nat /\ 1 \in 1 .. (m + 1) /\ 1 <= i
    BY <1>1
  <2>4. h[1] <= h[i]
    BY <1>3, <2>1, <2>2, <2>3, NeverFalls
  <2> QED BY <1>1, <1>3, <2>1, <2>3, <2>4
<1>5. /\ \A k, x : Place(lay, k, x) = IF x <= P THEN x ELSE lay.from[k] + (x - P)
      /\ \A k, x : Reached(lay, k, x) = IF k = 1 \/ x > P THEN Place(lay, k, x) ELSE lay.from[k]
  BY DEF Place, Reached
<1>6. i = 1 => a = P
  BY <1>1
<1>7. Reached(lay, 1, 0) = 0
  <2>1. 0 <= P
    BY <1>1
  <2> QED BY <1>5, <2>1
<1>8. Reached(lay, m + 1, 0) = Len(whole) /\ Reached(lay, i + 1, 0) = b
  <2>1. ~(0 > P)
    BY <1>1
  <2> QED BY <1>1, <1>3, <1>5, <2>1
<1> DEFINE R(x) == Reached(lay, i, x)
           L(x) == Place(lay, i, x)
<1>9. /\ \A x \in Nat : L(x) = IF x <= P THEN x ELSE a + (x - P)
      /\ \A x \in Nat : R(x) = IF i = 1 \/ x > P THEN L(x) ELSE a
  BY <1>5
<1> HIDE DEF P, n, a, b, R, L
<1>10. R(n) = b
  <2>1. n \in Nat /\ (n <= P => n = P /\ a = b)
    BY <1>1, <1>2, <1>4
  <2>2. CASE n <= P
    <3>1. L(n) = P /\ ~(n > P)
      BY <1>1, <1>9, <2>1, <2>2
    <3>2. R(n) = IF i = 1 THEN P ELSE a
      BY <1>9, <2>1, <3>1
    <3> QED BY <1>6, <2>1, <2>2, <3>2
  <2>3. CASE ~(n <= P)
    <3>1. L(n) = a + (n - P) /\ n > P
      BY <1>1, <1>9, <2>1, <2>3
    <3>2. R(n) = a + (n - P)
      BY <1>9, <2>1, <3>1
    <3> QED BY <1>1, <1>2, <1>4, <3>2
  <2> QED BY <2>2, <2>3
<1>11. ASSUME NEW x \in 0 .. (n - 1), NEW y, y = x + 1
       PROVE  /\ R(x) \in Nat
              /\ \/ R(y) = R(x) + 1 /\ R(x) + 1 = L(y)
                 \/ R(y) = R(x) /\ L(y) \in 1 .. R(x)
  <2>1. x \in Nat /\ y \in Nat /\ y = x + 1
    BY <1>1, <1>2, <1>4, <1>11
  <2>2. CASE i = 1
    <3>1. a = P /\ R(x) = L(x) /\ R(y) = L(y)
      BY <1>6, <1>9, <2>1, <2>2
    <3>2. L(x) = x
      <4>1. L(x) = IF x <= P THEN x ELSE a + (x - P)
        BY <1>9, <2>1
      <4> QED BY <1>1, <2>1, <3>1, <4>1
    <3>3. L(y) = y
      <4>1. L(y) = IF y <= P THEN y ELSE a + (y - P)
        BY <1>9, <2>1
      <4>2. CASE y <= P
        BY <4>1, <4>2
      <4>3. CASE ~(y <= P)
        <5>1. L(y) = a + (y - P)
          BY <4>1, <4>3
        <5> QED BY <1>1, <2>1, <3>1, <5>1
      <4> QED BY <4>2, <4>3
    <3> QED BY <2>1, <3>1, <3>2, <3>3
  <2>3. CASE i # 1 /\ y <= P
    <3>1. x <= P /\ ~(x > P) /\ ~(y > P)
      BY <1>1, <2>1, <2>3
    <3>2. R(x) = a /\ R(y) = a /\ L(y) = y
      BY <1>9, <2>1, <2>3, <3>1
    <3> QED BY <1>1, <1>4, <2>1, <2>3, <3>2
  <2>4. CASE i # 1 /\ ~(y <= P)
    <3>1. y > P /\ x >= P
      BY <1>1, <2>1, <2>4
    <3>2. R(y) = a + (y - P) /\ L(y) = a + (y - P)
      <4>1. L(y) = a + (y - P)
        BY <1>9, <2>1, <2>4
      <4>2. R(y) = L(y)
        BY <1>9, <2>1, <3>1
      <4> QED BY <4>1, <4>2
    <3>3. R(x) = a + (x - P)
      <4>1. CASE x > P
        <5>1. ~(x <= P)
          BY <1>1, <2>1, <4>1
        <5> QED BY <1>9, <2>1, <4>1, <5>1
      <4>2. CASE ~(x > P)
        <5>1. R(x) = a
          BY <1>9, <2>1, <2>4, <4>2
        <5> QED BY <1>1, <1>4, <2>1, <3>1, <4>2, <5>1
      <4> QED BY <4>1, <4>2
    <3> QED BY <1>1, <1>4, <2>1, <3>1, <3>2, <3>3
  <2> QED BY <2>2, <2>3, <2>4
<1>12. Reached(lay, i, n) = Reached(lay, i + 1, 0)
  BY <1>8, <1>10 DEF R
<1>13. ASSUME NEW x \in 0 .. (n - 1)
       PROVE  /\ Reached(lay, i, x) \in Nat
              /\ \/ /\ Reached(lay, i, x + 1) = Reached(lay, i, x) + 1
                    /\ Reached(lay, i, x) + 1 = Place(lay, i, x + 1)
                 \/ /\ Reached(lay, i, x + 1) = Reached(lay, i, x)
                    /\ Place(lay, i, x + 1) \in 1 .. Reached(lay, i, x)
  <2>1. \A y : y = x + 1 => /\ R(x) \in Nat
                            /\ \/ R(y) = R(x) + 1 /\ R(x) + 1 = L(y)
                               \/ R(y) = R(x) /\ L(y) \in 1 .. R(x)
    BY <1>11
  <2> QED BY <2>1 DEF R, L
<1> QED BY <1>7, <1>8, <1>12, <1>13 DEF n

\* What has been met before a document's first triple and after its last.
LEMMA MetAround ==
    ASSUME NEW js, NEW want, RunRight(js, want), NEW j \in DOMAIN js, WholeOf(js, j).ok
    PROVE  /\ MetAt(js, j, 0) = MetBy(js)[j - 1]
           /\ MetAt(js, j, Len(StatedBy(js, j))) = MetBy(js)[j]
           /\ FirstOf(StatedBy(js, j), 0) = {}
           /\ FirstOf(StatedBy(js, j), Len(StatedBy(js, j))) = ToSet(StatedBy(js, j))
<1> DEFINE W == StatedBy(js, j)
           n == Len(W)
<1>1. n \in Nat /\ DOMAIN W = 1 .. n
  BY StatedIsList
<1>2. Len(js) \in Nat /\ j \in 1 .. Len(js)
  BY DEF RunRight, JobsRight
<1>3. MetIn(MetBy(js)[j - 1], W)[0] = MetBy(js)[j - 1]
  BY <1>1, MetRead
<1>4. MetBy(js)[j] = MetIn(MetBy(js)[j - 1], W)[n]
  BY <1>2, MetByRead
<1> HIDE DEF W, n
<1>5. FirstOf(W, 0) = {}
  BY DEF FirstOf
<1>6. FirstOf(W, n) = ToSet(W)
  BY <1>1 DEF FirstOf, ToSet
<1> QED BY <1>3, <1>4, <1>5, <1>6 DEF MetAt, W, n

\* Before anything is read the store holds the vocabulary and nothing is told.
LEMMA StartShown ==
    ASSUME NEW js, NEW want, RunRight(js, want), WholeOf(js, 1).ok
    PROVE  Sofar(js, want, 1, Fresh, <<>>, <<>>, <<>>, 0)
<1> DEFINE N == NodeNames(js, want)
           met == MetAt(js, 1, 0)
<1>1. 1 \in DOMAIN js /\ Len(js) \in Nat
  BY DEF RunRight, JobsRight
<1>2. met = Known
  <2>1. met = MetBy(js)[1 - 1]
    BY <1>1, MetAround
  <2>2. MetBy(js)[0] = Known
    BY <1>1, MetByRead
  <2> QED BY <2>1, <2>2
<1>3. Shows(Fresh, N, met)
  BY <1>2, FreshShown
<1>4. FirstOf(StatedBy(js, 1), 0) = {}
  BY <1>1, MetAround
<1>5. Told(js, js[1].for, 1 - 1) = {}
  BY DEF Told
<1>6. ToSet(<<>>) = {} /\ DOMAIN <<>> = {}
  BY DEF ToSet
<1> HIDE DEF N, met
<1>7. Depicts(ToSet(<<>>), met, {})
  BY <1>6 DEF Depicts
<1> QED BY <1>3, <1>4, <1>5, <1>6, <1>7 DEF Sofar, N, met

\* What documents up to one tell of its graph.
LEMMA ToldOneMore ==
    ASSUME NEW js, NEW for, NEW j \in Nat \ {0}
    PROVE  Told(js, for, j) = Told(js, for, j - 1) \cup
                                 (IF js[j].for = for THEN ToSet(StatedBy(js, j)) ELSE {})
<1>1. 1 .. j = (1 .. (j - 1)) \cup {j}
  OBVIOUS
<1>2. {k \in 1 .. j : js[k].for = for} =
         {k \in 1 .. (j - 1) : js[k].for = for} \cup (IF js[j].for = for THEN {j} ELSE {})
  BY <1>1
<1> QED BY <1>2 DEF Told

\* The documents of a graph are together: none comes after its last, and none
\* of the next graph before.
LEMMA ToldTogether ==
    ASSUME NEW js, NEW want, RunRight(js, want), NEW j \in DOMAIN js,
           j = Len(js) \/ js[j + 1].for # js[j].for
    PROVE  /\ Told(js, js[j].for, Len(js)) = Told(js, js[j].for, j)
           /\ j # Len(js) => Told(js, js[j + 1].for, j) = {}
<1> DEFINE n == Len(js)
<1>1. n \in Nat /\ j \in 1 .. n /\ DOMAIN js = 1 .. n
  BY DEF RunRight, JobsRight
<1>2. \A i, k, l \in DOMAIN js : i <= k /\ k <= l /\ js[i].for = js[l].for => js[i].for = js[k].for
  BY DEF RunRight, JobsApart
<1> HIDE DEF n
<1>3. ASSUME NEW k \in 1 .. n, js[k].for = js[j].for PROVE k \in 1 .. j
  <2> SUFFICES ASSUME k > j PROVE FALSE
    BY <1>1
  <2>1. j + 1 \in DOMAIN js /\ k \in DOMAIN js /\ j <= j + 1 /\ j + 1 <= k /\ j # n
    BY <1>1
  <2>2. js[j].for = js[j + 1].for
    BY <1>2, <1>3, <2>1
  <2> QED BY <2>1, <2>2 DEF n
<1>4. {k \in 1 .. n : js[k].for = js[j].for} = {k \in 1 .. j : js[k].for = js[j].for}
  <2>1. 1 .. j \subseteq 1 .. n
    BY <1>1
  <2> QED BY <1>3, <2>1
<1>5. ASSUME j # n PROVE {k \in 1 .. j : js[k].for = js[j + 1].for} = {}
  <2> SUFFICES ASSUME NEW k \in 1 .. j, js[k].for = js[j + 1].for PROVE FALSE
    OBVIOUS
  <2>1. j + 1 \in DOMAIN js /\ k \in DOMAIN js /\ j \in DOMAIN js /\ k <= j /\ j <= j + 1
    BY <1>1, <1>5
  <2>2. js[k].for = js[j].for
    BY <1>2, <2>1
  <2> QED BY <1>5, <2>2 DEF n
<1>6. Told(js, js[j].for, n) = Told(js, js[j].for, j)
  BY <1>4 DEF Told
<1>7. j # n => Told(js, js[j + 1].for, j) = {}
  BY <1>5 DEF Told
<1> QED BY <1>6, <1>7 DEF n

\* What stands when a document has been read to its end.
Ended(js, want, j, st, ms, gs) ==
    /\ Shows(st, NodeNames(js, want), MetBy(js)[j])
    /\ j # Len(js) => Depicts(ToSet(ms), MetBy(js)[j], Told(js, js[j + 1].for, j))
    /\ \A for \in DOMAIN gs : Depicts(ToSet(gs[for].spo), MetBy(js)[j], Told(js, for, Len(js)))

\* The rows of two sequences.
LEMMA BothRows ==
    ASSUME NEW ms \in Seq(Row), NEW s \in Seq(Row)
    PROVE  ms \o s \in Seq(Row) /\ ToSet(ms \o s) = ToSet(ms) \cup ToSet(s)
<1> DEFINE b == ms \o s
           m == Len(ms)
           n == Len(s)
<1>1. /\ b \in Seq(Row) /\ m \in Nat /\ n \in Nat /\ Len(b) = m + n
      /\ DOMAIN ms = 1 .. m /\ DOMAIN s = 1 .. n
      /\ \A k \in 1 .. (m + n) : b[k] = IF k <= m THEN ms[k] ELSE s[k - m]
  BY ConcatProperties, LenProperties
<1>2. DOMAIN b = 1 .. (m + n)
  BY <1>1, LenProperties
<1> HIDE DEF b, m, n
<1>3. ASSUME NEW r \in ToSet(b) PROVE r \in ToSet(ms) \cup ToSet(s)
  <2>1. PICK k \in 1 .. (m + n) : r = b[k]
    BY <1>2 DEF ToSet
  <2>2. CASE k <= m
    <3>1. k \in DOMAIN ms /\ r = ms[k]
      BY <1>1, <2>1, <2>2
    <3> QED BY <3>1 DEF ToSet
  <2>3. CASE ~(k <= m)
    <3>1. k - m \in DOMAIN s /\ r = s[k - m]
      BY <1>1, <2>1, <2>3
    <3> QED BY <3>1 DEF ToSet
  <2> QED BY <2>2, <2>3
<1>4. ASSUME NEW r \in ToSet(ms) PROVE r \in ToSet(b)
  <2>1. PICK k \in 1 .. m : r = ms[k]
    BY <1>1 DEF ToSet
  <2>2. k \in 1 .. (m + n) /\ k <= m
    BY <1>1
  <2>3. k \in DOMAIN b /\ r = b[k]
    BY <1>1, <1>2, <2>1, <2>2
  <2> QED BY <2>3 DEF ToSet
<1>5. ASSUME NEW r \in ToSet(s) PROVE r \in ToSet(b)
  <2>1. PICK k \in 1 .. n : r = s[k]
    BY <1>1 DEF ToSet
  <2> DEFINE l == m + k
  <2>2. l \in 1 .. (m + n) /\ ~(l <= m) /\ l - m = k
    BY <1>1
  <2> HIDE DEF l
  <2>3. l \in DOMAIN b /\ r = b[l]
    BY <1>1, <1>2, <2>1, <2>2
  <2> QED BY <2>3 DEF ToSet
<1>6. ToSet(b) = ToSet(ms) \cup ToSet(s)
  BY <1>3, <1>4, <1>5
<1> QED BY <1>1, <1>6 DEF b

\* The document's rows are sorted into a graph of their own, and that goes into
\* the graph the document is for.
LEMMA DocumentRead ==
    ASSUME NEW js, NEW want, RunRight(js, want), NEW j \in DOMAIN js, WholeOf(js, j).ok,
           NEW st, NEW rs \in Seq(Row), NEW ms \in Seq(Row), NEW gs,
           Sofar(js, want, j, st, rs, ms, gs, Len(StatedBy(js, j))),
           NEW graph, graph = Built(rs), NEW whole,
           whole = IF ms = <<>> THEN graph ELSE Built(ms \o graph.spo)
    PROVE  IF j = Len(js) \/ js[j + 1].for # js[j].for
           THEN Ended(js, want, j, st, <<>>, With(gs, js[j].for, whole))
           ELSE Ended(js, want, j, st, ms \o graph.spo, gs)
<1> DEFINE N == NodeNames(js, want)
           W == StatedBy(js, j)
           n == Len(W)
           met == MetBy(js)[j]
           for == js[j].for
<1>1. met = MetAt(js, j, n) /\ FirstOf(W, n) = ToSet(W)
  BY MetAround
<1>2. /\ Shows(st, N, met) /\ Depicts(ToSet(rs), met, ToSet(W))
      /\ Depicts(ToSet(ms), met, Told(js, for, j - 1))
      /\ \A f \in DOMAIN gs : Depicts(ToSet(gs[f].spo), met, Told(js, f, Len(js)))
  BY <1>1 DEF Sofar
<1>3. graph.spo \in Seq(Row) /\ ToSet(graph.spo) = ToSet(rs)
  <2>1. Indexed(graph) /\ ToSet(graph.spo) = ToSet(rs)
    BY BuiltIsIndexed
  <2> QED BY <2>1 DEF Indexed
<1>4. Told(js, for, j) = Told(js, for, j - 1) \cup ToSet(W)
  <2>1. j \in Nat \ {0}
    BY DEF RunRight, JobsRight
  <2> QED BY <2>1, ToldOneMore
<1>5. /\ ms \o graph.spo \in Seq(Row)
      /\ ToSet(ms \o graph.spo) = ToSet(ms) \cup ToSet(rs)
  BY <1>3, BothRows
<1> HIDE DEF N, W, n, met, for
<1>6. Depicts(ToSet(ms \o graph.spo), met, Told(js, for, j))
  BY <1>2, <1>4, <1>5, DepictsBoth
<1>7. ToSet(whole.spo) = ToSet(ms \o graph.spo)
  <2>1. CASE ms = <<>>
    <3>1. ToSet(ms) = {}
      BY <2>1 DEF ToSet
    <3> QED BY <1>3, <1>5, <2>1, <3>1
  <2>2. CASE ms # <<>>
    <3>1. whole = Built(ms \o graph.spo)
      BY <2>2
    <3> QED BY <1>5, <3>1, BuiltIsIndexed
  <2> QED BY <2>1, <2>2
<1>8. CASE j = Len(js) \/ js[j + 1].for # js[j].for
  <2> DEFINE all == With(gs, for, whole)
  <2>1. Told(js, for, Len(js)) = Told(js, for, j)
    BY <1>8, ToldTogether DEF for
  <2>2. j # Len(js) => Told(js, js[j + 1].for, j) = {}
    BY <1>8, ToldTogether
  <2>3. j # Len(js) => Depicts(ToSet(<<>>), met, Told(js, js[j + 1].for, j))
    BY <2>2 DEF Depicts, ToSet
  <2>4. DOMAIN all = DOMAIN gs \cup {for} /\ all[for] = whole
        /\ \A f \in DOMAIN gs : f # for => all[f] = gs[f]
    BY DEF With
  <2> HIDE DEF all
  <2>5. ASSUME NEW f \in DOMAIN all PROVE Depicts(ToSet(all[f].spo), met, Told(js, f, Len(js)))
    <3>1. CASE f = for
      BY <1>6, <1>7, <2>1, <2>4, <3>1
    <3>2. CASE f # for
      BY <1>2, <2>4, <3>2
    <3> QED BY <3>1, <3>2
  <2>6. Ended(js, want, j, st, <<>>, all)
    BY <1>2, <2>3, <2>5 DEF Ended, N, met
  <2> QED BY <1>8, <2>6 DEF all, for
<1>9. CASE ~(j = Len(js) \/ js[j + 1].for # js[j].for)
  <2>1. js[j + 1].for = for
    BY <1>9 DEF for
  <2>2. Ended(js, want, j, st, ms \o graph.spo, gs)
    BY <1>2, <1>6, <2>1 DEF Ended, N, met
  <2> QED BY <1>9, <2>2
<1> QED BY <1>8, <1>9

\* The next document starts from there.
LEMMA NextShown ==
    ASSUME NEW js, NEW want, RunRight(js, want), NEW j \in DOMAIN js, j # Len(js),
           NEW st, NEW ms, NEW gs, Ended(js, want, j, st, ms, gs), WholeOf(js, j + 1).ok
    PROVE  Sofar(js, want, j + 1, st, <<>>, ms, gs, 0)
<1> DEFINE k == j + 1
           met == MetBy(js)[j]
<1>1. k \in DOMAIN js /\ k - 1 = j
  BY DEF RunRight, JobsRight
<1>2. WholeOf(js, k).ok
  OBVIOUS
<1> HIDE DEF k
<1>3. MetAt(js, k, 0) = met /\ FirstOf(StatedBy(js, k), 0) = {}
  BY <1>1, <1>2, MetAround
<1>4. /\ Shows(st, NodeNames(js, want), met)
      /\ Depicts(ToSet(ms), met, Told(js, js[k].for, k - 1))
      /\ \A for \in DOMAIN gs : Depicts(ToSet(gs[for].spo), met, Told(js, for, Len(js)))
  BY <1>1 DEF Ended, k
<1>5. Depicts(ToSet(<<>>), met, {})
  BY DEF Depicts, ToSet
<1>6. Sofar(js, want, k, st, <<>>, ms, gs, 0)
  BY <1>3, <1>4, <1>5 DEF Sofar
<1> QED BY <1>6 DEF k

\* What is left of a text's triples after x of them.
Rest(s, raw, x) ==
    /\ IsList(s) /\ IsList(raw) /\ x \in Nat /\ Len(s) + x = Len(raw)
    /\ \A y \in 1 .. Len(s) : s[y] = raw[x + y]

\* At the start all is left; taking the head leaves the rest of one more.
LEMMA RestGoes ==
    ASSUME NEW s, NEW raw, IsList(raw)
    PROVE  /\ s = raw => Rest(s, raw, 0)
           /\ s = <<>> => \A x : Rest(s, raw, x) => x = Len(raw)
           /\ s # <<>> => \A x : Rest(s, raw, x) =>
                 /\ Rest(Tail(s), raw, x + 1) /\ x + 1 \in 1 .. Len(raw) /\ Head(s) = raw[x + 1]
<1>1. Len(raw) \in Nat
  BY LenProperties DEF IsList
<1>2. s = raw => Rest(s, raw, 0)
  BY <1>1 DEF Rest
<1>3. s = <<>> => \A x : Rest(s, raw, x) => x = Len(raw)
  <2>1. Len(<<>>) = 0
    BY EmptySeq
  <2> QED BY <1>1, <2>1 DEF Rest
<1>4. ASSUME s # <<>>, NEW x, Rest(s, raw, x)
      PROVE  Rest(Tail(s), raw, x + 1) /\ x + 1 \in 1 .. Len(raw) /\ Head(s) = raw[x + 1]
  <2> DEFINE S == ToSet(s)
             n == Len(s)
             t == Tail(s)
  <2>1. /\ s \in Seq(S) /\ x \in Nat /\ n + x = Len(raw)
        /\ \A y \in 1 .. n : s[y] = raw[x + y]
    BY <1>4 DEF Rest, IsList
  <2>2. n \in Nat /\ n # 0
    BY <1>4, <2>1, LenProperties, EmptySeq
  <2>3. /\ Head(s) = s[1] /\ t \in Seq(S) /\ Len(t) = n - 1
        /\ \A y \in 1 .. (n - 1) : t[y] = s[y + 1]
    BY <1>4, <2>1, HeadTailProperties
  <2> HIDE DEF S, n, t
  <2>4. 1 \in 1 .. n /\ x + 1 \in 1 .. Len(raw)
    BY <1>1, <2>1, <2>2
  <2> DEFINE m == Len(t)
             r == Len(raw)
  <2>5. m + (x + 1) = r
    <3>1. r \in Nat /\ n \in Nat /\ x \in Nat /\ n + x = r /\ m = n - 1
      BY <1>1, <2>1, <2>2, <2>3
    <3> HIDE DEF m, r
    <3> QED BY <3>1
  <2>6. ASSUME NEW y \in 1 .. Len(t) PROVE t[y] = raw[(x + 1) + y]
    <3> DEFINE z == y + 1
    <3>1. y \in 1 .. (n - 1) /\ y \in Nat
      BY <2>2, <2>3
    <3>4. z \in 1 .. n /\ x + z = (x + 1) + y
      BY <2>1, <2>2, <3>1
    <3>2. t[y] = s[z]
      BY <2>3, <3>1
    <3> HIDE DEF z
    <3>3. s[z] = raw[x + z]
      BY <2>1, <3>4
    <3> QED BY <3>4, <3>2, <3>3
  <2>7. IsList(t)
    BY <2>3, MembersOfSeq DEF IsList
  <2> QED BY <1>4, <2>1, <2>3, <2>4, <2>5, <2>6, <2>7 DEF Rest, t
<1> QED BY <1>2, <1>3, <1>4

\* Where the merging of the document at hand is: x triples of the chunk at hand
\* are interned.
MergedTo(x) ==
    /\ x \in Nat
    /\ chunks = <<>> => x = 0
    /\ chunks # <<>> => Rest(parsed[NextChunk].triples, Parse(Cut[NextChunk]).triples, x)
    /\ Sofar(jobs, threads, at, store, rows, merged, graphs,
             Reached(LayoutOf(jobs, threads, at), NextChunk, x))
ParsedWhole == \A i \in DOMAIN parsed : parsed[i] = Parse(Cut[i])
Untouched == \A i \in DOMAIN parsed : i > NextChunk => parsed[i].triples = Parse(Cut[i]).triples

\* The invariant: the store, the rows and the graphs are those of the documents
\* so far.
ShowInvariant ==
    /\ JobsApart(jobs)
    /\ AllTame =>
          /\ pc \in {"read", "parse"} /\ Said(at).ok =>
                Sofar(jobs, threads, at, store, rows, merged, graphs, 0)
          /\ pc \in {"parse", "merge"} => split = IsSplit(Job.doc, threads)
          /\ pc = "parse" => ParsedWhole
          /\ pc = "merge" /\ Said(at).ok => Untouched /\ \E x : MergedTo(x)
          /\ pc = "done" => Ended(jobs, threads, Len(jobs), store, merged, graphs)

\* How the chunks are counted.
LEMMA ChunksCounted ==
    ASSUME ParseInvariant, AllTame, pc \in {"parse", "merge"}
    PROVE  /\ RunRight(jobs, threads) \/ ~JobsApart(jobs)
           /\ at \in DOMAIN jobs /\ DocOK(Job.doc)
           /\ Cut = TextsOf(jobs, threads, at) /\ Said(at) = WholeOf(jobs, at)
           /\ Len(Cut) \in Nat \ {0} /\ DOMAIN Cut = 1 .. Len(Cut)
           /\ (\A i \in DOMAIN Cut : Parse(Cut[i]).ok) <=> Said(at).ok
           /\ pc = "parse" => Parsing
           /\ pc = "merge" => /\ InMerge /\ DOMAIN parsed = 1 .. Len(Cut)
                              /\ Len(parsed) = Len(Cut)
                              /\ chunks # <<>> => NextChunk \in 1 .. Len(Cut)
                              /\ chunks = <<>> => NextChunk = Len(Cut) + 1
<1>1. /\ JobsRight(jobs) /\ threads \in Nat /\ at \in DOMAIN jobs
      /\ pc = "parse" => Parsing
      /\ pc = "merge" => InMerge
  BY DEF ParseInvariant
<1>2. DocOK(Job.doc) /\ Tame(Job.doc)
  BY <1>1 DEF JobsRight, Job, AllTame
<1>3. Cut \in Seq(ToSet(Cut)) /\ Cut # <<>>
  BY <1>1, <1>2, TextsKnown DEF Cut
<1>4. Len(Cut) \in Nat \ {0} /\ DOMAIN Cut = 1 .. Len(Cut)
  BY <1>3, LenProperties, EmptySeq
<1>5. (\A i \in DOMAIN Cut : Parse(Cut[i]).ok) <=> Said(at).ok
  BY <1>1, <1>2, PiecesParse DEF Cut, Said, Job
<1>6. RunRight(jobs, threads) \/ ~JobsApart(jobs)
  BY <1>1 DEF RunRight, AllTame
<1>7. Cut = TextsOf(jobs, threads, at) /\ Said(at) = WholeOf(jobs, at)
  BY DEF Cut, TextsOf, Job, Said, WholeOf
<1>8. ASSUME pc = "merge"
      PROVE  /\ DOMAIN parsed = 1 .. Len(Cut) /\ Len(parsed) = Len(Cut)
             /\ chunks # <<>> => NextChunk \in 1 .. Len(Cut)
             /\ chunks = <<>> => NextChunk = Len(Cut) + 1
  <2>1. InMerge
    BY <1>1, <1>8
  <2>2. DOMAIN parsed = 1 .. Len(Cut) /\ parsed = [i \in 1 .. Len(Cut) |-> parsed[i]]
    BY <2>1 DEF InMerge, IsTable
  <2>3. Len(parsed) = Len(Cut)
    BY <1>4, <2>2, LenProperties
  <2>4. /\ Len(chunks) \in Nat /\ Len(chunks) <= Len(Cut)
        /\ chunks = <<>> <=> Len(chunks) = 0
    BY <2>1, LenProperties, EmptySeq DEF InMerge
  <2> QED BY <1>4, <2>2, <2>3, <2>4 DEF NextChunk
<1> QED BY <1>1, <1>2, <1>4, <1>5, <1>6, <1>7, <1>8

\* What no step of a run changes, and what follows where only the texts or what
\* was made of them changes.
LEMMA StaysSo ==
    ASSUME [Next]_vars
    PROVE  /\ UNCHANGED <<jobs, threads>> /\ (AllTame' <=> AllTame)
           /\ JobsApart(jobs) => JobsApart(jobs')
           /\ Said(at)' = WholeOf(jobs, at')
           /\ at' = at => Cut' = Cut /\ Job' = Job /\ Said(at)' = Said(at)
<1>1. UNCHANGED <<jobs, threads>>
  BY DEF Next, vars, ReadDocument, ParseChunk, MergeFails, InternNext, ChunkDone, FinishDocument
<1>2. AllTame' <=> AllTame
  BY <1>1 DEF AllTame
<1>3. Said(at)' = WholeOf(jobs, at')
  BY <1>1 DEF Said, WholeOf
<1>4. at' = at => Cut' = Cut /\ Job' = Job /\ Said(at)' = Said(at)
  BY <1>1 DEF Cut, Job, Said
<1> QED BY <1>1, <1>2, <1>3, <1>4

\* What a step has to show.
LEMMA ToShow ==
    ASSUME ShowInvariant, [Next]_vars,
           AllTame =>
              /\ pc' \in {"read", "parse"} /\ WholeOf(jobs, at').ok =>
                    Sofar(jobs, threads, at', store', rows', merged', graphs', 0)
              /\ pc' \in {"parse", "merge"} => split' = IsSplit(Job.doc, threads)'
              /\ pc' = "parse" => ParsedWhole'
              /\ pc' = "merge" /\ WholeOf(jobs, at').ok => Untouched' /\ \E x : MergedTo(x)'
              /\ pc' = "done" => Ended(jobs, threads, Len(jobs), store', merged', graphs')
    PROVE  ShowInvariant'
<1>1. /\ jobs' = jobs /\ threads' = threads /\ (AllTame' <=> AllTame)
      /\ JobsApart(jobs') /\ Said(at)' = WholeOf(jobs, at')
  BY StaysSo DEF ShowInvariant
<1>2. Sofar(jobs, threads, at, store, rows, merged, graphs, 0)'
         <=> Sofar(jobs, threads, at', store', rows', merged', graphs', 0)
  BY <1>1
<1>3. Ended(jobs, threads, Len(jobs), store, merged, graphs)'
         <=> Ended(jobs, threads, Len(jobs), store', merged', graphs')
  BY <1>1
<1> QED BY <1>1, <1>2, <1>3 DEF ShowInvariant

\* At the start.
LEMMA InitShown == Init => ShowInvariant
<1> SUFFICES ASSUME Init PROVE ShowInvariant
  OBVIOUS
<1>1. PICK input \in Inputs :
         jobs = JobsFor("data", input.data) \o JobsFor("shapes", input.shapes)
  BY DEF Init
<1>2. JobsRight(jobs)
  BY <1>1, JobsOfInput
<1>3. JobsApart(jobs)
  BY <1>1, JobsOfInputApart
<1>4. /\ threads \in Nat /\ at = 1 /\ pc = "read" /\ store = Fresh
      /\ rows = <<>> /\ merged = <<>> /\ graphs = <<>>
  BY ThreadsAssumption DEF Init
<1>5. ASSUME AllTame, Said(at).ok
      PROVE  Sofar(jobs, threads, at, store, rows, merged, graphs, 0)
  <2>1. RunRight(jobs, threads)
    BY <1>2, <1>3, <1>4, <1>5 DEF RunRight, AllTame
  <2>2. WholeOf(jobs, 1).ok
    BY <1>4, <1>5 DEF Said, WholeOf
  <2> QED BY <1>4, <2>1, <2>2, StartShown
<1> QED BY <1>3, <1>4, <1>5 DEF ShowInvariant

\* A document is read.
LEMMA ReadShown ==
    ASSUME ShowInvariant, ParseInvariant, ReadDocument
    PROVE  ShowInvariant'
<1>1. /\ pc = "read" /\ pc' = "parse" /\ split' = IsSplit(Job.doc, threads)
      /\ UNCHANGED <<jobs, threads, at, parsed, store, rows, merged, graphs>>
  BY DEF ReadDocument
<1>2. [Next]_vars
  BY DEF Next
<1>3. ASSUME AllTame
      PROVE  /\ WholeOf(jobs, at').ok =>
                    Sofar(jobs, threads, at', store', rows', merged', graphs', 0)
             /\ split' = IsSplit(Job.doc, threads)' /\ ParsedWhole'
  <2>1. parsed' = <<>> /\ DOMAIN parsed' = {}
    BY <1>1, <1>3 DEF ParseInvariant
  <2>2. Said(at).ok => Sofar(jobs, threads, at, store, rows, merged, graphs, 0)
    BY <1>1, <1>3 DEF ShowInvariant
  <2>3. Said(at) = WholeOf(jobs, at) /\ Job' = Job
    BY <1>1 DEF Said, WholeOf, Job
  <2>4. WholeOf(jobs, at').ok =>
            Sofar(jobs, threads, at', store', rows', merged', graphs', 0)
    BY <1>1, <2>2, <2>3
  <2>5. ParsedWhole'
    BY <2>1 DEF ParsedWhole
  <2>6. split' = IsSplit(Job.doc, threads)'
    BY <1>1, <2>3
  <2> QED BY <2>4, <2>5, <2>6
<1> QED BY <1>1, <1>2, <1>3, ToShow

\* A worker parses a chunk; when all have, the first chunk's triples come first.
LEMMA ParseShown ==
    ASSUME ShowInvariant, ParseInvariant, NEW i \in DOMAIN chunks, ParseChunk(i)
    PROVE  ShowInvariant'
<1>1. /\ pc = "parse" /\ pc' = IF DOMAIN parsed' = DOMAIN chunks THEN "merge" ELSE pc
      /\ parsed' = With(parsed, i, Parse(chunks[i]))
      /\ UNCHANGED <<jobs, threads, at, split, chunks, store, rows, merged, graphs>>
  BY DEF ParseChunk
<1>2. [Next]_vars
  BY DEF Next
<1>3. SUFFICES ASSUME AllTame
               PROVE  /\ WholeOf(jobs, at').ok =>
                             Sofar(jobs, threads, at', store', rows', merged', graphs', 0)
                      /\ split' = IsSplit(Job.doc, threads)' /\ ParsedWhole'
                      /\ pc' = "merge" /\ WholeOf(jobs, at').ok =>
                             Untouched' /\ \E x : MergedTo(x)'
  <2>1. pc' \in {"parse", "merge"}
    BY <1>1
  <2> QED BY <1>2, <1>3, <2>1, ToShow
<1>4. /\ at \in DOMAIN jobs /\ Said(at) = WholeOf(jobs, at) /\ RunRight(jobs, threads)
      /\ Cut = TextsOf(jobs, threads, at) /\ Len(Cut) \in Nat \ {0} /\ DOMAIN Cut = 1 .. Len(Cut)
      /\ chunks = Cut
  BY <1>1, <1>3, ChunksCounted DEF ShowInvariant, Parsing
<1>5. /\ Said(at).ok => Sofar(jobs, threads, at, store, rows, merged, graphs, 0)
      /\ split = IsSplit(Job.doc, threads) /\ ParsedWhole
  BY <1>1, <1>3 DEF ShowInvariant
<1>6. Cut' = Cut /\ Job' = Job /\ at' = at
  BY <1>1 DEF Cut, Job
<1>7. /\ DOMAIN parsed' = DOMAIN parsed \cup {i}
      /\ parsed'[i] = Parse(Cut[i])
      /\ \A j \in DOMAIN parsed : j # i => parsed'[j] = parsed[j]
      /\ IsTable(parsed)'
  BY <1>1, <1>4 DEF With, IsTable
<1>8. \A j \in DOMAIN parsed' : parsed'[j] = Parse(Cut[j])
  BY <1>5, <1>7 DEF ParsedWhole
<1>9. ASSUME pc' = "merge", WholeOf(jobs, at').ok PROVE Untouched' /\ MergedTo(0)'
  <2>1. DOMAIN parsed' = 1 .. Len(Cut)
    BY <1>1, <1>4, <1>9
  <2>2. Len(parsed') = Len(Cut)
    <3>1. parsed' = [j \in 1 .. Len(Cut) |-> parsed'[j]]
      BY <1>7, <2>1 DEF IsTable
    <3> HIDE DEF Cut
    <3> QED BY <1>4, <3>1, LenProperties
  <2>3. NextChunk' = 1
    BY <1>1, <1>4, <2>2 DEF NextChunk
  <2>4. Untouched'
    BY <1>6, <1>8 DEF Untouched
  <2>5. WholeOf(jobs, at).ok
    BY <1>6, <1>9
  <2>6. Layout(Cut, WholeOf(jobs, at).triples, LayoutOf(jobs, threads, at))
    BY <1>4, <2>5, LaidOut
  <2>7. 1 \in 1 .. Len(Cut)
    BY <1>4
  <2> DEFINE lay == LayoutOf(jobs, threads, at)
  <2>8. /\ IsList(Parse(Cut[1]).triples) /\ Tiles(lay, Len(Cut), WholeOf(jobs, at).triples)
        /\ Laid(lay, 1, Parse(Cut[1]).triples, WholeOf(jobs, at).triples)
    BY <2>6, <2>7 DEF Layout, Laid
  <2>9. Reached(lay, 1, 0) = 0
    BY <2>7, <2>8, ReachedNext
  <2>10. Rest(parsed'[1].triples, Parse(Cut[1]).triples, 0)
    <3>1. parsed'[1].triples = Parse(Cut[1]).triples
      BY <1>8, <2>1, <2>7
    <3> QED BY <2>8, <3>1, RestGoes
  <2>11. Sofar(jobs, threads, at, store, rows, merged, graphs, Reached(lay, 1, 0))
    BY <1>4, <1>5, <2>5, <2>9
  <2>12. chunks' # <<>>
    BY <1>1, <1>4
  <2> HIDE DEF lay
  <2>13. Sofar(jobs, threads, at, store, rows, merged, graphs,
               Reached(LayoutOf(jobs, threads, at), NextChunk, 0))'
    BY <1>1, <2>3, <2>11 DEF lay
  <2> QED BY <1>6, <2>3, <2>4, <2>10, <2>12, <2>13 DEF MergedTo
<1>10. ParsedWhole'
  BY <1>6, <1>8 DEF ParsedWhole
<1>11. WholeOf(jobs, at').ok => Sofar(jobs, threads, at', store', rows', merged', graphs', 0)
  BY <1>1, <1>4, <1>5
<1>12. split' = IsSplit(Job.doc, threads)'
  BY <1>1, <1>5, <1>6
<1> QED BY <1>9, <1>10, <1>11, <1>12

\* What the merge of a document that parses has before it.
MergeGoesOn(x) ==
    /\ at \in DOMAIN jobs /\ RunRight(jobs, threads) /\ WholeOf(jobs, at).ok
    /\ Cut = TextsOf(jobs, threads, at)
    /\ Len(Cut) \in Nat \ {0} /\ DOMAIN Cut = 1 .. Len(Cut)
    /\ DOMAIN parsed = 1 .. Len(Cut) /\ Len(parsed) = Len(Cut)
    /\ chunks # <<>> => NextChunk \in 1 .. Len(Cut)
    /\ chunks = <<>> => NextChunk = Len(Cut) + 1
    /\ split = IsSplit(Job.doc, threads) /\ Untouched /\ MergedTo(x)
    /\ Tiles(LayoutOf(jobs, threads, at), Len(Cut), WholeOf(jobs, at).triples)
    /\ \A i \in 1 .. Len(Cut) :
          Laid(LayoutOf(jobs, threads, at), i, Parse(Cut[i]).triples, WholeOf(jobs, at).triples)

\* It has all of it.
LEMMA MergeKnown ==
    ASSUME ShowInvariant, ParseInvariant, AllTame, pc = "merge", WholeOf(jobs, at).ok
    PROVE  \E x : MergeGoesOn(x)
<1>1. /\ at \in DOMAIN jobs /\ Said(at) = WholeOf(jobs, at) /\ RunRight(jobs, threads)
      /\ Cut = TextsOf(jobs, threads, at)
      /\ Len(Cut) \in Nat \ {0} /\ DOMAIN Cut = 1 .. Len(Cut)
      /\ DOMAIN parsed = 1 .. Len(Cut) /\ Len(parsed) = Len(Cut)
      /\ chunks # <<>> => NextChunk \in 1 .. Len(Cut)
      /\ chunks = <<>> => NextChunk = Len(Cut) + 1
  BY ChunksCounted DEF ShowInvariant
<1>2. split = IsSplit(Job.doc, threads) /\ Untouched /\ \E x : MergedTo(x)
  BY <1>1 DEF ShowInvariant
<1>3. Layout(Cut, WholeOf(jobs, at).triples, LayoutOf(jobs, threads, at))
  BY <1>1, LaidOut
<1>4. /\ Tiles(LayoutOf(jobs, threads, at), Len(Cut), WholeOf(jobs, at).triples)
      /\ \A i \in 1 .. Len(Cut) :
            Laid(LayoutOf(jobs, threads, at), i, Parse(Cut[i]).triples, WholeOf(jobs, at).triples)
  BY <1>3 DEF Layout
<1>5. PICK x : MergedTo(x)
  BY <1>2
<1>6. MergeGoesOn(x)
  BY <1>1, <1>2, <1>4, <1>5 DEF MergeGoesOn
<1> QED BY <1>6

\* The next triple is interned.
LEMMA InternShown ==
    ASSUME NEW x, MergeGoesOn(x), LoadInvariant, InMerge, InternNext
    PROVE  Untouched' /\ MergedTo(x + 1)'
<1> DEFINE n == NextChunk
           lay == LayoutOf(jobs, threads, at)
           raw == Parse(Cut[n]).triples
           left == parsed[n].triples
           v == Reached(lay, n, x)
           next == InternThree(InternTerm, store, Head(left), ChunkScope(n))
<1>1. /\ chunks # <<>> /\ left # <<>>
      /\ store' = next.store /\ rows' = Append(rows, next.row)
      /\ parsed' = [parsed EXCEPT ![n].triples = Tail(@)]
      /\ UNCHANGED <<jobs, threads, at, split, chunks, merged, graphs>>
  BY DEF InternNext, Merging
<1>2. /\ at \in DOMAIN jobs /\ RunRight(jobs, threads) /\ WholeOf(jobs, at).ok
      /\ Cut = TextsOf(jobs, threads, at)
      /\ Len(Cut) \in Nat \ {0} /\ DOMAIN Cut = 1 .. Len(Cut)
      /\ DOMAIN parsed = 1 .. Len(Cut) /\ Len(parsed) = Len(Cut)
      /\ n \in 1 .. Len(Cut)
      /\ split = IsSplit(Job.doc, threads) /\ Untouched
  BY <1>1 DEF MergeGoesOn
<1>3. /\ Tiles(lay, Len(Cut), WholeOf(jobs, at).triples)
      /\ Laid(lay, n, raw, WholeOf(jobs, at).triples)
  BY <1>2 DEF MergeGoesOn
<1>4. /\ x \in Nat /\ Rest(left, raw, x)
      /\ Sofar(jobs, threads, at, store, rows, merged, graphs, v)
  BY <1>1 DEF MergeGoesOn, MergedTo
<1>5. ChunkScope(n) = ScopeIn(jobs, threads, at, n)
  BY <1>2 DEF ChunkScope, ScopeIn, Job
<1>6. rows \in Seq(Row)
  BY DEF LoadInvariant
<1>7. Cut' = Cut /\ \A k \in DOMAIN parsed : k # n => parsed'[k] = parsed[k]
  BY <1>1 DEF Cut, Job
<1>8. /\ DOMAIN parsed' = 1 .. Len(Cut) /\ parsed'[n].triples = Tail(left)
      /\ parsed' = [k \in 1 .. Len(Cut) |-> parsed'[k]]
  <2> DEFINE less == [parsed[n] EXCEPT !.triples = Tail(@)]
  <2>1. parsed' = [k \in 1 .. Len(Cut) |-> IF k = n THEN less ELSE parsed[k]]
    BY <1>1, <1>2
  <2>2. less.triples = Tail(left)
    <3>1. "triples" \in DOMAIN parsed[n]
      <4>1. parsed[n] = [field \in {"ok", "env", "made", "triples"} |-> parsed[n][field]]
        BY <1>2 DEF InMerge, Understood, Knows
      <4> QED BY <4>1
    <3> QED BY <3>1
  <2> HIDE DEF less
  <2> QED BY <1>2, <2>1, <2>2
<1> HIDE DEF n, lay, raw, left, v, next
<1>9. Len(parsed') = Len(Cut) /\ NextChunk' = n
  <2>1. Len(parsed') = Len(Cut)
    BY <1>2, <1>8, LenProperties
  <2> QED BY <1>1, <1>2, <2>1 DEF NextChunk, n
<1>10. IsList(raw)
  BY <1>3 DEF Laid
<1>11. /\ Rest(Tail(left), raw, x + 1) /\ x + 1 \in 1 .. Len(raw) /\ Head(left) = raw[x + 1]
  BY <1>1, <1>4, <1>10, RestGoes
<1>12. next = InternThree(InternTerm, store, raw[x + 1], ScopeIn(jobs, threads, at, n))
  BY <1>5, <1>11 DEF next
<1>13. /\ v \in Nat
       /\ \/ Reached(lay, n, x + 1) = v + 1 /\ v + 1 = Place(lay, n, x + 1)
          \/ Reached(lay, n, x + 1) = v /\ Place(lay, n, x + 1) \in 1 .. v
  <2>1. x \in 0 .. (Len(raw) - 1)
    <3>1. Len(raw) \in Nat
      BY <1>10, LenProperties DEF IsList
    <3> QED BY <1>4, <1>11, <3>1
  <2>2. /\ Reached(lay, n, x) \in Nat
        /\ \/ /\ Reached(lay, n, x + 1) = Reached(lay, n, x) + 1
              /\ Reached(lay, n, x) + 1 = Place(lay, n, x + 1)
           \/ /\ Reached(lay, n, x + 1) = Reached(lay, n, x)
              /\ Place(lay, n, x + 1) \in 1 .. Reached(lay, n, x)
    BY <1>2, <1>3, <2>1, ReachedNext
  <2> QED BY <2>2 DEF v
<1>14. /\ raw = Parse(TextsOf(jobs, threads, at)[n]).triples
       /\ n \in 1 .. Len(TextsOf(jobs, threads, at))
  BY <1>2 DEF raw
<1> DEFINE y == x + 1
           w == Reached(lay, n, y)
<1>15. y \in 1 .. Len(raw)
       /\ next = InternThree(InternTerm, store, raw[y], ScopeIn(jobs, threads, at, n))
  BY <1>11, <1>12
<1>16. \/ w = v + 1 /\ v + 1 = Place(lay, n, y)
       \/ w = v /\ Place(lay, n, y) \in 1 .. v
  BY <1>13
<1> HIDE DEF y, w
<1>17. Sofar(jobs, threads, at, next.store, Append(rows, next.row), merged, graphs, w)
  <2>1. CASE w = v + 1 /\ v + 1 = Place(lay, n, y)
    <3>1. v + 1 = Place(LayoutOf(jobs, threads, at), n, y)
      BY <2>1 DEF lay
    <3>2. Sofar(jobs, threads, at, next.store, Append(rows, next.row), merged, graphs, v + 1)
      BY <1>2, <1>4, <1>6, <1>13, <1>14, <1>15, <3>1, NewTriple
    <3> QED BY <2>1, <3>2
  <2>2. CASE w = v /\ Place(lay, n, y) \in 1 .. v
    <3> DEFINE q == Place(LayoutOf(jobs, threads, at), n, y)
    <3>1. q \in 1 .. v /\ q = Place(LayoutOf(jobs, threads, at), n, y)
      BY <2>2 DEF lay
    <3> HIDE DEF q
    <3>2. Sofar(jobs, threads, at, next.store, Append(rows, next.row), merged, graphs, v)
      BY <1>2, <1>4, <1>6, <1>13, <1>14, <1>15, <3>1, OldTriple
    <3> QED BY <2>2, <3>2
  <2> QED BY <1>16, <2>1, <2>2
<1>18. Untouched'
  <2> SUFFICES ASSUME NEW i \in DOMAIN parsed', i > NextChunk'
               PROVE  parsed'[i].triples = Parse(Cut'[i]).triples
    BY DEF Untouched
  <2>1. i \in DOMAIN parsed /\ i > NextChunk /\ i # n
    BY <1>2, <1>8, <1>9 DEF n
  <2> QED BY <1>2, <1>7, <2>1 DEF Untouched
<1>19. Rest(parsed[NextChunk].triples, Parse(Cut[NextChunk]).triples, y)'
  <2>1. parsed'[NextChunk'].triples = Tail(left) /\ Parse(Cut'[NextChunk']).triples = raw
    BY <1>7, <1>8, <1>9 DEF raw
  <2>2. Rest(Tail(left), raw, y)
    BY <1>11 DEF y
  <2>3. y' = y
    BY DEF y
  <2> QED BY <2>1, <2>2, <2>3
<1>20. Sofar(jobs, threads, at, store, rows, merged, graphs,
             Reached(LayoutOf(jobs, threads, at), NextChunk, y))'
  BY <1>1, <1>9, <1>17 DEF w, lay, y
<1>21. chunks' # <<>> /\ y \in Nat
  BY <1>1, <1>4 DEF y
<1> QED BY <1>18, <1>19, <1>20, <1>21 DEF MergedTo, y

\* A chunk's triples are all interned: the next chunk goes on from there.
LEMMA DoneShown ==
    ASSUME NEW x, MergeGoesOn(x), InMerge, ChunkDone
    PROVE  Untouched' /\ MergedTo(0)'
<1> DEFINE n == NextChunk
           k == n + 1
           lay == LayoutOf(jobs, threads, at)
           raw == Parse(Cut[n]).triples
           left == parsed[n].triples
           m == Len(Cut)
<1>1. /\ chunks # <<>> /\ left = <<>> /\ chunks' = Tail(chunks)
      /\ UNCHANGED <<jobs, threads, at, split, parsed, store, rows, merged, graphs>>
  BY DEF ChunkDone, Merging
<1>2. /\ m \in Nat \ {0} /\ DOMAIN parsed = 1 .. m /\ Len(parsed) = m
      /\ n \in 1 .. m /\ Untouched
  BY <1>1 DEF MergeGoesOn
<1>3. /\ Tiles(lay, m, WholeOf(jobs, at).triples)
      /\ \A i \in 1 .. m : Laid(lay, i, Parse(Cut[i]).triples, WholeOf(jobs, at).triples)
  BY DEF MergeGoesOn
<1>4. /\ x \in Nat /\ Rest(left, raw, x)
      /\ Sofar(jobs, threads, at, store, rows, merged, graphs, Reached(lay, n, x))
  BY <1>1 DEF MergeGoesOn, MergedTo
<1>5. Cut' = Cut
  BY <1>1 DEF Cut, Job
<1>6. Len(chunks) \in Nat /\ Len(chunks) # 0 /\ Len(chunks') = Len(chunks) - 1
      /\ (chunks' = <<>> <=> Len(chunks') = 0)
  <2>1. chunks \in Seq(ToSet(Cut))
    BY DEF InMerge
  <2>2. Len(chunks) \in Nat /\ Len(chunks) # 0
    BY <1>1, <2>1, LenProperties, EmptySeq
  <2>3. chunks' \in Seq(ToSet(Cut)) /\ Len(chunks') = Len(chunks) - 1
    BY <1>1, <2>1, HeadTailProperties
  <2> QED BY <2>2, <2>3, EmptySeq
<1>7. NextChunk' = k /\ (chunks' = <<>> <=> k = m + 1)
  <2>1. n = m - Len(chunks) + 1
    BY <1>2 DEF NextChunk
  <2>2. NextChunk' = m - Len(chunks') + 1
    BY <1>1, <1>2 DEF NextChunk
  <2> HIDE DEF n, m
  <2> QED BY <1>2, <1>6, <2>1, <2>2
<1> HIDE DEF n, lay, raw, left, m
<1>8. Laid(lay, n, raw, WholeOf(jobs, at).triples) /\ IsList(raw)
  <2>1. Laid(lay, n, raw, WholeOf(jobs, at).triples)
    BY <1>2, <1>3 DEF raw
  <2> QED BY <2>1 DEF Laid
<1>9. Reached(lay, n, x) = Reached(lay, k, 0)
  <2>1. x = Len(raw)
    BY <1>1, <1>4, <1>8, RestGoes
  <2> QED BY <1>2, <1>3, <1>8, <2>1, ReachedNext
<1>10. Untouched'
  <2> SUFFICES ASSUME NEW i \in DOMAIN parsed', i > NextChunk'
               PROVE  parsed'[i].triples = Parse(Cut'[i]).triples
    BY DEF Untouched
  <2>1. i \in DOMAIN parsed /\ i > NextChunk
    BY <1>1, <1>2, <1>7 DEF n
  <2> QED BY <1>1, <1>2, <1>5, <2>1 DEF Untouched
<1>11. ASSUME chunks' # <<>>
       PROVE  Rest(parsed[NextChunk].triples, Parse(Cut[NextChunk]).triples, 0)'
  <2>1. k \in 1 .. m /\ k > n
    BY <1>2, <1>7, <1>11
  <2>2. parsed[k].triples = Parse(Cut[k]).triples
    BY <1>2, <2>1 DEF Untouched, n
  <2>3. IsList(Parse(Cut[k]).triples)
    BY <1>3, <2>1 DEF Laid
  <2>4. Rest(parsed[k].triples, Parse(Cut[k]).triples, 0)
    BY <2>2, <2>3, RestGoes
  <2> QED BY <1>1, <1>5, <1>7, <2>4
<1>12. Sofar(jobs, threads, at, store, rows, merged, graphs,
             Reached(LayoutOf(jobs, threads, at), NextChunk, 0))'
  BY <1>1, <1>4, <1>7, <1>9 DEF lay
<1> QED BY <1>10, <1>11, <1>12 DEF MergedTo

\* The document is done: its rows are in the graph they are for.
LEMMA FinishShown ==
    ASSUME NEW x, MergeGoesOn(x), LoadInvariant, FinishDocument
    PROVE  /\ at # Len(jobs) /\ WholeOf(jobs, at').ok =>
                 Sofar(jobs, threads, at', store', rows', merged', graphs', 0)
           /\ at = Len(jobs) => Ended(jobs, threads, Len(jobs), store', merged', graphs')
<1> DEFINE graph == Built(rows)
           whole == IF merged = <<>> THEN graph ELSE Built(merged \o graph.spo)
           for == Job.for
           m == Len(Cut)
           lay == LayoutOf(jobs, threads, at)
           W == WholeOf(jobs, at).triples
           n == Len(StatedBy(jobs, at))
<1>1. /\ chunks = <<>> /\ rows' = <<>> /\ UNCHANGED store
      /\ LastOfGraph => merged' = <<>> /\ graphs' = With(graphs, for, whole)
      /\ ~LastOfGraph => merged' = merged \o graph.spo /\ graphs' = graphs
      /\ at # Len(jobs) => at' = at + 1
  BY DEF FinishDocument
<1>2. /\ at \in DOMAIN jobs /\ RunRight(jobs, threads) /\ WholeOf(jobs, at).ok
      /\ m \in Nat \ {0} /\ NextChunk = m + 1 /\ Tiles(lay, m, W)
      /\ \A i \in 1 .. m : Laid(lay, i, Parse(Cut[i]).triples, W)
      /\ Sofar(jobs, threads, at, store, rows, merged, graphs, Reached(lay, m + 1, 0))
  BY <1>1 DEF MergeGoesOn, MergedTo
<1>3. rows \in Seq(Row) /\ merged \in Seq(Row)
  BY DEF LoadInvariant
<1>4. for = jobs[at].for /\ (LastOfGraph <=> at = Len(jobs) \/ jobs[at + 1].for # jobs[at].for)
  BY DEF LastOfGraph, Job
<1>5. Len(W) = n
  BY <1>2, StatedIsList
<1> HIDE DEF graph, whole, for, m, lay, W, n
<1>6. Reached(lay, m + 1, 0) = n
  <2>1. 1 \in 1 .. m
    BY <1>2
  <2> DEFINE raw == Parse(Cut[1]).triples
  <2>2. Laid(lay, 1, raw, W)
    BY <1>2, <2>1
  <2> HIDE DEF raw
  <2>3. Reached(lay, m + 1, 0) = Len(W)
    BY <1>2, <2>1, <2>2, ReachedNext
  <2> QED BY <1>5, <2>3
<1>7. Sofar(jobs, threads, at, store, rows, merged, graphs, Len(StatedBy(jobs, at)))
  BY <1>2, <1>6 DEF n
<1>8. IF at = Len(jobs) \/ jobs[at + 1].for # jobs[at].for
      THEN Ended(jobs, threads, at, store, <<>>, With(graphs, jobs[at].for, whole))
      ELSE Ended(jobs, threads, at, store, merged \o graph.spo, graphs)
  <2>1. graph = Built(rows) /\ whole = IF merged = <<>> THEN graph ELSE Built(merged \o graph.spo)
    BY DEF graph, whole
  <2> QED BY <1>2, <1>3, <1>7, <2>1, DocumentRead
<1>9. Ended(jobs, threads, at, store', merged', graphs')
  <2>1. CASE LastOfGraph
    <3>1. Ended(jobs, threads, at, store, <<>>, With(graphs, for, whole))
      BY <1>4, <1>8, <2>1
    <3>2. merged' = <<>> /\ graphs' = With(graphs, for, whole) /\ store' = store
      BY <1>1, <2>1
    <3> QED BY <3>1, <3>2
  <2>2. CASE ~LastOfGraph
    <3>1. Ended(jobs, threads, at, store, merged \o graph.spo, graphs)
      BY <1>4, <1>8, <2>2
    <3>2. merged' = merged \o graph.spo /\ graphs' = graphs /\ store' = store
      BY <1>1, <2>2
    <3> QED BY <3>1, <3>2
  <2> QED BY <2>1, <2>2
<1>10. ASSUME at # Len(jobs), WholeOf(jobs, at').ok
       PROVE  Sofar(jobs, threads, at', store', rows', merged', graphs', 0)
  <2>1. at' = at + 1 /\ rows' = <<>> /\ WholeOf(jobs, at + 1).ok
    BY <1>1, <1>10
  <2>2. Sofar(jobs, threads, at + 1, store', <<>>, merged', graphs', 0)
    BY <1>2, <1>9, <1>10, <2>1, NextShown
  <2> QED BY <2>1, <2>2
<1> QED BY <1>9, <1>10

\* Every step keeps it.
LEMMA StepShown ==
    ASSUME ShowInvariant, ParseInvariant, ParseInvariant', LoadInvariant, [Next]_vars
    PROVE  ShowInvariant'
<1>1. /\ jobs' = jobs /\ threads' = threads /\ (AllTame' <=> AllTame)
      /\ at' = at => Cut' = Cut /\ Job' = Job /\ Said(at)' = Said(at)
      /\ Said(at) = WholeOf(jobs, at)
  BY StaysSo DEF Said, WholeOf
<1>2. CASE ReadDocument
  BY <1>2, ReadShown
<1>3. CASE \E i \in DOMAIN chunks : ParseChunk(i)
  BY <1>3, ParseShown
<1>4. CASE MergeFails
  <2>1. pc' = "failed"
    BY <1>4 DEF MergeFails
  <2> QED BY <2>1, ToShow
<1>5. CASE InternNext
  <2>1. pc = "merge" /\ pc' = "merge" /\ UNCHANGED <<at, split>>
    BY <1>5 DEF InternNext, Merging
  <2>2. ASSUME AllTame
        PROVE  /\ split' = IsSplit(Job.doc, threads)'
               /\ WholeOf(jobs, at').ok => Untouched' /\ \E x : MergedTo(x)'
    <3>1. split = IsSplit(Job.doc, threads) /\ InMerge
      BY <2>1, <2>2 DEF ShowInvariant, ParseInvariant
    <3>2. ASSUME WholeOf(jobs, at').ok PROVE Untouched' /\ \E x : MergedTo(x)'
      <4>1. PICK x : MergeGoesOn(x)
        BY <2>1, <2>2, <3>2, MergeKnown
      <4>2. Untouched' /\ MergedTo(x + 1)'
        BY <1>5, <3>1, <4>1, InternShown
      <4> QED BY <4>2
    <3> QED BY <1>1, <2>1, <3>1, <3>2
  <2> QED BY <2>1, <2>2, ToShow
<1>6. CASE ChunkDone
  <2>1. pc = "merge" /\ pc' = "merge" /\ UNCHANGED <<at, split>>
    BY <1>6 DEF ChunkDone, Merging
  <2>2. ASSUME AllTame
        PROVE  /\ split' = IsSplit(Job.doc, threads)'
               /\ WholeOf(jobs, at').ok => Untouched' /\ \E x : MergedTo(x)'
    <3>1. split = IsSplit(Job.doc, threads) /\ InMerge
      BY <2>1, <2>2 DEF ShowInvariant, ParseInvariant
    <3>2. ASSUME WholeOf(jobs, at').ok PROVE Untouched' /\ \E x : MergedTo(x)'
      <4>1. PICK x : MergeGoesOn(x)
        BY <2>1, <2>2, <3>2, MergeKnown
      <4>2. Untouched' /\ MergedTo(0)'
        BY <1>6, <3>1, <4>1, DoneShown
      <4> QED BY <4>2
    <3> QED BY <1>1, <2>1, <3>1, <3>2
  <2> QED BY <2>1, <2>2, ToShow
<1>7. CASE FinishDocument
  <2>1. /\ pc = "merge"
        /\ \/ at = Len(jobs) /\ pc' = "done"
           \/ at # Len(jobs) /\ pc' = "read" /\ at' = at + 1
    BY <1>7 DEF FinishDocument
  <2>2. ASSUME AllTame
        PROVE  /\ at # Len(jobs) /\ WholeOf(jobs, at').ok =>
                     Sofar(jobs, threads, at', store', rows', merged', graphs', 0)
               /\ at = Len(jobs) => Ended(jobs, threads, Len(jobs), store', merged', graphs')
    <3>1. Said(at).ok
      <4>1. /\ at \in DOMAIN jobs /\ Len(jobs) \in Nat /\ DOMAIN jobs = 1 .. Len(jobs)
        BY DEF ParseInvariant, JobsRight
      <4>2. AllTame'
        BY <1>1, <2>2
      <4>3. CASE pc' = "done"
        <5>1. \A j \in DOMAIN jobs' : Said(j)'.ok
          BY <4>2, <4>3 DEF ParseInvariant
        <5>2. Said(at)'.ok /\ at' = at
          <6>1. at' = at
            BY <1>7, <2>1, <4>3 DEF FinishDocument
          <6> QED BY <1>1, <4>1, <5>1, <6>1
        <5> QED BY <1>1, <5>2
      <4>4. CASE at # Len(jobs) /\ pc' = "read" /\ at' = at + 1
        <5>1. \A j \in DOMAIN jobs' : j < at' => Parse(jobs'[j].doc.units).ok
          BY <4>2 DEF ParseInvariant, Said
        <5>2. at \in DOMAIN jobs' /\ at < at'
          BY <1>1, <4>1, <4>4
        <5> QED BY <1>1, <5>1, <5>2 DEF Said
      <4> QED BY <2>1, <4>3, <4>4
    <3>2. PICK x : MergeGoesOn(x)
      BY <1>1, <2>1, <2>2, <3>1, MergeKnown
    <3> QED BY <1>7, <3>2, FinishShown
  <2>3. CASE at = Len(jobs) /\ pc' = "done"
    BY <2>2, <2>3, ToShow
  <2>4. CASE at # Len(jobs) /\ pc' = "read" /\ at' = at + 1
    BY <2>2, <2>4, ToShow
  <2> QED BY <2>1, <2>3, <2>4
<1>8. CASE UNCHANGED vars
  <2>1. /\ UNCHANGED <<pc, at, split, chunks, parsed, store, rows, merged, graphs>>
        /\ Cut' = Cut /\ Job' = Job /\ Said(at)' = Said(at) /\ NextChunk' = NextChunk
    BY <1>1, <1>8 DEF vars, NextChunk
  <2>2. (ParsedWhole => ParsedWhole') /\ (Untouched => Untouched')
    BY <2>1 DEF ParsedWhole, Untouched
  <2>3. ASSUME NEW x, MergedTo(x) PROVE MergedTo(x)'
    BY <1>1, <2>1, <2>3 DEF MergedTo
  <2>4. AllTame =>
           /\ pc \in {"read", "parse"} /\ Said(at).ok =>
                 Sofar(jobs, threads, at, store, rows, merged, graphs, 0)
           /\ pc \in {"parse", "merge"} => split = IsSplit(Job.doc, threads)
           /\ pc = "parse" => ParsedWhole
           /\ pc = "merge" /\ Said(at).ok => Untouched /\ \E x : MergedTo(x)
           /\ pc = "done" => Ended(jobs, threads, Len(jobs), store, merged, graphs)
    BY DEF ShowInvariant
  <2>5. split' = split /\ IsSplit(Job.doc, threads)' = IsSplit(Job.doc, threads)
    BY <1>1, <2>1
  <2> QED BY <1>1, <2>1, <2>2, <2>3, <2>4, <2>5, ToShow
<1> QED BY <1>2, <1>3, <1>4, <1>5, <1>6, <1>7, <1>8 DEF Next

\* Rows that stand for the triples of some documents are their ids.
LEMMA DepictsTheTriples ==
    ASSUME NEW rs \in SUBSET Row, NEW terms, IsList(terms), Distinct(terms), NEW triples,
           Depicts(rs, terms, triples)
    PROVE  rs = {[c \in 1 .. 3 |-> Position(terms, t[c])] : t \in triples}
<1>1. ASSUME NEW r \in Row, NEW t, Stands(terms, r, t)
      PROVE  r = [c \in 1 .. 3 |-> Position(terms, t[c])]
  <2>1. r = [c \in 1 .. 3 |-> r[c]]
    BY DEF Row
  <2>2. \A c \in 1 .. 3 : r[c] \in DOMAIN terms /\ terms[r[c]] = t[c]
    BY <1>1 DEF Stands
  <2>3. \A c \in 1 .. 3 : Position(terms, t[c]) = r[c]
    BY <2>2, PositionOnce
  <2> QED BY <2>1, <2>3
<1> DEFINE ids(t) == [c \in 1 .. 3 |-> Position(terms, t[c])]
<1>2. ASSUME NEW r \in Row, NEW t, Stands(terms, r, t) PROVE r = ids(t)
  BY <1>1, <1>2
<1> HIDE DEF ids
<1>3. ASSUME NEW r \in rs PROVE r \in {ids(t) : t \in triples}
  BY <1>2 DEF Depicts
<1>4. ASSUME NEW t \in triples PROVE ids(t) \in rs
  <2>1. PICK r \in rs : Stands(terms, r, t)
    BY DEF Depicts
  <2>2. r = ids(t)
    BY <1>2, <2>1
  <2> QED BY <2>1, <2>2
<1>5. rs = {ids(t) : t \in triples}
  BY <1>3, <1>4
<1> QED BY <1>5 DEF ids

\* The invariant of what is loaded.
LEMMA LoadIsShown == Spec => []ShowInvariant
<1>1. ShowInvariant /\ ParseInvariant /\ ParseInvariant' /\ LoadInvariant /\ [Next]_vars
         => ShowInvariant'
  BY StepShown
<1> QED BY <1>1, InitShown, ParseIsRight, LoadIsRight, PTL DEF Spec

\* Whatever the documents, the number of cores and the order in which workers
\* are done, every term gets the id it has in the order of the text and every
\* graph the triples that its documents state.
THEOREM LoadsAsWritten == Spec => []LoadedAsWritten
<1>1. ShowInvariant /\ ParseInvariant /\ LoadInvariant => LoadedAsWritten
  <2> SUFFICES ASSUME ShowInvariant, ParseInvariant, LoadInvariant, pc = "done", AllTame
               PROVE  /\ Len(store.terms) = Len(AllTerms)
                      /\ \A for \in DOMAIN graphs : ToSet(graphs[for].spo) = Stated(for, AllTerms)
    BY DEF LoadedAsWritten
  <2> DEFINE n == Len(jobs)
             N == NodeNames(jobs, threads)
             terms == AllTerms
  <2>1. terms = MetBy(jobs)[n]
    BY DEF AllTerms
  <2>2. /\ Shows(store, N, terms)
        /\ \A for \in DOMAIN graphs : Depicts(ToSet(graphs[for].spo), terms, Told(jobs, for, n))
    BY <2>1 DEF ShowInvariant, Ended
  <2>3. n \in Nat /\ DOMAIN jobs = 1 .. n
    BY DEF ParseInvariant, JobsRight
  <2> HIDE DEF n, N, terms
  <2>4. IsList(terms) /\ Distinct(terms) /\ DOMAIN terms = DOMAIN store.terms
    BY <2>2 DEF Shows
  <2>5. Len(store.terms) = Len(terms)
    <3>1. IsList(store.terms)
      BY DEF LoadInvariant, StoreRight, Listed
    <3>2. /\ Len(terms) \in Nat /\ DOMAIN terms = 1 .. Len(terms)
          /\ Len(store.terms) \in Nat /\ DOMAIN store.terms = 1 .. Len(store.terms)
      BY <2>4, <3>1, LenProperties DEF IsList
    <3> DEFINE a == Len(terms)
               b == Len(store.terms)
    <3>3. a \in Nat /\ b \in Nat /\ 1 .. a = 1 .. b
      BY <2>4, <3>2
    <3> HIDE DEF a, b
    <3>4. a = b
      BY <3>3
    <3> QED BY <3>4 DEF a, b
  <2>6. ASSUME NEW for \in DOMAIN graphs
        PROVE  ToSet(graphs[for].spo) = Stated(for, terms)
    <3> DEFINE rs == ToSet(graphs[for].spo)
               triples == Told(jobs, for, n)
    <3>1. rs \in SUBSET Row
      <4>1. graphs[for].spo \in Seq(Row)
        BY DEF LoadInvariant, Indexed
      <4> QED BY <4>1, MembersOfSeq
    <3>2. Depicts(rs, terms, triples)
      BY <2>2
    <3> HIDE DEF rs, triples
    <3>3. rs = {[c \in 1 .. 3 |-> Position(terms, t[c])] : t \in triples}
      BY <2>4, <3>1, <3>2, DepictsTheTriples
    <3>4. triples = UNION {ToSet(StatedBy(jobs, j)) : j \in {j \in DOMAIN jobs : jobs[j].for = for}}
      BY <2>3 DEF triples, Told
    <3> DEFINE ids(t) == [c \in 1 .. 3 |-> Position(terms, t[c])]
               T(j) == ToSet(StatedBy(jobs, j))
               D == {j \in DOMAIN jobs : jobs[j].for = for}
    <3>5. rs = {ids(t) : t \in triples} /\ triples = UNION {T(j) : j \in D}
      BY <3>3, <3>4
    <3>6. Stated(for, terms) = UNION {{ids(t) : t \in T(j)} : j \in D}
      BY DEF Stated
    <3> HIDE DEF ids, T, D
    <3>7. {ids(t) : t \in triples} = UNION {{ids(t) : t \in T(j)} : j \in D}
      BY <3>5
    <3> QED BY <3>5, <3>6, <3>7 DEF rs
  <2> QED BY <2>5, <2>6 DEF terms
<1> QED BY <1>1, LoadIsShown, ParseIsRight, LoadIsRight, PTL
=============================================================================
