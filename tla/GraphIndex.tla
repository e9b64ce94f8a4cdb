----------------------------- MODULE GraphIndex -----------------------------
(***************************************************************************)
(* A graph as three sorted arrays of rows, each with the offsets at which  *)
(* the rows of one leading term begin (graph.rs).  Terms are their ids.    *)
(***************************************************************************)
EXTENDS Naturals, Sequences, FiniteSets, SequencesExt

Precedes(q, r) ==
    \E i \in 1..3 : q[i] < r[i] /\ \A j \in 1..(i - 1) : q[j] = r[j]

\* sort_unstable and dedup.
Sorted(rows) ==
    [i \in 1..Cardinality(rows) |->
        CHOOSE r \in rows : Cardinality({q \in rows : Precedes(q, r)}) = i - 1]

\* Starts::build: starts[i] is the number of rows led by a term before
\* base + i - 1, for each term from the first to the last, and one past it.
Starts(rows) ==
    IF rows = <<>> THEN [base |-> 0, starts |-> <<>>]
    ELSE LET base == rows[1][1]
             last == rows[Len(rows)][1]
         IN  [base |-> base,
              starts |-> [i \in 1..(last - base + 2) |->
                             Cardinality({k \in DOMAIN rows : rows[k][1] < base + i - 1})]]

\* GraphBuilder::build.
Built(rows) ==
    LET spo == Sorted(ToSet(rows))
        pos == Sorted({<<r[2], r[3], r[1]>> : r \in ToSet(spo)})
        osp == Sorted({<<r[3], r[1], r[2]>> : r \in ToSet(spo)})
    IN  [spo |-> spo, pos |-> pos, osp |-> osp, spoStarts |-> Starts(spo),
         posStarts |-> Starts(pos), ospStarts |-> Starts(osp)]

\* Mutant of Run: the last leading term is taken for one past the end.
Run_ShortOfLast(index, rows, a) ==
    LET i == a - index.base + 1
    IN  IF a < index.base \/ i + 2 > Len(index.starts) THEN <<>>
        ELSE SubSeq(rows, index.starts[i] + 1, index.starts[i + 1])

\* Starts::run: the rows led by a.
Run(index, rows, a) ==
    LET i == a - index.base + 1
    IN  IF a < index.base \/ i + 1 > Len(index.starts) THEN <<>>
        ELSE SubSeq(rows, index.starts[i] + 1, index.starts[i + 1])

\* prefix2: two partition points of a run.
Prefix2(run, b) ==
    LET lo == Cardinality({k \in DOMAIN run : run[k][2] < b})
        hi == Cardinality({k \in DOMAIN run : run[k][2] <= b})
    IN  SubSeq(run, lo + 1, hi)

Column(rows, c) == [k \in DOMAIN rows |-> rows[k][c]]

Objects(graph, s, p) == Column(Prefix2(Run(graph.spoStarts, graph.spo, s), p), 3)
Subjects(graph, p, o) == Column(Prefix2(Run(graph.posStarts, graph.pos, p), o), 3)
SubjectsOf(graph, p) == Column(Run(graph.posStarts, graph.pos, p), 3)
ObjectsOf(graph, p) == Column(Run(graph.posStarts, graph.pos, p), 2)
PredicateObjects(graph, s) ==
    LET run == Run(graph.spoStarts, graph.spo, s)
    IN  [k \in DOMAIN run |-> <<run[k][2], run[k][3]>>]
SubjectPredicates(graph, o) ==
    LET run == Run(graph.ospStarts, graph.osp, o)
    IN  [k \in DOMAIN run |-> <<run[k][2], run[k][3]>>]
ContainsTriple(graph, s, p, o) == <<s, p, o>> \in ToSet(Run(graph.spoStarts, graph.spo, s))
HasSubject(graph, s) == Run(graph.spoStarts, graph.spo, s) # <<>>
=============================================================================
