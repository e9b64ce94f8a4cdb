-------------------------------- MODULE Rules --------------------------------
(***************************************************************************)
(* SHACL-AF rules: one pass over the rules in execution order, and passes  *)
(* repeated until nothing new is inferred.                                 *)
(*                                                                         *)
(* A graph is a set of triples.  A shape targets the subjects of one       *)
(* predicate and object, unless its target is a query that cannot be run;  *)
(* a condition says whether its node has one such pair, and cannot be      *)
(* answered for some nodes.  The three components of a triple rule are     *)
(* expressions: the focus node, a constant, the values of a path of        *)
(* predicates, or a table of the nodes that it can be evaluated for; they  *)
(* are read in the graph the rule fires on.                                *)
(*                                                                         *)
(* An order is a set of at most one number: {} stands for NaN, which       *)
(* `sh:order "NaN"` parses to and which no comparison orders.              *)
(***************************************************************************)
EXTENDS Integers, Sequences, SequencesExt, TripleSets

CONSTANTS Iris,         \* the terms that may be a predicate
          Inputs        \* the calls: [data, shapes, max, rounds, iterated]

ASSUME IrisAssumption == Iris \subseteq Terms

IsSeq(seq) == seq \in Seq(ToSet(seq))

ExpressionOK(e) ==
    /\ e.kind \in {"this", "constant", "path", "table"}
    /\ e.kind = "constant" => e.of \in Terms
    /\ e.kind = "path" => IsSeq(e.via)
    /\ e.kind = "table" => \A n \in DOMAIN e.at : e.at[n] \subseteq Terms

ShapeOK(s) ==
    /\ IsSeq(s.rules) /\ s.off \in BOOLEAN /\ s.target.fails \in BOOLEAN
    /\ \A r \in ToSet(s.rules) :
          /\ ExpressionOK(r.subject) /\ ExpressionOK(r.predicate) /\ ExpressionOK(r.object)
          /\ r.off \in BOOLEAN /\ r.broken \in BOOLEAN
          /\ IsSeq(r.conditions) /\ \A c \in ToSet(r.conditions) : c.holds \in BOOLEAN

ASSUME InputsAssumption ==
    \A call \in Inputs :
        /\ call.data \subseteq Triple
        /\ IsSeq(call.shapes) /\ \A s \in ToSet(call.shapes) : ShapeOK(s)
        /\ call.max \in Nat /\ call.rounds \in Nat /\ call.iterated \in BOOLEAN

VARIABLES in,           \* the call under way
          before,       \* the graph this pass began with
          current,      \* the graph the rules of the level read
          work,         \* the entries still to run
          level,        \* the pair of orders being run
          pending,      \* what the level has pushed, repeats told apart
          rounds,       \* passes already finished
          status        \* "running", or how the call ended

vars == <<in, before, current, work, level, pending, rounds, status>>

-----------------------------------------------------------------------------
\* Orders.
Below(a, b) == \E x \in a, y \in b : x < y
Same(a, b)  == \E x \in a, y \in b : x = y

\* (shape order, rule order), compared lexicographically; what no comparison
\* orders counts as equal.
Precedes(p, q) ==
    \/ Below(p[1], q[1])
    \/ ~Below(q[1], p[1]) /\ Below(p[2], q[2])

SameLevel(p, q) == Same(p[1], q[1]) /\ Same(p[2], q[2])

Entry(s, r) == [shape |-> s, level |-> <<s.order, r.order>>]

\* The rules of a shape that are not switched off, by their places.
Active(s) == {i \in DOMAIN s.rules : ~s.rules[i].off}

\* A set of numbers from the least on: each place has the one with as many
\* below it.
Ascending(set) ==
    [k \in 1 .. Cardinality(set) |->
        CHOOSE i \in set : Cardinality({j \in set : j < i}) = k - 1]

\* One entry per rule, shape by shape.
Entries(shapes) ==
    LET one(s) == LET at == Ascending(Active(s))
                  IN  [k \in DOMAIN at |-> Entry(s, s.rules[at[k]])]
    IN  FlattenSeq([i \in DOMAIN shapes |->
            IF shapes[i].off THEN <<>> ELSE one(shapes[i])])

\* The stable insertion sort `sort_by` runs on a short list: an entry goes
\* after the last one it does not precede.
InsertEntry(sorted, e) ==
    LET stay == {i \in 0 .. Len(sorted) :
                    i = 0 \/ ~Precedes(e.level, sorted[i].level)}
        at   == CHOOSE i \in stay : \A j \in stay : j <= i
    IN  InsertAt(sorted, at + 1, e)

WorkList(shapes) ==
    LET entries == Entries(shapes)
        sorted[i \in 0 .. Len(entries)] ==
            IF i = 0 THEN <<>> ELSE InsertEntry(sorted[i - 1], entries[i])
    IN  sorted[Len(entries)]

-----------------------------------------------------------------------------
\* Firing.
Objects(g, s, p) == {t[3] : t \in {u \in g : u[1] = s /\ u[2] = p}}

Step(g, from, p) == UNION {Objects(g, s, p) : s \in from}

\* What a path of predicates leads to.
Reached(g, n, via) ==
    LET after[i \in 0 .. Len(via)] ==
            IF i = 0 THEN {n} ELSE Step(g, after[i - 1], via[i])
    IN  after[Len(via)]

\* nodeexpr::eval: an expression can be evaluated for a node, and its values.
Evaluates(e, n) == e.kind = "table" => n \in DOMAIN e.at

Values(e, n, g) ==
    CASE e.kind = "this"     -> {n}
      [] e.kind = "constant" -> {e.of}
      [] e.kind = "path"     -> Reached(g, n, e.via)
      [] e.kind = "table"    -> UNION {e.at[m] : m \in DOMAIN e.at \cap {n}}

\* node_conforms: a condition can be answered of a node, and the node conforms.
Holds(c, n, g) == n \notin c.faulty /\ ((<<n, c.pred, c.obj>> \in g) = c.holds)

\* conforms_to_all: conformance to every condition of the rule.
Conforms(r, n, g) == \A c \in ToSet(r.conditions) : Holds(c, n, g)

\* A condition that cannot be answered is an error, unless one before it has
\* said no.
Unanswered(r, n, g) ==
    \E i \in DOMAIN r.conditions :
        /\ n \in r.conditions[i].faulty
        /\ \A j \in 1 .. (i - 1) : Holds(r.conditions[j], n, g)

\* focus_nodes_of, of a target that can be selected.
Focus(s, g) == {n \in Terms : <<n, s.target.pred, s.target.obj>> \in g}

Inferred(r, n, g) ==
    Values(r.subject, n, g) \X (Values(r.predicate, n, g) \cap Iris)
        \X Values(r.object, n, g)

\* The rules an entry runs: every rule of its shape with its pair of orders,
\* so a pair of orders k rules share is run k times for each of them.
Run(e) ==
    {i \in Active(e.shape) :
        SameLevel(<<e.shape.order, e.shape.rules[i].order>>, e.level)}

FiringNodes(s, r, g) == {n \in Focus(s, g) : Conforms(r, n, g)}

\* What an entry pushes: the triples of each of its rules for each node, told
\* apart by the entries left to run, the rule and the node, since the list
\* they are pushed on keeps repeats.
Fired(e, g) ==
    UNION {UNION {{<<Len(work), i, n, t>> : t \in Inferred(e.shape.rules[i], n, g)} :
                     n \in FiringNodes(e.shape, e.shape.rules[i], g)} :
              i \in Run(e)}

\* The rule fails at a node: a condition cannot be answered; or it would fire,
\* and did not compile, or has an expression that cannot be evaluated there.
Faults(r, n, g) ==
    \/ Unanswered(r, n, g)
    \/ /\ Conforms(r, n, g)
       /\ \/ r.broken
          \/ \E e \in {r.subject, r.predicate, r.object} : ~Evaluates(e, n)

\* Mutant of Breaks: only the first rule of the entry is looked at.
Breaks_First(e, g) ==
    \/ e.shape.target.fails
    \/ \E i \in Run(e) : /\ \A j \in Run(e) : i <= j
                         /\ \E n \in Focus(e.shape, g) : Faults(e.shape.rules[i], n, g)

\* An entry is an error when its target cannot be selected, or one of its rules
\* fails at a node it selects.
Breaks(e, g) ==
    \/ e.shape.target.fails
    \/ \E i \in Run(e) : \E n \in Focus(e.shape, g) : Faults(e.shape.rules[i], n, g)

\* `merge`: nothing pending leaves the graph alone; otherwise the sum of both
\* lengths is held against the limit.
Fits(g, extra) ==
    extra = {} \/ Cardinality(g) + Cardinality(extra) <= in.max

Merged(g, extra) == g \cup {x[4] : x \in extra}

-----------------------------------------------------------------------------
FirstLevel(entries) ==
    IF entries = <<>> THEN <<{}, {}>> ELSE Head(entries).level

Init ==
    /\ in \in Inputs
    /\ before = in.data
    /\ current = in.data
    /\ work = WorkList(in.shapes)
    /\ level = FirstLevel(WorkList(in.shapes))
    /\ pending = {}
    /\ rounds = 0
    /\ status = IF in.iterated /\ in.rounds = 0 THEN "done" ELSE "running"

Entering == status = "running" /\ work # <<>>

\* Mutant of Within: a rule sees what its own level has inferred.
Within_SeesPending ==
    /\ Entering
    /\ SameLevel(Head(work).level, level)
    /\ LET seen == Merged(current, pending)
       IN  /\ ~Breaks(Head(work), seen)
           /\ pending' = pending \cup Fired(Head(work), seen)
    /\ work' = Tail(work)
    /\ UNCHANGED <<in, before, current, level, rounds, status>>

\* The next entry is on the level under way: it reads the graph the level
\* began with, not what is pending.
Within ==
    /\ Entering
    /\ SameLevel(Head(work).level, level)
    /\ ~Breaks(Head(work), current)
    /\ pending' = pending \cup Fired(Head(work), current)
    /\ work' = Tail(work)
    /\ UNCHANGED <<in, before, current, level, rounds, status>>

\* The next entry opens another level, which sees everything inferred so far.
Across ==
    /\ Entering
    /\ ~SameLevel(Head(work).level, level)
    /\ Fits(current, pending)
    /\ current' = Merged(current, pending)
    /\ ~Breaks(Head(work), current')
    /\ pending' = Fired(Head(work), current')
    /\ level' = Head(work).level
    /\ work' = Tail(work)
    /\ UNCHANGED <<in, before, rounds, status>>

Break ==
    /\ Entering
    /\ LET opens == ~SameLevel(Head(work).level, level)
       IN  /\ opens => Fits(current, pending)
           /\ Breaks(Head(work),
                     IF opens THEN Merged(current, pending) ELSE current)
    /\ status' = "broken"
    /\ UNCHANGED <<in, before, current, work, level, pending, rounds>>

Refuse ==
    /\ status = "running"
    /\ work # <<>> => ~SameLevel(Head(work).level, level)
    /\ ~Fits(current, pending)
    /\ status' = "refused"
    /\ UNCHANGED <<in, before, current, work, level, pending, rounds>>

PassEnds ==
    /\ status = "running"
    /\ work = <<>>
    /\ Fits(current, pending)

\* Mutant of Finish: the last level adding nothing is taken for a fixpoint.
Finish_LastLevel ==
    /\ PassEnds
    /\ in.iterated =>
           Cardinality(Merged(current, pending)) = Cardinality(current)
    /\ current' = Merged(current, pending)
    /\ pending' = {}
    /\ status' = "done"
    /\ UNCHANGED <<in, before, work, level, rounds>>

\* The end of the one pass of `apply`, or of a pass that added nothing.
Finish ==
    /\ PassEnds
    /\ in.iterated =>
           Cardinality(Merged(current, pending)) = Cardinality(before)
    /\ current' = Merged(current, pending)
    /\ pending' = {}
    /\ status' = "done"
    /\ UNCHANGED <<in, before, work, level, rounds>>

\* Mutant of Repeat: neither growth nor the number of rounds is looked at.
Repeat_Unbounded ==
    /\ PassEnds
    /\ in.iterated
    /\ current' = Merged(current, pending)
    /\ before' = current'
    /\ pending' = {}
    /\ work' = WorkList(in.shapes)
    /\ level' = FirstLevel(WorkList(in.shapes))
    /\ UNCHANGED <<in, rounds, status>>

\* Another pass over what this one produced, or an error when none is left.
Repeat ==
    /\ PassEnds
    /\ in.iterated
    /\ Cardinality(Merged(current, pending)) # Cardinality(before)
    /\ current' = Merged(current, pending)
    /\ before' = current'
    /\ pending' = {}
    /\ work' = WorkList(in.shapes)
    /\ level' = FirstLevel(WorkList(in.shapes))
    /\ rounds' = rounds + 1
    /\ status' = IF rounds + 1 = in.rounds THEN "endless" ELSE "running"
    /\ UNCHANGED in

Next == Within \/ Across \/ Break \/ Refuse \/ Finish \/ Repeat

Spec == Init /\ [][Next]_vars /\ WF_vars(Next)
=============================================================================
