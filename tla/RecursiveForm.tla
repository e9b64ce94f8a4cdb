---------------------------- MODULE RecursiveForm ----------------------------
(***************************************************************************)
(* What the engine promises, written the way validate_shape read before    *)
(* its descent moved to an explicit stack: a recursive function from a     *)
(* shape, its focus nodes and the pairs that are being validated around it *)
(* to the results, in order.  No frames, no marks, nothing to unwind: the  *)
(* visited pairs are an argument, and what a call adds is gone when it     *)
(* returns.  There is no cap and no depth limit either, and it is the      *)
(* report of runs in which no query and no expression fails.               *)
(***************************************************************************)
EXTENDS ShapeEval

RECURSIVE Report(_, _, _, _)

\* Does the question find nothing?
Conforms(data, q, visited) == Report(data, q.shape, q.focus, visited) = <<>>

\* The answers to a constraint's questions, as far as they are put.
Answers(data, c, questions, visited) ==
    LET RECURSIVE From(_)
        From(ans) ==
            IF Settled(c, ans) \/ Len(ans) = Len(questions)
            THEN ans
            ELSE From(Append(ans, Conforms(data, questions[Len(ans) + 1], visited)))
    IN  From(<<>>)

\* The results of one asking constraint about one row.
AskRow(data, s, c, row, visited) ==
    LET answers == [i \in 1..Len(row.values) |->
                        Answers(data, c, Questions(data, s, c, row.focus, row.values[i]), visited)]
        found(i) == AboutValue(s, c, row.focus, row.values[i], answers[i])
        counted == {i \in 1..Len(row.values) : Counted(c, answers[i])}
    IN  FlattenSeq([i \in 1..Len(row.values) |-> found(i)])
          \o AboutRow(s, c, row.focus, Cardinality(counted))

\* validate_shape(s, focus), within the pairs that are being validated.
Report(data, s, focus, visited) ==
    LET kept == SelectSeq(focus, LAMBDA n : <<s, n>> \notin visited)
        within == visited \cup {<<s, n>> : n \in ToSet(kept)}
        rows == Rows(data, s, kept)
        Part(c) ==
            CASE c.kind = "property" -> Report(data, c.shape, AllValues(rows), within)
              [] c.kind \in Asking ->
                    IF Skipped(s, c) THEN <<>>
                    ELSE FlattenSeq([i \in 1..Len(rows) |-> AskRow(data, s, c, rows[i], within)])
              [] OTHER -> Direct(data, s, c, rows)
    IN  IF Defs[s].deactivated \/ kept = <<>>
        THEN <<>>
        ELSE FlattenSeq([i \in 1..Len(Defs[s].constraints) |-> Part(Defs[s].constraints[i])])

-----------------------------------------------------------------------------

\* focus_nodes: fixed targets, and every node that conforms to a where-shape.
FocusNodes(data, s) ==
    Sorted(Defs[s].targets \cup
           {n \in data.all : \E t \in Defs[s].where : Report(data, t, <<n>>, {}) = <<>>})

\* What there is to validate: root shapes in order, the pairs given shape by
\* shape, and the nodes naming their shape.
Jobs(in) ==
    LET nodesOf(s) == {w[2] : w \in {w \in ToSet(in.work) : w[1] = s}}
        firsts == SelectSeq([i \in DOMAIN in.work |-> i],
                            LAMBDA i : \A j \in 1..(i - 1) : in.work[j][1] # in.work[i][1])
        job(s, nodes) == [shape |-> s, focus |-> nodes]
    IN  [i \in DOMAIN in.roots |-> job(in.roots[i], FocusNodes(in.data, in.roots[i]))]
          \o [i \in DOMAIN firsts |->
                LET s == in.work[firsts[i]][1] IN job(s, Sorted(nodesOf(s)))]
          \o [i \in DOMAIN in.byNode |-> job(in.byNode[i].shape, <<in.byNode[i].node>>)]

\* The same, each focus node by itself.
Singly(jobs) ==
    FlattenSeq([i \in DOMAIN jobs |->
        [k \in DOMAIN jobs[i].focus |-> [jobs[i] EXCEPT !.focus = <<@[k]>>]]])

Reported(data, jobs) ==
    FlattenSeq([i \in DOMAIN jobs |-> Report(data, jobs[i].shape, jobs[i].focus, {})])

\* The whole report, and what each focus node has reported of it alone, put
\* together.
FullReport(in) == Reported(in.data, Jobs(in))
PiecedReport(in) == Reported(in.data, Singly(Jobs(in)))
=============================================================================
