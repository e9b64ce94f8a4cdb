------------------------------- MODULE Engine -------------------------------
(***************************************************************************)
(* A run of the validation engine (validate.rs), step by step:             *)
(* validate_in_with works through the root shapes and the sh:shape entries *)
(* of the data, validate_nodes through the pairs it is given;              *)
(* validate_shape keeps an explicit stack of frames for sh:property and    *)
(* calls itself for the constraints that need an answer; all of them share *)
(* one Stack of visited pairs and stop early once enough blocking results  *)
(* are in hand.                                                            *)
(*                                                                         *)
(* A run with several threads whose focus sets may be validated in pieces  *)
(* (plan) first resolves the targets of every root shape.  If they are     *)
(* few, it goes on from the focus sets in hand; otherwise they are cut     *)
(* into pieces.  A worker has a store, a Stack and a result buffer of its  *)
(* own and writes nothing that another reads, so the pieces are worked     *)
(* off one at a time here, in any order.                                   *)
(*                                                                         *)
(* The calls of validate_shape that have not returned are in calls, each   *)
(* with the result buffer it fills; their frames lie on one stack, and     *)
(* base tells where a call's frames begin.  cur is where a frame stands in *)
(* the constraint it is evaluating: row, value, the answers about that     *)
(* value and how many values of the row counted so far.                    *)
(***************************************************************************)
EXTENDS ShapeEval

CONSTANTS
    Inputs,     \* the runs to consider: [data, graph, roots, byNode, work, threads, max, blocking]
    MaxDepth,   \* MAX_DEPTH
    MinFocus    \* PARALLEL_MIN_FOCUS

ASSUME DepthAssumption == MaxDepth \in Nat \ {0}
ASSUME FocusAssumption == MinFocus \in Nat \ {0}

\* What can be asked of a run: shapes of the graph, which holds every shape
\* that one of its shapes refers to, over nodes of the data.
InputOK(input) ==
    /\ DataOK(input.data)
    /\ input.graph \subseteq Shapes
    /\ \A s \in input.graph : Refs[s] \cup Defs[s].where \subseteq input.graph
    /\ input.roots \in Seq(input.graph)
    /\ input.byNode \in Seq([node: Nodes, shape: input.graph])
    /\ input.work \in Seq(input.graph \X Nodes)
    /\ input.threads \in Nat \ {0}

ASSUME InputsAssumption == \A input \in Inputs : InputOK(input)

DefaultDisallows == {"Violation", "Warning", "Info"}

VARIABLES
    in,         \* the run's input
    pc,         \* the driver: next, targets, validate, work, done, error
    plan,       \* sequential; or resolve, and then inHand or merged
    pieces,     \* pieces of work for the threads: [shape, focus, state, out]
    jobs,       \* shapes still to be validated by the driver: [shape, nodes]
    asks,       \* sh:targetWhere candidates of the first job still to be tested
    results,    \* the report, in traversal order
    calls,      \* validate_shape calls that have not returned: [base, out]
    frames,     \* their frames: [id, rows, next, mark, cur]
    pairs,      \* Stack::pairs
    seen,       \* Stack::seen
    depth,      \* Stack::depth
    failing     \* an error is on its way up

driver == <<plan, pieces, jobs, asks, results>>
guard == <<pairs, seen, depth>>
vars == <<in, pc, driver, calls, frames, guard, failing>>

-----------------------------------------------------------------------------

\* Mutant of Blocks: every result counts, whatever conformance is judged by.
Blocks_Any(r) == TRUE

\* Which results count: all of them for None, the default severities for an
\* empty list.  (max and blocking are options: a set of at most one element.)
Blocks(r) ==
    \A sevs \in in.blocking : r.sev \in IF sevs = {} THEN DefaultDisallows ELSE sevs
Blocking(out) == Len(SelectSeq(out, Blocks))

Enough(out) == \E n \in in.max : Blocking(out) >= n

\* The cut after the run: just behind the last result that was asked for.
Trim(out) ==
    IF Enough(out)
    THEN CHOOSE cut \in Prefixes(out) :
            /\ \E n \in in.max : Blocking(cut) = n
            /\ cut = <<>> \/ Blocks(Last(cut))
    ELSE out

\* focus_nodes before its sh:targetWhere part, and that part's candidates.
Job(s) == [shape |-> s, nodes |-> Defs[s].targets]
Candidates(s) ==
    LET all == Sorted(in.data.all)
        for(t) == [i \in 1..Len(all) |-> [shape |-> t, node |-> all[i]]]
    IN  FlattenSeq([i \in 1..Len(SetToSeq(Defs[s].where)) |-> for(SetToSeq(Defs[s].where)[i])])

\* The shapes whose focus nodes are given: those of validate_nodes, each with
\* all of its nodes, and those the data's nodes name themselves.
Grouped ==
    LET firsts == Sorted({i \in DOMAIN in.work :
                            \A j \in 1..(i - 1) : in.work[j][1] # in.work[i][1]})
    IN  [i \in DOMAIN firsts |->
            [shape |-> in.work[firsts[i]][1],
             nodes |-> {w[2] : w \in {w \in ToSet(in.work) : w[1] = in.work[firsts[i]][1]}}]]
Given ==
    Grouped \o [i \in DOMAIN in.byNode |-> [shape |-> in.byNode[i].shape,
                                           nodes |-> {in.byNode[i].node}]]

\* A job with targets to resolve is at the head of the line.
ToResolve == Len(jobs) > Len(Given)

\* validate_roots_parallel takes the run on.
Qualifies == in.threads >= 2 /\ in.max = {} /\ in.work = <<>> /\ IsFocusSeparable(in.graph)

Idle == [row |-> 0, val |-> 1, ans |-> <<>>, n |-> 0]
Start == [Idle EXCEPT !.row = 1]

Running == calls # <<>> /\ Len(frames) > Last(calls).base
Top == Last(frames)
Def == Defs[Top.id]
Constraint == Def.constraints[Top.next]
Row == Top.rows[Top.cur.row]

Between == Running /\ ~failing /\ Top.cur = Idle
Asked == Running /\ ~failing /\ Top.cur # Idle

Replace(seq, x) == Append(Front(seq), x)
WithTop(frame) == Replace(frames, frame)
Emit(found) == Replace(calls, [Last(calls) EXCEPT !.out = @ \o found])

-----------------------------------------------------------------------------

Init ==
    /\ in \in Inputs
    /\ pc = "next"
    /\ plan = IF Qualifies THEN "resolve" ELSE "sequential"
    /\ pieces = <<>>
    /\ jobs = [i \in DOMAIN in.roots |-> Job(in.roots[i])] \o Given
    /\ asks = <<>>
    /\ results = <<>>
    /\ calls = <<>>
    /\ frames = <<>>
    /\ pairs = <<>>
    /\ seen = {}
    /\ depth = 0
    /\ failing = FALSE

\* Mutant of Kept: the filter forgets the shape.
Kept_ByNode(s, focus) ==
    SelectSeq(focus, LAMBDA n : \A t \in Shapes : <<t, n>> \notin seen)

\* The focus nodes that are not being validated against s already.
Kept(s, focus) ==
    IF pairs = <<>>
    THEN focus
    ELSE FlattenSeq([i \in DOMAIN focus |->
             IF <<s, focus[i]>> \in seen THEN <<>> ELSE <<focus[i]>>])

\* push_frame, onto a stack of frames the caller may have changed: nothing when
\* no focus node is left, an error when its sh:values cannot be evaluated.
PushFrame(stack, s, focus) ==
    LET kept == Kept(s, focus)
        new == [id |-> s, rows |-> Rows(in.data, s, kept), next |-> 0,
                mark |-> Len(pairs), cur |-> Idle]
    IN  IF Defs[s].deactivated \/ kept = <<>>
        THEN frames' = stack /\ UNCHANGED <<pairs, seen, failing>>
        ELSE IF ~Valued(s, kept)
        THEN frames' = stack /\ failing' = TRUE /\ UNCHANGED <<pairs, seen>>
        ELSE /\ frames' = Append(stack, new)
             /\ pairs' = pairs \o [i \in 1..Len(kept) |-> <<s, kept[i]>>]
             /\ seen' = seen \cup {<<s, n>> : n \in ToSet(kept)}
             /\ UNCHANGED failing

\* Mutant of PopFrame: the hash set is not unwound with the vector.
PopFrame_KeepsSeen ==
    /\ frames' = Front(frames)
    /\ pairs' = SubSeq(pairs, 1, Top.mark)
    /\ UNCHANGED seen

\* A frame is popped: unwind drops the pairs above its mark, by value.
PopFrame ==
    /\ frames' = Front(frames)
    /\ seen' = seen \ {pairs[i] : i \in (Top.mark + 1)..Len(pairs)}
    /\ pairs' = SubSeq(pairs, 1, Top.mark)

\* validate_shape is called, to fill the buffer out.
Call(s, focus, out) ==
    IF depth >= MaxDepth
    THEN /\ failing' = TRUE
         /\ UNCHANGED <<calls, frames, guard>>
    ELSE /\ depth' = depth + 1
         /\ calls' = Append(calls, [base |-> Len(frames), out |-> out])
         /\ PushFrame(frames, s, focus)

-----------------------------------------------------------------------------
(* The driver: validate_in_with, validate_nodes. *)

\* The next shape's targets are to be found, and it has one that is a query
\* that cannot be run.
NoTargets ==
    /\ jobs # <<>> /\ ~Enough(results)
    /\ ToResolve /\ plan # "inHand"
    /\ Defs[jobs[1].shape].selector = "fails"

\* The error of the query is the run's.
TargetsFail ==
    /\ pc = "next"
    /\ NoTargets
    /\ pc' = "error"
    /\ UNCHANGED <<in, driver, calls, frames, guard, failing>>

\* The next shape is taken up, unless there is none or the cap is reached.
NextJob ==
    /\ pc = "next"
    /\ plan = "resolve" => ToResolve
    /\ ~NoTargets
    /\ IF jobs = <<>> \/ Enough(results)
       THEN /\ pc' = "done"
            /\ results' = Trim(results)
            /\ UNCHANGED asks
       ELSE /\ pc' = "targets"
            /\ asks' = IF ToResolve /\ plan # "inHand" THEN Candidates(jobs[1].shape) ELSE <<>>
            /\ UNCHANGED results
    /\ UNCHANGED <<in, plan, pieces, jobs, calls, frames, guard, failing>>

\* sh:targetWhere: does the next candidate conform?
TestTarget ==
    /\ pc = "targets" /\ calls = <<>> /\ ~failing
    /\ asks # <<>>
    /\ Call(Head(asks).shape, <<Head(asks).node>>, <<>>)
    /\ UNCHANGED <<in, pc, driver>>

\* The focus set is complete: the shape is validated, into the report.
ValidateRoot ==
    /\ pc = "targets" /\ calls = <<>> /\ ~failing
    /\ asks = <<>>
    /\ plan # "resolve"
    /\ pc' = "validate"
    /\ Call(jobs[1].shape, Sorted(jobs[1].nodes), results)
    /\ UNCHANGED <<in, driver>>

-----------------------------------------------------------------------------
(* The parallel split: validate_roots_parallel. *)

Piece(s, focus) == [shape |-> s, focus |-> focus, state |-> "waiting", out |-> <<>>]

\* The focus set of a root shape is kept for later.
Resolved ==
    /\ pc = "targets" /\ calls = <<>> /\ ~failing
    /\ asks = <<>>
    /\ plan = "resolve"
    /\ pieces' = Append(pieces, Piece(jobs[1].shape, Sorted(jobs[1].nodes)))
    /\ jobs' = Tail(jobs)
    /\ pc' = "next"
    /\ UNCHANGED <<in, plan, asks, results, calls, frames, guard, failing>>

Total == Len(FlattenSeq([i \in DOMAIN pieces |-> pieces[i].focus]))
PerTask == (Total + in.threads - 1) \div in.threads

\* Mutant of Chunks: what is left over at the end of a focus set is not a piece.
Chunks_Exact(piece) ==
    [k \in 1..(Len(piece.focus) \div PerTask) |->
        Piece(piece.shape, SubSeq(piece.focus, (k - 1) * PerTask + 1, k * PerTask))]

\* A focus set in slices of PerTask nodes, the last of them maybe shorter.
Chunks(piece) ==
    LET last(k) == IF k * PerTask < Len(piece.focus) THEN k * PerTask ELSE Len(piece.focus)
    IN  [k \in 1..((Len(piece.focus) + PerTask - 1) \div PerTask) |->
            Piece(piece.shape, SubSeq(piece.focus, (k - 1) * PerTask + 1, last(k)))]

\* Few focus nodes are validated right away, from the sets in hand.
Keep ==
    /\ pc = "next" /\ plan = "resolve" /\ ~ToResolve
    /\ Total < MinFocus
    /\ plan' = "inHand"
    /\ jobs' = [i \in DOMAIN pieces |->
                    [shape |-> pieces[i].shape, nodes |-> ToSet(pieces[i].focus)]] \o jobs
    /\ pieces' = <<>>
    /\ UNCHANGED <<in, pc, asks, results, calls, frames, guard, failing>>

Split ==
    /\ pc = "next" /\ plan = "resolve" /\ ~ToResolve
    /\ Total >= MinFocus
    /\ pieces' = FlattenSeq([i \in DOMAIN pieces |-> Chunks(pieces[i])])
    /\ pc' = "work"
    /\ UNCHANGED <<in, plan, jobs, asks, results, calls, frames, guard, failing>>

\* A worker takes a piece up, with an empty Stack and buffer.
Work ==
    /\ pc = "work" /\ calls = <<>>
    /\ \E i \in DOMAIN pieces :
          /\ pieces[i].state = "waiting"
          /\ pieces' = [pieces EXCEPT ![i].state = "running"]
          /\ Call(pieces[i].shape, pieces[i].focus, <<>>)
    /\ UNCHANGED <<in, pc, plan, jobs, asks, results>>

\* The piece in hand is through, with these results or an error.
PieceDone(state, out) ==
    pieces' = [i \in DOMAIN pieces |->
                  IF pieces[i].state = "running"
                  THEN [pieces[i] EXCEPT !.state = state, !.out = out]
                  ELSE pieces[i]]

\* The outcomes are put together in the order of the pieces.
Merge ==
    /\ pc = "work" /\ calls = <<>>
    /\ \A i \in DOMAIN pieces : pieces[i].state \in {"done", "failed"}
    /\ IF \E i \in DOMAIN pieces : pieces[i].state = "failed"
       THEN pc' = "error" /\ UNCHANGED <<plan, results>>
       ELSE /\ pc' = "next"
            /\ plan' = "merged"
            /\ results' = FlattenSeq([i \in DOMAIN pieces |-> pieces[i].out])
    /\ pieces' = <<>>
    /\ UNCHANGED <<in, jobs, asks, calls, frames, guard, failing>>

-----------------------------------------------------------------------------
(* The frames: run_frames. *)

\* The top frame is finished, or its buffer holds enough.
FrameDone ==
    /\ Between
    /\ Enough(Last(calls).out) \/ Top.next = Len(Def.constraints)
    /\ PopFrame
    /\ UNCHANGED <<in, pc, driver, calls, depth, failing>>

\* The next constraint of the top frame, taken up when there is still need.
Upcoming(kinds) ==
    /\ Between
    /\ ~Enough(Last(calls).out)
    /\ Top.next < Len(Def.constraints)
    /\ Def.constraints[Top.next + 1].kind \in kinds

Advanced == [Top EXCEPT !.next = @ + 1]

\* sh:property: a frame for the values of all rows.
Descend ==
    /\ Upcoming({"property"})
    /\ PushFrame(WithTop(Advanced), Def.constraints[Top.next + 1].shape, AllValues(Top.rows))
    /\ UNCHANGED <<in, pc, driver, calls, depth>>

\* A constraint that needs no other shape.
Check ==
    /\ Upcoming(DirectKinds)
    /\ ~CannotRun(Def.constraints[Top.next + 1], Top.rows)
    /\ frames' = WithTop(Advanced)
    /\ calls' = Emit(Direct(in.data, Top.id, Def.constraints[Top.next + 1], Top.rows))
    /\ UNCHANGED <<in, pc, driver, guard, failing>>

\* A query that cannot be run, an expression that cannot be evaluated.
Fail ==
    /\ Upcoming(DirectKinds)
    /\ CannotRun(Def.constraints[Top.next + 1], Top.rows)
    /\ frames' = WithTop(Advanced)
    /\ failing' = TRUE
    /\ UNCHANGED <<in, pc, driver, calls, guard>>

\* A constraint that asks other shapes.
Begin ==
    /\ Upcoming(Asking)
    /\ frames' = WithTop([Advanced EXCEPT
                             !.cur = IF Skipped(Top.id, Def.constraints[Top.next + 1])
                                     THEN Idle ELSE Start])
    /\ UNCHANGED <<in, pc, driver, calls, guard, failing>>

-----------------------------------------------------------------------------
(* Questions and answers: the asking arms of eval. *)

InRow == Top.cur.val <= Len(Row.values)
Value == Row.values[Top.cur.val]
Pending == Questions(in.data, Top.id, Constraint, Row.focus, Value)
Open == ~Settled(Constraint, Top.cur.ans) /\ Len(Top.cur.ans) < Len(Pending)

\* The expression that should name the shapes to ask cannot be evaluated.
NoQuestions ==
    /\ Asked /\ InRow
    /\ ~Expressible(Constraint, Value)
    /\ failing' = TRUE
    /\ UNCHANGED <<in, pc, driver, calls, frames, guard>>

\* The next question about the value: a nested call with a buffer of its own.
Ask ==
    /\ Asked /\ InRow
    /\ Expressible(Constraint, Value) /\ Open
    /\ LET q == Pending[Len(Top.cur.ans) + 1] IN Call(q.shape, q.focus, <<>>)
    /\ UNCHANGED <<in, pc, driver>>

\* All that is needed about the value is known.
Judge ==
    /\ Asked /\ InRow
    /\ Expressible(Constraint, Value) /\ ~Open
    /\ LET ans == Top.cur.ans
           counted == Counted(Constraint, ans)
           \* sh:someValue looks no further once a value counts.
           val == IF Constraint.kind = "some" /\ counted
                  THEN Len(Row.values) + 1
                  ELSE Top.cur.val + 1
           n == IF counted THEN Top.cur.n + 1 ELSE Top.cur.n
       IN  /\ frames' = WithTop([Top EXCEPT !.cur = [row |-> Top.cur.row, val |-> val,
                                                     ans |-> <<>>, n |-> n]])
           /\ calls' = Emit(AboutValue(Top.id, Constraint, Row.focus, Value, ans))
    /\ UNCHANGED <<in, pc, driver, guard, failing>>

\* The row is through: on to the next one, or done with the constraint.
CloseRow ==
    /\ Asked /\ ~InRow
    /\ calls' = Emit(AboutRow(Top.id, Constraint, Row.focus, Top.cur.n))
    /\ frames' = WithTop([Top EXCEPT !.cur = IF Top.cur.row < Len(Top.rows)
                                             THEN [Start EXCEPT !.row = Top.cur.row + 1]
                                             ELSE Idle])
    /\ UNCHANGED <<in, pc, driver, guard, failing>>

-----------------------------------------------------------------------------
(* The end of a call. *)

\* On the way out of an error the frames still standing are dropped.
Drop ==
    /\ Running /\ failing
    /\ PopFrame
    /\ UNCHANGED <<in, pc, driver, calls, depth, failing>>

Returning == calls # <<>> /\ Len(frames) = Last(calls).base

\* What the caller makes of a buffer that stayed empty, or did not.
Answer(conforms) ==
    IF frames # <<>>
    THEN /\ frames' = WithTop([Top EXCEPT !.cur.ans = Append(@, conforms)])
         /\ UNCHANGED <<pc, driver>>
    ELSE IF pc = "targets"
    THEN /\ asks' = Tail(asks)
         /\ jobs' = IF conforms
                    THEN [jobs EXCEPT ![1].nodes = @ \cup {Head(asks).node}]
                    ELSE jobs
         /\ UNCHANGED <<pc, plan, pieces, frames, results>>
    ELSE IF pc = "work"
    THEN /\ PieceDone("done", Last(calls).out)
         /\ UNCHANGED <<pc, plan, jobs, asks, results, frames>>
    ELSE /\ pc' = "next"
         /\ jobs' = Tail(jobs)
         /\ results' = Last(calls).out
         /\ UNCHANGED <<plan, pieces, asks, frames>>

\* An error goes to the caller; the last one is the driver, or a worker.
Throw ==
    /\ failing' = (Len(calls) > 1)
    /\ IF Len(calls) = 1 /\ pc = "work"
       THEN PieceDone("failed", <<>>) /\ UNCHANGED pc
       ELSE pc' = (IF Len(calls) > 1 THEN pc ELSE "error") /\ UNCHANGED pieces
    /\ UNCHANGED <<plan, jobs, asks, results, frames>>

\* Mutant of Return: the level is not given back.
Return_KeepsDepth ==
    /\ Returning
    /\ calls' = Front(calls)
    /\ IF failing
       THEN Throw
       ELSE Answer(Last(calls).out = <<>>) /\ UNCHANGED failing
    /\ UNCHANGED <<in, guard>>

\* Mutant of Return: an error is dropped instead of handed to the driver.
Return_Swallows ==
    /\ Returning
    /\ calls' = Front(calls)
    /\ depth' = depth - 1
    /\ IF failing
       THEN UNCHANGED <<driver, frames, pc>> /\ failing' = (Len(calls) > 1)
       ELSE Answer(Last(calls).out = <<>>) /\ UNCHANGED failing
    /\ UNCHANGED <<in, pairs, seen>>

Return ==
    /\ Returning
    /\ calls' = Front(calls)
    /\ depth' = depth - 1
    /\ IF failing
       THEN Throw
       ELSE Answer(Last(calls).out = <<>>) /\ UNCHANGED failing
    /\ UNCHANGED <<in, pairs, seen>>

Next ==
    \/ NextJob \/ TargetsFail \/ TestTarget \/ ValidateRoot
    \/ Resolved \/ Keep \/ Split \/ Work \/ Merge
    \/ FrameDone \/ Descend \/ Check \/ Fail \/ Begin
    \/ NoQuestions \/ Ask \/ Judge \/ CloseRow
    \/ Drop \/ Return

\* One thread runs to the end; it is scheduled as long as it has a step.
Spec == Init /\ [][Next]_vars /\ WF_vars(Next)
=============================================================================
