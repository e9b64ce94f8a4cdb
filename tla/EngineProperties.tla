--------------------------- MODULE EngineProperties ---------------------------
(***************************************************************************)
(* What a run of the engine must do: follow the discipline of the          *)
(* recursion guard, report what the recursive reading of the shapes        *)
(* reports, in one piece or several, keep its verdict under a cap, come to *)
(* an end, and fail only for what is in the shapes.                        *)
(***************************************************************************)
EXTENDS EngineGuard, RecursiveForm

\* The report of a run without a cap is, result for result and in the same
\* order, the one the recursive form gives: deferring sh:property to a stack
\* of frames and sharing one visited set changes nothing (run_frames,
\* "Deferred rather than recursed").  The order is the traversal's, before the
\* report is sorted by content; pieces are put together in an order of their own.
ReportIsRecursive ==
    pc = "done" /\ in.max = {} /\ plan # "merged" => results = FullReport(in)

\* ValidationReport::conforms, judged by the severities the run was given; an
\* internal question, given none, asks whether there is any result at all.
Conforming(report) ==
    IF in.blocking = {}
    THEN report = <<>>
    ELSE \A sevs \in in.blocking : \A i \in 1..Len(report) :
            report[i].sev \notin IF sevs = {} THEN DefaultDisallows ELSE sevs

\* A capped run reports the first results the traversal meets, up to the one
\* that fills the cap, and everything when the cap is not reached; and the
\* verdict is that of the whole report ("stopping can never turn a graph that
\* does not conform into one that appears to", enough).  A cap of 0 is full
\* before anything is looked at: the report is empty, and conforms.
CapIsPrefix ==
    pc = "done" /\ in.max # {} =>
        \E n \in in.max, full \in {FullReport(in)} :
            /\ IsPrefix(results, full)
            /\ IF Blocking(full) < n
               THEN results = full
               ELSE Blocking(results) = n /\ (n > 0 => Blocks(Last(results)))
            /\ n > 0 => (Conforming(results) <=> Conforming(full))

\* Where is_focus_separable says yes, the report consists of what each focus
\* node has reported of it alone, order aside (the report is sorted by content):
\* however many threads worked on it, whatever the pieces and the order they
\* were done in (validate_roots_parallel, "the report is the sequential
\* report"), and for the pairs of validate_nodes, repeated or not ("a partial
\* report reads as a slice" of a full one).
PiecesAddUp ==
    pc = "done" /\ in.max = {} /\ IsFocusSeparable(in.graph) =>
        ToBag(results) = ToBag(PiecedReport(in))

\* sh:closed sh:ByTypes faults no predicate that some shape about the node's
\* classes declares or composes with, at any depth ("closing over only the
\* direct ones would reject what a composed shape plainly permits",
\* property_paths), as long as its walk was not cut off.
ComposedPermits ==
    pc = "done" =>
        \A r \in ToSet(results) : \A c \in ToSet(Defs[r.shape].constraints) :
            r.component = "closed" /\ c.kind = "closed" /\ c.byTypes =>
                LET about == AboutTypes(in.data, c, r.focus)
                    compose == [s \in Shapes |-> ToSet(Composed(s))]
                IN  (\A t \in about : PropertyPathsWalk(t).todo = <<>>) =>
                        r.path \cap UNION {DeclaredPaths(s) :
                                             s \in UNION {Closure(compose, t) : t \in about}} = {}

\* Every run ends, recursive shapes over cyclic data included.
Terminates == <>(pc \in {"done", "error"})
=============================================================================
