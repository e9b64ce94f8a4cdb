----------------------------- MODULE EngineGuard -----------------------------
(***************************************************************************)
(* What a run of the engine does with the recursion guard: its frames and  *)
(* calls, seen without what they evaluate, follow DescentStack step for    *)
(* step; and the errors it ends with are the ones the guard, or what is    *)
(* evaluated for a shape, gives a reason for.                              *)
(***************************************************************************)
EXTENDS Engine

CONSTANT FocusSets  \* the focus sets the guard is asked about

\* The frames and the calls as the guard knows them.
Standing(stack) == [i \in 1..Len(stack) |-> [id |-> stack[i].id, mark |-> stack[i].mark]]
Bases(open) == [i \in 1..Len(open) |-> open[i].base]

Guard == INSTANCE DescentStack WITH frames <- Standing(frames), bases <- Bases(calls)

\* Every step of the engine is a step of the recursion guard, or none of its
\* business: nested calls, property descents, early stops and errors all push
\* and unwind visited pairs the way DescentStack does.
FollowsGuard == Guard!Spec

-----------------------------------------------------------------------------

\* The shapes a run starts from: its roots, what their sh:targetWhere names and
\* those whose focus nodes are given.
Entered ==
    LET roots == ToSet(in.roots)
    IN  roots \cup (UNION {Defs[s].where : s \in roots}) \cup {Given[i].shape : i \in DOMAIN Given}

\* The shapes that a shape asks for an answer.
AskedBy(s) == UNION {Named(c) : c \in {c \in ToSet(Defs[s].constraints) : c.kind \in Asking}}

\* The shapes that are entered n calls below one the run starts from: each of
\* those calls asks for an answer, with any number of property descents before.
Nested[n \in 0..MaxDepth] ==
    IF n = 0
    THEN Entered
    ELSE UNION {AskedBy(s) : s \in UNION {Closure(Refs, t) : t \in Nested[n - 1]}}

\* A run fails only for a reason that is in the shapes: a query or a node
\* expression that some node has no answer from (a SPARQL target, sh:values, a
\* constraint that is evaluated), or questions that nest past the limit.
\* However long the chain of data a recursive property shape walks, it does not
\* fail for it (validate_shape: "a recursive shape following a chain spends one
\* frame per link"; the comment on MAX_DEPTH, "a chain of 47 links is refused",
\* is about the recursion that the stack of frames replaced).
ErrorsHaveAReason ==
    pc = "error" => (\E s \in in.graph : CanFail(s)) \/ Nested[MaxDepth] # {}
=============================================================================
