----------------------------- MODULE CycleSearch -----------------------------
(***************************************************************************)
(* Shapes::has_cycle: whether any shape reaches itself through the shapes  *)
(* it refers to, by a three-colour depth-first search on an explicit stack *)
(* of (shape, next child).  A shape is white until it is in grey or black. *)
(***************************************************************************)
EXTENDS Naturals, Sequences, FiniteSets

VARIABLES
    children,   \* referenced_shapes of every shape, in order
    start,      \* the shape the outer loop stands at
    stack,      \* the path being followed: [at, next]
    grey,       \* shapes on that path
    black,      \* shapes that are done
    answer      \* none, cycle, acyclic

search == <<start, stack, grey, black, answer>>
vars == <<children, search>>

Shapes == DOMAIN children
Top == stack[Len(stack)]
Below == SubSeq(stack, 1, Len(stack) - 1)

InitSearch ==
    /\ start = 1
    /\ stack = <<>>
    /\ grey = {}
    /\ black = {}
    /\ answer = "none"

Searching == answer = "none"

\* The outer loop: the next shape, followed if it is white.
NextStart ==
    /\ Searching /\ stack = <<>>
    /\ start \in Shapes
    /\ start' = start + 1
    /\ IF start \in grey \cup black
       THEN UNCHANGED <<stack, grey>>
       ELSE /\ grey' = grey \cup {start}
            /\ stack' = <<[at |-> start, next |-> 1]>>
    /\ UNCHANGED <<children, black, answer>>

\* Mutant of FollowChild: a shape that was met before is taken for an ancestor.
FollowChild_AnyMet ==
    /\ Searching /\ stack # <<>>
    /\ Top.next <= Len(children[Top.at])
    /\ LET child == children[Top.at][Top.next]
           advanced == Append(Below, [Top EXCEPT !.next = @ + 1])
       IN  IF child \in grey \cup black
           THEN /\ answer' = "cycle"
                /\ stack' = advanced
                /\ UNCHANGED grey
           ELSE /\ grey' = grey \cup {child}
                /\ stack' = Append(advanced, [at |-> child, next |-> 1])
                /\ UNCHANGED answer
    /\ UNCHANGED <<children, start, black>>

\* The top shape's next child: grey closes a cycle, white is followed.
FollowChild ==
    /\ Searching /\ stack # <<>>
    /\ Top.next <= Len(children[Top.at])
    /\ LET child == children[Top.at][Top.next]
           advanced == Append(Below, [Top EXCEPT !.next = @ + 1])
       IN  \/ /\ child \in grey
              /\ answer' = "cycle"
              /\ stack' = advanced
              /\ UNCHANGED grey
           \/ /\ child \in black
              /\ stack' = advanced
              /\ UNCHANGED <<grey, answer>>
           \/ /\ child \notin grey \cup black
              /\ grey' = grey \cup {child}
              /\ stack' = Append(advanced, [at |-> child, next |-> 1])
              /\ UNCHANGED answer
    /\ UNCHANGED <<children, start, black>>

\* The top shape has no child left.
CloseShape ==
    /\ Searching /\ stack # <<>>
    /\ Top.next > Len(children[Top.at])
    /\ grey' = grey \ {Top.at}
    /\ black' = black \cup {Top.at}
    /\ stack' = Below
    /\ UNCHANGED <<children, start, answer>>

\* Every shape was followed.
NoneLeft ==
    /\ Searching /\ stack = <<>>
    /\ start \notin Shapes
    /\ answer' = "acyclic"
    /\ UNCHANGED <<children, start, stack, grey, black>>

NextSearch == NextStart \/ FollowChild \/ CloseShape \/ NoneLeft
=============================================================================
