--------------------------- MODULE PathProperties ---------------------------
(***************************************************************************)
(* What walking a path must come to: the relation the shapes graph         *)
(* describes, read as an algebra of relations, without batches, frontiers  *)
(* or compiled paths.                                                      *)
(***************************************************************************)
EXTENDS PathWalk

Terms == UNION {{t[1], t[3]} : t \in data} \cup ToSet(focus)

Same == {<<n, n>> : n \in Terms}
Converse(R) == {<<y[2], y[1]>> : y \in R}
Compose(R, S) == {<<x[1], y[2]>> : <<x, y>> \in {<<x, y>> \in R \X S : x[2] = y[1]}}
TransitiveClosure(R) ==
    LET grown[S \in SUBSET (Terms \X Terms)] ==
            LET more == S \cup Compose(S, R) IN IF more = S THEN S ELSE grown[more]
    IN  grown[R]

\* The relation a node of the shapes graph describes.
RECURSIVE Describes(_)
Describes(n) ==
    LET first(p) == CHOOSE t \in Object(n, p) : TRUE
        has(p) == Object(n, p) # {}
    IN  IF n \in g.iris THEN {<<t[1], t[3]>> : t \in {u \in data : u[2] = n}}
        ELSE IF has("first")
        THEN FoldLeft(LAMBDA R, m : Compose(R, Describes(m)), Same, Members(n))
        ELSE IF has("inversePath") THEN Converse(Describes(first("inversePath")))
        ELSE IF has("alternativePath")
        THEN UNION {Describes(m) : m \in ToSet(Members(first("alternativePath")))}
        ELSE IF has("zeroOrMorePath")
        THEN Same \cup TransitiveClosure(Describes(first("zeroOrMorePath")))
        ELSE IF has("oneOrMorePath") THEN TransitiveClosure(Describes(first("oneOrMorePath")))
        ELSE Same \cup Describes(first("zeroOrOnePath"))

Operators == {"inversePath", "zeroOrMorePath", "oneOrMorePath", "zeroOrOnePath"}
IsListed(n) == Object(n, "first") # {}

\* The nodes a node is made of: the members of its list, or its operands.
Parts(n) ==
    IF n \in g.iris \cup DOMAIN g.lex THEN {}
    ELSE IF IsListed(n) THEN ToSet(Members(n))
    ELSE UNION {ToSet(Members(h)) : h \in Object(n, "alternativePath")}
           \cup UNION {Object(n, p) : p \in Operators}

Below(depth) ==
    LET at[d \in Nat] == IF d = 0 THEN {root} ELSE UNION {Parts(n) : n \in at[d - 1]}
    IN  at[depth]

\* A node that is no path whatever it is made of.
NoPath(n) ==
    \/ n \in DOMAIN g.lex
    \/ IsListed(n) /\ Len(Members(n)) < 2
    \/ /\ n \notin g.iris /\ ~IsListed(n)
       /\ \A p \in Operators : Object(n, p) = {}
       /\ \A h \in Object(n, "alternativePath") : Len(Members(h)) < 2

-----------------------------------------------------------------------------
(* Properties. *)

\* A finished walk has one row for every position of the focus list, in its
\* order, with exactly what the described relation, or its converse, relates
\* that one node to: origins that share a batch, a probe or a closure do not
\* leak into each other, and a focus node listed twice keeps two rows.
RowsAreImages ==
    pc = "done" =>
        \E relation \in {IF reverse THEN Converse(Describes(root)) ELSE Describes(root)} :
            Rows(b) = [i \in DOMAIN focus |->
                          [focus |-> focus[i],
                           values |-> InOrder({y[2] : y \in {x \in relation : x[1] = focus[i]}})]]

\* A path is refused exactly when something it is made of is no path or lies
\* deeper than the limit: a blank node that contains itself is refused, and
\* nothing that is well formed is.
RefusedForAReason ==
    LET bad == \/ \E d \in 0..MaxPathDepth : \E n \in Below(d) : NoPath(n)
               \/ Below(MaxPathDepth + 1) # {}
    IN  /\ pc = "refused" => bad
        /\ pc = "done" => ~bad

\* A walk ends on cyclic data, under closures within closures too.
Ends == pc = "compile" ~> pc \in {"refused", "done"}
=============================================================================
