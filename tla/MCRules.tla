------------------------------ MODULE MCRules ------------------------------
(***************************************************************************)
(* Two nodes linked in a chain to a third, three classes, and the rules    *)
(* that tell levels apart: one that types what a shape targets, one that   *)
(* reacts to that type, one that reacts to its absence, one that follows   *)
(* two links; and what cannot be done: a rule that did not compile, a      *)
(* condition or an expression that fails at a node, a target.              *)
(***************************************************************************)
EXTENDS RuleProperties

MCIris == {"type", "sub"}
MCTerms == {"a", "b", "c", "d", "T", "U", "V"} \cup MCIris

This == [kind |-> "this"]
Is(t) == [kind |-> "constant", of |-> t]
Along(path) == [kind |-> "path", via |-> path]
Table(at) == [kind |-> "table", at |-> at]
IsA(c) == [pred |-> "type", obj |-> c, holds |-> TRUE, faulty |-> {}]
IsNoA(c) == [pred |-> "type", obj |-> c, holds |-> FALSE, faulty |-> {}]
AsksOf(nodes) == [pred |-> "type", obj |-> "T", holds |-> TRUE, faulty |-> nodes]

Body(p, o, conditions, broken) ==
    [subject |-> This, predicate |-> p, object |-> o,
     conditions |-> conditions, broken |-> broken]

Types    == Body(Is("type"), Is("U"), <<>>, FALSE)
Reacts   == Body(Is("type"), Is("V"), <<IsA("U")>>, FALSE)
Absent   == Body(Is("type"), Is("V"), <<IsNoA("U")>>, FALSE)
Hops     == Body(Is("sub"), Along(<<"sub", "sub">>), <<>>, FALSE)
Fails    == Body(Is("type"), Is("V"), <<IsA("U")>>, TRUE)
IllFormed == Body(Is("V"), This, <<>>, FALSE)

\* One condition guards another that fails at a, and the other way round; an
\* expression that is evaluated at b alone, where what is of type U is asked.
Guarded  == Body(Is("type"), Is("V"), <<IsA("U"), AsksOf({"a"})>>, FALSE)
Asking   == Body(Is("type"), Is("V"), <<AsksOf({"b"}), IsNoA("U")>>, FALSE)
Computed == Body(Is("type"), Table([n \in {"b"} |-> {"V", "U"}]), <<IsA("U")>>, FALSE)

At(body, order, off) ==
    [subject |-> body.subject, predicate |-> body.predicate,
     object |-> body.object, conditions |-> body.conditions,
     broken |-> body.broken, order |-> order, off |-> off]

Targeting(c) == [pred |-> "type", obj |-> c, fails |-> FALSE]

Shape(c, order, off, rules) ==
    [target |-> Targeting(c), order |-> order, off |-> off, rules |-> rules]

Typed == {<<"a", "type", "T">>, <<"b", "type", "T">>, <<"b", "type", "U">>}

Links == {<<"a", "sub", "b">>, <<"b", "sub", "c">>, <<"c", "sub", "d">>}

Call(data, shapes, max, passes, iterated) ==
    [data |-> data, shapes |-> shapes, max |-> max, rounds |-> passes,
     iterated |-> iterated]

\* One pass: a shape on T with two rules and one on U or T with one, in both
\* orders, at two shape orders and two rule orders.
Orders == {{0}, {1}}

FirstShapes ==
    {Shape("T", o, FALSE, <<At(x, {1}, FALSE), At(y, p, FALSE)>>) :
        o \in Orders, p \in Orders,
        x \in {Types, Absent}, y \in {Reacts, Fails, Types, IllFormed}}

SecondShapes ==
    {Shape(c, o, off, <<At(x, {0}, FALSE), At(Types, {1}, cut)>>) :
        c \in {"T", "U"}, o \in Orders, off \in BOOLEAN, cut \in BOOLEAN,
        x \in {Types, Absent, Fails}}

PassInputs ==
    {Call(Typed, shapes, max, 1, FALSE) :
        max \in {4, 50},
        shapes \in UNION {{<<s, t>>, <<t, s>>} :
                             s \in FirstShapes, t \in SecondShapes}}

\* What cannot be done, at the level of what it depends on or after it.
FaultInputs ==
    {Call(Typed, <<Shape("T", {0}, FALSE, <<At(x, {0}, FALSE), At(y, o, FALSE)>>),
                   [Shape("U", p, FALSE, <<At(Reacts, {0}, FALSE)>>)
                       EXCEPT !.target.fails = fails]>>, max, 1, FALSE) :
        x \in {Types, Absent, Reacts}, y \in {Guarded, Asking, Computed},
        o \in Orders, p \in Orders, fails \in BOOLEAN, max \in {4, 50}}

\* Repeated passes: a transitive rule and a class rule over the whole chain,
\* with enough passes and with too few.
IteratedInputs ==
    {Call(Typed \cup Links \cup {<<n, "type", "T">> : n \in more},
          <<Shape("T", o, FALSE, <<At(Hops, {0}, FALSE), At(y, p, FALSE)>>),
            Shape("U", q, FALSE, <<At(Reacts, {0}, FALSE)>>)>>,
          max, passes, TRUE) :
        more \in {{}, {"c", "d"}}, o \in Orders, p \in Orders, q \in Orders,
        y \in {Types, Reacts, Absent, Fails},
        max \in {14, 50}, passes \in 0 .. 4}

\* At the limit: the rule infers what is there already.
LimitInputs ==
    {Call(Typed \cup {<<"a", "type", "U">>},
          <<Shape("T", {0}, FALSE, <<At(Types, {0}, FALSE)>>)>>, max, 1, FALSE) :
        max \in 4 .. 8}

\* All of these calls.
AllInputs == PassInputs \cup FaultInputs \cup IteratedInputs \cup LimitInputs
=============================================================================
