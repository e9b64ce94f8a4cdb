------------------------------ MODULE MCCliRun ------------------------------
(***************************************************************************)
(* Calls of the command line: every combination of severity flags, cap and *)
(* up to two results, and every combination of stages that are asked for   *)
(* and fail.                                                               *)
(***************************************************************************)
EXTENDS CliRun

Plain ==
    [ownShapes |-> FALSE, build |-> FALSE, noIndex |-> FALSE, single |-> TRUE,
     rdfs |-> FALSE, meta |-> FALSE, allowEmpty |-> FALSE, advanced |-> FALSE,
     abort |-> FALSE, max |-> {}, min |-> "Info",
     allowInfos |-> FALSE, allowWarnings |-> FALSE]

Fine ==
    [stdins |-> 0, indexCurrent |-> FALSE, dataParses |-> TRUE,
     indexWritable |-> TRUE, closes |-> TRUE, shapesParse |-> TRUE,
     wellFormed |-> TRUE, compiles |-> TRUE, empty |-> FALSE,
     rulesRun |-> TRUE, evaluates |-> TRUE, outputWritable |-> TRUE,
     found |-> <<>>]

Of(a, w) == [args |-> a, world |-> w]

Lists(sevs, n) == UNION {[1 .. k -> sevs] : k \in 0 .. n}

Thresholds(mins, maxes, aborts) ==
    {[Plain EXCEPT !.min = m, !.max = x, !.abort = a, !.allowInfos = i,
                   !.allowWarnings = w] :
        m \in mins, x \in maxes, a \in aborts, i \in BOOLEAN, w \in BOOLEAN}

\* Verdicts: severities, flags and caps.
VerdictCalls ==
    {Of(a, [Fine EXCEPT !.found = f]) :
        a \in Thresholds({"Violation", "Warning", "Info", "Debug", "Trace"},
                         {{}, {1}, {2}}, BOOLEAN),
        f \in Lists({"Violation", "Warning", "Info", "Debug"}, 2)}

\* Stages: which stages are asked for, and which fail.
StageArgs ==
    {[Plain EXCEPT !.ownShapes = o, !.build = b, !.noIndex = x, !.single = s,
                   !.rdfs = r, !.meta = r, !.advanced = v, !.allowEmpty = e] :
        o \in BOOLEAN, b \in BOOLEAN, x \in BOOLEAN, s \in BOOLEAN,
        r \in BOOLEAN, v \in BOOLEAN, e \in BOOLEAN}

StageWorlds ==
    {[Fine EXCEPT !.found = f, !.empty = e, !.indexCurrent = i] :
        f \in {<<>>, <<"Violation">>}, e \in BOOLEAN, i \in BOOLEAN}
    \cup {[Fine EXCEPT !.stdins = 2], [Fine EXCEPT !.dataParses = FALSE],
          [Fine EXCEPT !.dataParses = FALSE, !.indexCurrent = TRUE],
          [Fine EXCEPT !.indexWritable = FALSE], [Fine EXCEPT !.closes = FALSE],
          [Fine EXCEPT !.shapesParse = FALSE], [Fine EXCEPT !.wellFormed = FALSE],
          [Fine EXCEPT !.compiles = FALSE], [Fine EXCEPT !.rulesRun = FALSE],
          [Fine EXCEPT !.evaluates = FALSE], [Fine EXCEPT !.outputWritable = FALSE]}

StageCalls == {Of(a, w) : a \in StageArgs, w \in StageWorlds}

\* The default cap: the default threshold and a cap, over an sh:Debug result.
DefaultCapCalls ==
    {Of([Plain EXCEPT !.abort = TRUE], [Fine EXCEPT !.found = f]) :
        f \in Lists({"Violation", "Debug"}, 2)}

\* Both catalogues of calls.
AllCalls == VerdictCalls \cup StageCalls
=============================================================================
