------------------------------- MODULE CliRun -------------------------------
(***************************************************************************)
(* One run of the command line, from its arguments to its exit code: what  *)
(* it loads, in which order it materialises inferences into what, when it  *)
(* refuses, and how its severity flags meet its cap.                       *)
(*                                                                         *)
(* A graph is told by what has been materialised into it.  What validation *)
(* finds is the list of severities a full traversal reports, in order; how *)
(* the engine finds it and stops early is module Engine's.                 *)
(***************************************************************************)
EXTENDS Naturals, Sequences, FiniteSets, SequencesExt

CONSTANT Calls      \* the calls to consider

Severities == {"Violation", "Warning", "Info", "Debug", "Trace"}
DefaultDisallows == {"Violation", "Warning", "Info"}

\* The flags of a call, a cap as a set of at most one number, the threshold;
\* and how each thing it tries turns out.
Call ==
    [args : [ownShapes : BOOLEAN, build : BOOLEAN, noIndex : BOOLEAN, single : BOOLEAN,
             rdfs : BOOLEAN, meta : BOOLEAN, allowEmpty : BOOLEAN, advanced : BOOLEAN,
             abort : BOOLEAN, max : SUBSET Nat, min : Severities,
             allowInfos : BOOLEAN, allowWarnings : BOOLEAN],
     world : [stdins : Nat, indexCurrent : BOOLEAN, dataParses : BOOLEAN,
              indexWritable : BOOLEAN, closes : BOOLEAN, shapesParse : BOOLEAN,
              wellFormed : BOOLEAN, compiles : BOOLEAN, empty : BOOLEAN,
              rulesRun : BOOLEAN, evaluates : BOOLEAN, outputWritable : BOOLEAN,
              found : Seq(Severities)]]

ASSUME CallsAssumption == \A c \in Calls : c \in Call

VARIABLES
    call,       \* the arguments, and how each thing it tries turns out
    stage,      \* what run() does next
    data,       \* what the data graph holds beyond its document
    shapes,     \* what the shapes graph holds beyond its document
    written,    \* what the index written holds beyond the document, if any
    report,     \* severities of the results reported
    exit        \* 0 conforms, 1 does not, 2 error; 3 while running

vars == <<call, stage, data, shapes, written, report, exit>>

args  == call.args
world == call.world

\* Severity::disallowed; the default threshold is spelled as the empty list.
AtLeast(threshold) ==
    CASE threshold = "Violation" -> {"Violation"}
      [] threshold = "Warning"   -> {"Violation", "Warning"}
      [] threshold = "Info"      -> {}
      [] threshold = "Debug"     -> {"Violation", "Warning", "Info", "Debug"}
      [] threshold = "Trace"     -> Severities

Threshold ==
    IF args.allowWarnings THEN "Violation"
    ELSE IF args.allowInfos /\ args.min = "Info" THEN "Warning"
    ELSE args.min

Disallowed == AtLeast(Threshold)

\* Options::blocking and max_results, as options: sets of at most one element.
Blocking == {d \in {Disallowed} : d # {}}
Cap ==
    IF args.abort
    THEN {IF \A n \in args.max : 1 <= n THEN 1 ELSE 0}
    ELSE args.max

\* Mutant of Counts: the cap counts every result.
Counts_Any(sev) == TRUE

Counts(sev) == \A sevs \in Blocking : sev \in sevs

Counted(results) == Cardinality({i \in DOMAIN results : Counts(results[i])})

\* What a run under the cap reports of what a full one would.
Reported(found) ==
    LET reached == {cut \in Prefixes(found) : \E n \in Cap : Counted(cut) >= n}
    IN  IF reached = {} THEN found
        ELSE CHOOSE cut \in reached : \A other \in reached : Len(cut) <= Len(other)

\* ValidationReport::conforms.
Conforms(results) ==
    \A i \in DOMAIN results :
        results[i] \notin IF Disallowed = {} THEN DefaultDisallows ELSE Disallowed

-----------------------------------------------------------------------------
Init ==
    /\ call \in Calls
    /\ stage = "arguments"
    /\ data = {} /\ shapes = {} /\ written = {}
    /\ report = <<>>
    /\ exit = 3

\* The stage is done, and the next one is taken up; or it fails, and the run
\* is over.
Then(from, ok, next) ==
    /\ stage = from
    /\ IF ok THEN stage' = next /\ UNCHANGED exit
       ELSE stage' = "ended" /\ exit' = 2
    /\ UNCHANGED call

Arguments ==
    /\ Then("arguments", world.stdins <= 1, "data")
    /\ UNCHANGED <<data, shapes, written, report>>

\* A current index is read instead of the document, and then none is written.
FromIndex == args.single /\ ~args.noIndex /\ world.indexCurrent

Load ==
    /\ Then("data",
            FromIndex \/ (world.dataParses /\ (args.build /\ args.single => world.indexWritable)),
            "infer")
    /\ written' = IF /\ ~FromIndex /\ world.dataParses
                     /\ args.build /\ args.single /\ world.indexWritable
                  THEN {data} ELSE {}
    /\ UNCHANGED <<data, shapes, report>>

Infer ==
    /\ Then("infer", args.rdfs => world.closes, "shapes")
    /\ data' = IF args.rdfs THEN {"closure"} ELSE {}
    /\ UNCHANGED <<shapes, written, report>>

\* Without --shapes the data graph, closed by now, carries its own.
LoadShapes ==
    /\ Then("shapes", args.ownShapes \/ world.shapesParse, "meta")
    /\ shapes' = IF args.ownShapes THEN data ELSE {}
    /\ UNCHANGED <<data, written, report>>

MetaShacl ==
    /\ Then("meta", args.meta => world.wellFormed, "compile")
    /\ UNCHANGED <<data, shapes, written, report>>

\* Mutant of Compile: a shapes graph without shapes is let through.
Compile_AllowsEmpty ==
    /\ Then("compile", world.compiles, "rules")
    /\ UNCHANGED <<data, shapes, written, report>>

Compile ==
    /\ Then("compile", world.compiles /\ (world.empty => args.allowEmpty), "rules")
    /\ UNCHANGED <<data, shapes, written, report>>

\* Mutant of ApplyRules: what the rules infer gets into the shapes, too.
ApplyRules_Everywhere ==
    /\ Then("rules", args.advanced => world.rulesRun, "validate")
    /\ data' = IF args.advanced THEN data \cup {"rules"} ELSE data
    /\ shapes' = IF args.ownShapes THEN data' ELSE shapes
    /\ UNCHANGED <<written, report>>

\* Rules add to what is validated and leave the shapes graph as it was.
ApplyRules ==
    /\ Then("rules", args.advanced => world.rulesRun, "validate")
    /\ data' = IF args.advanced THEN data \cup {"rules"} ELSE data
    /\ UNCHANGED <<shapes, written, report>>

Validate ==
    /\ Then("validate", world.evaluates, "output")
    /\ report' = IF world.evaluates /\ ~world.empty THEN Reported(world.found) ELSE <<>>
    /\ UNCHANGED <<data, shapes, written>>

Output ==
    /\ stage = "output"
    /\ stage' = "ended"
    /\ exit' = IF ~world.outputWritable THEN 2
               ELSE IF Conforms(report) THEN 0 ELSE 1
    /\ UNCHANGED <<call, data, shapes, written, report>>

Next ==
    \/ Arguments \/ Load \/ Infer \/ LoadShapes \/ MetaShacl \/ Compile
    \/ ApplyRules \/ Validate \/ Output

Spec == Init /\ [][Next]_vars

-----------------------------------------------------------------------------
\* Severities no cap may stop on before a violation is met: all it counts are
\* ones that conformance is judged by.
CapIsSafe ==
    /\ 0 \notin Cap
    /\ Cap # {} /\ Blocking = {} => ToSet(world.found) \subseteq DefaultDisallows

\* What the flags say breaks conformance, told from their help texts and not
\* from the lists the code makes: a result at the --min-severity or above, but
\* for the levels a permissive flag lets stand, whatever the threshold.
Level == [Trace |-> 0, Debug |-> 1, Info |-> 2, Warning |-> 3, Violation |-> 4]
LetStand ==
    {sev \in Severities : \/ args.allowWarnings /\ Level[sev] <= Level["Warning"]
                          \/ args.allowInfos /\ Level[sev] <= Level["Info"]}
Breaking == {sev \in Severities : Level[sev] >= Level[args.min]} \ LetStand

\* Calls in which the threshold wins over the permissive flag: --allow-infos
\* is acted on at the default threshold only (main.rs:978).
Overruled == args.allowInfos /\ ~args.allowWarnings /\ args.min \in {"Debug", "Trace"}

\* The exit code is the verdict on the whole graph: stopping early, the
\* severity flags and an empty shapes graph never turn a graph with a result
\* that breaks conformance into exit 0, nor one without into exit 1.  The
\* second half does not hold of Overruled calls: a comment (main.rs:973-976)
\* has the permissive flag win there, and the code exits 1 over an sh:Info.
ExitIsVerdict ==
    stage = "ended" /\ exit # 2 /\ CapIsSafe =>
        LET breaks == ~world.empty /\ ToSet(world.found) \cap Breaking # {}
        IN  /\ breaks => exit = 1
            /\ exit = 1 => breaks \/ Overruled

\* Exit 0 is never the answer of a run that checked nothing by accident, or
\* that any of its stages refused or failed: a script may branch on it.
NothingSkipped ==
    stage = "ended" /\ exit # 2 =>
        /\ world.empty => args.allowEmpty
        /\ FromIndex \/ world.dataParses
        /\ args.rdfs => world.closes
        /\ args.meta => world.wellFormed
        /\ args.advanced => world.rulesRun

\* Each graph holds exactly what was asked to be materialised into it by the
\* time it is used: validation sees closure and rules, the shapes a
\* self-describing document carries see the closure and not the rules, and an
\* index holds neither, so a later run with other flags may use it.
AskedIsMaterialised ==
    /\ stage \in {"validate", "output"} =>
           /\ "closure" \in data <=> args.rdfs
           /\ "rules" \in data <=> args.advanced
    /\ stage \in {"compile", "rules", "validate"} =>
           shapes = IF args.ownShapes /\ args.rdfs THEN {"closure"} ELSE {}
    /\ \A held \in written : held = {}

-----------------------------------------------------------------------------
(***************************************************************************)
(* What the comments say and the code does not do.                         *)
(***************************************************************************)
\* "The cap must count exactly the severities conformance is judged by": the
\* verdict under a cap is the verdict without it.
CapCountsWhatBlocks ==
    stage = "ended" /\ exit # 2 /\ 0 \notin Cap =>
        (exit = 0 <=> world.empty \/ Conforms(world.found))
=============================================================================
