---------------------------- MODULE CliRunProofs ----------------------------
(***************************************************************************)
(* Theorems about a run of the command line, for every combination of      *)
(* flags, every outcome of every stage and any number of results.  Each    *)
(* stage leaves behind what the later ones rely on, so the invariant says  *)
(* what is known after a stage for as long as the run is not refused.  The *)
(* verdict rests on one more fact: a run stops early only after a result   *)
(* that decides the verdict.                                               *)
(***************************************************************************)
EXTENDS CliRun, FiniteSetTheorems, SequenceTheorems, NaturalsInduction,
        WellFoundedInduction, TLAPS

TypeOK ==
    /\ call \in Calls
    /\ stage \in {"arguments", "data", "infer", "shapes", "meta", "compile",
                  "rules", "validate", "output", "ended"}
    /\ data \subseteq {"closure", "rules"}
    /\ shapes \subseteq {"closure", "rules"}
    /\ written \subseteq SUBSET {"closure", "rules"}
    /\ report \in Seq(Severities)
    /\ exit \in 0 .. 3

\* The run is past the stage that these stages follow, and was not refused.
At(stages) == stage \in stages \/ (stage = "ended" /\ exit # 2)

\* What a stage that was passed has shown.
Passed ==
    /\ At({"infer", "shapes", "meta", "compile", "rules", "validate", "output"})
           => FromIndex \/ world.dataParses
    /\ At({"shapes", "meta", "compile", "rules", "validate", "output"})
           => (args.rdfs => world.closes)
    /\ At({"compile", "rules", "validate", "output"}) => (args.meta => world.wellFormed)
    /\ At({"rules", "validate", "output"}) => (world.empty => args.allowEmpty)
    /\ At({"validate", "output"}) => (args.advanced => world.rulesRun)

\* What each graph holds before and after the stage that adds to it.
Closure == IF args.rdfs THEN {"closure"} ELSE {}
Inferred == IF args.advanced THEN {"rules"} ELSE {}
Held ==
    /\ stage \in {"arguments", "data", "infer"} => data = {}
    /\ stage \in {"shapes", "meta", "compile", "rules"} => data = Closure
    /\ stage \in {"validate", "output"} => data = Closure \cup Inferred
    /\ stage \in {"meta", "compile", "rules", "validate", "output"} =>
           shapes = IF args.ownShapes THEN Closure ELSE {}
    /\ written \subseteq {{}}

\* The report once validation is done, and the exit code once it is written.
Verdict ==
    /\ At({"output"}) => report = IF world.empty THEN <<>> ELSE Reported(world.found)
    /\ stage # "ended" => exit = 3
    /\ stage = "ended" => exit \in 0 .. 2
    /\ stage = "ended" /\ exit # 2 => (exit = 0 <=> Conforms(report))

IInv == TypeOK /\ Passed /\ Held /\ Verdict
-----------------------------------------------------------------------------

\* A set of numbers has a least one.
LEMMA LeastNumber ==
    ASSUME NEW T \in SUBSET Nat, T # {}
    PROVE  \E m \in T : \A n \in T : m <= n
<1>1. PICK m \in T : \A n \in T : <<n, m>> \notin OpToRel(<, Nat)
  BY WFMin, NatLessThanWellFounded, Zenon
<1>2. \A n \in T : ~(n < m)
  BY <1>1, Zenon DEF OpToRel
<1> QED BY <1>2

\* What a run reports of what it finds is a prefix of it, and when it stops
\* early the results that count are as many as the cap.
LEMMA ReportedIsPrefix ==
    ASSUME NEW found \in Seq(Severities)
    PROVE  \E l \in 0 .. Len(found) :
              /\ Reported(found) = SubSeq(found, 1, l)
              /\ l = Len(found) \/ \E n \in Cap : Counted(Reported(found)) >= n
<1> DEFINE reached == {cut \in Prefixes(found) : \E n \in Cap : Counted(cut) >= n}
           lengths == {k \in Nat : \E cut \in reached : Len(cut) = k}
<1>1. CASE reached = {}
  <2>1. Reported(found) = found
    BY <1>1 DEF Reported
  <2>2. SubSeq(found, 1, Len(found)) = found
    BY SubSeqProperties, LenProperties
  <2>3. Len(found) \in 0 .. Len(found)
    BY LenProperties
  <2> QED BY <2>1, <2>2, <2>3
<1>2. CASE reached # {}
  <2>1. \A cut \in reached : Len(cut) \in Nat
    <3> SUFFICES ASSUME NEW l \in 0 .. Len(found) PROVE Len(SubSeq(found, 1, l)) \in Nat
      BY DEF Prefixes
    <3>1. \A i \in 1 .. l : found[i] \in Severities
      BY ElementOfSeq, LenProperties
    <3> QED BY <3>1, SubSeqProperties, LenProperties
  <2>2. lengths # {} /\ lengths \subseteq Nat
    BY <1>2, <2>1
  <2>3. PICK k \in lengths : \A j \in lengths : k <= j
    BY <2>2, LeastNumber
  <2>4. \E cut \in reached : \A other \in reached : Len(cut) <= Len(other)
    BY <2>1, <2>3
  <2>5. Reported(found) \in reached
    BY <1>2, <2>4 DEF Reported
  <2> QED BY <2>5 DEF Prefixes
<1> QED BY <1>1, <1>2

\* A cap that is safe stops only after a result that breaks conformance, so
\* what is reported conforms exactly when all that would be found does.
LEMMA StoppingIsSafe ==
    ASSUME call \in Calls, CapIsSafe
    PROVE  Conforms(Reported(world.found)) <=> Conforms(world.found)
<1> DEFINE found == world.found
           judged == IF Disallowed = {} THEN DefaultDisallows ELSE Disallowed
<1>1. found \in Seq(Severities) /\ args.max \subseteq Nat
  BY CallsAssumption DEF Call, world, args
<1>2. PICK l \in 0 .. Len(found) :
          /\ Reported(found) = SubSeq(found, 1, l)
          /\ l = Len(found) \/ \E n \in Cap : Counted(Reported(found)) >= n
  BY <1>1, ReportedIsPrefix
<1> SUFFICES Conforms(Reported(found)) <=> Conforms(found)
  OBVIOUS
<1> HIDE DEF found
<1>3. \A i \in 1 .. Len(found) : found[i] \in Severities
  BY <1>1, ElementOfSeq
<1>4. /\ Reported(found) \in Seq(Severities)
      /\ DOMAIN Reported(found) = 1 .. l
      /\ DOMAIN found = 1 .. Len(found) /\ Len(found) \in Nat
      /\ \A i \in 1 .. l : Reported(found)[i] = found[i]
  BY <1>1, <1>2, <1>3, SubSeqProperties, LenProperties
<1>5. Conforms(found) => Conforms(Reported(found))
  BY <1>4 DEF Conforms
<1>6. CASE l = Len(found)
  BY <1>4, <1>6 DEF Conforms
<1>7. CASE l # Len(found)
  <2>1. PICK n \in Cap : Counted(Reported(found)) >= n
    BY <1>2, <1>7
  <2>2. n \in Nat /\ n # 0
    BY <1>1 DEF Cap, CapIsSafe
  <2>3. PICK i \in 1 .. l : Counts(Reported(found)[i])
    <3> DEFINE counted == {i \in DOMAIN Reported(found) : Counts(Reported(found)[i])}
    <3>1. Cardinality(counted) # 0
      BY <2>1, <2>2, FS_EmptySet DEF Counted
    <3>2. counted # {}
      BY <3>1, FS_EmptySet
    <3> QED BY <1>4, <3>2
  <2>4. Reported(found)[i] \in judged
    <3>1. CASE Disallowed = {}
      <4>1. Blocking = {} /\ Cap # {}
        BY <2>1, <3>1 DEF Blocking
      <4>2. found[i] \in DefaultDisallows
        BY <1>4, <4>1 DEF CapIsSafe, ToSet, found
      <4> QED BY <1>4, <3>1, <4>2
    <3>2. CASE Disallowed # {}
      <4>1. Disallowed \in Blocking
        BY <3>2 DEF Blocking
      <4> QED BY <2>3, <3>2, <4>1 DEF Counts
    <3> QED BY <3>1, <3>2
  <2>5. ~Conforms(Reported(found))
    BY <1>4, <2>3, <2>4 DEF Conforms
  <2> QED BY <1>5, <2>5
<1> QED BY <1>6, <1>7
-----------------------------------------------------------------------------

\* Every run starts in the invariant.
LEMMA IInvInit == Init => IInv
<1> SUFFICES ASSUME Init PROVE IInv
  OBVIOUS
<1>1. TypeOK
  BY DEF Init, TypeOK
<1> QED BY <1>1 DEF Init, IInv, Passed, Held, Verdict, At

\* The typing every stage keeps.
LEMMA TypeStep == TypeOK /\ [Next]_vars => TypeOK'
<1> SUFFICES ASSUME TypeOK, [Next]_vars PROVE TypeOK'
  OBVIOUS
<1> USE DEF TypeOK, Then
<1>1. CASE Arguments
  BY <1>1 DEF Arguments
<1>2. CASE Load
  BY <1>2 DEF Load
<1>3. CASE Infer
  BY <1>3 DEF Infer
<1>4. CASE LoadShapes
  BY <1>4 DEF LoadShapes
<1>5. CASE MetaShacl
  BY <1>5 DEF MetaShacl
<1>6. CASE Compile
  BY <1>6 DEF Compile
<1>7. CASE ApplyRules
  BY <1>7 DEF ApplyRules
<1>9. CASE Output
  BY <1>9 DEF Output
<1>8. CASE Validate
  <2>1. world.found \in Seq(Severities)
    BY CallsAssumption DEF Call, world
  <2>2. PICK l \in 0 .. Len(world.found) : Reported(world.found) = SubSeq(world.found, 1, l)
    BY <2>1, ReportedIsPrefix
  <2>3. \A k \in 1 .. l : world.found[k] \in Severities
    BY <2>1, ElementOfSeq
  <2>4. Reported(world.found) \in Seq(Severities)
    BY <2>1, <2>2, <2>3, SubSeqProperties, LenProperties
  <2>5. report' \in Seq(Severities)
    BY <1>8, <2>4 DEF Validate
  <2> QED BY <1>8, <2>5 DEF Validate
<1>10. CASE UNCHANGED vars
  BY <1>10 DEF vars
<1> QED
  BY <1>1, <1>2, <1>3, <1>4, <1>5, <1>6, <1>7, <1>8, <1>9, <1>10 DEF Next

\* A stage that is passed stays passed, and only its success passes it.
LEMMA PassedStep == TypeOK /\ Passed /\ [Next]_vars => Passed'
<1> SUFFICES ASSUME TypeOK, Passed, [Next]_vars PROVE Passed'
  OBVIOUS
<1> USE DEF TypeOK, Passed, At, Then, FromIndex, args, world
<1>1. CASE Arguments
  BY <1>1 DEF Arguments
<1>2. CASE Load
  BY <1>2 DEF Load
<1>3. CASE Infer
  BY <1>3 DEF Infer
<1>4. CASE LoadShapes
  BY <1>4 DEF LoadShapes
<1>5. CASE MetaShacl
  BY <1>5 DEF MetaShacl
<1>6. CASE Compile
  BY <1>6 DEF Compile
<1>7. CASE ApplyRules
  BY <1>7 DEF ApplyRules
<1>8. CASE Validate
  BY <1>8 DEF Validate
<1>9. CASE Output
  BY <1>9 DEF Output
<1>10. CASE UNCHANGED vars
  BY <1>10 DEF vars
<1> QED
  BY <1>1, <1>2, <1>3, <1>4, <1>5, <1>6, <1>7, <1>8, <1>9, <1>10 DEF Next

\* Each stage adds to the graphs what the flags ask of it.
LEMMA HeldStep == TypeOK /\ Held /\ [Next]_vars => Held'
<1> SUFFICES ASSUME TypeOK, Held, [Next]_vars PROVE Held'
  OBVIOUS
<1> USE DEF TypeOK, Held, Then, Closure, Inferred, args, world
<1>1. CASE Arguments
  BY <1>1 DEF Arguments
<1>2. CASE Load
  BY <1>2 DEF Load
<1>3. CASE Infer
  BY <1>3 DEF Infer
<1>4. CASE LoadShapes
  BY <1>4 DEF LoadShapes
<1>5. CASE MetaShacl
  BY <1>5 DEF MetaShacl
<1>6. CASE Compile
  BY <1>6 DEF Compile
<1>7. CASE ApplyRules
  BY <1>7 DEF ApplyRules
<1>8. CASE Validate
  BY <1>8 DEF Validate
<1>9. CASE Output
  BY <1>9 DEF Output
<1>10. CASE UNCHANGED vars
  BY <1>10 DEF vars
<1> QED
  BY <1>1, <1>2, <1>3, <1>4, <1>5, <1>6, <1>7, <1>8, <1>9, <1>10 DEF Next

\* The exit code is given once, by the report validation has left.
LEMMA VerdictStep == TypeOK /\ Verdict /\ [Next]_vars => Verdict'
<1> SUFFICES ASSUME TypeOK, Verdict, [Next]_vars PROVE Verdict'
  OBVIOUS
<1>1. call' = call
  BY DEF Next, vars, Then, Arguments, Load, Infer, LoadShapes, MetaShacl, Compile,
     ApplyRules, Validate, Output
<1>2. /\ world' = world
      /\ Reported(world.found)' = Reported(world.found)
      /\ report' = report => (Conforms(report)' <=> Conforms(report))
  BY <1>1 DEF world, args, Reported, Counted, Counts, Cap, Blocking, Disallowed,
     Threshold, Conforms
<1> USE <1>2 DEF TypeOK, Verdict, At, Then
<1>3. CASE Arguments \/ Load \/ Infer \/ LoadShapes
  BY <1>3 DEF Arguments, Load, Infer, LoadShapes
<1>4. CASE MetaShacl \/ Compile \/ ApplyRules
  BY <1>4 DEF MetaShacl, Compile, ApplyRules
<1>5. CASE Validate
  BY <1>5 DEF Validate
<1>6. CASE Output
  BY <1>6 DEF Output
<1>7. CASE UNCHANGED vars
  BY <1>7 DEF vars
<1> QED BY <1>3, <1>4, <1>5, <1>6, <1>7 DEF Next

\* In every reachable state the inductive invariant holds.
THEOREM RunInvariant == Spec => []IInv
<1>1. IInv /\ [Next]_vars => IInv'
  BY TypeStep, PassedStep, HeldStep, VerdictStep DEF IInv
<1> QED BY IInvInit, <1>1, PTL DEF Spec

\* Every variable of a run keeps its type.
THEOREM TypeCorrect == Spec => []TypeOK
<1>1. IInv => TypeOK
  BY DEF IInv
<1> QED BY <1>1, RunInvariant, PTL

\* A run that gives a verdict skipped nothing it was asked to do, and none of
\* its stages failed (run() in main.rs).
THEOREM SkipsNothing == Spec => []NothingSkipped
<1>1. IInv => NothingSkipped
  BY DEF IInv, Passed, At, NothingSkipped
<1> QED BY <1>1, RunInvariant, PTL

\* Validation sees the closure and the rules' inferences exactly when they were
\* asked for; the shapes never see the rules', and an index neither.
THEOREM Materialised == Spec => []AskedIsMaterialised
<1>1. IInv => AskedIsMaterialised
  BY DEF IInv, Held, Closure, Inferred, AskedIsMaterialised
<1> QED BY <1>1, RunInvariant, PTL

\* The list the flags come to holds every level they say breaks conformance,
\* and no other, unless the threshold has overruled a permissive flag.
LEMMA ListIsWhatBreaks ==
    ASSUME call \in Calls
    PROVE  LET judged == IF Disallowed = {} THEN DefaultDisallows ELSE Disallowed
           IN  /\ Breaking \subseteq judged
               /\ ~Overruled => judged \subseteq Breaking
<1> DEFINE judged == IF Disallowed = {} THEN DefaultDisallows ELSE Disallowed
<1>1. /\ args.min \in Severities
      /\ args.allowInfos \in BOOLEAN /\ args.allowWarnings \in BOOLEAN
  BY CallsAssumption DEF Call, args
<1>2. CASE args.allowWarnings
  <2>1. judged = {"Violation"}
    BY <1>2 DEF Disallowed, Threshold, AtLeast
  <2>2. Breaking = {"Violation"}
    BY <1>1, <1>2 DEF Breaking, LetStand, Level, Severities
  <2> QED BY <2>1, <2>2
<1>3. CASE ~args.allowWarnings /\ args.allowInfos
  <2>1. CASE args.min \in {"Debug", "Trace"}
    <3>1. {"Violation", "Warning"} \subseteq judged
      BY <1>3, <2>1 DEF Disallowed, Threshold, AtLeast, Severities
    <3>2. Breaking = {"Violation", "Warning"}
      BY <1>3, <2>1 DEF Breaking, LetStand, Level, Severities
    <3>3. Overruled
      BY <1>3, <2>1 DEF Overruled
    <3> QED BY <3>1, <3>2, <3>3
  <2>2. CASE args.min = "Violation"
    BY <1>3, <2>2 DEF Disallowed, Threshold, AtLeast, Breaking, LetStand, Level, Severities
  <2>3. CASE args.min \in {"Warning", "Info"}
    <3>1. judged = {"Violation", "Warning"}
      BY <1>3, <2>3 DEF Disallowed, Threshold, AtLeast
    <3>2. Breaking = {"Violation", "Warning"}
      BY <1>3, <2>3 DEF Breaking, LetStand, Level, Severities
    <3> QED BY <3>1, <3>2
  <2> QED BY <1>1, <2>1, <2>2, <2>3 DEF Severities
<1>4. CASE ~args.allowWarnings /\ ~args.allowInfos
  <2>1. judged = IF args.min = "Info" THEN DefaultDisallows ELSE AtLeast(args.min)
    BY <1>1, <1>4 DEF Disallowed, Threshold, AtLeast, Severities
  <2>2. LetStand = {}
    BY <1>4 DEF LetStand
  <2>3. CASE args.min = "Info"
    BY <2>1, <2>2, <2>3 DEF DefaultDisallows, Breaking, Level, Severities
  <2>4. CASE args.min \in {"Violation", "Warning"}
    BY <2>1, <2>2, <2>4 DEF AtLeast, Breaking, Level, Severities
  <2>5. CASE args.min \in {"Debug", "Trace"}
    BY <2>1, <2>2, <2>5 DEF AtLeast, Breaking, Level, Severities
  <2> QED BY <1>1, <2>3, <2>4, <2>5 DEF Severities
<1> QED BY <1>1, <1>2, <1>3, <1>4

\* Under a cap that is safe, and with none, a result that the flags say breaks
\* conformance makes exit 1, however early the run stopped, and without one
\* exit 1 is only the answer of a call whose threshold overrules its flag.
THEOREM ExitCode == Spec => []ExitIsVerdict
<1>1. IInv => ExitIsVerdict
  <2> SUFFICES ASSUME IInv, stage = "ended", exit # 2, CapIsSafe
               PROVE  LET breaks == ~world.empty /\ ToSet(world.found) \cap Breaking # {}
                      IN  /\ breaks => exit = 1
                          /\ exit = 1 => breaks \/ Overruled
    BY DEF ExitIsVerdict
  <2>1. (exit = 0 <=> Conforms(report)) /\ exit \in {0, 1}
    BY DEF IInv, Verdict
  <2>2. report = IF world.empty THEN <<>> ELSE Reported(world.found)
    BY DEF IInv, Verdict, At
  <2>3. Conforms(<<>>)
    BY DEF Conforms
  <2>4. Conforms(Reported(world.found)) <=> Conforms(world.found)
    BY StoppingIsSafe DEF IInv, TypeOK
  <2>5. exit = 0 <=> world.empty \/ Conforms(world.found)
    BY <2>1, <2>2, <2>3, <2>4
  <2> DEFINE judged == IF Disallowed = {} THEN DefaultDisallows ELSE Disallowed
  <2>6. Breaking \subseteq judged /\ (~Overruled => judged \subseteq Breaking)
    BY ListIsWhatBreaks DEF IInv, TypeOK
  <2>7. Conforms(world.found) <=> ToSet(world.found) \cap judged = {}
    BY DEF Conforms, ToSet
  <2> QED BY <2>1, <2>5, <2>6, <2>7
<1> QED BY <1>1, RunInvariant, PTL
=============================================================================
