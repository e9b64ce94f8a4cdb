# A TLA+ model of the SHACL engine

This directory specifies the core logic of the SHACL engine in `crates/shacl`
and of its command line in `crates/shacl-cli`: TLA+ modules translated from the
source, TLC configurations that model-check them on small instances, and TLAPS
proofs of what holds for every instance. `PROJECT.json` maps every definition
to the lines it stands for.

    tlc -workers 2 -config Engine.cfg MCEngine        # a run; one .cfg each
    tlapm DescentStackProofs.tla                      # a proof module

## 1. The system

The engine loads RDF documents into a term store and an indexed graph, compiles
the shapes graph into an array of shapes, optionally closes the data under RDFS
and applies SHACL-AF rules, and validates: for each shape it computes focus
nodes, evaluates the shape's constraints over them in bulk, and collects results
into a report. The command line runs these stages in a fixed order and turns the
report into an exit code; with `--build-index` it keeps a parsed image of a
document beside it.

| component | state | operations | with whom | what is hard | what makes it correct |
|---|---|---|---|---|---|
| Recursion guard (`validate.rs`: `Stack`, `Frame`, `push_frame`, `unwind`) | pairs in a vector and in a hash set, nesting depth, stack of frames | enter, descend, leave, return, fail | every nested call of the engine | removal by value; unwinding on errors; filtering depends on all standing frames | the two copies agree; a call leaves nothing behind; no filtering and bounded depth without recursion |
| Validation engine (`validate.rs`) | report under construction, frames, position in a constraint, buffers of nested calls | take a target, descend, check, ask, judge, stop at the cap | shapes, value sets, guard | `sh:property` deferred while others wait; early stop inside nested calls; recursion over cyclic data | the report is the one recursion gives; a cap keeps the verdict; it ends |
| Parallel split (`validate.rs`) | focus sets cut into tasks, a clone of the store per worker | resolve, split, validate, merge | engine, shapes' separability | chunk arithmetic; which shapes may be split; errors in a piece | what the pieces report adds up to the sequential report |
| Shapes compiler (`shapes.rs`) | arena of shapes, numbers of nodes, stack of pending nodes | discover, number, compile, ask: references, cycle, separability | graph, engine | mutual recursion; one malformed statement among many; a three-colour search on an explicit stack | every shape found once, every reference right; a cycle found iff there is one |
| Value sets and paths (`valueset.rs`, `path.rs`) | compressed rows of values per focus node; worklists | compile a path, walk it, append a row | graph, engine | closures over cyclic data; rows of several foci in one buffer; paths that contain themselves | per focus node, exactly what the path relates it to |
| Node expressions (`nodeexpr.rs`) | none | evaluate an expression for a focus node | engine (asks whether a node conforms), paths | forty operators, some of bags and some of sets; nesting and faults | the result has each term as often as its operands say |
| Report (`report.rs`) | results | conforms, to RDF | engine, command line | severities against thresholds | the verdict is that of the results |
| RDFS closure (`inference.rs`) | triples known so far | a round; the length test; the cap | graph | cycles; schema derived while it is being used; when to refuse | closed, least, refused only when too large |
| SHACL-AF rules (`rules.rs`) | work list, pending triples, graph | fire, merge, repeat | engine (conditions, targets) | order levels; rules that do not compile; limits; non-monotone rules | a pass is level by level; repeats end in a fixpoint or say so |
| Index cache (`main.rs`, `model/index.rs`) | the data file, its index, a temporary file | probe, digest, accept, parse, write, rename | other processes, the user | crashes, edits in the middle, overlapping builds | never another document's graph; never a torn index |
| Command line run (`main.rs`) | arguments, graphs, report | a chain of stages | all of the above | what is materialised into which graph; flags against cap | exit code is the verdict; nothing skipped in silence |
| Document loader (`model/loader.rs`, `load_all`) | documents, chunks, what workers have parsed | cut, parse, intern chunk by chunk, fail | term store, graph | where a text may be cut; names of blank nodes; the first error | what was loaded is what the documents say, in the order they say it |
| Term store and graph (`model/`) | interned strings, terms, lookup tables; three sorted row arrays with offsets | intern, look up, build, match, restore from parts | everything | scopes of blank nodes; boundaries of the offset tables | ids are stable; lookups equal the set of triples; restoring restores |
| SPARQL adapter, datatypes | none | pure functions | engine | rewriting of queries, many small cases | — |
| Python and WebAssembly bindings, test harness, benchmarks | none of their own | argument conversion | engine | — | — |

Threads appear in two places only: the parallel split over focus nodes and the
chunked loader. Processes meet in one: the files of the index cache. Everything
else is sequential code whose difficulty is order, recursion, early exits and
limits. `PROJECT.json` lists the hazards at their lines.

## 2. The modules

    DescentStack            recursion guard, on its own          (abstract spec)
      DescentBounds         what acyclic references buy
      DescentStackProofs    proofs about both
    ShapeEval               shapes, constraints, one value at a time (pure)
      Engine                a run, step by step, in one piece or several
        EngineGuard         refinement to DescentStack; why a run may fail
          EngineProofs      proofs about both, for every shapes graph
      RecursiveForm         what the shapes mean, by plain recursion (reference)
        EngineProperties    the other properties of a run
    TripleSets              triples, as both inference loops see them
      RdfsClosure           the fixpoint loop
      Rules                 SHACL-AF rules
        RuleProperties      level-by-level reading and the properties
          InferenceProofs   proofs about both loops
    ShapeReading            what the compiler reads of one node (pure)
      ShapeCompile          numbering and compiling from a stack of nodes
        Separability        the compiled arena, then the search for a cycle
          CycleSearch       three-colour search on an explicit stack
          SeparabilityProofs    proofs about the search for every arena, about
                                compiling, and about both composed
      PathCompile           paths as trees
        PathWalk            walking a path for many focus nodes at once
          ValueSets         compressed rows (pure)
          PathProperties    a path as a relation (reference)
            NodeExpr        node expressions (recursive operators)
              ExprProperties   an expression as a bag (reference)
    TermStore, GraphIndex   interning; three sorted orders (pure)
      TurtleLoad            loading documents, in chunks and in parallel
        LoadProperties      reading the text from its start (reference)
          LoadProofs        proofs about the store, the graphs and the chunks
    IndexCache              several processes over one cached document
      IndexCacheProofs      its proofs
    CliRun                  one command-line run
      CliRunProofs          its proofs
    SequenceFacts           lemmas on numbers and sequences the proofs share
    MC*                     the instances TLC checks

### DescentStack — the recursion guard

`pairs` and `seen` are `Stack::pairs` and `Stack::seen`, `depth` the number of
`validate_shape` calls that have not returned, `frames` every standing frame with
its `mark`, `bases` where each call's frames begin (in the code: the native stack,
one `Vec<Frame>` per call). `Enter` is a call of `validate_shape`, `Descend` an
`sh:property` (a frame of the same call), `Leave` a popped frame with `unwind`,
`Return` the end of a call, and errors have three sources: `Refuse` a call past
the limit, `Falter` a call whose shape's value nodes cannot be found (it stands
without a frame), `Fail` what goes wrong in the top frame. What the shapes check is
left out, so an `Enter` may choose any focus set of
`FocusSets` that passes the filter; focus sets may repeat a node. `Refs` is what
`referenced_shapes` computes.

### ShapeEval, Engine, RecursiveForm

A shape is a record of severity, severities set for single constraints, targets,
path, `sh:values` and a sequence of constraints; every kind of constraint the
engine evaluates has a case. `value` stands for those that judge a value by itself
against a table (datatype, node kind, ranges, lengths, patterns, `sh:in` and the
like). What a node expression or a query answers is a table of the shape, too, but
a partial one: where it has no entry the query cannot be run or the expression not
be evaluated, and the engine's `?` makes that an error. This holds of `sh:values`
(`Valued`), of `sparql`, `custom` and `expression` constraints (`CannotRun`), of
the expression that names the shapes of a `nodeBy` (`Expressible`), and of a
shape's SPARQL target (`selector`). `CanFail` says of a shape that one of its
tables is partial. `Predicates` are the paths that are a single predicate, which
alone count as declared in a closed shape and alone have statements a reifier can
be about (`Skipped`). Constraints that look at classes, lists, languages, orders
or another predicate read them from the data record. Those that ask another shape
— `not`, `and`, `or`, `xone`, `node`, `some`, `qualified`, `member`, `reifier`,
`nodeBy` — are each modelled with the order of their questions, the point at which
they stop asking, and their faults.

`Engine` has one action per step of the driver (`NextJob`, `TargetsFail`,
`TestTarget`, `ValidateRoot`), of the parallel split (`Resolved`, `Keep`, `Split`,
`Work`, `Merge`), of `run_frames` (`FrameDone`, `Descend`, `Check`, `Fail`,
`Begin`), of the asking arms of `eval` (`NoQuestions`, `Ask`, `Judge`, `CloseRow`)
and of the end of a call (`Drop`, `Return`). `plan` is what the driver has decided
about splitting, `jobs` what it still has to do, `pieces` the tasks. `cur` is the
local state of an asking arm: row, value, answers so far, and how many values
counted. `Enough` is tested wherever the code tests it, with the buffer of the
innermost call. A worker has a store, a `Stack` and a buffer of its own and writes
nothing another one reads, so pieces are worked off one at a time, in any order,
and a step of one never needs to be told apart from a step of another.
`validate_nodes` is a run whose input has `work`.

`EngineGuard` looks at a run as the guard does: `Standing` and `Bases` are the
frames and calls without what they evaluate, and `FollowsGuard` is `DescentStack`
of them. It also says when a run may fail (`ErrorsHaveAReason`), by the shapes
alone: one of them `CanFail`, or questions nest past the limit. `Nested[n]` are
the shapes that can be entered n questions below a root.

`RecursiveForm` is the reference: what a shape reports for a focus set, by plain
recursion over shapes with a set of visited pairs, no stack of frames, no cap, no
pieces. It is RECURSIVE and reached only by TLC's modules.

### ShapeReading, ShapeCompile, CycleSearch, Separability

`ShapeReading` is what `compile_shape` and its readers take from one node: which
parameters, in which order, as what, and what they refuse. None of it depends on
what has been compiled, so `ShapeCompile` keeps it in `reading` and has the
compiler's own state beside it: the arena `shapes`, `byNode`, the stack `pending`,
`roots`. `Discover` numbers a candidate, `CompileNext` pops a node, numbers what
its body refers to and fills its place, `CompileFails` ends the compilation,
`ChooseRoots` picks the shapes with a target. `CycleSearch` has the explicit stack
of (shape, next child) and the two sets that are the three colours; `Separability`
runs it over the arena the compiler leaves and then asks `is_focus_separable`.
What should be found is stated apart from `discover`: `Announced` are the nodes
with a shape's class, any target or any constraint parameter, as a reader of
`ShapeReading` would list them, and `Overlooked`, by name, those of them that
discovery does not look for.

### ValueSets, PathCompile, PathWalk, PathProperties

A compiled path is a tree [op, p, args]. `PathWalk` keeps one frame per call of
`walk` on a stack: the pairs (origin, node) found so far and the frontier of a
closure. Origins are positions in the focus list, so a node that is listed twice
has two rows. `b` is the builder of the compressed rows. `PathProperties!Describes`
gives the relation the shapes graph describes, from the triples, without compiling.

### NodeExpr, ExprProperties

`EvalAt` is `eval_at`: the first operator a blank node carries decides its form,
`Leading` and `More` are its operands in the order they are evaluated, `Value`
makes the result; a fault anywhere is a fault of the whole. `ExprProperties!Means`
reads the same expressions as an algebra of bags. The values of a path are taken
from the described relation: that walking gives it is `RowsAreImages` of the same
run. Whether a node conforms, a query's values and a SPARQL function's value are
constants of the module.

### TermStore, GraphIndex, TurtleLoad, LoadProperties

A term is a record, its id its position. `TermStore` has one operator per
interning method, per lookup that does not intern, and `Parts` / `FromParts` for
the image an index file holds. `GraphIndex!Built` makes the three rotated arrays
and their offset tables, `Run` and `Prefix2` are the two searches in them, and the
other operators the lookups. `TurtleLoad` reads the documents of a run one after
the other (`ReadDocument`): `Texts` are the chunks of one, `ParseChunk` a worker
that is done with one, in any order, `InternNext` and `ChunkDone` the merge in
order, `MergeFails` the first error, `FinishDocument` the step to the next document
or graph. `LoadProperties` says what must come of it from the text alone.

### RdfsClosure, Rules, IndexCache, CliRun

`RdfsClosure!Round` is a turn of the loop in `rdfs_closure_bounded`, with the cap
tested before the length. `InferenceProofs` extends this module beside `Rules`, so
its specification is `ClosureSpec`, of `InitClosure` and `NextClosure`, and how the
loop ended is `outcome`. `Entailed` is written for two triples at a time; the
code reads the schema statements of the round first, which gives the same set,
since both see the graph as it was when the round began.

`Rules` keeps the flattened work list, the index into it (by what is left in
`work`), `pending` (the code's `extra`) and `current`. `Within` and `Across` are
the two outcomes of the boundary test (same level; or a merge first), `Break` and
`Refuse` the errors, `PassEnds`, `Finish` and `Repeat` the end of `apply_bounded`
and the loop of `apply_iterated`. A rule `Faults` at a node when a condition
cannot be answered there (unless one before it has said no), or when it would fire
and did not compile or has an expression that cannot be evaluated there; a shape's
target may be a query that cannot be run. Either is an error of the pass. An order
is a set of at most one number, since a floating-point order may be NaN, which no
comparison is true of; the sort is modelled as insertion, which is what the
library does for lists this short. The configurations use numbers.

`IndexCache` has one action per system call that another process can come
between: `is_file`, digest, open-and-decode, parse, second digest, create, two
writes, rename. A file is two blocks, each with the image it belongs to; `temp`
and `index` name files, so a rename moves a file that another process may still
be writing. `Crash` ends a run anywhere. `Edit` and `Move` are the user.

`CliRun` has one action per stage of `run()`; `call` holds the arguments and how
each fallible thing turns out, `found` the severities a full traversal would
report. `ExitIsVerdict` does not use the lists `Disallowed` and `Blocking` that the
code computes: `Breaking` is what the help texts of `--min-severity` and the
permissive flags say breaks conformance, and `Overruled` names the calls in which
the code lets the threshold win.

## 3. The runs

| run | question | instance | states |
|---|---|---|---|
| Stack | do vector and hash set agree, does every call clean up, and is the guard idle and depth bounded where nothing is recursive? | 4 shapes, a 2-cycle and a self-reference and below them two that are not recursive, 2 nodes, focus sets of length ≤ 2, depth 5 > 4 shapes | 337 351 |
| Engine | does the engine follow the guard, report what recursion reports, in one piece or several, keep the verdict under a cap, fail only with reason, and end? | 40 shapes in 21 graphs, 4 of them with something that cannot be evaluated, 3 things, 4 literals, every path relation from two of them with ≤ 2 values each, caps 0–2, 4 severity lists, 1–3 threads, work lists, depth 3 | 51 628 |
| Rdfs | does the loop give the documented table's answer or refuse deservedly? | all 1024 graphs over 10 statements, cap 18 | 3 301 |
| Rules | is a pass level by level; is what cannot be run an error when its level comes; do repeats reach a fixpoint? | 2 shapes in both orders, 2 orders at both levels, 9 rule bodies with broken rules, conditions and expressions that fail at some nodes, targets that fail, limits that bite and do not, 0–4 passes | 26 455 |
| Compile | is every shape found, numbered once, read right and refused when malformed; does the search find cycles? | a base graph of 5 shapes with every one and two of 18 groups of triples | 1 798 |
| Values | do paths give the relation they describe, row by row; which are refused; do expressions give their bag? | 21 paths × 32 graphs × 3 focus lists × both directions; 215 expressions × 2 graphs × 3 focus sets | 42 191 |
| Load | is what is loaded what the text says, however it is cut; do lookups and restoring agree? | documents of 5–6 statements, up to 4 documents, 1–3 cores | 50 367 |
| Index | is a cached answer right and the installed index whole; do overlapping builds settle? | 3 runs, 2 contents, 2 syntaxes, crashes anywhere; one builder at a time with edits between builds, or 3 builders over a file that moves | 240 796 |
| Cli | is the exit code the verdict, is nothing skipped, is each graph what was asked? | all stage requests × each stage failing; all flags × all thresholds × caps × lists of ≤ 2 results of 4 severities | 44 316 |

Three runs show a comment or document of the repository that the code does not
keep; each is a finding in `PROJECT.json`:

- `IndexEdited`: the source is read once for the parse and again for the
  digest; an edit in between installs the old graph under the new digest.
- `CliDefaultCap`: under the default threshold the cap counts results that
  conformance is not judged by.
- `LoadComment`: a document whose first prefix declaration has a comment above it
  parses as a whole and is refused when it is cut.

Seen while modelling and not made runs of their own.

*Validation.* `max_results = 0` reports conformance without looking
(`validate.rs:612`): a cap of zero is among the inputs of `Engine`, and of it
`CapIsPrefix` claims the prefix and not the verdict. With a shape that asks about
itself the visited set can remove a finding, although `recursion.rs:74–76` says
"never a finding". A focus node occurring twice clashes with itself under
`sh:uniqueValuesFor`. The documentation of `MAX_DEPTH` says a chain of 47 links is
refused (`validate.rs:379`), but property frames no longer count:
`ErrorsHaveAReason` says the contrary, and is proved. The comment at
`validate.rs:526` says results concatenated in task order are in the sequential
order; they are in chunk order, and only the later sort by content makes the
reports equal, which is why `PiecesAddUp` compares bags. `property_paths`
(`validate.rs:1750`) does not mark what it has visited and stops after 64: a
cyclic composition can lose a sibling's predicates. `node_conforms` starts on an
empty `Stack`, so an expression that asks about the shape it belongs to is bounded
by neither guard nor depth.

*Compiling.* `shapes.rs:622–624` says that a node with any target or any
constraint parameter is a shape. The lists in the code lack `sh:target`,
`sh:targetWhere`, the parameters of SHACL 1.2 and SPARQL, and those of a component
of the user's own; and of the classes it looks for two. `FoundIsReachable` says
what is found instead: what is announced and not `Overlooked`. The graphs of
`Compile` have nodes that only such a statement announces, unreferenced. A
statement's deactivation is ignored for `sh:equals`,
`sh:disjoint`, `sh:lessThan`, the logical combinators, `sh:sparql` and flags, and
for siblings' qualified shapes, although 1264–1269 says any single constraint can
be switched off.

*Loading.* A SPARQL-style `PREFIX` has no dot, so the statement after it goes into
the prologue and is repeated in every chunk, its anonymous blank nodes with it.
Chunk scopes make blank labels depend on the number of cores, although
`term.rs:103–108` calls them a function of the document. Scopes overlap past 1024
documents, and the first dynamic scope of a run is also that of the shapes
`--meta-shacl` embeds.

*Rules.* The limit counts repeats (`rules.rs:270`), so it can refuse a pass whose
result is no larger than its input. No document of the repository says that it
should not, and no property does: `PassIsByLevel` says of the limit that what is
returned is within it, or is the input. k rules of equal order in one shape are
each fired k times. A rule whose order is NaN never runs.

*Command line.* A document moved together with its index, or read with another
`--data-format`, is answered with the cached graph although base IRI or syntax
differ. Two overlapping builders share one temporary name, so an index can be torn
until the second finishes. A comment (`main.rs:973–976`) has a permissive flag win
over a contradicting `--min-severity`; `--allow-infos` is acted on at the default
threshold only (`main.rs:978`), so with `--min-severity debug` or `trace` an sh:Info
result makes the exit code 1. `ExitIsVerdict` excepts these calls by name
(`Overruled`) in one direction: nothing that breaks conformance exits with 0, there
either.

### Why these bounds

*Stack.* An interference needs two frames of one shape and a third between them,
which a 2-cycle and a self-reference give; a limit past the number of shapes lets
depth itself be the question; two nodes let a focus set be partly filtered;
repeating a node lets a pair be pushed twice. The proofs remove the bounds.
*Engine.* With three nodes, two with any pair of values, there are empty rows,
shared values, self-loops, two-cycles and chains; each shapes graph exercises one
kind of nesting, and together they contain every constraint kind with both
outcomes for each question. `MaxDepth` 3 is hit by the recursive shapes and by
`Deep1`, the latter also inside a worker. Caps of 1 and 2 against up to six
results stop in the first and in a later constraint, inside a nested call, and not
at all; a cap of 0 stops before the first. What cannot be evaluated fails for a
root's values, those of a shape that is descended to and of one that is asked, in
a constraint of each kind, and for a target, each for some nodes and not for
others. `MinFocus` 4 (4096 in the code) lies between the focus totals of the
graphs, so both `Keep` and `Split` occur; 2 and 3 threads give equal slices, a
shorter last one, and focus sets smaller than a slice. `MaxVisits` 6 (64) is
passed by `Loop` and by no other shape. `FocusSets` lists the focus sets the guard
is asked about, as TLC has to pick from a finite set: the values of two rows,
which no focus set of the instances exceeds, and in `Stack` at most two nodes. In
the proofs it is the set of all sequences. *Rdfs.* The statements were chosen so
that up to four rounds are needed and both endings occur under the cap. *Rules.*
Two levels, each with equal and different orders, are the cases the boundary test
tells apart; what fails does so at the level of what decides it, or after.
*Compile.* Two groups at a time, since what goes wrong is one statement's effect
on another: a reference to a shape another group makes recursive, malformed or
switched off. *Values.* `MaxPathDepth` and `MaxExprDepth` 3 (64) with a path and
an expression just within and just past each; five edges give every cycle of up to
three nodes. *Load.* Six statements are cut into three chunks of two; fewer than
`MinText` are left whole; two documents to a graph, with the same labels in both,
tell scopes apart. *Index.* Three runs: one crashes, one builds, one reads. *Cli.*
Two results of four severities decide every combination of flags and caps.

### Fairness

`Engine`, `RdfsClosure`, `Rules`, `ShapeCompile` with its search, and `PathWalk`
are loops that wait for nothing: `WF_vars(Next)` says only that the thread is
scheduled, and of the engine's workers, which the code joins, that the pool works
off its queue. `Terminates` and `Ends` are checked under that. `DescentStack`,
`TurtleLoad`, `IndexCache` and `CliRun` assume no fairness and state only safety:
the guard may be stopped by its caller, a process may be killed. `CHECK_DEADLOCK
FALSE` appears where a run comes to its end; `Stack` is checked for deadlock.

## 4. What is proved

`DescentStackProofs`, for all finite sets of shapes, all node sets, references and
limits (`DepthAssumption`, `FocusAssumption`, `ShapesAssumption`, `RefsAssumption`):

- `TypeCorrect`, `VisitedExact`, `CleanStack`: `SeenIsPairs` is not inductive.
  Removing the pairs above a mark by value is right only if none of them also
  stands below it, and that holds only because focus sets are filtered before
  they are pushed. The invariant `IInv` adds that marks rise with the frames and
  stay within the vector (`Marks`), that what different frames pushed is disjoint
  while one frame may hold a pair twice (`Disjoint`), and that calls nest
  (`Nesting`: `bases` rise, `depth` is their number). One lemma per effect —
  `PushKeeps`, `PopKeeps`, `NestKeeps` — and one step per action.
- `FilterIdle`, `ShallowNesting`: with a rank that falls along every reference,
  `Ranked` says ranks fall from frame to frame and that every standing pair
  belongs to a frame of its shape. A shape that can be entered has a smaller rank
  than every standing one, hence no standing pair; and calls are no more than
  ranks. `FilterIdle` is what lets `is_focus_separable` split a shapes graph
  without cycles over threads.

The closure in `InferenceProofs`, for all finite sets of terms, graphs and limits:

- `TypeCorrect`, `AnswerClosed`: equal lengths of two sets, one inside the other
  and finite, mean that the round added nothing, so the answer is closed.
- `AnswerLeast`, `RefusalDeserved`: every closed graph around the input contains
  what is held, since deriving is monotone; a refusal therefore means that all of
  them are past the limit.

The rules in `InferenceProofs`, for any set of well-formed calls
(`InputsAssumption`), so for any number of shapes, rules and levels, any graph and
any limits. The theorems have one hypothesis, `OrdersCompare`: every order is a
number. With a NaN among them `Precedes` is no order, and a level is not what the
boundary test makes of it.

- `InferenceInductive`: `PassAt` says where a pass is. `current` is what the
  levels before this one leave; `work` holds the entries of this level still to
  run and every entry of the later ones, in line (`InLine`: none precedes one
  before it); `pending` has at least what the entries already run infer and at
  most what the whole level does; and none of the entries run so far was broken.
  That the levels rise along the work list is `WorkListIs`: putting an entry in
  after the last one it does not precede keeps the list in line (`InsertKeeps`).
  Choosing the level with i - 1 before it enumerates them in the same order
  (`LevelLine`), so the entry after a boundary opens the next level and skips none
  (`PassAcross`).
- `ByLevels`, `BrokenHeard`: at the end of a pass the work list is empty, so the
  bounds on `pending` meet; and a pass that ends has met no target, condition,
  expression or rule that fails on the graph its level starts from. An entry fires
  every rule of its shape with its pair of orders, and that changes nothing
  because the result is a set.
- `Fixpoint`: a pass only adds, so an equal length means an equal graph, and the
  graph it began with is then its own result.

`EngineProofs`, for every compiled shapes graph (`DefsAssumption`: constraints name
shapes of the graph, paths and numbers are of their types), every input about it
(`InputsAssumption`: the graph of a run holds what its shapes refer to, and what is
asked is about nodes of the data), any limits and number of threads:

- `EngineInductive`, `EngineFollowsGuard`, `Follows`: each action of the engine is
  a step of `DescentStack` or a stutter. `Inv` has the guard's own `IInv` of what
  `Standing` and `Bases` show, and what the engine has to keep besides: a frame is
  of a shape of the graph and its position is within its constraints (`FramesOK`);
  each call but the first was made by a frame that waits for its answer, so a
  return finds the question it belongs to (`CallsOK`); the driver has a job while
  it validates, a candidate while it tests one, and no call stands between jobs
  (`DriverOK`). `Follows` is the property of the run; its premise, that every
  sequence of nodes may be a focus set, is no restriction of the engine: it lifts
  the one that TLC needs.
- `EngineUnwinds`, `AcyclicRunIsCalm`: what is proved of the guard then holds of
  the engine, without looking at the engine again. Two jobs, two pieces of work or
  two questions never see each other's visited pairs, whatever way each ended; and
  below a shape that no recursion is reached from, a report does not depend on
  which focus nodes came together, which is the premise of the parallel split.
- `ErrorsAreReasoned`: a run over shapes none of which `CanFail`, and in which
  questions do not nest past the limit, ends with a report. That a run is
  `failing` says little in itself, so the invariant keeps why. `Lines` says that
  every job, question and piece is about a shape the run was given; `Chain` that
  the frames of call n lie under a shape that can be entered n questions deep,
  each reached from the one below by properties; `Blamed` that an error standing
  anywhere, in a call, in a piece or at the end, has its reason in the shapes.
  There is a lemma for each place an error comes from: the value nodes of a root,
  of a nested or of an asked shape (`PushFails`, `CallFails`, `DescendHasReason`),
  what a constraint evaluates (`FailHasReason`, `NoQuestionsHasReason`), a SPARQL
  target (`TargetsHaveReason`), and a question past the limit, which shows a shape
  in `Nested[MaxDepth]` (`AskReasons`). Descending along `sh:property` stays in
  its call, so the length of a chain of data is no reason.

The cycle search in `SeparabilityProofs`, for every array of lists of children
(`Arena`, the hypothesis of its theorems, which compiling discharges):

- `SearchIsRight`: "acyclic" is right only because what is black is closed under
  reference and free of cycles, and that is kept only because a shape is blackened
  when all its children are black — which `Behind` says of the children to the left
  of each cursor on the stack. "Cycle" is right because the stack is a path
  (`Path`), so a grey child lies on a cycle. Reaching is stated without paths: a
  shape is in every set that holds its children and is closed under reference.
- `AcyclicIsRanked`: ranking each shape by how many lie below it makes every
  reference fall. This is the premise of `FilterIdle` and `ShallowNesting`, so an
  answer of "acyclic" really does license splitting the focus nodes.

Compiling in `SeparabilityProofs`, for every set of finite shapes graphs over
numbered terms and every answer of the parsers for paths, queries and regexes
(`GraphsAssumption`); its theorems are about `SpecAll`, compiling and then
searching:

- `ArenaInvariant`: none of the properties is inductive. `ReadRight` says what
  the pure reading gives: each body lists the statements of the graph it should,
  in some order, each once. `Numbering`, `Worklist`, `Phases` and `NoneBeyond` are
  about the compiler's own state: numbers and nodes correspond one to one; what is
  numbered is compiled with the right numbers or pending exactly once; nothing is
  numbered that the discovered shapes do not lead to.
- `OneNumberEach`, `FindsTheReachable`, `NumbersResolve`, `MalformedFails` follow
  when the stack is empty. "Reachable" is the least set that holds what is
  `Announced` and not `Overlooked`, and is closed under what statements name; that
  this is what `discover` starts from is a lemma (`SoughtIsAnnounced`).
- `AnswersForTheGraph`, `AcyclicGraphIsRanked`: the finished arena satisfies
  `Arena`, and reaching in the arena is reaching in the graph (`ReachesAsNode`), so
  the two facts about the search become facts about shapes graphs.

`IndexCacheProofs`, for any finite set of runs (`RunsAssumption`), any contents,
places, syntaxes and worlds (`WorldsAssumption`):

- `SteadyWhole`, `BuildDone`: the one builder owns the temporary name from
  `Create` to `Rename`, and nobody has the installed file open for writing; what a
  crashed run left behind is truncated by the next `Create`. That the file under
  `index` is whole needs both.
- `OverlapWhole`: builders may share a file. The argument is that every image
  they write is the same one, as the document is neither edited nor read under two
  syntaxes, and that a file that is not whole has a writer still. `OneSyntax` is
  needed: two builders that read the document as different formats can leave the
  head of one image and the tail of the other.
- `NeverStale`: an index, installed or being written, holds the graph its digest
  belongs to, so equal digests mean equal graphs. `Steady` excludes the edit in the
  middle of a build, of which `IndexEdited` is the counterexample; `OneSyntax` and
  a file that stays where it is exclude the two things the digest does not cover.

`CliRunProofs`, for any set of well-typed calls (`CallsAssumption`), with any
number of results:

- `SkipsNothing`, `Materialised`: `Passed` and the two invariants about the graphs
  carry what each stage has shown to the stages after it, for as long as the run
  is not refused.
- `ExitCode`: a run that stops early has met a result that decides the verdict;
  and the severities the code disallows are those the flags' own words say break
  conformance, but for `Overruled` calls.
  `CapIsSafe` is its premise: a cap of zero stops before looking, and with no
  blocking list the cap counts every result (`CliDefaultCap`).

`LoadProofs`, for any documents (`InputsAssumption`: sequences of units that have a
length and the shape of what a parser gives, `UnitOK`; at least one of them data,
since `--data` is required), any vocabulary (`VocabularyAssumption`: it is a
sequence), any least length (`MinTextAssumption`) and any number of workers
(`ThreadsAssumption`). `DocumentsAssumption` bounds how many documents there are:
`load_all` gives the documents of data the scopes from 16 and those of shapes the
scopes from 1040, so from the 1025th document of data on they are the same, and the
comment at `main.rs:656` that they "cannot collide" is true up to there.

- `LoadIsRight`: the inductive invariant. `StoreRight` says that strings and triple
  terms are listed once, that a term refers only to what is there (a literal's
  datatype to an IRI), and that the table of its kind leads from its identity to
  its id and back. One lemma per interning method (`NamedNodeEntered`,
  `BlankNodeEntered`, `PushedEntered`, `LiteralEntered`, `TripleTermEntered`); what
  makes them go through is that nothing that was there is lost (`Grows`). `Indexed`
  says that the three arrays of a graph are the same triples, turned, each in
  ascending order, with the offset table of each.
- `LookupsFind`: in ascending rows the leading column never falls, so the offsets
  of `Starts` are partition points and `Run` is what lies between two of them; led
  by one term, the next column never falls either, so `Prefix2` is a run again. A
  lookup of two terms has the right order, too: both sequences rise in the column
  that is left, and a set has one rising sequence (`OneRising`).
- `RestoresTheStore`: `FromParts` derives the tables from the list of terms. They
  are the ones that interning built because every entry leads to a term of its kind
  and every term is led to by its own entry.
- `FailsRight`: `ParseInvariant` says that a worker has found an error just where
  the text it was given has one, that each chunk merged so far had none, and that
  every document before this one parses as a whole. That the texts parse just when
  the document does takes the most: the cuts rise and each is the end of a unit,
  so the stretches tile the units after the prologue (`StretchesTile`,
  `TextsAre`); the units that declare are all in the prologue when the document is
  tame and may be split (`PrologueFirst`), so after it the prefixes known no
  longer change and reading can go on with any unit (`UnitRead`, `TextRead`,
  `ReadOn`).
- `LoadsAsWritten`: whatever the cut and whichever worker is done first, each term
  has the id that its place in the text gives it, and each graph has the triples its
  documents state. The invariant is `ShowInvariant`: as long as the document at hand
  parses as a whole, `Sofar` holds, which says that the store shows the terms met
  in the first v triples of the document (`Shows`), and that the rows and the
  graphs stand for just the triples read (`Depicts`). It takes four arguments. What
  interning does to a store is what `Meet` does to a list of terms, for each kind
  of term (`IriShown`, `BlankShown`, `LiteralShown`, `TripleShown`, `TermsShown`); a
  blank node is known by its scope and label, and N says which node of which
  document that is. A text's triples are triples of the document in order, the
  prologue's again and then its stretch's (`Layout`), with anonymous nodes numbered
  from the start of the text instead of that of the document, so that a label
  goes with a node one to one (`PieceAlike`, `NamesApart`, `LayoutExists`); it is
  here that a tame document's directives must not make nodes. No two documents
  and no two chunks share a scope (`JobsOfInputApart`, `ScopesApart`,
  `NodeNamesDistinct`). And the documents of one graph stand together, so that a
  graph is complete when the next document is for another (`ToldTogether`).

`LoadIsRight`, `LookupsFind` and `RestoresTheStore` need nothing of what the parser
gives, `FailsRight` only that units have a length; the rest of `UnitOK` and
`DocumentsAssumption` are for `LoadsAsWritten`.

`SequenceFacts` has what these proofs share: the least number of a set (which
stands in for induction), members and places of concatenations, `FlattenSeq`, and
that choosing the element with i - 1 before it enumerates a finite ordered set.

Only model-checked: liveness and everything that needs `ENABLED` (out of the
prover's reach); that the engine's report is the one of `RecursiveForm`, whole, in
pieces or under a cap, and the comparisons of paths and expressions with
their references (their modules have RECURSIVE operators, and what those compute is
an induction over data); `AnswersTheTable`, whose table is an instance's.

## 5. Abstractions

- Terms are model values or small numbers, literals included; comparison,
  datatypes, regexes and formats are behind tables (`bad`, `rank`, `lang`, `lex`).
- A result carries shape, constraint kind, focus node, path, value and severity.
  Messages and details are left out.
- Predicates of lists and reifiers count as ignored in closed shapes.
- Expressions, queries and SPARQL functions answer by a table of the instance: in
  the engine and the rules a partial one, by node, without an entry where evaluation
  fails; in `NodeExpr` by constants. Integers computed there
  stay within 499 of zero; `min`, `max` and `orderBy` compare numbers only, since
  over mixed datatypes the comparison is no total order.
- `apply_iterated` uses the default limit; `in.max` stands for it.
- A Turtle text is a sequence of stretches that end at a statement's dot, with a
  length, what it starts with, and what the parser makes of it. Lengths decide
  where it is cut. The parts of a triple term are no triple terms themselves.
  `LoadedAsWritten` is about documents whose declarations show as
  such (`Tame`).
- Ids and offsets have no width; digests do not collide; an index file has two
  blocks.
- A graph in `CliRun` is the set of what was materialised into it.
- Timing, progress output and formatting are left out everywhere.

Not modelled: the SPARQL adapter beyond what its solutions do in a report (it
rewrites query text for, and converts terms to and from, an external engine);
datatypes and comparison (pure functions over literal forms with no state);
writing a report as RDF; the Turtle grammar, decompression and fetching (library
and I/O); the index file's byte layout; the Python and WebAssembly bindings
(argument conversion around calls modelled here); test harness, benchmarks,
examples.

## 6. Plan

Done: the guard and its proofs, the engine with every kind of constraint and the
parallel split, RDFS and its proofs, rules, the shapes compiler with its search,
paths, value sets, node expressions, term store, graph, loader, index cache,
command line. Proved: the guard, the engine's refinement of it and why a run may
fail, RDFS, the rules, the index cache, the command line, the cycle search, the
shapes compiler, the loader with its store, its graphs and its chunks.

To model if it can be done faithfully: a node expression's question to the engine
as a nested run with a guard of its own, which would state what bounds it.
