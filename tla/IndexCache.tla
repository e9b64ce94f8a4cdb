----------------------------- MODULE IndexCache -----------------------------
(***************************************************************************)
(* The parsed-graph cache of the command line: `data.ttl.shix` beside      *)
(* `data.ttl`, written by runs that pass --build-index and read by every   *)
(* run that does not pass --no-index, while somebody edits the source.     *)
(*                                                                         *)
(* The bytes of a document are a member of Contents and its digest is the  *)
(* content itself (a 64-bit collision is not modelled).  What parsing      *)
(* makes of them depends also on where the file lies, which is the base of *)
(* its relative IRIs, and on the syntax the run was told to read.  A file  *)
(* is two blocks, since a buffered writer needs more than one write.       *)
(***************************************************************************)
EXTENDS Naturals, FiniteSets

CONSTANTS Runs,             \* identities of runs; each happens once
          Contents,         \* what the source file may hold
          Places,           \* directories the source and its index may be in
          Formats,          \* the syntaxes a run may read the source as
          Worlds            \* what may happen around the runs, see World

\* How many --build-index runs may overlap, whether the source may be edited
\* (between builds, or in the middle of one as well) and whether it may move.
World == [builders : Nat, edits : {"never", "between", "during"}, moves : BOOLEAN]

ASSUME RunsAssumption == Runs \subseteq Nat \ {0} /\ IsFiniteSet(Runs)
ASSUME WorldsAssumption == Worlds \subseteq World

VARIABLES world,    \* the world the runs are in
          source,   \* the bytes of the data file
          place,    \* the directory it is in
          index,    \* the file at `<data>.shix`, 0 when there is none
          temp,     \* the file at `<data>.shix.tmp`, 0 when there is none
          files,    \* the blocks of the file each run would create
          pc,       \* what each run does next
          build,    \* whether it was given --build-index
          format,   \* the syntax it reads the source as
          digest,   \* the bytes it last digested
          graph,    \* the graph it validates
          handle    \* the file it has open for writing

env   == <<world, source, place>>
disk  == <<index, temp, files>>
local == <<build, format, digest, graph, handle>>
vars  == <<env, disk, pc, local>>

Parsed(c, p, f) == [content |-> c, place |-> p, format |-> f]

\* An index file's contents: the digest it opens with and the graph it holds.
Image(d, g) == [source |-> d, graph |-> g]

\* A block is the image it belongs to, or {} when nothing was written there.
Empty == [head |-> {}, tail |-> {}]

Whole(f) == f.head # {} /\ f.head = f.tail

Holds(f, i) == i \in f.head /\ i \in f.tail

Working == {"probe", "digest", "open", "parse", "redigest", "create", "head",
            "tail", "rename"}

Active(r) == pc[r] \in Working

Builders == {r \in Runs : Active(r) /\ build[r]}

Goes(r, to) == pc' = [pc EXCEPT ![r] = to]

-----------------------------------------------------------------------------
Init ==
    /\ world \in Worlds
    /\ source \in Contents
    /\ place \in Places
    /\ index = 0
    /\ temp = 0
    /\ files = [r \in Runs |-> Empty]
    /\ pc = [r \in Runs |-> "idle"]
    /\ build = [r \in Runs |-> FALSE]
    /\ format \in [Runs -> Formats]
    /\ digest = [r \in Runs |-> source]
    /\ graph = [r \in Runs |-> Parsed(source, place, format[r])]
    /\ handle = [r \in Runs |-> 0]

\* A run begins; --no-index sends it straight to the parser.
Start(r, builds) ==
    /\ pc[r] = "idle"
    /\ builds => Cardinality(Builders) < world.builders
    /\ build' = [build EXCEPT ![r] = builds]
    /\ Goes(r, "probe") \/ Goes(r, "parse")
    /\ UNCHANGED <<env, disk, format, digest, graph, handle>>

\* `path.is_file()`.
Probe(r) ==
    /\ pc[r] = "probe"
    /\ Goes(r, IF index # 0 THEN "digest" ELSE "parse")
    /\ UNCHANGED <<env, disk, local>>

DigestSource(r) ==
    /\ pc[r] = "digest"
    /\ digest' = [digest EXCEPT ![r] = source]
    /\ Goes(r, "open")
    /\ UNCHANGED <<env, disk, build, format, graph, handle>>

\* The file opens with the digest of these bytes.
Matches(f, d) == \E h \in f.head : h.source = d

\* Mutant of Accept: the digest is not compared.
Accept_Unchecked(r) ==
    /\ pc[r] = "open"
    /\ index # 0
    /\ \E i \in files[index].tail : graph' = [graph EXCEPT ![r] = i.graph]
    /\ Goes(r, "answered")
    /\ UNCHANGED <<env, disk, build, format, digest, handle>>

\* The index records the digest and decodes: its graph is the answer.  Blocks
\* of two images may decode too, when their layouts agree, and the triples
\* are in the second.
Accept(r) ==
    /\ pc[r] = "open"
    /\ index # 0
    /\ Matches(files[index], digest[r])
    /\ \E i \in files[index].tail : graph' = [graph EXCEPT ![r] = i.graph]
    /\ Goes(r, "answered")
    /\ UNCHANGED <<env, disk, build, format, digest, handle>>

\* Every other index is passed over, and the source parsed.
Ignore(r) ==
    /\ pc[r] = "open"
    /\ \/ index = 0
       \/ ~Whole(files[index])
       \/ ~Matches(files[index], digest[r])
    /\ Goes(r, "parse")
    /\ UNCHANGED <<env, disk, local>>

Parse(r) ==
    /\ pc[r] = "parse"
    /\ graph' = [graph EXCEPT ![r] = Parsed(source, place, format[r])]
    /\ Goes(r, IF build[r] THEN "redigest" ELSE "answered")
    /\ UNCHANGED <<env, disk, build, format, digest, handle>>

\* `write_index` reads the source again for its digest.
Redigest(r) ==
    /\ pc[r] = "redigest"
    /\ digest' = [digest EXCEPT ![r] = source]
    /\ Goes(r, "create")
    /\ UNCHANGED <<env, disk, build, format, graph, handle>>

\* `File::create` truncates the temporary file that is there, or makes one.
Create(r) ==
    /\ pc[r] = "create"
    /\ temp' = IF temp = 0 THEN r ELSE temp
    /\ files' = [files EXCEPT ![temp'] = Empty]
    /\ handle' = [handle EXCEPT ![r] = temp']
    /\ Goes(r, "head")
    /\ UNCHANGED <<env, index, build, format, digest, graph>>

\* Mutant of WriteHead: the writer's last block is never flushed.
WriteHead_Unflushed(r) ==
    /\ pc[r] = "head"
    /\ files' = [files EXCEPT ![handle[r]].head = {Image(digest[r], graph[r])}]
    /\ Goes(r, "rename")
    /\ UNCHANGED <<env, index, temp, local>>

WriteHead(r) ==
    /\ pc[r] = "head"
    /\ files' = [files EXCEPT ![handle[r]].head = {Image(digest[r], graph[r])}]
    /\ Goes(r, "tail")
    /\ UNCHANGED <<env, index, temp, local>>

WriteTail(r) ==
    /\ pc[r] = "tail"
    /\ files' = [files EXCEPT ![handle[r]].tail = {Image(digest[r], graph[r])}]
    /\ Goes(r, "rename")
    /\ UNCHANGED <<env, index, temp, local>>

\* Mutant of Rename: an index that is there is not replaced.
Rename_KeepsIndex(r) ==
    /\ pc[r] = "rename"
    /\ temp # 0
    /\ index' = IF index = 0 THEN temp ELSE index
    /\ temp' = 0
    /\ Goes(r, "answered")
    /\ UNCHANGED <<env, files, local>>

\* `rename` moves whatever file the temporary name names by now.
Rename(r) ==
    /\ pc[r] = "rename"
    /\ temp # 0
    /\ index' = temp
    /\ temp' = 0
    /\ Goes(r, "answered")
    /\ UNCHANGED <<env, files, local>>

RenameFails(r) ==
    /\ pc[r] = "rename"
    /\ temp = 0
    /\ Goes(r, "failed")
    /\ UNCHANGED <<env, disk, local>>

\* The process stops; its files stay as they are.
Crash(r) ==
    /\ Active(r)
    /\ Goes(r, "dead")
    /\ UNCHANGED <<env, disk, local>>

\* Somebody saves other bytes over the source.
Edit(c) ==
    /\ c # source
    /\ world.edits # "never"
    /\ world.edits = "during" \/ \A r \in Runs : pc[r] # "redigest"
    /\ source' = c
    /\ UNCHANGED <<world, place, disk, pc, local>>

\* The source is moved between runs, and its index with it.
Move(p) ==
    /\ world.moves
    /\ p # place
    /\ \A r \in Runs : ~Active(r)
    /\ place' = p
    /\ UNCHANGED <<world, source, disk, pc, local>>

Step(r) ==
    \/ \E builds \in BOOLEAN : Start(r, builds)
    \/ Probe(r) \/ DigestSource(r) \/ Accept(r) \/ Ignore(r)
    \/ Parse(r) \/ Redigest(r)
    \/ Create(r) \/ WriteHead(r) \/ WriteTail(r)
    \/ Rename(r) \/ RenameFails(r)

Next ==
    \/ \E r \in Runs : Step(r) \/ Crash(r)
    \/ \E c \in Contents : Edit(c)
    \/ \E p \in Places : Move(p)

Spec == Init /\ [][Next]_vars

-----------------------------------------------------------------------------
\* What a run takes from the cache is what parsing the bytes it has just
\* digested would have given it: "the cache cannot go stale".
CacheAnswersForSource ==
    [][\A r \in Runs :
           Accept(r) => graph'[r] = Parsed(digest[r], place, format[r])]_vars

\* One builder at a time, and nobody touches the source in the middle of a build.
Steady == world.builders <= 1 /\ world.edits # "during"

\* Every run is told to read the source as the same syntax.
OneSyntax == \A q, r \in Runs : format[q] = format[r]

\* In a steady world with one syntax, and while the file stays where it is, it
\* cannot: an index left by a run that crashed, or that is older than an edit,
\* is not taken.
SteadyCacheAnswers ==
    [][\A r \in Runs : Steady /\ OneSyntax /\ ~world.moves /\ Accept(r) =>
           graph'[r] = Parsed(digest[r], place, format[r])]_vars

\* No crash, and nothing a lone builder does, leaves a half-written index
\* behind: the file under the index's name is always whole.
IndexWhole == index # 0 => Whole(files[index])
SteadyIndexWhole == Steady => IndexWhole

\* A lone build that reports success has installed its own graph under its own
\* digest, whatever a run that died before it left on disk.
BuildInstalls ==
    [][\A r \in Runs : Steady /\ Rename(r) =>
           Holds(files'[index'], Image(digest[r], graph[r]))]_vars

\* Whatever any number of builders of one document do to each other's temporary
\* file, the index is whole whenever nobody is at work, unless one has crashed.
OverlapSettles ==
    /\ world.edits = "never"
    /\ OneSyntax
    /\ \A r \in Runs : pc[r] \in {"idle", "answered", "failed"}
    => IndexWhole

=============================================================================
