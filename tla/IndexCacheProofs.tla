-------------------------- MODULE IndexCacheProofs --------------------------
(***************************************************************************)
(* Theorems about the index cache, for any finite number of runs, any      *)
(* documents, places and syntaxes, with a crash of any run at any step.    *)
(* In a steady world the argument is that the one builder owns the         *)
(* temporary name from Create to Rename; when builders overlap it is that  *)
(* every image they write is the same, and that an unfinished file still   *)
(* has a writer.                                                           *)
(***************************************************************************)
EXTENDS IndexCache, FiniteSetTheorems, TLAPS

Graph == [content : Contents, place : Places, format : Formats]
Images == [source : Contents, graph : Graph]
File == [head : SUBSET Images, tail : SUBSET Images]

\* The steps at which a run holds the graph it will write, its digest as well,
\* and a file of its own.
Parsing == {"redigest", "create", "head", "tail", "rename"}
Digested == {"create", "head", "tail", "rename"}
Writing == {"head", "tail", "rename"}

TypeOK ==
    /\ world \in Worlds
    /\ source \in Contents
    /\ place \in Places
    /\ index \in Runs \cup {0}
    /\ temp \in Runs \cup {0}
    /\ files \in [Runs -> File]
    /\ pc \in [Runs -> Working \cup {"idle", "answered", "failed", "dead"}]
    /\ build \in [Runs -> BOOLEAN]
    /\ format \in [Runs -> Formats]
    /\ digest \in [Runs -> Contents]
    /\ graph \in [Runs -> Graph]
    /\ handle \in [Runs -> Runs \cup {0}]

\* The file known by the name of its run exists.
Created(r) == handle[r] = r

\* Only a run that builds gets past Parse; a run has no file before Create; the
\* file it writes and those that are named exist; two names never name one.
Names ==
    /\ \A r \in Runs : pc[r] \in Parsing => build[r]
    /\ \A r \in Runs : pc[r] \in (Working \cup {"idle"}) \ Writing => handle[r] = 0
    /\ \A r \in Runs : pc[r] \in Writing => handle[r] \in Runs /\ Created(handle[r])
    /\ index # 0 => Created(index)
    /\ temp # 0 => Created(temp)
    /\ temp # 0 => index # temp

\* What a run means to write.
Intended(r) == Image(digest[r], graph[r])

-----------------------------------------------------------------------------
\* Steady worlds.

OneBuilder == \A q, r \in Builders : q = r

\* A builder's graph is the parse of the bytes it digests afterwards, in the
\* syntax it reads, and in this place unless the document moves.
Agrees(d, g) ==
    /\ g.content = d
    /\ OneSyntax => \A r \in Runs : g.format = format[r]
    /\ ~world.moves => g.place = place

Builds(r) ==
    /\ pc[r] = "redigest" => Agrees(source, graph[r])
    /\ pc[r] \in Digested => Agrees(digest[r], graph[r])
    /\ pc[r] \in Writing => temp # 0 /\ handle[r] = temp
    /\ pc[r] \in {"tail", "rename"} => files[temp].head = {Intended(r)}
    /\ pc[r] = "rename" => files[temp].tail = {Intended(r)}

\* The installed index is one image, and its graph the parse of its digest.
Installed ==
    index # 0 =>
        \E d \in Contents, g \in Graph :
            /\ files[index] = [head |-> {Image(d, g)}, tail |-> {Image(d, g)}]
            /\ Agrees(d, g)

SteadyInv == Steady => OneBuilder /\ (\A r \in Runs : Builds(r)) /\ Installed

-----------------------------------------------------------------------------
\* Overlapping builders of one document.

Alike == world.edits = "never" /\ OneSyntax /\ \A r \in Runs : pc[r] # "dead"

\* The image every builder writes now.
Current == {Image(source, Parsed(source, place, format[r])) : r \in Runs}

\* A file lacks a block only while somebody is about to write it; once it has
\* both, they are one image; and while it has a writer they are the current one.
Finishing(i) ==
    /\ files[i].head = {} => \E r \in Runs : pc[r] = "head" /\ handle[r] = i
    /\ files[i].tail = {} => \E r \in Runs : pc[r] \in {"head", "tail"} /\ handle[r] = i
    /\ files[i].head # {} /\ files[i].tail # {} => files[i].head = files[i].tail
    /\ \A r \in Runs : pc[r] \in Writing /\ handle[r] = i =>
           files[i].head \subseteq Current /\ files[i].tail \subseteq Current

\* What a builder has parsed and digested is the text as it still is.
Carries(r) ==
    /\ pc[r] \in Parsing => graph[r] = Parsed(source, place, format[r])
    /\ pc[r] \in Digested => digest[r] = source

\* The temporary name is the file of a run that has still to rename it.
Claimed == temp # 0 => pc[temp] \in Writing /\ handle[temp] = temp

OverlapInv ==
    Alike =>
        /\ \A r \in Runs : Carries(r)
        /\ Claimed
        /\ \A i \in Runs : Created(i) => Finishing(i)

IInv == TypeOK /\ Names /\ SteadyInv /\ OverlapInv
-----------------------------------------------------------------------------

\* The typing every step keeps.
LEMMA TypeStep == TypeOK /\ [Next]_vars => TypeOK'
<1> SUFFICES ASSUME TypeOK, [Next]_vars PROVE TypeOK'
  OBVIOUS
<1> USE DEF TypeOK, env, disk, local, Goes, Working
<1> USE RunsAssumption
<1>1. ASSUME NEW r \in Runs, NEW b \in BOOLEAN, Start(r, b) PROVE TypeOK'
  BY <1>1 DEF Start
<1>2. ASSUME NEW r \in Runs, Probe(r) PROVE TypeOK'
  BY <1>2 DEF Probe
<1>3. ASSUME NEW r \in Runs, DigestSource(r) PROVE TypeOK'
  BY <1>3 DEF DigestSource
<1>4. ASSUME NEW r \in Runs, Accept(r) PROVE TypeOK'
  <2>1. PICK i \in files[index].tail : graph' = [graph EXCEPT ![r] = i.graph]
    BY <1>4 DEF Accept
  <2>2. i.graph \in Graph
    BY <1>4, <2>1 DEF Accept, File, Images
  <2> QED BY <1>4, <2>1, <2>2 DEF Accept
<1>5. ASSUME NEW r \in Runs, Ignore(r) PROVE TypeOK'
  BY <1>5 DEF Ignore
<1>6. ASSUME NEW r \in Runs, Parse(r) PROVE TypeOK'
  BY <1>6 DEF Parse, Parsed, Graph
<1>7. ASSUME NEW r \in Runs, Redigest(r) PROVE TypeOK'
  BY <1>7 DEF Redigest
<1>8. ASSUME NEW r \in Runs, Create(r) PROVE TypeOK'
  <2>1. temp' \in Runs /\ Empty \in File
    BY <1>8 DEF Create, Empty, File
  <2> QED BY <1>8, <2>1 DEF Create
<1>9. ASSUME NEW r \in Runs, WriteHead(r) PROVE TypeOK'
  <2>1. {Image(digest[r], graph[r])} \in SUBSET Images
    BY DEF Image, Images
  <2>2. \A file \in File :
           [file EXCEPT !.head = {Image(digest[r], graph[r])}] \in File
    BY <2>1 DEF File
  <2>3. files' \in [Runs -> File]
    BY <1>9, <2>2 DEF WriteHead
  <2> QED BY <1>9, <2>3 DEF WriteHead
<1>10. ASSUME NEW r \in Runs, WriteTail(r) PROVE TypeOK'
  <2>1. {Image(digest[r], graph[r])} \in SUBSET Images
    BY DEF Image, Images
  <2>2. \A file \in File :
           [file EXCEPT !.tail = {Image(digest[r], graph[r])}] \in File
    BY <2>1 DEF File
  <2>3. files' \in [Runs -> File]
    BY <1>10, <2>2 DEF WriteTail
  <2> QED BY <1>10, <2>3 DEF WriteTail
<1>11. ASSUME NEW r \in Runs, Rename(r) PROVE TypeOK'
  BY <1>11 DEF Rename
<1>12. ASSUME NEW r \in Runs, RenameFails(r) PROVE TypeOK'
  BY <1>12 DEF RenameFails
<1>13. ASSUME NEW r \in Runs, Crash(r) PROVE TypeOK'
  BY <1>13 DEF Crash
<1>14. ASSUME NEW c \in Contents, Edit(c) PROVE TypeOK'
  BY <1>14 DEF Edit
<1>15. ASSUME NEW p \in Places, Move(p) PROVE TypeOK'
  BY <1>15 DEF Move
<1>16. CASE UNCHANGED vars
  BY <1>16 DEF vars
<1> QED
  BY <1>1, <1>2, <1>3, <1>4, <1>5, <1>6, <1>7, <1>8, <1>9, <1>10, <1>11,
     <1>12, <1>13, <1>14, <1>15, <1>16 DEF Next, Step

\* What the two writes of a run leave in its file and in the others.
LEMMA WriteEffect ==
    ASSUME TypeOK, NEW r \in Runs, handle[r] \in Runs
    PROVE  /\ WriteHead(r) =>
                  /\ files'[handle[r]].head = {Intended(r)}
                  /\ files'[handle[r]].tail = files[handle[r]].tail
                  /\ \A i \in Runs \ {handle[r]} : files'[i] = files[i]
           /\ WriteTail(r) =>
                  /\ files'[handle[r]].tail = {Intended(r)}
                  /\ files'[handle[r]].head = files[handle[r]].head
                  /\ \A i \in Runs \ {handle[r]} : files'[i] = files[i]
<1> USE DEF TypeOK, File, Intended
<1>1. ASSUME WriteHead(r)
      PROVE  /\ files'[handle[r]] = [files[handle[r]] EXCEPT !.head = {Intended(r)}]
             /\ \A i \in Runs \ {handle[r]} : files'[i] = files[i]
  BY <1>1 DEF WriteHead
<1>2. ASSUME WriteTail(r)
      PROVE  /\ files'[handle[r]] = [files[handle[r]] EXCEPT !.tail = {Intended(r)}]
             /\ \A i \in Runs \ {handle[r]} : files'[i] = files[i]
  BY <1>2 DEF WriteTail
<1> QED BY <1>1, <1>2

\* Who has a file, and which names it has.
LEMMA NamesStep == TypeOK /\ Names /\ [Next]_vars => Names'
<1> SUFFICES ASSUME TypeOK, Names, [Next]_vars PROVE Names'
  OBVIOUS
<1> USE RunsAssumption
<1> USE DEF TypeOK, Names, Created, Working, Parsing, Writing, env, disk, local, Goes
<1>1. ASSUME NEW r \in Runs, NEW b \in BOOLEAN, Start(r, b) PROVE Names'
  <2>1. pc' \in {[pc EXCEPT ![r] = "probe"], [pc EXCEPT ![r] = "parse"]}
    BY <1>1 DEF Start
  <2>2. \A q \in Runs : pc'[q] \in Parsing => build'[q]
    <3> SUFFICES ASSUME NEW q \in Runs, pc'[q] \in Parsing PROVE build'[q]
      OBVIOUS
    <3>1. q # r /\ pc[q] \in Parsing
      BY <2>1
    <3>2. build'[q] = build[q]
      BY <1>1, <3>1 DEF Start
    <3> QED BY <3>1, <3>2
  <2>3. UNCHANGED <<index, temp, handle>>
    BY <1>1 DEF Start
  <2>4. /\ \A q \in Runs : pc'[q] \in (Working \cup {"idle"}) \ Writing => handle'[q] = 0
        /\ \A q \in Runs : pc'[q] \in Writing => handle'[q] \in Runs /\ Created(handle[q])'
        /\ index' # 0 => Created(index)'
        /\ temp' # 0 => Created(temp)'
        /\ temp' # 0 => index' # temp'
    <3>1. \A q \in Runs : \/ (pc'[q] \in {"probe", "parse"} /\ pc[q] = "idle")
                          \/ pc'[q] = pc[q]
      BY <1>1, <2>1 DEF Start
    <3> QED BY <2>3, <3>1
  <2> QED BY <2>2, <2>4
<1>2. ASSUME NEW r \in Runs, Probe(r) PROVE Names'
  BY <1>2 DEF Probe
<1>3. ASSUME NEW r \in Runs, DigestSource(r) PROVE Names'
  BY <1>3 DEF DigestSource
<1>4. ASSUME NEW r \in Runs, Accept(r) PROVE Names'
  BY <1>4 DEF Accept
<1>5. ASSUME NEW r \in Runs, Ignore(r) PROVE Names'
  BY <1>5 DEF Ignore
<1>6. ASSUME NEW r \in Runs, Parse(r) PROVE Names'
  BY <1>6 DEF Parse
<1>7. ASSUME NEW r \in Runs, Redigest(r) PROVE Names'
  BY <1>7 DEF Redigest
<1>8. ASSUME NEW r \in Runs, Create(r) PROVE Names'
  BY <1>8 DEF Create
<1>9. ASSUME NEW r \in Runs, WriteHead(r) PROVE Names'
  BY <1>9 DEF WriteHead
<1>10. ASSUME NEW r \in Runs, WriteTail(r) PROVE Names'
  BY <1>10 DEF WriteTail
<1>11. ASSUME NEW r \in Runs, Rename(r) PROVE Names'
  BY <1>11 DEF Rename
<1>12. ASSUME NEW r \in Runs, RenameFails(r) PROVE Names'
  BY <1>12 DEF RenameFails
<1>13. ASSUME NEW r \in Runs, Crash(r) PROVE Names'
  BY <1>13 DEF Crash, Active
<1>14. ASSUME NEW c \in Contents, Edit(c) PROVE Names'
  BY <1>14 DEF Edit
<1>15. ASSUME NEW p \in Places, Move(p) PROVE Names'
  BY <1>15 DEF Move
<1>16. CASE UNCHANGED vars
  BY <1>16 DEF vars
<1> QED
  BY <1>1, <1>2, <1>3, <1>4, <1>5, <1>6, <1>7, <1>8, <1>9, <1>10, <1>11,
     <1>12, <1>13, <1>14, <1>15, <1>16 DEF Next, Step

\* No step changes the world or a syntax, and a file stays where it is unless
\* the world lets it move.
LEMMA FixedStep ==
    ASSUME TypeOK, [Next]_vars
    PROVE  /\ world' = world /\ format' = format
           /\ place' = place \/ (world.moves /\ pc' = pc /\ \A r \in Runs : ~Active(r))
           /\ \A d, g : Agrees(d, g) => Agrees(d, g)'
<1>1. /\ world' = world /\ format' = format
      /\ place' = place \/ (world.moves /\ pc' = pc /\ \A r \in Runs : ~Active(r))
  <2>1. ASSUME NEW r \in Runs, Step(r) \/ Crash(r)
        PROVE  world' = world /\ format' = format /\ place' = place
    BY <2>1 DEF Step, env, disk, local, Start, Probe, DigestSource, Accept,
       Ignore, Parse, Redigest, Create, WriteHead, WriteTail, Rename, RenameFails,
       Crash
  <2>2. ASSUME NEW c \in Contents, Edit(c)
        PROVE  world' = world /\ format' = format /\ place' = place
    BY <2>2 DEF Edit, local
  <2>3. ASSUME NEW p \in Places, Move(p)
        PROVE  /\ world' = world /\ format' = format /\ pc' = pc
               /\ world.moves /\ \A r \in Runs : ~Active(r)
    BY <2>3 DEF Move, local
  <2>4. CASE UNCHANGED vars
    BY <2>4 DEF vars, env, local
  <2> QED BY <2>1, <2>2, <2>3, <2>4 DEF Next
<1>2. \A d, g : Agrees(d, g) => Agrees(d, g)'
  BY <1>1 DEF Agrees, OneSyntax
<1> QED BY <1>1, <1>2

\* A steady world never has two builders at work.
LEMMA OneBuilderStep ==
    ASSUME TypeOK, Steady, OneBuilder, [Next]_vars
    PROVE  OneBuilder'
<1>1. ASSUME NEW r \in Runs, Start(r, TRUE) PROVE OneBuilder'
  <2>1. Cardinality(Builders) < world.builders /\ world.builders <= 1
    BY <1>1 DEF Start, Steady
  <2>2. IsFiniteSet(Builders) /\ Cardinality(Builders) \in Nat
    BY RunsAssumption, FS_Subset, FS_CardinalityType DEF Builders
  <2>3. world.builders \in Nat
    BY WorldsAssumption DEF TypeOK, World
  <2>4. Builders = {}
    BY <2>1, <2>2, <2>3, FS_EmptySet
  <2>5. Builders' \subseteq {r}
    <3> SUFFICES ASSUME NEW q \in Runs, Active(q)', build'[q], q # r PROVE FALSE
      BY DEF Builders
    <3>1. Active(q) /\ build[q]
      BY <1>1 DEF Start, Goes, Active, TypeOK
    <3> QED BY <2>4, <3>1 DEF Builders
  <2> QED BY <2>5 DEF OneBuilder
<1>2. ASSUME NEW r \in Runs, Start(r, FALSE) PROVE OneBuilder'
  <2> SUFFICES ASSUME NEW q \in Builders' PROVE q \in Builders
    BY DEF OneBuilder
  <2>1. q \in Runs /\ Active(q)' /\ build'[q]
    BY DEF Builders
  <2>2. q # r
    BY <1>2, <2>1 DEF Start, TypeOK
  <2>3. pc'[q] = pc[q] /\ build'[q] = build[q]
    BY <1>2, <2>1, <2>2 DEF Start, Goes, TypeOK
  <2> QED BY <2>1, <2>3 DEF Builders, Active
<1>3. ASSUME build' = build, \A q \in Runs : Active(q)' => Active(q) PROVE OneBuilder'
  BY <1>3 DEF OneBuilder, Builders
<1>4. ASSUME NEW r \in Runs, Step(r) \/ Crash(r), \A b \in BOOLEAN : ~Start(r, b)
      PROVE  build' = build /\ \A q \in Runs : Active(q)' => Active(q)
  BY <1>4 DEF Step, Probe, DigestSource, Accept, Ignore, Parse, Redigest, Create,
     WriteHead, WriteTail, Rename, RenameFails, Crash, Goes, Active, Working,
     TypeOK, local
<1>5. ASSUME \/ \E c \in Contents : Edit(c)
             \/ \E p \in Places : Move(p)
             \/ UNCHANGED vars
      PROVE  build' = build /\ pc' = pc
  BY <1>5 DEF Edit, Move, vars, local
<1>6. ASSUME NEW r \in Runs, Step(r) \/ Crash(r) PROVE OneBuilder'
  <2>1. CASE \E b \in BOOLEAN : Start(r, b)
    BY <1>1, <1>2, <2>1
  <2>2. CASE \A b \in BOOLEAN : ~Start(r, b)
    BY <1>3, <1>4, <1>6, <2>2
  <2> QED BY <2>1, <2>2
<1>7. ASSUME build' = build, pc' = pc PROVE OneBuilder'
  BY <1>7 DEF OneBuilder, Builders, Active
<1> QED BY <1>5, <1>6, <1>7 DEF Next

\* A run's step leaves the others' local state alone, and the disk as well
\* unless the run is writing.
LEMMA LocalStep ==
    ASSUME TypeOK, NEW r \in Runs, Step(r) \/ Crash(r)
    PROVE  /\ \A q \in Runs \ {r} : /\ pc'[q] = pc[q] /\ digest'[q] = digest[q]
                                  /\ graph'[q] = graph[q] /\ handle'[q] = handle[q]
           /\ source' = source
           /\ pc[r] \notin Digested => temp' = temp /\ files' = files /\ index' = index
<1> USE DEF TypeOK, Goes, env, disk, local, Digested
<1>1. CASE \E b \in BOOLEAN : Start(r, b)
  BY <1>1 DEF Start
<1>2. CASE Probe(r) \/ DigestSource(r) \/ Accept(r) \/ Ignore(r) \/ Parse(r) \/ Redigest(r)
  BY <1>2 DEF Probe, DigestSource, Accept, Ignore, Parse, Redigest
<1>3. CASE Create(r) \/ WriteHead(r) \/ WriteTail(r) \/ Rename(r) \/ RenameFails(r)
  BY <1>3 DEF Create, WriteHead, WriteTail, Rename, RenameFails
<1>4. CASE Crash(r)
  BY <1>4 DEF Crash
<1> QED BY <1>1, <1>2, <1>3, <1>4 DEF Step

\* In a steady world a run's own steps keep what it builds.
LEMMA OwnBuildStep ==
    ASSUME TypeOK, Names, NEW r \in Runs, Builds(r), Step(r) \/ Crash(r), [Next]_vars
    PROVE  Builds(r)'
<1> USE RunsAssumption
<1> USE DEF TypeOK, Goes, Digested, Writing
<1>1. CASE \E b \in BOOLEAN : Start(r, b)
  BY <1>1 DEF Start, Builds
<1>2. CASE Probe(r) \/ DigestSource(r) \/ Accept(r) \/ Ignore(r)
  BY <1>2 DEF Probe, DigestSource, Accept, Ignore, Builds
<1>3. CASE Parse(r)
  <2>1. Agrees(source, graph[r])'
    BY <1>3 DEF Parse, Parsed, Agrees, OneSyntax, env, local
  <2> QED BY <1>3, <2>1 DEF Parse, Builds
<1>4. CASE Redigest(r)
  <2>1. Agrees(source, graph[r])'
    BY <1>4, FixedStep DEF Redigest, Builds, env
  <2> QED BY <1>4, <2>1 DEF Redigest, Builds, env
<1>5. CASE Create(r)
  <2>1. Agrees(digest[r], graph[r])'
    BY <1>5, FixedStep DEF Create, Builds
  <2> QED BY <1>5, <2>1 DEF Create, Builds
<1>6. CASE WriteHead(r)
  <2>1. Agrees(digest[r], graph[r])'
    BY <1>6, FixedStep DEF WriteHead, Builds, local
  <2>2. handle[r] \in Runs /\ handle[r] = temp /\ pc'[r] = "tail"
    BY <1>6 DEF WriteHead, Builds, Names
  <2>3. UNCHANGED <<temp, local>>
    BY <1>6 DEF WriteHead
  <2>4. files'[temp'].head = {Intended(r)'}
    BY <1>6, <2>2, <2>3, WriteEffect DEF Intended, local
  <2> QED BY <2>1, <2>2, <2>3, <2>4 DEF Builds, local
<1>7. CASE WriteTail(r)
  <2>1. Agrees(digest[r], graph[r])'
    BY <1>7, FixedStep DEF WriteTail, Builds, local
  <2>2. handle[r] \in Runs /\ handle[r] = temp /\ pc'[r] = "rename"
        /\ files[temp].head = {Intended(r)}
    BY <1>7 DEF WriteTail, Builds, Names
  <2>3. UNCHANGED <<temp, local>>
    BY <1>7 DEF WriteTail
  <2>4. files'[temp'].head = {Intended(r)'} /\ files'[temp'].tail = {Intended(r)'}
    BY <1>7, <2>2, <2>3, WriteEffect DEF Intended, local
  <2> QED BY <2>1, <2>2, <2>3, <2>4 DEF Builds, local
<1>8. CASE Rename(r) \/ RenameFails(r) \/ Crash(r)
  BY <1>8 DEF Rename, RenameFails, Crash, Builds
<1> QED BY <1>1, <1>2, <1>3, <1>4, <1>5, <1>6, <1>7, <1>8 DEF Step

\* In a steady world every step keeps what every builder builds.
LEMMA BuildsStep ==
    ASSUME TypeOK, Names, Steady, OneBuilder, \A r \in Runs : Builds(r), [Next]_vars
    PROVE  \A r \in Runs : Builds(r)'
<1>1. ASSUME NEW r \in Runs, Step(r) \/ Crash(r), NEW q \in Runs PROVE Builds(q)'
  <2>1. CASE q = r
    BY <1>1, <2>1, OwnBuildStep
  <2>2. CASE q # r /\ pc[r] \in Digested
    <3>1. pc[q] \notin Parsing
      <4> SUFFICES ASSUME pc[q] \in Parsing PROVE FALSE
        OBVIOUS
      <4>1. Active(q) /\ Active(r) /\ pc[r] \in Parsing
        BY <2>2 DEF Active, Working, Parsing, Digested
      <4>2. build[q] /\ build[r]
        BY <4>1 DEF Names
      <4> QED BY <2>2, <4>1, <4>2 DEF OneBuilder, Builders
    <3>2. pc'[q] = pc[q]
      BY <1>1, <2>2, LocalStep
    <3> QED BY <3>1, <3>2 DEF Builds, Parsing, Digested, Writing
  <2>3. CASE q # r /\ pc[r] \notin Digested
    <3>1. /\ pc'[q] = pc[q] /\ digest'[q] = digest[q] /\ graph'[q] = graph[q]
          /\ handle'[q] = handle[q] /\ source' = source /\ temp' = temp /\ files' = files
      BY <1>1, <2>3, LocalStep
    <3>2. Builds(q) /\ \A d, g : Agrees(d, g) => Agrees(d, g)'
      BY FixedStep
    <3>3. /\ Agrees(source, graph[q]) => Agrees(source, graph[q])'
          /\ Agrees(digest[q], graph[q]) => Agrees(digest[q], graph[q])'
      BY <3>1, <3>2
    <3> QED BY <3>1, <3>2, <3>3 DEF Builds, Intended
  <2> QED BY <2>1, <2>2, <2>3
<1>2. ASSUME NEW q \in Runs, pc' = pc, digest' = digest, graph' = graph, handle' = handle,
             temp' = temp, files' = files, source' = source \/ pc[q] # "redigest"
      PROVE  Builds(q)'
  <2>1. Builds(q) /\ \A d, g : Agrees(d, g) => Agrees(d, g)'
    BY FixedStep
  <2>2. /\ pc[q] = "redigest" => (Agrees(source, graph[q]) => Agrees(source, graph[q])')
        /\ Agrees(digest[q], graph[q]) => Agrees(digest[q], graph[q])'
    BY <1>2, <2>1
  <2> QED BY <1>2, <2>1, <2>2 DEF Builds, Intended
<1>3. ASSUME NEW c \in Contents, Edit(c), NEW q \in Runs PROVE Builds(q)'
  BY <1>2, <1>3 DEF Edit, Steady, disk, local
<1>4. ASSUME NEW p \in Places, Move(p), NEW q \in Runs PROVE Builds(q)'
  BY <1>2, <1>4 DEF Move, disk, local
<1>5. ASSUME UNCHANGED vars, NEW q \in Runs PROVE Builds(q)'
  BY <1>2, <1>5 DEF vars, env, disk, local
<1> QED BY <1>1, <1>3, <1>4, <1>5 DEF Next

\* In a steady world the installed index stays one image of one text.
LEMMA InstalledStep ==
    ASSUME TypeOK, Names, Steady, \A r \in Runs : Builds(r), Installed, [Next]_vars
    PROVE  Installed'
<1> USE RunsAssumption
<1>1. ASSUME index' = index, index # 0, files'[index] = files[index] PROVE Installed'
  <2>1. PICK d \in Contents, g \in Graph :
            /\ files[index] = [head |-> {Image(d, g)}, tail |-> {Image(d, g)}]
            /\ Agrees(d, g)
    BY <1>1 DEF Installed
  <2>2. Agrees(d, g)'
    BY <2>1, FixedStep
  <2> QED BY <1>1, <2>1, <2>2 DEF Installed
<1>2. ASSUME index' = index, index = 0 PROVE Installed'
  BY <1>2 DEF Installed
<1>3. ASSUME NEW r \in Runs, Step(r) \/ Crash(r), ~Rename(r) PROVE Installed'
  <2>1. CASE pc[r] \notin Digested
    BY <1>1, <1>2, <1>3, <2>1, LocalStep
  <2>2. CASE Create(r)
    <3>1. index' = index /\ (index # 0 => index # temp')
      BY <2>2 DEF Create, Names, Created, Working, Writing
    <3>2. index # 0 => files'[index] = files[index]
      BY <2>2, <3>1 DEF Create, TypeOK
    <3> QED BY <1>1, <1>2, <3>1, <3>2
  <2>3. CASE WriteHead(r) \/ WriteTail(r)
    <3>1. index' = index /\ temp # 0 /\ handle[r] = temp
      BY <2>3 DEF WriteHead, WriteTail, Builds, Writing
    <3>2. index # 0 => files'[index] = files[index]
      BY <2>3, <3>1, WriteEffect DEF Names, TypeOK
    <3> QED BY <1>1, <1>2, <3>1, <3>2
  <2>4. CASE RenameFails(r) \/ Crash(r)
    BY <1>1, <1>2, <2>4 DEF RenameFails, Crash, disk
  <2> QED BY <1>3, <2>1, <2>2, <2>3, <2>4
    DEF Step, Digested, Start, Probe, DigestSource, Accept, Ignore, Parse, Redigest
<1>4. ASSUME NEW r \in Runs, Rename(r) PROVE Installed'
  <2>1. pc[r] = "rename" /\ Builds(r) /\ temp # 0 /\ index' = temp /\ files' = files
    BY <1>4 DEF Rename
  <2>2. /\ files[temp].head = {Image(digest[r], graph[r])}
        /\ files[temp].tail = {Image(digest[r], graph[r])}
        /\ Agrees(digest[r], graph[r])
    BY <2>1 DEF Builds, Intended, Digested
  <2>3. temp \in Runs /\ files[temp] \in File /\ digest[r] \in Contents /\ graph[r] \in Graph
    BY <2>1 DEF TypeOK
  <2>4. files[temp] = [head |-> {Image(digest[r], graph[r])},
                       tail |-> {Image(digest[r], graph[r])}]
    BY <2>2, <2>3 DEF File
  <2>5. Agrees(digest[r], graph[r])'
    BY <1>4, <2>2, FixedStep DEF Rename, local
  <2> QED
    <3>1. /\ files'[index'] = [head |-> {Image(digest'[r], graph'[r])},
                              tail |-> {Image(digest'[r], graph'[r])}]
          /\ digest'[r] \in Contents /\ graph'[r] \in Graph
      BY <1>4, <2>1, <2>3, <2>4 DEF Rename, local
    <3> QED BY <2>5, <3>1 DEF Installed
<1>5. ASSUME disk' = disk PROVE Installed'
  BY <1>1, <1>2, <1>5 DEF disk
<1>6. (\E c \in Contents : Edit(c)) \/ (\E p \in Places : Move(p)) \/ UNCHANGED vars
      => disk' = disk
  BY DEF Edit, Move, vars
<1> QED BY <1>3, <1>4, <1>5, <1>6 DEF Next

\* What overlapping builders carry is not changed by anybody else.
LEMMA CarriesStep ==
    ASSUME TypeOK, \A r \in Runs : Carries(r), source' = source, [Next]_vars
    PROVE  \A r \in Runs : Carries(r)'
<1>1. ASSUME NEW r \in Runs, Step(r) \/ Crash(r), NEW q \in Runs \ {r} PROVE Carries(q)'
  <2>1. pc'[q] = pc[q] /\ digest'[q] = digest[q] /\ graph'[q] = graph[q]
    BY <1>1, LocalStep
  <2>2. format' = format /\ (pc[q] \in Parsing => place' = place)
    BY FixedStep DEF Active, Working, Parsing
  <2> QED BY <2>1, <2>2 DEF Carries, Parsing, Digested
<1>2. ASSUME NEW r \in Runs, Step(r) PROVE Carries(r)'
  <2> USE DEF TypeOK, Goes, Carries, Parsing, Digested, env, disk, local
  <2>1. CASE \E b \in BOOLEAN : Start(r, b)
    BY <1>2, <2>1 DEF Start
  <2>2. CASE Probe(r) \/ DigestSource(r) \/ Accept(r) \/ Ignore(r)
    BY <1>2, <2>2 DEF Probe, DigestSource, Accept, Ignore
  <2>3. CASE Parse(r) \/ Redigest(r)
    BY <1>2, <2>3 DEF Parse, Redigest
  <2>4. CASE Create(r) \/ WriteHead(r) \/ WriteTail(r) \/ Rename(r) \/ RenameFails(r)
    BY <1>2, <2>4 DEF Create, WriteHead, WriteTail, Rename, RenameFails
  <2> QED BY <1>2, <2>1, <2>2, <2>3, <2>4 DEF Step
<1>3. ASSUME NEW r \in Runs, Crash(r) PROVE Carries(r)'
  BY <1>3 DEF Crash, Goes, Carries, TypeOK, Parsing, Digested
<1>4. ASSUME pc' = pc, digest' = digest, graph' = graph, NEW q \in Runs PROVE Carries(q)'
  <2>1. format' = format /\ (pc[q] \in Parsing => place' = place)
    BY FixedStep DEF Active, Working, Parsing
  <2> QED BY <1>4, <2>1 DEF Carries, Parsing, Digested
<1>5. (\E c \in Contents : Edit(c)) \/ (\E p \in Places : Move(p)) \/ UNCHANGED vars
      => pc' = pc /\ digest' = digest /\ graph' = graph
  BY DEF Edit, Move, vars, local
<1> QED BY <1>1, <1>2, <1>3, <1>4, <1>5 DEF Next

\* Without a crash the run whose file has the temporary name still writes it.
LEMMA ClaimedStep ==
    ASSUME TypeOK, Names, Claimed, \A r \in Runs : pc'[r] # "dead", [Next]_vars
    PROVE  Claimed'
<1> USE RunsAssumption
<1>1. ASSUME NEW r \in Runs, Step(r), pc[r] \notin Writing, pc[r] # "create" PROVE Claimed'
  <2>1. temp' = temp /\ (temp # 0 => temp # r)
    BY <1>1, LocalStep DEF Digested, Writing, Claimed
  <2>2. temp # 0 => pc'[temp] = pc[temp] /\ handle'[temp] = handle[temp]
    BY <1>1, <2>1, LocalStep DEF TypeOK
  <2> QED BY <2>1, <2>2 DEF Claimed
<1>2. ASSUME NEW r \in Runs, Create(r) PROVE Claimed'
  <2>1. temp = 0 => temp' = r /\ handle'[r] = r /\ pc'[r] = "head"
    BY <1>2 DEF Create, Goes, TypeOK
  <2>2. temp # 0 => temp' = temp /\ temp # r
    BY <1>2 DEF Create, Claimed, Writing
  <2>3. temp # 0 => pc'[temp] = pc[temp] /\ handle'[temp] = handle[temp]
    BY <1>2, <2>2, LocalStep DEF TypeOK, Step
  <2> QED BY <2>1, <2>2, <2>3 DEF Claimed, Writing
<1>3. ASSUME NEW r \in Runs, WriteHead(r) \/ WriteTail(r) PROVE Claimed'
  BY <1>3 DEF WriteHead, WriteTail, Goes, Claimed, TypeOK, Writing, local
<1>4. ASSUME NEW r \in Runs, Rename(r) \/ RenameFails(r) PROVE Claimed'
  BY <1>4 DEF Rename, RenameFails, Claimed, disk
<1>5. ASSUME NEW r \in Runs, Crash(r) PROVE FALSE
  BY <1>5 DEF Crash, Goes, TypeOK
<1>6. ASSUME pc' = pc, handle' = handle, temp' = temp PROVE Claimed'
  BY <1>6 DEF Claimed
<1>7. (\E c \in Contents : Edit(c)) \/ (\E p \in Places : Move(p)) \/ UNCHANGED vars
      => pc' = pc /\ handle' = handle /\ temp' = temp
  BY DEF Edit, Move, vars, disk, local
<1>8. ASSUME NEW r \in Runs, Step(r)
      PROVE  \/ pc[r] \notin Writing /\ pc[r] # "create"
             \/ Create(r) \/ WriteHead(r) \/ WriteTail(r) \/ Rename(r) \/ RenameFails(r)
  BY <1>8 DEF Step, Writing, Start, Probe, DigestSource, Accept, Ignore, Parse, Redigest
<1> QED BY <1>1, <1>2, <1>3, <1>4, <1>5, <1>6, <1>7, <1>8 DEF Next

\* A file is finished by its last writer, whoever that is, since the builders
\* of one text in one syntax all hold the same image.
LEMMA FinishingStep ==
    ASSUME TypeOK, Names, \A r \in Runs : Carries(r), source' = source,
           \A r \in Runs : pc'[r] # "dead", OneSyntax,
           \A i \in Runs : Created(i) => Finishing(i), [Next]_vars
    PROVE  \A i \in Runs : Created(i)' => Finishing(i)'
<1> USE RunsAssumption
<1> DEFINE Same(i) == /\ files'[i] = files[i]
                      /\ Current' = Current \/ \A q \in Runs : pc'[q] \notin Writing
<1>1. Current' = Current \/ \A q \in Runs : pc[q] \notin Writing /\ pc'[q] \notin Writing
  <2>1. CASE place' = place
    BY <2>1, FixedStep DEF Current
  <2>2. CASE pc' = pc /\ \A r \in Runs : ~Active(r)
    BY <2>2 DEF Active, Working, Writing
  <2> QED BY <2>1, <2>2, FixedStep
<1>2. \A q, r \in Runs : Image(source, Parsed(source, place, format[q]))
                            = Image(source, Parsed(source, place, format[r]))
  BY DEF OneSyntax
<1>3. \A x \in Current, y \in Current : x = y
  BY <1>2 DEF Current
<1>4. ASSUME NEW r \in Runs, Step(r), pc[r] \notin {"create", "head", "tail"},
             NEW i \in Runs, Created(i)'
      PROVE  Finishing(i)'
  <2>1. handle' = handle /\ files' = files
    BY <1>4 DEF Step, Start, Probe, DigestSource, Accept, Ignore, Parse, Redigest,
       Create, WriteHead, WriteTail, Rename, RenameFails, local, disk
  <2>2. /\ \A q \in Runs \ {r} : pc'[q] = pc[q]
        /\ pc'[r] \notin Writing /\ pc[r] \notin {"head", "tail"}
    BY <1>4, LocalStep DEF Step, Start, Probe, DigestSource, Accept, Ignore, Parse,
       Redigest, Create, WriteHead, WriteTail, Rename, RenameFails, Goes, TypeOK, Writing
  <2>3. Finishing(i)
    BY <1>4, <2>1 DEF Created
  <2> QED BY <1>1, <2>1, <2>2, <2>3 DEF Finishing, Writing
<1>5. ASSUME NEW r \in Runs, Create(r), NEW i \in Runs, Created(i)' PROVE Finishing(i)'
  <2>1. /\ temp' \in Runs /\ files' = [files EXCEPT ![temp'] = Empty]
        /\ handle' = [handle EXCEPT ![r] = temp'] /\ pc' = [pc EXCEPT ![r] = "head"]
        /\ pc[r] = "create"
    BY <1>5 DEF Create, Goes, TypeOK
  <2>2. CASE i = temp'
    <3>1. files'[i].head = {} /\ files'[i].tail = {}
      BY <2>1, <2>2 DEF Empty, TypeOK
    <3>2. pc'[r] = "head" /\ handle'[r] = i
      BY <2>1, <2>2 DEF TypeOK
    <3> QED BY <3>1, <3>2 DEF Finishing
  <2>3. CASE i # temp'
    <3>1. i # r
      BY <1>5, <2>1, <2>3 DEF Created, TypeOK
    <3>2. Created(i) /\ files'[i] = files[i]
      BY <1>5, <2>1, <2>3, <3>1 DEF Created, TypeOK
    <3>3. Finishing(i)
      BY <3>2
    <3>4. /\ \A q \in Runs \ {r} : pc'[q] = pc[q] /\ handle'[q] = handle[q]
          /\ handle'[r] # i
      BY <2>1, <2>3 DEF TypeOK
    <3> QED BY <1>1, <2>1, <3>2, <3>3, <3>4 DEF Finishing
  <2> QED BY <2>2, <2>3
<1>6. ASSUME NEW r \in Runs, WriteHead(r), NEW i \in Runs, Created(i)' PROVE Finishing(i)'
  <2>1. pc[r] = "head" /\ pc' = [pc EXCEPT ![r] = "tail"] /\ handle' = handle
    BY <1>6 DEF WriteHead, Goes, local
  <2>2. Created(i) /\ handle[r] \in Runs
    BY <1>6, <2>1 DEF Created, Names, Writing
  <2>3. Finishing(i) /\ Intended(r) \in Current /\ Current' = Current
    BY <1>1, <2>1, <2>2 DEF Carries, Parsing, Digested, Intended, Current, Writing
  <2>4. CASE i # handle[r]
    <3>1. files'[i] = files[i]
      BY <1>6, <2>2, <2>4, WriteEffect
    <3> QED BY <2>1, <2>3, <2>4, <3>1 DEF Finishing, TypeOK, Writing
  <2>5. CASE i = handle[r]
    <3>1. files'[i].head = {Intended(r)} /\ files'[i].tail = files[i].tail
      BY <1>6, <2>2, <2>5, WriteEffect
    <3>2. files[i].tail \subseteq Current
      BY <2>1, <2>3, <2>5 DEF Finishing, Writing
    <3>3. files[i].tail # {} => files[i].tail = {Intended(r)}
      BY <1>3, <2>3, <3>2
    <3>4. pc'[r] = "tail" /\ handle'[r] = i
      BY <2>1, <2>5 DEF TypeOK
    <3> QED BY <2>3, <3>1, <3>2, <3>3, <3>4 DEF Finishing
  <2> QED BY <2>4, <2>5
<1>7. ASSUME NEW r \in Runs, WriteTail(r), NEW i \in Runs, Created(i)' PROVE Finishing(i)'
  <2>1. pc[r] = "tail" /\ pc' = [pc EXCEPT ![r] = "rename"] /\ handle' = handle
    BY <1>7 DEF WriteTail, Goes, local
  <2>2. Created(i) /\ handle[r] \in Runs
    BY <1>7, <2>1 DEF Created, Names, Writing
  <2>3. Finishing(i) /\ Intended(r) \in Current /\ Current' = Current
    BY <1>1, <2>1, <2>2 DEF Carries, Parsing, Digested, Intended, Current, Writing
  <2>4. CASE i # handle[r]
    <3>1. files'[i] = files[i]
      BY <1>7, <2>2, <2>4, WriteEffect
    <3> QED BY <2>1, <2>3, <2>4, <3>1 DEF Finishing, TypeOK, Writing
  <2>5. CASE i = handle[r]
    <3>1. files'[i].tail = {Intended(r)} /\ files'[i].head = files[i].head
      BY <1>7, <2>2, <2>5, WriteEffect
    <3>2. files[i].head \subseteq Current
      BY <2>1, <2>3, <2>5 DEF Finishing, Writing
    <3>3. files[i].head # {} => files[i].head = {Intended(r)}
      BY <1>3, <2>3, <3>2
    <3>4. files[i].head = {} => \E q \in Runs : pc'[q] = "head" /\ handle'[q] = i
      BY <2>1, <2>3 DEF Finishing, TypeOK
    <3> QED BY <2>3, <3>1, <3>2, <3>3, <3>4 DEF Finishing
  <2> QED BY <2>4, <2>5
<1>8. ASSUME NEW r \in Runs, Crash(r) PROVE FALSE
  BY <1>8 DEF Crash, Goes, TypeOK
<1>9. ASSUME pc' = pc, handle' = handle, files' = files, NEW i \in Runs, Created(i)'
      PROVE  Finishing(i)'
  <2>1. Finishing(i)
    BY <1>9 DEF Created
  <2> QED BY <1>1, <1>9, <2>1 DEF Finishing
<1>10. (\E c \in Contents : Edit(c)) \/ (\E p \in Places : Move(p)) \/ UNCHANGED vars
       => pc' = pc /\ handle' = handle /\ files' = files
  BY DEF Edit, Move, vars, disk, local
<1>11. ASSUME NEW r \in Runs, Step(r)
       PROVE  \/ pc[r] \notin {"create", "head", "tail"}
              \/ Create(r) \/ WriteHead(r) \/ WriteTail(r)
  BY <1>11 DEF Step, Start, Probe, DigestSource, Accept, Ignore, Parse, Redigest,
     Rename, RenameFails
<1> QED BY <1>4, <1>5, <1>6, <1>7, <1>8, <1>9, <1>10, <1>11 DEF Next

\* While nobody edits or crashes, overlapping builders keep their invariant.
LEMMA OverlapStep ==
    ASSUME TypeOK, Names, OverlapInv, [Next]_vars
    PROVE  OverlapInv'
<1> SUFFICES ASSUME Alike'
             PROVE  /\ (\A r \in Runs : Carries(r))'
                    /\ Claimed'
                    /\ (\A i \in Runs : Created(i) => Finishing(i))'
  BY DEF OverlapInv
<1> USE RunsAssumption
<1>1. /\ Alike
      /\ \A r \in Runs : Carries(r)
      /\ Claimed
      /\ \A i \in Runs : Created(i) => Finishing(i)
  <2>1. world' = world /\ format' = format
    BY FixedStep
  <2>2. \A r \in Runs : pc[r] = "dead" => pc'[r] = "dead"
    <3>1. ASSUME NEW q \in Runs, pc[q] = "dead", NEW r \in Runs, Step(r) \/ Crash(r)
          PROVE  pc'[q] = "dead"
      <4>1. q # r
        BY <3>1 DEF Step, Crash, Active, Working, Start, Probe, DigestSource, Accept,
           Ignore, Parse, Redigest, Create, WriteHead, WriteTail, Rename, RenameFails
      <4> QED BY <3>1, <4>1, LocalStep
    <3>2. (\E c \in Contents : Edit(c)) \/ (\E p \in Places : Move(p)) \/ UNCHANGED vars
          => pc' = pc
      BY DEF Edit, Move, vars
    <3> QED BY <3>1, <3>2 DEF Next
  <2>3. Alike
    BY <2>1, <2>2 DEF Alike, OneSyntax
  <2> QED BY <2>3 DEF OverlapInv
<1>2. source' = source
  <2>1. ASSUME NEW c \in Contents, Edit(c) PROVE FALSE
    BY <1>1, <2>1 DEF Edit, Alike
  <2>2. (\E p \in Places : Move(p)) \/ UNCHANGED vars => source' = source
    BY DEF Move, vars, env
  <2> QED BY <2>1, <2>2, LocalStep DEF Next
<1> QED BY <1>1, <1>2, CarriesStep, ClaimedStep, FinishingStep DEF Alike

-----------------------------------------------------------------------------

\* The inductive invariant of every world holds at the start ...
LEMMA IInvInit == Init => IInv
<1> SUFFICES ASSUME Init PROVE IInv
  OBVIOUS
<1>1. TypeOK
  <2>1. graph \in [Runs -> Graph]
    BY DEF Init, Parsed, Graph
  <2>2. files \in [Runs -> File]
    BY DEF Init, Empty, File
  <2> QED BY <2>1, <2>2 DEF Init, TypeOK
<1>2. Names
  BY RunsAssumption DEF Init, Names, Created, Parsing, Writing
<1>3. SteadyInv
  BY DEF Init, SteadyInv, OneBuilder, Builders, Active, Working, Builds, Digested,
     Writing, Installed
<1>4. OverlapInv
  BY RunsAssumption DEF Init, OverlapInv, Carries, Claimed, Created, Parsing, Digested
<1> QED BY <1>1, <1>2, <1>3, <1>4 DEF IInv

\* ... and every step of every run keeps it.
LEMMA IInvStep == IInv /\ [Next]_vars => IInv'
<1> SUFFICES ASSUME IInv, [Next]_vars PROVE IInv'
  OBVIOUS
<1>1. TypeOK' /\ Names'
  BY TypeStep, NamesStep DEF IInv
<1>2. SteadyInv'
  <2> SUFFICES ASSUME Steady' PROVE OneBuilder' /\ (\A r \in Runs : Builds(r)') /\ Installed'
    BY DEF SteadyInv
  <2>1. Steady
    BY FixedStep DEF Steady, IInv
  <2> QED BY <2>1, OneBuilderStep, BuildsStep, InstalledStep DEF IInv, SteadyInv
<1>3. OverlapInv'
  BY OverlapStep DEF IInv
<1> QED BY <1>1, <1>2, <1>3 DEF IInv

\* In every reachable state the inductive invariant holds.
THEOREM IndexInvariant == Spec => []IInv
<1> QED BY IInvInit, IInvStep, PTL DEF Spec

\* Every variable of the cache keeps its type.
THEOREM TypeCorrect == Spec => []TypeOK
<1>1. IInv => TypeOK
  BY DEF IInv
<1> QED BY <1>1, IndexInvariant, PTL

\* One builder at a time, and no edit in the middle of a build: the installed
\* index is never half-written, whoever crashed and wherever
\* (write_index renames a file it has finished).
THEOREM SteadyWhole == Spec => []SteadyIndexWhole
<1>1. IInv => SteadyIndexWhole
  <2> SUFFICES ASSUME IInv, Steady, index # 0 PROVE Whole(files[index])
    BY DEF SteadyIndexWhole, IndexWhole
  <2>1. PICK d \in Contents, g \in Graph :
            files[index] = [head |-> {Image(d, g)}, tail |-> {Image(d, g)}]
    BY DEF IInv, SteadyInv, Installed
  <2> QED BY <2>1 DEF Whole
<1> QED BY <1>1, IndexInvariant, PTL

\* Any number of builders at once, all overwriting one temporary file and one
\* of them renaming it away from the others: when nobody is at work and nobody
\* has crashed, the index is whole.
THEOREM OverlapWhole == Spec => []OverlapSettles
<1>1. IInv => OverlapSettles
  <2> SUFFICES ASSUME IInv, world.edits = "never", OneSyntax, index # 0,
                      \A r \in Runs : pc[r] \in {"idle", "answered", "failed"}
               PROVE  Whole(files[index])
    BY DEF OverlapSettles, IndexWhole
  <2>1. Alike
    BY DEF Alike
  <2>2. index \in Runs /\ Created(index)
    BY DEF IInv, TypeOK, Names
  <2>3. Finishing(index)
    BY <2>1, <2>2 DEF IInv, OverlapInv
  <2>4. files[index].head # {} /\ files[index].tail # {}
    BY <2>3 DEF Finishing
  <2> QED BY <2>3, <2>4 DEF Finishing, Whole
<1> QED BY <1>1, IndexInvariant, PTL

\* In a steady world a file that stays in its place never has a stale answer
\* taken from its index: what a run accepts is the parse of the bytes it digested.
THEOREM NeverStale == Spec => SteadyCacheAnswers
<1>1. IInv /\ [Next]_vars =>
        [\A r \in Runs : Steady /\ OneSyntax /\ ~world.moves /\ Accept(r) =>
             graph'[r] = Parsed(digest[r], place, format[r])]_vars
  <2> SUFFICES ASSUME IInv, NEW r \in Runs, Steady, OneSyntax, ~world.moves, Accept(r)
               PROVE  graph'[r] = Parsed(digest[r], place, format[r])
    OBVIOUS
  <2>1. PICK i \in files[index].tail : graph' = [graph EXCEPT ![r] = i.graph]
    BY DEF Accept
  <2>2. PICK d \in Contents, g \in Graph :
            /\ files[index] = [head |-> {Image(d, g)}, tail |-> {Image(d, g)}]
            /\ Agrees(d, g)
    BY DEF Accept, IInv, SteadyInv, Installed
  <2>3. i = Image(d, g) /\ digest[r] = d
    BY <2>1, <2>2 DEF Accept, Matches, Image
  <2>4. graph'[r] = g
    BY <2>1, <2>3 DEF Image, IInv, TypeOK
  <2>5. g.content = d /\ g.place = place /\ g.format = format[r]
    BY <2>2 DEF Agrees
  <2> QED BY <2>2, <2>3, <2>4, <2>5 DEF Graph, Parsed
<1> QED BY <1>1, IndexInvariant, PTL DEF Spec, SteadyCacheAnswers

\* In a steady world the build that renames has installed its own graph under
\* the digest it took, whatever a run that died before it left on disk.
THEOREM BuildDone == Spec => BuildInstalls
<1>1. IInv /\ [Next]_vars =>
        [\A r \in Runs : Steady /\ Rename(r) =>
             Holds(files'[index'], Image(digest[r], graph[r]))]_vars
  <2> SUFFICES ASSUME IInv, NEW r \in Runs, Steady, Rename(r)
               PROVE  Holds(files'[index'], Image(digest[r], graph[r]))
    OBVIOUS
  <2>1. pc[r] = "rename" /\ Builds(r) /\ index' = temp /\ files' = files
    BY DEF Rename, IInv, SteadyInv
  <2> QED BY <2>1 DEF Builds, Intended, Holds
<1> QED BY <1>1, IndexInvariant, PTL DEF Spec, BuildInstalls
=============================================================================
