------------------------------- MODULE ShaderMap -------------------------------
(***************************************************************************)
(* The built-in shaders compiled at start-up and the map they are found in    *)
(* later: CompileShaderMap with one task per shader type, and                 *)
(* BuiltInShaderMap::FindOrAddShader, which the tasks call from the main and  *)
(* from the I/O thread at once.                                              *)
(*                                                                         *)
(* A type is registered in the section of its source file; several types      *)
(* share a source.  The shared look-up of a section, and of a shader in it,   *)
(* and the exclusive insertion are separate critical sections, each of them   *)
(* one step here.                                                            *)
(*                                                                         *)
(* No type has an archive from an earlier start: nothing is read back.        *)
(***************************************************************************)
EXTENDS Naturals, Sequences, SequencesExt

CONSTANTS Types,    \* ShaderMeta::GetTypeList, in any order
          Count,    \* GetPermutationCount of each type
          Compiled, \* permutations of each type that ShouldCompilePermutation
          Sources,
          Source,   \* the source file of each type
          Hash(_, _), \* uint16 of type and permutation; values may collide
          NoType

\* What the constants have to be
ShadersAllowed ==
  /\ Count \in [Types -> Nat] /\ Source \in [Types -> Sources]
  /\ \A t \in Types : Compiled[t] \subseteq 0..(Count[t] - 1)
  /\ NoType \notin Types

VARIABLES
  pc,          \* where the task of each type is
  permutation, \* PermutationId of each task
  running,     \* the task that runs on each thread
  loaded,      \* sources in the asset cache
  sectionMap,  \* SectionMap: the section of a source, by the task that made it
  section,     \* section_itr of each task
  content,     \* the shaders of each section, in the order they were added
  returned     \* ghost: what FindOrAddShader returned, and to whom

taskVars == <<pc, permutation, running>>
mapVars == <<sectionMap, section, content>>
vars == <<taskVars, loaded, mapVars, returned>>

Threads == {"main", "io"}
Idle(th) == running[th] = NoType
Runs(th, t, at) == running[th] = t /\ pc[t] = at

Goes(t, to) == pc' = [pc EXCEPT ![t] = to]
Leaves(th) == running' = [running EXCEPT ![th] = NoType]

\* a RenderShader is known by the type and the permutation it was made for
Shader(t, p) == [type |-> t, permutation |-> p]
Shaders == {s \in [type : Types, permutation : Nat] :
              s.permutation \in Compiled[s.type]}

-----------------------------------------------------------------------------
(* ShaderMapContent::GetShader                                              *)

\* mutant of GetShader: all permutations of a type are one shader
GetShaderOfType(c, t, p) == {c[i] : i \in {j \in DOMAIN c : c[j].type = t}}

\* what c holds for t and p among the entries of their hash: at most one is
\* returned, the set is empty for nullptr
GetShader(c, t, p) ==
  {c[i] : i \in {j \in DOMAIN c :
     /\ Hash(c[j].type, c[j].permutation) = Hash(t, p)
     /\ c[j].type = t /\ c[j].permutation = p}}

\* BuiltInShaderMap::GetShader, which takes no lock
Lookup(t, p) ==
  IF Source[t] \in DOMAIN sectionMap
  THEN GetShader(content[sectionMap[Source[t]]], t, p) ELSE {}

-----------------------------------------------------------------------------
(* The tasks of CompileShaderMap                                            *)

\* the next permutation to compile from p on; Count if there is none
NextFrom(t, p) ==
  LET left == {q \in Compiled[t] : q >= p} IN
  IF left = {} THEN Count[t] ELSE CHOOSE q \in left : \A r \in left : q <= r

\* on to the first permutation from p, or to WriteShaderCache
Advance(t, p) ==
  /\ permutation' = [permutation EXCEPT ![t] = NextFrom(t, p)]
  /\ Goes(t, IF NextFrom(t, p) < Count[t] THEN "load" ELSE "written")

\* WhenAllReady starts the tasks one after the other on the main thread
Start(t) ==
  /\ Idle("main") /\ pc[t] = "created"
  /\ running' = [running EXCEPT !["main"] = t]
  /\ Advance(t, 0)
  /\ UNCHANGED <<loaded, mapVars, returned>>

\* GenHlslShaderAsync finds the source in the cache and does not suspend
LoadHit(th, t) ==
  /\ Runs(th, t, "load") /\ Source[t] \in loaded
  /\ Goes(t, "insert")
  /\ UNCHANGED <<permutation, running, loaded, mapVars, returned>>

\* it reads the file: the task leaves the thread until the read completes
LoadMiss(th, t) ==
  /\ Runs(th, t, "load") /\ Source[t] \notin loaded
  /\ Goes(t, "reading") /\ Leaves(th)
  /\ UNCHANGED <<permutation, loaded, mapVars, returned>>

\* the I/O thread resumes the task; the read may have been one of several of
\* the same source
ReadCompletes(t) ==
  /\ Idle("io") /\ pc[t] = "reading"
  /\ running' = [running EXCEPT !["io"] = t]
  /\ loaded' = loaded \cup {Source[t]}
  /\ Goes(t, "insert")
  /\ UNCHANGED <<permutation, mapVars, returned>>

\* the read fails: what is thrown stays in the task, which ends
ReadFails(t) ==
  /\ Idle("io") /\ pc[t] = "reading"
  /\ Goes(t, "failed")
  /\ UNCHANGED <<permutation, running, loaded, mapVars, returned>>

\* there is no such file, or the compiler or the device throws
CompileThrows(th, t) ==
  /\ Runs(th, t, "load") \/ Runs(th, t, "insert")
  /\ Goes(t, "failed") /\ Leaves(th)
  /\ UNCHANGED <<permutation, loaded, mapVars, returned>>

\* a buffer of the archive is full: the task is resumed on the I/O thread
WriteSuspends(th, t) ==
  /\ Runs(th, t, "write")
  /\ Goes(t, "writing") /\ Leaves(th)
  /\ UNCHANGED <<permutation, loaded, mapVars, returned>>

WriteCompletes(t) ==
  /\ Idle("io") /\ pc[t] = "writing"
  /\ running' = [running EXCEPT !["io"] = t]
  /\ Advance(t, permutation[t] + 1)
  /\ UNCHANGED <<loaded, mapVars, returned>>

Writes(th, t) ==
  /\ Runs(th, t, "write")
  /\ Advance(t, permutation[t] + 1)
  /\ UNCHANGED <<running, loaded, mapVars, returned>>

\* WriteShaderCache, and the task has ended
Ends(th, t) ==
  /\ Runs(th, t, "written")
  /\ Goes(t, "ended") /\ Leaves(th)
  /\ UNCHANGED <<permutation, loaded, mapVars, returned>>

-----------------------------------------------------------------------------
(* BuiltInShaderMap::FindOrAddShader                                        *)

\* shared MapMutex
FindSection(th, t) ==
  /\ Runs(th, t, "insert")
  /\ IF Source[t] \in DOMAIN sectionMap
     THEN /\ section' = [section EXCEPT ![t] = sectionMap[Source[t]]]
          /\ Goes(t, "find")
     ELSE section' = section /\ Goes(t, "emplace")
  /\ UNCHANGED <<permutation, running, loaded, sectionMap, content, returned>>

\* mutant of SectionAfter: the new section takes the place of the other one
SectionReplaces(t) == t

\* mutant of SectionAfter: the task goes on with the section it made
SectionAfter(t) ==
  IF Source[t] \in DOMAIN sectionMap THEN sectionMap[Source[t]] ELSE t

\* exclusive MapMutex: the section of another task that came first stays, and
\* the one made here is dropped
EmplaceSection(th, t) ==
  /\ Runs(th, t, "emplace")
  /\ sectionMap' = [s \in DOMAIN sectionMap \cup {Source[t]} |->
                      IF s = Source[t] THEN SectionAfter(t)
                      ELSE sectionMap[s]]
  /\ section' = [section EXCEPT ![t] = SectionAfter(t)]
  /\ Goes(t, "find")
  /\ UNCHANGED <<permutation, running, loaded, content, returned>>

Returns(t, s) ==
  returned' = returned \cup {[to |-> Shader(t, permutation[t]), shader |-> s]}

\* shared ShaderMutex of the section
FindShader(th, t) ==
  /\ Runs(th, t, "find")
  /\ LET found == GetShader(content[section[t]], t, permutation[t]) IN
     IF found = {} THEN Goes(t, "add") /\ UNCHANGED returned
     ELSE Goes(t, "write") /\ \E s \in found : Returns(t, s)
  /\ UNCHANGED <<permutation, running, loaded, mapVars>>

\* exclusive ShaderMutex: appended, whatever was added since FindShader
AddShader(th, t) ==
  /\ Runs(th, t, "add")
  /\ LET s == Shader(t, permutation[t]) IN
     /\ content' = [content EXCEPT ![section[t]] = Append(@, s)]
     /\ Returns(t, s)
  /\ Goes(t, "write")
  /\ UNCHANGED <<permutation, running, loaded, sectionMap, section>>

-----------------------------------------------------------------------------
Init ==
  /\ pc = [t \in Types |-> "created"]
  /\ permutation = [t \in Types |-> 0]
  /\ running = [th \in Threads |-> NoType]
  /\ loaded = {} /\ returned = {}
  /\ sectionMap = <<>>
  /\ section = [t \in Types |-> NoType]
  /\ content = [t \in Types |-> <<>>]

Next ==
  \/ \E t \in Types : Start(t) \/ ReadCompletes(t) \/ ReadFails(t)
                      \/ WriteCompletes(t)
  \/ \E th \in Threads, t \in Types :
       \/ LoadHit(th, t) \/ LoadMiss(th, t) \/ CompileThrows(th, t)
       \/ WriteSuspends(th, t) \/ Writes(th, t) \/ Ends(th, t)
       \/ FindSection(th, t) \/ EmplaceSection(th, t)
       \/ FindShader(th, t) \/ AddShader(th, t)

Spec == Init /\ [][Next]_vars

-----------------------------------------------------------------------------
(* Properties                                                               *)

Steps == {"created", "load", "reading", "insert", "emplace", "find", "add",
          "write", "writing", "written", "ended", "failed"}

\* A task is on a thread exactly while it is neither waiting nor over.
TypeOK ==
  /\ pc \in [Types -> Steps] /\ permutation \in [Types -> Nat]
  /\ running \in [Threads -> Types \cup {NoType}]
  /\ loaded \subseteq Sources
  /\ DOMAIN sectionMap \subseteq Sources /\ Range(sectionMap) \subseteq Types
  /\ section \in [Types -> Types \cup {NoType}]
  /\ content \in [Types -> Seq(Shaders)]
  /\ returned \subseteq [to : Shaders, shader : Shaders]
  /\ \A t \in Types :
       LET on == {th \in Threads : running[th] = t} IN
       IF pc[t] \in {"created", "reading", "writing", "ended", "failed"}
       THEN on = {} ELSE \E th \in Threads : on = {th}

\* Whatever FindOrAddShader returned is the shader of that type and
\* permutation, and from then on it is what GetShader finds: it is neither
\* taken for another one by its 16-bit hash nor lost with the section of a
\* task that was late.
ReturnedIsFound ==
  \A r \in returned :
    /\ r.shader = r.to
    /\ Lookup(r.to.type, r.to.permutation) = {r.shader}

\* A section that lost the race for its source holds nothing, and no shader is
\* in the map twice although the insertion does not look again.
NothingDropped ==
  \A t \in Types :
    /\ t \notin Range(sectionMap) => content[t] = <<>>
    /\ IsInjective(content[t])

\* When CompileShaderMap returns, every permutation to compile of a type whose
\* task did not fail is in the map: no later GetShader meets its assertion.
LookupsSucceed ==
  (\A t \in Types : pc[t] \in {"ended", "failed"}) =>
    \A t \in Types : pc[t] = "ended" =>
      \A p \in Compiled[t] : Lookup(t, p) = {Shader(t, p)}
=============================================================================
