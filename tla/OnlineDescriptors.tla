-------------------------- MODULE OnlineDescriptors --------------------------
(***************************************************************************)
(* The shader-visible descriptor heaps of one command context: the         *)
(* DescriptorCache with its sub-allocated view heap, its context-local     *)
(* heaps and the global sampler heap, driven by the state cache at every    *)
(* draw.  The CPU writes descriptors while it records; the GPU reads them   *)
(* when the batch executes, so a slot may be written again only after every *)
(* batch that refers to it has finished.                                   *)
(*                                                                         *)
(* A stage has one slot of the kind it uses, and its table is that slot.    *)
(* CLSyncPoint of a list is the number of the batch the list is submitted   *)
(* in; CommandTimeline says when batches finish.  A definition that says    *)
(* "mutant of" is the code with one plausible slip.                         *)
(***************************************************************************)
EXTENDS Naturals, Sequences, FiniteSets

CONSTANTS ViewStages,            \* shader stages that read a view
          SamplerStages,         \* shader stages that use a sampler
          Samplers, NoSampler,   \* sampler states, the default one
          Garbage,               \* content of a sampler slot nobody relies on
          Blocks, BlockSize,     \* blocks of the global view heap
          LocalSize,             \* slots of a context-local heap
          GlobalSize,            \* slots of the global sampler heap
          MaxBatch, MaxTables,   \* bounds: batches, tables a batch reads
          MaxLocal               \* bound: context-local heaps of a kind

\* What the constants have to be
SizesAllowed ==
  /\ ViewStages \in SUBSET Nat /\ SamplerStages \in SUBSET Nat
  /\ IsFiniteSet(ViewStages) /\ IsFiniteSet(SamplerStages)
  /\ Blocks \in Nat \ {0} /\ BlockSize \in Nat /\ LocalSize \in Nat
  /\ Cardinality(ViewStages) <= BlockSize
  /\ Cardinality(ViewStages) <= LocalSize
  /\ Cardinality(SamplerStages) <= LocalSize
  /\ GlobalSize \in Nat /\ MaxBatch \in Nat /\ MaxTables \in Nat
  /\ MaxLocal \in Nat \ {0}

ContentAllowed ==
  NoSampler \in Samplers /\ Garbage \notin Samplers

Shared == 1                                    \* the heap all contexts share
Locals == 2 .. MaxLocal + 1                    \* local heaps, creation order
At(h, n) == [heap |-> h, slot |-> n]
NoTable  == At(0, 0)                           \* undefined root parameter
NoTables(stages) == [st \in stages |-> NoTable]
ViewSlots == [heap : {Shared}, slot : 1 .. Blocks * BlockSize]
               \cup [heap : Locals, slot : 1 .. LocalSize]
SamplerSlots == [heap : {Shared}, slot : 1 .. GlobalSize]
                  \cup [heap : Locals, slot : 1 .. LocalSize]
NoKeys == [k \in {} |-> 0]                     \* an empty map from samplers

VARIABLES
  open, done,               \* the timeline of the direct queue
  pc, inFrame,              \* how far the draw being recorded is
  sampler,                  \* State: the sampler bound to each stage
  dirtyV, dirtyS,           \* DirtySlotMask of SRVs and samplers, by stage
  tabV, tabS,               \* root tables of the open command list
  setV, setS,               \* pPreviousViewHeap, pPreviousSamplerHeap
  onBlocks, block, used, blockPool,    \* SubAllocatedOnlineHeap; is it current
  localV, localS,           \* LocalViewHeap, LocalSamplerHeap
  onGlobal, localSet, samplerMap, unique,    \* DescriptorCache members
  globalSet, globalDirty,   \* GlobalOnlineHeap members
  memS,                     \* the descriptors in the sampler heaps
  uses                      \* ghost: tables read by draws not finished

queueVars  == <<open, done>>
boundVars  == <<inFrame, sampler>>
listVars   == <<dirtyV, dirtyS, tabV, tabS, setV, setS, samplerMap>>
blockVars  == <<onBlocks, block, used, blockPool>>
localVars  == <<localV, localS>>
globalVars == <<onGlobal, localSet, unique, globalSet, globalDirty>>
vars == <<queueVars, pc, boundVars, listVars, blockVars, localVars, globalVars,
          memS, uses>>

Queue == INSTANCE CommandTimeline

IsSubmitted(sync) == sync < open     \* mutant of: the GPU need not be done
\* CLSyncPoint::IsComplete; 0 stands for a fresh block
IsComplete(sync) == sync <= done
-----------------------------------------------------------------------------
(* Which heaps are set on the open list *)

CurrentViewHeap    == IF onBlocks THEN Shared ELSE localV.heap
CurrentSamplerHeap == IF onGlobal THEN Shared ELSE localS.heap

SamplerMapFor(s) == IF s # setS THEN NoKeys ELSE samplerMap

\* DescriptorCache::SetDescriptorHeaps, with v and s the current heaps.  The
\* tables that point into a heap are undefined once it is replaced.
SetDescriptorHeaps(v, s) ==
  /\ setV' = v /\ setS' = s
  /\ dirtyV' = IF v # setV THEN ViewStages ELSE dirtyV
  /\ tabV'   = IF v # setV THEN NoTables(ViewStages) ELSE tabV
  /\ dirtyS' = IF s # setS THEN SamplerStages ELSE dirtyS
  /\ tabS'   = IF s # setS THEN NoTables(SamplerStages) ELSE tabS
  /\ samplerMap' = SamplerMapFor(s)

\* CommandContext::OpenCommandList, NotifyCurrentCommandList: the pointers to
\* the previous heaps are cleared first
OpenCommandList ==
  /\ setV' = CurrentViewHeap /\ setS' = CurrentSamplerHeap
  /\ dirtyV' = ViewStages /\ dirtyS' = SamplerStages
  /\ tabV' = NoTables(ViewStages) /\ tabS' = NoTables(SamplerStages)
  /\ samplerMap' = NoKeys
-----------------------------------------------------------------------------
(* Heaps that roll over *)

\* Index of stage st among the stages of S: where its one slot goes
Rank(st, S) == Cardinality({t \in S : t <= st})

\* OnlineHeap::CanReserveSlots
CanReserveSlots(next, need, size) == next + need <= size

\* What a pool offers first
Front(pool) == Head(pool)

\* ThreadLocalOnlineHeap::RollOver on heap l: the pool's front, or a new heap
RollOverHeap(l) ==
  LET pool == Append(l.pool, [heap |-> l.heap, sync |-> open])
  IN IF IsComplete(Front(pool).sync)
     THEN [heap |-> Front(pool).heap, next |-> 0, pool |-> Tail(pool),
           made |-> l.made]
     ELSE [heap |-> l.made + 2, next |-> 0, pool |-> pool,
           made |-> l.made + 1]

\* MaxLocal bounds the heaps a run makes; a draw that meets it is stuck
MayRollOver(l) == RollOverHeap(l).made <= MaxLocal

\* What was in a heap or block that is handed out again is lost
Forget(mem, slots) == [p \in DOMAIN mem |-> IF p \in slots THEN Garbage ELSE mem[p]]
HeapSlots(h) == [heap : {h}, slot : 1 .. LocalSize]

\* The lazy creation in SwitchToContextLocalViewHeap
NoHeap       == [heap |-> 0, next |-> 0, pool |-> <<>>, made |-> 0]
NewLocalHeap == [heap |-> 2, next |-> 0, pool |-> <<>>, made |-> 1]
-----------------------------------------------------------------------------
(* A draw: bind, ApplySamplers, the view loop of ApplyState, SetSRVs *)

\* mutant of: a new sampler is not marked dirty
ForgetSamplers(s) == UNCHANGED dirtyS
\* SetSamplerState marks a slot dirty when its state changes
MarkSamplers(s) ==
  dirtyS' = dirtyS \cup {st \in SamplerStages : s[st] # sampler[st]}

Recorded == {u \in uses : u.batch = open}

\* SetShaderResourceView for the stages of d, to another view than before, and
\* SetShaderSampler
Bind(d, s) ==
  /\ pc = "idle" /\ inFrame /\ open <= MaxBatch
  /\ Cardinality(Recorded) < MaxTables
  /\ sampler' = s
  /\ dirtyV' = dirtyV \cup d
  /\ MarkSamplers(s)
  /\ pc' = "samplers"
  /\ UNCHANGED <<queueVars, inFrame, tabV, tabS, setV, setS, samplerMap,
                 blockVars, localVars, globalVars, memS, uses>>

\* ApplySamplers with the global heap: every dirty stage finds its table
FindGlobalTables ==
  /\ pc = "samplers" /\ onGlobal
  /\ \A st \in dirtyS : sampler[st] \in DOMAIN localSet
  /\ tabS' = [st \in SamplerStages |-> IF st \in dirtyS
                                THEN At(Shared, localSet[sampler[st]])
                                ELSE tabS[st]]
  /\ dirtyS' = {}
  /\ pc' = "views"
  /\ UNCHANGED <<queueVars, boundVars, dirtyV, tabV, setV, setS, samplerMap,
                 blockVars, localVars, globalVars, memS, uses>>

\* One is missing: SwitchToContextLocalSamplerHeap, and all of them again
MissGlobalTable ==
  /\ pc = "samplers" /\ onGlobal
  /\ \E st \in dirtyS : sampler[st] \notin DOMAIN localSet
  /\ onGlobal' = FALSE
  /\ SetDescriptorHeaps(setV, localS.heap)
  /\ UNCHANGED <<queueVars, pc, boundVars, blockVars, localVars, localSet,
                 unique, globalSet, globalDirty, memS, uses>>

RollOverSamplers ==
  /\ pc = "samplers" /\ ~ onGlobal
  /\ ~ CanReserveSlots(localS.next, Cardinality(dirtyS), LocalSize)
  /\ MayRollOver(localS) /\ localS' = RollOverHeap(localS)
  /\ SetDescriptorHeaps(setV, localS'.heap)
  /\ memS' = Forget(memS, HeapSlots(localS'.heap))
  /\ UNCHANGED <<queueVars, pc, boundVars, blockVars, localV, globalVars,
                 uses>>

\* DescriptorCache::SetSamplers of the dirty stages: a table of the sampler
\* map is used again, any other gets the next slot; then SetNextSlot
SetSamplers ==
  LET first == {st \in dirtyS : /\ sampler[st] \notin DOMAIN samplerMap
                                /\ \A t \in dirtyS : t < st =>
                                     sampler[t] # sampler[st]}
      slotOf(k) == IF k \in DOMAIN samplerMap THEN samplerMap[k]
                   ELSE localS.next + Rank(CHOOSE st \in first : sampler[st] = k,
                                           first)
      fresh == {sampler[st] : st \in first}
  IN
  /\ pc = "samplers" /\ ~ onGlobal
  /\ CanReserveSlots(localS.next, Cardinality(dirtyS), LocalSize)
  /\ memS' = [p \in SamplerSlots |->
                IF p.heap = localS.heap /\ \E k \in fresh : slotOf(k) = p.slot
                THEN CHOOSE k \in fresh : slotOf(k) = p.slot ELSE memS[p]]
  /\ samplerMap' = [k \in DOMAIN samplerMap \cup fresh |-> slotOf(k)]
  /\ unique' = unique \cup fresh
  /\ localS' = [localS EXCEPT !.next = @ + Cardinality(first)]
  /\ tabS' = [st \in SamplerStages |-> IF st \in dirtyS
                                THEN At(localS.heap, slotOf(sampler[st]))
                                ELSE tabS[st]]
  /\ dirtyS' = {}
  /\ pc' = "views"
  /\ UNCHANGED <<queueVars, boundVars, dirtyV, tabV, setV, setS, blockVars,
                 localV, onGlobal, localSet, globalSet, globalDirty, uses>>

NeedsRollOver(next, size) ==
  pc = "views" /\ ~ CanReserveSlots(next, Cardinality(dirtyV), size)

\* SubAllocatedOnlineHeap::RollOver: the block goes to the back of its pool
PoolWithBlock == Append(blockPool, [block |-> block, sync |-> open])

RollOverBlock ==
  /\ onBlocks /\ NeedsRollOver(used, BlockSize)
  /\ IsComplete(Front(PoolWithBlock).sync)
  /\ block' = Front(PoolWithBlock).block /\ used' = 0
  /\ blockPool' = Tail(PoolWithBlock)
  /\ UNCHANGED <<queueVars, pc, boundVars, listVars, onBlocks, localVars,
                 globalVars, memS, uses>>

\* The front of the pool is in flight (it stays there, and is current):
\* SwitchToContextLocalViewHeap, for good
RunOutOfBlocks ==
  /\ onBlocks /\ NeedsRollOver(used, BlockSize)
  /\ ~ IsComplete(Front(PoolWithBlock).sync)
  /\ block' = Front(PoolWithBlock).block
  /\ blockPool' = PoolWithBlock
  /\ onBlocks' = FALSE
  /\ localV' = NewLocalHeap
  /\ SetDescriptorHeaps(NewLocalHeap.heap, setS)
  /\ UNCHANGED <<queueVars, pc, boundVars, used, localS, globalVars, memS,
                 uses>>

RollOverLocalViews ==
  /\ ~ onBlocks /\ NeedsRollOver(localV.next, LocalSize)
  /\ MayRollOver(localV) /\ localV' = RollOverHeap(localV)
  /\ SetDescriptorHeaps(localV'.heap, setS)
  /\ UNCHANGED <<queueVars, pc, boundVars, blockVars, localS, globalVars,
                 memS, uses>>

\* The tables a draw reads
UsesOf(kind, tab) ==
  {[batch |-> open, kind |-> kind, at |-> tab[st]] : st \in DOMAIN tab}

\* DescriptorCache::SetSRVs of the dirty stages in the reserved slots (base is
\* the slot before them in the heap), and the draw
SetViewsAndDraw(base) ==
  /\ tabV' = [st \in ViewStages |->
                IF st \in dirtyV THEN At(CurrentViewHeap, base + Rank(st, dirtyV))
                                 ELSE tabV[st]]
  /\ dirtyV' = {}
  /\ uses' = uses \cup UsesOf("view", tabV') \cup UsesOf("sampler", tabS)
  /\ pc' = "idle"
  /\ UNCHANGED <<queueVars, boundVars, dirtyS, tabS, setV, setS, samplerMap,
                 onBlocks, block, blockPool, globalVars, localS, memS>>

DrawOnBlock ==
  /\ pc = "views" /\ onBlocks
  /\ CanReserveSlots(used, Cardinality(dirtyV), BlockSize)
  /\ used' = used + Cardinality(dirtyV)
  /\ SetViewsAndDraw((block - 1) * BlockSize + used)
  /\ UNCHANGED localV

DrawOnLocalHeap ==
  /\ pc = "views" /\ ~ onBlocks
  /\ CanReserveSlots(localV.next, Cardinality(dirtyV), LocalSize)
  /\ localV' = [localV EXCEPT !.next = @ + Cardinality(dirtyV)]
  /\ SetViewsAndDraw(localV.next)
  /\ UNCHANGED used
-----------------------------------------------------------------------------
(* Flushes, frames and the GPU *)

HasDoneWork == \E u \in uses : u.batch = open

FlushCommands ==
  /\ pc = "idle" /\ HasDoneWork
  /\ Queue!Submit
  /\ OpenCommandList
  /\ UNCHANGED <<pc, boundVars, blockVars, localVars, globalVars, memS,
                 uses>>

\* GatherUniqueSamplerTables: the tables of the frame are added to the global
\* heap while it has room
GatherUniqueSamplerTables ==
  LET new  == unique \ DOMAIN globalSet
      base == Cardinality(DOMAIN globalSet)
      room == GlobalSize - base
  IN \E kept \in SUBSET new :
     \E at \in [kept -> base + 1 .. base + Cardinality(kept)] :
       /\ kept = new \/ Cardinality(kept) = room
       /\ Cardinality(kept) <= room
       /\ \A k, l \in kept : at[k] = at[l] => k = l
       /\ globalSet' = [k \in DOMAIN globalSet \cup kept |->
                          IF k \in kept THEN at[k] ELSE globalSet[k]]
       /\ memS' = [p \in SamplerSlots |->
                     IF p.heap = Shared /\ \E k \in kept : at[k] = p.slot
                     THEN CHOOSE k \in kept : at[k] = p.slot ELSE memS[p]]
       /\ globalDirty' = (globalDirty \/ kept # {})
       /\ unique' = {}

\* CommandContext::EndFrame: ClearState, FlushCommands, the descriptor cache's
\* EndFrame
EndFrame ==
  /\ pc = "idle" /\ inFrame
  /\ inFrame' = FALSE
  /\ sampler' = [st \in SamplerStages |-> NoSampler]
  /\ \/ HasDoneWork /\ Queue!Submit /\ OpenCommandList
     \/ /\ ~ HasDoneWork
        /\ dirtyV' = ViewStages /\ dirtyS' = SamplerStages
        /\ UNCHANGED <<queueVars, tabV, tabS, setV, setS, samplerMap>>
  /\ GatherUniqueSamplerTables
  /\ UNCHANGED <<pc, blockVars, localVars, onGlobal, localSet, uses>>

\* CommandContext::BeginFrame, DescriptorCache::BeginFrame
BeginFrame ==
  /\ pc = "idle" /\ ~ inFrame
  /\ inFrame' = TRUE
  /\ localSet' = IF globalDirty THEN globalSet ELSE localSet
  /\ onGlobal' = TRUE
  /\ SetDescriptorHeaps(setV, Shared)
  /\ UNCHANGED <<queueVars, pc, sampler, blockVars, localVars, unique,
                 globalSet, globalDirty, memS, uses>>

GpuFinish ==
  /\ Queue!Finish
  /\ uses' = {u \in uses : u.batch > done'}
  /\ UNCHANGED <<pc, boundVars, listVars, blockVars, localVars, globalVars,
                 memS>>

\* DescriptorCache::Init, and the first command list
Init ==
  /\ Queue!Init
  /\ pc = "idle" /\ inFrame = FALSE
  /\ sampler = [st \in SamplerStages |-> NoSampler]
  /\ dirtyV = ViewStages /\ tabV = NoTables(ViewStages)
  /\ dirtyS = SamplerStages /\ tabS = NoTables(SamplerStages)
  /\ setV = Shared /\ setS = NewLocalHeap.heap /\ samplerMap = NoKeys
  /\ onBlocks = TRUE /\ block = 1 /\ used = 0
  /\ blockPool = [b \in 1 .. Blocks - 1 |-> [block |-> b + 1, sync |-> 0]]
  /\ localV = NoHeap /\ localS = NewLocalHeap
  /\ onGlobal = FALSE /\ localSet = NoKeys /\ unique = {}
  /\ globalSet = NoKeys /\ globalDirty = FALSE
  /\ memS = [p \in SamplerSlots |-> Garbage]
  /\ uses = {}

\* The renderer may stop between two draws
Stop == pc = "idle" /\ UNCHANGED vars

ApplySamplers ==
  FindGlobalTables \/ MissGlobalTable \/ RollOverSamplers \/ SetSamplers

ApplyViews ==
  \/ RollOverBlock \/ RunOutOfBlocks \/ RollOverLocalViews
  \/ DrawOnBlock \/ DrawOnLocalHeap

Next ==
  \/ \E d \in SUBSET ViewStages, s \in [SamplerStages -> Samplers] : Bind(d, s)
  \/ ApplySamplers \/ ApplyViews
  \/ FlushCommands \/ EndFrame \/ BeginFrame \/ GpuFinish \/ Stop

Spec == Init /\ [][Next]_vars
-----------------------------------------------------------------------------
(* Properties *)

LocalHeap == [heap : {0} \cup Locals, next : 0 .. LocalSize,
              pool : Seq([heap : Locals, sync : Nat]), made : 0 .. MaxLocal]

\* Every variable keeps its type
TypeOK ==
  /\ open \in Nat /\ done \in Nat
  /\ pc \in {"idle", "samplers", "views"} /\ inFrame \in BOOLEAN
  /\ sampler \in [SamplerStages -> Samplers]
  /\ dirtyV \subseteq ViewStages /\ dirtyS \subseteq SamplerStages
  /\ tabV \in [ViewStages -> ViewSlots \cup {NoTable}]
  /\ tabS \in [SamplerStages -> SamplerSlots \cup {NoTable}]
  /\ setV \in Locals \cup {Shared} /\ setS \in Locals \cup {Shared}
  /\ onBlocks \in BOOLEAN /\ block \in 1 .. Blocks /\ used \in 0 .. BlockSize
  /\ blockPool \in Seq([block : 1 .. Blocks, sync : Nat])
  /\ localV \in LocalHeap /\ localS \in LocalHeap
  /\ onGlobal \in BOOLEAN /\ globalDirty \in BOOLEAN
  /\ unique \subseteq Samplers
  /\ memS \in [SamplerSlots -> Samplers \cup {Garbage}]

\* A slot gets a new descriptor only when no draw that is recorded or in flight
\* reads it: a table set for the draw is in a slot that none of them uses
NoSlotRewritten ==
  [][/\ \A st \in dirtyV \ dirtyV', u \in uses :
          u.kind = "view" => u.at # tabV'[st]
     /\ \A p \in SamplerSlots, u \in uses :
          u.kind = "sampler" /\ u.at = p => memS'[p] = memS[p]]_vars

\* The tables ApplyState will not touch are good: they are defined on the open
\* list, lie in the heap that is set, and a sampler table holds what is bound
CleanTablesValid ==
  /\ \A st \in ViewStages \ dirtyV : tabV[st] # NoTable /\ tabV[st].heap = setV
  /\ \A st \in SamplerStages \ dirtyS :
       /\ tabS[st] # NoTable /\ tabS[st].heap = setS
       /\ memS[tabS[st]] = sampler[st]

\* The tables remembered by sampler: the map speaks of the local sampler heap
\* that is set now, the global set and its copy of the global heap, and every
\* slot holds that sampler
SamplerTablesExact ==
  /\ \A k \in DOMAIN samplerMap :
       setS = localS.heap /\ memS[At(setS, samplerMap[k])] = k
  /\ \A k \in DOMAIN globalSet : memS[At(Shared, globalSet[k])] = k
  /\ \A k \in DOMAIN localSet : k \in DOMAIN globalSet
                                /\ localSet[k] = globalSet[k]

\* While blocks are used every block is in one place, current or in the pool
BlocksInOnePlace ==
  onBlocks =>
    /\ {block} \cup {blockPool[i].block : i \in DOMAIN blockPool} = 1 .. Blocks
    /\ Len(blockPool) = Blocks - 1

\* Memory is added only when there is no other way: a new heap is created, and
\* the blocks are given up, only while everything in the pool is in flight
InFlight(pool) == \A i \in DOMAIN pool : pool[i].sync > done
NoNeedlessHeap ==
  [][/\ localV'.made > localV.made =>
          IF onBlocks THEN InFlight(blockPool) ELSE InFlight(localV.pool)
     /\ localS'.made > localS.made => InFlight(localS.pool)]_vars
=============================================================================
