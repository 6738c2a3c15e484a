--------------------------- MODULE ResourceRecycling ---------------------------
(***************************************************************************)
(* Recycling of the buffers the CPU fills and the GPU reads: Context's      *)
(* upload_resources, ResidencyPool and ReclaimPool, and what GraphicsBuffer, *)
(* the ray tracing builds and the frame of the application do with them.     *)
(*                                                                         *)
(* Mapping a buffer for writing hands its memory to ResidencyPool and takes  *)
(* other memory; at the end of a frame the entry moves to ReclaimPool, and   *)
(* its memory returns to upload_resources when the entry's sync point is     *)
(* complete.  Only ResidencyResource, called by the ray tracing builds, ever *)
(* sets that sync point; recycling an upload buffer does not.  So whether    *)
(* memory comes back too early depends on the order of calls in a frame,     *)
(* which is modelled from DoUpdate and OnCreate of the application.          *)
(*                                                                         *)
(* All buffers are of one size: sizes are matched exactly and do not mix.    *)
(* A sync point is the number of the batch its list is submitted in, see     *)
(* CommandTimeline.  A definition that says "mutant of" is the code with one *)
(* plausible slip.                                                          *)
(***************************************************************************)
EXTENDS Naturals, Sequences, FiniteSets

CONSTANTS Resources,     \* ID3D12Resource objects that may exist at once
          Buffers,       \* buffer objects the application maps every frame
          SyncPhases,    \* phases in which SyncCPUGPU is called
          MaxRecycled,   \* bound: buffers recycled between two entries
          MaxEntries,    \* bound: entries in reclaimPool that SyncCPUGPU adds to
          MaxBatch       \* bound: batches submitted

\* A buffer is created at load with the resource that has its name
ASSUME ResourcesAssumption == Buffers \subseteq Resources

\* The number of D3D12 resources is finite; bounds are numbers
ASSUME BoundsAssumption == IsFiniteSet(Resources) /\ MaxBatch \in Nat \ {0}

\* Only loading (texture decompression) maps textures, which synchronises
ASSUME SyncAssumption == SyncPhases \subseteq {"load"}

VARIABLES
  open, done,         \* the timeline of the direct queue
  phase,              \* where OnCreate and DoUpdate are
  resource,           \* GraphicsBuffer::resource
  upload_resources,   \* upload memory free for use
  residencyPool,      \* Device::ResidencyPool, the entry being filled
  reclaimPool,        \* Device::ReclaimPool
  lastUse             \* ghost: last unfinished batch that uses a resource, or 0

vars == <<open, done, phase, resource, upload_resources, residencyPool,
          reclaimPool, lastUse>>

Queue == INSTANCE CommandTimeline

Phases == {"load", "loaded", "early", "late", "ended", "flushed"}
NoSync == 0                    \* the CLSyncPoint no list was assigned to
NoResources == [sync |-> NoSync, residency |-> {}, uploads |-> {}]

\* What an entry of the two pools keeps alive
Kept(e) == e.residency \cup e.uploads
\* Resources somebody holds a COMPtr to; others are released and may be reused
Referenced ==
  {resource[b] : b \in Buffers} \cup upload_resources \cup Kept(residencyPool)
    \cup UNION {Kept(reclaimPool[i]) : i \in DOMAIN reclaimPool}
Released == Resources \ Referenced
Pick(S) == CHOOSE r \in S : TRUE

\* Context::InnerResourceAlloc: free memory of the size, else a new resource
InnerResourceAlloc(new) ==
  IF upload_resources # {} THEN upload_resources ELSE {Pick(new)}

\* Context::InnerResourceRecycle
InnerResourceRecycle(e, r) == [e EXCEPT !.uploads = @ \cup {r}]

\* mutant of: the sync point is set once, not at every call
FirstSyncPoint(e, rs) ==
  [e EXCEPT !.sync = IF @ = NoSync THEN open ELSE @, !.residency = @ \cup rs]
\* Context::ResidencyResource for each of rs; the sync point is the open list
ResidencyResource(e, rs) ==
  [e EXCEPT !.sync = open, !.residency = @ \cup rs]

UsedNow(rs) == [r \in Resources |-> IF r \in rs THEN open ELSE lastUse[r]]
-----------------------------------------------------------------------------
(* ClearPSOCache *)

\* How many entries at the front have a complete sync point
CompleteEntries(pool) ==
  Cardinality({i \in DOMAIN pool : \A j \in 1 .. i : pool[j].sync <= done})

\* The lists of the entry are cleared, its sync point stays
ClearEntry(e) == [e EXCEPT !.residency = {}, !.uploads = {}]

\* mutant of: residents are dropped with the entry that is being filled
PushUploads(pool, e) == Append(pool, ClearEntry(e))
\* ReclaimPool.push
Push(pool, e) == Append(pool, e)

ClearPSOCache ==
  LET pool == Push(reclaimPool, residencyPool)
      n    == CompleteEntries(pool)
  IN /\ residencyPool' = ClearEntry(residencyPool)
     /\ upload_resources' =
          upload_resources \cup UNION {pool[i].uploads : i \in 1 .. n}
     /\ reclaimPool' = SubSeq(pool, n + 1, Len(pool))
-----------------------------------------------------------------------------
Init ==
  /\ Queue!Init
  /\ phase = "load"
  /\ resource = [b \in Buffers |-> b]
  /\ upload_resources = {}
  /\ residencyPool = NoResources /\ reclaimPool = <<>>
  /\ lastUse = [r \in Resources |-> 0]

\* RayTracingGeometry::BuildAccelerationStructure for a mesh that is loaded:
\* the scratch buffer is dropped once the build is recorded
BuildGeometry ==
  /\ phase = "load"
  /\ Released # {} /\ Cardinality(residencyPool.residency) < MaxRecycled
  /\ LET scratch == Pick(Released)
     IN /\ residencyPool' = ResidencyResource(residencyPool, {scratch})
        /\ lastUse' = UsedNow({scratch})
  /\ UNCHANGED <<open, done, phase, resource, upload_resources, reclaimPool>>

\* GraphicsBuffer::Map for Write_Only and the writes through it
Map(b) ==
  /\ phase \in {"early", "late"}
  /\ Cardinality(residencyPool.uploads) < MaxRecycled
  /\ Released # {}
  /\ residencyPool' = InnerResourceRecycle(residencyPool, resource[b])
  /\ \E r \in InnerResourceAlloc(Released) :
       /\ resource' = [resource EXCEPT ![b] = r]
       /\ upload_resources' = upload_resources \ {r}
  /\ UNCHANGED <<open, done, phase, reclaimPool, lastUse>>

\* A draw that reads the buffer, recorded in the open list
Draw(b) ==
  /\ phase \in {"early", "late"}
  /\ lastUse' = UsedNow({resource[b]})
  /\ UNCHANGED <<open, done, phase, resource, upload_resources, residencyPool,
                 reclaimPool>>

\* RayTracingScene::BuildAccelerationStructure.  The instance buffer is created
\* and then mapped, which recycles the resource it was created with; `scratch'
\* stands for the scratch buffer and the acceleration structure, both resident.
BuildScene ==
  /\ phase = "early" /\ phase' = "late"
  /\ Cardinality(Released) >= 3
  /\ LET created == Pick(Released)
         scratch == Pick(Released \ {created})
     IN \E instances \in InnerResourceAlloc(Released \ {created, scratch}) :
          /\ residencyPool' =
               ResidencyResource(InnerResourceRecycle(residencyPool, created),
                                 {instances, scratch})
          /\ upload_resources' = upload_resources \ {instances}
          /\ lastUse' = UsedNow({instances, scratch})
  /\ UNCHANGED <<open, done, resource, reclaimPool>>

\* CommandContext::FlushCommands: a list is submitted if it did any work, which
\* in loading is a geometry build and in a frame there always is
SubmitWork ==
  IF phase = "load" /\ residencyPool.sync # open
  THEN UNCHANGED <<open, done>>
  ELSE open < MaxBatch /\ Queue!Submit

\* Context::SyncCPUGPU: the open list is submitted, without waiting for it.  An
\* entry without sync point would make ClearPSOCache dereference a null list.
SyncCPUGPU ==
  /\ phase \in SyncPhases /\ residencyPool.sync # NoSync
  /\ Len(reclaimPool) < MaxEntries
  /\ SubmitWork
  /\ ClearPSOCache
  /\ UNCHANGED <<phase, resource, lastUse>>

\* Context::EndFrame, which DoUpdate calls before the list is submitted and
\* OnCreate after it.  Meshes were loaded, so the entry has a sync point.
EndFrame ==
  /\ \/ phase = "late" /\ phase' = "ended"
     \/ phase = "loaded" /\ phase' = "early"
  /\ ClearPSOCache
  /\ UNCHANGED <<open, done, resource, lastUse>>

\* CommandContext::EndFrame submits the frame, Display::SwapBuffers the
\* transition of the back buffer
Present ==
  /\ \/ phase = "ended" /\ phase' = "flushed"
     \/ phase = "flushed" /\ phase' = "early"
     \/ phase = "load" /\ residencyPool.sync # NoSync /\ phase' = "loaded"
  /\ SubmitWork
  /\ UNCHANGED <<resource, upload_resources, residencyPool, reclaimPool,
                 lastUse>>

\* The GPU finishes a batch
Finish ==
  /\ Queue!Finish
  /\ lastUse' = [r \in Resources |-> IF lastUse[r] <= done' THEN 0
                                     ELSE lastUse[r]]
  /\ UNCHANGED <<phase, resource, upload_resources, residencyPool, reclaimPool>>

Next == \/ BuildGeometry \/ BuildScene \/ SyncCPUGPU \/ EndFrame
        \/ Present \/ Finish
        \/ \E b \in Buffers : Map(b) \/ Draw(b)

Spec == Init /\ [][Next]_vars
-----------------------------------------------------------------------------
(* Properties *)

Entry == [sync : 0 .. MaxBatch, residency : SUBSET Resources,
          uploads : SUBSET Resources]
\* Types; a sync point names no list that does not exist yet
TypeOK ==
  /\ open \in 1 .. MaxBatch /\ done \in 0 .. open - 1 /\ phase \in Phases
  /\ resource \in [Buffers -> Resources]
  /\ upload_resources \in SUBSET Resources
  /\ residencyPool \in Entry /\ residencyPool.sync <= open
  /\ reclaimPool \in Seq(Entry)
  /\ lastUse \in [Resources -> 0 .. open]

\* Memory that InnerResourceAlloc may hand out for the CPU to write is read by
\* no batch that is recorded or in flight, although upload buffers come back
\* under a sync point that only the ray tracing builds set.
PooledIdle == \A r \in upload_resources : lastUse[r] = 0

\* Whatever the open list or a batch in flight uses is referenced by a buffer or
\* by an entry of the pools: scratch and instance buffers, dropped by their
\* owner while the build is only recorded, live until the GPU is through.
UsedIsReferenced == \A r \in Resources : lastUse[r] # 0 => r \in Referenced

\* Upload memory is in one place: bound to one buffer, free, or waiting in one
\* entry, so no two buffers ever write the same memory.
UploadsInOnePlace ==
  LET bound == {resource[b] : b \in Buffers}
      waiting == [i \in 0 .. Len(reclaimPool) |->
                    IF i = 0 THEN residencyPool.uploads
                    ELSE reclaimPool[i].uploads]
  IN /\ \A b, c \in Buffers : resource[b] = resource[c] => b = c
     /\ bound \cap upload_resources = {}
     /\ \A i \in DOMAIN waiting :
          /\ waiting[i] \cap (bound \cup upload_resources) = {}
          /\ \A j \in DOMAIN waiting : i # j => waiting[i] \cap waiting[j] = {}

\* After the end of a frame no memory waits whose sync point is complete: the
\* queue gives back from the front only, and nothing complete is behind it.
ReadyIsGivenBack ==
  [][EndFrame => \A i \in DOMAIN reclaimPool' : reclaimPool'[i].sync > done]_vars
=============================================================================
