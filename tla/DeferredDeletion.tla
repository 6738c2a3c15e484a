--------------------------- MODULE DeferredDeletion ---------------------------
(***************************************************************************)
(* Deferred deletion of render objects: RObject's count, PendingDeletes and *)
(* DeferredDeletionQueue, flushed once a frame by CommandList::EndFrame.     *)
(*                                                                         *)
(* No fence is asked before an object is deleted: it waits a fixed number of *)
(* frames.  What makes that long enough is elsewhere, in the Display: after  *)
(* each present the program waits, for a second at most, on the frame        *)
(* latency object of the swap chain.  The model composes the two with a GPU  *)
(* that finishes presented frames in order and late.                        *)
(*                                                                         *)
(* How far the GPU is behind is kept relative: unfinished is the number of   *)
(* presented frames it has not finished, inUse[o] how many frames have to be *)
(* finished before o is idle.  A definition that says "mutant of" is the     *)
(* code with one plausible slip.                                            *)
(***************************************************************************)
EXTENDS Naturals, Sequences, FiniteSets

CONSTANTS Objects,      \* render objects; each lives once
          Latency,      \* external: frames the swap chain allows ahead
          MaxRefs,      \* bound: owners of an object
          MaxTimeouts   \* bound: waits that end after their second

ASSUME DeletionAssumption ==
  MaxRefs \in Nat \ {0} /\ Latency \in Nat /\ MaxTimeouts \in Nat

VARIABLES
  phase,                 \* where the frame of the application is
  made,                  \* objects created so far
  numRefs,               \* RObject::NumRefs
  pendingDeletes,        \* what Release queued; the order is not kept
  deferredDeletionQueue, \* batches, each with the frame it was queued in
  currentFrame,          \* RObject::CurrentFrame
  deleted,               \* ghost: objects deleted
  unfinished, inUse,     \* ghost: how far the GPU is behind
  slots,                 \* external: count of frame_waitable_object
  timeouts               \* number of waits that timed out

objectVars == <<made, numRefs, pendingDeletes>>
deletionVars == <<deferredDeletionQueue, currentFrame, deleted>>
gpuVars == <<unfinished, inUse>>
displayVars == <<slots, timeouts>>
vars == <<phase, objectVars, deletionVars, gpuVars, displayVars>>

NumFramesToExpire == 3

\* The frames a batch waits cover the frames the program can be ahead
ASSUME LatencyAssumption == Latency + MaxTimeouts <= NumFramesToExpire

Alive == {o \in made : numRefs[o] > 0}

-----------------------------------------------------------------------------
(* What the renderer does with objects, at any point of a frame             *)

\* new, owned by whoever asked for it
Create(o) ==
  /\ o \notin made
  /\ made' = made \cup {o}
  /\ numRefs' = [numRefs EXCEPT ![o] = 1]
  /\ UNCHANGED <<phase, pendingDeletes, deletionVars, gpuVars, displayVars>>

AddRef(o) ==
  /\ o \in Alive /\ numRefs[o] < MaxRefs
  /\ numRefs' = [numRefs EXCEPT ![o] = @ + 1]
  /\ UNCHANGED <<phase, made, pendingDeletes>>
  /\ UNCHANGED <<deletionVars, gpuVars, displayVars>>

\* RObject::Release queues the object when the last owner lets go
Release(o) ==
  /\ o \in Alive
  /\ numRefs' = [numRefs EXCEPT ![o] = @ - 1]
  /\ pendingDeletes' = IF numRefs[o] = 1 THEN pendingDeletes \cup {o}
                                        ELSE pendingDeletes
  /\ UNCHANGED <<phase, made, deletionVars, gpuVars, displayVars>>

\* A command with o is recorded; it is submitted before the next present.  The
\* denoiser also reads textures its owners let go earlier in the same frame.
Use(o) ==
  /\ o \in Alive \cup pendingDeletes
  /\ inUse' = [inUse EXCEPT ![o] = unfinished + 1]
  /\ UNCHANGED <<phase, objectVars, deletionVars, unfinished, displayVars>>

-----------------------------------------------------------------------------
(* RObject::FlushPendingDeletes                                             *)

\* All that was released since the last call, in one batch
WithPending ==
  IF pendingDeletes = {} THEN deferredDeletionQueue
  ELSE Append(deferredDeletionQueue,
              [objects |-> pendingDeletes, frameDeleted |-> currentFrame])

\* mutant of: a batch expires one frame early
ExpiredEarly(batch) == batch.frameDeleted + NumFramesToExpire <= currentFrame
Expired(batch) == batch.frameDeleted + NumFramesToExpire < currentFrame

\* Batches to delete: those before the first that has not expired
DeletedBatches(queue) ==
  {i \in DOMAIN queue : \A j \in 1..i : Expired(queue[j])}

Erased(queue) ==
  SubSeq(queue, Cardinality(DeletedBatches(queue)) + 1, Len(queue))

\* mutant of: the queue is looked at before the released objects are added
NextFrameIfWaiting(queue) ==
  IF deferredDeletionQueue = <<>> THEN currentFrame ELSE currentFrame + 1
\* Frames are counted while the queue was not empty before the deletion
NextFrame(queue) == IF queue = <<>> THEN currentFrame ELSE currentFrame + 1

FlushPendingDeletes ==
  LET queue == WithPending
  IN  /\ pendingDeletes' = {}
      /\ deleted' = deleted \cup
                      UNION {queue[i].objects : i \in DeletedBatches(queue)}
      /\ deferredDeletionQueue' = Erased(queue)
      /\ currentFrame' = NextFrame(queue)

-----------------------------------------------------------------------------
(* The frame of the application                                             *)

EndFrame ==
  /\ phase = "recording"
  /\ phase' = "ended"
  /\ FlushPendingDeletes
  /\ UNCHANGED <<made, numRefs, gpuVars, displayVars>>

\* Display::SwapBuffers submits what is open and presents
SwapBuffers ==
  /\ phase = "ended"
  /\ phase' = "presented"
  /\ unfinished' = unfinished + 1
  /\ UNCHANGED <<objectVars, deletionVars, inUse, displayVars>>

\* Display::WaitOnSwapBuffers gets a slot
WaitOnSwapBuffers ==
  /\ phase = "presented" /\ slots > 0
  /\ phase' = "recording"
  /\ slots' = slots - 1
  /\ UNCHANGED <<objectVars, deletionVars, gpuVars, timeouts>>

\* The second is over; the result of the wait is not looked at
WaitTimesOut ==
  /\ phase = "presented" /\ slots = 0 /\ timeouts < MaxTimeouts
  /\ phase' = "recording"
  /\ timeouts' = timeouts + 1
  /\ UNCHANGED <<objectVars, deletionVars, gpuVars, slots>>

\* External: the GPU finishes the oldest presented frame
FinishFrame ==
  /\ unfinished > 0
  /\ unfinished' = unfinished - 1
  /\ inUse' = [o \in Objects |-> IF inUse[o] = 0 THEN 0 ELSE inUse[o] - 1]
  /\ slots' = slots + 1
  /\ UNCHANGED <<phase, objectVars, deletionVars, timeouts>>

-----------------------------------------------------------------------------
Init ==
  /\ phase = "recording"
  /\ made = {} /\ numRefs = [o \in Objects |-> 0]
  /\ pendingDeletes = {} /\ deferredDeletionQueue = <<>>
  /\ currentFrame = 0 /\ deleted = {}
  /\ unfinished = 0 /\ inUse = [o \in Objects |-> 0]
  /\ slots = Latency /\ timeouts = 0

Next ==
  \/ \E o \in Objects : Create(o) \/ AddRef(o) \/ Release(o) \/ Use(o)
  \/ EndFrame \/ SwapBuffers
  \/ WaitOnSwapBuffers \/ WaitTimesOut
  \/ FinishFrame

\* The main loop goes on and the GPU finishes what it was given
Spec ==
  /\ Init /\ [][Next]_vars
  /\ WF_vars(EndFrame) /\ WF_vars(SwapBuffers) /\ WF_vars(WaitOnSwapBuffers)
  /\ WF_vars(FinishFrame)

-----------------------------------------------------------------------------
(* Properties                                                               *)

Batch == [objects : (SUBSET Objects) \ {{}}, frameDeleted : Nat]

\* Every variable has its type, and no batch is empty.
TypeOK ==
  /\ phase \in {"recording", "ended", "presented"}
  /\ made \subseteq Objects /\ deleted \subseteq made
  /\ numRefs \in [Objects -> 0..MaxRefs]
  /\ pendingDeletes \subseteq made
  /\ deferredDeletionQueue \in Seq(Batch) /\ currentFrame \in Nat
  /\ unfinished \in Nat /\ inUse \in [Objects -> Nat]
  /\ slots \in Nat /\ timeouts \in 0..MaxTimeouts

\* No object is deleted while commands of a frame the GPU has not finished
\* use it, although no fence is asked: the number of frames a batch waits, the
\* frames counted and the wait after each present are enough together.
DeletedIdle == \A o \in deleted : inUse[o] = 0

Waiting(o) ==
  {i \in DOMAIN deferredDeletionQueue : o \in deferredDeletionQueue[i].objects}
Times(b) == IF b THEN 1 ELSE 0

\* An object its owners let go is in one place, so it is deleted once; one
\* that has an owner is in none: Release, the batches and the deletion agree.
ReleasedInOnePlace ==
  \A o \in made :
    Times(o \in pendingDeletes) + Cardinality(Waiting(o)) + Times(o \in deleted)
      = Times(numRefs[o] = 0)

\* Batches are in the order of their frames and none is overdue, so that the
\* scan may stop at the first that has not expired; frames are counted although
\* nothing is released in them.
NoBatchOverdue ==
  LET frame(i) == deferredDeletionQueue[i].frameDeleted
  IN  \A i, j \in DOMAIN deferredDeletionQueue :
        /\ i < j => frame(i) < frame(j)
        /\ currentFrame <= frame(i) + NumFramesToExpire + 1

\* An object its owners let go is deleted in the end, also when nothing is
\* released after it: the flush goes on counting frames for it.
ReleasedIsDeleted ==
  \A o \in Objects : (o \in made /\ numRefs[o] = 0) ~> (o \in deleted)
===============================================================================
