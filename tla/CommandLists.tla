---------------------------- MODULE CommandLists ----------------------------
(***************************************************************************)
(* Submission of GPU work in Engine/Render/D3D12: the render thread with   *)
(* its default CommandContext, the CommandListManager and its fence, the    *)
(* CommandAllocatorManager, the one CommandListHandle in circulation, the   *)
(* loader threads that commit uploads on the same queue, and the GPU.       *)
(*                                                                         *)
(* The GPU queue is `todo', the items submitted and not finished, in order. *)
(* An "exec" item remembers, as a ghost, how often its allocator had been   *)
(* reset when the item was recorded (epoch) and the fence value that is to  *)
(* be signalled after it (val).                                            *)
(*                                                                         *)
(* A definition that says "mutant of" is the code with one plausible slip;  *)
(* no behaviour of the model uses it.                                       *)
(***************************************************************************)
EXTENDS Integers, Sequences

CONSTANTS Render,      \* the render thread
          Loaders,     \* threads that upload textures and buffers
          MaxAllocs,   \* bound: command allocators ever created
          MaxBatch,    \* bound: values of the command list fence
          MaxUpload,   \* bound: values of the resource fence
          MaxFrame     \* bound: values of the frame fence

ASSUME ThreadsAssumption == Render \notin Loaders

ASSUME BoundsAssumption ==
  MaxAllocs \in Nat \ {0} /\ MaxBatch \in Nat /\ MaxUpload \in Nat
  /\ MaxFrame \in Nat

Threads  == Loaders \cup {Render}
Fences   == {"CommandList", "Resource", "Frame"}
NoAlloc  == -1    \* CommandContext::CommandAllocator == nullptr
ResAlloc == 0     \* Device::d3d_cmd_allocators[Command_Resource]
Allocs   == 1 .. MaxAllocs     \* place in CommandAllocators, creation order

VARIABLES
  todo,                       \* the direct queue
  completed,                  \* ID3D12Fence::GetCompletedValue
  event, armed,               \* completion event of a fence, value it awaits
  fence_val, last_completed,  \* Fence members
  numAllocs, epoch,           \* allocators created, resets of each
  pending, sync,              \* CommandAllocator members
  queue,                      \* CommandAllocatorQueue
  ctxAlloc,                   \* CommandContext::CommandAllocator
  listAlloc, listEpoch,       \* CurrentCommandAllocator, its epoch (ghost)
  isClosed, curGen, lastGen, active,    \* CommandListData members
  work, mode, ending,         \* HasDoneWork; the render thread's call
  pc, signaled                \* of each thread; SignaledFenceValue

gpuVars   == <<todo, completed>>
waitVars  == <<event, armed>>
fenceVars == <<fence_val, last_completed>>
allocVars == <<numAllocs, epoch, pending, sync, queue, ctxAlloc>>
listVars  == <<listAlloc, listEpoch, isClosed, curGen, lastGen, active>>
callVars  == <<work, mode, ending>>
vars == <<gpuVars, waitVars, fenceVars, allocVars, listVars, callVars, pc,
          signaled>>

Goto(t, place) == pc' = [pc EXCEPT ![t] = place]
-----------------------------------------------------------------------------
(* Fence *)

\* The fence a thread signals and waits for
FenceOf(t) == IF t = Render THEN "CommandList" ELSE "Resource"

SyncPoint(f, v) == [fence |-> f, val |-> v]

\* Fence::IsFenceComplete, without the refresh of last_completed_val
IsFenceComplete(f, v) == v < last_completed[f] \/ v <= completed[f]

\* Fence::UpdateLastCompletedFence
UpdateLastCompleted(f) ==
  last_completed' = [last_completed EXCEPT ![f] = completed[f]]

\* Fence::IncrementCurrentFence, and the increment at the end of Signal
ForgetIncrement(f) == fence_val' = [fence_val EXCEPT ![f] = @]   \* mutant of
IncrementFence(f) == fence_val' = [fence_val EXCEPT ![f] = @ + 1]

Enqueue(op, f, a, e) ==
  /\ todo' = Append(todo, [op |-> op, fence |-> f, alloc |-> a, epoch |-> e,
                           val |-> fence_val[f]])
  /\ UNCHANGED completed

\* mutant of: a value already reached would not fire any more
ArmOnly(f, v) == armed' = [armed EXCEPT ![f] = v] /\ UNCHANGED event

\* SetEventOnCompletion: fires at once when the value was already reached
SetEventOnCompletion(f, v) ==
  IF v <= completed[f]
  THEN event' = [event EXCEPT ![f] = TRUE] /\ UNCHANGED armed
  ELSE armed' = [armed EXCEPT ![f] = v] /\ UNCHANGED event

\* Fence::Signal as far as InternalSignal
SignalFence(t) ==
  /\ pc[t] = "executed"
  /\ Enqueue("signal", FenceOf(t), ResAlloc, 0)
  /\ signaled' = [signaled EXCEPT ![t] = fence_val[FenceOf(t)]]
  /\ Goto(t, "signalled")
  /\ UNCHANGED <<waitVars, fenceVars, allocVars, listVars, callVars>>

\* The rest of it, where a wait follows: an upload and the manager's Destroy
FinishSignal(t) ==
  /\ pc[t] = "signalled" /\ (t = Render => mode = "destroy")
  /\ UpdateLastCompleted(FenceOf(t))
  /\ IncrementFence(FenceOf(t))
  /\ Goto(t, "check")
  /\ UNCHANGED <<gpuVars, waitVars, allocVars, listVars, callVars, signaled>>

\* Fence::WaitForFence: the two tests, the event, WaitForSingleObject on it
WaitCheck(t) ==
  /\ pc[t] = "check"
  /\ UpdateLastCompleted(FenceOf(t))
  /\ Goto(t, IF IsFenceComplete(FenceOf(t), signaled[t]) THEN "waited"
                                                         ELSE "arm")
  /\ UNCHANGED <<gpuVars, waitVars, fence_val, allocVars, listVars, callVars,
                 signaled>>

WaitArm(t) ==
  /\ pc[t] = "arm"
  /\ SetEventOnCompletion(FenceOf(t), signaled[t])
  /\ Goto(t, "waiting")
  /\ UNCHANGED <<gpuVars, fenceVars, allocVars, listVars, callVars, signaled>>

WaitWake(t) ==
  /\ pc[t] = "waiting" /\ event[FenceOf(t)]
  /\ event' = [event EXCEPT ![FenceOf(t)] = FALSE]
  /\ UpdateLastCompleted(FenceOf(t))
  /\ Goto(t, "waited")
  /\ UNCHANGED <<gpuVars, armed, fence_val, allocVars, listVars, callVars,
                 signaled>>
-----------------------------------------------------------------------------
(* The GPU works through the queue in order. *)

GpuExecute ==
  /\ todo # <<>> /\ Head(todo).op = "exec"
  /\ todo' = Tail(todo)
  /\ UNCHANGED <<completed, waitVars, fenceVars, allocVars, listVars, callVars,
                 pc, signaled>>

GpuSignal ==
  /\ todo # <<>> /\ Head(todo).op = "signal"
  /\ todo' = Tail(todo)
  /\ LET f == Head(todo).fence
         v == Head(todo).val
         fires == armed[f] # 0 /\ armed[f] <= v
     IN /\ completed' = [completed EXCEPT ![f] = v]
        /\ event' = [event EXCEPT ![f] = @ \/ fires]
        /\ armed' = [armed EXCEPT ![f] = IF fires THEN 0 ELSE @]
  /\ UNCHANGED <<fenceVars, allocVars, listVars, callVars, pc, signaled>>
-----------------------------------------------------------------------------
(* CommandAllocatorManager and CommandListData *)

ListsAreDone(a) == pending[a] = 0       \* mutant of: the GPU is forgotten

\* CommandAllocator::IsReady
IsReady(a) == pending[a] = 0 /\ IsFenceComplete(sync[a].fence, sync[a].val)

IncrementPending(a) == pending' = [pending EXCEPT ![a] = @ + 1]
DecrementPendingTwice(a) == pending' = [pending EXCEPT ![a] = @ - 2] \* mutant of
DecrementPending(a) == pending' = [pending EXCEPT ![a] = @ - 1]

\* mutant of: pops an entry before it looks whether it is complete
PopThenTest(k) ==
  /\ \A i \in 1 .. k - 1 : IsFenceComplete("CommandList", active[i].val)
  /\ k < Len(active) => ~ IsFenceComplete("CommandList", active[k + 1].val)

\* How many entries CleanupActiveGenerations pops: the complete ones in front
CleanupCount(k) ==
  /\ \A i \in 1 .. k : IsFenceComplete("CommandList", active[i].val)
  /\ k < Len(active) => ~ IsFenceComplete("CommandList", active[k + 1].val)

CleanupActiveGenerations ==
  \E k \in 0 .. Len(active) :
    /\ CleanupCount(k)
    /\ active' = SubSeq(active, k + 1, Len(active))
    /\ lastGen' = IF k = 0 THEN lastGen ELSE active[k].gen

\* CommandListData::IsComplete, the value it returns
IsComplete(g) ==
  /\ g < curGen
  /\ \/ g <= lastGen
     \/ \E k \in 0 .. Len(active) :
          /\ CleanupCount(k)
          /\ \/ k > 0 /\ g <= active[k].gen
             \/ k = Len(active)
             \/ g < active[k + 1].gen
-----------------------------------------------------------------------------
(* The render thread *)

\* A draw or a barrier on the open list
Record ==
  /\ pc[Render] = "open" /\ ~ work
  /\ work' = TRUE
  /\ UNCHANGED <<gpuVars, waitVars, fenceVars, allocVars, listVars, mode,
                 ending, pc, signaled>>

\* Close the list and hand it to the queue (first half of ExecuteCommandLists)
CloseAndExecute(m) ==
  /\ fence_val["CommandList"] <= MaxBatch
  /\ isClosed' = TRUE
  /\ Enqueue("exec", "CommandList", listAlloc, listEpoch)
  /\ Goto(Render, "executed") /\ mode' = m
  /\ UNCHANGED <<listAlloc, listEpoch, curGen, lastGen, active>>

\* CommandContext::FlushCommands: nothing is submitted when nothing was
\* recorded, unless the caller waits
FlushCommands(wait) ==
  /\ pc[Render] = "open" /\ (work \/ wait)
  /\ CloseAndExecute(IF wait THEN "wait" ELSE "flush")
  /\ UNCHANGED <<waitVars, fenceVars, allocVars, work, ending, signaled>>

\* mutant of: a stack of allocators instead of a queue
ReleaseToFront ==
  /\ queue' = IF ctxAlloc # NoAlloc THEN <<ctxAlloc>> \o queue ELSE queue
  /\ ctxAlloc' = NoAlloc

\* CommandContext::ReleaseCommandAllocator
ReleaseCommandAllocator ==
  /\ queue' = IF ctxAlloc # NoAlloc THEN Append(queue, ctxAlloc) ELSE queue
  /\ ctxAlloc' = NoAlloc

\* CommandContext::EndFrame: the allocator goes back to its queue while the
\* list recorded in it is still open, then the list is flushed if it has work
EndFrame ==
  /\ pc[Render] = "open" /\ fence_val["Frame"] <= MaxFrame
  /\ ReleaseCommandAllocator
  /\ ending' = TRUE
  /\ \/ work /\ CloseAndExecute("flush")
     \/ ~ work /\ Goto(Render, "frame") /\ UNCHANGED <<gpuVars, mode, listVars>>
  /\ UNCHANGED <<waitVars, fenceVars, numAllocs, epoch, pending, sync, work,
                 signaled>>

\* CommandListData::SetSyncPoint
SetSyncPoint ==
  /\ active' = Append(active, [gen |-> curGen, val |-> signaled[Render]])
  /\ curGen' = curGen + 1
  /\ sync' = [sync EXCEPT ![listAlloc] =
                SyncPoint("CommandList", signaled[Render])]

\* The rest of Signal, SetSyncPoint and ReleaseCommandList; a flush goes on to
\* OpenCommandList, a wait to the fence
TrackAndRelease ==
  /\ pc[Render] = "signalled" /\ mode # "destroy"
  /\ UpdateLastCompleted("CommandList")
  /\ IncrementFence("CommandList")
  /\ SetSyncPoint
  /\ DecrementPending(listAlloc)
  /\ Goto(Render, IF mode = "wait" THEN "check" ELSE "reopen")
  /\ UNCHANGED <<gpuVars, waitVars, numAllocs, epoch, queue, ctxAlloc,
                 listAlloc, listEpoch, isClosed, lastGen, callVars, signaled>>

\* CommandContext::ConditionalObtainCommandAllocator, ObtainCommandAllocator
KeepAllocator ==
  ctxAlloc # NoAlloc /\ UNCHANGED <<allocVars, last_completed>>

PeekAllocator == ctxAlloc' = Head(queue) /\ UNCHANGED queue      \* mutant of
PopAllocator == ctxAlloc' = Head(queue) /\ queue' = Tail(queue)

ReuseAllocator ==
  /\ ctxAlloc = NoAlloc /\ queue # <<>> /\ IsReady(Head(queue))
  /\ PopAllocator
  /\ epoch' = [epoch EXCEPT ![Head(queue)] = @ + 1]
  /\ LET s == sync[Head(queue)]
     IN IF s.val < last_completed[s.fence] THEN UNCHANGED last_completed
                                           ELSE UpdateLastCompleted(s.fence)
  /\ UNCHANGED <<numAllocs, pending, sync>>

CreateAllocator ==
  /\ ctxAlloc = NoAlloc /\ (queue = <<>> \/ ~ IsReady(Head(queue)))
  /\ numAllocs < MaxAllocs
  /\ numAllocs' = numAllocs + 1
  /\ ctxAlloc' = numAllocs + 1
  /\ sync' = [sync EXCEPT ![numAllocs + 1] =
                SyncPoint("Frame", completed["Frame"])]
  /\ UpdateLastCompleted("Frame")
  /\ UNCHANGED <<pending, queue, epoch>>

ObtainAllocator ==
  /\ \/ pc[Render] = "reopen"
     \/ pc[Render] = "waited" /\ mode = "wait"
  /\ KeepAllocator \/ ReuseAllocator \/ CreateAllocator
  /\ Goto(Render, "listless")
  /\ UNCHANGED <<gpuVars, waitVars, fence_val, listVars, callVars, signaled>>

\* CommandListManager::ObtainCommandList: the list just released comes back
\* and is reset on the context's allocator; the rest of OpenCommandList
ObtainCommandList ==
  /\ pc[Render] = "listless"
  /\ listAlloc' = ctxAlloc /\ listEpoch' = epoch[ctxAlloc]
  /\ isClosed' = FALSE
  /\ IncrementPending(ctxAlloc)
  /\ CleanupActiveGenerations
  /\ work' = FALSE
  /\ Goto(Render, IF ending THEN "frame" ELSE "open")
  /\ UNCHANGED <<gpuVars, waitVars, fenceVars, numAllocs, epoch, sync, queue,
                 ctxAlloc, curGen, mode, ending, signaled>>

\* Context::AdvanceFrameFence: IncrementCurrentFence, then ManualFence::Signal
AdvanceFrameFence ==
  /\ pc[Render] = "frame"
  /\ IncrementFence("Frame")
  /\ Enqueue("signal", "Frame", ResAlloc, 0)
  /\ UpdateLastCompleted("Frame")
  /\ ending' = FALSE /\ Goto(Render, "open")
  /\ UNCHANGED <<waitVars, allocVars, listVars, work, mode, signaled>>

\* A CLSyncPoint of generation g is asked whether it is complete, and finished
\* generations leave the list's queue
QueryGeneration(g) ==
  /\ pc[Render] = "open"
  /\ lastGen < g /\ g < curGen
  /\ active # <<>> /\ Head(active).gen <= g
  /\ IsFenceComplete("CommandList", Head(active).val)
  /\ CleanupActiveGenerations
  /\ UNCHANGED <<gpuVars, waitVars, fenceVars, allocVars, listAlloc, listEpoch,
                 isClosed, curGen, callVars, pc, signaled>>
-----------------------------------------------------------------------------
(* Loader threads: record and commit an upload under the Command_Resource   *)
(* mutex, on the render thread's queue but with a fence, an allocator and a *)
(* list of their own.                                                       *)

\* The lock_guard on GetCommandListMutex(Command_Resource): nobody is inside
NoMutex == TRUE                                                  \* mutant of
MutexFree == \A l \in Loaders : pc[l] = "idle"

\* Lock the mutex, record, close and execute
CommitExecute(l) ==
  /\ pc[l] = "idle" /\ MutexFree
  /\ mode # "destroy" /\ fence_val["Resource"] <= MaxUpload
  /\ Enqueue("exec", "Resource", ResAlloc, epoch[ResAlloc])
  /\ Goto(l, "executed")
  /\ UNCHANGED <<waitVars, fenceVars, allocVars, listVars, callVars, signaled>>

\* Reset the allocator and the list, unlock
CommitReset(l) ==
  /\ pc[l] = "waited"
  /\ epoch' = [epoch EXCEPT ![ResAlloc] = @ + 1]
  /\ Goto(l, "idle")
  /\ UNCHANGED <<gpuVars, waitVars, fenceVars, numAllocs, pending, sync, queue,
                 ctxAlloc, listVars, callVars, signaled>>
-----------------------------------------------------------------------------
(* CommandListManager::Destroy, when the loaders are done *)

NoFlush == "waited"                                              \* mutant of
FlushBegin == "executed"    \* WaitForCommandQueueFlush signals, then waits

Destroy ==
  /\ pc[Render] = "open" /\ MutexFree
  /\ Goto(Render, FlushBegin) /\ mode' = "destroy"
  /\ UNCHANGED <<gpuVars, waitVars, fenceVars, allocVars, listVars, work,
                 ending, signaled>>

\* Drop the ready lists, the queue and the fence
DestroyFinish ==
  /\ pc[Render] = "waited" /\ mode = "destroy"
  /\ Goto(Render, "destroyed")
  /\ UNCHANGED <<gpuVars, waitVars, fenceVars, allocVars, listVars, callVars,
                 signaled>>
-----------------------------------------------------------------------------
\* The device is up: the default context holds an open list in allocator 1
Init ==
  /\ todo = <<>> /\ completed = [f \in Fences |-> 0]
  /\ event = [f \in Fences |-> FALSE] /\ armed = [f \in Fences |-> 0]
  /\ fence_val = [f \in Fences |-> 1]
  /\ last_completed = [f \in Fences |-> 0]
  /\ numAllocs = 1 /\ epoch = [a \in 0 .. MaxAllocs |-> 0]
  /\ pending = [a \in Allocs |-> IF a = 1 THEN 1 ELSE 0]
  /\ sync = [a \in Allocs |-> SyncPoint("Frame", 0)]
  /\ queue = <<>> /\ ctxAlloc = 1
  /\ listAlloc = 1 /\ listEpoch = 0 /\ isClosed = FALSE
  /\ curGen = 1 /\ lastGen = 0 /\ active = <<>>
  /\ work = FALSE /\ mode = "flush" /\ ending = FALSE
  /\ pc = [t \in Threads |-> IF t = Render THEN "open" ELSE "idle"]
  /\ signaled = [t \in Threads |-> 0]

GpuStep == GpuExecute \/ GpuSignal

\* What a thread does without being asked again, once it is inside a call
FenceStep(t) ==
  SignalFence(t) \/ FinishSignal(t) \/ WaitCheck(t) \/ WaitArm(t) \/ WaitWake(t)

Continue(t) ==
  \/ FenceStep(t)
  \/ /\ t = Render
     /\ \/ TrackAndRelease \/ ObtainAllocator \/ ObtainCommandList
        \/ AdvanceFrameFence \/ DestroyFinish
  \/ t \in Loaders /\ CommitReset(t)

RenderCall ==
  \/ Record
  \/ \E wait \in BOOLEAN : FlushCommands(wait)
  \/ EndFrame
  \/ \E g \in 1 .. curGen : QueryGeneration(g)
  \/ Destroy

Terminated == pc[Render] = "destroyed" /\ UNCHANGED vars

Next ==
  \/ GpuStep
  \/ \E t \in Threads : Continue(t)
  \/ RenderCall
  \/ \E l \in Loaders : CommitExecute(l)
  \/ Terminated

\* The queue is executed, and a thread inside a call keeps running.  Nobody
\* is obliged to make a call.
Fairness == WF_vars(GpuStep) /\ \A t \in Threads : WF_vars(Continue(t))

Spec == Init /\ [][Next]_vars /\ Fairness
-----------------------------------------------------------------------------
(* Properties *)

Items == [op : {"exec", "signal"}, fence : Fences, alloc : 0 .. MaxAllocs,
          epoch : Nat, val : Nat]

GpuType  == todo \in Seq(Items) /\ completed \in [Fences -> Nat]
WaitType == event \in [Fences -> BOOLEAN] /\ armed \in [Fences -> Nat]

FenceType == fence_val \in [Fences -> Nat] /\ last_completed \in [Fences -> Nat]

AllocType ==
  /\ numAllocs \in Allocs /\ epoch \in [0 .. MaxAllocs -> Nat]
  /\ pending \in [Allocs -> Nat]
  /\ sync \in [Allocs -> [fence : Fences, val : Nat]]
  /\ queue \in Seq(Allocs) /\ ctxAlloc \in Allocs \cup {NoAlloc}

ListType ==
  /\ listAlloc \in Allocs /\ listEpoch \in Nat /\ isClosed \in BOOLEAN
  /\ curGen \in Nat /\ lastGen \in Nat
  /\ active \in Seq([gen : Nat, val : Nat])

FencePlaces == {"executed", "signalled", "check", "arm", "waiting", "waited"}
Places == FencePlaces \cup {"idle", "open", "reopen", "listless", "frame",
                           "destroyed"}

ThreadType ==
  /\ work \in BOOLEAN /\ mode \in {"flush", "wait", "destroy"}
  /\ ending \in BOOLEAN /\ signaled \in [Threads -> Nat]
  /\ pc \in [Threads -> Places]

TypeOK ==
  GpuType /\ WaitType /\ FenceType /\ AllocType /\ ListType /\ ThreadType

\* The list handle is with the context, not in ReadyLists
ListHeld ==
  pc[Render] \in {"open", "executed", "signalled", "frame"} \/ mode = "destroy"

(* No allocator is reset under commands the GPU has yet to execute, nor      *)
(* under the list that is being recorded: reset only when "all command lists *)
(* have been executed (or discarded) AND the GPU not using it".  The sync    *)
(* points, the pending counts and, for uploads, the mutex and the wait must  *)
(* all work together for this.                                              *)
MemoryIntact ==
  /\ \A i \in DOMAIN todo :
       todo[i].op = "exec" => todo[i].epoch = epoch[todo[i].alloc]
  /\ ~ isClosed => listEpoch = epoch[listAlloc]

(* A generation of the list handle is reported complete exactly when the GPU *)
(* is past the batch it was submitted in, in whatever state of cleanup the   *)
(* queue of active generations is.  Everything recycled through a            *)
(* CLSyncPoint relies on it.                                                *)
GenerationExact ==
  \A g \in 1 .. curGen :
    IsComplete(g) <=> g < curGen /\ g <= completed["CommandList"]

(* ObtainCommandAllocator looks at the front of its queue only, and takes a  *)
(* front that is not ready for "no command allocators were ready".           *)
QueueFrontOldest ==
  \A i \in DOMAIN queue : IsReady(queue[i]) => IsReady(Head(queue))

(* An allocator is never lost and never handed out twice: each one created   *)
(* is the context's or is queued exactly once; only the one under the held   *)
(* list counts a pending list.                                              *)
AllocatorsConserved ==
  \A a \in Allocs :
    LET places == {i \in DOMAIN queue : queue[i] = a}
    IN /\ a <= numAllocs => \/ ctxAlloc = a /\ places = {}
                            \/ ctxAlloc # a /\ \E i \in places : places = {i}
       /\ pending[a] = IF ListHeld /\ listAlloc = a THEN 1 ELSE 0

(* A thread comes back from WaitForFence only when its value was reached     *)
(* (the assertion after the wait in ExecuteCommandLists), although the       *)
(* completion event of a fence is shared by all its waiters.                *)
WaitReturnsComplete ==
  \A t \in Threads : pc[t] = "waited" => signaled[t] <= completed[FenceOf(t)]

(* When the manager has dropped its queue and its fence, the GPU has nothing *)
(* left to execute or to signal.                                            *)
DestroyedIdle == pc[Render] = "destroyed" => todo = <<>>

(* A call that submits, waits or shuts down comes back. *)
RenderReturns ==
  pc[Render] # "open" ~> pc[Render] \in {"open", "destroyed"}

(* A committed upload is waited for and its thread comes back. *)
UploadReturns == \A l \in Loaders : pc[l] # "idle" ~> pc[l] = "idle"

\* The batch being recorded is numbered by the value its fence will signal
Timeline == INSTANCE CommandTimeline WITH
  open <- IF pc[Render] = "signalled" THEN signaled[Render] + 1
                                      ELSE fence_val["CommandList"],
  done <- completed["CommandList"]

(* Submission, seen from the queue, is the command timeline: batches finish  *)
(* in order, after they were submitted, and all of them do.                 *)
TimelineSpec == Timeline!Spec
=============================================================================
