------------------------- MODULE CommandListsProofs -------------------------
(***************************************************************************)
(* Theorems about CommandLists, for any number of loader threads and any    *)
(* bounds: its types and its action properties; the inductive invariant     *)
(* behind MemoryIntact and WaitReturnsComplete; and, resting on that one,   *)
(* the generations of the list handle, the queue of allocators, the last    *)
(* signal before the manager is destroyed, and the timeline.                *)
(***************************************************************************)
EXTENDS CommandLists, SequenceTheorems, TLAPS

LEMMA Domains ==
  /\ Render \in Threads /\ \A l \in Loaders : l \in Threads /\ l # Render
  /\ \A t \in Threads : FenceOf(t) \in Fences
  /\ FenceOf(Render) = "CommandList"
  /\ \A l \in Loaders : FenceOf(l) = "Resource"
  /\ "CommandList" \in Fences /\ "Resource" \in Fences /\ "Frame" \in Fences
  /\ ResAlloc \in 0 .. MaxAllocs /\ ResAlloc \notin Allocs
  /\ 1 \in Allocs /\ NoAlloc \notin Allocs
  /\ \A a \in Allocs : a \in 0 .. MaxAllocs
BY ThreadsAssumption, BoundsAssumption
   DEF Threads, FenceOf, Fences, ResAlloc, NoAlloc, Allocs

(* The pending count of an allocator is 1 when the held list is open on it,  *)
(* and 0 otherwise: no decrement can take it below zero.                    *)
PendingExact ==
  \A a \in Allocs : pending[a] = IF ListHeld /\ listAlloc = a THEN 1 ELSE 0

(* Where the threads can be: a list is opened with an allocator in hand, and *)
(* recorded outside the calls that submit; Destroy comes last.               *)
ControlInv ==
  /\ pc[Render] = "listless" => ctxAlloc # NoAlloc
  /\ mode = "destroy" => pc[Render] \in FencePlaces \cup {"destroyed"}
  /\ isClosed <=> ~ (pc[Render] \in {"open", "frame"} \/ mode = "destroy")

TypeInv == TypeOK /\ PendingExact /\ ControlInv

LEMMA GotoType ==
  ASSUME pc \in [Threads -> Places], NEW t \in Threads, NEW place \in Places,
         Goto(t, place)
  PROVE  /\ pc' \in [Threads -> Places] /\ pc'[t] = place
         /\ \A u \in Threads : u # t => pc'[u] = pc[u]
BY DEF Goto

LEMMA InitType == Init => TypeInv
<1> SUFFICES ASSUME Init PROVE TypeInv
  OBVIOUS
<1> USE Domains, BoundsAssumption DEF Init
<1>1. GpuType
  BY DEF GpuType
<1>2. WaitType
  BY DEF WaitType
<1>3. FenceType
  BY DEF FenceType
<1>4. AllocType
  BY DEF AllocType, SyncPoint
<1>5. ListType
  <2>1. active \in Seq([gen : Nat, val : Nat])
    OBVIOUS
  <2>2. isClosed \in BOOLEAN
    BY Zenon
  <2> QED BY <2>1, <2>2 DEF ListType
<1>6. ThreadType
  BY DEF ThreadType, Places
<1>7. PendingExact
  BY DEF PendingExact, ListHeld
<1>8. ControlInv
  BY DEF ControlInv, FencePlaces
<1> QED
  BY <1>1, <1>2, <1>3, <1>4, <1>5, <1>6, <1>7, <1>8 DEF TypeInv, TypeOK

LEMMA GpuStepType == TypeInv /\ GpuStep => TypeInv'
<1> SUFFICES ASSUME TypeInv, GpuStep PROVE TypeInv'
  OBVIOUS
<1> USE DEF TypeInv, TypeOK
<1>1. /\ UNCHANGED <<fenceVars, allocVars, listVars, callVars, pc, signaled>>
      /\ todo # <<>> /\ todo' = Tail(todo)
  BY DEF GpuStep, GpuExecute, GpuSignal
<1>2. FenceType' /\ AllocType' /\ ListType' /\ ThreadType'
  BY <1>1 DEF FenceType, AllocType, ListType, ThreadType, fenceVars, allocVars,
              listVars, callVars
<1>3. PendingExact' /\ ControlInv'
  BY <1>1 DEF PendingExact, ControlInv, ListHeld, allocVars, listVars,
              callVars
<1>4. todo' \in Seq(Items) /\ Head(todo) \in Items
  BY <1>1 DEF GpuType
<1>5. CASE GpuExecute
  <2>1. GpuType' /\ WaitType'
    BY <1>4, <1>5 DEF GpuExecute, GpuType, WaitType, waitVars
  <2> QED BY <1>2, <1>3, <2>1
<1>6. CASE GpuSignal
  <2> DEFINE f == Head(todo).fence
             v == Head(todo).val
             fires == armed[f] # 0 /\ armed[f] <= v
  <2>1. f \in Fences /\ v \in Nat
    BY <1>4 DEF Items
  <2>2. GpuType'
    BY <1>4, <1>6, <2>1 DEF GpuSignal, GpuType
  <2>3. armed' \in [Fences -> Nat]
    BY <1>6, <2>1 DEF GpuSignal, WaitType
  <2>4. event' = [event EXCEPT ![f] = event[f] \/ fires]
    BY <1>6 DEF GpuSignal
  <2>5. (event[f] \/ fires) \in BOOLEAN
    OBVIOUS
  <2>6. event' \in [Fences -> BOOLEAN]
    <3> HIDE DEF fires, f
    <3> QED BY <2>1, <2>4, <2>5 DEF WaitType
  <2> QED BY <1>2, <1>3, <2>2, <2>3, <2>6 DEF WaitType
<1> QED BY <1>5, <1>6 DEF GpuStep

LEMMA FenceStepType ==
  ASSUME TypeInv, NEW t \in Threads, FenceStep(t)
  PROVE  TypeInv'
<1> USE Domains DEF TypeInv, TypeOK
<1> DEFINE f == FenceOf(t)
<1>0. f \in Fences
  OBVIOUS
<1> HIDE DEF f
<1>1. AllocType' /\ ListType'
  BY DEF FenceStep, SignalFence, FinishSignal, WaitCheck, WaitArm, WaitWake,
         AllocType, ListType, allocVars, listVars
<1>2. UNCHANGED callVars /\ UNCHANGED <<allocVars, listVars>>
  BY DEF FenceStep, SignalFence, FinishSignal, WaitCheck, WaitArm, WaitWake
<1>3. PICK place : /\ Goto(t, place)
                   /\ place \in FencePlaces /\ pc[t] \in FencePlaces
                   /\ place \notin {"executed"}
                   /\ (t = Render /\ mode # "destroy") =>
                        (pc[t] = "executed" <=> place = "signalled")
                   /\ (t = Render /\ mode # "destroy") => pc[t] # "signalled"
  BY DEF FenceStep, SignalFence, FinishSignal, WaitCheck, WaitArm, WaitWake,
         FencePlaces
<1>4. /\ pc' \in [Threads -> Places] /\ pc'[t] = place
      /\ \A u \in Threads : u # t => pc'[u] = pc[u]
  <2>1. pc \in [Threads -> Places] /\ place \in Places
    BY <1>3 DEF ThreadType, Places
  <2> QED BY <1>3, <2>1, GotoType
<1>5. PendingExact' /\ ControlInv'
  <2>1. CASE t = Render
    <3>1. pc'[Render] = place
      BY <1>4, <2>1
    <3>2. ListHeld' <=> ListHeld
      BY <1>2, <1>3, <2>1, <3>1 DEF ListHeld, callVars, FencePlaces
    <3> QED BY <1>2, <1>3, <2>1, <3>1, <3>2 DEF PendingExact, ControlInv,
               FencePlaces, allocVars, listVars, callVars
  <2>2. CASE t # Render
    <3>1. pc'[Render] = pc[Render]
      BY <1>4, <2>2
    <3> QED BY <1>2, <3>1 DEF PendingExact, ControlInv, ListHeld, allocVars,
               listVars, callVars
  <2> QED BY <2>1, <2>2
<1>6. CASE SignalFence(t)
  <2>1. todo' = Append(todo, [op |-> "signal", fence |-> f, alloc |-> ResAlloc,
                              epoch |-> 0, val |-> fence_val[f]])
        /\ completed' = completed
    BY <1>6 DEF SignalFence, Enqueue, f
  <2>2. [op |-> "signal", fence |-> f, alloc |-> ResAlloc, epoch |-> 0,
         val |-> fence_val[f]] \in Items
    BY <1>0 DEF Items, FenceType
  <2>3. GpuType'
    BY <2>1, <2>2 DEF GpuType
  <2>4. WaitType' /\ FenceType'
    BY <1>6 DEF SignalFence, WaitType, FenceType, waitVars, fenceVars
  <2>5. signaled' \in [Threads -> Nat]
    BY <1>0, <1>6 DEF SignalFence, ThreadType, FenceType, f
  <2> QED BY <1>1, <1>2, <1>4, <1>5, <2>3, <2>4, <2>5 DEF ThreadType, callVars
<1>7. CASE FinishSignal(t) \/ WaitCheck(t) \/ WaitArm(t) \/ WaitWake(t)
  <2>1. GpuType' /\ UNCHANGED signaled
    BY <1>7 DEF FinishSignal, WaitCheck, WaitArm, WaitWake, GpuType, gpuVars
  <2>2. /\ \/ UNCHANGED last_completed
           \/ last_completed' = [last_completed EXCEPT ![f] = completed[f]]
        /\ \/ UNCHANGED fence_val
           \/ fence_val' = [fence_val EXCEPT ![f] = fence_val[f] + 1]
    BY <1>7 DEF FinishSignal, WaitCheck, WaitArm, WaitWake, UpdateLastCompleted,
       IncrementFence, fenceVars, f
  <2>4. completed[f] \in Nat /\ fence_val[f] + 1 \in Nat
    <3>1. completed[f] \in Nat
      BY <1>0 DEF GpuType
    <3>2. fence_val[f] \in Nat
      BY <1>0 DEF FenceType
    <3> QED BY <3>1, <3>2
  <2>5. FenceType'
    BY <1>0, <2>2, <2>4 DEF FenceType
  <2>3. WaitType'
    BY <1>0, <1>7 DEF FinishSignal, WaitCheck, WaitArm, WaitWake, WaitType,
       SetEventOnCompletion, waitVars, f, ThreadType
  <2> QED BY <1>1, <1>2, <1>4, <1>5, <2>1, <2>3, <2>5 DEF ThreadType, callVars
<1> QED BY <1>6, <1>7 DEF FenceStep

LEMMA CleanupType ==
  ASSUME ListType, CleanupActiveGenerations
  PROVE  active' \in Seq([gen : Nat, val : Nat]) /\ lastGen' \in Nat
<1>1. PICK k \in 0 .. Len(active) :
        /\ active' = SubSeq(active, k + 1, Len(active))
        /\ lastGen' = IF k = 0 THEN lastGen ELSE active[k].gen
  BY DEF CleanupActiveGenerations
<1>2. active \in Seq([gen : Nat, val : Nat]) /\ lastGen \in Nat
  BY DEF ListType
<1>3. \A i \in 1 .. Len(active) : active[i] \in [gen : Nat, val : Nat]
  BY <1>2, ElementOfSeq
<1>4. \A i \in k + 1 .. Len(active) : active[i] \in [gen : Nat, val : Nat]
  BY <1>2, <1>3, LenProperties
<1>5. active' \in Seq([gen : Nat, val : Nat])
  BY <1>1, <1>2, <1>4, SubSeqProperties
<1> QED BY <1>1, <1>2, <1>3, <1>5

LEMMA RenderContinueType ==
  ASSUME TypeInv,
         \/ TrackAndRelease \/ ObtainAllocator \/ ObtainCommandList
         \/ AdvanceFrameFence \/ DestroyFinish
  PROVE  TypeInv'
<1> USE Domains DEF TypeInv, TypeOK
<1>1. CASE TrackAndRelease
  <2> USE <1>1 DEF TrackAndRelease
  <2>1. GpuType' /\ WaitType'
    BY DEF GpuType, WaitType, gpuVars, waitVars
  <2>2. FenceType'
    BY DEF FenceType, GpuType, UpdateLastCompleted, IncrementFence
  <2>3. pc'[Render] \in {"check", "reopen"} /\ ThreadType'
    BY DEF ThreadType, Goto, callVars, Places, FencePlaces
  <2>4. active' \in Seq([gen : Nat, val : Nat]) /\ curGen' \in Nat
    BY DEF SetSyncPoint, ListType, ThreadType
  <2>5. ListType'
    BY <2>4, Zenon DEF ListType
  <2>6. pending[listAlloc] = 1 /\ listAlloc \in Allocs
    BY DEF PendingExact, ListHeld, ListType
  <2>7. pending' = [pending EXCEPT ![listAlloc] = 0]
    BY <2>6 DEF DecrementPending
  <2>8. sync' \in [Allocs -> [fence : Fences, val : Nat]]
    BY <2>6 DEF SetSyncPoint, SyncPoint, AllocType, ThreadType
  <2>9. AllocType'
    BY <2>6, <2>7, <2>8 DEF AllocType
  <2>10. ~ ListHeld'
    BY <2>3 DEF ListHeld, callVars
  <2>11. PendingExact' /\ ControlInv'
    BY <2>3, <2>6, <2>7, <2>10 DEF PendingExact, ControlInv, AllocType, ListHeld,
       FencePlaces, callVars
  <2> QED BY <2>1, <2>2, <2>3, <2>5, <2>9, <2>11
<1>2. CASE ObtainAllocator
  <2> USE <1>2 DEF ObtainAllocator
  <2>1. GpuType' /\ WaitType' /\ ListType'
    BY DEF GpuType, WaitType, ListType, gpuVars, waitVars, listVars
  <2>2. pc'[Render] = "listless" /\ ThreadType'
    BY DEF ThreadType, Goto, callVars, Places
  <2>3. (ListHeld' <=> ListHeld) /\ (ctxAlloc' # NoAlloc => ControlInv')
    BY <2>2 DEF ListHeld, ControlInv, callVars, listVars, FencePlaces
  <2>4. CASE KeepAllocator
    BY <2>1, <2>2, <2>3, <2>4 DEF KeepAllocator, FenceType, AllocType, PendingExact,
       allocVars, listVars
  <2>5. CASE ReuseAllocator
    <3> USE <2>5 DEF ReuseAllocator, PopAllocator
    <3>1. Head(queue) \in Allocs /\ Tail(queue) \in Seq(Allocs)
      BY DEF AllocType
    <3>2. AllocType' /\ ctxAlloc' # NoAlloc
      <4>1. Head(queue) \in 0 .. MaxAllocs
        BY <3>1
      <4>2. epoch \in [0 .. MaxAllocs -> Nat]
        BY DEF AllocType
      <4>3. epoch' \in [0 .. MaxAllocs -> Nat]
        BY <4>1, <4>2
      <4> QED BY <3>1, <4>3 DEF AllocType
    <3>3. FenceType'
      BY <3>1 DEF FenceType, AllocType, GpuType, UpdateLastCompleted
    <3> QED BY <2>1, <2>2, <2>3, <3>2, <3>3 DEF PendingExact, listVars
  <2>6. CASE CreateAllocator
    <3> USE <2>6 DEF CreateAllocator
    <3>1. numAllocs + 1 \in Allocs /\ numAllocs + 1 # NoAlloc
      BY BoundsAssumption DEF AllocType, Allocs, NoAlloc
    <3>2. sync' \in [Allocs -> [fence : Fences, val : Nat]]
      BY <3>1 DEF AllocType, GpuType, SyncPoint
    <3>3. AllocType' /\ ctxAlloc' # NoAlloc
      BY <3>1, <3>2 DEF AllocType
    <3>4. FenceType'
      BY DEF FenceType, GpuType, UpdateLastCompleted
    <3> QED BY <2>1, <2>2, <2>3, <3>3, <3>4 DEF PendingExact, listVars
  <2> QED BY <2>4, <2>5, <2>6
<1>3. CASE ObtainCommandList
  <2> USE <1>3 DEF ObtainCommandList
  <2>1. GpuType' /\ WaitType' /\ FenceType'
    BY DEF GpuType, WaitType, FenceType, gpuVars, waitVars, fenceVars
  <2>2. pc'[Render] \in {"frame", "open"} /\ ThreadType'
    BY DEF ThreadType, Goto, Places
  <2>3. ctxAlloc \in Allocs
    BY DEF ControlInv, AllocType
  <2>4. active' \in Seq([gen : Nat, val : Nat]) /\ lastGen' \in Nat
    BY CleanupType
  <2>5. listAlloc' \in Allocs /\ listEpoch' \in Nat /\ curGen' \in Nat
    BY <2>3 DEF ListType, AllocType
  <2>6. ListType'
    BY <2>4, <2>5, Zenon DEF ListType
  <2>7. ListHeld' /\ (mode # "destroy" => ~ ListHeld)
    BY <2>2 DEF ListHeld
  <2>8. mode # "destroy"
    BY DEF ControlInv, FencePlaces
  <2>9. AllocType'
    <3>1. /\ pending' = [pending EXCEPT ![ctxAlloc] = @ + 1]
          /\ UNCHANGED <<numAllocs, epoch, sync, queue, ctxAlloc>>
      BY DEF IncrementPending
    <3>2. pending' \in [Allocs -> Nat]
      BY <2>3, <3>1 DEF AllocType
    <3> QED BY <3>1, <3>2 DEF AllocType
  <2>10. PendingExact' /\ ControlInv'
    BY <2>2, <2>3, <2>7, <2>8 DEF PendingExact, ControlInv, AllocType,
       IncrementPending, FencePlaces
  <2> QED BY <2>1, <2>2, <2>6, <2>9, <2>10
<1>4. CASE AdvanceFrameFence
  <2> USE <1>4 DEF AdvanceFrameFence
  <2>1. WaitType' /\ AllocType' /\ ListType'
    BY DEF WaitType, AllocType, ListType, waitVars, allocVars, listVars
  <2>2. pc'[Render] = "open" /\ ThreadType'
    BY DEF ThreadType, Goto, Places
  <2>3. [op |-> "signal", fence |-> "Frame", alloc |-> ResAlloc, epoch |-> 0,
         val |-> fence_val["Frame"]] \in Items
    BY DEF Items, FenceType
  <2>4. GpuType'
    BY <2>3 DEF GpuType, Enqueue
  <2>5. FenceType'
    BY DEF FenceType, GpuType, IncrementFence, UpdateLastCompleted
  <2>6. ListHeld' <=> ListHeld
    BY <2>2 DEF ListHeld
  <2> QED BY <2>1, <2>2, <2>4, <2>5, <2>6 DEF PendingExact, ControlInv,
             FencePlaces, allocVars, listVars
<1>5. CASE DestroyFinish
  <2> USE <1>5 DEF DestroyFinish
  <2>1. pc'[Render] = "destroyed" /\ ThreadType'
    BY DEF ThreadType, Goto, callVars, Places
  <2>2. PendingExact' /\ ControlInv'
    BY <2>1 DEF PendingExact, ControlInv, ListHeld, FencePlaces, allocVars, listVars,
                callVars
  <2> QED BY <2>1, <2>2 DEF GpuType, WaitType, FenceType, AllocType, ListType,
             gpuVars, waitVars, fenceVars, allocVars, listVars
<1> QED BY <1>1, <1>2, <1>3, <1>4, <1>5

LEMMA RenderCallType == TypeInv /\ RenderCall => TypeInv'
<1> SUFFICES ASSUME TypeInv, RenderCall PROVE TypeInv'
  OBVIOUS
<1> USE Domains DEF TypeInv, TypeOK
<1>0. ASSUME NEW m \in {"flush", "wait"}, CloseAndExecute(m),
             UNCHANGED <<fence_val, pending>>
      PROVE  /\ GpuType' /\ ListType' /\ pc' \in [Threads -> Places]
             /\ pc'[Render] = "executed" /\ isClosed' /\ listAlloc' = listAlloc
  <2> USE <1>0 DEF CloseAndExecute
  <2>1. [op |-> "exec", fence |-> "CommandList", alloc |-> listAlloc,
         epoch |-> listEpoch, val |-> fence_val["CommandList"]] \in Items
    BY DEF Items, ListType, FenceType
  <2>2. GpuType'
    BY <2>1 DEF GpuType, Enqueue
  <2>3. ListType'
    BY DEF ListType
  <2>4. pc \in [Threads -> Places] /\ "executed" \in Places
    BY DEF ThreadType, Places, FencePlaces
  <2> QED BY <2>2, <2>3, <2>4, GotoType
<1>1. CASE Record
  <2>1. ThreadType' /\ PendingExact' /\ ControlInv'
    BY <1>1 DEF Record, ThreadType, PendingExact, ControlInv, ListHeld, allocVars,
                listVars
  <2> QED BY <1>1, <2>1 DEF Record, GpuType, WaitType, FenceType, AllocType,
             ListType, gpuVars, waitVars, fenceVars, allocVars, listVars
<1>2. ASSUME NEW wait \in BOOLEAN, FlushCommands(wait) PROVE TypeInv'
  <2> USE <1>2 DEF FlushCommands
  <2>1. PICK m \in {"flush", "wait"} : CloseAndExecute(m)
    OBVIOUS
  <2>2. UNCHANGED <<fence_val, pending>>
    BY DEF fenceVars, allocVars
  <2>3. /\ GpuType' /\ ListType' /\ pc' \in [Threads -> Places] /\ isClosed'
        /\ pc'[Render] = "executed" /\ listAlloc' = listAlloc /\ mode' = m
    BY <1>0, <2>1, <2>2 DEF CloseAndExecute
  <2>4. WaitType' /\ FenceType' /\ AllocType' /\ ThreadType'
    BY <2>3 DEF WaitType, FenceType, AllocType, ThreadType, waitVars, fenceVars,
                allocVars
  <2>5. PendingExact' /\ ControlInv'
    BY <2>3 DEF PendingExact, ControlInv, ListHeld, FencePlaces, allocVars
  <2> QED BY <2>3, <2>4, <2>5
<1>3. CASE EndFrame
  <2> USE <1>3 DEF EndFrame
  <2>1. WaitType' /\ FenceType'
    BY DEF WaitType, FenceType, waitVars, fenceVars
  <2>2. AllocType'
    BY DEF AllocType, ReleaseCommandAllocator
  <2>3. /\ GpuType' /\ ListType' /\ pc' \in [Threads -> Places]
        /\ pc'[Render] \in {"executed", "frame"} /\ listAlloc' = listAlloc
        /\ isClosed' <=> pc'[Render] = "executed"
        /\ mode' = "flush" \/ mode' = mode
    <3>1. CASE CloseAndExecute("flush")
      BY <1>0, <3>1 DEF fenceVars, CloseAndExecute
    <3>2. CASE Goto(Render, "frame") /\ UNCHANGED <<gpuVars, mode, listVars>>
      <4>1. pc \in [Threads -> Places] /\ "frame" \in Places
        BY DEF ThreadType, Places
      <4>2. pc' \in [Threads -> Places] /\ pc'[Render] = "frame"
        BY <3>2, <4>1, GotoType
      <4> QED BY <3>2, <4>2 DEF GpuType, ListType, ControlInv, gpuVars, listVars
    <3> QED BY <3>1, <3>2
  <2>4. ThreadType'
    BY <2>3 DEF ThreadType
  <2>5. PendingExact' /\ ControlInv'
    BY <2>3 DEF PendingExact, ControlInv, ListHeld, FencePlaces
  <2> QED BY <2>1, <2>2, <2>3, <2>4, <2>5
<1>4. ASSUME NEW g \in 1 .. curGen, QueryGeneration(g) PROVE TypeInv'
  <2> USE <1>4 DEF QueryGeneration
  <2>1. active' \in Seq([gen : Nat, val : Nat]) /\ lastGen' \in Nat
    BY CleanupType
  <2>2. ListType'
    BY <2>1 DEF ListType
  <2>3. PendingExact' /\ ControlInv'
    BY DEF PendingExact, ControlInv, ListHeld, allocVars, callVars
  <2> QED BY <2>2, <2>3 DEF GpuType, WaitType, FenceType, AllocType, ThreadType,
             gpuVars, waitVars, fenceVars, allocVars, callVars
<1>5. CASE Destroy
  <2> USE <1>5 DEF Destroy
  <2>1. pc \in [Threads -> Places] /\ "executed" \in Places
    BY DEF ThreadType, Places, FencePlaces
  <2>2. pc' \in [Threads -> Places] /\ pc'[Render] = "executed"
    BY <2>1, GotoType DEF FlushBegin
  <2>3. ThreadType'
    BY <2>2 DEF ThreadType
  <2>4. PendingExact' /\ ControlInv'
    BY <2>2 DEF PendingExact, ControlInv, ListHeld, FencePlaces, allocVars, listVars
  <2> QED BY <2>3, <2>4 DEF GpuType, WaitType, FenceType, AllocType, ListType,
             gpuVars, waitVars, fenceVars, allocVars, listVars
<1> QED BY <1>1, <1>2, <1>3, <1>4, <1>5 DEF RenderCall

LEMMA LoaderType ==
  ASSUME TypeInv, NEW l \in Loaders, CommitExecute(l) \/ CommitReset(l)
  PROVE  TypeInv'
<1> USE Domains DEF TypeInv, TypeOK
<1>1. l \in Threads /\ l # Render /\ pc \in [Threads -> Places]
  BY DEF ThreadType
<1>2. WaitType' /\ FenceType' /\ ListType'
  BY DEF CommitExecute, CommitReset, WaitType, FenceType, ListType, waitVars,
         fenceVars, listVars
<1>3. PICK place \in {"executed", "idle"} : Goto(l, place)
  BY DEF CommitExecute, CommitReset
<1>4. place \in Places
  BY DEF Places, FencePlaces
<1>5. pc' \in [Threads -> Places] /\ pc'[Render] = pc[Render]
  BY <1>1, <1>3, <1>4, GotoType
<1>6. UNCHANGED <<callVars, signaled, listVars, pending, ctxAlloc>>
  BY DEF CommitExecute, CommitReset, allocVars
<1>7. ThreadType' /\ PendingExact' /\ ControlInv'
  BY <1>5, <1>6 DEF ThreadType, PendingExact, ControlInv, ListHeld, callVars, listVars
<1>8. GpuType'
  <2>1. epoch[ResAlloc] \in Nat /\ fence_val["Resource"] \in Nat
    BY DEF AllocType, FenceType
  <2>2. [op |-> "exec", fence |-> "Resource", alloc |-> ResAlloc,
         epoch |-> epoch[ResAlloc], val |-> fence_val["Resource"]] \in Items
    BY <2>1 DEF Items
  <2>3. CASE CommitExecute(l)
    BY <2>2, <2>3 DEF CommitExecute, Enqueue, GpuType
  <2>4. CASE CommitReset(l)
    BY <2>4 DEF CommitReset, GpuType, gpuVars
  <2> QED BY <2>3, <2>4
<1>9. AllocType'
  <2>1. /\ epoch' = epoch \/ epoch' = [epoch EXCEPT ![ResAlloc] = @ + 1]
        /\ UNCHANGED <<numAllocs, pending, sync, queue, ctxAlloc>>
    BY DEF CommitExecute, CommitReset, allocVars
  <2>2. epoch \in [0 .. MaxAllocs -> Nat] /\ ResAlloc \in 0 .. MaxAllocs
    BY DEF AllocType
  <2>3. [epoch EXCEPT ![ResAlloc] = @ + 1] \in [0 .. MaxAllocs -> Nat]
    BY <2>2
  <2>4. epoch' \in [0 .. MaxAllocs -> Nat]
    BY <2>1, <2>2, <2>3
  <2> QED BY <2>1, <2>4 DEF AllocType
<1> QED BY <1>2, <1>7, <1>8, <1>9

LEMMA TypeStep == TypeInv /\ [Next]_vars => TypeInv'
<1> SUFFICES ASSUME TypeInv, [Next]_vars PROVE TypeInv'
  OBVIOUS
<1>1. CASE GpuStep
  BY <1>1, GpuStepType
<1>2. ASSUME NEW t \in Threads, Continue(t) PROVE TypeInv'
  BY <1>2, FenceStepType, RenderContinueType, LoaderType DEF Continue
<1>3. CASE RenderCall
  BY <1>3, RenderCallType
<1>4. ASSUME NEW l \in Loaders, CommitExecute(l) PROVE TypeInv'
  BY <1>4, LoaderType
<1>5. CASE UNCHANGED vars
  <2> USE <1>5 DEF vars, TypeInv, TypeOK
  <2>1. GpuType' /\ WaitType' /\ FenceType' /\ AllocType' /\ ListType'
    BY DEF GpuType, WaitType, FenceType, AllocType, ListType, gpuVars, waitVars,
           fenceVars, allocVars, listVars
  <2>2. ThreadType' /\ PendingExact' /\ ControlInv'
    BY DEF ThreadType, PendingExact, ControlInv, ListHeld, allocVars, listVars,
           callVars
  <2> QED BY <2>1, <2>2
<1> QED BY <1>1, <1>2, <1>3, <1>4, <1>5 DEF Next, Terminated

(* In every reachable state each variable has the type its code gives it; in *)
(* particular the count of pending lists of an allocator never goes below    *)
(* zero, as IncrementPendingCommandLists and DecrementPendingCommandLists     *)
(* assert.                                                                  *)
THEOREM TypeCorrect == Spec => []TypeOK
<1>1. Spec => []TypeInv
  BY InitType, TypeStep, PTL DEF Spec
<1>2. TypeInv => TypeOK
  BY DEF TypeInv
<1> QED BY <1>1, <1>2, PTL
-----------------------------------------------------------------------------
(* Safety: the inductive invariant behind MemoryIntact and WaitReturnsComplete *)

(* One loader at a time is inside, between taking the mutex and the reset.   *)
MutexInv ==
  /\ \A l \in Loaders : pc[l] \in FencePlaces \cup {"idle"}
  /\ \A l, k \in Loaders : pc[l] # "idle" /\ pc[k] # "idle" => l = k

\* Fences of which an execute, or already the signal after it, is in flight
Executing ==
  {FenceOf(t) : t \in {u \in Threads : pc[u] \in {"executed", "signalled"}}}
Signalling == {FenceOf(t) : t \in {u \in Threads : pc[u] = "signalled"}}

(* A fence is behind every item still queued for it and ahead of the stale    *)
(* copy the CPU keeps; a value that equals fence_val is being signalled.      *)
FenceOrder ==
  \A f \in Fences :
    /\ last_completed[f] <= completed[f]
    /\ completed[f] <= fence_val[f]
    /\ completed[f] = fence_val[f] => f \in Signalling

ItemOrder ==
  /\ \A i \in 1 .. Len(todo) :
       LET x == todo[i] IN
       /\ completed[x.fence] < x.val /\ x.val <= fence_val[x.fence]
       /\ x.val = fence_val[x.fence] =>
            IF x.op = "signal" THEN x.fence \in Signalling ELSE x.fence \in Executing
  /\ \A i, j \in 1 .. Len(todo) :
       /\ i < j /\ todo[i].op = "signal" /\ todo[i].fence = todo[j].fence
       => todo[i].val < todo[j].val

(* What a thread on its way through WaitForFence waits for, and what the      *)
(* fence's event means.                                                      *)
WaitOrder ==
  /\ \A t \in Threads :
       /\ pc[t] = "signalled" => signaled[t] = fence_val[FenceOf(t)]
       /\ pc[t] \in {"check", "arm", "waiting", "waited"} =>
            signaled[t] + 1 = fence_val[FenceOf(t)]
       /\ pc[t] = "waiting" =>
            /\ event[FenceOf(t)] => signaled[t] <= completed[FenceOf(t)]
            /\ armed[FenceOf(t)] \in {0, signaled[t]}
       /\ pc[t] = "waited" => signaled[t] <= completed[FenceOf(t)]
  /\ \A f \in Fences :
       /\ event[f] => armed[f] = 0
       /\ event[f] \/ armed[f] # 0 =>
            \E t \in Threads : FenceOf(t) = f /\ pc[t] = "waiting"

(* Commands still queued hold their allocator: it has a list pending, or a    *)
(* sync point no earlier than theirs.  Uploads use the resource allocator.    *)
Held ==
  \A i \in 1 .. Len(todo) :
    LET x == todo[i] IN
    x.op = "exec" =>
      \/ /\ x.alloc = ResAlloc /\ x.fence = "Resource"
      \/ /\ x.alloc \in 1 .. numAllocs /\ x.fence = "CommandList"
         /\ \/ pending[x.alloc] > 0
            \/ /\ sync[x.alloc].fence = "CommandList"
               /\ x.val <= sync[x.alloc].val

Created ==
  /\ listAlloc <= numAllocs /\ ctxAlloc <= numAllocs
  /\ \A i \in 1 .. Len(queue) : queue[i] <= numAllocs

IInv ==
  TypeInv /\ Created /\ MutexInv /\ FenceOrder /\ ItemOrder /\ WaitOrder /\ Held
  /\ MemoryIntact

LEMMA InitIInv == Init => IInv
<1> SUFFICES ASSUME Init PROVE IInv
  OBVIOUS
<1>1. TypeInv
  BY InitType
<1> USE Domains DEF Init
<1>2. Created
  BY DEF Created, NoAlloc
<1>3. MutexInv
  BY DEF MutexInv
<1>4. FenceOrder /\ ItemOrder /\ Held
  BY DEF FenceOrder, ItemOrder, Held
<1>5. WaitOrder
  BY DEF WaitOrder
<1>6. MemoryIntact
  BY DEF MemoryIntact
<1> QED BY <1>1, <1>2, <1>3, <1>4, <1>5, <1>6 DEF IInv

(* Only allocators that were created are in use. *)
LEMMA CreatedStep == TypeInv /\ Created /\ [Next]_vars => Created'
<1> SUFFICES ASSUME TypeInv, Created, [Next]_vars PROVE Created'
  OBVIOUS
<1> USE Domains DEF TypeInv, TypeOK, Created
<1>1. ASSUME UNCHANGED <<allocVars, listVars>> PROVE Created'
  BY <1>1 DEF allocVars, listVars
<1>2. CASE GpuStep
  BY <1>1, <1>2 DEF GpuStep, GpuExecute, GpuSignal
<1>3. ASSUME NEW t \in Threads, FenceStep(t) PROVE Created'
  BY <1>1, <1>3 DEF FenceStep, SignalFence, FinishSignal, WaitCheck, WaitArm, WaitWake
<1>4. CASE TrackAndRelease \/ AdvanceFrameFence \/ DestroyFinish \/ Record \/ Destroy
  BY <1>4 DEF TrackAndRelease, AdvanceFrameFence, DestroyFinish, Record, Destroy,
              allocVars, listVars
<1>5. CASE ObtainAllocator
  <2>1. CASE KeepAllocator
    BY <1>5, <2>1 DEF ObtainAllocator, KeepAllocator, allocVars, listVars
  <2>2. CASE ReuseAllocator
    <3>1. /\ UNCHANGED <<listVars, numAllocs>> /\ queue # <<>>
          /\ ctxAlloc' = Head(queue) /\ queue' = Tail(queue)
      BY <1>5, <2>2 DEF ObtainAllocator, ReuseAllocator, PopAllocator
    <3>2. queue \in Seq(Allocs)
      BY DEF AllocType
    <3>3. /\ Head(queue) = queue[1] /\ 1 \in 1 .. Len(queue)
          /\ \A i \in 1 .. Len(queue') : queue'[i] = queue[i + 1]
                                        /\ i + 1 \in 1 .. Len(queue)
      BY <3>1, <3>2
    <3> QED BY <3>1, <3>3 DEF listVars
  <2>3. CASE CreateAllocator
    <3>1. /\ UNCHANGED <<listVars, queue>>
          /\ numAllocs' = numAllocs + 1 /\ ctxAlloc' = numAllocs + 1
      BY <1>5, <2>3 DEF ObtainAllocator, CreateAllocator
    <3>2. /\ numAllocs \in Int /\ listAlloc \in Int
          /\ \A i \in 1 .. Len(queue) : queue[i] \in Int
      <4>1. queue \in Seq(Allocs) /\ numAllocs \in Allocs /\ listAlloc \in Allocs
        BY DEF AllocType, ListType
      <4>2. \A i \in 1 .. Len(queue) : queue[i] \in Allocs
        BY <4>1, ElementOfSeq
      <4> QED BY <4>1, <4>2 DEF Allocs
    <3> QED BY <3>1, <3>2 DEF listVars
  <2> QED BY <1>5, <2>1, <2>2, <2>3 DEF ObtainAllocator
<1>6. CASE ObtainCommandList
  BY <1>6 DEF ObtainCommandList
<1>7. ASSUME NEW wait \in BOOLEAN, FlushCommands(wait) PROVE Created'
  BY <1>7 DEF FlushCommands, CloseAndExecute, allocVars
<1>8. CASE EndFrame
  <2>1. UNCHANGED <<listAlloc, numAllocs>>
    BY <1>8 DEF EndFrame, CloseAndExecute, listVars
  <2>2. ctxAlloc' <= numAllocs
    <3>1. numAllocs \in Nat
      BY DEF AllocType, Allocs
    <3> QED BY <1>8, <3>1 DEF EndFrame, ReleaseCommandAllocator, NoAlloc
  <2>3. queue \in Seq(Allocs) /\ (ctxAlloc # NoAlloc => ctxAlloc \in Allocs)
    BY DEF AllocType
  <2>4. \A i \in 1 .. Len(queue') : queue'[i] <= numAllocs
    BY <1>8, <2>3 DEF EndFrame, ReleaseCommandAllocator
  <2> QED BY <2>1, <2>2, <2>4
<1>9. ASSUME NEW g \in 1 .. curGen, QueryGeneration(g) PROVE Created'
  BY <1>9 DEF QueryGeneration, allocVars
<1>10. ASSUME NEW l \in Loaders, CommitExecute(l) \/ CommitReset(l) PROVE Created'
  BY <1>10 DEF CommitExecute, CommitReset, allocVars, listVars
<1>11. CASE UNCHANGED vars
  BY <1>1, <1>11 DEF vars
<1> QED BY <1>2, <1>3, <1>4, <1>5, <1>6, <1>7, <1>8, <1>9, <1>10, <1>11
        DEF Next, Continue, RenderCall, Terminated

(* The guard on the mutex keeps the loaders apart. *)
LEMMA MutexStep == TypeInv /\ MutexInv /\ [Next]_vars => MutexInv'
<1> SUFFICES ASSUME TypeInv, MutexInv, [Next]_vars PROVE MutexInv'
  OBVIOUS
<1> USE Domains DEF TypeInv, TypeOK, MutexInv
<1>1. ASSUME \A l \in Loaders : pc'[l] = pc[l] PROVE MutexInv'
  BY <1>1
<1>2. CASE GpuStep
  BY <1>1, <1>2 DEF GpuStep, GpuExecute, GpuSignal
<1>3. ASSUME NEW t \in Threads, FenceStep(t) PROVE MutexInv'
  <2>1. PICK place : Goto(t, place) /\ place \in FencePlaces /\ pc[t] \in FencePlaces
    BY <1>3 DEF FenceStep, SignalFence, FinishSignal, WaitCheck, WaitArm, WaitWake,
                FencePlaces
  <2>2. pc'[t] = place /\ \A u \in Threads : u # t => pc'[u] = pc[u]
    BY <2>1, GotoType DEF ThreadType, Places
  <2>3. place # "idle" /\ pc[t] # "idle"
    BY <2>1 DEF FencePlaces
  <2> QED BY <2>1, <2>2, <2>3
<1>4. ASSUME NEW place \in Places, Goto(Render, place) PROVE MutexInv'
  BY <1>1, <1>4, GotoType DEF ThreadType
<1>5. CASE TrackAndRelease \/ ObtainAllocator \/ ObtainCommandList
           \/ AdvanceFrameFence \/ DestroyFinish \/ Destroy \/ EndFrame
           \/ \E wait \in BOOLEAN : FlushCommands(wait)
  <2>1. \E place \in Places : Goto(Render, place)
    BY <1>5 DEF TrackAndRelease, ObtainAllocator, ObtainCommandList, AdvanceFrameFence,
         DestroyFinish, Destroy, FlushBegin, EndFrame, FlushCommands, CloseAndExecute,
         Places, FencePlaces
  <2> QED BY <1>4, <2>1
<1>6. ASSUME NEW l \in Loaders, CommitExecute(l) \/ CommitReset(l) PROVE MutexInv'
  <2>1. CASE CommitExecute(l)
    <3>1. pc'[l] = "executed" /\ \A u \in Threads : u # l => pc'[u] = pc[u]
      BY <2>1, GotoType DEF CommitExecute, ThreadType, Places, FencePlaces
    <3>2. \A k \in Loaders : pc[k] = "idle"
      BY <2>1 DEF CommitExecute, MutexFree
    <3> QED BY <3>1, <3>2 DEF FencePlaces
  <2>2. CASE CommitReset(l)
    <3>1. pc'[l] = "idle" /\ \A u \in Threads : u # l => pc'[u] = pc[u]
      BY <2>2, GotoType DEF CommitReset, ThreadType, Places
    <3> QED BY <3>1
  <2> QED BY <1>6, <2>1, <2>2
<1>7. CASE UNCHANGED pc
  BY <1>1, <1>7
<1> QED BY <1>2, <1>3, <1>5, <1>6, <1>7
        DEF Next, Continue, RenderCall, Record, QueryGeneration, Terminated, vars
-----------------------------------------------------------------------------
(* The order of fences and queue items.  A step does one of four things to   *)
(* them: nothing, advance a fence after its signal, enqueue, or execute.     *)

OrderInv == FenceOrder /\ ItemOrder

\* No thread gives up an execute or a signal it has in flight
InFlightKept ==
  Signalling \subseteq Signalling' /\ Executing \subseteq Executing'

\* The CPU's stale copies may be refreshed
Refreshed ==
  \A f \in Fences : last_completed'[f] \in {last_completed[f], completed[f]}

LEMMA ItemFacts ==
  ASSUME TypeInv, NEW i \in 1 .. Len(todo)
  PROVE  /\ todo[i].op \in {"exec", "signal"} /\ todo[i].fence \in Fences
         /\ todo[i].alloc \in 0 .. MaxAllocs
         /\ todo[i].epoch \in Nat /\ todo[i].val \in Nat
<1>1. todo \in Seq(Items)
  BY DEF TypeInv, TypeOK, GpuType
<1>2. todo[i] \in Items
  BY <1>1, ElementOfSeq
<1> QED BY <1>2 DEF Items

LEMMA NumberFacts ==
  ASSUME TypeInv, NEW f \in Fences
  PROVE  fence_val[f] \in Nat /\ completed[f] \in Nat /\ last_completed[f] \in Nat
BY DEF TypeInv, TypeOK, FenceType, GpuType

LEMMA RefreshLemma ==
  ASSUME FenceType, NEW f \in Fences, UpdateLastCompleted(f)
  PROVE  Refreshed
BY DEF Refreshed, UpdateLastCompleted, FenceType

LEMMA UniqueInFlight ==
  ASSUME TypeInv, MutexInv, NEW t \in Threads, NEW u \in Threads,
         FenceOf(t) = FenceOf(u), pc[t] \in FencePlaces, pc[u] \in FencePlaces
  PROVE  t = u
<1>1. "CommandList" # "Resource" /\ "idle" \notin FencePlaces
  BY DEF FencePlaces
<1> QED BY <1>1, Domains DEF MutexInv, Threads

LEMMA GotoInFlight ==
  ASSUME TypeInv, NEW t \in Threads, NEW place \in Places, Goto(t, place),
         pc[t] \in {"executed", "signalled"} => place \in {"executed", "signalled"},
         pc[t] = "signalled" => place = "signalled"
  PROVE  InFlightKept
<1>1. pc'[t] = place /\ \A u \in Threads : u # t => pc'[u] = pc[u]
  BY GotoType DEF TypeInv, TypeOK, ThreadType
<1> QED BY <1>1 DEF InFlightKept, Signalling, Executing

LEMMA OrderQuiet ==
  ASSUME TypeInv, OrderInv, UNCHANGED <<todo, completed, fence_val>>, Refreshed,
         InFlightKept
  PROVE  OrderInv'
<1>1. \A i \in 1 .. Len(todo) : todo[i].fence \in Fences
  BY ItemFacts
<1>2. FenceOrder'
  BY NumberFacts DEF OrderInv, FenceOrder, Refreshed, InFlightKept
<1>3. ItemOrder'
  BY <1>1 DEF OrderInv, ItemOrder, InFlightKept
<1> QED BY <1>2, <1>3 DEF OrderInv

LEMMA OrderAdvance ==
  ASSUME TypeInv, MutexInv, OrderInv, NEW t \in Threads, pc[t] = "signalled",
         NEW place \in Places, Goto(t, place),
         UNCHANGED <<todo, completed>>, Refreshed, IncrementFence(FenceOf(t))
  PROVE  OrderInv'
<1> DEFINE f == FenceOf(t)
<1>1. f \in Fences
  BY Domains
<1>2. /\ fence_val'[f] = fence_val[f] + 1
      /\ \A g \in Fences : g # f => fence_val'[g] = fence_val[g]
      /\ \A g \in Fences : /\ fence_val[g] \in Nat /\ completed[g] \in Nat
                           /\ last_completed[g] \in Nat
  BY <1>1 DEF IncrementFence, TypeInv, TypeOK, FenceType, GpuType
<1>3. pc'[t] = place /\ \A u \in Threads : u # t => pc'[u] = pc[u]
  BY GotoType DEF TypeInv, TypeOK, ThreadType
<1>4. \A g \in Fences : g # f => /\ g \in Signalling => g \in Signalling'
                                 /\ g \in Executing => g \in Executing'
  BY <1>3 DEF Signalling, Executing
<1>5. \A i \in 1 .. Len(todo) : todo[i].fence \in Fences /\ todo[i].val \in Nat
  BY ItemFacts
<1> HIDE DEF f
<1>6. FenceOrder'
  <2>1. ASSUME NEW g \in Fences
        PROVE  /\ last_completed'[g] <= completed'[g]
               /\ completed'[g] <= fence_val'[g]
               /\ completed'[g] = fence_val'[g] => g \in Signalling'
    <3>1. last_completed'[g] <= completed[g] /\ completed' = completed
      BY <1>2 DEF OrderInv, FenceOrder, Refreshed
    <3>2. CASE g = f
      BY <1>1, <1>2, <3>1, <3>2 DEF OrderInv, FenceOrder
    <3>3. CASE g # f
      BY <1>2, <1>4, <3>1, <3>3 DEF OrderInv, FenceOrder
    <3> QED BY <3>2, <3>3
  <2> QED BY <2>1 DEF FenceOrder
<1>7. ItemOrder'
  <2>1. ASSUME NEW i \in 1 .. Len(todo)
        PROVE  /\ completed'[todo[i].fence] < todo[i].val
               /\ todo[i].val <= fence_val'[todo[i].fence]
               /\ todo[i].val = fence_val'[todo[i].fence] =>
                    IF todo[i].op = "signal" THEN todo[i].fence \in Signalling'
                                             ELSE todo[i].fence \in Executing'
    <3>1. CASE todo[i].fence = f
      BY <1>1, <1>2, <1>5, <3>1 DEF OrderInv, ItemOrder
    <3>2. CASE todo[i].fence # f
      BY <1>2, <1>4, <1>5, <3>2 DEF OrderInv, ItemOrder
    <3> QED BY <3>1, <3>2
  <2> QED BY <2>1 DEF OrderInv, ItemOrder
<1> QED BY <1>6, <1>7 DEF OrderInv

LEMMA OrderEnqueue ==
  ASSUME TypeInv, OrderInv, NEW f \in Fences, f \notin Signalling,
         NEW op \in {"exec", "signal"}, NEW a \in 0 .. MaxAllocs, NEW e \in Nat,
         Enqueue(op, f, a, e), InFlightKept, Refreshed,
         \/ /\ fence_val' = fence_val /\ f \in Executing'
            /\ op = "signal" => f \in Signalling'
         \/ IncrementFence(f)
  PROVE  OrderInv'
<1> DEFINE x == [op |-> op, fence |-> f, alloc |-> a, epoch |-> e,
                 val |-> fence_val[f]]
<1>1. todo' = Append(todo, x) /\ completed' = completed
  BY DEF Enqueue
<1>2. /\ \A g \in Fences : /\ fence_val[g] \in Nat /\ completed[g] \in Nat
                          /\ last_completed[g] \in Nat
      /\ \A g \in Fences : g # f => fence_val'[g] = fence_val[g]
      /\ \/ /\ fence_val'[f] = fence_val[f] /\ f \in Executing'
            /\ op = "signal" => f \in Signalling'
         \/ fence_val'[f] = fence_val[f] + 1
  BY DEF TypeInv, TypeOK, FenceType, GpuType, IncrementFence
<1>3. x \in Items /\ x.op = op /\ x.fence = f /\ x.val = fence_val[f]
  BY <1>2 DEF Items
<1>4. \A i \in 1 .. Len(todo) : todo[i].fence \in Fences /\ todo[i].val \in Nat
  BY ItemFacts
<1> HIDE DEF x
<1>5. /\ Len(todo) \in Nat /\ Len(todo') = Len(todo) + 1
      /\ todo'[Len(todo) + 1] = x
      /\ \A i \in 1 .. Len(todo) : todo'[i] = todo[i]
  BY <1>1, <1>3 DEF TypeInv, TypeOK, GpuType
<1>6. FenceOrder'
  <2>1. ASSUME NEW g \in Fences
        PROVE  /\ last_completed'[g] <= completed'[g]
               /\ completed'[g] <= fence_val'[g]
               /\ completed'[g] = fence_val'[g] => g \in Signalling'
    <3>1. last_completed'[g] <= completed'[g]
      BY <1>1, <1>2 DEF OrderInv, FenceOrder, Refreshed
    <3>2. /\ completed[g] <= fence_val[g]
          /\ completed[g] = fence_val[g] => g \in Signalling
      BY DEF OrderInv, FenceOrder
    <3> QED BY <1>1, <1>2, <3>1, <3>2 DEF InFlightKept
  <2> QED BY <2>1 DEF FenceOrder
<1>7. completed[f] < fence_val[f]
  BY <1>2 DEF OrderInv, FenceOrder
<1>8. \A i \in 1 .. Len(todo) :
        todo[i].fence = f /\ todo[i].op = "signal" => todo[i].val < fence_val[f]
  BY <1>2, <1>4 DEF OrderInv, ItemOrder
<1>9. ItemOrder'
  <2>1. ASSUME NEW i \in 1 .. Len(todo')
        PROVE  /\ completed'[todo'[i].fence] < todo'[i].val
               /\ todo'[i].val <= fence_val'[todo'[i].fence]
               /\ todo'[i].val = fence_val'[todo'[i].fence] =>
                    IF todo'[i].op = "signal" THEN todo'[i].fence \in Signalling'
                                              ELSE todo'[i].fence \in Executing'
    <3>1. CASE i \in 1 .. Len(todo)
      <4>1. /\ completed[todo[i].fence] < todo[i].val
            /\ todo[i].val <= fence_val[todo[i].fence]
            /\ todo[i].val = fence_val[todo[i].fence] =>
                 IF todo[i].op = "signal" THEN todo[i].fence \in Signalling
                                          ELSE todo[i].fence \in Executing
        BY <3>1 DEF OrderInv, ItemOrder
      <4>2. todo'[i] = todo[i] /\ todo[i].fence \in Fences /\ todo[i].val \in Nat
        BY <1>4, <1>5, <3>1
      <4>3. CASE todo[i].fence = f
        BY <1>1, <1>2, <4>1, <4>2, <4>3 DEF InFlightKept
      <4>4. CASE todo[i].fence # f
        BY <1>1, <1>2, <4>1, <4>2, <4>4 DEF InFlightKept
      <4> QED BY <4>3, <4>4
    <3>2. CASE i = Len(todo) + 1
      BY <1>1, <1>2, <1>3, <1>5, <1>7, <3>2
    <3> QED BY <1>5, <3>1, <3>2
  <2>2. ASSUME NEW i \in 1 .. Len(todo'), NEW j \in 1 .. Len(todo'), i < j,
               todo'[i].op = "signal", todo'[i].fence = todo'[j].fence
        PROVE  todo'[i].val < todo'[j].val
    <3>1. i \in 1 .. Len(todo)
      BY <1>5, <2>2
    <3>2. CASE j \in 1 .. Len(todo)
      BY <1>5, <2>2, <3>1, <3>2 DEF OrderInv, ItemOrder
    <3>3. CASE j = Len(todo) + 1
      BY <1>3, <1>5, <1>8, <2>2, <3>1, <3>3
    <3> QED BY <1>5, <3>2, <3>3
  <2> QED BY <2>1, <2>2 DEF ItemOrder
<1> QED BY <1>6, <1>9 DEF OrderInv

LEMMA OrderGpu ==
  ASSUME TypeInv, OrderInv, GpuStep
  PROVE  OrderInv'
<1>1. /\ todo \in Seq(Items) /\ todo # <<>> /\ todo' = Tail(todo)
      /\ UNCHANGED <<fence_val, last_completed, pc>>
  BY DEF GpuStep, GpuExecute, GpuSignal, TypeInv, TypeOK, GpuType, fenceVars
<1>2. /\ Head(todo) = todo[1] /\ 1 \in 1 .. Len(todo)
      /\ \A i \in 1 .. Len(todo') : todo'[i] = todo[i + 1] /\ i + 1 \in 1 .. Len(todo)
                                  /\ 1 < i + 1
  BY <1>1
<1>3. \A i \in 1 .. Len(todo) : /\ todo[i].fence \in Fences /\ todo[i].val \in Nat
                               /\ todo[i].op \in {"exec", "signal"}
  BY ItemFacts
<1>4. \A g \in Fences : /\ fence_val[g] \in Nat /\ completed[g] \in Nat
                       /\ last_completed[g] \in Nat
  BY DEF TypeInv, TypeOK, FenceType, GpuType
<1>5. Signalling' = Signalling /\ Executing' = Executing
  BY <1>1 DEF Signalling, Executing
<1>6. CASE GpuExecute
  <2>1. completed' = completed
    BY <1>6 DEF GpuExecute
  <2>2. FenceOrder'
    BY <1>1, <1>5, <2>1 DEF OrderInv, FenceOrder
  <2>3. ItemOrder'
    BY <1>1, <1>2, <1>3, <1>5, <2>1 DEF OrderInv, ItemOrder
  <2> QED BY <2>2, <2>3 DEF OrderInv
<1>7. CASE GpuSignal
  <2> DEFINE f == todo[1].fence
             v == todo[1].val
  <2>1. todo[1].op = "signal" /\ completed' = [completed EXCEPT ![f] = v]
    BY <1>2, <1>7 DEF GpuSignal
  <2>2. f \in Fences /\ v \in Nat
    BY <1>2, <1>3
  <2>3. completed'[f] = v /\ \A g \in Fences : g # f => completed'[g] = completed[g]
    BY <2>1, <2>2 DEF TypeInv, TypeOK, GpuType
  <2>4. /\ completed[f] < v /\ v <= fence_val[f]
        /\ v = fence_val[f] => f \in Signalling
        /\ \A j \in 1 .. Len(todo) : 1 < j /\ todo[j].fence = f => v < todo[j].val
    BY <1>2, <2>1 DEF OrderInv, ItemOrder
  <2> HIDE DEF f, v
  <2>5. FenceOrder'
    BY <1>1, <1>4, <1>5, <2>2, <2>3, <2>4 DEF OrderInv, FenceOrder
  <2>6. ItemOrder'
    <3>1. ASSUME NEW i \in 1 .. Len(todo')
          PROVE  /\ completed'[todo'[i].fence] < todo'[i].val
                 /\ todo'[i].val <= fence_val'[todo'[i].fence]
                 /\ todo'[i].val = fence_val'[todo'[i].fence] =>
                      IF todo'[i].op = "signal" THEN todo'[i].fence \in Signalling'
                                                ELSE todo'[i].fence \in Executing'
      BY <1>1, <1>2, <1>3, <1>5, <2>3, <2>4 DEF OrderInv, ItemOrder
    <3>2. ASSUME NEW i \in 1 .. Len(todo'), NEW j \in 1 .. Len(todo'), i < j,
                 todo'[i].op = "signal", todo'[i].fence = todo'[j].fence
          PROVE  todo'[i].val < todo'[j].val
      <4>1. /\ i + 1 \in 1 .. Len(todo) /\ j + 1 \in 1 .. Len(todo) /\ i + 1 < j + 1
            /\ todo'[i] = todo[i + 1] /\ todo'[j] = todo[j + 1]
        BY <1>1, <1>2, <3>2
      <4> QED BY <3>2, <4>1 DEF OrderInv, ItemOrder
    <3> QED BY <3>1, <3>2 DEF ItemOrder
  <2> QED BY <2>5, <2>6 DEF OrderInv
<1> QED BY <1>6, <1>7 DEF GpuStep

LEMMA OrderStep ==
  TypeInv /\ MutexInv /\ OrderInv /\ [Next]_vars => OrderInv'
<1> SUFFICES ASSUME TypeInv, MutexInv, OrderInv, [Next]_vars PROVE OrderInv'
  OBVIOUS
<1> USE Domains
<1>0. FenceType /\ ThreadType
  BY DEF TypeInv, TypeOK
<1>6. ASSUME UNCHANGED last_completed PROVE Refreshed
  BY <1>6 DEF Refreshed
<1>1. CASE GpuStep
  BY <1>1, OrderGpu
<1>2. ASSUME NEW t \in Threads, SignalFence(t) PROVE OrderInv'
  <2>1. pc[t] = "executed" /\ Goto(t, "signalled") /\ UNCHANGED fenceVars
        /\ Enqueue("signal", FenceOf(t), ResAlloc, 0)
    BY <1>2 DEF SignalFence
  <2>2. "signalled" \in Places /\ "executed" \in FencePlaces
        /\ "signalled" \in FencePlaces
    BY DEF Places, FencePlaces
  <2>3. pc'[t] = "signalled" /\ InFlightKept
    BY <1>0, <2>1, <2>2, GotoType, GotoInFlight DEF ThreadType
  <2>4. FenceOf(t) \in Executing' /\ FenceOf(t) \in Signalling'
    BY <2>3 DEF Executing, Signalling
  <2>5. FenceOf(t) \notin Signalling
    BY <2>1, <2>2, UniqueInFlight DEF Signalling
  <2> QED BY <1>6, <2>1, <2>3, <2>4, <2>5, OrderEnqueue DEF fenceVars
<1>3. ASSUME NEW t \in Threads, FinishSignal(t) PROVE OrderInv'
  <2>1. "check" \in Places
    BY DEF Places, FencePlaces
  <2> QED BY <1>0, <1>3, <2>1, OrderAdvance, RefreshLemma DEF FinishSignal, gpuVars
<1>4. CASE TrackAndRelease
  <2>1. PICK place \in Places : Goto(Render, place)
    BY <1>4 DEF TrackAndRelease, Places, FencePlaces
  <2> QED BY <1>0, <1>4, <2>1, OrderAdvance, RefreshLemma
          DEF TrackAndRelease, gpuVars
<1>5. ASSUME NEW t \in Threads, NEW place \in Places, Goto(t, place),
             pc[t] \notin {"executed", "signalled"},
             UNCHANGED <<todo, completed, fence_val>>, Refreshed
      PROVE  OrderInv'
  BY <1>5, GotoInFlight, OrderQuiet
<1>7. ASSUME NEW t \in Threads, WaitCheck(t) \/ WaitArm(t) \/ WaitWake(t)
      PROVE  OrderInv'
  <2>1. Refreshed
    BY <1>0, <1>6, <1>7, RefreshLemma
       DEF WaitCheck, WaitArm, WaitWake, fenceVars
  <2>2. \E place \in Places : Goto(t, place)
    BY <1>7 DEF WaitCheck, WaitArm, WaitWake, Places, FencePlaces
  <2> QED BY <1>5, <1>7, <2>1, <2>2 DEF WaitCheck, WaitArm, WaitWake, fenceVars,
             gpuVars
<1>8. CASE ObtainAllocator
  <2>1. ASSUME KeepAllocator \/ CreateAllocator PROVE Refreshed
    BY <1>0, <1>6, <2>1, RefreshLemma DEF KeepAllocator, CreateAllocator
  <2>2. ASSUME ReuseAllocator PROVE Refreshed
    <3>1. sync[Head(queue)].fence \in Fences
      <4>1. Head(queue) \in Allocs
        BY <2>2 DEF ReuseAllocator, TypeInv, TypeOK, AllocType
      <4> QED BY <4>1 DEF TypeInv, TypeOK, AllocType
    <3> QED BY <1>0, <1>6, <2>2, <3>1, RefreshLemma DEF ReuseAllocator
  <2>3. Refreshed
    BY <1>8, <2>1, <2>2 DEF ObtainAllocator
  <2>4. "listless" \in Places
    BY DEF Places
  <2> QED BY <1>5, <1>8, <2>3, <2>4 DEF ObtainAllocator, gpuVars
<1>9. CASE ObtainCommandList \/ DestroyFinish \/ Destroy \/ (EndFrame /\ ~ work)
  <2>1. /\ UNCHANGED <<todo, completed, fence_val, last_completed>>
        /\ pc[Render] \notin {"executed", "signalled"}
        /\ \E place \in Places : Goto(Render, place)
    BY <1>9 DEF ObtainCommandList, DestroyFinish, Destroy, FlushBegin, EndFrame,
         gpuVars, fenceVars, Places, FencePlaces
  <2> QED BY <1>5, <1>6, <2>1
<1>10. ASSUME NEW l \in Loaders, CommitReset(l) PROVE OrderInv'
  <2>1. "idle" \in Places
    BY DEF Places
  <2> QED BY <1>5, <1>6, <1>10, <2>1 DEF CommitReset, gpuVars, fenceVars
<1>11. ASSUME NEW m, CloseAndExecute(m), pc[Render] = "open", UNCHANGED fenceVars
       PROVE  OrderInv'
  <2>1. "executed" \in Places /\ Goto(Render, "executed")
        /\ Enqueue("exec", "CommandList", listAlloc, listEpoch)
    BY <1>11 DEF CloseAndExecute, Places, FencePlaces
  <2>2. pc'[Render] = "executed" /\ InFlightKept
    BY <1>0, <1>11, <2>1, GotoType, GotoInFlight DEF ThreadType
  <2>3. "CommandList" \in Executing'
    BY <2>2 DEF Executing
  <2>4. "CommandList" \notin Signalling
    BY <1>11 DEF Signalling, FenceOf
  <2>5. listAlloc \in 0 .. MaxAllocs /\ listEpoch \in Nat
    BY DEF TypeInv, TypeOK, ListType
  <2> QED BY <1>6, <1>11, <2>1, <2>2, <2>3, <2>4, <2>5, OrderEnqueue DEF fenceVars
<1>12. CASE (EndFrame /\ work) \/ \E wait \in BOOLEAN : FlushCommands(wait)
  BY <1>11, <1>12 DEF EndFrame, FlushCommands
<1>13. ASSUME NEW l \in Loaders, CommitExecute(l) PROVE OrderInv'
  <2>1. pc[l] = "idle" /\ Goto(l, "executed") /\ UNCHANGED fenceVars
        /\ Enqueue("exec", "Resource", ResAlloc, epoch[ResAlloc])
        /\ \A k \in Loaders : pc[k] = "idle"
    BY <1>13 DEF CommitExecute, MutexFree
  <2>2. "executed" \in Places
    BY DEF Places, FencePlaces
  <2>3. pc'[l] = "executed" /\ InFlightKept
    BY <1>0, <2>1, <2>2, GotoType, GotoInFlight DEF ThreadType
  <2>4. "Resource" \in Executing'
    BY <2>3 DEF Executing
  <2>5. "Resource" \notin Signalling
    BY <2>1 DEF Signalling, FenceOf, Threads
  <2>6. epoch[ResAlloc] \in Nat
    BY DEF TypeInv, TypeOK, AllocType
  <2> QED BY <1>6, <2>1, <2>3, <2>4, <2>5, <2>6, OrderEnqueue DEF fenceVars
<1>14. CASE AdvanceFrameFence
  <2>1. /\ pc[Render] = "frame" /\ Goto(Render, "open") /\ "open" \in Places
        /\ Enqueue("signal", "Frame", ResAlloc, 0) /\ IncrementFence("Frame")
        /\ UpdateLastCompleted("Frame")
    BY <1>14 DEF AdvanceFrameFence, Places
  <2>2. InFlightKept /\ Refreshed
    BY <1>0, <2>1, GotoInFlight, RefreshLemma
  <2>3. "Frame" \notin Signalling
    BY DEF Signalling, FenceOf
  <2> QED BY <2>1, <2>2, <2>3, OrderEnqueue
<1>15. CASE Record \/ UNCHANGED vars \/ \E g \in 1 .. curGen : QueryGeneration(g)
  <2>1. UNCHANGED <<todo, completed, fence_val, last_completed, pc>>
    BY <1>15 DEF Record, QueryGeneration, vars, gpuVars, fenceVars
  <2>2. InFlightKept
    BY <2>1 DEF InFlightKept, Signalling, Executing
  <2> QED BY <1>6, <2>1, <2>2, OrderQuiet
<1> QED BY <1>1, <1>2, <1>3, <1>4, <1>7, <1>8, <1>9, <1>10, <1>12, <1>13, <1>14, <1>15
        DEF Next, Continue, FenceStep, RenderCall, Terminated
-----------------------------------------------------------------------------
(* Waiting.  The event of a fence belongs to the one thread that waits for    *)
(* it: the render thread for its own fence, the loader in the mutex for the   *)
(* resource fence.                                                          *)

WaitPlaces == {"signalled", "check", "arm", "waiting", "waited"}

LEMMA WaitQuiet ==
  ASSUME TypeInv, WaitOrder, UNCHANGED <<waitVars, completed, signaled>>,
         \A u \in Threads : fence_val'[FenceOf(u)] = fence_val[FenceOf(u)],
         NEW t \in Threads, NEW place \in Places, Goto(t, place),
         place \notin WaitPlaces, pc[t] # "waiting"
  PROVE  WaitOrder'
<1>1. pc'[t] = place /\ \A u \in Threads : u # t => pc'[u] = pc[u]
  BY GotoType DEF TypeInv, TypeOK, ThreadType
<1> QED BY <1>1 DEF WaitOrder, WaitPlaces, waitVars

LEMMA WaitGpu ==
  ASSUME TypeInv, MutexInv, OrderInv, WaitOrder, GpuStep
  PROVE  WaitOrder'
<1>1. UNCHANGED <<fence_val, pc, signaled>> /\ todo # <<>>
  BY DEF GpuStep, GpuExecute, GpuSignal, fenceVars
<1>2. CASE GpuExecute
  BY <1>1, <1>2 DEF GpuExecute, waitVars, WaitOrder
<1>3. CASE GpuSignal
  <2> DEFINE f == todo[1].fence
             v == todo[1].val
             fires == armed[f] # 0 /\ armed[f] <= v
  <2>1. Head(todo) = todo[1] /\ 1 \in 1 .. Len(todo) /\ todo[1].op = "signal"
    BY <1>1, <1>3 DEF GpuSignal, TypeInv, TypeOK, GpuType
  <2>2. f \in Fences /\ v \in Nat
    BY <2>1, ItemFacts
  <2>3. /\ event \in [Fences -> BOOLEAN] /\ armed \in [Fences -> Nat]
        /\ completed \in [Fences -> Nat] /\ signaled \in [Threads -> Nat]
    BY DEF TypeInv, TypeOK, WaitType, GpuType, ThreadType
  <2>4. /\ completed' = [completed EXCEPT ![f] = v]
        /\ event' = [event EXCEPT ![f] = @ \/ fires]
        /\ armed' = [armed EXCEPT ![f] = IF fires THEN 0 ELSE @]
    BY <1>3, <2>1 DEF GpuSignal
  <2>5. completed[f] < v
    BY <2>1 DEF OrderInv, ItemOrder
  <2>6. /\ completed'[f] = v /\ armed'[f] = IF fires THEN 0 ELSE armed[f]
        /\ \A g \in Fences : g # f => /\ completed'[g] = completed[g]
                                      /\ armed'[g] = armed[g]
    BY <2>2, <2>3, <2>4
  <2>7. /\ event'[f] <=> (event[f] \/ fires)
        /\ \A g \in Fences : g # f => (event'[g] <=> event[g])
    BY <2>2, <2>3, <2>4, Zenon
  <2> HIDE DEF f, v
  <2>8. ASSUME NEW t \in Threads
        PROVE  /\ pc[t] = "waiting" =>
                    /\ event'[FenceOf(t)] => signaled[t] <= completed'[FenceOf(t)]
                    /\ armed'[FenceOf(t)] \in {0, signaled[t]}
               /\ pc[t] = "waited" => signaled[t] <= completed'[FenceOf(t)]
    <3>1. FenceOf(t) \in Fences /\ signaled[t] \in Nat
      BY <2>3, Domains
    <3>2. CASE FenceOf(t) = f
      <4>1. completed[f] \in Nat
        BY <2>2, <2>3
      <4>2. pc[t] = "waited" => signaled[t] <= completed'[f]
        BY <2>2, <2>5, <2>6, <3>1, <3>2, <4>1 DEF WaitOrder
      <4>3. ASSUME pc[t] = "waiting"
            PROVE  /\ event'[f] => signaled[t] <= completed'[f]
                   /\ armed'[f] \in {0, signaled[t]}
        <5>1. /\ event[f] => signaled[t] <= completed[f]
              /\ armed[f] \in {0, signaled[t]}
          BY <3>2, <4>3 DEF WaitOrder
        <5> QED BY <2>2, <2>5, <2>6, <2>7, <3>1, <4>1, <5>1
      <4> QED BY <3>2, <4>2, <4>3
    <3>3. CASE FenceOf(t) # f
      BY <2>6, <2>7, <3>1, <3>3 DEF WaitOrder
    <3> QED BY <3>2, <3>3
  <2>9. ASSUME NEW g \in Fences
        PROVE  /\ event'[g] => armed'[g] = 0
               /\ event'[g] \/ armed'[g] # 0 =>
                    \E t \in Threads : FenceOf(t) = g /\ pc[t] = "waiting"
    BY <2>6, <2>7, <2>9 DEF WaitOrder
  <2> QED BY <1>1, <2>8, <2>9 DEF WaitOrder
<1> QED BY <1>2, <1>3 DEF GpuStep

\* A thread numbered its signal, or makes its value the past
LEMMA WaitNumbered ==
  ASSUME TypeInv, MutexInv, WaitOrder, UNCHANGED <<waitVars, completed>>,
         NEW t \in Threads, NEW place \in Places, Goto(t, place),
         \/ /\ pc[t] = "executed" /\ place = "signalled"
            /\ fence_val' = fence_val
            /\ signaled' = [signaled EXCEPT ![t] = fence_val[FenceOf(t)]]
         \/ /\ pc[t] = "signalled" /\ place \in {"check", "reopen"}
            /\ IncrementFence(FenceOf(t)) /\ signaled' = signaled
  PROVE  WaitOrder'
<1>1. pc'[t] = place /\ \A u \in Threads : u # t => pc'[u] = pc[u]
  BY GotoType DEF TypeInv, TypeOK, ThreadType
<1>2. \A u \in Threads : u # t => signaled'[u] = signaled[u]
  BY DEF TypeInv, TypeOK, ThreadType
<1>3. \A u \in Threads : FenceOf(u) \in Fences
  BY Domains
<1>4. \A g \in Fences : fence_val[g] \in Nat
  BY NumberFacts
<1>5. \A u \in Threads : u # t /\ pc[u] \in WaitPlaces => FenceOf(u) # FenceOf(t)
  BY UniqueInFlight DEF WaitPlaces, FencePlaces
<1>6. /\ \A g \in Fences : g # FenceOf(t) => fence_val'[g] = fence_val[g]
      /\ place = "signalled" => signaled'[t] = fence_val'[FenceOf(t)]
      /\ place = "check" => signaled'[t] + 1 = fence_val'[FenceOf(t)]
  BY <1>3, <1>4 DEF IncrementFence, TypeInv, TypeOK, FenceType, ThreadType, WaitOrder
<1>7. ASSUME NEW u \in Threads
      PROVE  /\ pc'[u] = "signalled" => signaled'[u] = fence_val'[FenceOf(u)]
             /\ pc'[u] \in {"check", "arm", "waiting", "waited"} =>
                  signaled'[u] + 1 = fence_val'[FenceOf(u)]
             /\ pc'[u] = "waiting" => pc[u] = "waiting" /\ signaled'[u] = signaled[u]
             /\ pc'[u] = "waited" => pc[u] = "waited" /\ signaled'[u] = signaled[u]
  <2>1. CASE u = t
    BY <1>1, <1>6, <2>1
  <2>2. CASE u # t
    BY <1>1, <1>2, <1>3, <1>5, <1>6, <2>2 DEF WaitOrder, WaitPlaces
  <2> QED BY <2>1, <2>2
<1>8. \A u \in Threads : pc[u] = "waiting" => pc'[u] = "waiting"
  BY <1>1
<1> QED BY <1>7, <1>8 DEF WaitOrder, waitVars

LEMMA WaitFence ==
  ASSUME TypeInv, MutexInv, OrderInv, WaitOrder, NEW t \in Threads,
         WaitCheck(t) \/ WaitArm(t) \/ WaitWake(t)
  PROVE  WaitOrder'
<1> DEFINE f == FenceOf(t)
<1>1. f \in Fences /\ signaled[t] \in Nat /\ completed[f] \in Nat
      /\ last_completed[f] \in Nat
  BY Domains, NumberFacts DEF TypeInv, TypeOK, ThreadType
<1>2. UNCHANGED <<completed, fence_val, signaled>>
  BY DEF WaitCheck, WaitArm, WaitWake, gpuVars, fenceVars
<1>3. ASSUME NEW u \in Threads, FenceOf(u) = f, pc[u] \in WaitPlaces,
             pc[t] \in WaitPlaces
      PROVE  u = t
  BY <1>3, UniqueInFlight DEF WaitPlaces, FencePlaces
<1>4. /\ event \in [Fences -> BOOLEAN] /\ armed \in [Fences -> Nat]
  BY DEF TypeInv, TypeOK, WaitType
<1> HIDE DEF f
<1>5. CASE WaitCheck(t)
  <2>1. PICK place \in {"waited", "arm"} :
          /\ Goto(t, place)
          /\ place = "waited" <=> IsFenceComplete(f, signaled[t])
    BY <1>5 DEF WaitCheck, f
  <2>2. pc'[t] = place /\ \A u \in Threads : u # t => pc'[u] = pc[u]
    BY <2>1, GotoType DEF TypeInv, TypeOK, ThreadType, Places, FencePlaces
  <2>3. place = "waited" => signaled[t] <= completed[f]
    BY <1>1, <2>1 DEF IsFenceComplete, OrderInv, FenceOrder
  <2> QED BY <1>2, <1>5, <2>1, <2>2, <2>3 DEF WaitOrder, WaitCheck, waitVars, f
<1>6. CASE WaitArm(t)
  <2>1. pc'[t] = "waiting" /\ \A u \in Threads : u # t => pc'[u] = pc[u]
    BY <1>6, GotoType DEF WaitArm, TypeInv, TypeOK, ThreadType, Places, FencePlaces
  <2>2. ~ event[f] /\ armed[f] = 0
    BY <1>1, <1>3, <1>6 DEF WaitOrder, WaitArm, WaitPlaces
  <2>3. SetEventOnCompletion(f, signaled[t])
    BY <1>6 DEF WaitArm, f
  <2>4. /\ event'[f] <=> signaled[t] <= completed[f]
        /\ armed'[f] \in {0, signaled[t]}
        /\ event'[f] => armed'[f] = 0
        /\ \A g \in Fences : g # f => armed'[g] = armed[g]
    BY <1>1, <1>4, <2>2, <2>3 DEF SetEventOnCompletion
  <2>5. \A g \in Fences : g # f => (event'[g] <=> event[g])
    BY <1>4, <2>3, Zenon DEF SetEventOnCompletion
  <2>6. \A u \in Threads : pc[u] = "waiting" => FenceOf(u) # f /\ FenceOf(u) \in Fences
    BY <1>3, <1>6, Domains DEF WaitArm, WaitPlaces
  <2>7. ASSUME NEW u \in Threads
        PROVE  /\ pc'[u] = "signalled" => signaled'[u] = fence_val'[FenceOf(u)]
               /\ pc'[u] \in {"check", "arm", "waiting", "waited"} =>
                    signaled'[u] + 1 = fence_val'[FenceOf(u)]
               /\ pc'[u] = "waiting" =>
                    /\ event'[FenceOf(u)] => signaled'[u] <= completed'[FenceOf(u)]
                    /\ armed'[FenceOf(u)] \in {0, signaled'[u]}
               /\ pc'[u] = "waited" => signaled'[u] <= completed'[FenceOf(u)]
    <3>1. CASE u = t
      BY <1>2, <1>6, <2>1, <2>4, <3>1 DEF WaitOrder, WaitArm, f
    <3>2. CASE u # t
      BY <1>2, <2>1, <2>4, <2>5, <2>6, <3>2 DEF WaitOrder
    <3> QED BY <3>1, <3>2
  <2>8. ASSUME NEW g \in Fences
        PROVE  /\ event'[g] => armed'[g] = 0
               /\ event'[g] \/ armed'[g] # 0 =>
                    \E u \in Threads : FenceOf(u) = g /\ pc'[u] = "waiting"
    <3>1. CASE g = f
      BY <2>1, <2>4, <3>1 DEF f
    <3>2. CASE g # f
      <4>1. pc[t] # "waiting"
        BY <1>6 DEF WaitArm
      <4> QED BY <2>1, <2>4, <2>5, <3>2, <4>1 DEF WaitOrder
    <3> QED BY <3>1, <3>2
  <2> QED BY <2>7, <2>8 DEF WaitOrder
<1>7. CASE WaitWake(t)
  <2>1. pc'[t] = "waited" /\ \A u \in Threads : u # t => pc'[u] = pc[u]
    BY <1>7, GotoType DEF WaitWake, TypeInv, TypeOK, ThreadType, Places, FencePlaces
  <2>2. /\ pc[t] = "waiting" /\ event[f] /\ armed' = armed
        /\ event' = [event EXCEPT ![f] = FALSE]
    BY <1>7 DEF WaitWake, f
  <2>3. ~ event'[f] /\ \A g \in Fences : g # f => (event'[g] <=> event[g])
    BY <1>1, <1>4, <2>2, Zenon
  <2>4. armed[f] = 0 /\ signaled[t] <= completed[f]
    BY <1>1, <2>2 DEF WaitOrder, f
  <2>5. \A u \in Threads : u # t /\ pc[u] = "waiting" => FenceOf(u) # f
    BY <1>3, <2>2 DEF WaitPlaces
  <2>6. ASSUME NEW u \in Threads
        PROVE  /\ pc'[u] = "signalled" => signaled'[u] = fence_val'[FenceOf(u)]
               /\ pc'[u] \in {"check", "arm", "waiting", "waited"} =>
                    signaled'[u] + 1 = fence_val'[FenceOf(u)]
               /\ pc'[u] = "waiting" =>
                    /\ event'[FenceOf(u)] => signaled'[u] <= completed'[FenceOf(u)]
                    /\ armed'[FenceOf(u)] \in {0, signaled'[u]}
               /\ pc'[u] = "waited" => signaled'[u] <= completed'[FenceOf(u)]
    <3>1. CASE u = t
      BY <1>2, <2>1, <2>2, <2>4, <3>1 DEF WaitOrder, f
    <3>2. CASE u # t
      <4>1. FenceOf(u) \in Fences
        BY Domains
      <4> QED BY <1>2, <2>1, <2>2, <2>3, <2>5, <3>2, <4>1 DEF WaitOrder
    <3> QED BY <3>1, <3>2
  <2>7. ASSUME NEW g \in Fences
        PROVE  /\ event'[g] => armed'[g] = 0
               /\ event'[g] \/ armed'[g] # 0 =>
                    \E u \in Threads : FenceOf(u) = g /\ pc'[u] = "waiting"
    <3>1. CASE g = f
      BY <2>2, <2>3, <2>4, <3>1
    <3>2. CASE g # f
      BY <2>1, <2>2, <2>3, <3>2 DEF WaitOrder, f
    <3> QED BY <3>1, <3>2
  <2> QED BY <2>6, <2>7 DEF WaitOrder
<1> QED BY <1>5, <1>6, <1>7

LEMMA WaitStep ==
  TypeInv /\ MutexInv /\ OrderInv /\ WaitOrder /\ [Next]_vars => WaitOrder'
<1> SUFFICES ASSUME TypeInv, MutexInv, OrderInv, WaitOrder, [Next]_vars
             PROVE  WaitOrder'
  OBVIOUS
<1> USE Domains
<1>1. CASE GpuStep
  BY <1>1, WaitGpu
<1>2. ASSUME NEW t \in Threads, SignalFence(t) \/ FinishSignal(t) PROVE WaitOrder'
  <2>1. "signalled" \in Places /\ "check" \in Places
    BY DEF Places, FencePlaces
  <2>2. CASE SignalFence(t)
    BY <2>1, <2>2, WaitNumbered DEF SignalFence, Enqueue, waitVars, fenceVars
  <2>3. CASE FinishSignal(t)
    BY <2>1, <2>3, WaitNumbered DEF FinishSignal, waitVars, gpuVars
  <2> QED BY <1>2, <2>2, <2>3
<1>3. ASSUME NEW t \in Threads, WaitCheck(t) \/ WaitArm(t) \/ WaitWake(t)
      PROVE  WaitOrder'
  BY <1>3, WaitFence
<1>4. CASE TrackAndRelease
  <2>1. PICK place \in {"check", "reopen"} : Goto(Render, place)
    BY <1>4 DEF TrackAndRelease
  <2>2. place \in Places
    BY <2>1 DEF Places, FencePlaces
  <2> QED BY <1>4, <2>1, <2>2, WaitNumbered DEF TrackAndRelease, waitVars, gpuVars
<1>5. ASSUME NEW t \in Threads, NEW place \in Places, Goto(t, place),
             place \notin WaitPlaces, pc[t] # "waiting",
             UNCHANGED <<waitVars, completed, signaled, fence_val>>
      PROVE  WaitOrder'
  BY <1>5, WaitQuiet
<1>6. CASE ObtainAllocator \/ ObtainCommandList \/ DestroyFinish
  <2>1. PICK place \in Places : Goto(Render, place) /\ place \notin WaitPlaces
    BY <1>6 DEF ObtainAllocator, ObtainCommandList, DestroyFinish, Places, FencePlaces,
                WaitPlaces
  <2> QED BY <1>5, <1>6, <2>1 DEF ObtainAllocator, ObtainCommandList, DestroyFinish,
             waitVars, gpuVars, fenceVars
<1>7. CASE Destroy \/ EndFrame \/ \E wait \in BOOLEAN : FlushCommands(wait)
  <2>1. pc[Render] = "open" /\ UNCHANGED <<waitVars, completed, signaled, fence_val>>
    BY <1>7 DEF Destroy, EndFrame, FlushCommands, CloseAndExecute, Enqueue, waitVars,
                gpuVars, fenceVars
  <2>2. PICK place \in Places : Goto(Render, place) /\ place \notin WaitPlaces
    BY <1>7 DEF Destroy, FlushBegin, EndFrame, FlushCommands, CloseAndExecute, Places,
                FencePlaces, WaitPlaces
  <2> QED BY <1>5, <2>1, <2>2
<1>8. CASE AdvanceFrameFence
  <2>1. "open" \in Places /\ "open" \notin WaitPlaces
    BY DEF Places, WaitPlaces
  <2>2. \A u \in Threads : FenceOf(u) # "Frame"
    BY DEF FenceOf
  <2>3. \A u \in Threads : fence_val'[FenceOf(u)] = fence_val[FenceOf(u)]
    BY <1>8, <2>2 DEF AdvanceFrameFence, IncrementFence, TypeInv, TypeOK, FenceType
  <2> QED BY <1>8, <2>1, <2>3, WaitQuiet DEF AdvanceFrameFence, Enqueue, waitVars
<1>9. ASSUME NEW l \in Loaders, CommitExecute(l) \/ CommitReset(l) PROVE WaitOrder'
  <2>1. "executed" \in Places /\ "executed" \notin WaitPlaces
        /\ "idle" \in Places /\ "idle" \notin WaitPlaces
    BY DEF Places, FencePlaces, WaitPlaces
  <2> QED BY <1>5, <1>9, <2>1 DEF CommitExecute, CommitReset, Enqueue, waitVars,
             gpuVars, fenceVars
<1>10. CASE Record \/ UNCHANGED vars \/ \E g \in 1 .. curGen : QueryGeneration(g)
  <2>1. UNCHANGED <<event, armed, completed, fence_val, pc, signaled>>
    BY <1>10 DEF Record, QueryGeneration, vars, gpuVars, waitVars, fenceVars
  <2> QED BY <2>1 DEF WaitOrder
<1> QED BY <1>1, <1>2, <1>3, <1>4, <1>6, <1>7, <1>8, <1>9, <1>10
        DEF Next, Continue, FenceStep, RenderCall, Terminated
-----------------------------------------------------------------------------
(* Commands in flight hold on to their allocator. *)

\* Only items that are already queued, each holding its allocator
LEMMA HeldQuiet ==
  ASSUME Held, UNCHANGED <<pending, sync, numAllocs>>,
         \A i \in 1 .. Len(todo') : \E j \in 1 .. Len(todo) : todo'[i] = todo[j]
  PROVE  Held'
BY DEF Held

LEMMA HeldEnqueue ==
  ASSUME TypeInv, Held, UNCHANGED <<pending, sync, numAllocs>>,
         NEW f \in Fences, NEW op \in {"exec", "signal"}, NEW a \in 0 .. MaxAllocs,
         NEW e \in Nat, Enqueue(op, f, a, e),
         op = "exec" => \/ a = ResAlloc /\ f = "Resource"
                        \/ /\ a \in 1 .. numAllocs /\ f = "CommandList"
                           /\ pending[a] > 0
  PROVE  Held'
<1> DEFINE x == [op |-> op, fence |-> f, alloc |-> a, epoch |-> e,
                 val |-> fence_val[f]]
<1>1. todo' = Append(todo, x) /\ x \in Items /\ x.op = op /\ x.fence = f /\ x.alloc = a
  BY NumberFacts DEF Enqueue, Items
<1> HIDE DEF x
<1>2. /\ Len(todo) \in Nat /\ Len(todo') = Len(todo) + 1
      /\ todo'[Len(todo) + 1] = x
      /\ \A i \in 1 .. Len(todo) : todo'[i] = todo[i]
  BY <1>1 DEF TypeInv, TypeOK, GpuType
<1>3. \A i \in 1 .. Len(todo') : i \in 1 .. Len(todo) \/ i = Len(todo) + 1
  BY <1>2
<1> QED BY <1>1, <1>2, <1>3 DEF Held

LEMMA HeldStep ==
  TypeInv /\ Created /\ MutexInv /\ OrderInv /\ WaitOrder /\ Held /\ [Next]_vars => Held'
<1> SUFFICES ASSUME TypeInv, Created, MutexInv, OrderInv, WaitOrder, Held, [Next]_vars
             PROVE  Held'
  OBVIOUS
<1> USE Domains
<1>1. ASSUME UNCHANGED <<todo, pending, sync, numAllocs>> PROVE Held'
  BY <1>1, HeldQuiet
<1>2. CASE GpuStep
  <2>1. /\ todo \in Seq(Items) /\ todo # <<>> /\ todo' = Tail(todo)
        /\ UNCHANGED allocVars
    BY <1>2 DEF GpuStep, GpuExecute, GpuSignal, TypeInv, TypeOK, GpuType
  <2>2. \A i \in 1 .. Len(todo') : todo'[i] = todo[i + 1] /\ i + 1 \in 1 .. Len(todo)
    BY <2>1
  <2> QED BY <2>1, <2>2, HeldQuiet DEF allocVars
<1>3. ASSUME NEW t \in Threads, FenceStep(t) PROVE Held'
  <2>1. CASE SignalFence(t)
    <3>1. Enqueue("signal", FenceOf(t), ResAlloc, 0) /\ UNCHANGED allocVars
      BY <2>1 DEF SignalFence
    <3> QED BY <3>1, HeldEnqueue DEF allocVars
  <2>2. CASE FinishSignal(t) \/ WaitCheck(t) \/ WaitArm(t) \/ WaitWake(t)
    BY <1>1, <2>2 DEF FinishSignal, WaitCheck, WaitArm, WaitWake, gpuVars, allocVars
  <2> QED BY <1>3, <2>1, <2>2 DEF FenceStep
<1>4. CASE TrackAndRelease
  <2>1. /\ todo' = todo /\ numAllocs' = numAllocs
        /\ pc[Render] = "signalled" /\ mode # "destroy"
        /\ sync' = [sync EXCEPT ![listAlloc] = SyncPoint("CommandList", signaled[Render])]
        /\ pending' = [pending EXCEPT ![listAlloc] = @ - 1]
    BY <1>4 DEF TrackAndRelease, SetSyncPoint, DecrementPending, gpuVars
  <2>2. /\ listAlloc \in Allocs /\ sync \in [Allocs -> [fence : Fences, val : Nat]]
        /\ pending \in [Allocs -> Nat] /\ numAllocs \in Allocs
    BY DEF TypeInv, TypeOK, ListType, AllocType
  <2>3. signaled[Render] = fence_val["CommandList"] /\ signaled[Render] \in Nat
    BY <2>1, NumberFacts DEF WaitOrder
  <2>4. /\ sync'[listAlloc].fence = "CommandList"
        /\ sync'[listAlloc].val = fence_val["CommandList"]
    BY <2>1, <2>2, <2>3 DEF SyncPoint
  <2>5. \A a \in Allocs : a # listAlloc => sync'[a] = sync[a] /\ pending'[a] = pending[a]
    BY <2>1, <2>2
  <2>6. \A a \in 1 .. numAllocs : a \in Allocs
    BY <2>2, BoundsAssumption DEF Allocs
  <2>7. \A i \in 1 .. Len(todo) :
          todo[i].fence = "CommandList" => todo[i].val <= fence_val["CommandList"]
    BY DEF OrderInv, ItemOrder
  <2>8. ASSUME NEW i \in 1 .. Len(todo), todo[i].op = "exec",
               todo[i].alloc \in 1 .. numAllocs, todo[i].fence = "CommandList"
        PROVE  \/ pending'[todo[i].alloc] > 0
               \/ /\ sync'[todo[i].alloc].fence = "CommandList"
                  /\ todo[i].val <= sync'[todo[i].alloc].val
    <3>1. CASE todo[i].alloc = listAlloc
      BY <2>4, <2>7, <2>8, <3>1
    <3>2. CASE todo[i].alloc # listAlloc
      <4>1. todo[i].alloc # ResAlloc
        BY <2>6, <2>8
      <4> QED BY <2>5, <2>6, <2>8, <3>2, <4>1 DEF Held
    <3> QED BY <3>1, <3>2
  <2> QED BY <2>1, <2>8 DEF Held
<1>5. CASE ObtainAllocator
  <2>1. todo' = todo
    BY <1>5 DEF ObtainAllocator, gpuVars
  <2>2. CASE KeepAllocator \/ ReuseAllocator
    BY <1>1, <2>1, <2>2 DEF KeepAllocator, ReuseAllocator, allocVars
  <2>3. CASE CreateAllocator
    <3>1. /\ pending' = pending /\ numAllocs' = numAllocs + 1
          /\ sync' = [sync EXCEPT ![numAllocs + 1] = SyncPoint("Frame", completed["Frame"])]
      BY <2>3 DEF CreateAllocator
    <3>2. numAllocs \in 1 .. MaxAllocs /\ sync \in [Allocs -> [fence : Fences, val : Nat]]
      BY DEF TypeInv, TypeOK, AllocType, Allocs
    <3>3. MaxAllocs \in Nat
      BY BoundsAssumption
    <3>4. \A a \in 1 .. numAllocs : a \in 1 .. numAllocs' /\ sync'[a] = sync[a]
      BY <3>1, <3>2, <3>3 DEF Allocs
    <3> QED BY <2>1, <3>1, <3>4 DEF Held
  <2> QED BY <1>5, <2>2, <2>3 DEF ObtainAllocator
<1>6. CASE ObtainCommandList
  <2>1. /\ todo' = todo /\ sync' = sync /\ numAllocs' = numAllocs
        /\ pending' = [pending EXCEPT ![ctxAlloc] = @ + 1]
    BY <1>6 DEF ObtainCommandList, IncrementPending, gpuVars
  <2>2. pending \in [Allocs -> Nat] /\ numAllocs \in 1 .. MaxAllocs
    BY DEF TypeInv, TypeOK, AllocType, Allocs
  <2>3. \A a \in 1 .. numAllocs : a \in Allocs
    BY <2>2, BoundsAssumption DEF Allocs
  <2>4. \A a \in 1 .. numAllocs : pending[a] > 0 => pending'[a] > 0
    BY <2>1, <2>2, <2>3
  <2> QED BY <2>1, <2>4 DEF Held
<1>7. ASSUME NEW m, CloseAndExecute(m), pc[Render] = "open",
             UNCHANGED <<pending, sync, numAllocs>>
      PROVE  Held'
  <2>1. listAlloc \in Allocs /\ listAlloc \in 1 .. numAllocs /\ listEpoch \in Nat
    BY DEF TypeInv, TypeOK, ListType, AllocType, Created, Allocs
  <2>2. pending[listAlloc] > 0
    BY <1>7, <2>1 DEF TypeInv, PendingExact, ListHeld
  <2> QED BY <1>7, <2>1, <2>2, HeldEnqueue DEF CloseAndExecute
<1>8. CASE EndFrame \/ \E wait \in BOOLEAN : FlushCommands(wait)
  BY <1>1, <1>7, <1>8 DEF EndFrame, FlushCommands, allocVars, gpuVars
<1>9. CASE AdvanceFrameFence
  <2>1. Enqueue("signal", "Frame", ResAlloc, 0) /\ UNCHANGED allocVars
    BY <1>9 DEF AdvanceFrameFence
  <2> QED BY <2>1, HeldEnqueue DEF allocVars
<1>10. ASSUME NEW l \in Loaders, CommitExecute(l) \/ CommitReset(l) PROVE Held'
  <2>1. CASE CommitExecute(l)
    <3>1. Enqueue("exec", "Resource", ResAlloc, epoch[ResAlloc]) /\ UNCHANGED allocVars
      BY <2>1 DEF CommitExecute
    <3>2. epoch[ResAlloc] \in Nat
      BY DEF TypeInv, TypeOK, AllocType
    <3> QED BY <3>1, <3>2, HeldEnqueue DEF allocVars
  <2>2. CASE CommitReset(l)
    BY <1>1, <2>2 DEF CommitReset, gpuVars
  <2> QED BY <1>10, <2>1, <2>2
<1>11. CASE \/ Record \/ Destroy \/ DestroyFinish \/ UNCHANGED vars
            \/ \E g \in 1 .. curGen : QueryGeneration(g)
  BY <1>1, <1>11 DEF Record, Destroy, DestroyFinish, QueryGeneration, vars, gpuVars,
                     allocVars
<1> QED BY <1>2, <1>3, <1>4, <1>5, <1>6, <1>8, <1>9, <1>10, <1>11
        DEF Next, Continue, RenderCall, Terminated
-----------------------------------------------------------------------------
(* No allocator is reset under commands. *)

\* Nothing is added to the queue and no item of it loses its memory; what was
\* recorded in the list stays, or the list is closed
LEMMA MemoryQuiet ==
  ASSUME TypeInv, MemoryIntact,
         \A i \in 1 .. Len(todo) :
           todo[i].op = "exec" => epoch'[todo[i].alloc] = epoch[todo[i].alloc],
         \A i \in 1 .. Len(todo') : \E j \in 1 .. Len(todo) : todo'[i] = todo[j],
         todo' \in Seq(Items),
         \/ isClosed'
         \/ listEpoch' = epoch'[listAlloc']
  PROVE  MemoryIntact'
<1>1. DOMAIN todo = 1 .. Len(todo) /\ DOMAIN todo' = 1 .. Len(todo')
  BY DEF TypeInv, TypeOK, GpuType
<1> QED BY <1>1 DEF MemoryIntact

\* What is submitted was recorded in memory not reset since
LEMMA MemoryEnqueue ==
  ASSUME TypeInv, MemoryIntact, epoch' = epoch,
         NEW f \in Fences, NEW op \in {"exec", "signal"}, NEW a \in 0 .. MaxAllocs,
         NEW e \in Nat, Enqueue(op, f, a, e), op = "exec" => e = epoch[a],
         isClosed' \/ (isClosed' = isClosed /\ UNCHANGED <<listAlloc, listEpoch>>)
  PROVE  MemoryIntact'
<1> DEFINE x == [op |-> op, fence |-> f, alloc |-> a, epoch |-> e,
                 val |-> fence_val[f]]
<1>1. todo' = Append(todo, x) /\ x \in Items /\ x.op = op /\ x.alloc = a /\ x.epoch = e
  BY NumberFacts DEF Enqueue, Items
<1> HIDE DEF x
<1>2. /\ Len(todo) \in Nat /\ DOMAIN todo = 1 .. Len(todo)
      /\ DOMAIN todo' = 1 .. Len(todo) + 1
      /\ todo'[Len(todo) + 1] = x
      /\ \A i \in 1 .. Len(todo) : todo'[i] = todo[i]
  BY <1>1 DEF TypeInv, TypeOK, GpuType
<1>3. \A i \in DOMAIN todo' :
        todo'[i].op = "exec" => todo'[i].epoch = epoch'[todo'[i].alloc]
  <2>1. ASSUME NEW i \in DOMAIN todo', todo'[i].op = "exec"
        PROVE  todo'[i].epoch = epoch'[todo'[i].alloc]
    <3>1. CASE i \in DOMAIN todo
      BY <1>2, <2>1, <3>1 DEF MemoryIntact
    <3>2. CASE i = Len(todo) + 1
      BY <1>1, <1>2, <2>1, <3>2
    <3> QED BY <1>2, <3>1, <3>2
  <2> QED BY <2>1
<1>4. ~ isClosed' => listEpoch' = epoch'[listAlloc']
  BY DEF MemoryIntact
<1> QED BY <1>3, <1>4 DEF MemoryIntact

\* An allocator at the front of its queue that is ready has nothing in flight
LEMMA ReadyIsIdle ==
  ASSUME TypeInv, OrderInv, Held, queue # <<>>, IsReady(Head(queue)),
         NEW i \in 1 .. Len(todo), todo[i].op = "exec"
  PROVE  todo[i].alloc # Head(queue)
<1> DEFINE a == Head(queue)
<1>1. a \in Allocs
  BY DEF TypeInv, TypeOK, AllocType
<1>2. /\ pending[a] = 0 /\ sync[a].fence \in Fences /\ sync[a].val \in Nat
      /\ IsFenceComplete(sync[a].fence, sync[a].val)
  BY <1>1 DEF IsReady, TypeInv, TypeOK, AllocType
<1> HIDE DEF a
<1>3. sync[a].val <= completed[sync[a].fence]
  BY <1>2, NumberFacts DEF IsFenceComplete, OrderInv, FenceOrder
<1>4. /\ todo[i].fence \in Fences /\ todo[i].val \in Nat
      /\ completed[todo[i].fence] < todo[i].val /\ completed[todo[i].fence] \in Nat
  BY ItemFacts, NumberFacts DEF OrderInv, ItemOrder
<1>5. SUFFICES ASSUME todo[i].alloc = a PROVE FALSE
  BY DEF a
<1>6. a # ResAlloc
  BY <1>1, Domains
<1> QED BY <1>2, <1>3, <1>4, <1>5, <1>6 DEF Held

\* After its wait a loader finds no upload in flight
LEMMA UploadIsIdle ==
  ASSUME TypeInv, MutexInv, OrderInv, WaitOrder, Held, NEW l \in Loaders,
         pc[l] = "waited", NEW i \in 1 .. Len(todo), todo[i].op = "exec"
  PROVE  todo[i].alloc # ResAlloc
<1>1. SUFFICES ASSUME todo[i].alloc = ResAlloc PROVE FALSE
  OBVIOUS
<1>2. todo[i].fence = "Resource"
  <2>1. ResAlloc \notin 1 .. numAllocs
    BY DEF ResAlloc, TypeInv, TypeOK, AllocType, Allocs
  <2> QED BY <1>1, <2>1 DEF Held
<1>3. "Resource" \notin Executing
  <2>1. \A t \in Threads : FenceOf(t) = "Resource" => pc[t] \notin {"executed", "signalled"}
    BY Domains DEF MutexInv, Threads
  <2> QED BY <2>1 DEF Executing
<1>4. /\ completed["Resource"] < todo[i].val /\ todo[i].val <= fence_val["Resource"]
      /\ todo[i].val # fence_val["Resource"]
  BY <1>2, <1>3 DEF OrderInv, ItemOrder
<1>5. signaled[l] + 1 = fence_val["Resource"] /\ signaled[l] <= completed["Resource"]
  BY Domains DEF WaitOrder
<1>6. /\ todo[i].val \in Nat /\ fence_val["Resource"] \in Nat
      /\ completed["Resource"] \in Nat /\ signaled[l] \in Nat
  BY ItemFacts, NumberFacts, Domains DEF TypeInv, TypeOK, ThreadType
<1> QED BY <1>4, <1>5, <1>6

LEMMA MemoryStep ==
  TypeInv /\ MutexInv /\ OrderInv /\ WaitOrder /\ Held /\ MemoryIntact /\ [Next]_vars
    => MemoryIntact'
<1> SUFFICES ASSUME TypeInv, MutexInv, OrderInv, WaitOrder, Held, MemoryIntact,
                    [Next]_vars
             PROVE  MemoryIntact'
  OBVIOUS
<1> USE Domains
<1>0. todo \in Seq(Items) /\ epoch \in [0 .. MaxAllocs -> Nat]
  BY DEF TypeInv, TypeOK, GpuType, AllocType
<1>1. ASSUME UNCHANGED <<todo, epoch, isClosed, listAlloc, listEpoch>>
      PROVE  MemoryIntact'
  BY <1>1 DEF MemoryIntact
<1>2. CASE GpuStep
  <2>1. /\ todo # <<>> /\ todo' = Tail(todo)
        /\ UNCHANGED <<epoch, isClosed, listAlloc, listEpoch>>
    BY <1>2 DEF GpuStep, GpuExecute, GpuSignal, allocVars, listVars
  <2>2. /\ todo' \in Seq(Items)
        /\ \A i \in 1 .. Len(todo') : todo'[i] = todo[i + 1] /\ i + 1 \in 1 .. Len(todo)
    BY <1>0, <2>1
  <2>3. isClosed' \/ listEpoch' = epoch'[listAlloc']
    BY <2>1 DEF MemoryIntact
  <2> QED BY <2>1, <2>2, <2>3, MemoryQuiet
<1>3. ASSUME NEW t \in Threads, FenceStep(t) PROVE MemoryIntact'
  <2>1. CASE SignalFence(t)
    BY <2>1, MemoryEnqueue DEF SignalFence, allocVars, listVars
  <2>2. CASE FinishSignal(t) \/ WaitCheck(t) \/ WaitArm(t) \/ WaitWake(t)
    BY <1>1, <2>2 DEF FinishSignal, WaitCheck, WaitArm, WaitWake, gpuVars, allocVars,
                      listVars
  <2> QED BY <1>3, <2>1, <2>2 DEF FenceStep
<1>4. CASE \/ TrackAndRelease \/ Record \/ Destroy \/ DestroyFinish \/ UNCHANGED vars
           \/ \E g \in 1 .. curGen : QueryGeneration(g)
  BY <1>1, <1>4 DEF TrackAndRelease, SetSyncPoint, Record, Destroy, DestroyFinish,
                    QueryGeneration, CleanupActiveGenerations, vars, gpuVars, allocVars,
                    listVars
<1>5. CASE ObtainAllocator
  <2>1. todo' = todo /\ isClosed' = isClosed
    BY <1>5 DEF ObtainAllocator, gpuVars, listVars
  <2>2. isClosed
    <3>1. ~ (pc[Render] \in {"open", "frame"} \/ mode = "destroy")
      <4>1. mode = "destroy" => pc[Render] \in FencePlaces \cup {"destroyed"}
        BY DEF TypeInv, ControlInv
      <4> QED BY <1>5, <4>1 DEF ObtainAllocator, FencePlaces
    <3> QED BY <3>1, Zenon DEF TypeInv, ControlInv
  <2>3. \A i \in 1 .. Len(todo) :
          todo[i].op = "exec" => epoch'[todo[i].alloc] = epoch[todo[i].alloc]
    <3>1. CASE KeepAllocator \/ CreateAllocator
      BY <3>1 DEF KeepAllocator, CreateAllocator, allocVars
    <3>2. CASE ReuseAllocator
      <4>1. /\ queue # <<>> /\ IsReady(Head(queue))
            /\ epoch' = [epoch EXCEPT ![Head(queue)] = @ + 1]
        BY <3>2 DEF ReuseAllocator
      <4>2. \A i \in 1 .. Len(todo) : todo[i].alloc \in 0 .. MaxAllocs
        BY ItemFacts
      <4> QED BY <1>0, <4>1, <4>2, ReadyIsIdle
    <3> QED BY <1>5, <3>1, <3>2 DEF ObtainAllocator
  <2> QED BY <1>0, <2>1, <2>2, <2>3, MemoryQuiet
<1>6. CASE ObtainCommandList
  <2>1. /\ UNCHANGED <<todo, epoch>>
        /\ listAlloc' = ctxAlloc /\ listEpoch' = epoch[ctxAlloc]
    BY <1>6 DEF ObtainCommandList, gpuVars
  <2> QED BY <1>0, <2>1, MemoryQuiet
<1>7. ASSUME NEW m, CloseAndExecute(m), pc[Render] = "open", epoch' = epoch
      PROVE  MemoryIntact'
  <2>1. listAlloc \in 0 .. MaxAllocs /\ listEpoch \in Nat
    BY DEF TypeInv, TypeOK, ListType
  <2>2. ~ isClosed
    BY <1>7 DEF TypeInv, ControlInv
  <2>3. listEpoch = epoch[listAlloc]
    BY <2>2 DEF MemoryIntact
  <2> QED BY <1>7, <2>1, <2>3, MemoryEnqueue DEF CloseAndExecute
<1>8. CASE EndFrame \/ \E wait \in BOOLEAN : FlushCommands(wait)
  BY <1>1, <1>7, <1>8 DEF EndFrame, FlushCommands, allocVars, gpuVars, listVars
<1>9. CASE AdvanceFrameFence
  BY <1>9, MemoryEnqueue DEF AdvanceFrameFence, allocVars, listVars
<1>10. ASSUME NEW l \in Loaders, CommitExecute(l) PROVE MemoryIntact'
  <2>1. epoch[ResAlloc] \in Nat
    BY <1>0
  <2> QED BY <1>10, <2>1, MemoryEnqueue DEF CommitExecute, allocVars, listVars
<1>11. ASSUME NEW l \in Loaders, CommitReset(l) PROVE MemoryIntact'
  <2>1. /\ pc[l] = "waited" /\ epoch' = [epoch EXCEPT ![ResAlloc] = @ + 1]
        /\ UNCHANGED <<todo, isClosed, listAlloc, listEpoch>>
    BY <1>11 DEF CommitReset, gpuVars, listVars
  <2>2. \A i \in 1 .. Len(todo) : todo[i].alloc \in 0 .. MaxAllocs
    BY ItemFacts
  <2>3. \A i \in 1 .. Len(todo) :
          todo[i].op = "exec" => epoch'[todo[i].alloc] = epoch[todo[i].alloc]
    BY <1>0, <2>1, <2>2, UploadIsIdle
  <2>4. listAlloc \in 0 .. MaxAllocs /\ listAlloc # ResAlloc
    BY DEF TypeInv, TypeOK, ListType
  <2>5. isClosed' \/ listEpoch' = epoch'[listAlloc']
    BY <1>0, <2>1, <2>4 DEF MemoryIntact
  <2> QED BY <1>0, <2>1, <2>3, <2>5, MemoryQuiet
<1> QED BY <1>2, <1>3, <1>4, <1>5, <1>6, <1>8, <1>9, <1>10, <1>11
        DEF Next, Continue, RenderCall, Terminated
-----------------------------------------------------------------------------
LEMMA InvStep == IInv /\ [Next]_vars => IInv'
<1> SUFFICES ASSUME IInv, [Next]_vars PROVE IInv'
  OBVIOUS
<1>1. /\ TypeInv /\ Created /\ MutexInv /\ OrderInv /\ WaitOrder /\ Held
      /\ MemoryIntact
  BY DEF IInv, OrderInv
<1>2. TypeInv' /\ Created' /\ MutexInv'
  BY <1>1, TypeStep, CreatedStep, MutexStep
<1>3. OrderInv' /\ WaitOrder'
  BY <1>1, OrderStep, WaitStep
<1>4. Held' /\ MemoryIntact'
  BY <1>1, HeldStep, MemoryStep
<1> QED BY <1>2, <1>3, <1>4 DEF IInv, OrderInv

LEMMA Invariance == Spec => []IInv
BY InitIInv, InvStep, PTL DEF Spec

(* CommandAllocatorManager::ObtainCommandAllocator and the commit of an       *)
(* upload never reset memory the GPU has commands of yet to execute, with any *)
(* number of loader threads, allocators and batches.                        *)
THEOREM AllocatorsNeverResetInUse == Spec => []MemoryIntact
<1>1. IInv => MemoryIntact
  BY DEF IInv
<1> QED BY <1>1, Invariance, PTL

(* Fence::WaitForFence returns only when the value it waits for was reached,  *)
(* with any number of threads that share the event of a fence.              *)
THEOREM WaitsAreTrue == Spec => []WaitReturnsComplete
<1>1. IInv => WaitReturnsComplete
  BY DEF IInv, WaitOrder, WaitReturnsComplete
<1> QED BY <1>1, Invariance, PTL
-----------------------------------------------------------------------------
(* Generations, the queue of allocators, the timeline                        *)

(* Generations are numbered like the values of the fence: the queue of active *)
(* ones is a run of numbers that ends before the one being recorded, and all  *)
(* in front of it are past.                                                  *)
GenInv ==
  /\ curGen = lastGen + Len(active) + 1
  /\ \A i \in 1 .. Len(active) : active[i].gen = lastGen + i
                                 /\ active[i].val = lastGen + i
  /\ lastGen <= completed["CommandList"]
  /\ curGen <= fence_val["CommandList"]
  /\ mode # "destroy" => curGen = fence_val["CommandList"]

(* Every allocator created has one place: the context or the queue.          *)
OwnInv ==
  /\ \A i, j \in 1 .. Len(queue) : queue[i] = queue[j] => i = j
  /\ \A a \in 1 .. numAllocs : a = ctxAlloc \/ \E i \in 1 .. Len(queue) : queue[i] = a
  /\ \A i \in 1 .. Len(queue) : queue[i] # ctxAlloc
  /\ ListHeld /\ ctxAlloc # NoAlloc => listAlloc = ctxAlloc

\* The allocator under the held list has no sync point of its batch yet
Open(a) == ListHeld /\ listAlloc = a

(* The queue is in the order of the sync points; the allocator under the held *)
(* list, once EndFrame has queued it, is its last.                           *)
QueueInv ==
  /\ \A i \in 1 .. Len(queue) : IF Open(queue[i]) THEN i = Len(queue)
                                ELSE sync[queue[i]].fence = "CommandList"
  /\ \A i, j \in 1 .. Len(queue) :
       i < j /\ ~ Open(queue[j]) => sync[queue[i]].val < sync[queue[j]].val
  /\ \A a \in Allocs :
       sync[a].fence = "CommandList" => sync[a].val < fence_val["CommandList"]

(* Once Destroy has signalled, its signal is the last item of the queue.     *)
DestroyInv ==
  mode = "destroy" =>
    /\ \A l \in Loaders : pc[l] = "idle"
    /\ pc[Render] # "executed" =>
         \A i \in 1 .. Len(todo) : i = Len(todo) =>
           todo[i].fence = "CommandList" /\ todo[i].val = signaled[Render]
    /\ pc[Render] = "destroyed" => todo = <<>>

\* Only Destroy ends the render thread
EndInv == pc[Render] = "destroyed" => mode = "destroy"
-----------------------------------------------------------------------------
(* Generations *)

LEMMA CompleteExact ==
  ASSUME TypeInv, OrderInv, NEW f \in Fences, NEW v \in Nat
  PROVE  IsFenceComplete(f, v) <=> v <= completed[f]
BY NumberFacts DEF IsFenceComplete, OrderInv, FenceOrder

LEMMA ListFacts ==
  ASSUME TypeInv
  PROVE  /\ curGen \in Nat /\ lastGen \in Nat
         /\ active \in Seq([gen : Nat, val : Nat]) /\ Len(active) \in Nat
         /\ listAlloc \in Allocs /\ signaled[Render] \in Nat
<1>1. active \in Seq([gen : Nat, val : Nat])
  BY DEF TypeInv, TypeOK, ListType
<1> QED BY <1>1, LenProperties, Domains DEF TypeInv, TypeOK, ListType, ThreadType

\* The GPU does not lower a fence
LEMMA CompletedGrows ==
  ASSUME TypeInv, OrderInv, GpuStep, NEW f \in Fences
  PROVE  completed[f] <= completed'[f]
<1>1. todo # <<>> /\ Head(todo) = todo[1] /\ 1 \in 1 .. Len(todo)
  BY DEF GpuStep, GpuExecute, GpuSignal, TypeInv, TypeOK, GpuType
<1>2. todo[1].fence \in Fences /\ todo[1].val \in Nat
      /\ completed[todo[1].fence] < todo[1].val
  BY <1>1, ItemFacts DEF OrderInv, ItemOrder
<1>3. completed \in [Fences -> Nat]
  BY DEF TypeInv, TypeOK, GpuType
<1> QED BY <1>1, <1>2, <1>3 DEF GpuStep, GpuExecute, GpuSignal

\* What cleaning up pops are the generations the fence is past
LEMMA CleanupExact ==
  ASSUME TypeInv, OrderInv, GenInv, NEW k \in 0 .. Len(active)
  PROVE  CleanupCount(k) <=>
           /\ k > 0 => lastGen + k <= completed["CommandList"]
           /\ k < Len(active) => completed["CommandList"] < lastGen + k + 1
<1>1. \A i \in 1 .. Len(active) :
        IsFenceComplete("CommandList", active[i].val) <=>
          lastGen + i <= completed["CommandList"]
  <2>1. ASSUME NEW i \in 1 .. Len(active)
        PROVE  active[i].val = lastGen + i /\ lastGen + i \in Nat
    <3>1. lastGen \in Nat /\ Len(active) \in Nat
      BY ListFacts
    <3>2. active[i].val = lastGen + i
      BY DEF GenInv
    <3> QED BY <3>1, <3>2
  <2>2. \A v \in Nat : IsFenceComplete("CommandList", v) <=> v <= completed["CommandList"]
    BY CompleteExact, Domains
  <2> QED BY <2>1, <2>2
<1>2. completed["CommandList"] \in Nat /\ lastGen \in Nat /\ Len(active) \in Nat
  BY Domains, NumberFacts, ListFacts
<1>3. (\A i \in 1 .. k : IsFenceComplete("CommandList", active[i].val))
        <=> (k > 0 => lastGen + k <= completed["CommandList"])
  <2>1. \A i \in 1 .. k : i \in 1 .. Len(active)
    BY <1>2
  <2>2. (\A i \in 1 .. k : IsFenceComplete("CommandList", active[i].val))
          <=> \A i \in 1 .. k : lastGen + i <= completed["CommandList"]
    BY <1>1, <2>1
  <2>3. k > 0 => k \in 1 .. k
    OBVIOUS
  <2> HIDE DEF CleanupCount
  <2> QED BY <1>2, <2>2, <2>3
<1>4. k < Len(active) =>
        (~ IsFenceComplete("CommandList", active[k + 1].val)
           <=> completed["CommandList"] < lastGen + k + 1)
  <2>1. k < Len(active) => k + 1 \in 1 .. Len(active)
    BY <1>2
  <2> QED BY <1>1, <1>2, <2>1
<1> QED BY <1>3, <1>4 DEF CleanupCount

LEMMA CleanupKeeps ==
  ASSUME TypeInv, OrderInv, GenInv, CleanupActiveGenerations
  PROVE  /\ curGen = lastGen' + Len(active') + 1
         /\ \A i \in 1 .. Len(active') :
              active'[i].gen = lastGen' + i /\ active'[i].val = lastGen' + i
         /\ lastGen' <= completed["CommandList"]
<1>1. PICK k \in 0 .. Len(active) :
        /\ CleanupCount(k)
        /\ active' = SubSeq(active, k + 1, Len(active))
        /\ lastGen' = IF k = 0 THEN lastGen ELSE active[k].gen
  BY DEF CleanupActiveGenerations
<1>0. k \in Nat /\ Len(active) \in Nat /\ k <= Len(active) /\ lastGen \in Nat
  BY ListFacts
<1>2. lastGen' = lastGen + k
  BY <1>1, ListFacts DEF GenInv
<1>3. /\ Len(active') = Len(active) - k
      /\ \A i \in 1 .. Len(active) - k : active'[i] = active[k + i]
  <2>0. \A i \in 1 .. Len(active) : active[i] \in [gen : Nat, val : Nat]
    BY ListFacts, ElementOfSeq
  <2>1. \A i \in k + 1 .. Len(active) : active[i] \in [gen : Nat, val : Nat]
    BY <1>0, <2>0
  <2>2. /\ Len(active') = IF k + 1 <= Len(active) THEN Len(active) - (k + 1) + 1 ELSE 0
        /\ \A i \in 1 .. Len(active) - (k + 1) + 1 : active'[i] = active[k + 1 + i - 1]
    BY <1>0, <1>1, <2>1, ListFacts, SubSeqProperties
  <2> QED BY <1>0, <2>2
<1>4. lastGen' <= completed["CommandList"]
  BY <1>1, <1>2, CleanupExact, ListFacts DEF GenInv
<1>5. ASSUME NEW i \in 1 .. Len(active')
      PROVE  active'[i].gen = lastGen' + i /\ active'[i].val = lastGen' + i
  <2>1. k + i \in 1 .. Len(active) /\ active'[i] = active[k + i]
    BY <1>0, <1>3
  <2>2. active'[i].gen = lastGen + (k + i) /\ active'[i].val = lastGen + (k + i)
    BY <2>1 DEF GenInv
  <2> QED BY <1>0, <1>2, <2>2
<1> QED BY <1>2, <1>3, <1>4, <1>5, ListFacts DEF GenInv

LEMMA GenStep ==
  TypeInv /\ OrderInv /\ WaitOrder /\ GenInv /\ [Next]_vars => GenInv'
<1> SUFFICES ASSUME TypeInv, OrderInv, WaitOrder, GenInv, [Next]_vars PROVE GenInv'
  OBVIOUS
<1> USE Domains
<1> DEFINE cl == "CommandList"
<1>1. ASSUME UNCHANGED <<curGen, lastGen, active, fence_val, completed>>,
             mode' = mode \/ mode # "destroy"
      PROVE  GenInv'
  BY <1>1 DEF GenInv
<1>2. CASE GpuStep
  <2>1. UNCHANGED <<curGen, lastGen, active, fence_val, mode>>
    BY <1>2 DEF GpuStep, GpuExecute, GpuSignal, listVars, fenceVars, callVars
  <2>2. completed[cl] <= completed'[cl] /\ completed'[cl] \in Nat
        /\ completed[cl] \in Nat /\ lastGen \in Nat
    <3>1. TypeInv'
      BY TypeStep
    <3> QED BY <1>2, <3>1, CompletedGrows, NumberFacts, ListFacts DEF TypeInv, TypeOK,
               GpuType
  <2> QED BY <2>1, <2>2 DEF GenInv
<1>3. ASSUME NEW t \in Threads, FenceStep(t) PROVE GenInv'
  <2>1. CASE FinishSignal(t)
    <3>1. /\ UNCHANGED <<curGen, lastGen, active, mode, completed>>
          /\ fence_val' = [fence_val EXCEPT ![FenceOf(t)] = @ + 1]
      BY <2>1 DEF FinishSignal, IncrementFence, listVars, gpuVars, callVars
    <3>2. fence_val \in [Fences -> Nat]
      BY DEF TypeInv, TypeOK, FenceType
    <3>3. CASE t = Render
      BY <2>1, <3>1, <3>2, <3>3, ListFacts DEF GenInv, FinishSignal
    <3>4. CASE t # Render
      BY <2>1, <3>1, <3>2, <3>4 DEF GenInv, FenceOf
    <3> QED BY <3>3, <3>4
  <2>2. CASE SignalFence(t) \/ WaitCheck(t) \/ WaitArm(t) \/ WaitWake(t)
    BY <1>1, <2>2 DEF SignalFence, Enqueue, WaitCheck, WaitArm, WaitWake, gpuVars,
                      fenceVars, listVars, callVars
  <2> QED BY <1>3, <2>1, <2>2 DEF FenceStep
<1>4. CASE TrackAndRelease
  <2>1. /\ mode # "destroy" /\ mode' = mode /\ pc[Render] = "signalled"
        /\ UNCHANGED <<lastGen, completed>> /\ curGen' = curGen + 1
        /\ active' = Append(active, [gen |-> curGen, val |-> signaled[Render]])
        /\ fence_val' = [fence_val EXCEPT ![cl] = @ + 1]
    BY <1>4 DEF TrackAndRelease, SetSyncPoint, IncrementFence, gpuVars, callVars
  <2>2. fence_val'[cl] = fence_val[cl] + 1 /\ fence_val[cl] \in Nat
    BY <2>1 DEF TypeInv, TypeOK, FenceType
  <2>3. signaled[Render] = fence_val[cl]
    BY <2>1 DEF WaitOrder
  <2>4. /\ Len(active') = Len(active) + 1
        /\ active'[Len(active) + 1] = [gen |-> curGen, val |-> signaled[Render]]
        /\ \A i \in 1 .. Len(active) : active'[i] = active[i]
    BY <2>1, ListFacts, AppendProperties
  <2>5. /\ Len(active) \in Nat /\ lastGen \in Nat /\ curGen = lastGen + Len(active) + 1
        /\ curGen = fence_val[cl]
    BY <2>1, ListFacts DEF GenInv
  <2>6. ASSUME NEW i \in 1 .. Len(active')
        PROVE  active'[i].gen = lastGen' + i /\ active'[i].val = lastGen' + i
    <3>1. CASE i \in 1 .. Len(active)
      BY <2>1, <2>4, <3>1 DEF GenInv
    <3>2. CASE i = Len(active) + 1
      BY <2>1, <2>3, <2>4, <2>5, <3>2
    <3> QED BY <2>4, <2>5, <3>1, <3>2
  <2>7. Len(active') = Len(active) + 1 /\ curGen' = lastGen' + Len(active') + 1
    BY <2>1, <2>4, <2>5
  <2>8. lastGen' <= completed'["CommandList"] /\ curGen' = fence_val'["CommandList"]
    BY <2>1, <2>2, <2>5 DEF GenInv
  <2>9. curGen' \in Nat
    BY <2>1, <2>5
  <2> QED BY <2>6, <2>7, <2>8, <2>9 DEF GenInv
<1>5. CASE ObtainCommandList \/ \E g \in 1 .. curGen : QueryGeneration(g)
  <2>1. /\ CleanupActiveGenerations
        /\ UNCHANGED <<curGen, fence_val, completed, mode>>
    BY <1>5 DEF ObtainCommandList, QueryGeneration, gpuVars, fenceVars, callVars
  <2> QED BY <2>1, CleanupKeeps DEF GenInv
<1>6. CASE AdvanceFrameFence
  <2>1. /\ UNCHANGED <<curGen, lastGen, active, completed, mode>>
        /\ fence_val' = [fence_val EXCEPT !["Frame"] = @ + 1]
    BY <1>6 DEF AdvanceFrameFence, Enqueue, IncrementFence, listVars
  <2>2. fence_val'[cl] = fence_val[cl]
    BY <2>1 DEF TypeInv, TypeOK, FenceType
  <2> QED BY <2>1, <2>2 DEF GenInv
<1>7. CASE ObtainAllocator
  BY <1>1, <1>7 DEF ObtainAllocator, gpuVars, listVars, callVars
<1>8. CASE EndFrame \/ \E wait \in BOOLEAN : FlushCommands(wait)
  <2>1. UNCHANGED <<curGen, lastGen, active, fence_val, completed>>
    BY <1>8 DEF EndFrame, FlushCommands, CloseAndExecute, Enqueue, gpuVars, fenceVars,
                listVars
  <2>2. mode # "destroy"
    BY <1>8 DEF EndFrame, FlushCommands, TypeInv, ControlInv, FencePlaces
  <2> QED BY <1>1, <2>1, <2>2
<1>9. CASE Record \/ DestroyFinish \/ UNCHANGED vars
  BY <1>1, <1>9 DEF Record, DestroyFinish, vars, gpuVars, fenceVars, listVars, callVars
<1>10. CASE Destroy
  BY <1>10 DEF Destroy, gpuVars, fenceVars, listVars, GenInv, TypeInv, ControlInv,
               FencePlaces
<1>11. ASSUME NEW l \in Loaders, CommitExecute(l) \/ CommitReset(l) PROVE GenInv'
  BY <1>1, <1>11 DEF CommitExecute, CommitReset, Enqueue, gpuVars, fenceVars, listVars,
                     callVars
<1> QED BY <1>2, <1>3, <1>4, <1>5, <1>6, <1>7, <1>8, <1>9, <1>10, <1>11
        DEF Next, Continue, RenderCall, Terminated
-----------------------------------------------------------------------------
(* The queue of allocators *)

AllocFacts ==
  /\ queue \in Seq(Allocs) /\ Len(queue) \in Nat
  /\ numAllocs \in Nat /\ numAllocs \in Allocs /\ NoAlloc \notin Allocs
  /\ \A a \in Allocs : a \in Int
  /\ \A i \in 1 .. Len(queue) : queue[i] \in Allocs
  /\ listAlloc \in Allocs /\ ctxAlloc \in Allocs \cup {NoAlloc}
  /\ sync \in [Allocs -> [fence : Fences, val : Nat]]

LEMMA AllocFactsHold == TypeInv => AllocFacts
<1> SUFFICES ASSUME TypeInv PROVE AllocFacts
  OBVIOUS
<1>1. queue \in Seq(Allocs)
  BY DEF TypeInv, TypeOK, AllocType
<1>2. Len(queue) \in Nat /\ \A i \in 1 .. Len(queue) : queue[i] \in Allocs
  BY <1>1, ElementOfSeq, LenProperties
<1>3. \A a \in Allocs : a \in Nat
  BY DEF Allocs
<1>4. /\ numAllocs \in Allocs /\ listAlloc \in Allocs
      /\ ctxAlloc \in Allocs \cup {NoAlloc}
      /\ sync \in [Allocs -> [fence : Fences, val : Nat]]
  BY DEF TypeInv, TypeOK, AllocType, ListType
<1>5. NoAlloc \notin Allocs
  BY Domains
<1> QED BY <1>1, <1>2, <1>3, <1>4, <1>5 DEF AllocFacts

\* Where the list is held
LEMMA HeldFacts ==
  ASSUME TypeInv
  PROVE  /\ pc[Render] \in {"open", "executed", "signalled", "frame"} => ListHeld
         /\ ObtainAllocator \/ ObtainCommandList => ~ ListHeld
         /\ mode = "destroy" => pc[Render] \in FencePlaces \cup {"destroyed"}
BY DEF ListHeld, ObtainAllocator, ObtainCommandList, TypeInv, ControlInv, FencePlaces

\* The steps of a thread that say nothing of allocators and lists
LEMMA HeldKept ==
  ASSUME TypeInv, NEW t \in Threads, NEW place \in Places, Goto(t, place),
         mode' = mode \/ mode' = "flush" \/ mode' = "wait", mode # "destroy",
         t = Render => /\ place \in {"open", "executed", "signalled", "frame"}
                       /\ pc[t] \in {"open", "executed", "signalled", "frame"}
  PROVE  ListHeld' <=> ListHeld
<1>1. pc'[t] = place /\ \A u \in Threads : u # t => pc'[u] = pc[u]
  BY GotoType DEF TypeInv, TypeOK, ThreadType
<1> QED BY <1>1, Domains DEF ListHeld

\* A step of a fence keeps the list where it is
LEMMA FenceHeld ==
  ASSUME TypeInv, NEW t \in Threads, FenceStep(t)
  PROVE  (ListHeld' <=> ListHeld) /\ UNCHANGED <<allocVars, listVars, callVars>>
<1>1. UNCHANGED <<allocVars, listVars, callVars>>
  BY DEF FenceStep, SignalFence, FinishSignal, WaitCheck, WaitArm, WaitWake
<1>2. PICK place \in Places :
        /\ Goto(t, place)
        /\ t = Render /\ mode # "destroy" =>
             \/ pc[t] = "executed" /\ place = "signalled"
             \/ pc[t] \in {"check", "arm", "waiting"}
                  /\ place \in {"arm", "waiting", "waited"}
  BY DEF FenceStep, SignalFence, FinishSignal, WaitCheck, WaitArm, WaitWake, Places,
         FencePlaces
<1>3. pc'[t] = place /\ \A u \in Threads : u # t => pc'[u] = pc[u]
  BY <1>2, GotoType DEF TypeInv, TypeOK, ThreadType
<1> QED BY <1>1, <1>2, <1>3, Domains DEF ListHeld, callVars

QuInv == OwnInv /\ QueueInv

LEMMA QueueQuiet ==
  ASSUME TypeInv, QuInv, UNCHANGED <<queue, ctxAlloc, numAllocs, listAlloc, sync>>,
         ListHeld' <=> ListHeld,
         fence_val["CommandList"] <= fence_val'["CommandList"],
         fence_val'["CommandList"] \in Nat
  PROVE  QuInv'
<1>1. fence_val["CommandList"] \in Nat /\ \A a \in Allocs : sync[a].val \in Nat
  BY NumberFacts, Domains DEF TypeInv, TypeOK, AllocType
<1>2. OwnInv'
  BY DEF QuInv, OwnInv
<1>3. QueueInv'
  BY <1>1 DEF QuInv, QueueInv, Open
<1> QED BY <1>2, <1>3 DEF QuInv

\* EndFrame: the allocator under the open list goes to the end
LEMMA QueueRelease ==
  ASSUME TypeInv, QuInv, ReleaseCommandAllocator, ListHeld, ListHeld',
         UNCHANGED <<numAllocs, listAlloc, sync, fence_val>>
  PROVE  QuInv'
<1> USE AllocFactsHold DEF AllocFacts
<1>1. CASE ctxAlloc = NoAlloc
  <2>1. queue' = queue /\ ctxAlloc' = ctxAlloc
    BY <1>1 DEF ReleaseCommandAllocator
  <2> QED BY <2>1, QueueQuiet, NumberFacts, Domains
<1>2. CASE ctxAlloc # NoAlloc
  <2>1. /\ queue' = Append(queue, ctxAlloc) /\ ctxAlloc' = NoAlloc
        /\ ctxAlloc = listAlloc /\ ctxAlloc \in Allocs
    BY <1>2 DEF ReleaseCommandAllocator, QuInv, OwnInv
  <2> DEFINE n == Len(queue)
  <2>2. /\ n \in Nat /\ Len(queue') = n + 1 /\ queue'[n + 1] = listAlloc
        /\ \A i \in 1 .. n : queue'[i] = queue[i]
    BY <2>1, AppendProperties
  <2>3. \A i \in 1 .. n : queue[i] # listAlloc /\ queue[i] # NoAlloc
    BY <2>1 DEF QuInv, OwnInv
  <2>4. listAlloc # NoAlloc
    OBVIOUS
  <2> USE AllocFactsHold DEF AllocFacts
  <2> HIDE AllocFactsHold DEF AllocFacts, n
  <2>5. OwnInv'
    <3>1. \A i, j \in 1 .. n + 1 : queue'[i] = queue'[j] => i = j
      <4>1. \A i, j \in 1 .. n : queue[i] = queue[j] => i = j
        BY DEF QuInv, OwnInv, n
      <4>2. \A i \in 1 .. n + 1 : i \in 1 .. n \/ i = n + 1
        BY <2>2
      <4> QED BY <2>2, <2>3, <4>1, <4>2
    <3>2. \A a \in 1 .. numAllocs : \E i \in 1 .. n + 1 : queue'[i] = a
      <4>1. \A a \in 1 .. numAllocs : a = listAlloc \/ \E i \in 1 .. n : queue[i] = a
        BY <2>1 DEF QuInv, OwnInv, n
      <4> QED BY <2>2, <4>1
    <3>3. \A i \in 1 .. n + 1 : queue'[i] # NoAlloc
      BY <2>2, <2>3, <2>4
    <3> QED BY <2>1, <2>2, <3>1, <3>2, <3>3 DEF OwnInv
  <2>6. QueueInv'
    <3>1. \A i \in 1 .. n + 1 : Open(queue[i])' <=> i = n + 1
      BY <2>2, <2>3 DEF Open
    <3>2. \A i \in 1 .. n : ~ Open(queue[i])
      BY <2>3 DEF Open
    <3>3. \A i \in 1 .. n : sync[queue[i]].fence = "CommandList"
      BY <3>2 DEF QuInv, QueueInv, n
    <3>4. \A i, j \in 1 .. n : i < j => sync[queue[i]].val < sync[queue[j]].val
      BY <3>2 DEF QuInv, QueueInv, n
    <3>5. \A i \in 1 .. n + 1 : i \in 1 .. n \/ i = n + 1
      BY <2>2
    <3> QED BY <2>2, <3>1, <3>3, <3>4, <3>5 DEF QuInv, QueueInv
  <2> QED BY <2>5, <2>6 DEF QuInv
<1> QED BY <1>1, <1>2

\* A batch was submitted: the list's allocator gets the last sync point
LEMMA QueueTrack ==
  ASSUME TypeInv, WaitOrder, QuInv, TrackAndRelease
  PROVE  QuInv'
<1> DEFINE cl == "CommandList"
           v == signaled[Render]
           n == Len(queue)
<1>1. /\ UNCHANGED <<queue, ctxAlloc, numAllocs, listAlloc>>
      /\ sync' = [sync EXCEPT ![listAlloc] = [fence |-> cl, val |-> v]]
      /\ fence_val' = [fence_val EXCEPT ![cl] = @ + 1]
      /\ pc[Render] = "signalled" /\ mode # "destroy"
  BY DEF TrackAndRelease, SetSyncPoint, SyncPoint, IncrementFence
<1>2. ListHeld /\ ~ ListHeld'
  <2>1. mode' = mode /\ pc'[Render] \in {"check", "reopen"}
    BY Domains DEF TrackAndRelease, Goto, callVars, TypeInv, TypeOK, ThreadType
  <2> QED BY <1>1, <2>1 DEF ListHeld
<1>3. /\ v = fence_val[cl] /\ v \in Nat /\ fence_val'[cl] = v + 1
  BY <1>1, Domains, NumberFacts DEF WaitOrder, TypeInv, TypeOK, FenceType
<1>4. /\ sync'[listAlloc].fence = cl /\ sync'[listAlloc].val = v
      /\ \A a \in Allocs : a # listAlloc => sync'[a] = sync[a]
      /\ \A a \in Allocs : sync[a].val \in Nat
      /\ \A i \in 1 .. n : queue[i] \in Allocs
  BY <1>1, AllocFactsHold DEF AllocFacts
<1>5. OwnInv'
  BY <1>1, <1>2 DEF QuInv, OwnInv
<1>6. /\ \A i \in 1 .. n : queue[i] = listAlloc => i = n
      /\ \A i \in 1 .. n : queue[i] # listAlloc => sync[queue[i]].fence = cl
      /\ \A i, j \in 1 .. n : i < j /\ queue[j] # listAlloc =>
                                sync[queue[i]].val < sync[queue[j]].val
      /\ \A a \in Allocs : sync[a].fence = cl => sync[a].val < v
  BY <1>2, <1>3 DEF QuInv, QueueInv, Open
<1>7. n \in Nat
  BY AllocFactsHold DEF AllocFacts
<1> HIDE DEF n, v, cl
<1>8. \A i \in 1 .. n : sync'[queue[i]].fence = cl
  BY <1>4, <1>6
<1>9. ASSUME NEW i \in 1 .. n, NEW j \in 1 .. n, i < j
      PROVE  sync'[queue[i]].val < sync'[queue[j]].val
  <2>1. queue[i] # listAlloc
    BY <1>6, <1>7, <1>9
  <2>2. CASE queue[j] = listAlloc
    BY <1>4, <1>6, <2>1, <2>2
  <2>3. CASE queue[j] # listAlloc
    BY <1>4, <1>6, <1>9, <2>1, <2>3
  <2> QED BY <2>2, <2>3
<1>10. \A a \in Allocs : sync'[a].fence = cl => sync'[a].val < fence_val'[cl]
  BY <1>3, <1>4, <1>6
<1>11. QueueInv'
  BY <1>1, <1>2, <1>8, <1>9, <1>10 DEF QueueInv, Open, n, cl
<1> QED BY <1>5, <1>11 DEF QuInv

LEMMA QueueObtain ==
  ASSUME TypeInv, Created, QuInv, ObtainAllocator
  PROVE  QuInv'
<1>1. ~ ListHeld /\ ~ ListHeld' /\ UNCHANGED <<listAlloc, fence_val>>
  <2>1. pc'[Render] = "listless" /\ mode' = mode
    BY Domains DEF ObtainAllocator, Goto, callVars, TypeInv, TypeOK, ThreadType
  <2>2. ~ ListHeld
    BY HeldFacts
  <2> QED BY <2>1, <2>2 DEF ListHeld, ObtainAllocator, listVars
<1> DEFINE n == Len(queue)
<1>2. n \in Nat /\ \A i \in 1 .. n : queue[i] \in Allocs
  BY AllocFactsHold DEF AllocFacts
<1>3. CASE KeepAllocator
  BY <1>1, <1>3, QueueQuiet, NumberFacts, Domains DEF KeepAllocator, allocVars
<1>4. CASE ReuseAllocator
  <2>1. /\ queue # <<>> /\ ctxAlloc = NoAlloc
        /\ ctxAlloc' = Head(queue) /\ queue' = Tail(queue)
        /\ UNCHANGED <<numAllocs, sync>>
    BY <1>4 DEF ReuseAllocator, PopAllocator
  <2>2. /\ 1 \in 1 .. n /\ ctxAlloc' = queue[1] /\ Len(queue') = n - 1
        /\ \A i \in 1 .. n - 1 : queue'[i] = queue[i + 1]
    BY <2>1, AllocFactsHold DEF AllocFacts
  <2>3. \A i \in 1 .. n - 1 : i + 1 \in 1 .. n
    BY <1>2
  <2>4. /\ \A i, j \in 1 .. n : queue[i] = queue[j] => i = j
        /\ \A a \in 1 .. numAllocs : \E i \in 1 .. n : queue[i] = a
        /\ \A i \in 1 .. n : sync[queue[i]].fence = "CommandList"
        /\ \A i, j \in 1 .. n : i < j => sync[queue[i]].val < sync[queue[j]].val
        /\ \A a \in Allocs :
             sync[a].fence = "CommandList" => sync[a].val < fence_val["CommandList"]
    <3>1. \A a \in 1 .. numAllocs : a # NoAlloc
      BY DEF NoAlloc
    <3> QED BY <1>1, <2>1, <3>1 DEF QuInv, OwnInv, QueueInv, Open
  <2> HIDE DEF n
  <2>5. /\ \A i, j \in 1 .. n - 1 : queue'[i] = queue'[j] => i = j
        /\ \A i \in 1 .. n - 1 : queue'[i] # ctxAlloc'
    <3>1. \A i \in 1 .. n - 1 : i \in Int /\ i + 1 # 1
      BY <1>2
    <3> QED BY <2>2, <2>3, <2>4, <3>1
  <2>6. ASSUME NEW a \in 1 .. numAllocs, a # ctxAlloc'
        PROVE  \E i \in 1 .. n - 1 : queue'[i] = a
    <3>1. PICK i \in 1 .. n : queue[i] = a
      BY <2>4
    <3>2. i # 1
      BY <2>2, <2>6, <3>1
    <3>3. i - 1 \in 1 .. n - 1 /\ (i - 1) + 1 = i
      BY <1>2, <3>1, <3>2
    <3> QED BY <2>2, <3>1, <3>3
  <2>7. \A i, j \in 1 .. n - 1 : i < j => sync[queue'[i]].val < sync[queue'[j]].val
    <3>1. \A i, j \in 1 .. n - 1 : i < j => i + 1 < j + 1
      BY <1>2
    <3> QED BY <2>2, <2>3, <2>4, <3>1
  <2>8. OwnInv'
    BY <1>1, <2>1, <2>2, <2>5, <2>6 DEF OwnInv
  <2>9. QueueInv'
    <3>1. \A i \in 1 .. n - 1 : sync[queue'[i]].fence = "CommandList"
      BY <2>2, <2>3, <2>4
    <3>2. UNCHANGED <<sync, fence_val>> /\ ~ ListHeld'
      BY <1>1, <2>1
    <3>3. \A a : ~ Open(a)'
      BY <1>1 DEF Open
    <3> QED BY <2>2, <2>4, <2>7, <3>1, <3>2, <3>3 DEF QueueInv
  <2> QED BY <2>8, <2>9 DEF QuInv
<1>5. CASE CreateAllocator
  <2>1. /\ ctxAlloc = NoAlloc /\ queue' = queue
        /\ numAllocs' = numAllocs + 1 /\ ctxAlloc' = numAllocs + 1
        /\ sync' = [sync EXCEPT ![numAllocs + 1] = SyncPoint("Frame", completed["Frame"])]
    BY <1>5 DEF CreateAllocator
  <2>2. \A i \in 1 .. n : queue[i] <= numAllocs /\ queue[i] \in Int /\ numAllocs \in Nat
    BY AllocFactsHold DEF AllocFacts, Created
  <2>3. /\ \A i \in 1 .. n : sync'[queue[i]] = sync[queue[i]]
        /\ \A a \in Allocs : sync'[a].fence = "CommandList" => sync'[a] = sync[a]
    BY <1>2, <2>1, <2>2, AllocFactsHold DEF AllocFacts, SyncPoint
  <2>4. OwnInv'
    <3>1. \A a \in 1 .. numAllocs : \E i \in 1 .. n : queue[i] = a
      <4>1. \A a \in 1 .. numAllocs : a # NoAlloc
        BY DEF NoAlloc
      <4> QED BY <2>1, <4>1 DEF QuInv, OwnInv
    <3>2. \A a \in 1 .. numAllocs + 1 : a \in 1 .. numAllocs \/ a = numAllocs + 1
      BY AllocFactsHold DEF AllocFacts
    <3>3. \A i \in 1 .. n : queue[i] # numAllocs + 1
      BY <2>2
    <3> QED BY <1>1, <2>1, <3>1, <3>2, <3>3 DEF QuInv, OwnInv
  <2>5. QueueInv'
    BY <1>1, <2>1, <2>3 DEF QuInv, QueueInv, Open
  <2> QED BY <2>4, <2>5 DEF QuInv
<1> QED BY <1>3, <1>4, <1>5 DEF ObtainAllocator

LEMMA QueueStep ==
  TypeInv /\ Created /\ WaitOrder /\ QuInv /\ [Next]_vars => QuInv'
<1> SUFFICES ASSUME TypeInv, Created, WaitOrder, QuInv, [Next]_vars PROVE QuInv'
  OBVIOUS
<1> USE Domains
<1>0. /\ fence_val \in [Fences -> Nat] /\ "open" \in Places /\ "frame" \in Places
      /\ "executed" \in Places /\ "idle" \in Places
  BY DEF TypeInv, TypeOK, FenceType, Places, FencePlaces
<1>1. ASSUME UNCHANGED <<queue, ctxAlloc, numAllocs, listAlloc, sync>>,
             ListHeld' <=> ListHeld,
             fence_val' = fence_val \/ \E f \in Fences : IncrementFence(f)
      PROVE  QuInv'
  <2>1. fence_val["CommandList"] <= fence_val'["CommandList"]
        /\ fence_val'["CommandList"] \in Nat
    BY <1>0, <1>1 DEF IncrementFence
  <2> QED BY <1>1, <2>1, QueueQuiet
<1>2. CASE GpuStep \/ UNCHANGED vars
  BY <1>1, <1>2 DEF GpuStep, GpuExecute, GpuSignal, vars, fenceVars, allocVars, listVars,
                    callVars, ListHeld
<1>3. ASSUME NEW t \in Threads, FenceStep(t) PROVE QuInv'
  <2>1. fence_val' = fence_val \/ \E f \in Fences : IncrementFence(f)
    BY <1>3 DEF FenceStep, SignalFence, FinishSignal, WaitCheck, WaitArm, WaitWake,
                fenceVars
  <2> QED BY <1>1, <1>3, <2>1, FenceHeld DEF allocVars, listVars
<1>4. CASE TrackAndRelease
  BY <1>4, QueueTrack
<1>5. CASE ObtainAllocator
  BY <1>5, QueueObtain
<1>6. CASE ObtainCommandList
  <2>1. /\ UNCHANGED <<queue, ctxAlloc, numAllocs, sync, fence_val>>
        /\ listAlloc' = ctxAlloc
    BY <1>6 DEF ObtainCommandList, fenceVars
  <2>2. ~ ListHeld
    BY <1>6, HeldFacts
  <2>3. \A i \in 1 .. Len(queue) : ~ Open(queue[i]) /\ ~ Open(queue[i])'
    BY <2>1, <2>2 DEF Open, QuInv, OwnInv
  <2>4. OwnInv'
    BY <2>1 DEF QuInv, OwnInv
  <2>5. QueueInv'
    BY <2>1, <2>3 DEF QuInv, QueueInv
  <2> QED BY <2>4, <2>5 DEF QuInv
<1>7. CASE AdvanceFrameFence
  <2>1. ListHeld' <=> ListHeld
    <3>1. /\ pc[Render] = "frame" /\ Goto(Render, "open") /\ mode' = mode
      BY <1>7 DEF AdvanceFrameFence
    <3>2. mode # "destroy"
      BY <3>1, HeldFacts DEF FencePlaces
    <3> QED BY <1>0, <3>1, <3>2, HeldKept
  <2> QED BY <1>1, <1>7, <2>1 DEF AdvanceFrameFence, allocVars, listVars
<1>8. CASE EndFrame \/ \E wait \in BOOLEAN : FlushCommands(wait)
  <2>1. ListHeld /\ ListHeld'
    <3>1. /\ pc[Render] = "open"
          /\ \E place \in {"executed", "frame"} : Goto(Render, place)
      BY <1>8 DEF EndFrame, FlushCommands, CloseAndExecute
    <3>2. pc'[Render] \in {"executed", "frame"}
      BY <3>1 DEF Goto, TypeInv, TypeOK, ThreadType
    <3> QED BY <3>1, <3>2 DEF ListHeld
  <2>2. CASE EndFrame
    <3>1. UNCHANGED <<numAllocs, listAlloc, sync, fence_val>> /\ ReleaseCommandAllocator
      BY <2>2 DEF EndFrame, CloseAndExecute, listVars, fenceVars
    <3> QED BY <2>1, <3>1, QueueRelease
  <2>3. CASE \E wait \in BOOLEAN : FlushCommands(wait)
    BY <1>1, <2>1, <2>3 DEF FlushCommands, CloseAndExecute, allocVars, fenceVars
  <2> QED BY <1>8, <2>2, <2>3
<1>9. CASE Record \/ \E g \in 1 .. curGen : QueryGeneration(g)
  BY <1>1, <1>9 DEF Record, QueryGeneration, allocVars, listVars, fenceVars, callVars,
                    ListHeld
<1>10. CASE Destroy \/ DestroyFinish
  <2>1. ListHeld /\ ListHeld'
    BY <1>10 DEF Destroy, DestroyFinish, callVars, ListHeld
  <2> QED BY <1>1, <1>10, <2>1 DEF Destroy, DestroyFinish, allocVars, listVars, fenceVars
<1>11. ASSUME NEW l \in Loaders, CommitExecute(l) \/ CommitReset(l) PROVE QuInv'
  <2>1. pc'[Render] = pc[Render] /\ mode' = mode
    BY <1>11 DEF CommitExecute, CommitReset, Goto, callVars, TypeInv, TypeOK, ThreadType
  <2>2. ListHeld' <=> ListHeld
    BY <2>1 DEF ListHeld
  <2> QED BY <1>1, <1>11, <2>2 DEF CommitExecute, CommitReset, allocVars, listVars,
             fenceVars
<1> QED BY <1>2, <1>3, <1>4, <1>5, <1>6, <1>7, <1>8, <1>9, <1>10, <1>11
        DEF Next, Continue, RenderCall, Terminated
-----------------------------------------------------------------------------
(* The last signal *)

LEMMA EnqueueFacts ==
  ASSUME TypeInv, NEW f \in Fences, NEW op \in {"exec", "signal"},
         NEW a \in 0 .. MaxAllocs, NEW e \in Nat, Enqueue(op, f, a, e)
  PROVE  /\ Len(todo) \in Nat /\ Len(todo') = Len(todo) + 1 /\ completed' = completed
         /\ \A i \in 1 .. Len(todo) : todo'[i] = todo[i]
         /\ todo'[Len(todo) + 1] = [op |-> op, fence |-> f, alloc |-> a, epoch |-> e,
                                    val |-> fence_val[f]]
<1>1. [op |-> op, fence |-> f, alloc |-> a, epoch |-> e, val |-> fence_val[f]] \in Items
  BY NumberFacts DEF Items
<1> QED BY <1>1 DEF Enqueue, TypeInv, TypeOK, GpuType

LEMMA TailFacts ==
  ASSUME TypeInv, GpuStep
  PROVE  /\ Len(todo) \in Nat /\ Len(todo) > 0 /\ Len(todo') = Len(todo) - 1
         /\ \A i \in 1 .. Len(todo) - 1 : todo'[i] = todo[i + 1]
         /\ Head(todo) = todo[1] /\ 1 \in 1 .. Len(todo)
         /\ UNCHANGED <<fenceVars, allocVars, listVars, callVars, pc, signaled>>
<1>1. todo \in Seq(Items) /\ todo # <<>> /\ todo' = Tail(todo)
  BY DEF GpuStep, GpuExecute, GpuSignal, TypeInv, TypeOK, GpuType
<1>2. UNCHANGED <<fenceVars, allocVars, listVars, callVars, pc, signaled>>
  BY DEF GpuStep, GpuExecute, GpuSignal
<1> QED BY <1>1, <1>2

LEMMA DestroyStep ==
  TypeInv /\ OrderInv /\ WaitOrder /\ DestroyInv /\ [Next]_vars => DestroyInv'
<1> SUFFICES ASSUME TypeInv, OrderInv, WaitOrder, DestroyInv, [Next]_vars
             PROVE  DestroyInv'
  OBVIOUS
<1> USE Domains
<1>1. ASSUME UNCHANGED <<todo, mode, pc, signaled>> PROVE DestroyInv'
  BY <1>1 DEF DestroyInv
<1>2. ASSUME mode' # "destroy" PROVE DestroyInv'
  BY <1>2 DEF DestroyInv
<1>0. pc \in [Threads -> Places] /\ signaled \in [Threads -> Nat]
  BY DEF TypeInv, TypeOK, ThreadType
<1>3. CASE GpuStep
  <2>1. UNCHANGED <<mode, pc, signaled>>
    BY <1>3, TailFacts DEF callVars
  <2>2. \A i \in 1 .. Len(todo') : i = Len(todo') =>
          todo'[i] = todo[i + 1] /\ i + 1 = Len(todo) /\ i + 1 \in 1 .. Len(todo)
    BY <1>3, TailFacts
  <2>3. todo # <<>>
    BY <1>3 DEF GpuStep, GpuExecute, GpuSignal
  <2> QED BY <2>1, <2>2, <2>3 DEF DestroyInv
<1>4. ASSUME NEW t \in Threads, FenceStep(t), mode = "destroy" PROVE DestroyInv'
  <2>1. t = Render
    BY <1>4 DEF FenceStep, SignalFence, FinishSignal, WaitCheck, WaitArm, WaitWake,
                DestroyInv, Threads
  <2>2. mode' = mode
    BY <1>4 DEF FenceStep, SignalFence, FinishSignal, WaitCheck, WaitArm, WaitWake,
                callVars
  <2>3. CASE SignalFence(Render)
    <3>1. /\ Enqueue("signal", "CommandList", ResAlloc, 0)
          /\ signaled' = [signaled EXCEPT ![Render] = fence_val["CommandList"]]
          /\ pc' = [pc EXCEPT ![Render] = "signalled"]
      BY <2>3 DEF SignalFence, Goto
    <3>2. /\ pc'[Render] = "signalled" /\ \A l \in Loaders : pc'[l] = pc[l]
          /\ signaled'[Render] = fence_val["CommandList"]
      BY <1>0, <3>1
    <3>3. /\ Len(todo') = Len(todo) + 1
          /\ todo'[Len(todo) + 1] = [op |-> "signal", fence |-> "CommandList",
               alloc |-> ResAlloc, epoch |-> 0, val |-> fence_val["CommandList"]]
      BY <3>1, EnqueueFacts
    <3> QED BY <1>4, <3>2, <3>3 DEF DestroyInv
  <2>4. CASE FinishSignal(Render) \/ WaitCheck(Render) \/ WaitArm(Render)
             \/ WaitWake(Render)
    <3>1. /\ UNCHANGED <<todo, signaled>>
          /\ pc[Render] # "executed"
          /\ \E place \in {"check", "waited", "arm", "waiting"} :
               pc' = [pc EXCEPT ![Render] = place]
      BY <2>4 DEF FinishSignal, WaitCheck, WaitArm, WaitWake, gpuVars, Goto
    <3>2. pc'[Render] # "destroyed" /\ \A l \in Loaders : pc'[l] = pc[l]
      BY <1>0, <3>1
    <3> QED BY <1>4, <3>1, <3>2 DEF DestroyInv
  <2> QED BY <1>4, <2>1, <2>3, <2>4 DEF FenceStep
<1>5. ASSUME NEW t \in Threads, FenceStep(t) PROVE DestroyInv'
  <2>1. mode' = mode
    BY <1>5 DEF FenceStep, SignalFence, FinishSignal, WaitCheck, WaitArm, WaitWake,
                callVars
  <2> QED BY <1>2, <1>4, <1>5, <2>1
<1>6. CASE TrackAndRelease \/ ObtainAllocator \/ ObtainCommandList \/ AdvanceFrameFence
  <2>1. mode' = mode /\ mode # "destroy"
    BY <1>6, HeldFacts DEF TrackAndRelease, ObtainAllocator, ObtainCommandList,
       AdvanceFrameFence, callVars, FencePlaces, ListHeld
  <2> QED BY <1>2, <2>1
<1>7. CASE EndFrame \/ \E wait \in BOOLEAN : FlushCommands(wait)
  <2>1. mode' # "destroy"
    <3>1. mode # "destroy"
      BY <1>7, HeldFacts DEF EndFrame, FlushCommands, FencePlaces
    <3> QED BY <1>7, <3>1 DEF EndFrame, FlushCommands, CloseAndExecute
  <2> QED BY <1>2, <2>1
<1>8. CASE Record \/ UNCHANGED vars \/ \E g \in 1 .. curGen : QueryGeneration(g)
  BY <1>1, <1>8 DEF Record, QueryGeneration, vars, gpuVars, callVars
<1>9. CASE Destroy
  <2>1. /\ MutexFree /\ pc' = [pc EXCEPT ![Render] = "executed"]
    BY <1>9 DEF Destroy, FlushBegin, Goto
  <2> QED BY <1>0, <2>1 DEF DestroyInv, MutexFree
<1>10. CASE DestroyFinish
  <2>1. /\ UNCHANGED <<todo, mode, signaled>> /\ mode = "destroy"
        /\ pc[Render] = "waited" /\ pc' = [pc EXCEPT ![Render] = "destroyed"]
    BY <1>10 DEF DestroyFinish, gpuVars, callVars, Goto
  <2>2. todo = <<>>
    <3>1. SUFFICES ASSUME todo # <<>> PROVE FALSE
      OBVIOUS
    <3>2. Len(todo) \in 1 .. Len(todo)
      BY <3>1 DEF TypeInv, TypeOK, GpuType
    <3>3. /\ todo[Len(todo)].fence = "CommandList"
          /\ todo[Len(todo)].val = signaled[Render]
      BY <2>1, <3>2 DEF DestroyInv
    <3>4. completed["CommandList"] < signaled[Render]
      BY <3>2, <3>3 DEF OrderInv, ItemOrder
    <3>5. signaled[Render] <= completed["CommandList"]
      BY <2>1 DEF WaitOrder
    <3> QED BY <1>0, <3>4, <3>5, NumberFacts
  <2>3. \A l \in Loaders : pc'[l] = pc[l]
    BY <1>0, <2>1
  <2> QED BY <2>1, <2>2, <2>3 DEF DestroyInv
<1>11. ASSUME NEW l \in Loaders, CommitExecute(l) \/ CommitReset(l) PROVE DestroyInv'
  <2>1. mode' = mode /\ (mode = "destroy" => pc[l] = "idle")
    BY <1>11 DEF CommitExecute, CommitReset, callVars, DestroyInv
  <2>2. mode # "destroy"
    BY <1>11, <2>1 DEF CommitExecute, CommitReset
  <2> QED BY <1>2, <2>1, <2>2
<1> QED BY <1>3, <1>5, <1>6, <1>7, <1>8, <1>9, <1>10, <1>11
        DEF Next, Continue, RenderCall, Terminated
LEMMA EndStep == TypeInv /\ EndInv /\ [Next]_vars => EndInv'
<1> SUFFICES ASSUME TypeInv, EndInv, [Next]_vars, pc'[Render] = "destroyed"
             PROVE  mode' = "destroy"
  BY DEF EndInv
<1> USE Domains
<1>0. pc \in [Threads -> Places]
  BY DEF TypeInv, TypeOK, ThreadType
<1>1. CASE GpuStep \/ Record \/ UNCHANGED vars \/ \E g \in 1 .. curGen : QueryGeneration(g)
  BY <1>1 DEF GpuStep, GpuExecute, GpuSignal, Record, QueryGeneration, vars, callVars,
              EndInv
<1>2. ASSUME NEW t \in Threads, FenceStep(t) PROVE mode' = "destroy"
  <2>1. mode' = mode /\ \E place \in FencePlaces : pc' = [pc EXCEPT ![t] = place]
    BY <1>2 DEF FenceStep, SignalFence, FinishSignal, WaitCheck, WaitArm, WaitWake, Goto,
                callVars, FencePlaces
  <2>2. t # Render
    BY <1>0, <2>1 DEF FencePlaces
  <2> QED BY <1>0, <2>1, <2>2 DEF EndInv
<1>3. CASE TrackAndRelease \/ ObtainAllocator \/ ObtainCommandList \/ AdvanceFrameFence
           \/ EndFrame \/ \E wait \in BOOLEAN : FlushCommands(wait)
  <2>1. \E place \in {"check", "reopen", "listless", "frame", "open", "executed"} :
          pc' = [pc EXCEPT ![Render] = place]
    BY <1>3 DEF TrackAndRelease, ObtainAllocator, ObtainCommandList, AdvanceFrameFence,
                EndFrame, FlushCommands, CloseAndExecute, Goto
  <2> QED BY <1>0, <2>1
<1>4. CASE Destroy \/ DestroyFinish
  BY <1>4 DEF Destroy, DestroyFinish, callVars
<1>5. ASSUME NEW l \in Loaders, CommitExecute(l) \/ CommitReset(l)
      PROVE  mode' = "destroy"
  <2>1. mode' = mode /\ pc'[Render] = pc[Render]
    BY <1>0, <1>5 DEF CommitExecute, CommitReset, Goto, callVars
  <2> QED BY <2>1 DEF EndInv
<1> QED BY <1>1, <1>2, <1>3, <1>4, <1>5 DEF Next, Continue, RenderCall, Terminated
-----------------------------------------------------------------------------
(* The command timeline *)

\* The batch the CPU is recording, as the instance of CommandTimeline has it
OpenBatch == IF pc[Render] = "signalled" THEN signaled[Render] + 1
                                         ELSE fence_val["CommandList"]

SignalIn(items, v) ==
  \E i \in 1 .. Len(items) :
    items[i].op = "signal" /\ items[i].fence = "CommandList" /\ items[i].val = v

(* No batch is skipped: the signal of each one that was submitted and has not *)
(* finished is in the queue.                                                *)
RunInv ==
  \A v \in Nat : completed["CommandList"] < v /\ v < OpenBatch => SignalIn(todo, v)

\* What a step other than the GPU's does to the open batch and the queue
Submits ==
  /\ OpenBatch' = OpenBatch + 1
  /\ completed' = completed
  /\ SignalIn(todo', OpenBatch) /\ OpenBatch' \in Nat /\ OpenBatch \in Nat
  /\ Len(todo') \in Nat /\ Len(todo) \in Nat /\ Len(todo) <= Len(todo')
  /\ \A i \in 1 .. Len(todo) : todo'[i] = todo[i]

Stays ==
  /\ OpenBatch' = OpenBatch
  /\ completed' = completed
  /\ Len(todo') \in Nat /\ Len(todo) \in Nat /\ Len(todo) <= Len(todo')
  /\ \A i \in 1 .. Len(todo) : todo'[i] = todo[i]

LEMMA RunKept == RunInv /\ (Submits \/ Stays) => RunInv'
<1> SUFFICES ASSUME RunInv, Submits \/ Stays PROVE RunInv'
  OBVIOUS
<1>1. \A v \in Nat : SignalIn(todo, v) => SignalIn(todo', v)
  BY DEF SignalIn, Submits, Stays
<1> SUFFICES ASSUME NEW v \in Nat, completed'["CommandList"] < v, v < OpenBatch'
             PROVE  SignalIn(todo', v)
  BY DEF RunInv
<1> HIDE DEF OpenBatch
<1>2. CASE v < OpenBatch
  BY <1>1, <1>2 DEF RunInv, Submits, Stays
<1>3. CASE ~ v < OpenBatch
  <2>1. Submits /\ v = OpenBatch
    BY <1>3 DEF Submits, Stays
  <2> QED BY <2>1 DEF Submits, SignalIn
<1> QED BY <1>2, <1>3

\* Every step of a thread submits a batch or leaves the timeline alone
LEMMA ThreadTimeline ==
  ASSUME TypeInv, WaitOrder, [Next]_vars, ~ GpuStep
  PROVE  Submits \/ Stays
<1> USE Domains
<1>0. /\ pc \in [Threads -> Places] /\ signaled \in [Threads -> Nat]
      /\ fence_val \in [Fences -> Nat] /\ Len(todo) \in Nat /\ ResAlloc \in Nat
  BY LenProperties
     DEF TypeInv, TypeOK, ThreadType, FenceType, GpuType, ResAlloc
<1>1. ASSUME UNCHANGED <<todo, completed>>, OpenBatch' = OpenBatch PROVE Stays
  BY <1>0, <1>1 DEF Stays
<1>2. ASSUME NEW f \in Fences, NEW op \in {"exec", "signal"},
             NEW a \in 0 .. MaxAllocs, NEW e \in Nat, Enqueue(op, f, a, e),
             OpenBatch' = OpenBatch
      PROVE  Stays
  <2>1. /\ Len(todo) \in Nat /\ Len(todo') = Len(todo) + 1 /\ completed' = completed
        /\ \A i \in 1 .. Len(todo) : todo'[i] = todo[i]
    BY <1>2, EnqueueFacts
  <2> QED BY <1>2, <2>1 DEF Stays
<1>3. ASSUME UNCHANGED fence_val, pc[Render] # "signalled", pc'[Render] # "signalled"
      PROVE  OpenBatch' = OpenBatch
  BY <1>3 DEF OpenBatch
<1>4. ASSUME UNCHANGED signaled, UNCHANGED fence_val, pc'[Render] = pc[Render]
      PROVE  OpenBatch' = OpenBatch
  BY <1>4 DEF OpenBatch
<1>5. ASSUME NEW t \in Threads, SignalFence(t) PROVE Submits \/ Stays
  <2>1. /\ pc[t] = "executed" /\ pc' = [pc EXCEPT ![t] = "signalled"]
        /\ signaled' = [signaled EXCEPT ![t] = fence_val[FenceOf(t)]]
        /\ fence_val' = fence_val /\ Enqueue("signal", FenceOf(t), ResAlloc, 0)
    BY <1>5 DEF SignalFence, Goto, fenceVars
  <2>2. CASE t = Render
    <3>1. OpenBatch' = OpenBatch + 1 /\ OpenBatch = fence_val["CommandList"]
      BY <1>0, <2>1, <2>2 DEF OpenBatch
    <3>2. fence_val["CommandList"] \in Nat
      BY <1>0
    <3>3. /\ completed' = completed /\ Len(todo') = Len(todo) + 1
          /\ \A i \in 1 .. Len(todo) : todo'[i] = todo[i]
          /\ todo'[Len(todo) + 1] = [op |-> "signal", fence |-> "CommandList",
               alloc |-> ResAlloc, epoch |-> 0, val |-> fence_val["CommandList"]]
      BY <2>1, <2>2, EnqueueFacts
    <3>4. \E i \in 1 .. Len(todo') : /\ todo'[i].op = "signal"
                                    /\ todo'[i].fence = "CommandList"
                                    /\ todo'[i].val = fence_val["CommandList"]
      <4>1. Len(todo) + 1 \in 1 .. Len(todo')
        BY <1>0, <3>3
      <4> QED BY <3>3, <4>1
    <3>5. SignalIn(todo', OpenBatch)
      <4> HIDE DEF OpenBatch
      <4> QED BY <2>1, <2>2, <3>1, <3>2, <3>3, <3>4 DEF SignalIn
    <3> QED BY <1>0, <3>1, <3>2, <3>3, <3>5 DEF Submits
  <2>3. CASE t # Render
    <3>1. pc'[Render] = pc[Render] /\ signaled'[Render] = signaled[Render]
      BY <1>0, <2>1, <2>3
    <3>2. OpenBatch' = OpenBatch
      BY <2>1, <3>1 DEF OpenBatch
    <3> QED BY <1>2, <2>1, <3>2
  <2> QED BY <2>2, <2>3
<1>6. ASSUME NEW t \in Threads, FenceStep(t) PROVE Submits \/ Stays
  <2>1. CASE FinishSignal(t)
    <3>1. /\ pc[t] = "signalled" /\ pc' = [pc EXCEPT ![t] = "check"]
          /\ UNCHANGED <<signaled, todo, completed>>
          /\ fence_val' = [fence_val EXCEPT ![FenceOf(t)] = @ + 1]
      BY <2>1 DEF FinishSignal, Goto, IncrementFence, gpuVars
    <3>2. CASE t = Render
      <4>1. signaled[Render] = fence_val["CommandList"]
        BY <3>1, <3>2 DEF WaitOrder
      <4>2. OpenBatch' = OpenBatch
        BY <1>0, <3>1, <3>2, <4>1 DEF OpenBatch
      <4> QED BY <1>1, <3>1, <4>2
    <3>3. CASE t # Render
      <4>1. OpenBatch' = OpenBatch
        BY <1>0, <3>1, <3>3 DEF OpenBatch, FenceOf
      <4> QED BY <1>1, <3>1, <4>1
    <3> QED BY <3>2, <3>3
  <2>2. CASE WaitCheck(t) \/ WaitArm(t) \/ WaitWake(t)
    <3>1. /\ UNCHANGED <<fence_val, signaled, todo, completed>> /\ pc[t] # "signalled"
          /\ \E place \in {"waited", "arm", "waiting"} : pc' = [pc EXCEPT ![t] = place]
      BY <2>2 DEF WaitCheck, WaitArm, WaitWake, gpuVars, fenceVars, Goto
    <3>2. OpenBatch' = OpenBatch
      BY <1>0, <3>1 DEF OpenBatch
    <3> QED BY <1>1, <3>1, <3>2
  <2> QED BY <1>5, <1>6, <2>1, <2>2 DEF FenceStep
<1>7. CASE TrackAndRelease
  <2>1. /\ pc[Render] = "signalled" /\ UNCHANGED <<signaled, todo, completed>>
        /\ \E place \in {"check", "reopen"} : pc' = [pc EXCEPT ![Render] = place]
        /\ fence_val' = [fence_val EXCEPT !["CommandList"] = @ + 1]
    BY <1>7 DEF TrackAndRelease, Goto, IncrementFence, gpuVars
  <2>2. signaled[Render] = fence_val["CommandList"]
    BY <2>1 DEF WaitOrder
  <2>3. OpenBatch' = OpenBatch
    BY <1>0, <2>1, <2>2 DEF OpenBatch
  <2> QED BY <1>1, <2>1, <2>3
<1>8. CASE ObtainAllocator \/ ObtainCommandList \/ DestroyFinish \/ Destroy
  <2>1. /\ UNCHANGED <<todo, completed, fence_val>> /\ pc[Render] # "signalled"
        /\ \E place \in {"listless", "frame", "open", "destroyed", "executed"} :
             pc' = [pc EXCEPT ![Render] = place]
    BY <1>8 DEF ObtainAllocator, ObtainCommandList, DestroyFinish, Destroy, FlushBegin,
                gpuVars, fenceVars, Goto
  <2> QED BY <1>0, <1>1, <1>3, <2>1
<1>9. CASE AdvanceFrameFence
  <2>1. /\ Enqueue("signal", "Frame", ResAlloc, 0)
        /\ fence_val' = [fence_val EXCEPT !["Frame"] = @ + 1]
        /\ pc[Render] = "frame" /\ pc' = [pc EXCEPT ![Render] = "open"]
    BY <1>9 DEF AdvanceFrameFence, IncrementFence, Goto
  <2>2. OpenBatch' = OpenBatch
    BY <1>0, <2>1 DEF OpenBatch
  <2> QED BY <1>2, <2>1, <2>2
<1>10. CASE EndFrame \/ \E wait \in BOOLEAN : FlushCommands(wait)
  <2>1. listAlloc \in 0 .. MaxAllocs /\ listEpoch \in Nat
    BY DEF TypeInv, TypeOK, ListType
  <2>2. /\ fence_val' = fence_val /\ pc[Render] = "open"
        /\ \E place \in {"frame", "executed"} : pc' = [pc EXCEPT ![Render] = place]
        /\ \/ UNCHANGED <<todo, completed>>
           \/ Enqueue("exec", "CommandList", listAlloc, listEpoch)
    BY <1>10 DEF EndFrame, FlushCommands, CloseAndExecute, gpuVars, fenceVars, Goto
  <2>3. OpenBatch' = OpenBatch
    BY <1>0, <1>3, <2>2
  <2> QED BY <1>1, <1>2, <2>1, <2>2, <2>3
<1>11. CASE Record \/ UNCHANGED vars \/ \E g \in 1 .. curGen : QueryGeneration(g)
  BY <1>1, <1>4, <1>11 DEF Record, QueryGeneration, vars, gpuVars, fenceVars
<1>12. ASSUME NEW l \in Loaders, CommitExecute(l) \/ CommitReset(l) PROVE Stays
  <2>1. epoch[ResAlloc] \in Nat
    BY DEF TypeInv, TypeOK, AllocType
  <2>2. /\ UNCHANGED <<fence_val, signaled>> /\ pc'[Render] = pc[Render]
        /\ \/ UNCHANGED <<todo, completed>>
           \/ Enqueue("exec", "Resource", ResAlloc, epoch[ResAlloc])
    BY <1>0, <1>12 DEF CommitExecute, CommitReset, gpuVars, fenceVars, Goto
  <2> QED BY <1>1, <1>2, <1>4, <2>1, <2>2
<1> QED BY <1>6, <1>7, <1>8, <1>9, <1>10, <1>11, <1>12
        DEF Next, Continue, RenderCall, Terminated

\* The GPU finishes the next batch, or does nothing the timeline knows of
LEMMA GpuTimeline ==
  ASSUME TypeInv, OrderInv, WaitOrder, RunInv, GpuStep
  PROVE  /\ OpenBatch' = OpenBatch /\ RunInv'
         /\ \/ completed'["CommandList"] = completed["CommandList"]
            \/ /\ completed'["CommandList"] = completed["CommandList"] + 1
               /\ completed["CommandList"] + 1 < OpenBatch
<1> DEFINE n == Len(todo)
           c == completed["CommandList"]
           c1 == completed'["CommandList"]
<1> USE Domains
<1>1. OpenBatch' = OpenBatch
  BY TailFacts DEF OpenBatch, fenceVars
<1>2. /\ n \in Nat /\ 1 \in 1 .. n /\ Len(todo') = n - 1 /\ Head(todo) = todo[1]
      /\ \A i \in 1 .. n - 1 : todo'[i] = todo[i + 1]
  BY TailFacts
<1>3. /\ c \in Nat /\ completed \in [Fences -> Nat]
      /\ \A i \in 1 .. n : todo[i].val \in Nat /\ todo[i].fence \in Fences
  BY NumberFacts, ItemFacts DEF TypeInv, TypeOK, GpuType
<1>4. CASE /\ GpuSignal /\ todo[1].fence = "CommandList" /\ todo[1].op = "signal"
  <2>1. c1 = todo[1].val /\ c < c1 /\ c1 \in Nat
    BY <1>2, <1>3, <1>4 DEF GpuSignal, OrderInv, ItemOrder
  <2>2. c1 < OpenBatch
    <3>1. /\ c1 <= fence_val["CommandList"] /\ fence_val["CommandList"] \in Nat
          /\ c1 = fence_val["CommandList"] => "CommandList" \in Signalling
      BY <1>2, <1>4, <2>1, NumberFacts DEF OrderInv, ItemOrder
    <3>2. "CommandList" \in Signalling => pc[Render] = "signalled"
      BY DEF Signalling, Threads
    <3>3. pc[Render] = "signalled" => signaled[Render] = fence_val["CommandList"]
      BY DEF WaitOrder
    <3> QED BY <2>1, <3>1, <3>2, <3>3 DEF OpenBatch
  <2>3. \A j \in 1 .. n : 1 < j /\ todo[j].fence = "CommandList" => c1 < todo[j].val
    BY <1>2, <1>4, <2>1 DEF OrderInv, ItemOrder
  <2>4. OpenBatch \in Nat
    BY NumberFacts DEF OpenBatch, TypeInv, TypeOK, ThreadType
  <2> HIDE DEF n, c, c1, OpenBatch
  <2>5. c1 = c + 1
    <3>1. SUFFICES ASSUME c + 1 < c1 PROVE FALSE
      BY <1>3, <2>1
    <3>2. PICK i \in 1 .. n : todo[i].fence = "CommandList" /\ todo[i].val = c + 1
      <4>1. c + 1 \in Nat /\ c < c + 1 /\ c + 1 < OpenBatch
        BY <1>3, <2>1, <2>2, <2>4, <3>1
      <4>2. SignalIn(todo, c + 1)
        BY <4>1 DEF RunInv, c
      <4> QED BY <4>2 DEF SignalIn, n
    <3>3. i # 1 /\ 1 < i
      BY <1>2, <1>3, <2>1, <3>1, <3>2
    <3> QED BY <1>3, <2>1, <2>3, <3>1, <3>2, <3>3
  <2>6. ASSUME NEW v \in Nat, c1 < v, v < OpenBatch PROVE SignalIn(todo', v)
    <3>1. SignalIn(todo, v)
      BY <1>3, <2>1, <2>6 DEF RunInv, c
    <3>2. PICK i \in 1 .. n : /\ todo[i].op = "signal" /\ todo[i].val = v
                              /\ todo[i].fence = "CommandList"
      BY <3>1 DEF SignalIn, n
    <3>3. i # 1
      BY <2>1, <2>6, <3>2
    <3>4. i - 1 \in 1 .. n - 1 /\ (i - 1) + 1 = i
      BY <1>2, <3>3
    <3> QED BY <1>2, <3>2, <3>4 DEF SignalIn
  <2>7. RunInv'
    BY <1>1, <2>6 DEF RunInv, c1
  <2> QED BY <1>1, <2>2, <2>5, <2>7 DEF c, c1
<1>5. CASE ~ (GpuSignal /\ todo[1].fence = "CommandList" /\ todo[1].op = "signal")
  <2>1. c1 = c
    BY <1>2, <1>3, <1>5 DEF GpuStep, GpuExecute, GpuSignal
  <2>2. todo[1].op # "signal" \/ todo[1].fence # "CommandList"
    BY <1>2, <1>5 DEF GpuStep, GpuExecute
  <2>3. ASSUME NEW v \in Nat, c1 < v, v < OpenBatch' PROVE SignalIn(todo', v)
    <3>1. SignalIn(todo, v)
      BY <1>1, <2>1, <2>3 DEF RunInv
    <3>2. PICK i \in 1 .. n : /\ todo[i].op = "signal" /\ todo[i].val = v
                              /\ todo[i].fence = "CommandList"
      BY <3>1 DEF SignalIn
    <3>3. i # 1
      BY <2>2, <3>2
    <3>4. i - 1 \in 1 .. n - 1 /\ (i - 1) + 1 = i
      BY <1>2, <3>3
    <3> HIDE DEF n
    <3> QED BY <1>2, <3>2, <3>4 DEF SignalIn
  <2>4. RunInv'
    BY <2>3 DEF RunInv
  <2>5. completed'["CommandList"] = completed["CommandList"]
    BY <2>1
  <2> QED BY <1>1, <2>4, <2>5, Zenon
<1> QED BY <1>4, <1>5
-----------------------------------------------------------------------------
QInv == IInv /\ GenInv /\ QuInv /\ DestroyInv /\ EndInv /\ RunInv

LEMMA InitQInv == Init => QInv
<1> SUFFICES ASSUME Init PROVE QInv
  OBVIOUS
<1>1. IInv
  BY InitIInv
<1> USE Domains DEF Init
<1>2. GenInv /\ DestroyInv /\ EndInv
  BY DEF GenInv, DestroyInv, EndInv
<1>3. QuInv
  BY DEF QuInv, OwnInv, QueueInv, SyncPoint, NoAlloc
<1>4. RunInv
  BY DEF RunInv, OpenBatch
<1> QED BY <1>1, <1>2, <1>3, <1>4 DEF QInv

\* The step from one state to the next, with its effect on the timeline
LEMMA QStep ==
  QInv /\ [Next]_vars => QInv' /\ [Timeline!Next]_(Timeline!vars)
<1> SUFFICES ASSUME QInv, [Next]_vars
             PROVE  QInv' /\ [Timeline!Next]_(Timeline!vars)
  OBVIOUS
<1>1. /\ TypeInv /\ Created /\ OrderInv /\ WaitOrder /\ GenInv /\ QuInv /\ DestroyInv
      /\ EndInv /\ RunInv /\ IInv
  BY DEF QInv, IInv, OrderInv
<1>2. IInv' /\ GenInv' /\ QuInv' /\ DestroyInv' /\ EndInv'
  BY <1>1, InvStep, GenStep, QueueStep, DestroyStep, EndStep
<1>3. CASE GpuStep
  <2>1. RunInv' /\ OpenBatch' = OpenBatch
    BY <1>1, <1>3, GpuTimeline
  <2>2. \/ completed'["CommandList"] = completed["CommandList"]
        \/ /\ completed'["CommandList"] = completed["CommandList"] + 1
           /\ completed["CommandList"] + 1 < OpenBatch
    BY <1>1, <1>3, GpuTimeline
  <2>3. [Timeline!Next]_(Timeline!vars)
    BY <2>1, <2>2 DEF Timeline!Next, Timeline!Finish, Timeline!vars, OpenBatch
  <2> QED BY <1>2, <2>1, <2>3 DEF QInv
<1>4. CASE ~ GpuStep
  <2>1. Submits \/ Stays
    BY <1>1, <1>4, ThreadTimeline
  <2>2. RunInv'
    BY <1>1, <2>1, RunKept
  <2>3. ASSUME Submits PROVE [Timeline!Next]_(Timeline!vars)
    <3>1. OpenBatch' = OpenBatch + 1 /\ completed' = completed
      BY <2>3 DEF Submits
    <3>2. completed'["CommandList"] = completed["CommandList"]
      BY <3>1
    <3> QED BY <3>1, <3>2 DEF Timeline!Next, Timeline!Submit, OpenBatch
  <2>4. ASSUME Stays PROVE [Timeline!Next]_(Timeline!vars)
    <3>1. OpenBatch' = OpenBatch /\ completed' = completed
      BY <2>4 DEF Stays
    <3>2. completed'["CommandList"] = completed["CommandList"]
      BY <3>1
    <3> QED BY <3>1, <3>2 DEF Timeline!vars, OpenBatch
  <2> QED BY <1>2, <2>1, <2>2, <2>3, <2>4 DEF QInv
<1> QED BY <1>3, <1>4

LEMMA QInvariance == Spec => []QInv
BY InitQInv, QStep, PTL DEF Spec

(* CommandListData::IsComplete answers for every generation exactly whether  *)
(* the GPU is past its batch, whatever has been cleaned up so far.            *)
THEOREM GenerationsExact == Spec => []GenerationExact
<1>1. QInv => GenerationExact
  <2> SUFFICES ASSUME QInv, NEW g \in 1 .. curGen
               PROVE  IsComplete(g) <=> g < curGen /\ g <= completed["CommandList"]
    BY DEF GenerationExact
  <2> DEFINE c == completed["CommandList"]
             n == Len(active)
  <2>1. TypeInv /\ OrderInv /\ GenInv
    BY DEF QInv, IInv, OrderInv
  <2>2. c \in Nat /\ n \in Nat /\ lastGen \in Nat /\ curGen \in Nat /\ g \in Nat
    BY <2>1, ListFacts, NumberFacts, Domains
  <2>3. curGen = lastGen + n + 1 /\ lastGen <= c
    BY <2>1 DEF GenInv
  <2>4. \A i \in 1 .. n : active[i].gen = lastGen + i
    BY <2>1 DEF GenInv
  <2>5. ASSUME NEW k \in 0 .. n
        PROVE  CleanupCount(k) <=> (k > 0 => lastGen + k <= c)
                                     /\ (k < n => c < lastGen + k + 1)
    BY <2>1, CleanupExact
  <2> DEFINE past == IF n <= c - lastGen THEN n ELSE c - lastGen
  <2> HIDE DEF c, n
  <2>6. /\ past \in 0 .. n
        /\ \A k \in 0 .. n : CleanupCount(k) <=> k = past
    <3>1. past \in 0 .. n
      BY <2>2, <2>3
    <3>2. ASSUME NEW k \in 0 .. n
          PROVE  (k > 0 => lastGen + k <= c) /\ (k < n => c < lastGen + k + 1)
                   <=> k = past
      BY <2>2, <2>3
    <3> QED BY <2>5, <3>1, <3>2
  <2>7. /\ \A k \in 1 .. n : active[k].gen = lastGen + k
        /\ past < n => active[past + 1].gen = lastGen + past + 1
    BY <2>2, <2>4, <2>6
  <2>8. IsComplete(g) <=>
          /\ g < curGen
          /\ \/ g <= lastGen
             \/ past > 0 /\ g <= active[past].gen
             \/ past = n
             \/ g < active[past + 1].gen
    <3> HIDE DEF past
    <3> QED BY <2>6 DEF IsComplete, n
  <2>9. past > 0 => active[past].gen = lastGen + past
    BY <2>2, <2>6, <2>7
  <2> QED BY <2>2, <2>3, <2>6, <2>7, <2>8, <2>9 DEF c
<1> QED BY <1>1, QInvariance, PTL

(* ObtainCommandAllocator misses no ready allocator by looking at the front   *)
(* of its queue only.                                                       *)
THEOREM FrontIsOldest == Spec => []QueueFrontOldest
<1>1. QInv => QueueFrontOldest
  <2> SUFFICES ASSUME QInv, NEW i \in DOMAIN queue, IsReady(queue[i])
               PROVE  IsReady(Head(queue))
    BY DEF QueueFrontOldest
  <2>1. TypeInv /\ OrderInv /\ QuInv /\ AllocFacts
    BY AllocFactsHold DEF QInv, IInv, OrderInv
  <2>2. /\ i \in 1 .. Len(queue) /\ 1 \in 1 .. Len(queue) /\ Head(queue) = queue[1]
        /\ Len(queue) \in Nat
    BY <2>1 DEF AllocFacts
  <2>3. CASE i = 1
    BY <2>2, <2>3
  <2>4. CASE i # 1
    <3> DEFINE a == queue[i]
               h == queue[1]
    <3>1. a \in Allocs /\ h \in Allocs
      BY <2>1, <2>2 DEF AllocFacts
    <3>2. PendingExact
      BY <2>1 DEF TypeInv
    <3>3. ~ Open(a) /\ ~ Open(h)
      <4>1. ~ Open(a)
        BY <3>1, <3>2 DEF IsReady, PendingExact, Open
      <4>2. Open(h) => 1 = Len(queue)
        BY <2>1, <2>2 DEF QuInv, QueueInv
      <4> QED BY <2>2, <2>4, <4>1, <4>2
    <3>4. /\ sync[a].fence = "CommandList" /\ sync[h].fence = "CommandList"
          /\ sync[h].val < sync[a].val
      <4>1. 1 < i
        BY <2>2, <2>4
      <4> QED BY <2>1, <2>2, <3>3, <4>1 DEF QuInv, QueueInv
    <3>5. /\ sync[a].val \in Nat /\ sync[h].val \in Nat /\ pending[h] = 0
          /\ completed["CommandList"] \in Nat
      BY <2>1, <3>1, <3>2, <3>3, NumberFacts, Domains
         DEF AllocFacts, PendingExact, Open
    <3>6. sync[a].val <= completed["CommandList"]
      BY <2>1, <3>4, <3>5, CompleteExact, Domains DEF IsReady
    <3>7. IsFenceComplete("CommandList", sync[h].val)
      <4>1. sync[h].val <= completed["CommandList"]
        BY <3>4, <3>5, <3>6
      <4> QED BY <2>1, <3>5, <4>1, CompleteExact, Domains
    <3> QED BY <2>2, <3>4, <3>5, <3>7 DEF IsReady
  <2> QED BY <2>3, <2>4
<1> QED BY <1>1, QInvariance, PTL

(* Every allocator created is the context's or queued exactly once, and only  *)
(* the one under the held list counts a pending list.                        *)
THEOREM NoAllocatorLost == Spec => []AllocatorsConserved
<1>1. QInv => AllocatorsConserved
  <2> SUFFICES ASSUME QInv, NEW a \in Allocs
               PROVE  LET places == {i \in DOMAIN queue : queue[i] = a}
                      IN /\ a <= numAllocs =>
                              \/ ctxAlloc = a /\ places = {}
                              \/ ctxAlloc # a /\ \E i \in places : places = {i}
                         /\ pending[a] = IF ListHeld /\ listAlloc = a THEN 1 ELSE 0
    BY DEF AllocatorsConserved
  <2>1. PendingExact /\ OwnInv /\ AllocFacts
    BY AllocFactsHold DEF QInv, IInv, TypeInv, QuInv
  <2>2. DOMAIN queue = 1 .. Len(queue)
    BY <2>1 DEF AllocFacts
  <2>3. a <= numAllocs => a \in 1 .. numAllocs
    BY <2>1 DEF AllocFacts, Allocs
  <2>4. \/ a = ctxAlloc /\ \A i \in DOMAIN queue : queue[i] # a
        \/ /\ a # ctxAlloc
           /\ a <= numAllocs => \E i \in DOMAIN queue : queue[i] = a
    BY <2>1, <2>2, <2>3 DEF OwnInv
  <2>5. \A i, j \in DOMAIN queue : queue[i] = a /\ queue[j] = a => i = j
    BY <2>1, <2>2 DEF OwnInv
  <2>6. pending[a] = IF ListHeld /\ listAlloc = a THEN 1 ELSE 0
    BY <2>1 DEF PendingExact
  <2> QED BY <2>4, <2>5, <2>6
<1> QED BY <1>1, QInvariance, PTL

(* CommandListManager::Destroy returns when the queue is drained.            *)
THEOREM DestroyDrains == Spec => []DestroyedIdle
<1>1. QInv => DestroyedIdle
  BY DEF QInv, DestroyInv, EndInv, DestroyedIdle
<1> QED BY <1>1, QInvariance, PTL

(* Submission implements the command timeline up to its fairness: batches are *)
(* submitted one by one and finish one by one, each after it was submitted.   *)
THEOREM ImplementsTimeline ==
  Spec => Timeline!Init /\ [][Timeline!Next]_(Timeline!vars)
<1>1. Init => Timeline!Init
  BY Domains DEF Init, Timeline!Init
<1> QED BY <1>1, InitQInv, QStep, PTL DEF Spec
=============================================================================
