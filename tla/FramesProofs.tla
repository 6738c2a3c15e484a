---------------------------- MODULE FramesProofs ----------------------------
(***************************************************************************)
(* Proofs about the parts of Frames, for any values of the constants.      *)
(*   Deferred deletion: a slot is taken for every present that was waited   *)
(* for, so the GPU is never more frames behind than the swap chain allows   *)
(* and waits timed out; and a batch that has waited for n flushes holds     *)
(* only objects that the last n presents have outlived.                     *)
(*   Pipelines and views (Binding), targets and buffers (Drawing): what     *)
(* was asked for is on the list, or a flag says that it has to be set.      *)
(*   Texture states (Barriers): the state after the batch is the tracked    *)
(* one, and the list has not left the GPU before a barrier is counted.      *)
(*   Tables in the online heaps (Tables): what reads the current heap or     *)
(* block is below its next slot, and what reads one in the pool was recorded *)
(* before that was left, so that a slot handed out again is read by nobody.  *)
(***************************************************************************)
EXTENDS Frames, FiniteSetTheorems, SequenceTheorems, TLAPS

Released == made \ Alive
Batches == DOMAIN deferredDeletionQueue

\* Slots and frames the GPU owes add up to what it was ever allowed
Ahead ==
  slots + unfinished =
    Latency + timeouts + Times(phase = "presented")

\* Whoever is queued or deleted has no owner; what was let go in this frame is
\* not in a batch yet
OwnersGone ==
  /\ pendingDeletes \subseteq Released \ deleted
  /\ deleted \subseteq Released
  /\ \A i \in Batches :
       deferredDeletionQueue[i].objects \subseteq Released \ pendingDeletes

\* The present of this frame is still to come
ToPresent == Times(phase = "ended")

\* The last use of what a batch holds is as many presents ago as it waited
UsedBefore(o, age) ==
  inUse[o] = 0 \/ inUse[o] + age <= unfinished + 1 + ToPresent
Aged(entry) ==
  /\ entry.frameDeleted < currentFrame
  /\ \A o \in entry.objects : UsedBefore(o, currentFrame - entry.frameDeleted)
BatchesAge == \A i \in Batches : Aged(deferredDeletionQueue[i])

UsesBounded == \A o \in Objects : inUse[o] <= unfinished + 1

\* The inductive invariant.
IInv ==
  /\ TypeOK
  /\ Ahead
  /\ OwnersGone
  /\ BatchesAge
  /\ UsesBounded
  /\ DeletedIdle

-----------------------------------------------------------------------------
\* A program starts with nothing made and the slots the swap chain allows.
LEMMA InitIInv == Init => IInv
  BY DeletionAssumption
  DEF Init, IInv, TypeOK, Ahead, OwnersGone, BatchesAge, UsesBounded,
      DeletedIdle, Batches, Times, Released, Alive, Batch

\* The fields of a batch.
LEMMA BatchFields ==
  ASSUME NEW entry \in Batch
  PROVE  entry.objects \subseteq Objects /\ entry.frameDeleted \in Nat
  BY DEF Batch

\* The elements of the queue are batches.
LEMMA QueueFields ==
  ASSUME NEW queue \in Seq(Batch), NEW i \in DOMAIN queue
  PROVE  queue[i].objects \subseteq Objects /\ queue[i].frameDeleted \in Nat
<1>1. queue[i] \in Batch
  OBVIOUS
<1> QED BY <1>1, BatchFields

\* What FlushPendingDeletes leaves is a sequence of batches that were queued.
LEMMA ErasedKeeps ==
  ASSUME NEW queue \in Seq(Batch)
  PROVE  /\ Erased(queue) \in Seq(Batch)
         /\ \A i \in DOMAIN Erased(queue) :
              \E j \in DOMAIN queue : Erased(queue)[i] = queue[j]
<1> DEFINE n == Cardinality(DeletedBatches(queue))
<1>1. IsFiniteSet(1..Len(queue))
  BY FS_Interval
<1>2. DeletedBatches(queue) \subseteq 1..Len(queue)
  BY DEF DeletedBatches
<1>3. n \in Nat
  BY <1>1, <1>2, FS_Subset, FS_CardinalityType
<1>4. Erased(queue) = SubSeq(queue, n + 1, Len(queue))
  BY DEF Erased
<1> HIDE DEF n
<1>5. /\ SubSeq(queue, n + 1, Len(queue)) \in Seq(Batch)
      /\ Len(SubSeq(queue, n + 1, Len(queue))) =
           IF n + 1 <= Len(queue) THEN Len(queue) - n ELSE 0
      /\ \A i \in 1..Len(queue) - n :
           SubSeq(queue, n + 1, Len(queue))[i] = queue[n + i]
  BY <1>3, SubSeqProperties
<1>6. ASSUME NEW i \in DOMAIN Erased(queue)
      PROVE  n + i \in DOMAIN queue /\ Erased(queue)[i] = queue[n + i]
  BY <1>3, <1>4, <1>5
<1> QED BY <1>4, <1>5, <1>6

\* While a frame is recorded the GPU is behind by no more frames than a batch
\* waits.
LEMMA NotFarBehind ==
  ASSUME IInv, phase = "recording"
  PROVE  unfinished <= NumFramesToExpire
  BY DeletionAssumption, LatencyAssumption
  DEF IInv, TypeOK, Ahead, Times, NumFramesToExpire

\* The queue with the batch of this frame: nothing in it is used by more than
\* its waiting time leaves.
Left(entry) ==
  /\ entry.objects \subseteq Released
  /\ entry.frameDeleted <= currentFrame
  /\ \A o \in entry.objects : UsedBefore(o, currentFrame - entry.frameDeleted)

LEMMA WithPendingOK ==
  ASSUME IInv, phase = "recording"
  PROVE  /\ WithPending \in Seq(Batch)
         /\ \A i \in DOMAIN WithPending : Left(WithPending[i])
<1> DEFINE b == [objects |-> pendingDeletes, frameDeleted |-> currentFrame]
<1>1. TypeOK /\ OwnersGone /\ BatchesAge /\ UsesBounded
  BY DEF IInv
<1>2. ASSUME NEW i \in Batches PROVE Left(deferredDeletionQueue[i])
  <2>1. deferredDeletionQueue[i].frameDeleted \in Nat
    BY <1>1, <1>2, QueueFields DEF TypeOK, Batches
  <2> QED
    BY <1>1, <1>2, <2>1 DEF TypeOK, OwnersGone, BatchesAge, Aged, Left
<1>3. CASE pendingDeletes = {}
  BY <1>1, <1>2, <1>3 DEF WithPending, TypeOK, Batches
<1>4. CASE pendingDeletes # {}
  <2>1. b \in Batch
    BY <1>1, <1>4 DEF Batch, TypeOK
  <2>2. ASSUME NEW o \in pendingDeletes
        PROVE  UsedBefore(o, currentFrame - currentFrame)
    <3>1. o \in Objects
      BY <1>1 DEF TypeOK
    <3> QED
      BY <1>1, <3>1 DEF TypeOK, UsesBounded, UsedBefore, ToPresent, Times
  <2>3. Left(b)
    BY <1>1, <2>2 DEF Left, OwnersGone, TypeOK
  <2> HIDE DEF b
  <2>4. WithPending = Append(deferredDeletionQueue, b)
    BY <1>4 DEF WithPending, b
  <2>5. deferredDeletionQueue \in Seq(Batch)
    BY <1>1 DEF TypeOK
  <2>6. WithPending \in Seq(Batch)
    BY <2>1, <2>4, <2>5
  <2>7. ASSUME NEW i \in DOMAIN WithPending
        PROVE  \/ WithPending[i] = b
               \/ i \in Batches /\ WithPending[i] = deferredDeletionQueue[i]
    BY <2>1, <2>4, <2>5, AppendProperties DEF Batches
  <2> QED BY <1>2, <2>3, <2>6, <2>7
<1> QED BY <1>3, <1>4

\* FlushPendingDeletes deletes only what is idle, and what it keeps is a frame
\* older.
LEMMA EndFrameIInv ==
  ASSUME IInv, EndFrame
  PROVE  IInv'
<1> DEFINE queue == WithPending
<1>1. TypeOK /\ Ahead /\ OwnersGone /\ UsesBounded /\ DeletedIdle
  BY DEF IInv
<1>2. /\ phase = "recording" /\ phase' = "ended"
      /\ made' = made /\ numRefs' = numRefs /\ unfinished' = unfinished
      /\ inUse' = inUse /\ slots' = slots /\ timeouts' = timeouts
  BY DEF EndFrame, gpuVars, displayVars
<1>3. /\ pendingDeletes' = {}
      /\ deleted' = deleted \cup
           UNION {queue[i].objects : i \in DeletedBatches(queue)}
      /\ deferredDeletionQueue' = Erased(queue)
      /\ currentFrame' = NextFrame(queue)
  BY DEF EndFrame, FlushPendingDeletes
<1>4. queue \in Seq(Batch) /\ \A i \in DOMAIN queue : Left(queue[i])
  BY <1>2, WithPendingOK
<1> HIDE DEF queue
<1>5. /\ Erased(queue) \in Seq(Batch)
      /\ \A i \in DOMAIN Erased(queue) :
           \E j \in DOMAIN queue : Erased(queue)[i] = queue[j]
  BY <1>4, ErasedKeeps
<1>6. Released' = Released
  BY <1>2 DEF Released, Alive
<1>7. ToPresent = 0 /\ ToPresent' = 1
  BY <1>2 DEF ToPresent, Times
<1>8. ASSUME NEW o \in deleted', o \notin deleted
      PROVE  o \in Released /\ inUse[o] = 0
  <2>1. PICK i \in DeletedBatches(queue) : o \in queue[i].objects
    BY <1>3, <1>8
  <2>2. i \in DOMAIN queue /\ Expired(queue[i])
    BY <1>4, <2>1 DEF DeletedBatches
  <2>3. queue[i].frameDeleted \in Nat /\ o \in Objects
    BY <1>4, <2>1, <2>2, QueueFields
  <2>4. unfinished <= NumFramesToExpire
    BY <1>2, NotFarBehind
  <2>5. o \in Released /\ UsedBefore(o, currentFrame - queue[i].frameDeleted)
    BY <1>4, <2>1, <2>2 DEF Left
  <2> QED
    BY <1>1, <1>7, <2>2, <2>3, <2>4, <2>5
    DEF NumFramesToExpire, Expired, UsedBefore, TypeOK
<1>9. ASSUME NEW i \in DOMAIN deferredDeletionQueue'
      PROVE  \E j \in DOMAIN queue :
               /\ deferredDeletionQueue'[i] = queue[j]
               /\ currentFrame' = currentFrame + 1
  <2>1. PICK j \in DOMAIN queue : deferredDeletionQueue'[i] = queue[j]
    BY <1>3, <1>5
  <2>2. queue # <<>>
    BY <2>1
  <2> QED BY <1>3, <2>1, <2>2 DEF NextFrame
<1>10. TypeOK'
  <2>1. currentFrame' \in Nat
    BY <1>1, <1>3 DEF NextFrame, TypeOK
  <2>2. deleted' \subseteq made
    BY <1>1, <1>8 DEF Released, TypeOK
  <2> QED BY <1>1, <1>2, <1>3, <1>5, <2>1, <2>2 DEF TypeOK
<1>11. Ahead'
  BY <1>1, <1>2 DEF Ahead, Times
<1>12. OwnersGone'
  <2>1. deleted' \subseteq Released
    BY <1>1, <1>8 DEF OwnersGone
  <2>2. ASSUME NEW i \in DOMAIN deferredDeletionQueue'
        PROVE  deferredDeletionQueue'[i].objects \subseteq Released
    BY <1>4, <1>9 DEF Left
  <2> QED BY <1>3, <1>6, <2>1, <2>2 DEF OwnersGone, Batches
<1>13. ASSUME NEW i \in DOMAIN deferredDeletionQueue'
       PROVE  Aged(deferredDeletionQueue[i])'
  <2>1. PICK j \in DOMAIN queue :
          /\ deferredDeletionQueue'[i] = queue[j]
          /\ currentFrame' = currentFrame + 1
    BY <1>9
  <2>2. queue[j].frameDeleted \in Nat /\ queue[j].objects \subseteq Objects
    BY <1>4, <2>1, QueueFields
  <2>3. ASSUME NEW o \in queue[j].objects
        PROVE  \/ inUse[o] = 0
               \/ inUse[o] + (currentFrame - queue[j].frameDeleted)
                    <= unfinished + 1
    BY <1>1, <1>4, <1>7, <2>1 DEF Left, UsedBefore, TypeOK
  <2>4. ASSUME NEW o \in queue[j].objects
        PROVE  \/ inUse'[o] = 0
               \/ inUse'[o] + (currentFrame' - queue[j].frameDeleted)
                    <= unfinished' + 1 + ToPresent'
    <3>1. inUse[o] \in Nat /\ unfinished \in Nat /\ currentFrame \in Nat
      BY <1>1, <2>2 DEF TypeOK
    <3> QED BY <1>2, <1>7, <2>1, <2>2, <2>3, <3>1
  <2>5. queue[j].frameDeleted < currentFrame'
    BY <1>1, <1>4, <2>1, <2>2 DEF Left, TypeOK
  <2> QED BY <1>2, <1>7, <2>1, <2>4, <2>5 DEF Aged, UsedBefore
<1>14. BatchesAge'
  BY <1>13 DEF BatchesAge, Batches
<1>15. UsesBounded' /\ DeletedIdle'
  BY <1>1, <1>2, <1>8 DEF UsesBounded, DeletedIdle
<1> QED BY <1>10, <1>11, <1>12, <1>14, <1>15 DEF IInv

\* A step that leaves the queue alone keeps the ages, if what it adds to a use
\* it adds to the presents as well.
LEMMA AgesKept ==
  ASSUME TypeOK, TypeOK', BatchesAge,
         deferredDeletionQueue' = deferredDeletionQueue,
         currentFrame' = currentFrame,
         \A i \in Batches : \A o \in deferredDeletionQueue[i].objects :
           \/ inUse'[o] = 0
           \/ /\ inUse[o] # 0
              /\ inUse'[o] + unfinished + ToPresent
                   <= inUse[o] + unfinished' + ToPresent'
  PROVE  BatchesAge'
<1> SUFFICES ASSUME NEW i \in Batches
             PROVE  Aged(deferredDeletionQueue[i])'
  BY DEF BatchesAge, Batches
<1>1. /\ deferredDeletionQueue[i].objects \subseteq Objects
      /\ deferredDeletionQueue[i].frameDeleted \in Nat
  BY QueueFields DEF TypeOK, Batches
<1>2. Aged(deferredDeletionQueue[i])
  BY DEF BatchesAge
<1>3. ToPresent \in Nat /\ ToPresent' \in Nat
  BY DEF ToPresent, Times
<1>4. ASSUME NEW o \in deferredDeletionQueue[i].objects
      PROVE  UsedBefore(o,
               currentFrame - deferredDeletionQueue[i].frameDeleted)'
  <2>1. /\ inUse[o] \in Nat /\ inUse'[o] \in Nat
        /\ unfinished \in Nat /\ unfinished' \in Nat /\ currentFrame \in Nat
    BY <1>1 DEF TypeOK
  <2>2. UsedBefore(o, currentFrame - deferredDeletionQueue[i].frameDeleted)
    BY <1>2 DEF Aged
  <2> QED BY <1>1, <1>3, <2>1, <2>2 DEF UsedBefore
<1> QED BY <1>2, <1>4 DEF Aged

\* Every step keeps the invariant.
LEMMA NextIInv == IInv /\ [Next]_vars => IInv'
<1> SUFFICES ASSUME IInv, [Next]_vars PROVE IInv'
  OBVIOUS
<1>0. /\ TypeOK /\ Ahead /\ OwnersGone /\ BatchesAge /\ UsesBounded
      /\ DeletedIdle
  BY DEF IInv
<1> USE DeletionAssumption DEF objectVars, deletionVars, gpuVars, displayVars
<1>1. ASSUME NEW o \in Objects, Create(o) PROVE IInv'
  <2>1. TypeOK'
    BY <1>0, <1>1 DEF Create, TypeOK
  <2>2. Released' = Released
    BY <1>0, <1>1 DEF Create, Released, Alive, TypeOK
  <2>3. BatchesAge'
    BY <1>0, <1>1 DEF Create, BatchesAge, Batches, Aged, UsedBefore, ToPresent
  <2>4. Ahead' /\ OwnersGone' /\ UsesBounded' /\ DeletedIdle'
    BY <1>0, <1>1, <2>2
    DEF Create, Ahead, Times, OwnersGone, Batches, UsesBounded, DeletedIdle
  <2> QED BY <2>1, <2>3, <2>4 DEF IInv
<1>2. ASSUME NEW o \in Objects, AddRef(o) PROVE IInv'
  <2>1. TypeOK'
    BY <1>0, <1>2 DEF AddRef, TypeOK
  <2>2. Released' = Released
    BY <1>0, <1>2 DEF AddRef, Released, Alive, TypeOK
  <2>3. BatchesAge'
    BY <1>0, <1>2 DEF AddRef, BatchesAge, Batches, Aged, UsedBefore, ToPresent
  <2>4. Ahead' /\ OwnersGone' /\ UsesBounded' /\ DeletedIdle'
    BY <1>0, <1>2, <2>2
    DEF AddRef, Ahead, Times, OwnersGone, Batches, UsesBounded, DeletedIdle
  <2> QED BY <2>1, <2>3, <2>4 DEF IInv
<1>3. ASSUME NEW o \in Objects, Release(o) PROVE IInv'
  <2>1. TypeOK'
    BY <1>0, <1>3 DEF Release, Alive, TypeOK
  <2>2. o \notin Released /\ Released \subseteq Released'
    BY <1>0, <1>3 DEF Release, Released, Alive, TypeOK
  <2>3. pendingDeletes' \subseteq Released'
    BY <1>0, <1>3, <2>2 DEF Release, Released, Alive, OwnersGone, TypeOK
  <2>4. OwnersGone'
    BY <1>0, <1>3, <2>2, <2>3 DEF Release, OwnersGone, Batches
  <2>5. BatchesAge'
    BY <1>0, <1>3 DEF Release, BatchesAge, Batches, Aged, UsedBefore, ToPresent
  <2>6. Ahead' /\ UsesBounded' /\ DeletedIdle'
    BY <1>0, <1>3 DEF Release, Ahead, Times, UsesBounded, DeletedIdle
  <2> QED BY <2>1, <2>4, <2>5, <2>6 DEF IInv
<1>4. ASSUME NEW o \in Objects, Use(o) PROVE IInv'
  <2>1. TypeOK'
    BY <1>0, <1>4 DEF Use, TypeOK
  <2>2. Released' = Released
    BY <1>4 DEF Use, Released, Alive
  <2>3. o \notin deleted /\ \A i \in Batches :
                              o \notin deferredDeletionQueue[i].objects
    BY <1>0, <1>4 DEF Use, OwnersGone, Released
  <2>4. ToPresent' = ToPresent /\ ToPresent \in Nat
    BY <1>4 DEF Use, ToPresent, Times
  <2>5. ASSUME NEW i \in Batches, NEW p \in deferredDeletionQueue[i].objects
        PROVE  inUse'[p] = inUse[p] /\ inUse[p] \in Nat
    <3>1. p \in Objects /\ p # o
      BY <1>0, <2>3, <2>5, QueueFields DEF TypeOK, Batches
    <3> QED BY <1>0, <1>4, <3>1 DEF Use, TypeOK
  <2>6. BatchesAge'
    BY <1>0, <1>4, <2>1, <2>4, <2>5, AgesKept DEF Use, TypeOK
  <2>7. Ahead' /\ OwnersGone'
    BY <1>0, <1>4, <2>2 DEF Use, Ahead, Times, OwnersGone, Batches
  <2>8. UsesBounded' /\ DeletedIdle'
    BY <1>0, <1>4, <2>3 DEF Use, UsesBounded, DeletedIdle, TypeOK
  <2> QED BY <2>1, <2>6, <2>7, <2>8 DEF IInv
<1>5. CASE EndFrame
  BY <1>5, EndFrameIInv
<1>6. CASE SwapBuffers
  <2>1. TypeOK'
    BY <1>0, <1>6 DEF SwapBuffers, TypeOK
  <2>2. ToPresent = 1 /\ ToPresent' = 0
    BY <1>6 DEF SwapBuffers, ToPresent, Times
  <2>3. BatchesAge'
    <3>1. ASSUME NEW i \in Batches, NEW o \in deferredDeletionQueue[i].objects
          PROVE  inUse[o] \in Nat
      BY <1>0, <3>1, QueueFields DEF TypeOK, Batches
    <3> QED BY <1>0, <1>6, <2>1, <2>2, <3>1, AgesKept DEF SwapBuffers, TypeOK
  <2>4. Ahead'
    BY <1>0, <1>6 DEF SwapBuffers, Ahead, Times, TypeOK
  <2>5. OwnersGone' /\ UsesBounded' /\ DeletedIdle'
    BY <1>0, <1>6 DEF SwapBuffers, OwnersGone, Batches, Released, Alive,
       UsesBounded, DeletedIdle, TypeOK
  <2> QED BY <2>1, <2>3, <2>4, <2>5 DEF IInv
<1>7. CASE WaitOnSwapBuffers \/ WaitTimesOut
  <2>1. TypeOK'
    BY <1>0, <1>7 DEF WaitOnSwapBuffers, WaitTimesOut, TypeOK
  <2>2. ToPresent' = ToPresent
    BY <1>7 DEF WaitOnSwapBuffers, WaitTimesOut, ToPresent, Times
  <2>3. BatchesAge'
    BY <1>0, <1>7, <2>2 DEF WaitOnSwapBuffers, WaitTimesOut, BatchesAge,
       Batches, Aged, UsedBefore
  <2>4. Ahead'
    <3>1. CASE WaitOnSwapBuffers
      BY <1>0, <3>1 DEF WaitOnSwapBuffers, Ahead, Times, TypeOK
    <3>2. CASE WaitTimesOut
      BY <1>0, <3>2 DEF WaitTimesOut, Ahead, Times, TypeOK
    <3> QED BY <1>7, <3>1, <3>2
  <2>5. OwnersGone' /\ UsesBounded' /\ DeletedIdle'
    BY <1>0, <1>7 DEF WaitOnSwapBuffers, WaitTimesOut, OwnersGone, Batches,
       Released, Alive, UsesBounded, DeletedIdle
  <2> QED BY <2>1, <2>3, <2>4, <2>5 DEF IInv
<1>8. CASE FinishFrame
  <2>1. TypeOK'
    BY <1>0, <1>8 DEF FinishFrame, TypeOK
  <2>2. ToPresent' = ToPresent /\ ToPresent \in Nat
    BY <1>8 DEF FinishFrame, ToPresent, Times
  <2>3. BatchesAge'
    <3>1. ASSUME NEW i \in Batches, NEW o \in deferredDeletionQueue[i].objects
          PROVE  /\ inUse[o] \in Nat
                 /\ inUse'[o] = IF inUse[o] = 0 THEN 0 ELSE inUse[o] - 1
      <4>1. o \in Objects
        BY <1>0, <3>1, QueueFields DEF TypeOK, Batches
      <4> QED BY <1>0, <1>8, <4>1 DEF FinishFrame, TypeOK
    <3> QED BY <1>0, <1>8, <2>1, <2>2, <3>1, AgesKept DEF FinishFrame, TypeOK
  <2>4. Ahead'
    BY <1>0, <1>8 DEF FinishFrame, Ahead, Times, TypeOK
  <2>5. OwnersGone'
    BY <1>0, <1>8 DEF FinishFrame, OwnersGone, Batches, Released, Alive
  <2>6. UsesBounded' /\ DeletedIdle'
    BY <1>0, <1>8 DEF FinishFrame, UsesBounded, DeletedIdle, TypeOK
  <2> QED BY <2>1, <2>3, <2>4, <2>5, <2>6 DEF IInv
<1>9. CASE UNCHANGED vars
  BY <1>0, <1>9 DEF vars, IInv, TypeOK, Ahead, OwnersGone, BatchesAge, Aged,
     UsedBefore, UsesBounded, DeletedIdle, Batches, ToPresent, Released, Alive
<1> QED
  BY <1>1, <1>2, <1>3, <1>4, <1>5, <1>6, <1>7, <1>8, <1>9 DEF Next

\* The invariant holds in every state of every behaviour.
THEOREM Inductive == Spec => []IInv
  BY InitIInv, NextIInv, PTL DEF Spec

\* Every variable keeps its type, for any number of objects and owners.
THEOREM TypeCorrect == Spec => []TypeOK
<1>1. IInv => TypeOK
  BY DEF IInv
<1> QED BY <1>1, Inductive, PTL

\* However many objects are made and let go, and however late the GPU is,
\* FlushPendingDeletes deletes none that an unfinished frame uses, as long as
\* the latency of the swap chain and the waits that timed out are no more than
\* the frames a batch waits.
THEOREM DeletedAreIdle == Spec => []DeletedIdle
<1>1. IInv => DeletedIdle
  BY DEF IInv
<1> QED BY <1>1, Inductive, PTL
-----------------------------------------------------------------------------
(* Where released objects are                                               *)

\* No object is in two batches, none in a batch is deleted yet, and what has no
\* owner is pending, in a batch or deleted
Apart ==
  \A i, j \in Batches :
    i # j => deferredDeletionQueue[i].objects \cap
               deferredDeletionQueue[j].objects = {}
NotDeletedYet ==
  \A i \in Batches : deferredDeletionQueue[i].objects \cap deleted = {}
InABatch(o) == \E i \in Batches : o \in deferredDeletionQueue[i].objects
NoneLost ==
  \A o \in Released : o \in pendingDeletes \/ o \in deleted \/ InABatch(o)

\* The inductive invariant with the places and the order of batches.
PlaceInv ==
  /\ IInv
  /\ Apart
  /\ NotDeletedYet
  /\ NoneLost
  /\ NoBatchOverdue

LEMMA InitPlaceInv == Init => PlaceInv
<1> SUFFICES ASSUME Init PROVE PlaceInv
  OBVIOUS
<1>1. IInv
  BY InitIInv
<1>2. Batches = {} /\ Released = {}
  BY DEF Init, Batches, Released
<1> QED BY <1>1, <1>2 DEF PlaceInv, Apart, NotDeletedYet, NoneLost,
           NoBatchOverdue, Batches

\* The batches the flush deletes are the first n of the queue, and what it
\* keeps is the rest.
LEMMA ErasedPrefix ==
  ASSUME NEW queue \in Seq(Batch)
  PROVE  \E n \in Nat :
           /\ n <= Len(queue) /\ DeletedBatches(queue) = 1 .. n
           /\ Len(Erased(queue)) = Len(queue) - n
           /\ \A i \in DOMAIN Erased(queue) :
                n + i \in DOMAIN queue /\ Erased(queue)[i] = queue[n + i]
<1>0. Len(queue) \in Nat /\ DOMAIN queue = 1 .. Len(queue)
  OBVIOUS
<1>1. IsFiniteSet(1 .. Len(queue)) /\ Cardinality(1 .. Len(queue)) = Len(queue)
  <2>1. PICK n \in Nat : n = Len(queue)
    BY <1>0
  <2>2. /\ IsFiniteSet(1 .. n)
        /\ Cardinality(1 .. n) = IF 1 > n THEN 0 ELSE n - 1 + 1
    BY FS_Interval
  <2>3. (IF 1 > n THEN 0 ELSE n - 1 + 1) = n
    OBVIOUS
  <2> QED BY <2>1, <2>2, <2>3
<1>2. DeletedBatches(queue) \subseteq 1 .. Len(queue)
  BY DEF DeletedBatches
<1>3. /\ IsFiniteSet(DeletedBatches(queue))
      /\ Cardinality(DeletedBatches(queue)) \in Nat
      /\ Cardinality(DeletedBatches(queue)) <= Len(queue)
  BY <1>1, <1>2, FS_Subset, FS_CardinalityType
<1>4. PICK n \in Nat : n = Cardinality(DeletedBatches(queue))
  BY <1>3
<1>5. n <= Len(queue)
  BY <1>3, <1>4
<1>6. IsFiniteSet(1 .. n) /\ Cardinality(1 .. n) = n
  BY FS_Interval
<1>7. ASSUME NEW j \in DeletedBatches(queue) PROVE j \in 1 .. n
  <2>1. j \in 1 .. Len(queue)
    BY <1>2
  <2>2. 1 .. j \subseteq DeletedBatches(queue)
    BY <1>0, <2>1 DEF DeletedBatches
  <2>3. Cardinality(1 .. j) = j
    BY <2>1, FS_Interval
  <2>4. Cardinality(1 .. j) <= n
    BY <1>3, <1>4, <2>2, FS_Subset
  <2> QED BY <2>1, <2>3, <2>4
<1>8. DeletedBatches(queue) = 1 .. n
  BY <1>4, <1>6, <1>7, FS_Subset
<1>9. Erased(queue) = SubSeq(queue, n + 1, Len(queue))
  BY <1>4 DEF Erased
<1>10. /\ SubSeq(queue, n + 1, Len(queue)) \in Seq(Batch)
       /\ Len(SubSeq(queue, n + 1, Len(queue))) =
            IF n + 1 <= Len(queue) THEN Len(queue) - n ELSE 0
       /\ \A i \in 1 .. Len(queue) - n :
            SubSeq(queue, n + 1, Len(queue))[i] = queue[n + i]
  BY SubSeqProperties
<1>11. Len(Erased(queue)) = Len(queue) - n
  <2>1. Len(Erased(queue)) = IF n + 1 <= Len(queue) THEN Len(queue) - n ELSE 0
    BY <1>9, <1>10
  <2>2. PICK m \in Nat : m = Len(queue)
    BY <1>0
  <2>3. n <= m => (IF n + 1 <= m THEN m - n ELSE 0) = m - n
    BY <2>2
  <2> QED BY <1>5, <2>1, <2>2, <2>3
<1>12. ASSUME NEW i \in DOMAIN Erased(queue)
       PROVE  n + i \in DOMAIN queue /\ Erased(queue)[i] = queue[n + i]
  <2>1. i \in 1 .. Len(queue) - n
    BY <1>9, <1>10, <1>11
  <2> QED BY <1>0, <1>9, <1>10, <2>1
<1> QED BY <1>5, <1>8, <1>11, <1>12

\* The queue with the batch of this frame: batches are apart and in order, hold
\* nothing that is deleted and all that is not.
LEMMA WithPendingPlaces ==
  ASSUME PlaceInv, phase = "recording"
  PROVE  /\ WithPending \in Seq(Batch)
         /\ \A i, j \in DOMAIN WithPending :
              /\ i # j => WithPending[i].objects \cap WithPending[j].objects = {}
              /\ i < j => WithPending[i].frameDeleted < WithPending[j].frameDeleted
         /\ \A i \in DOMAIN WithPending :
              /\ WithPending[i].objects \subseteq Released \ deleted
              /\ currentFrame <=
                   WithPending[i].frameDeleted + NumFramesToExpire + 1
         /\ \A o \in Released :
              \/ o \in deleted
              \/ \E i \in DOMAIN WithPending : o \in WithPending[i].objects
<1>0. /\ IInv /\ Apart /\ NotDeletedYet /\ NoneLost /\ NoBatchOverdue
      /\ TypeOK /\ OwnersGone /\ BatchesAge
  BY DEF PlaceInv, IInv
<1>1. deferredDeletionQueue \in Seq(Batch) /\ currentFrame \in Nat
  BY <1>0 DEF TypeOK
<1>2. ASSUME NEW i \in Batches
      PROVE  /\ deferredDeletionQueue[i].objects \subseteq
                  (Released \ deleted) \ pendingDeletes
             /\ deferredDeletionQueue[i].frameDeleted \in Nat
             /\ deferredDeletionQueue[i].frameDeleted < currentFrame
             /\ currentFrame <= deferredDeletionQueue[i].frameDeleted
                                  + NumFramesToExpire + 1
  <2>1. deferredDeletionQueue[i].frameDeleted \in Nat
    BY <1>1, <1>2, QueueFields DEF Batches
  <2>2. currentFrame <= deferredDeletionQueue[i].frameDeleted
                          + NumFramesToExpire + 1
    BY <1>0 DEF NoBatchOverdue, Batches
  <2> QED BY <1>0, <2>1, <2>2 DEF OwnersGone, BatchesAge, Aged, NotDeletedYet
<1>3. \A i, j \in Batches :
        i < j => deferredDeletionQueue[i].frameDeleted
                   < deferredDeletionQueue[j].frameDeleted
  BY <1>0 DEF NoBatchOverdue, Batches
<1>4. CASE pendingDeletes = {}
  <2>1. WithPending = deferredDeletionQueue
    BY <1>4 DEF WithPending
  <2> QED
    BY <1>0, <1>1, <1>2, <1>3, <1>4, <2>1
    DEF Batches, Apart, NoneLost, InABatch
<1>5. CASE pendingDeletes # {}
  <2>1. PICK b : b = [objects |-> pendingDeletes, frameDeleted |-> currentFrame]
    OBVIOUS
  <2>2. b \in Batch /\ b.objects = pendingDeletes /\ b.frameDeleted = currentFrame
    BY <1>0, <1>5, <2>1 DEF Batch, TypeOK
  <2>3. WithPending = Append(deferredDeletionQueue, b)
    BY <1>5, <2>1 DEF WithPending
  <2>4. PICK n \in Nat : n = Len(deferredDeletionQueue)
    BY <1>1
  <2>5. Batches = 1 .. n
    BY <1>1, <2>4 DEF Batches
  <2>6. /\ WithPending \in Seq(Batch) /\ DOMAIN WithPending = 1 .. n + 1
        /\ WithPending[n + 1] = b
        /\ \A i \in 1 .. n : WithPending[i] = deferredDeletionQueue[i]
    BY <1>1, <2>2, <2>3, <2>4, AppendProperties
  <2>7. b.objects \subseteq Released \ deleted
    BY <1>0, <2>2 DEF OwnersGone
  <2>8. ASSUME NEW i \in DOMAIN WithPending
        PROVE  \/ i = n + 1 /\ WithPending[i] = b
               \/ i \in Batches /\ i < n + 1
                  /\ WithPending[i] = deferredDeletionQueue[i]
    BY <2>5, <2>6
  <2>9. ASSUME NEW i \in DOMAIN WithPending, NEW j \in DOMAIN WithPending
        PROVE  /\ i # j =>
                    WithPending[i].objects \cap WithPending[j].objects = {}
               /\ i < j =>
                    WithPending[i].frameDeleted < WithPending[j].frameDeleted
    <3>1. CASE i = n + 1 /\ j = n + 1
      BY <3>1
    <3>2. CASE i = n + 1 /\ j # n + 1
      <4>1. j \in Batches /\ j < i /\ WithPending[j] = deferredDeletionQueue[j]
            /\ WithPending[i] = b /\ i \in Nat /\ j \in Nat
        BY <2>5, <2>6, <2>8, <3>2
      <4>2. WithPending[i].objects \cap WithPending[j].objects = {}
        BY <1>2, <2>2, <4>1
      <4> QED BY <4>1, <4>2
    <3>3. CASE i # n + 1 /\ j = n + 1
      <4>1. i \in Batches /\ WithPending[i] = deferredDeletionQueue[i]
            /\ WithPending[j] = b
        BY <2>8, <3>3
      <4>2. WithPending[i].objects \cap WithPending[j].objects = {}
        BY <1>2, <2>2, <4>1
      <4>3. WithPending[i].frameDeleted < WithPending[j].frameDeleted
        BY <1>2, <2>2, <4>1
      <4> QED BY <4>2, <4>3
    <3>4. CASE i # n + 1 /\ j # n + 1
      <4>1. /\ i \in Batches /\ WithPending[i] = deferredDeletionQueue[i]
            /\ j \in Batches /\ WithPending[j] = deferredDeletionQueue[j]
        BY <2>8, <3>4
      <4> QED BY <1>0, <1>3, <4>1 DEF Apart
    <3> QED BY <3>1, <3>2, <3>3, <3>4
  <2>10. ASSUME NEW i \in DOMAIN WithPending
         PROVE  /\ WithPending[i].objects \subseteq Released \ deleted
                /\ currentFrame <=
                     WithPending[i].frameDeleted + NumFramesToExpire + 1
    <3>1. CASE WithPending[i] = b
      BY <1>1, <2>2, <2>7, <3>1 DEF NumFramesToExpire
    <3>2. CASE i \in Batches /\ WithPending[i] = deferredDeletionQueue[i]
      BY <1>2, <3>2
    <3> QED BY <2>8, <3>1, <3>2
  <2>11. ASSUME NEW o \in Released, o \notin deleted
         PROVE  \E i \in DOMAIN WithPending : o \in WithPending[i].objects
    <3>1. n + 1 \in DOMAIN WithPending
      BY <2>6
    <3>2. CASE o \in pendingDeletes
      BY <2>2, <2>6, <3>1, <3>2
    <3>3. CASE InABatch(o)
      <4>1. PICK i \in Batches : o \in deferredDeletionQueue[i].objects
        BY <3>3 DEF InABatch
      <4>2. i \in DOMAIN WithPending /\ WithPending[i] = deferredDeletionQueue[i]
        BY <2>5, <2>6, <4>1
      <4> QED BY <4>1, <4>2
    <3> QED BY <1>0, <2>11, <3>2, <3>3 DEF NoneLost
  <2> QED BY <2>6, <2>9, <2>10, <2>11
<1> QED BY <1>4, <1>5

\* FlushPendingDeletes takes batches off the front, counts the frame as long as
\* any batch waits, and so leaves none overdue and loses none.
LEMMA EndFramePlaces ==
  ASSUME PlaceInv, EndFrame
  PROVE  PlaceInv'
<1>0. IInv /\ TypeOK
  BY DEF PlaceInv, IInv
<1>1. /\ phase = "recording" /\ made' = made /\ numRefs' = numRefs
      /\ pendingDeletes' = {}
      /\ deleted' = deleted \cup
           UNION {WithPending[i].objects : i \in DeletedBatches(WithPending)}
      /\ deferredDeletionQueue' = Erased(WithPending)
      /\ currentFrame' = NextFrame(WithPending)
  BY DEF EndFrame, FlushPendingDeletes
<1>2. IInv'
  BY <1>0, EndFrameIInv
<1>3. PICK queue \in Seq(Batch) :
        /\ queue = WithPending
        /\ \A i, j \in DOMAIN queue :
             /\ i # j => queue[i].objects \cap queue[j].objects = {}
             /\ i < j => queue[i].frameDeleted < queue[j].frameDeleted
        /\ \A i \in DOMAIN queue :
             /\ queue[i].objects \subseteq Released \ deleted
             /\ currentFrame <= queue[i].frameDeleted + NumFramesToExpire + 1
        /\ \A o \in Released :
             \/ o \in deleted
             \/ \E i \in DOMAIN queue : o \in queue[i].objects
  BY <1>1, WithPendingPlaces
<1>4. PICK n \in Nat :
        /\ n <= Len(queue) /\ DeletedBatches(queue) = 1 .. n
        /\ Len(Erased(queue)) = Len(queue) - n
        /\ \A i \in DOMAIN Erased(queue) :
             n + i \in DOMAIN queue /\ Erased(queue)[i] = queue[n + i]
  BY ErasedPrefix
<1>5. PICK m \in Nat : m = Len(queue) /\ DOMAIN queue = 1 .. m
  OBVIOUS
<1>6. Erased(queue) \in Seq(Batch)
  BY ErasedKeeps
<1>7. DOMAIN Erased(queue) = 1 .. m - n
  BY <1>4, <1>5, <1>6
<1>8. PICK kept \in Seq(Batch) :
        /\ kept = deferredDeletionQueue' /\ DOMAIN kept = 1 .. m - n
        /\ \A i \in DOMAIN kept : n + i \in 1 .. m /\ kept[i] = queue[n + i]
  BY <1>1, <1>3, <1>4, <1>5, <1>6, <1>7
<1>9. deleted' = deleted \cup UNION {queue[i].objects : i \in 1 .. n}
  BY <1>1, <1>3, <1>4
<1>10. Batches' = DOMAIN kept /\ Released' = Released
  BY <1>1, <1>8 DEF Batches, Released, Alive
<1>11. \A i \in 1 .. m : queue[i].frameDeleted \in Nat
  BY <1>5, QueueFields
<1>12. Apart'
  <2>1. ASSUME NEW i \in DOMAIN kept, NEW j \in DOMAIN kept, i # j
        PROVE  kept[i].objects \cap kept[j].objects = {}
    <3>1. n + i # n + j /\ n + i \in 1 .. m /\ n + j \in 1 .. m
      BY <1>8, <2>1
    <3> QED BY <1>3, <1>5, <1>8, <3>1
  <2> QED BY <1>8, <1>10, <2>1 DEF Apart
<1>13. NotDeletedYet'
  <2>1. ASSUME NEW i \in DOMAIN kept, NEW o \in kept[i].objects, o \in deleted'
        PROVE  FALSE
    <3>1. n + i \in DOMAIN queue /\ o \in queue[n + i].objects
      BY <1>5, <1>8, <2>1
    <3>2. o \notin deleted
      BY <1>3, <3>1
    <3>3. PICK j \in 1 .. n : o \in queue[j].objects
      BY <1>9, <2>1, <3>2
    <3>4. j \in DOMAIN queue /\ j # n + i
      BY <1>4, <1>5, <1>8, <3>3
    <3> QED BY <1>3, <3>1, <3>3, <3>4
  <2> QED BY <1>8, <1>10, <2>1 DEF NotDeletedYet
<1>14. NoneLost'
  <2>1. ASSUME NEW o \in Released, o \notin deleted'
        PROVE  \E i \in DOMAIN kept : o \in kept[i].objects
    <3>1. PICK j \in 1 .. m : o \in queue[j].objects
      BY <1>3, <1>5, <1>9, <2>1
    <3>2. j \notin 1 .. n
      BY <1>9, <2>1, <3>1
    <3>3. PICK i \in 1 .. m - n : j = n + i
      <4>1. j - n \in 1 .. m - n /\ j = n + (j - n)
        BY <3>2
      <4> QED BY <4>1
    <3> QED BY <1>8, <3>1, <3>3
  <2> QED BY <1>8, <1>10, <2>1 DEF NoneLost, InABatch
<1>15. ASSUME NEW i \in DOMAIN kept
       PROVE  currentFrame' <= kept[i].frameDeleted + NumFramesToExpire + 1
  <2>1. currentFrame \in Nat /\ currentFrame' \in {currentFrame, currentFrame + 1}
    BY <1>0, <1>1 DEF TypeOK, NextFrame
  <2>2. n + i \in 1 .. m /\ kept[i] = queue[n + i] /\ n + 1 \in 1 .. m
    BY <1>8
  <2>3. n + 1 \notin DeletedBatches(queue)
    BY <1>4
  <2>4. PICK j \in 1 .. n + 1 : ~ Expired(queue[j])
    BY <1>5, <2>2, <2>3 DEF DeletedBatches
  <2>5. j \notin 1 .. n
    BY <1>4, <2>4 DEF DeletedBatches
  <2>6. ~ Expired(queue[n + 1])
    BY <2>4, <2>5
  <2>7. queue[n + 1].frameDeleted <= queue[n + i].frameDeleted
    <3>1. CASE i = 1
      BY <1>11, <2>2, <3>1
    <3>2. CASE i # 1
      <4>1. n + 1 < n + i
        BY <1>8, <3>2
      <4>2. queue[n + 1].frameDeleted < queue[n + i].frameDeleted
        BY <1>3, <1>5, <2>2, <4>1
      <4> QED BY <1>11, <2>2, <4>2
    <3> QED BY <3>1, <3>2
  <2>8. PICK f \in Nat, g \in Nat :
          f = queue[n + 1].frameDeleted /\ g = kept[i].frameDeleted
    BY <1>11, <2>2
  <2>9. f <= g
    BY <2>2, <2>7, <2>8
  <2>10. ~ (f + NumFramesToExpire < currentFrame)
    BY <2>6, <2>8 DEF Expired
  <2>11. currentFrame' <= g + NumFramesToExpire + 1
    BY <2>1, <2>9, <2>10 DEF NumFramesToExpire
  <2> QED BY <2>8, <2>11
<1>16. NoBatchOverdue'
  <2>1. ASSUME NEW i \in DOMAIN kept, NEW j \in DOMAIN kept, i < j
        PROVE  kept[i].frameDeleted < kept[j].frameDeleted
    <3>1. n + i < n + j /\ n + i \in 1 .. m /\ n + j \in 1 .. m
      BY <1>8, <2>1
    <3> QED BY <1>3, <1>5, <1>8, <3>1
  <2> QED BY <1>8, <1>15, <2>1 DEF NoBatchOverdue
<1> QED BY <1>2, <1>12, <1>13, <1>14, <1>16 DEF PlaceInv

LEMMA NextPlaceInv == PlaceInv /\ [Next]_vars => PlaceInv'
<1> SUFFICES ASSUME PlaceInv, [Next]_vars PROVE PlaceInv'
  OBVIOUS
<1>0. /\ IInv /\ TypeOK /\ OwnersGone
      /\ Apart /\ NotDeletedYet /\ NoneLost /\ NoBatchOverdue
  BY DEF PlaceInv, IInv
<1>1. IInv'
  BY <1>0, NextIInv
<1>2. CASE EndFrame
  BY <1>2, EndFramePlaces
<1>3. CASE UNCHANGED <<objectVars, deletionVars>>
  BY <1>0, <1>1, <1>3
  DEF objectVars, deletionVars, PlaceInv, Apart, NotDeletedYet, NoneLost,
      InABatch, NoBatchOverdue, Batches, Released, Alive
<1>4. ASSUME UNCHANGED deletionVars, pendingDeletes \subseteq pendingDeletes',
             Released' \ Released \subseteq pendingDeletes'
      PROVE  PlaceInv'
  <2>1. Apart' /\ NotDeletedYet' /\ NoBatchOverdue'
    BY <1>0, <1>4
    DEF deletionVars, Apart, NotDeletedYet, NoBatchOverdue, Batches
  <2>2. NoneLost'
    BY <1>0, <1>4 DEF deletionVars, NoneLost, InABatch, Batches
  <2> QED BY <1>1, <2>1, <2>2 DEF PlaceInv
<1>5. ASSUME NEW o \in Objects, Create(o) PROVE PlaceInv'
  <2>1. Released' = Released
    BY <1>0, <1>5 DEF Create, Released, Alive, TypeOK
  <2>2. pendingDeletes' = pendingDeletes /\ UNCHANGED deletionVars
    BY <1>5 DEF Create
  <2> QED BY <1>4, <2>1, <2>2
<1>6. ASSUME NEW o \in Objects, AddRef(o) PROVE PlaceInv'
  <2>1. Released' = Released
    BY <1>0, <1>6 DEF AddRef, Released, Alive, TypeOK
  <2>2. pendingDeletes' = pendingDeletes /\ UNCHANGED deletionVars
    BY <1>6 DEF AddRef
  <2> QED BY <1>4, <2>1, <2>2
<1>7. ASSUME NEW o \in Objects, Release(o) PROVE PlaceInv'
  <2>1. /\ UNCHANGED deletionVars /\ made' = made
        /\ numRefs' = [numRefs EXCEPT ![o] = @ - 1]
        /\ pendingDeletes' = IF numRefs[o] = 1 THEN pendingDeletes \cup {o}
                             ELSE pendingDeletes
    BY <1>7 DEF Release
  <2>2. numRefs \in [Objects -> Nat] /\ made \subseteq Objects
    BY <1>0 DEF TypeOK
  <2>3. o \in made /\ numRefs[o] > 0
    BY <1>7 DEF Release, Alive
  <2>4. ASSUME NEW p \in Released', p \notin Released PROVE p \in pendingDeletes'
    <3>1. p \in made /\ numRefs[p] > 0 /\ ~ numRefs'[p] > 0
      BY <2>1, <2>4 DEF Released, Alive
    <3>2. p = o
      BY <2>1, <2>2, <3>1
    <3>3. numRefs[o] = 1
      BY <2>1, <2>2, <2>3, <3>1, <3>2
    <3> QED BY <2>1, <3>2, <3>3
  <2> QED BY <1>4, <2>1, <2>4
<1>8. ASSUME NEW o \in Objects, Use(o) PROVE PlaceInv'
  BY <1>3, <1>8 DEF Use
<1>9. CASE SwapBuffers \/ WaitOnSwapBuffers \/ WaitTimesOut \/ FinishFrame
  BY <1>3, <1>9 DEF SwapBuffers, WaitOnSwapBuffers, WaitTimesOut, FinishFrame
<1>10. CASE UNCHANGED vars
  BY <1>3, <1>10 DEF vars
<1> QED BY <1>2, <1>5, <1>6, <1>7, <1>8, <1>9, <1>10 DEF Next

\* With one place for every object, the count of places is what Release left.
LEMMA PlacesCounted == PlaceInv => ReleasedInOnePlace
<1> SUFFICES ASSUME PlaceInv, NEW o \in made
             PROVE  Times(o \in pendingDeletes) + Cardinality(Waiting(o))
                      + Times(o \in deleted) = Times(numRefs[o] = 0)
  BY DEF ReleasedInOnePlace
<1>0. /\ TypeOK /\ OwnersGone /\ Apart /\ NotDeletedYet /\ NoneLost
  BY DEF PlaceInv, IInv
<1>1. numRefs[o] \in Nat
  BY <1>0 DEF TypeOK
<1>2. o \in Released <=> numRefs[o] = 0
  BY <1>1 DEF Released, Alive
<1>3. ASSUME ~ InABatch(o) PROVE Cardinality(Waiting(o)) = 0
  <2>1. Waiting(o) = {}
    BY <1>3 DEF InABatch, Waiting, Batches
  <2> QED BY <2>1, FS_EmptySet
<1>4. ASSUME InABatch(o) PROVE Cardinality(Waiting(o)) = 1
  <2>1. PICK i \in Batches : o \in deferredDeletionQueue[i].objects
    BY <1>4 DEF InABatch
  <2>2. Waiting(o) = {i}
    BY <1>0, <2>1 DEF Waiting, Apart, Batches
  <2> QED BY <2>2, FS_Singleton
<1>5. CASE InABatch(o)
  <2>1. o \in Released /\ o \notin pendingDeletes /\ o \notin deleted
    BY <1>0, <1>5 DEF InABatch, OwnersGone, NotDeletedYet
  <2> QED BY <1>2, <1>4, <1>5, <2>1 DEF Times
<1>6. CASE ~ InABatch(o) /\ o \in pendingDeletes
  <2>1. o \in Released /\ o \notin deleted
    BY <1>0, <1>6 DEF OwnersGone
  <2> QED BY <1>2, <1>3, <1>6, <2>1 DEF Times
<1>7. CASE ~ InABatch(o) /\ o \notin pendingDeletes /\ o \in deleted
  <2>1. o \in Released
    BY <1>0, <1>7 DEF OwnersGone
  <2> QED BY <1>2, <1>3, <1>7, <2>1 DEF Times
<1>8. CASE ~ InABatch(o) /\ o \notin pendingDeletes /\ o \notin deleted
  <2>1. o \notin Released
    BY <1>0, <1>8 DEF NoneLost
  <2> QED BY <1>2, <1>3, <1>8, <2>1 DEF Times
<1> QED BY <1>5, <1>6, <1>7, <1>8

\* An object its owners let go is in one place at a time: pending, in one batch
\* or deleted, and deleted once; batches are in the order of their frames and
\* none waits longer than FlushPendingDeletes promises, whatever else the frame
\* does.  The other parts of the frame change nothing for it.
THEOREM DeletionInOrder == FramesSpec => []DeletionOrderly
<1>1. FramesInit => PlaceInv
  BY InitPlaceInv DEF FramesInit
<1>2. PlaceInv /\ [FramesNext]_<<part, vars, pipelineVars, drawVars,
                                barrierVars, tableVars>> => PlaceInv'
  <2>1. [FramesNext]_<<part, vars, pipelineVars, drawVars, barrierVars,
                      tableVars>> => [Next]_vars
    BY DEF FramesNext, DeletionStep, PipelineStep, DrawingStep, BarrierStep,
       TableStep
  <2> QED BY <2>1, NextPlaceInv
<1>3. PlaceInv => DeletionOrderly
  BY PlacesCounted DEF PlaceInv, DeletionOrderly
<1> QED BY <1>1, <1>2, <1>3, PTL DEF FramesSpec
-----------------------------------------------------------------------------
(* The pipeline and the views of a draw or dispatch                         *)

\* The pipeline remembered as set is the one on the list, unless it is flagged
PipelineKnown == needPSO \/ pso = Nothing \/ list.pso = pso

\* A root signature that is not flagged is on the list
RootsKnown ==
  \A s \in Binding!Stages :
    bound[s] # Nothing /\ s \notin needRoot => list.root[s] = RootOf[bound[s]]

\* The primitive type is that of the pipeline; a topology that is not flagged
\* was set by a draw on this very list, which is work
TopologyKnown ==
  /\ bound["graphics"] # Nothing => primitive = PrimitiveOf[bound["graphics"]]
  /\ ~ needTopology => work /\ list.topology = primitive

CountsKnown ==
  \A s \in Binding!Stages : bound[s] # Nothing => count[s] = Count[bound[s]]

\* The slots of the list l that d does not mark hold the views bound
ClearSlotsHeld(l, d) ==
  \A s \in Binding!Stages : \A i \in Binding!Slots \ d[s] :
    i \in DOMAIN l.table[s] /\ l.table[s][i] = view[s][i]

\* The inductive invariant of the pipeline and the views.
BindInv ==
  /\ Binding!TypeOK
  /\ bound \in [Binding!Stages -> Binding!Pipelines \cup {Nothing}]
  /\ PipelineKnown
  /\ RootsKnown
  /\ TopologyKnown
  /\ CountsKnown
  /\ ClearSlotsHeld(list, dirty)

\* What the tables of a list may be, and that an empty table is one.
ViewTables == UNION {[1 .. n -> Textures \cup {Nothing}] : n \in 0 .. MaxSlots}

LEMMA TableIsSequence ==
  ASSUME NEW t \in ViewTables
  PROVE  Len(t) \in Nat /\ DOMAIN t = 1 .. Len(t)
<1>1. PICK n \in 0 .. MaxSlots : t \in [1 .. n -> Textures \cup {Nothing}]
  BY DEF ViewTables
<1>2. n \in Nat
  BY PartsAssumption DEF Binding!PipelinesAllowed
<1>3. t \in Seq(Textures \cup {Nothing})
  BY <1>1, <1>2, SeqDef
<1> QED BY <1>3, LenProperties

LEMMA TableMade ==
  ASSUME NEW n \in 0 .. MaxSlots, NEW v \in [Binding!Slots -> Textures \cup {Nothing}]
  PROVE  [i \in 1 .. n |-> v[i]] \in ViewTables
<1>1. MaxSlots \in Nat /\ n \in Nat
  BY PartsAssumption DEF Binding!PipelinesAllowed
<1>2. 1 .. n \subseteq Binding!Slots
  BY <1>1 DEF Binding!Slots
<1>3. [i \in 1 .. n |-> v[i]] \in [1 .. n -> Textures \cup {Nothing}]
  BY <1>2
<1> QED BY <1>3 DEF ViewTables

LEMMA EmptyTable == <<>> \in ViewTables
<1>1. MaxSlots \in Nat
  BY PartsAssumption DEF Binding!PipelinesAllowed
<1>2. <<>> \in [1 .. 0 -> Textures \cup {Nothing}]
  OBVIOUS
<1> QED BY <1>1, <1>2 DEF ViewTables

\* The fields of a list, as the lemmas use them.
LEMMA ListFields ==
  /\ \A l \in Binding!Lists :
       /\ l.pso \in Binding!Pipelines \cup {Nothing}
       /\ l.topology \in {PrimitiveOf[p] : p \in Graphics} \cup {Undefined}
       /\ l.root \in [Binding!Stages ->
                        {RootOf[p] : p \in Binding!Pipelines} \cup {Nothing}]
       /\ l.table \in [Binding!Stages -> ViewTables]
  /\ \A p \in Binding!Pipelines \cup {Nothing},
        t \in {PrimitiveOf[q] : q \in Graphics} \cup {Undefined},
        r \in [Binding!Stages ->
                 {RootOf[q] : q \in Binding!Pipelines} \cup {Nothing}],
        v \in [Binding!Stages -> ViewTables] :
       [pso |-> p, topology |-> t, root |-> r, table |-> v] \in Binding!Lists
  BY DEF Binding!Lists, ViewTables

\* Setting one field of a list keeps the others.
LEMMA SetPsoOf ==
  ASSUME NEW l \in Binding!Lists, NEW p \in Binding!Pipelines \cup {Nothing}
  PROVE  /\ [l EXCEPT !.pso = p] \in Binding!Lists
         /\ [l EXCEPT !.pso = p].pso = p
         /\ [l EXCEPT !.pso = p].topology = l.topology
         /\ [l EXCEPT !.pso = p].root = l.root
         /\ [l EXCEPT !.pso = p].table = l.table
  BY DEF Binding!Lists

LEMMA SetTopologyOf ==
  ASSUME NEW l \in Binding!Lists,
         NEW t \in {PrimitiveOf[q] : q \in Graphics} \cup {Undefined}
  PROVE  /\ [l EXCEPT !.topology = t] \in Binding!Lists
         /\ [l EXCEPT !.topology = t].pso = l.pso
         /\ [l EXCEPT !.topology = t].topology = t
         /\ [l EXCEPT !.topology = t].root = l.root
         /\ [l EXCEPT !.topology = t].table = l.table
  BY DEF Binding!Lists

LEMMA SetTablesOf ==
  ASSUME NEW l \in Binding!Lists, NEW v \in [Binding!Stages -> ViewTables]
  PROVE  /\ [l EXCEPT !.table = v] \in Binding!Lists
         /\ [l EXCEPT !.table = v].pso = l.pso
         /\ [l EXCEPT !.table = v].topology = l.topology
         /\ [l EXCEPT !.table = v].root = l.root
         /\ [l EXCEPT !.table = v].table = v
  BY DEF Binding!Lists, ViewTables

WithTable(l, s, v) == [l EXCEPT !.table[s] = v]
LEMMA SetTableOf ==
  ASSUME NEW l \in Binding!Lists, NEW s \in Binding!Stages, NEW v \in ViewTables
  PROVE  /\ WithTable(l, s, v) \in Binding!Lists
         /\ WithTable(l, s, v).pso = l.pso
         /\ WithTable(l, s, v).topology = l.topology
         /\ WithTable(l, s, v).root = l.root
         /\ WithTable(l, s, v).table = [l.table EXCEPT ![s] = v]
<1>1. PICK w \in [Binding!Stages -> ViewTables] : w = [l.table EXCEPT ![s] = v]
  BY ListFields
<1>2. WithTable(l, s, v) = [l EXCEPT !.table = w]
  BY <1>1 DEF Binding!Lists, WithTable
<1>3. /\ [l EXCEPT !.table = w] \in Binding!Lists
      /\ [l EXCEPT !.table = w].pso = l.pso
      /\ [l EXCEPT !.table = w].topology = l.topology
      /\ [l EXCEPT !.table = w].root = l.root
      /\ [l EXCEPT !.table = w].table = w
  BY SetTablesOf
<1> QED BY <1>1, <1>2, <1>3

WithRoot(l, s, p) == [l EXCEPT !.root[s] = RootOf[p]]
LEMMA SetRootOf ==
  ASSUME NEW l \in Binding!Lists, NEW s \in Binding!Stages, NEW v \in ViewTables,
         NEW p \in Binding!Pipelines
  PROVE  /\ WithTable(WithRoot(l, s, p), s, v) \in Binding!Lists
         /\ WithTable(WithRoot(l, s, p), s, v).pso = l.pso
         /\ WithTable(WithRoot(l, s, p), s, v).topology = l.topology
         /\ WithTable(WithRoot(l, s, p), s, v).root
              = [l.root EXCEPT ![s] = RootOf[p]]
         /\ WithTable(WithRoot(l, s, p), s, v).table
              = [l.table EXCEPT ![s] = v]
<1>1. PICK k : k = WithRoot(l, s, p)
  OBVIOUS
<1>2. /\ k \in Binding!Lists /\ k.pso = l.pso /\ k.topology = l.topology
      /\ k.root = [l.root EXCEPT ![s] = RootOf[p]] /\ k.table = l.table
  BY <1>1 DEF Binding!Lists, WithRoot
<1>3. /\ WithTable(k, s, v) \in Binding!Lists
      /\ WithTable(k, s, v).pso = k.pso
      /\ WithTable(k, s, v).topology = k.topology
      /\ WithTable(k, s, v).root = k.root
      /\ WithTable(k, s, v).table = [k.table EXCEPT ![s] = v]
  BY <1>2, SetTableOf
<1> QED BY <1>1, <1>2, <1>3

\* SetSRVs sets the table of a stage if one of the views it reads is marked, and
\* then every slot it does not mark holds the view bound.
LEMMA SetSRVsHolds ==
  ASSUME BindInv, NEW s \in Binding!Stages, NEW l \in Binding!Lists,
         NEW d \in [Binding!Stages -> SUBSET Binding!Slots],
         ClearSlotsHeld(l, d)
  PROVE  /\ Binding!SetSRVs(s, l, d).list \in Binding!Lists
         /\ Binding!SetSRVs(s, l, d).list.pso = l.pso
         /\ Binding!SetSRVs(s, l, d).list.root = l.root
         /\ Binding!SetSRVs(s, l, d).list.topology = l.topology
         /\ Binding!SetSRVs(s, l, d).dirty
              \in [Binding!Stages -> SUBSET Binding!Slots]
         /\ ClearSlotsHeld(Binding!SetSRVs(s, l, d).list,
                           Binding!SetSRVs(s, l, d).dirty)
         /\ \A i \in 1 .. count[s] :
              /\ i \in DOMAIN Binding!SetSRVs(s, l, d).list.table[s]
              /\ Binding!SetSRVs(s, l, d).list.table[s][i] = view[s][i]
<1>0. /\ count[s] \in 0 .. MaxSlots /\ MaxSlots \in Nat
      /\ view \in [Binding!Stages -> [Binding!Slots -> Textures \cup {Nothing}]]
  BY PartsAssumption DEF BindInv, Binding!TypeOK, Binding!PipelinesAllowed
<1>1. /\ Binding!Read(s) = 1 .. count[s]
      /\ Binding!Read(s) \subseteq Binding!Slots
  BY <1>0 DEF Binding!Read, Binding!Slots
<1>2. CASE d[s] \cap Binding!Read(s) = {}
  <2>1. /\ Binding!SetSRVs(s, l, d).list = l
        /\ Binding!SetSRVs(s, l, d).dirty = d
    BY <1>2 DEF Binding!SetSRVs
  <2>2. ASSUME NEW i \in 1 .. count[s]
        PROVE  i \in DOMAIN l.table[s] /\ l.table[s][i] = view[s][i]
    <3>1. i \in Binding!Slots \ d[s]
      BY <1>1, <1>2
    <3> QED BY <3>1 DEF ClearSlotsHeld
  <2> QED BY <2>1, <2>2
<1>3. CASE d[s] \cap Binding!Read(s) # {}
  <2>1. PICK v : v = [i \in Binding!Read(s) |-> view[s][i]]
    OBVIOUS
  <2>2. PICK m : m = WithTable(l, s, v)
    OBVIOUS
  <2>3. PICK e : e = [d EXCEPT ![s] = Binding!DirtyOutside(s, d[s])]
    OBVIOUS
  <2>4. /\ Binding!SetSRVs(s, l, d).list = m
        /\ Binding!SetSRVs(s, l, d).dirty = e
    BY <1>3, <2>1, <2>2, <2>3 DEF Binding!SetSRVs, WithTable
  <2>5. v \in ViewTables
    BY <1>0, <1>1, <2>1, TableMade
  <2>6. /\ m \in Binding!Lists /\ m.pso = l.pso /\ m.root = l.root
        /\ m.topology = l.topology /\ m.table = [l.table EXCEPT ![s] = v]
    BY <2>2, <2>5, SetTableOf
  <2>7. l.table \in [Binding!Stages -> ViewTables]
    BY ListFields
  <2>8. /\ m.table[s] = v
        /\ \A t \in Binding!Stages : t # s => m.table[t] = l.table[t]
    BY <2>6, <2>7
  <2>9. /\ e \in [Binding!Stages -> SUBSET Binding!Slots]
        /\ e[s] \cup Binding!Read(s) = Binding!Slots
        /\ \A t \in Binding!Stages : t # s => e[t] = d[t]
    BY <1>1, <2>3 DEF Binding!DirtyOutside
  <2>10. \A i \in Binding!Read(s) : i \in DOMAIN m.table[s]
                                   /\ m.table[s][i] = view[s][i]
    BY <2>1, <2>8
  <2>11. ClearSlotsHeld(m, e)
    <3>1. ASSUME NEW t \in Binding!Stages, NEW i \in Binding!Slots \ e[t]
          PROVE  i \in DOMAIN m.table[t] /\ m.table[t][i] = view[t][i]
      <4>1. CASE t = s
        BY <2>9, <2>10, <3>1, <4>1
      <4>2. CASE t # s
        BY <2>8, <2>9, <3>1, <4>2 DEF ClearSlotsHeld
      <4> QED BY <4>1, <4>2
    <3> QED BY <3>1 DEF ClearSlotsHeld
  <2> QED BY <1>1, <2>4, <2>6, <2>9, <2>10, <2>11
<1> QED BY <1>2, <1>3

\* What a draw or dispatch of stage s leaves on the list and in the mask: the
\* pipeline, root signature and topology of the stage and the views it reads,
\* also when the view heap is replaced.
LEMMA ApplyStateSets ==
  ASSUME BindInv, NEW s \in Binding!Stages, bound[s] # Nothing,
         NEW rolled \in BOOLEAN,
         NEW a, a = Binding!ApplyState(s, rolled)
  PROVE  /\ a.list \in Binding!Lists
         /\ a.dirty \in [Binding!Stages -> SUBSET Binding!Slots]
         /\ a.list.pso = bound[s] /\ a.list.root[s] = RootOf[bound[s]]
         /\ \A t \in Binding!Stages : t # s => a.list.root[t] = list.root[t]
         /\ a.list.topology = IF s = "graphics" /\ needTopology THEN primitive
                              ELSE list.topology
         /\ ClearSlotsHeld(a.list, a.dirty)
         /\ \A i \in 1 .. Count[bound[s]] :
              i \in DOMAIN a.list.table[s] /\ a.list.table[s][i] = view[s][i]
<1>0. /\ PipelineKnown /\ RootsKnown /\ CountsKnown /\ ClearSlotsHeld(list, dirty)
      /\ list \in Binding!Lists
      /\ dirty \in [Binding!Stages -> SUBSET Binding!Slots]
      /\ primitive \in {PrimitiveOf[q] : q \in Graphics} \cup {Undefined}
      /\ bound[s] \in Binding!Pipelines
  BY DEF BindInv, Binding!TypeOK
<1>1. PICK l1 : l1 = Binding!SetRootSignature(s, list)
  OBVIOUS
<1>2. PICK d : d = Binding!DirtyForRoot(s)
  OBVIOUS
<1>3. list.root \in [Binding!Stages ->
                       {RootOf[p] : p \in Binding!Pipelines} \cup {Nothing}]
      /\ list.table \in [Binding!Stages -> ViewTables]
  BY <1>0, ListFields
<1>4. /\ l1 \in Binding!Lists /\ l1.pso = list.pso /\ l1.topology = list.topology
      /\ l1.root[s] = RootOf[bound[s]]
      /\ \A t \in Binding!Stages : t # s => l1.root[t] = list.root[t]
      /\ d \in [Binding!Stages -> SUBSET Binding!Slots] /\ ClearSlotsHeld(l1, d)
  <2>1. CASE s \in needRoot
    <3>1. l1 = [list EXCEPT !.root[s] = RootOf[bound[s]], !.table[s] = <<>>]
      BY <1>1, <2>1 DEF Binding!SetRootSignature, Binding!NoTable
    <3>2. d = [dirty EXCEPT ![s] = Binding!Slots]
      BY <1>2, <2>1 DEF Binding!DirtyForRoot
    <3>5. PICK p \in Binding!Pipelines, v \in ViewTables : p = bound[s] /\ v = <<>>
      BY <1>0, EmptyTable
    <3>6. l1 = WithTable(WithRoot(list, s, p), s, v)
      BY <1>0, <3>1, <3>5 DEF WithTable, WithRoot, Binding!Lists
    <3>3. /\ l1 \in Binding!Lists /\ l1.pso = list.pso
          /\ l1.topology = list.topology
          /\ l1.root = [list.root EXCEPT ![s] = RootOf[bound[s]]]
          /\ l1.table = [list.table EXCEPT ![s] = <<>>]
      BY <1>0, <3>5, <3>6, SetRootOf
    <3>4. ASSUME NEW t \in Binding!Stages, NEW i \in Binding!Slots \ d[t]
          PROVE  i \in DOMAIN l1.table[t] /\ l1.table[t][i] = view[t][i]
      <4>1. t # s /\ d[t] = dirty[t]
        BY <1>0, <3>2, <3>4
      <4>2. l1.table[t] = list.table[t]
        BY <1>3, <3>3, <4>1
      <4> QED BY <1>0, <3>4, <4>1, <4>2 DEF ClearSlotsHeld
    <3> QED BY <1>0, <1>3, <3>2, <3>3, <3>4 DEF ClearSlotsHeld
  <2>2. CASE s \notin needRoot
    <3>1. l1 = list /\ d = dirty
      BY <1>1, <1>2, <2>2 DEF Binding!SetRootSignature, Binding!DirtyForRoot
    <3> QED BY <1>0, <2>2, <3>1 DEF RootsKnown
  <2> QED BY <2>1, <2>2
<1>5. PICK l2 : l2 = Binding!InternalSetPipelineState(bound[s], l1)
  OBVIOUS
<1>6. /\ l2 \in Binding!Lists /\ l2.pso = bound[s] /\ l2.topology = l1.topology
      /\ l2.root = l1.root /\ l2.table = l1.table
  <2>1. CASE needPSO \/ pso # bound[s]
    <3>1. l2 = [l1 EXCEPT !.pso = bound[s]]
      BY <1>5, <2>1 DEF Binding!InternalSetPipelineState
    <3> QED BY <1>0, <1>4, <3>1, SetPsoOf
  <2>2. CASE ~ needPSO /\ pso = bound[s]
    BY <1>0, <1>4, <1>5, <2>2
    DEF Binding!InternalSetPipelineState, PipelineKnown
  <2> QED BY <2>1, <2>2
<1>7. PICK l : l = Binding!SetTopology(s, l2)
  OBVIOUS
<1>8. /\ l \in Binding!Lists /\ l.pso = bound[s] /\ l.root = l1.root
      /\ l.table = l1.table
      /\ l.topology = IF s = "graphics" /\ needTopology THEN primitive
                      ELSE list.topology
  <2>1. CASE s = "graphics" /\ needTopology
    <3>1. l = [l2 EXCEPT !.topology = primitive]
      BY <1>7, <2>1 DEF Binding!SetTopology
    <3> QED BY <1>0, <1>6, <2>1, <3>1, SetTopologyOf
  <2>2. CASE ~ (s = "graphics" /\ needTopology)
    BY <1>4, <1>6, <1>7, <2>2 DEF Binding!SetTopology
  <2> QED BY <2>1, <2>2
<1>9. ClearSlotsHeld(l, d)
  BY <1>4, <1>8 DEF ClearSlotsHeld
<1>10. PICK r : r = [l EXCEPT !.table = [t \in Binding!Stages |-> <<>>]]
  OBVIOUS
<1>11. /\ r \in Binding!Lists /\ r.pso = l.pso /\ r.root = l.root
       /\ r.topology = l.topology
  BY <1>8, <1>10, SetTablesOf, EmptyTable
<1>12. ClearSlotsHeld(r, Binding!AllDirty)
  BY DEF ClearSlotsHeld, Binding!AllDirty
<1>13. Binding!AllDirty \in [Binding!Stages -> SUBSET Binding!Slots]
  BY DEF Binding!AllDirty
<1>14. count[s] = Count[bound[s]]
  BY <1>0 DEF CountsKnown
<1>15. a = Binding!SetSRVs(s, l, d) \/ a = Binding!SetSRVs(s, r, Binding!AllDirty)
  BY <1>1, <1>2, <1>5, <1>7, <1>10 DEF Binding!ApplyState, Binding!NoTable
<1>16. CASE a = Binding!SetSRVs(s, l, d)
  <2>1. /\ a.list \in Binding!Lists /\ a.list.pso = l.pso /\ a.list.root = l.root
        /\ a.list.topology = l.topology
        /\ a.dirty \in [Binding!Stages -> SUBSET Binding!Slots]
        /\ ClearSlotsHeld(a.list, a.dirty)
        /\ \A i \in 1 .. count[s] :
             i \in DOMAIN a.list.table[s] /\ a.list.table[s][i] = view[s][i]
    BY <1>4, <1>8, <1>9, <1>16, SetSRVsHolds
  <2> QED BY <1>4, <1>8, <1>14, <2>1
<1>17. CASE a = Binding!SetSRVs(s, r, Binding!AllDirty)
  <2>1. /\ a.list \in Binding!Lists /\ a.list.pso = r.pso /\ a.list.root = r.root
        /\ a.list.topology = r.topology
        /\ a.dirty \in [Binding!Stages -> SUBSET Binding!Slots]
        /\ ClearSlotsHeld(a.list, a.dirty)
        /\ \A i \in 1 .. count[s] :
             i \in DOMAIN a.list.table[s] /\ a.list.table[s][i] = view[s][i]
    BY <1>11, <1>12, <1>13, <1>17, SetSRVsHolds
  <2> QED BY <1>4, <1>8, <1>11, <1>14, <2>1
<1> QED BY <1>15, <1>16, <1>17

LEMMA InitBindInv == Binding!Init => BindInv
<1> SUFFICES ASSUME Binding!Init PROVE BindInv
  OBVIOUS
<1>0. /\ PartsAssumption /\ MaxSlots \in Nat
      /\ "graphics" \in Binding!Stages /\ "compute" \in Binding!Stages
  BY PartsAssumption DEF Binding!PipelinesAllowed, Binding!Stages
<1>1. /\ bound = [s \in Binding!Stages |-> Nothing]
      /\ pso = Nothing /\ primitive = Undefined
      /\ needPSO = TRUE /\ needRoot = Binding!Stages /\ needTopology = TRUE
      /\ count = [s \in Binding!Stages |-> 0] /\ view = Binding!NoViews
      /\ dirty = Binding!AllDirty /\ list = Binding!NewList /\ work = FALSE
  BY DEF Binding!Init
<1>2. Binding!NewList \in Binding!Lists
  BY EmptyTable, ListFields DEF Binding!NewList, Binding!NoTable
<1>3. Binding!TypeOK
  <2>1. bound["graphics"] = Nothing /\ bound["compute"] = Nothing
    BY <1>0, <1>1
  <2>2. /\ count \in [Binding!Stages -> 0 .. MaxSlots]
        /\ dirty \in [Binding!Stages -> SUBSET Binding!Slots]
    BY <1>0, <1>1 DEF Binding!AllDirty
  <2>3. view \in [Binding!Stages -> [Binding!Slots -> Textures \cup {Nothing}]]
    BY <1>1 DEF Binding!NoViews
  <2> QED BY <1>1, <1>2, <2>1, <2>2, <2>3 DEF Binding!TypeOK
<1>4. ClearSlotsHeld(list, dirty)
  BY <1>1 DEF ClearSlotsHeld, Binding!AllDirty
<1> QED BY <1>0, <1>1, <1>3, <1>4
    DEF BindInv, PipelineKnown, RootsKnown, TopologyKnown, CountsKnown

\* A list that is opened has nothing on it, and everything is flagged.
LEMMA OpenedKnown ==
  ASSUME Binding!OpenCommandList
  PROVE  /\ needPSO' \in BOOLEAN /\ needRoot' \subseteq Binding!Stages
         /\ needTopology' \in BOOLEAN /\ work' \in BOOLEAN
         /\ list' \in Binding!Lists
         /\ dirty' \in [Binding!Stages -> SUBSET Binding!Slots]
         /\ PipelineKnown' /\ RootsKnown' /\ needTopology'
         /\ ClearSlotsHeld(list, dirty)'
<1>1. Binding!NewList \in Binding!Lists
  BY EmptyTable, ListFields DEF Binding!NewList, Binding!NoTable
<1> QED
  BY <1>1 DEF Binding!OpenCommandList, Binding!AllDirty, PipelineKnown,
     RootsKnown, ClearSlotsHeld

\* A pipeline new to its stage goes to the list at once, its root signature is
\* flagged if it differs.
LEMMA SetPipelineKnown ==
  ASSUME BindInv, NEW s \in Binding!Stages, NEW p \in Binding!Pipelines,
         Binding!SetPipeline(s, p)
  PROVE  /\ bound' \in [Binding!Stages -> Binding!Pipelines \cup {Nothing}]
         /\ bound'[s] = p /\ pso' = p /\ needPSO' = FALSE
         /\ \A t \in Binding!Stages : t # s => bound'[t] = bound[t]
         /\ needRoot' \subseteq Binding!Stages
         /\ count' \in [Binding!Stages -> 0 .. MaxSlots]
         /\ list' \in Binding!Lists /\ list'.topology = list.topology
         /\ PipelineKnown' /\ RootsKnown' /\ CountsKnown'
         /\ ClearSlotsHeld(list, dirty)'
<1>0. /\ list \in Binding!Lists /\ needRoot \subseteq Binding!Stages
      /\ bound \in [Binding!Stages -> Binding!Pipelines \cup {Nothing}]
      /\ count \in [Binding!Stages -> 0 .. MaxSlots]
      /\ RootsKnown /\ CountsKnown /\ ClearSlotsHeld(list, dirty)
  BY DEF BindInv, Binding!TypeOK
<1>1. /\ bound' = [bound EXCEPT ![s] = p] /\ pso' = p /\ needPSO' = FALSE
      /\ count' = [count EXCEPT ![s] = Count[p]]
      /\ needRoot' = IF Binding!Root(bound[s]) # RootOf[p]
                     THEN needRoot \cup {s} ELSE needRoot
      /\ list' = [list EXCEPT !.pso = p]
      /\ view' = view /\ dirty' = dirty
  BY DEF Binding!SetPipeline
<1>2. Count[p] \in 0 .. MaxSlots /\ Nothing # p /\ RootOf[p] # Nothing
  BY PartsAssumption DEF Binding!PipelinesAllowed
<1>3. /\ list' \in Binding!Lists /\ list'.pso = p
      /\ list'.topology = list.topology /\ list'.root = list.root
      /\ list'.table = list.table
  BY <1>0, <1>1, SetPsoOf
<1>4. \A t \in Binding!Stages :
        bound'[t] = IF t = s THEN p ELSE bound[t]
  BY <1>0, <1>1
<1>5. RootsKnown'
  <2>1. ASSUME NEW t \in Binding!Stages, bound'[t] # Nothing, t \notin needRoot'
        PROVE  list'.root[t] = RootOf[bound'[t]]
    <3>1. CASE t = s
      <4>1. Binding!Root(bound[s]) = RootOf[p] /\ s \notin needRoot
        BY <1>1, <2>1, <3>1
      <4>2. bound[s] # Nothing /\ RootOf[bound[s]] = RootOf[p]
        BY <1>2, <4>1 DEF Binding!Root
      <4> QED BY <1>0, <1>3, <1>4, <3>1, <4>1, <4>2 DEF RootsKnown
    <3>2. CASE t # s
      <4>1. t \notin needRoot
        BY <1>1, <2>1
      <4> QED BY <1>0, <1>3, <1>4, <2>1, <3>2, <4>1 DEF RootsKnown
    <3> QED BY <3>1, <3>2
  <2> QED BY <2>1 DEF RootsKnown
<1>6. CountsKnown'
  <2>1. ASSUME NEW t \in Binding!Stages, bound'[t] # Nothing
        PROVE  count'[t] = Count[bound'[t]]
    BY <1>0, <1>1, <1>4, <2>1 DEF CountsKnown
  <2> QED BY <2>1 DEF CountsKnown
<1>7. ClearSlotsHeld(list, dirty)'
  BY <1>0, <1>1, <1>3 DEF ClearSlotsHeld
<1>8. PipelineKnown'
  BY <1>1, <1>3 DEF PipelineKnown
<1> QED BY <1>0, <1>1, <1>2, <1>3, <1>4, <1>5, <1>6, <1>7, <1>8

\* A draw or dispatch of stage s.
LEMMA ApplyKnown ==
  ASSUME BindInv, NEW s \in Binding!Stages, NEW rolled \in BOOLEAN,
         Binding!Apply(s, rolled), UNCHANGED <<bound, primitive, count, view>>
  PROVE  /\ list' \in Binding!Lists
         /\ dirty' \in [Binding!Stages -> SUBSET Binding!Slots]
         /\ pso' = bound[s] /\ needPSO' \in BOOLEAN
         /\ needRoot' \subseteq Binding!Stages
         /\ PipelineKnown' /\ RootsKnown' /\ CountsKnown'
         /\ ClearSlotsHeld(list, dirty)'
         /\ list'.topology = IF s = "graphics" /\ needTopology THEN primitive
                             ELSE list.topology
<1>0. /\ needRoot \subseteq Binding!Stages /\ RootsKnown /\ CountsKnown
  BY DEF BindInv, Binding!TypeOK
<1>1. PICK a : a = Binding!ApplyState(s, rolled)
  OBVIOUS
<1>2. /\ bound[s] # Nothing /\ list' = a.list /\ dirty' = a.dirty
      /\ pso' = bound[s] /\ needPSO' = FALSE /\ needRoot' = needRoot \ {s}
  BY <1>1 DEF Binding!Apply
<1>3. /\ a.list \in Binding!Lists
      /\ a.dirty \in [Binding!Stages -> SUBSET Binding!Slots]
      /\ a.list.pso = bound[s] /\ a.list.root[s] = RootOf[bound[s]]
      /\ \A t \in Binding!Stages : t # s => a.list.root[t] = list.root[t]
      /\ a.list.topology = IF s = "graphics" /\ needTopology THEN primitive
                           ELSE list.topology
      /\ ClearSlotsHeld(a.list, a.dirty)
  BY <1>1, <1>2, ApplyStateSets
<1>4. RootsKnown'
  BY <1>0, <1>2, <1>3 DEF RootsKnown
<1>5. ClearSlotsHeld(list, dirty)'
  BY <1>2, <1>3 DEF ClearSlotsHeld
<1> QED BY <1>0, <1>2, <1>3, <1>4, <1>5 DEF PipelineKnown, CountsKnown

\* Every call of the renderer keeps the invariant.
LEMMA NextBindInv == BindInv /\ [Binding!Next]_(Binding!vars) => BindInv'
<1> SUFFICES ASSUME BindInv, [Binding!Next]_(Binding!vars) PROVE BindInv'
  OBVIOUS
<1>0. /\ Binding!TypeOK /\ PipelineKnown /\ RootsKnown /\ TopologyKnown
      /\ CountsKnown /\ ClearSlotsHeld(list, dirty)
      /\ bound \in [Binding!Stages -> Binding!Pipelines \cup {Nothing}]
  BY DEF BindInv
<1>c. MaxSlots \in Nat
  BY PartsAssumption DEF Binding!PipelinesAllowed
<1>s. "graphics" \in Binding!Stages /\ "compute" \in Binding!Stages
      /\ Binding!Stages = {"graphics", "compute"}
  BY DEF Binding!Stages
<1>1. ASSUME NEW p \in Graphics, Binding!SetGraphicsPipelineState(p) PROVE BindInv'
  <2>1. /\ Binding!SetPipeline("graphics", p) /\ primitive' = PrimitiveOf[p]
        /\ needTopology' = (needTopology \/ primitive # PrimitiveOf[p])
        /\ UNCHANGED <<view, dirty, work>>
    BY <1>1 DEF Binding!SetGraphicsPipelineState, Binding!SetPipeline
  <2>2. p \in Binding!Pipelines
    BY DEF Binding!Pipelines
  <2>3. /\ bound' \in [Binding!Stages -> Binding!Pipelines \cup {Nothing}]
        /\ bound'["graphics"] = p /\ pso' = p /\ needPSO' = FALSE
        /\ bound'["compute"] = bound["compute"]
        /\ needRoot' \subseteq Binding!Stages
        /\ count' \in [Binding!Stages -> 0 .. MaxSlots]
        /\ list' \in Binding!Lists /\ list'.topology = list.topology
        /\ PipelineKnown' /\ RootsKnown' /\ CountsKnown'
        /\ ClearSlotsHeld(list, dirty)'
    BY <1>s, <2>1, <2>2, SetPipelineKnown
  <2>4. Binding!TypeOK'
    BY <1>0, <2>1, <2>3 DEF Binding!TypeOK
  <2>5. TopologyKnown'
    BY <1>0, <2>1, <2>3 DEF TopologyKnown
  <2> QED BY <2>3, <2>4, <2>5 DEF BindInv
<1>2. ASSUME NEW p \in Compute, Binding!SetComputeShader(p) PROVE BindInv'
  <2>1. /\ Binding!SetPipeline("compute", p)
        /\ UNCHANGED <<primitive, needTopology, view, dirty, work>>
    BY <1>2 DEF Binding!SetComputeShader, Binding!SetPipeline
  <2>2. p \in Binding!Pipelines
    BY DEF Binding!Pipelines
  <2>3. /\ bound' \in [Binding!Stages -> Binding!Pipelines \cup {Nothing}]
        /\ bound'["compute"] = p /\ pso' = p /\ needPSO' = FALSE
        /\ bound'["graphics"] = bound["graphics"]
        /\ needRoot' \subseteq Binding!Stages
        /\ count' \in [Binding!Stages -> 0 .. MaxSlots]
        /\ list' \in Binding!Lists /\ list'.topology = list.topology
        /\ PipelineKnown' /\ RootsKnown' /\ CountsKnown'
        /\ ClearSlotsHeld(list, dirty)'
    BY <1>s, <2>1, <2>2, SetPipelineKnown
  <2>4. Binding!TypeOK'
    BY <1>0, <2>1, <2>3 DEF Binding!TypeOK
  <2>5. TopologyKnown'
    BY <1>0, <2>1, <2>3 DEF TopologyKnown
  <2> QED BY <2>3, <2>4, <2>5 DEF BindInv
<1>3. ASSUME NEW s \in Binding!Stages, NEW i \in Binding!Slots,
             NEW v \in Textures \cup {Nothing},
             Binding!SetShaderResourceView(s, i, v)
      PROVE  BindInv'
  <2>1. /\ view' = [view EXCEPT ![s][i] = v]
        /\ dirty' = [dirty EXCEPT ![s] = @ \cup {i}]
        /\ UNCHANGED <<bound, pso, primitive, needPSO, needRoot, needTopology,
                       count, list, work>>
    BY <1>3 DEF Binding!SetShaderResourceView, Binding!flags
  <2>2. /\ view \in [Binding!Stages -> [Binding!Slots -> Textures \cup {Nothing}]]
        /\ dirty \in [Binding!Stages -> SUBSET Binding!Slots]
    BY <1>0 DEF Binding!TypeOK
  <2>3. /\ view' \in [Binding!Stages -> [Binding!Slots -> Textures \cup {Nothing}]]
        /\ dirty' \in [Binding!Stages -> SUBSET Binding!Slots]
    BY <2>1, <2>2
  <2>4. Binding!TypeOK'
    BY <1>0, <2>1, <2>3 DEF Binding!TypeOK
  <2>5. ASSUME NEW t \in Binding!Stages, NEW j \in Binding!Slots \ dirty'[t]
        PROVE  j \in Binding!Slots \ dirty[t] /\ view'[t][j] = view[t][j]
    BY <2>1, <2>2, <2>5
  <2>6. ClearSlotsHeld(list, dirty)'
    BY <1>0, <2>1, <2>5 DEF ClearSlotsHeld
  <2>7. PipelineKnown' /\ RootsKnown' /\ TopologyKnown' /\ CountsKnown'
    BY <1>0, <2>1 DEF PipelineKnown, RootsKnown, TopologyKnown, CountsKnown
  <2> QED BY <1>0, <2>1, <2>4, <2>6, <2>7 DEF BindInv
<1>4. ASSUME NEW rolled \in BOOLEAN, Binding!DrawPrimitive(rolled) PROVE BindInv'
  <2>1. /\ Binding!Apply("graphics", rolled) /\ needTopology' = FALSE
        /\ work' = TRUE /\ UNCHANGED <<bound, primitive, count, view>>
    BY <1>4 DEF Binding!DrawPrimitive
  <2>2. /\ list' \in Binding!Lists
        /\ dirty' \in [Binding!Stages -> SUBSET Binding!Slots]
        /\ pso' = bound["graphics"] /\ needPSO' \in BOOLEAN
        /\ needRoot' \subseteq Binding!Stages
        /\ PipelineKnown' /\ RootsKnown' /\ CountsKnown'
        /\ ClearSlotsHeld(list, dirty)'
        /\ list'.topology = IF needTopology THEN primitive ELSE list.topology
    BY <1>s, <2>1, ApplyKnown
  <2>3. Binding!TypeOK'
    BY <1>0, <2>1, <2>2 DEF Binding!TypeOK
  <2>4. TopologyKnown'
    BY <1>0, <2>1, <2>2 DEF TopologyKnown
  <2> QED BY <1>0, <2>1, <2>2, <2>3, <2>4 DEF BindInv
<1>5. ASSUME NEW rolled \in BOOLEAN, Binding!DispatchComputeShader(rolled)
      PROVE  BindInv'
  <2>1. /\ Binding!Apply("compute", rolled) /\ work' \in {work, TRUE}
        /\ UNCHANGED <<bound, primitive, needTopology, count, view>>
    BY <1>5 DEF Binding!DispatchComputeShader
  <2>2. /\ list' \in Binding!Lists
        /\ dirty' \in [Binding!Stages -> SUBSET Binding!Slots]
        /\ pso' = bound["compute"] /\ needPSO' \in BOOLEAN
        /\ needRoot' \subseteq Binding!Stages
        /\ PipelineKnown' /\ RootsKnown' /\ CountsKnown'
        /\ ClearSlotsHeld(list, dirty)'
        /\ list'.topology = list.topology
    BY <1>s, <2>1, ApplyKnown
  <2>3. Binding!TypeOK'
    BY <1>0, <2>1, <2>2 DEF Binding!TypeOK
  <2>4. TopologyKnown'
    <3>1. ASSUME ~ needTopology PROVE work'
      <4>1. work = TRUE
        BY <1>0, <3>1 DEF TopologyKnown, Binding!TypeOK
      <4> QED BY <2>1, <4>1
    <3> QED BY <1>0, <2>1, <2>2, <3>1 DEF TopologyKnown
  <2> QED BY <1>0, <2>1, <2>2, <2>3, <2>4 DEF BindInv
<1>6. CASE Binding!FlushCommands
  <2>1. Binding!OpenCommandList /\ UNCHANGED <<bound, pso, primitive, count, view>>
    BY <1>6 DEF Binding!FlushCommands
  <2>2. /\ needPSO' \in BOOLEAN /\ needRoot' \subseteq Binding!Stages
        /\ needTopology' \in BOOLEAN /\ work' \in BOOLEAN
        /\ list' \in Binding!Lists
        /\ dirty' \in [Binding!Stages -> SUBSET Binding!Slots]
        /\ PipelineKnown' /\ RootsKnown' /\ needTopology'
        /\ ClearSlotsHeld(list, dirty)'
    BY <2>1, OpenedKnown
  <2>3. Binding!TypeOK'
    BY <1>0, <2>1, <2>2 DEF Binding!TypeOK
  <2>4. TopologyKnown' /\ CountsKnown'
    BY <1>0, <2>1, <2>2 DEF TopologyKnown, CountsKnown
  <2> QED BY <1>0, <2>1, <2>2, <2>3, <2>4 DEF BindInv
<1>7. CASE Binding!EndFrame
  <2>1. /\ bound' = [s \in Binding!Stages |-> Nothing] /\ pso' = Nothing
        /\ primitive' = Undefined
        /\ count' = [s \in Binding!Stages |-> 0] /\ view' = Binding!NoViews
        /\ dirty' = Binding!AllDirty
    BY <1>7 DEF Binding!EndFrame, Binding!ClearState
  <2>2. \/ Binding!OpenCommandList
        \/ ~ work /\ UNCHANGED <<needPSO, needRoot, needTopology, list, work>>
    BY <1>7 DEF Binding!EndFrame, Binding!flags
  <2>3. /\ needPSO' \in BOOLEAN /\ needRoot' \subseteq Binding!Stages
        /\ needTopology' \in BOOLEAN /\ work' \in BOOLEAN
        /\ list' \in Binding!Lists /\ needTopology'
    <3>1. CASE Binding!OpenCommandList
      BY <3>1, OpenedKnown
    <3>2. CASE ~ work /\ UNCHANGED <<needPSO, needRoot, needTopology, list, work>>
      BY <1>0, <3>2 DEF Binding!TypeOK, TopologyKnown
    <3> QED BY <2>2, <3>1, <3>2
  <2>4. bound'["graphics"] = Nothing /\ bound'["compute"] = Nothing
    BY <1>s, <2>1
  <2>5. /\ count' \in [Binding!Stages -> 0 .. MaxSlots]
        /\ dirty' \in [Binding!Stages -> SUBSET Binding!Slots]
        /\ view' \in [Binding!Stages -> [Binding!Slots -> Textures \cup {Nothing}]]
    BY <1>c, <2>1 DEF Binding!AllDirty, Binding!NoViews
  <2>6. Binding!TypeOK'
    BY <2>1, <2>3, <2>4, <2>5 DEF Binding!TypeOK
  <2>7. PipelineKnown' /\ RootsKnown' /\ TopologyKnown' /\ CountsKnown'
    BY <1>s, <2>1, <2>3
    DEF PipelineKnown, RootsKnown, TopologyKnown, CountsKnown
  <2>8. ClearSlotsHeld(list, dirty)'
    BY <2>1 DEF ClearSlotsHeld, Binding!AllDirty
  <2> QED BY <2>1, <2>6, <2>7, <2>8 DEF BindInv
<1>8. CASE UNCHANGED Binding!vars
  <2>1. UNCHANGED <<bound, pso, primitive, needPSO, needRoot, needTopology,
                    count, view, dirty, list, work>>
    BY <1>8 DEF Binding!vars, Binding!flags
  <2> QED BY <1>0, <2>1
      DEF BindInv, Binding!TypeOK, PipelineKnown, RootsKnown, TopologyKnown,
          CountsKnown, ClearSlotsHeld
<1> QED
  BY <1>1, <1>2, <1>3, <1>4, <1>5, <1>6, <1>7, <1>8 DEF Binding!Next

\* What a draw or dispatch would run now is what the renderer asked for.
LEMMA BindInvSays ==
  BindInv => Binding!PipelineAsAsked /\ Binding!ViewsAsAsked
<1> DEFINE Says(s, a) ==
  /\ a.list.pso = bound[s] /\ a.list.root[s] = RootOf[bound[s]]
  /\ s = "graphics" => a.list.topology = PrimitiveOf[bound[s]]
  /\ \A i \in 1 .. Count[bound[s]] :
       i <= Len(a.list.table[s]) /\ a.list.table[s][i] = view[s][i]
<1> SUFFICES ASSUME BindInv, NEW s \in Binding!Stages, bound[s] # Nothing,
                    NEW rolled \in BOOLEAN
             PROVE  Says(s, Binding!ApplyState(s, rolled))
  <2> HIDE DEF Says
  <2>1. BindInv => \A s \in Binding!Stages : bound[s] # Nothing =>
                     Says(s, Binding!ApplyState(s, FALSE))
    BY Zenon
  <2> QED BY <2>1 DEF Says, Binding!PipelineAsAsked, Binding!ViewsAsAsked
<1>1. PICK a : a = Binding!ApplyState(s, rolled)
  OBVIOUS
<1>2. /\ a.list \in Binding!Lists
      /\ a.dirty \in [Binding!Stages -> SUBSET Binding!Slots]
      /\ a.list.pso = bound[s] /\ a.list.root[s] = RootOf[bound[s]]
      /\ \A t \in Binding!Stages : t # s => a.list.root[t] = list.root[t]
      /\ a.list.topology = IF s = "graphics" /\ needTopology THEN primitive
                           ELSE list.topology
      /\ ClearSlotsHeld(a.list, a.dirty)
      /\ \A i \in 1 .. Count[bound[s]] :
           i \in DOMAIN a.list.table[s] /\ a.list.table[s][i] = view[s][i]
  BY <1>1, ApplyStateSets
<1>3. a.list.table[s] \in ViewTables
  BY <1>2, ListFields
<1>4. PICK n \in Nat :
        n = Len(a.list.table[s]) /\ DOMAIN a.list.table[s] = 1 .. n
  BY <1>3, TableIsSequence
<1>5. s = "graphics" => a.list.topology = PrimitiveOf[bound[s]]
  BY <1>2 DEF BindInv, TopologyKnown
<1>6. ASSUME NEW i \in 1 .. Count[bound[s]]
      PROVE  i <= Len(a.list.table[s]) /\ a.list.table[s][i] = view[s][i]
  <2>1. i \in DOMAIN a.list.table[s] /\ a.list.table[s][i] = view[s][i]
    BY <1>2
  <2>2. i \in 1 .. n
    BY <1>4, <2>1
  <2>3. i <= n
    BY <2>2
  <2> QED BY <1>4, <2>1, <2>3
<1> QED BY <1>1, <1>2, <1>5, <1>6
-----------------------------------------------------------------------------
(* The rest of the state cache                                              *)

\* What was asked for in this frame is cached; buffers are asked for again
\* after each pipeline
AskedCached ==
  /\ \A p \in Drawing!Parts \ {"VB"} : cached[p] = asked[p]
  /\ asked["VB"] # Nothing => cached["VB"] = asked["VB"]

\* What is cached and not flagged is on the list
CachedSet ==
  \A p \in Drawing!Parts :
    cached[p] # Drawing!Unset[p] /\ p \notin need => drawList[p] = cached[p]

\* The targets the context compares with are those of the pass, or the last of
\* the frame before
TargetsRemembered ==
  IF asked["RTs"] = Nothing THEN current \in BackBuffers \cup {Nothing}
  ELSE current = asked["RTs"]

StridesOfPipeline == pipeline # Nothing => strides = Stride[pipeline]
IndexBufferSet == ibCache # Nothing => listIB = ibCache

\* The inductive invariant of the rest of the state cache.
DrawInv ==
  /\ Drawing!TypeOK
  /\ AskedCached
  /\ CachedSet
  /\ TargetsRemembered
  /\ StridesOfPipeline
  /\ IndexBufferSet

\* The fields of what is cached, asked for or set on a list.
LEMMA PartFields ==
  \A v : v \in Drawing!PartValues <=>
           /\ v = [p \in Drawing!Parts |-> v[p]]
           /\ v["VB"] \in Drawing!Views \cup {Nothing}
           /\ v["RTs"] \in (Colors \cup BackBuffers) \cup {Nothing}
           /\ v["Viewports"] \in Drawing!Sizes
           /\ v["ScissorRects"] \in Drawing!Sizes
  BY DEF Drawing!PartValues, Drawing!Parts

LEMMA UnsetFields ==
  /\ Drawing!Unset \in Drawing!PartValues
  /\ Drawing!Unset["VB"] = Nothing /\ Drawing!Unset["RTs"] = Nothing
  /\ Drawing!Unset["Viewports"] = 0 /\ Drawing!Unset["ScissorRects"] = 0
  /\ \A p \in Drawing!Parts : p \in {"VB", "RTs", "Viewports", "ScissorRects"}
  BY PartFields DEF Drawing!Unset, Drawing!Parts, Drawing!Rects, Drawing!Sizes

LEMMA InitDrawInv == Drawing!Init => DrawInv
<1> SUFFICES ASSUME Drawing!Init PROVE DrawInv
  OBVIOUS
<1>1. /\ current = Nothing /\ pipeline = Nothing /\ strides = 0
      /\ cached = Drawing!Unset /\ need \in SUBSET Drawing!Parts
      /\ ibCache = Nothing /\ drawList = Drawing!Unset /\ listIB = Nothing
      /\ drawWork = FALSE /\ asked = Drawing!Unset
  BY DEF Drawing!Init
<1>2. cached["ScissorRects"] = 0 /\ cached["Viewports"] = 0 /\ drawWork \in BOOLEAN
  BY <1>1, UnsetFields
<1>3. Drawing!TypeOK
  BY <1>1, <1>2, UnsetFields DEF Drawing!TypeOK
<1> QED
  BY <1>1, <1>3, UnsetFields
  DEF DrawInv, AskedCached, CachedSet, TargetsRemembered, StridesOfPipeline,
      IndexBufferSet

\* A draw sets on the list what is cached and flagged.
LEMMA AppliedHolds ==
  ASSUME DrawInv
  PROVE  /\ Drawing!AppliedTo(drawList) \in Drawing!PartValues
         /\ \A p \in Drawing!Parts : cached[p] # Drawing!Unset[p] =>
              Drawing!AppliedTo(drawList)[p] = cached[p]
<1>1. cached \in Drawing!PartValues /\ drawList \in Drawing!PartValues /\ CachedSet
  BY DEF DrawInv, Drawing!TypeOK
<1>2. \A p \in Drawing!Parts :
        Drawing!AppliedTo(drawList)[p] =
          IF p \in need /\ (p = "VB" => cached["VB"] # Nothing)
          THEN cached[p] ELSE drawList[p]
  BY DEF Drawing!AppliedTo
<1>3. \A p \in Drawing!Parts : cached[p] # Drawing!Unset[p] =>
        Drawing!AppliedTo(drawList)[p] = cached[p]
  BY <1>1, <1>2, UnsetFields DEF CachedSet
<1>4. Drawing!AppliedTo(drawList) =
        [p \in Drawing!Parts |-> Drawing!AppliedTo(drawList)[p]]
  BY DEF Drawing!AppliedTo
<1>5. /\ "VB" \in Drawing!Parts /\ "RTs" \in Drawing!Parts
      /\ "Viewports" \in Drawing!Parts /\ "ScissorRects" \in Drawing!Parts
  BY DEF Drawing!Parts
<1>6. Drawing!AppliedTo(drawList) \in Drawing!PartValues
  BY <1>1, <1>2, <1>4, <1>5, PartFields
<1> QED BY <1>3, <1>6

LEMMA NextDrawInv == DrawInv /\ [Drawing!Next]_(Drawing!vars) => DrawInv'
<1> SUFFICES ASSUME DrawInv, [Drawing!Next]_(Drawing!vars) PROVE DrawInv'
  OBVIOUS
<1>0. /\ Drawing!TypeOK /\ AskedCached /\ CachedSet /\ TargetsRemembered
      /\ StridesOfPipeline /\ IndexBufferSet
  BY DEF DrawInv
<1>p. /\ "VB" \in Drawing!Parts /\ "RTs" \in Drawing!Parts
      /\ "Viewports" \in Drawing!Parts /\ "ScissorRects" \in Drawing!Parts
  BY DEF Drawing!Parts
<1>c. /\ Colors \cap BackBuffers = {}
      /\ Nothing \notin (Colors \cup BackBuffers) \cup (DOMAIN Stride)
                          \cup VertexBuffers \cup IndexBuffers
      /\ Extent \in [Colors \cup BackBuffers -> Nat \ {0}]
      /\ Stride \in [DOMAIN Stride -> Nat]
  BY PartsAssumption DEF Drawing!ShapesAllowed
<1>z. Drawing!Sizes \subseteq Nat /\ 0 \in Drawing!Sizes
  BY <1>c DEF Drawing!Sizes
<1>t. /\ cached \in Drawing!PartValues /\ drawList \in Drawing!PartValues
      /\ asked \in Drawing!PartValues /\ need \subseteq Drawing!Parts
      /\ current \in (Colors \cup BackBuffers) \cup {Nothing}
      /\ pipeline \in (DOMAIN Stride) \cup {Nothing}
      /\ strides \in {0} \cup {Stride[p] : p \in DOMAIN Stride}
      /\ ibCache \in IndexBuffers \cup {Nothing}
      /\ listIB \in IndexBuffers \cup {Nothing} /\ drawWork \in BOOLEAN
      /\ cached["ScissorRects"] <= cached["Viewports"]
  BY <1>0 DEF Drawing!TypeOK
\* A step that caches new values, flags those that changed and sets nothing.
<1>k. ASSUME NEW new \in Drawing!PartValues, cached' = new,
             need \cup Drawing!Changed(new) \subseteq need',
             UNCHANGED drawList
      PROVE  CachedSet'
  BY <1>0, <1>k DEF CachedSet, Drawing!Changed
<1>1. ASSUME NEW t \in Colors \cup BackBuffers, Drawing!BeginRenderPass(t)
      PROVE  DrawInv'
  <2>1. PICK new : new = Drawing!SetViewportAndScissor(
                     [cached EXCEPT !.RTs = IF t # current THEN t ELSE @],
                     Extent[t])
    OBVIOUS
  <2>2. /\ asked["RTs"] = Nothing => t \in Colors
        /\ current' = t /\ cached' = new
        /\ need' = need \cup Drawing!Changed(new)
                        \cup (IF t # current THEN {"RTs"} ELSE {})
        /\ asked' = [asked EXCEPT !.RTs = t, !.Viewports = Extent[t],
                                  !.ScissorRects = Extent[t]]
        /\ drawWork' \in {drawWork, TRUE}
        /\ UNCHANGED <<pipeline, strides, ibCache, drawList, listIB>>
    BY <1>1, <2>1 DEF Drawing!BeginRenderPass
  <2>3. Extent[t] \in Drawing!Sizes /\ Extent[t] \in Nat \ {0}
    BY <1>c DEF Drawing!Sizes
  <2>4. /\ new = [p \in Drawing!Parts |-> new[p]]
        /\ new["VB"] = cached["VB"]
        /\ new["RTs"] = IF t # current THEN t ELSE cached["RTs"]
        /\ new["Viewports"] = Extent[t] /\ new["ScissorRects"] = Extent[t]
    BY <1>p, <1>t, <2>1, PartFields DEF Drawing!SetViewportAndScissor
  <2>5. t = current => cached["RTs"] = t
    BY <1>0, <1>c, <1>p, <2>2 DEF TargetsRemembered, AskedCached
  <2>6. new["RTs"] = t
    BY <2>4, <2>5
  <2>7. /\ asked' = [p \in Drawing!Parts |-> asked'[p]]
        /\ asked'["VB"] = asked["VB"] /\ asked'["RTs"] = t
        /\ asked'["Viewports"] = Extent[t] /\ asked'["ScissorRects"] = Extent[t]
    BY <1>p, <1>t, <2>2, PartFields
  <2>8. new \in Drawing!PartValues /\ asked' \in Drawing!PartValues
    BY <1>t, <2>3, <2>4, <2>6, <2>7, PartFields
  <2>9. need' \subseteq Drawing!Parts
    BY <1>p, <1>t, <2>2 DEF Drawing!Changed
  <2>w. drawWork' \in BOOLEAN /\ cached'["ScissorRects"] <= cached'["Viewports"]
    <3>1. drawWork' \in BOOLEAN
      BY <1>t, <2>2
    <3>2. cached'["ScissorRects"] = Extent[t] /\ cached'["Viewports"] = Extent[t]
      BY <2>2, <2>4
    <3> QED BY <2>3, <3>1, <3>2
  <2>10. Drawing!TypeOK'
    BY <1>t, <2>2, <2>8, <2>9, <2>w DEF Drawing!TypeOK
  <2>11. AskedCached'
    BY <1>0, <2>2, <2>4, <2>6, <2>7, UnsetFields DEF AskedCached
  <2>12. CachedSet'
    BY <1>k, <2>2, <2>8
  <2>13. TargetsRemembered'
    BY <1>c, <2>2, <2>7 DEF TargetsRemembered
  <2> QED BY <1>0, <2>2, <2>10, <2>11, <2>12, <2>13
      DEF DrawInv, StridesOfPipeline, IndexBufferSet
<1>2. ASSUME NEW e \in Drawing!Sizes \ {0}, Drawing!SetViewport(e) PROVE DrawInv'
  <2>1. PICK new : new = Drawing!SetViewportAndScissor(cached, e)
    OBVIOUS
  <2>2. /\ cached' = new /\ need' = need \cup Drawing!Changed(new)
        /\ asked' = [asked EXCEPT !.Viewports = e, !.ScissorRects = e]
        /\ UNCHANGED <<current, pipeline, strides, ibCache, drawList, listIB,
                       drawWork>>
    BY <1>2, <2>1 DEF Drawing!SetViewport
  <2>4. /\ new = [p \in Drawing!Parts |-> new[p]]
        /\ new["VB"] = cached["VB"] /\ new["RTs"] = cached["RTs"]
        /\ new["Viewports"] = e /\ new["ScissorRects"] = e
    BY <1>p, <1>t, <2>1, PartFields DEF Drawing!SetViewportAndScissor
  <2>7. /\ asked' = [p \in Drawing!Parts |-> asked'[p]]
        /\ asked'["VB"] = asked["VB"] /\ asked'["RTs"] = asked["RTs"]
        /\ asked'["Viewports"] = e /\ asked'["ScissorRects"] = e
    BY <1>p, <1>t, <2>2, PartFields
  <2>8. new \in Drawing!PartValues /\ asked' \in Drawing!PartValues
    BY <1>t, <2>4, <2>7, PartFields
  <2>9. need' \subseteq Drawing!Parts
    BY <1>p, <1>t, <2>2 DEF Drawing!Changed
  <2>10. Drawing!TypeOK'
    BY <1>t, <1>z, <2>2, <2>4, <2>8, <2>9 DEF Drawing!TypeOK
  <2>11. AskedCached'
    BY <1>0, <1>p, <2>2, <2>4, <2>7, UnsetFields DEF AskedCached
  <2>12. CachedSet'
    BY <1>k, <2>2, <2>8
  <2> QED BY <1>0, <2>2, <2>7, <2>10, <2>11, <2>12
      DEF DrawInv, TargetsRemembered, StridesOfPipeline, IndexBufferSet
<1>3. ASSUME NEW e \in Drawing!Sizes \ {0}, Drawing!SetScissorRect(e)
      PROVE  DrawInv'
  <2>1. PICK new : new = [cached EXCEPT !.ScissorRects = e]
    OBVIOUS
  <2>2. /\ e \in 1 .. cached["Viewports"]
        /\ cached' = new /\ need' = need \cup Drawing!Changed(new)
        /\ asked' = [asked EXCEPT !.ScissorRects = e]
        /\ UNCHANGED <<current, pipeline, strides, ibCache, drawList, listIB,
                       drawWork>>
    BY <1>3, <2>1 DEF Drawing!SetScissorRect
  <2>4. /\ new = [p \in Drawing!Parts |-> new[p]]
        /\ new["VB"] = cached["VB"] /\ new["RTs"] = cached["RTs"]
        /\ new["Viewports"] = cached["Viewports"] /\ new["ScissorRects"] = e
    BY <1>p, <1>t, <2>1, PartFields
  <2>7. /\ asked' = [p \in Drawing!Parts |-> asked'[p]]
        /\ asked'["VB"] = asked["VB"] /\ asked'["RTs"] = asked["RTs"]
        /\ asked'["Viewports"] = asked["Viewports"]
        /\ asked'["ScissorRects"] = e
    BY <1>p, <1>t, <2>2, PartFields
  <2>8. new \in Drawing!PartValues /\ asked' \in Drawing!PartValues
    BY <1>t, <2>4, <2>7, PartFields
  <2>9. need' \subseteq Drawing!Parts
    BY <1>p, <1>t, <2>2 DEF Drawing!Changed
  <2>10. Drawing!TypeOK'
    BY <1>t, <1>z, <2>2, <2>4, <2>8, <2>9, PartFields DEF Drawing!TypeOK
  <2>11. AskedCached'
    BY <1>0, <1>p, <2>2, <2>4, <2>7, UnsetFields DEF AskedCached
  <2>12. CachedSet'
    BY <1>k, <2>2, <2>8
  <2> QED BY <1>0, <2>2, <2>7, <2>10, <2>11, <2>12
      DEF DrawInv, TargetsRemembered, StridesOfPipeline, IndexBufferSet
<1>4. ASSUME NEW p \in DOMAIN Stride, Drawing!SetGraphicsPipelineState(p)
      PROVE  DrawInv'
  <2>1. /\ pipeline' = p
        /\ strides' = IF p # pipeline THEN Stride[p] ELSE strides
        /\ \/ asked' = asked
           \/ asked' = [asked EXCEPT !.VB = Nothing]
        /\ UNCHANGED <<current, cached, need, ibCache, drawList, listIB,
                       drawWork>>
    BY <1>4 DEF Drawing!SetGraphicsPipelineState
  <2>2. /\ asked' = [q \in Drawing!Parts |-> asked'[q]]
        /\ asked'["VB"] \in {asked["VB"], Nothing}
        /\ asked'["RTs"] = asked["RTs"]
        /\ asked'["Viewports"] = asked["Viewports"]
        /\ asked'["ScissorRects"] = asked["ScissorRects"]
    BY <1>p, <1>t, <2>1, PartFields
  <2>3. asked' \in Drawing!PartValues
    BY <1>t, <2>2, PartFields
  <2>4. Drawing!TypeOK'
    BY <1>t, <2>1, <2>3 DEF Drawing!TypeOK
  <2>5. AskedCached'
    BY <1>0, <1>p, <2>1, <2>2, UnsetFields DEF AskedCached
  <2>6. StridesOfPipeline'
    BY <1>0, <1>c, <2>1 DEF StridesOfPipeline
  <2> QED BY <1>0, <2>1, <2>2, <2>4, <2>5, <2>6
      DEF DrawInv, TargetsRemembered, CachedSet, IndexBufferSet
<1>5. ASSUME NEW b \in VertexBuffers, Drawing!SetVertexBuffer(b) PROVE DrawInv'
  <2>1. PICK new : new = Drawing!StreamSource(b)
    OBVIOUS
  <2>2. /\ pipeline # Nothing
        /\ cached' = new /\ need' = need \cup Drawing!Changed(new)
        /\ asked' = [asked EXCEPT !.VB = [buffer |-> b,
                                          stride |-> Stride[pipeline]]]
        /\ UNCHANGED <<current, pipeline, strides, ibCache, drawList, listIB,
                       drawWork>>
    BY <1>5, <2>1 DEF Drawing!SetVertexBuffer
  <2>3. strides = Stride[pipeline] /\ pipeline \in DOMAIN Stride
    BY <1>0, <1>t, <2>2 DEF StridesOfPipeline
  <2>4. /\ new = [p \in Drawing!Parts |-> new[p]]
        /\ new["VB"] = [buffer |-> b, stride |-> strides]
        /\ new["RTs"] = cached["RTs"]
        /\ new["Viewports"] = cached["Viewports"]
        /\ new["ScissorRects"] = cached["ScissorRects"]
    BY <1>p, <1>t, <2>1, PartFields DEF Drawing!StreamSource
  <2>5. [buffer |-> b, stride |-> strides] \in Drawing!Views
    BY <2>3 DEF Drawing!Views
  <2>7. /\ asked' = [p \in Drawing!Parts |-> asked'[p]]
        /\ asked'["VB"] = [buffer |-> b, stride |-> strides]
        /\ asked'["RTs"] = asked["RTs"]
        /\ asked'["Viewports"] = asked["Viewports"]
        /\ asked'["ScissorRects"] = asked["ScissorRects"]
    BY <1>p, <1>t, <2>2, <2>3, PartFields
  <2>8. new \in Drawing!PartValues /\ asked' \in Drawing!PartValues
    BY <1>t, <2>4, <2>5, <2>7, PartFields
  <2>9. need' \subseteq Drawing!Parts
    BY <1>p, <1>t, <2>2 DEF Drawing!Changed
  <2>10. Drawing!TypeOK'
    BY <1>t, <2>2, <2>4, <2>8, <2>9 DEF Drawing!TypeOK
  <2>11. AskedCached'
    BY <1>0, <1>p, <2>2, <2>4, <2>7, UnsetFields DEF AskedCached
  <2>12. CachedSet'
    BY <1>k, <2>2, <2>8
  <2> QED BY <1>0, <2>2, <2>7, <2>10, <2>11, <2>12
      DEF DrawInv, TargetsRemembered, StridesOfPipeline, IndexBufferSet
\* A draw.
<1>a. ASSUME Drawing!ApplyState,
             UNCHANGED <<current, pipeline, strides, cached, asked>>,
             \/ UNCHANGED <<ibCache, listIB>>
             \/ \E b \in IndexBuffers :
                  ibCache' = b /\ listIB' = IF b # ibCache THEN b ELSE listIB
      PROVE  DrawInv'
  <2>1. /\ drawList' = Drawing!AppliedTo(drawList) /\ need' = {}
        /\ drawWork' = TRUE
    BY <1>a DEF Drawing!ApplyState
  <2>2. drawList' \in Drawing!PartValues /\ CachedSet'
    BY <1>a, <2>1, AppliedHolds DEF CachedSet
  <2>3. /\ ibCache' \in IndexBuffers \cup {Nothing}
        /\ listIB' \in IndexBuffers \cup {Nothing} /\ IndexBufferSet'
    BY <1>0, <1>a, <1>c, <1>t DEF IndexBufferSet
  <2>4. Drawing!TypeOK'
    BY <1>a, <1>t, <2>1, <2>2, <2>3 DEF Drawing!TypeOK
  <2> QED BY <1>0, <1>a, <2>2, <2>3, <2>4
      DEF DrawInv, AskedCached, TargetsRemembered, StridesOfPipeline
<1>6. CASE Drawing!DrawPrimitive
  BY <1>6, <1>a DEF Drawing!DrawPrimitive
<1>7. ASSUME NEW b \in IndexBuffers, Drawing!DrawIndexedPrimitive(b)
      PROVE  DrawInv'
  BY <1>7, <1>a DEF Drawing!DrawIndexedPrimitive
<1>8. CASE Drawing!FlushCommands
  <2>1. /\ need' = need \cup Drawing!DirtyStateForNewCommandList
        /\ ibCache' = Nothing /\ drawList' = Drawing!Unset /\ listIB' = Nothing
        /\ drawWork' = FALSE
        /\ UNCHANGED <<current, pipeline, strides, cached, asked>>
    BY <1>8 DEF Drawing!FlushCommands, Drawing!OpenCommandList
  <2>2. need' \subseteq Drawing!Parts /\ CachedSet'
    BY <1>t, <2>1 DEF CachedSet, Drawing!DirtyStateForNewCommandList
  <2>3. Drawing!TypeOK'
    BY <1>t, <2>1, <2>2, UnsetFields DEF Drawing!TypeOK
  <2> QED BY <1>0, <2>1, <2>2, <2>3
      DEF DrawInv, AskedCached, TargetsRemembered, StridesOfPipeline,
          IndexBufferSet
<1>9. CASE Drawing!EndFrame
  <2>1. /\ current \in BackBuffers \cup {Nothing}
        /\ cached' = Drawing!Unset /\ pipeline' = Nothing /\ ibCache' = Nothing
        /\ asked' = Drawing!Unset /\ drawWork' = FALSE
        /\ drawList' \in {drawList, Drawing!Unset}
        /\ listIB' \in {listIB, Nothing}
        /\ UNCHANGED <<current, strides, need>>
    BY <1>9 DEF Drawing!EndFrame
  <2>3. /\ cached'["ScissorRects"] = 0 /\ cached'["Viewports"] = 0
        /\ cached' \in Drawing!PartValues /\ drawList' \in Drawing!PartValues
        /\ asked' \in Drawing!PartValues /\ drawWork' \in BOOLEAN
        /\ listIB' \in IndexBuffers \cup {Nothing}
    BY <1>t, <2>1, UnsetFields
  <2>2. Drawing!TypeOK'
    BY <1>t, <2>1, <2>3 DEF Drawing!TypeOK
  <2> QED BY <2>1, <2>2, UnsetFields
      DEF DrawInv, AskedCached, CachedSet, TargetsRemembered,
          StridesOfPipeline, IndexBufferSet
<1>10. CASE UNCHANGED Drawing!vars
  BY <1>0, <1>10
  DEF Drawing!vars, DrawInv, Drawing!TypeOK, AskedCached, CachedSet,
      TargetsRemembered, StridesOfPipeline, IndexBufferSet
<1> QED
  BY <1>1, <1>2, <1>3, <1>4, <1>5, <1>6, <1>7, <1>8, <1>9, <1>10
  DEF Drawing!Next

LEMMA DrawInvSays ==
  DrawInv => Drawing!TargetsAsAsked /\ Drawing!BuffersAsAsked
<1> SUFFICES ASSUME DrawInv
             PROVE  Drawing!TargetsAsAsked /\ Drawing!BuffersAsAsked
  OBVIOUS
<1>1. AskedCached /\ IndexBufferSet
  BY DEF DrawInv
<1>2. "VB" \in Drawing!Parts /\ "RTs" \in Drawing!Parts
  BY DEF Drawing!Parts
<1>3. \A p \in Drawing!Parts : cached[p] # Drawing!Unset[p] =>
        Drawing!AppliedTo(drawList)[p] = cached[p]
  BY AppliedHolds
<1>4. Drawing!TargetsAsAsked
  BY <1>1, <1>2, <1>3 DEF AskedCached, Drawing!TargetsAsAsked,
     Drawing!TargetsReachCache
<1>5. Drawing!BuffersAsAsked
  BY <1>1, <1>2, <1>3, UnsetFields
  DEF AskedCached, IndexBufferSet, Drawing!BuffersAsAsked
<1> QED BY <1>4, <1>5

\* However draws, dispatches, flushes and frames follow each other, with any
\* pipelines, targets and buffers: a draw or dispatch made now runs the pipeline
\* set for it with its root signature and topology and reads the views bound,
\* and a draw has the targets of its pass, the rectangles last asked for, and
\* the buffers last set with the strides of the pipeline.
THEOREM DrawsAsAsked == FramesSpec => []DrawnAsAsked
<1> DEFINE framesVars == <<part, vars, pipelineVars, drawVars, barrierVars,
                           tableVars>>
<1>1. FramesInit => BindInv /\ DrawInv
  BY InitBindInv, InitDrawInv DEF FramesInit
<1>2. BindInv /\ DrawInv /\ [FramesNext]_framesVars => BindInv' /\ DrawInv'
  <2>1. [FramesNext]_framesVars => [Binding!Next]_(Binding!vars)
    BY DEF FramesNext, DeletionStep, PipelineStep, DrawingStep, BarrierStep,
       TableStep, pipelineVars, Binding!vars, Binding!flags
  <2>2. [FramesNext]_framesVars => [Drawing!Next]_(Drawing!vars)
    BY DEF FramesNext, DeletionStep, PipelineStep, DrawingStep, BarrierStep,
       TableStep, drawVars, Drawing!vars
  <2> QED BY <2>1, <2>2, NextBindInv, NextDrawInv
<1>3. BindInv /\ DrawInv => DrawnAsAsked
  BY BindInvSays, DrawInvSays DEF BindInv, DrawInv, DrawnAsAsked
<1> QED BY <1>1, <1>2, <1>3, PTL DEF FramesSpec
-----------------------------------------------------------------------------
(* The states of textures                                                   *)

LEMMA ResourcesFacts ==
  /\ Depths \cap (Colors \cup BackBuffers) = {} /\ Nothing \notin Barriers!Resources
  /\ MaxBarriers \in Nat
  /\ Barriers!Resources = Colors \cup BackBuffers \cup Depths
  /\ \A r \in Colors \cup BackBuffers : Barriers!Planes(r) = {0}
  /\ \A r \in Depths : Barriers!Planes(r) = {0, 1}
  BY PartsAssumption
  DEF Barriers!ResourcesAllowed, Barriers!Resources, Barriers!Planes,
      Barriers!DepthPlane, Barriers!StencilPlane

\* The barriers a batch may hold: a depth buffer is never left in another state
\* than the one it is created in, so no barrier of one waits
BarrierSet ==
  {Barriers!UAVBarrier} \cup
  [resource : Colors \cup BackBuffers, planes : {{0}},
   before : Barriers!States, after : Barriers!States]

\* A recording on the list planes: every barrier of its batch will begin in its
\* before, and after them all planes are in the state that is tracked
IsReal(c) ==
  /\ c \in [state : [Barriers!Resources -> Barriers!States],
            batch : Seq(BarrierSet), count : Nat]
  /\ Len(c.batch) <= c.count
  /\ \A d \in Depths : c.state[d] = "DEPTH_WRITE"
  /\ Barriers!Sound(planes, c.batch)
  /\ \A r \in Barriers!Resources : \A p \in Barriers!Planes(r) :
       Barriers!Flushed(planes, c.batch)[r][p] = c.state[r]

\* Without a barrier on the list the list is still where the GPU will be
ListUntouched ==
  numBarriers = Len(batch) =>
    \A r \in Barriers!Resources : \A p \in Barriers!Planes(r) :
      planes[r][p] = gpu[r][p]

\* Targets that are set are in the state to be drawn to
TargetSet ==
  ~ needSetRTs /\ pass.color # Nothing => state[pass.color] = "RENDER_TARGET"

\* The inductive invariant of the states.
StateInv ==
  /\ Barriers!TypeOK
  /\ IsReal(Barriers!Recording)
  /\ sound
  /\ ListUntouched
  /\ TargetSet

\* One more barrier is executed: the planes it names are in its after, the
\* others where they were.
LEMMA OneMore ==
  ASSUME NEW l, NEW bs \in Seq(BarrierSet), NEW n \in Nat, n + 1 <= Len(bs),
         NEW r \in Barriers!Resources, NEW p \in Barriers!Planes(r)
  PROVE  Barriers!Executed(l, bs, n + 1)[r][p] =
           IF bs[n + 1].resource = r /\ p \in bs[n + 1].planes
           THEN bs[n + 1].after ELSE Barriers!Executed(l, bs, n)[r][p]
<1> DEFINE Named(i) == bs[i].resource = r /\ p \in bs[i].planes
<1>0. /\ Barriers!LastOf(bs, n, r, p) =
            {i \in 1 .. n : Named(i) /\ \A j \in (i + 1) .. n : ~ Named(j)}
      /\ Barriers!LastOf(bs, n + 1, r, p) =
            {i \in 1 .. (n + 1) :
               Named(i) /\ \A j \in (i + 1) .. (n + 1) : ~ Named(j)}
  BY DEF Barriers!LastOf
<1>1. \A m \in {n, n + 1} : Barriers!Executed(l, bs, m)[r][p] =
        IF Barriers!LastOf(bs, m, r, p) = {} THEN l[r][p]
        ELSE bs[CHOOSE i \in Barriers!LastOf(bs, m, r, p) : TRUE].after
  BY DEF Barriers!Executed
<1>2. CASE Named(n + 1)
  <2> HIDE DEF Named
  <2>1. \A i \in 1 .. n : n + 1 \in (i + 1) .. (n + 1)
    OBVIOUS
  <2>2. n + 1 \in 1 .. (n + 1) /\ (n + 1 + 1) .. (n + 1) = {}
    OBVIOUS
  <2>3. \A i \in 1 .. (n + 1) : i = n + 1 \/ i \in 1 .. n
    OBVIOUS
  <2>4. Barriers!LastOf(bs, n + 1, r, p) = {n + 1}
    BY <1>0, <1>2, <2>1, <2>2, <2>3
  <2>5. (CHOOSE i \in {n + 1} : TRUE) = n + 1
    OBVIOUS
  <2>6. Barriers!Executed(l, bs, n + 1)[r][p] = bs[n + 1].after
    BY <1>1, <2>4, <2>5
  <2> QED BY <1>2, <2>6 DEF Named
<1>3. CASE ~ Named(n + 1)
  <2> HIDE DEF Named
  <2>1. ASSUME NEW i \in 1 .. n
        PROVE  (\A j \in (i + 1) .. (n + 1) : ~ Named(j))
                 <=> (\A j \in (i + 1) .. n : ~ Named(j))
    <3>1. \A j \in (i + 1) .. (n + 1) : j = n + 1 \/ j \in (i + 1) .. n
      OBVIOUS
    <3>2. \A j \in (i + 1) .. n : j \in (i + 1) .. (n + 1)
      OBVIOUS
    <3> QED BY <1>3, <3>1, <3>2
  <2>2. 1 .. n \subseteq 1 .. (n + 1)
        /\ \A i \in 1 .. (n + 1) : i = n + 1 \/ i \in 1 .. n
    OBVIOUS
  <2>3. Barriers!LastOf(bs, n + 1, r, p) = Barriers!LastOf(bs, n, r, p)
    BY <1>0, <1>3, <2>1, <2>2
  <2>4. Barriers!Executed(l, bs, n + 1)[r][p] = Barriers!Executed(l, bs, n)[r][p]
    BY <1>1, <2>3
  <2> QED BY <1>3, <2>4 DEF Named
<1> QED BY <1>2, <1>3

\* Barriers behind the first n do not matter to what these do.
LEMMA SamePrefix ==
  ASSUME NEW l, NEW bs, NEW cs, NEW n \in Nat,
         \A i \in 1 .. n : bs[i] = cs[i]
  PROVE  Barriers!Executed(l, bs, n) = Barriers!Executed(l, cs, n)
<1>1. ASSUME NEW r, NEW p
      PROVE  /\ Barriers!LastOf(bs, n, r, p) = Barriers!LastOf(cs, n, r, p)
             /\ Barriers!LastOf(bs, n, r, p) \subseteq 1 .. n
  <2>1. \A i \in 1 .. n : \A j \in (i + 1) .. n : j \in 1 .. n
    OBVIOUS
  <2> QED BY <2>1 DEF Barriers!LastOf
<1>2. ASSUME NEW r, NEW p, Barriers!LastOf(bs, n, r, p) # {}
      PROVE  bs[CHOOSE i \in Barriers!LastOf(bs, n, r, p) : TRUE]
               = cs[CHOOSE i \in Barriers!LastOf(cs, n, r, p) : TRUE]
  <2>1. PICK i : i = CHOOSE j \in Barriers!LastOf(bs, n, r, p) : TRUE
    OBVIOUS
  <2>2. i \in Barriers!LastOf(bs, n, r, p)
    BY <1>2, <2>1
  <2> QED BY <1>1, <2>1, <2>2
<1> QED BY <1>1, <1>2 DEF Barriers!Executed

\* No barrier executed leaves the list as it is.
LEMMA NoneExecuted ==
  ASSUME NEW l, NEW bs, NEW r \in Barriers!Resources, NEW p \in Barriers!Planes(r)
  PROVE  Barriers!Executed(l, bs, 0)[r][p] = l[r][p]
<1>1. Barriers!LastOf(bs, 0, r, p) = {}
  <2>1. 1 .. 0 = {}
    OBVIOUS
  <2> QED BY <2>1 DEF Barriers!LastOf
<1> QED BY <1>1 DEF Barriers!Executed

\* A batch that grows by a barrier.
LEMMA AppendedBarrier ==
  ASSUME NEW l, NEW bs \in Seq(BarrierSet), NEW b \in BarrierSet
  PROVE  /\ \A r \in Barriers!Resources : \A p \in Barriers!Planes(r) :
              Barriers!Flushed(l, Append(bs, b))[r][p] =
                IF b.resource = r /\ p \in b.planes THEN b.after
                ELSE Barriers!Flushed(l, bs)[r][p]
         /\ Barriers!Sound(l, Append(bs, b)) <=>
              /\ Barriers!Sound(l, bs)
              /\ \A p \in b.planes :
                   Barriers!Flushed(l, bs)[b.resource][p] = b.before
<1>1. PICK n \in Nat : n = Len(bs) /\ DOMAIN bs = 1 .. n
  OBVIOUS
<1>2. PICK cs \in Seq(BarrierSet) :
        /\ cs = Append(bs, b) /\ Len(cs) = n + 1 /\ DOMAIN cs = 1 .. (n + 1)
        /\ cs[n + 1] = b /\ \A i \in 1 .. n : cs[i] = bs[i]
  <2>1. Append(bs, b) \in Seq(BarrierSet) /\ Len(Append(bs, b)) = n + 1
    BY <1>1
  <2>2. DOMAIN Append(bs, b) = 1 .. (n + 1)
    BY <2>1
  <2>3. Append(bs, b)[n + 1] = b
    BY <1>1
  <2>4. \A i \in 1 .. n : Append(bs, b)[i] = bs[i]
    BY <1>1
  <2> QED BY <2>1, <2>2, <2>3, <2>4
<1>3. Barriers!Executed(l, cs, n) = Barriers!Executed(l, bs, n)
  BY <1>2, SamePrefix
<1>4. /\ Barriers!Flushed(l, cs) = Barriers!Executed(l, cs, n + 1)
      /\ Barriers!Flushed(l, bs) = Barriers!Executed(l, bs, n)
  BY <1>1, <1>2 DEF Barriers!Flushed
<1>5. ASSUME NEW r \in Barriers!Resources, NEW p \in Barriers!Planes(r)
      PROVE  Barriers!Flushed(l, cs)[r][p] =
               IF b.resource = r /\ p \in b.planes THEN b.after
               ELSE Barriers!Flushed(l, bs)[r][p]
  <2>1. Barriers!Executed(l, cs, n + 1)[r][p] =
          IF cs[n + 1].resource = r /\ p \in cs[n + 1].planes
          THEN cs[n + 1].after ELSE Barriers!Executed(l, cs, n)[r][p]
    <3>1. n + 1 <= Len(cs)
      BY <1>2
    <3> QED BY <3>1, OneMore
  <2> QED BY <1>2, <1>3, <1>4, <2>1
<1>6. ASSUME NEW i \in 1 .. n
      PROVE  Barriers!Executed(l, cs, i - 1) = Barriers!Executed(l, bs, i - 1)
  <2>1. i - 1 \in Nat /\ 1 .. (i - 1) \subseteq 1 .. n
    OBVIOUS
  <2>2. \A j \in 1 .. (i - 1) : cs[j] = bs[j]
    BY <1>2, <2>1
  <2> QED BY <2>1, <2>2, SamePrefix
<1>7. Barriers!Sound(l, cs) <=>
        /\ \A i \in 1 .. n : \A p \in cs[i].planes :
             Barriers!Executed(l, cs, i - 1)[cs[i].resource][p] = cs[i].before
        /\ \A p \in cs[n + 1].planes :
             Barriers!Executed(l, cs, n)[cs[n + 1].resource][p]
               = cs[n + 1].before
  <2>1. n + 1 - 1 = n /\ n + 1 \in 1 .. (n + 1) /\ 1 .. n \subseteq 1 .. (n + 1)
        /\ \A i \in 1 .. (n + 1) : i = n + 1 \/ i \in 1 .. n
    OBVIOUS
  <2> QED BY <1>2, <2>1 DEF Barriers!Sound
<1>8. Barriers!Sound(l, bs) <=>
        \A i \in 1 .. n : \A p \in bs[i].planes :
          Barriers!Executed(l, bs, i - 1)[bs[i].resource][p] = bs[i].before
  BY <1>1 DEF Barriers!Sound
<1>9. (\A i \in 1 .. n : \A p \in cs[i].planes :
         Barriers!Executed(l, cs, i - 1)[cs[i].resource][p] = cs[i].before)
      <=> Barriers!Sound(l, bs)
  BY <1>2, <1>6, <1>8
<1>10. Barriers!Sound(l, cs) <=>
         /\ Barriers!Sound(l, bs)
         /\ \A p \in b.planes :
              Barriers!Flushed(l, bs)[b.resource][p] = b.before
  BY <1>2, <1>3, <1>4, <1>7, <1>9
<1> QED BY <1>2, <1>5, <1>10

\* The same for one plane.
LEMMA AppendedTo ==
  ASSUME NEW l, NEW bs \in Seq(BarrierSet), NEW b \in BarrierSet,
         NEW q \in Barriers!Resources, NEW p \in Barriers!Planes(q)
  PROVE  /\ b.resource = q /\ p \in b.planes =>
              Barriers!Flushed(l, Append(bs, b))[q][p] = b.after
         /\ ~ (b.resource = q /\ p \in b.planes) =>
              Barriers!Flushed(l, Append(bs, b))[q][p]
                = Barriers!Flushed(l, bs)[q][p]
BY AppendedBarrier

\* A batch that is not empty is its front and its last barrier.
LEMMA FrontAndLast ==
  ASSUME NEW bs \in Seq(BarrierSet), bs # <<>>
  PROVE  /\ Barriers!Front(bs) \in Seq(BarrierSet)
         /\ Barriers!Last(bs) \in BarrierSet
         /\ bs = Append(Barriers!Front(bs), Barriers!Last(bs))
         /\ Len(bs) = Len(Barriers!Front(bs)) + 1
<1>1. PICK fs \in Seq(BarrierSet), b \in BarrierSet : bs = Append(fs, b)
  BY SequenceEmptyOrAppend
<1>2. PICK n \in Nat : n = Len(fs) /\ DOMAIN fs = 1 .. n
  OBVIOUS
<1>3. /\ Len(bs) = n + 1 /\ bs[n + 1] = b
      /\ \A i \in 1 .. n : bs[i] = fs[i]
  BY <1>1, <1>2, AppendProperties
<1>4. Barriers!Last(bs) = b
  BY <1>3 DEF Barriers!Last
<1>5. n + 1 - 1 = n
  OBVIOUS
<1>6. Barriers!Front(bs) = SubSeq(bs, 1, n)
  BY <1>3, <1>5 DEF Barriers!Front
<1>7. SubSeq(bs, 1, n) = [i \in 1 .. n |-> bs[i]]
  BY <1>2
<1>8. fs = [i \in 1 .. n |-> fs[i]]
  BY <1>2
<1>9. Barriers!Front(bs) = fs
  BY <1>3, <1>6, <1>7, <1>8
<1> QED BY <1>1, <1>2, <1>3, <1>4, <1>9

LEMMA FrontOfAppend ==
  ASSUME NEW bs \in Seq(BarrierSet), NEW b
  PROVE  /\ Barriers!Last(Append(bs, b)) = b
         /\ Barriers!Front(Append(bs, b)) = bs
         /\ Append(bs, b) # <<>>
<1>1. PICK n \in Nat : n = Len(bs) /\ DOMAIN bs = 1 .. n
  OBVIOUS
<1>2. PICK S : S = BarrierSet \cup {b}
  OBVIOUS
<1>3. bs \in Seq(S)
  <2>1. \A i \in 1 .. n : bs[i] \in S
    BY <1>1, <1>2
  <2>2. bs = [i \in 1 .. n |-> bs[i]]
    BY <1>1
  <2>3. bs \in [1 .. n -> S]
    BY <2>1, <2>2
  <2> QED BY <2>3, SeqDef
<1>4. PICK cs \in Seq(S) : cs = Append(bs, b)
  <2>1. b \in S
    BY <1>2
  <2>2. Append(bs, b) \in Seq(S)
    BY <1>3, <2>1
  <2> QED BY <2>2
<1>5. /\ Len(cs) = n + 1 /\ cs[n + 1] = b
      /\ \A i \in 1 .. n : cs[i] = bs[i]
  BY <1>1, <1>2, <1>3, <1>4, AppendProperties
<1>6. n + 1 - 1 = n
  OBVIOUS
<1>7. Barriers!Front(cs) = SubSeq(cs, 1, n) /\ Barriers!Last(cs) = b
  BY <1>5, <1>6 DEF Barriers!Front, Barriers!Last
<1>8. SubSeq(cs, 1, n) = [i \in 1 .. n |-> cs[i]]
  BY <1>5
<1>9. bs = [i \in 1 .. n |-> bs[i]]
  BY <1>1
<1>10. cs # <<>>
  BY <1>5
<1> QED BY <1>4, <1>5, <1>7, <1>8, <1>9, <1>10

\* A transition of one texture or of none, to draw to or to present
Recordings ==
  [state : [Barriers!Resources -> Barriers!States],
   batch : Seq(BarrierSet), count : Nat]
AreIn(c, l) ==
  \A r \in Barriers!Resources : \A p \in Barriers!Planes(r) :
    l[r][p] = c.state[r]
OneTransition(c, e, r, after) ==
  /\ IsReal(e)
  /\ e.count <= c.count + 1
  /\ e.count + Len(c.batch) = c.count + Len(e.batch)
  /\ IF r = Nothing THEN e = c ELSE e.state = [c.state EXCEPT ![r] = after]

IsTransition(b, r, before, after) ==
  /\ b.resource = r /\ b.planes = {0}
  /\ b.before = before /\ b.after = after

Holds(e, states, barriers, number) ==
  e.state = states /\ e.batch = barriers /\ e.count = number

\* The transition waits in the batch.
LEMMA BarrierWaits ==
  ASSUME NEW c, IsReal(c), NEW r \in Colors \cup BackBuffers,
         NEW after \in Barriers!States, NEW e \in Recordings,
         NEW b \in BarrierSet, IsTransition(b, r, c.state[r], after),
         Holds(e, [c.state EXCEPT ![r] = after], Append(c.batch, b),
               c.count + 1)
  PROVE  OneTransition(c, e, r, after)
<1> USE ResourcesFacts
<1>1. /\ c \in Recordings /\ c.batch \in Seq(BarrierSet) /\ c.count \in Nat
      /\ c.state \in [Barriers!Resources -> Barriers!States]
      /\ Len(c.batch) \in Nat /\ Len(c.batch) <= c.count
  BY DEF IsReal, Recordings
<1>2. r \in Barriers!Resources /\ r \notin Depths /\ r # Nothing
  OBVIOUS
<1>3. b \in BarrierSet /\ b.resource = r /\ b.planes = {0} /\ b.after = after
      /\ b.before = c.state[r]
  BY DEF IsTransition
<1>4. /\ e.state = [c.state EXCEPT ![r] = after]
      /\ e.batch = Append(c.batch, b) /\ e.count = c.count + 1
  BY DEF Holds
<1>5. PICK bs \in Seq(BarrierSet) : bs = c.batch
  BY <1>1
<1>6. Append(bs, b) \in Seq(BarrierSet) /\ Len(Append(bs, b)) = Len(bs) + 1
  BY <1>3
<1>7. e \in Recordings
  OBVIOUS
<1>8. Barriers!Sound(planes, e.batch)
  <2>1. Barriers!Sound(planes, bs)
        /\ Barriers!Flushed(planes, bs)[r][0] = c.state[r]
    BY <1>2, <1>5 DEF IsReal
  <2>2. Barriers!Sound(planes, Append(bs, b)) <=>
          /\ Barriers!Sound(planes, bs)
          /\ \A p \in b.planes :
               Barriers!Flushed(planes, bs)[b.resource][p] = b.before
    BY <1>3, AppendedBarrier
  <2> QED BY <1>3, <1>4, <1>5, <2>1, <2>2
<1>9. AreIn(e, Barriers!Flushed(planes, e.batch))
  <2>1. ASSUME NEW q \in Barriers!Resources, NEW p \in Barriers!Planes(q)
        PROVE  Barriers!Flushed(planes, Append(bs, b))[q][p] = e.state[q]
    <3>1. Barriers!Flushed(planes, bs)[q][p] = c.state[q]
      BY <1>5 DEF IsReal
    <3>2. CASE q = r
      <4>1. p = 0
        BY <3>2
      <4>2. e.state[q] = after
        BY <1>1, <1>2, <1>4, <3>2
      <4>3. b.resource = q /\ p \in b.planes
        BY <1>3, <3>2, <4>1
      <4>4. /\ b.resource = q /\ p \in b.planes =>
                 Barriers!Flushed(planes, Append(bs, b))[q][p] = b.after
            /\ ~ (b.resource = q /\ p \in b.planes) =>
                 Barriers!Flushed(planes, Append(bs, b))[q][p]
                   = Barriers!Flushed(planes, bs)[q][p]
        BY AppendedTo
      <4> QED BY <1>3, <4>2, <4>3, <4>4
    <3>3. CASE q # r
      <4>1. e.state[q] = c.state[q]
        BY <1>1, <1>4, <3>3
      <4> QED BY <1>3, <3>1, <3>3, <4>1, AppendedTo
    <3> QED BY <3>2, <3>3
  <2> QED BY <1>4, <1>5, <2>1 DEF AreIn
<1>10. /\ \A d \in Depths : e.state[d] = "DEPTH_WRITE"
       /\ Len(e.batch) <= e.count
       /\ e.count <= c.count + 1
       /\ e.count + Len(c.batch) = c.count + Len(e.batch)
  <2>1. \A d \in Depths : c.state[d] = "DEPTH_WRITE"
    BY DEF IsReal
  <2>2. \A d \in Depths : e.state[d] = "DEPTH_WRITE"
    BY <1>1, <1>2, <1>4, <2>1
  <2>3. PICK n \in Nat, m \in Nat :
          n = Len(c.batch) /\ m = c.count /\ n <= m
    BY <1>1
  <2>4. Len(e.batch) = n + 1 /\ e.count = m + 1
    BY <1>4, <1>5, <1>6, <2>3
  <2>5. Len(e.batch) <= e.count
    BY <2>3, <2>4
  <2>6. e.count + Len(c.batch) = c.count + Len(e.batch)
    <3>1. (m + 1) + n = m + (n + 1)
      OBVIOUS
    <3> QED BY <2>3, <2>4, <3>1, Zenon
  <2>7. e.count <= c.count + 1
    BY <2>3, <2>4
  <2> QED BY <2>2, <2>5, <2>6, <2>7
<1> QED BY <1>2, <1>4, <1>7, <1>8, <1>9, <1>10
    DEF OneTransition, IsReal, Recordings, AreIn

\* The transition takes the last one back.
LEMMA BarrierTakenBack ==
  ASSUME NEW c, IsReal(c), NEW r \in Colors \cup BackBuffers,
         NEW after \in Barriers!States, NEW e \in Recordings,
         NEW b \in BarrierSet, IsTransition(b, r, c.state[r], after),
         c.batch # <<>>, Barriers!Reverts(b, Barriers!Last(c.batch)),
         Holds(e, [c.state EXCEPT ![r] = after], Barriers!Front(c.batch),
               c.count - 1)
  PROVE  OneTransition(c, e, r, after)
<1> USE ResourcesFacts
<1>1. /\ c \in Recordings /\ c.batch \in Seq(BarrierSet) /\ c.count \in Nat
      /\ c.state \in [Barriers!Resources -> Barriers!States]
      /\ Len(c.batch) \in Nat /\ Len(c.batch) <= c.count
  BY DEF IsReal, Recordings
<1>2. r \in Barriers!Resources /\ r \notin Depths /\ r # Nothing
  OBVIOUS
<1>3. PICK bs \in Seq(BarrierSet) : bs = c.batch
  BY <1>1
<1>4. PICK fs \in Seq(BarrierSet), last \in BarrierSet :
        /\ fs = Barriers!Front(bs) /\ last = Barriers!Last(bs)
        /\ bs = Append(fs, last) /\ Len(bs) = Len(fs) + 1
  <2>1. bs # <<>>
    BY <1>3
  <2> QED BY <2>1, FrontAndLast
<1>5. /\ last.resource = r /\ last.planes = {0}
      /\ last.after = c.state[r] /\ last.before = after
  <2>1. Barriers!Reverts(b, last)
    BY <1>3, <1>4
  <2> QED BY <2>1 DEF Barriers!Reverts, IsTransition
<1>6. /\ e.state = [c.state EXCEPT ![r] = after]
      /\ e.batch = fs /\ e.count = c.count - 1
  BY <1>3, <1>4 DEF Holds
<1>7. e \in Recordings /\ Len(fs) \in Nat
  OBVIOUS
<1>8. /\ Barriers!Sound(planes, fs)
      /\ Barriers!Flushed(planes, fs)[r][0] = after
  <2>1. Barriers!Sound(planes, Append(fs, last)) <=>
          /\ Barriers!Sound(planes, fs)
          /\ \A p \in last.planes :
               Barriers!Flushed(planes, fs)[last.resource][p] = last.before
    BY AppendedBarrier
  <2>2. Barriers!Sound(planes, Append(fs, last))
    BY <1>3, <1>4 DEF IsReal
  <2> QED BY <1>5, <2>1, <2>2
<1>9. AreIn(e, Barriers!Flushed(planes, fs))
  <2>1. ASSUME NEW q \in Barriers!Resources, NEW p \in Barriers!Planes(q)
        PROVE  Barriers!Flushed(planes, fs)[q][p] = e.state[q]
    <3>1. CASE q = r
      <4>1. p = 0
        BY <3>1
      <4>2. e.state[q] = after
        BY <1>1, <1>2, <1>6, <3>1
      <4> QED BY <1>8, <3>1, <4>1, <4>2
    <3>2. CASE q # r
      <4>1. Barriers!Flushed(planes, bs)[q][p] = c.state[q]
        BY <1>3 DEF IsReal
      <4>2. Barriers!Flushed(planes, Append(fs, last))[q][p]
              = Barriers!Flushed(planes, fs)[q][p]
        BY <1>5, <3>2, AppendedTo
      <4>3. e.state[q] = c.state[q]
        BY <1>1, <1>6, <3>2
      <4> QED BY <1>4, <4>1, <4>2, <4>3
    <3> QED BY <3>1, <3>2
  <2> QED BY <2>1 DEF AreIn
<1>10. /\ \A d \in Depths : e.state[d] = "DEPTH_WRITE"
       /\ Len(e.batch) <= e.count
       /\ e.count <= c.count + 1
       /\ e.count + Len(c.batch) = c.count + Len(e.batch)
  <2>1. \A d \in Depths : c.state[d] = "DEPTH_WRITE"
    BY DEF IsReal
  <2>2. \A d \in Depths : e.state[d] = "DEPTH_WRITE"
    BY <1>1, <1>2, <1>6, <2>1
  <2>3. PICK n \in Nat, m \in Nat :
          n = Len(e.batch) /\ m = c.count /\ Len(c.batch) = n + 1 /\ n + 1 <= m
    BY <1>1, <1>3, <1>4, <1>6, <1>7
  <2>4. Len(c.batch) = n + 1 /\ e.count = m - 1
    BY <1>6, <2>3
  <2>5. Len(e.batch) <= e.count
    BY <2>3, <2>4
  <2>6. e.count + Len(c.batch) = c.count + Len(e.batch)
    <3>1. (m - 1) + (n + 1) = m + n
      OBVIOUS
    <3> QED BY <2>3, <2>4, <3>1, Zenon
  <2>7. e.count <= c.count + 1
    BY <2>3, <2>4
  <2> QED BY <2>2, <2>5, <2>6, <2>7
<1> QED BY <1>2, <1>6, <1>7, <1>8, <1>9, <1>10
    DEF OneTransition, IsReal, Recordings, AreIn

\* TransitionResource of a colour texture, a back buffer or a null view.
LEMMA TransitionReal ==
  ASSUME NEW c, IsReal(c), NEW r \in Colors \cup BackBuffers \cup {Nothing},
         NEW after \in Barriers!States
  PROVE  OneTransition(c, Barriers!Transition(c, r, {0}, after), r, after)
<1> USE ResourcesFacts
<1>1. c \in Recordings /\ c.count \in Nat /\ Len(c.batch) \in Nat
  BY DEF IsReal, Recordings
<1>2. CASE r = Nothing \/ c.state[r] = after
  <2>1. Barriers!Transition(c, r, {0}, after) = c
    BY <1>2 DEF Barriers!Transition
  <2>2. r # Nothing => c.state = [c.state EXCEPT ![r] = after]
    BY <1>1, <1>2 DEF Recordings
  <2> QED BY <1>1, <2>1, <2>2 DEF OneTransition
<1>3. CASE r # Nothing /\ c.state[r] # after
  <2>1. r \in Colors \cup BackBuffers
    BY <1>3
  <2>2. PICK b : b = [resource |-> r, planes |-> {0},
                      before |-> c.state[r], after |-> after]
    OBVIOUS
  <2>3. PICK d : d = [c EXCEPT !.state[r] = after]
    OBVIOUS
  <2>4. Barriers!Transition(c, r, {0}, after) = Barriers!AddTransition(d, b)
    BY <1>3, <2>2, <2>3 DEF Barriers!Transition
  <2>5. d = [state |-> [c.state EXCEPT ![r] = after], batch |-> c.batch,
             count |-> c.count]
    BY <1>1, <2>3 DEF Recordings
  <2>6. b \in BarrierSet /\ IsTransition(b, r, c.state[r], after)
    <3>1. c.state[r] \in Barriers!States
      BY <1>1, <2>1 DEF Recordings
    <3> QED BY <2>1, <2>2, <3>1 DEF BarrierSet, IsTransition
  <2>7. /\ c.batch \in Seq(BarrierSet) /\ c.count \in Nat
        /\ Len(c.batch) <= c.count
        /\ [c.state EXCEPT ![r] = after]
             \in [Barriers!Resources -> Barriers!States]
    BY <1>1 DEF Recordings, IsReal
  <2>8. CASE c.batch # <<>> /\ Barriers!Reverts(b, Barriers!Last(c.batch))
    <3>1. PICK e : e = [state |-> [c.state EXCEPT ![r] = after],
                        batch |-> Barriers!Front(c.batch),
                        count |-> c.count - 1]
      OBVIOUS
    <3>2. Barriers!AddTransition(d, b) =
            [state |-> [c.state EXCEPT ![r] = after], batch |-> Barriers!Front(c.batch),
             count |-> c.count - 1]
      BY <2>5, <2>8 DEF Barriers!AddTransition
    <3>3. Barriers!Front(c.batch) \in Seq(BarrierSet) /\ c.count - 1 \in Nat
      <4>1. /\ Barriers!Front(c.batch) \in Seq(BarrierSet)
            /\ Len(c.batch) = Len(Barriers!Front(c.batch)) + 1
        BY <2>7, <2>8, FrontAndLast
      <4>2. Len(Barriers!Front(c.batch)) \in Nat
        BY <4>1
      <4> QED BY <2>7, <4>1, <4>2
    <3>4. /\ e \in Recordings
          /\ Holds(e, [c.state EXCEPT ![r] = after], Barriers!Front(c.batch),
                   c.count - 1)
      BY <2>7, <3>1, <3>3 DEF Recordings, Holds
    <3>5. OneTransition(c, e, r, after)
      BY <2>1, <2>6, <2>8, <3>4, BarrierTakenBack
    <3> QED BY <2>4, <3>1, <3>2, <3>5
  <2>9. CASE ~ (c.batch # <<>> /\ Barriers!Reverts(b, Barriers!Last(c.batch)))
    <3>1. PICK e : e = [state |-> [c.state EXCEPT ![r] = after],
                        batch |-> Append(c.batch, b), count |-> c.count + 1]
      OBVIOUS
    <3>2. Barriers!AddTransition(d, b) =
            [state |-> [c.state EXCEPT ![r] = after], batch |-> Append(c.batch, b),
             count |-> c.count + 1]
      BY <2>5, <2>9 DEF Barriers!AddTransition
    <3>3. Append(c.batch, b) \in Seq(BarrierSet)
      BY <2>6, <2>7
    <3>4. /\ e \in Recordings
          /\ Holds(e, [c.state EXCEPT ![r] = after], Append(c.batch, b),
                   c.count + 1)
      BY <2>7, <3>1, <3>3 DEF Recordings, Holds
    <3>5. OneTransition(c, e, r, after)
      BY <2>1, <2>6, <3>4, BarrierWaits
    <3> QED BY <2>4, <3>1, <3>2, <3>5
  <2> QED BY <2>8, <2>9
<1> QED BY <1>2, <1>3

\* A depth buffer is in DEPTH_WRITE already.
LEMMA DepthStays ==
  ASSUME NEW c, IsReal(c), NEW d \in Depths \cup {Nothing}, NEW ps
  PROVE  Barriers!Transition(c, d, ps, "DEPTH_WRITE") = c
BY DEF Barriers!Transition, IsReal

\* RayTraceShadow takes its transition back: nothing stays in the batch.
LEMMA ShadowTransitions ==
  ASSUME NEW c, IsReal(c), NEW d \in Depths, NEW ps
  PROVE  Barriers!Transition(Barriers!Transition(c, d, ps, "DEPTH_READ"),
                             d, ps, "DEPTH_WRITE") = c
<1> USE ResourcesFacts
<1>1. /\ c \in Recordings /\ c.batch \in Seq(BarrierSet) /\ c.count \in Nat
      /\ c.state[d] = "DEPTH_WRITE"
  BY DEF IsReal, Recordings
<1>2. d \in Barriers!Resources /\ d # Nothing
  OBVIOUS
<1>3. PICK b : b = [resource |-> d, planes |-> ps,
                    before |-> "DEPTH_WRITE", after |-> "DEPTH_READ"]
  OBVIOUS
<1>4. PICK bs : bs = Append(c.batch, b)
  OBVIOUS
<1>5. Barriers!Last(bs) = b /\ Barriers!Front(bs) = c.batch /\ bs # <<>>
  BY <1>1, <1>4, FrontOfAppend
<1>6. PICK st : st = [c.state EXCEPT ![d] = "DEPTH_READ"]
  OBVIOUS
<1>7. Barriers!Transition(c, d, ps, "DEPTH_READ") =
        [state |-> st, batch |-> bs, count |-> c.count + 1]
  <2>1. PICK m : m = [c EXCEPT !.state[d] = "DEPTH_READ"]
    OBVIOUS
  <2>2. m = [state |-> st, batch |-> c.batch, count |-> c.count]
    BY <1>1, <1>6, <2>1 DEF Recordings
  <2>3. Barriers!Transition(c, d, ps, "DEPTH_READ")
          = Barriers!AddTransition(m, b)
    BY <1>1, <1>2, <1>3, <2>1 DEF Barriers!Transition
  <2>4. ASSUME c.batch # <<>>
        PROVE  ~ Barriers!Reverts(b, Barriers!Last(c.batch))
    <3>1. PICK last \in BarrierSet : last = Barriers!Last(c.batch)
      BY <1>1, <2>4, FrontAndLast
    <3>2. last.resource # d
      BY <1>2 DEF BarrierSet, Barriers!UAVBarrier
    <3> QED BY <1>3, <3>1, <3>2 DEF Barriers!Reverts
  <2>5. Barriers!AddTransition(m, b) =
          [m EXCEPT !.batch = Append(@, b), !.count = @ + 1]
    BY <2>2, <2>4 DEF Barriers!AddTransition
  <2> QED BY <1>4, <2>2, <2>3, <2>5
<1>8. PICK e : e = [state |-> st, batch |-> bs, count |-> c.count + 1]
  OBVIOUS
<1>9. e.state[d] = "DEPTH_READ"
  BY <1>1, <1>2, <1>6, <1>8 DEF Recordings
<1>10. PICK back : back = [resource |-> d, planes |-> ps,
                           before |-> "DEPTH_READ", after |-> "DEPTH_WRITE"]
  OBVIOUS
<1>11. Barriers!Reverts(back, b)
  BY <1>3, <1>10 DEF Barriers!Reverts
<1>12. [st EXCEPT ![d] = "DEPTH_WRITE"] = c.state
  BY <1>1, <1>2, <1>6 DEF Recordings
<1>13. Barriers!Transition(e, d, ps, "DEPTH_WRITE") = c
  <2>1. PICK m : m = [e EXCEPT !.state[d] = "DEPTH_WRITE"]
    OBVIOUS
  <2>2. m = [state |-> c.state, batch |-> bs, count |-> c.count + 1]
    BY <1>8, <1>12, <2>1
  <2>3. Barriers!Transition(e, d, ps, "DEPTH_WRITE")
          = Barriers!AddTransition(m, back)
    BY <1>2, <1>9, <1>10, <2>1 DEF Barriers!Transition
  <2>4. PICK k : k = c.count + 1
    OBVIOUS
  <2>5. m = [state |-> c.state, batch |-> bs, count |-> k]
    BY <2>2, <2>4
  <2>6. Barriers!AddTransition(m, back) =
          [state |-> c.state, batch |-> Barriers!Front(bs), count |-> k - 1]
    BY <1>5, <1>11, <2>5 DEF Barriers!AddTransition
  <2>7. k - 1 = c.count
    BY <1>1, <2>4
  <2> QED BY <1>1, <1>5, <2>3, <2>6, <2>7 DEF Recordings
<1> QED BY <1>7, <1>8, <1>13
-----------------------------------------------------------------------------
(* What the actions do to the recording                                     *)

LEMMA StateFacts ==
  ASSUME StateInv
  PROVE  /\ Barriers!Recording \in Recordings
         /\ state \in [Barriers!Resources -> Barriers!States]
         /\ batch \in Seq(BarrierSet) /\ Len(batch) \in Nat
         /\ numBarriers \in Nat /\ Len(batch) <= numBarriers
         /\ numBarriers <= MaxBarriers
         /\ drawn \in BOOLEAN /\ needSetRTs \in BOOLEAN
         /\ pass \in Barriers!Passes \cup {Barriers!NoPass}
         /\ pass.color \in Colors \cup BackBuffers \cup {Nothing}
         /\ pass.depth \in Depths \cup {Nothing}
         /\ index \in BackBuffers
         /\ rays \subseteq Barriers!States
         /\ Barriers!IsPlaneStates(planes) /\ Barriers!IsPlaneStates(gpu)
         /\ Barriers!Recording.state = state
         /\ Barriers!Recording.batch = batch
         /\ Barriers!Recording.count = numBarriers
<1>1. /\ Barriers!Recording.state = state
      /\ Barriers!Recording.batch = batch
      /\ Barriers!Recording.count = numBarriers
  BY DEF Barriers!Recording
<1>2. Barriers!Recording \in Recordings
  BY DEF StateInv, IsReal, Recordings
<1>3. /\ state \in [Barriers!Resources -> Barriers!States]
      /\ batch \in Seq(BarrierSet) /\ numBarriers \in Nat
  BY <1>1, <1>2 DEF Recordings
<1>4. Len(batch) \in Nat
  BY <1>3
<1>5. numBarriers \in Len(batch) .. MaxBarriers
  BY DEF StateInv, Barriers!TypeOK
<1>6. pass \in Barriers!Passes \cup {Barriers!NoPass}
  BY DEF StateInv, Barriers!TypeOK
<1>7. /\ pass.color \in Colors \cup BackBuffers \cup {Nothing}
      /\ pass.depth \in Depths \cup {Nothing}
  BY <1>6 DEF Barriers!Passes, Barriers!NoPass
<1>8. drawn \in BOOLEAN /\ needSetRTs \in BOOLEAN /\ index \in BackBuffers
      /\ rays \subseteq Barriers!States
      /\ Barriers!IsPlaneStates(planes) /\ Barriers!IsPlaneStates(gpu)
  BY DEF StateInv, Barriers!TypeOK
<1>9. Len(batch) <= numBarriers /\ numBarriers <= MaxBarriers
  BY <1>3, <1>4, <1>5, ResourcesFacts
<1> QED BY <1>1, <1>2, <1>3, <1>4, <1>6, <1>7, <1>8, <1>9

\* The draw and the clear have the transition of the colour only.
LEMMA ColourOnly ==
  ASSUME StateInv, NEW t \in Barriers!Passes
  PROVE  /\ Barriers!ClearTransitions(t) =
              Barriers!Transition(Barriers!Recording, t.color, {0},
                                  "RENDER_TARGET")
         /\ Barriers!SetRenderTargets(Barriers!Recording) =
              Barriers!Transition(Barriers!Recording, pass.color, {0},
                                  "RENDER_TARGET")
<1>1. IsReal(Barriers!Recording)
  BY DEF StateInv
<1>2. /\ t.color \in Colors \cup BackBuffers \cup {Nothing}
      /\ t.depth \in Depths \cup {Nothing}
  BY DEF Barriers!Passes
<1>3. /\ pass.color \in Colors \cup BackBuffers \cup {Nothing}
      /\ pass.depth \in Depths \cup {Nothing}
  BY StateFacts
<1>4. "RENDER_TARGET" \in Barriers!States
  BY DEF Barriers!States
<1>5. \A r \in Colors \cup BackBuffers \cup {Nothing} :
        IsReal(Barriers!Transition(Barriers!Recording, r, {0},
                                   "RENDER_TARGET"))
  BY <1>1, <1>4, TransitionReal DEF OneTransition
<1>6. PICK e : e = Barriers!Transition(Barriers!Recording, t.color, {0},
                                       "RENDER_TARGET")
  OBVIOUS
<1>7. PICK f : f = Barriers!Transition(Barriers!Recording, pass.color, {0},
                                       "RENDER_TARGET")
  OBVIOUS
<1>8. IsReal(e) /\ IsReal(f)
  BY <1>2, <1>3, <1>5, <1>6, <1>7
<1>9. \A ps : Barriers!Transition(e, t.depth, ps, "DEPTH_WRITE") = e
  BY <1>2, <1>8, DepthStays
<1>10. \A ps : Barriers!Transition(f, pass.depth, ps, "DEPTH_WRITE") = f
  BY <1>3, <1>8, DepthStays
<1> QED BY <1>6, <1>7, <1>9, <1>10
    DEF Barriers!ClearTransitions, Barriers!SetRenderTargets

\* After its batch the list is in the states that are tracked.
LEMMA FlushedStates ==
  ASSUME NEW c, IsReal(c), NEW l, l = Barriers!Flushed(planes, c.batch)
  PROVE  AreIn(c, l) /\ Barriers!IsPlaneStates(l)
<1>1. c.state \in [Barriers!Resources -> Barriers!States]
  BY DEF IsReal
<1>2. AreIn(c, l)
  BY DEF IsReal, AreIn
<1>3. DOMAIN l = Barriers!Resources
  BY DEF Barriers!Flushed, Barriers!Executed
<1>4. \A r \in Barriers!Resources :
        l[r] = [p \in Barriers!Planes(r) |-> l[r][p]]
  BY DEF Barriers!Flushed, Barriers!Executed
<1>5. \A r \in Barriers!Resources : \A p \in Barriers!Planes(r) :
        l[r][p] \in Barriers!States
  BY <1>1, <1>2 DEF AreIn
<1>6. \A r \in Barriers!Resources :
        l[r] \in [Barriers!Planes(r) -> Barriers!States]
  BY <1>4, <1>5
<1> QED BY <1>2, <1>3, <1>6 DEF Barriers!IsPlaneStates

\* The batch reaches the list.
LEMMA BatchFlushed ==
  ASSUME sound, NEW c, IsReal(c), Barriers!FlushResourceBarriers(c.batch),
         state' = c.state, numBarriers' \in Nat
  PROVE  /\ AreIn(c, planes') /\ sound'
         /\ Barriers!IsPlaneStates(planes)'
         /\ IsReal(Barriers!Recording)'
<1>1. c \in Recordings
  BY DEF IsReal, Recordings
<1>2. /\ c.state \in [Barriers!Resources -> Barriers!States]
      /\ c.batch \in Seq(BarrierSet)
  BY <1>1 DEF Recordings
<1>3. /\ batch' = <<>> /\ planes' = Barriers!Flushed(planes, c.batch)
      /\ sound' = (sound /\ Barriers!Sound(planes, c.batch))
  BY DEF Barriers!FlushResourceBarriers
<1>4. sound'
  BY <1>3 DEF IsReal
<1>5. PICK l : l = Barriers!Flushed(planes, c.batch)
  OBVIOUS
<1>6. AreIn(c, planes') /\ Barriers!IsPlaneStates(planes)'
  <2>1. AreIn(c, l) /\ Barriers!IsPlaneStates(l)
    BY <1>5, FlushedStates
  <2>2. planes' = l
    BY <1>3, <1>5
  <2> QED BY <2>1, <2>2
      DEF Barriers!IsPlaneStates, Barriers!Planes, Barriers!Resources,
          Barriers!States
<1>7. IsReal(Barriers!Recording)'
  <2>1. /\ Barriers!Recording' = [state |-> c.state, batch |-> <<>>,
                                  count |-> numBarriers']
    BY <1>3 DEF Barriers!Recording
  <2>2. PICK e : e = [state |-> c.state, batch |-> <<>>,
                      count |-> numBarriers']
    OBVIOUS
  <2>3. e \in Recordings /\ e.state = c.state /\ e.batch = <<>>
        /\ e.count = numBarriers'
    BY <1>2, <2>2 DEF Recordings
  <2>4. Len(e.batch) = 0 /\ DOMAIN e.batch = {}
    BY <2>3
  <2>5. \A r \in Barriers!Resources : \A p \in Barriers!Planes(r) :
          Barriers!Flushed(planes', e.batch)[r][p] = e.state[r]
    <3>1. Barriers!Flushed(planes', e.batch)
            = Barriers!Executed(planes', e.batch, 0)
      BY <2>4 DEF Barriers!Flushed
    <3> QED BY <1>6, <2>3, <3>1, NoneExecuted DEF AreIn
  <2>6. Barriers!Sound(planes', e.batch)
    BY <2>4 DEF Barriers!Sound
  <2>7. Len(e.batch) <= e.count /\ \A d \in Depths : e.state[d] = "DEPTH_WRITE"
    BY <2>3, <2>4 DEF IsReal
  <2>8. /\ e \in [state : [Barriers!Resources -> Barriers!States],
                  batch : Seq(BarrierSet), count : Nat]
    BY <2>3 DEF Recordings
  <2>9. e = Barriers!Recording'
    BY <2>1, <2>2
  <2> QED BY <2>5, <2>6, <2>7, <2>8, <2>9
      DEF IsReal
<1> QED BY <1>4, <1>6, <1>7

\* The rest of a step that opens with the recording c and flushes it
Meets(c) ==
  IsReal(c) /\ c.count + Len(batch) = numBarriers + Len(c.batch)
Rest ==
  /\ drawn \in BOOLEAN /\ needSetRTs \in BOOLEAN
  /\ pass \in Barriers!Passes \cup {Barriers!NoPass}
  /\ index \in BackBuffers /\ rays \subseteq Barriers!States
  /\ TargetSet

LEMMA FlushStep ==
  ASSUME StateInv, NEW c, Meets(c), c.count <= MaxBarriers,
         Barriers!Flush(c), gpu' = gpu, Rest'
  PROVE  StateInv' /\ AreIn(c, planes')
<1>1. c \in Recordings /\ IsReal(c) /\ c.count + Len(batch) = numBarriers + Len(c.batch)
  BY DEF Meets, IsReal, Recordings
<1>2. /\ c.batch \in Seq(BarrierSet) /\ c.count \in Nat /\ Len(c.batch) \in Nat
      /\ c.state \in [Barriers!Resources -> Barriers!States]
  BY <1>1 DEF Recordings
<1>3. /\ state' = c.state /\ numBarriers' = c.count
      /\ Barriers!FlushResourceBarriers(c.batch) /\ batch' = <<>>
      /\ planes' = Barriers!Flushed(planes, c.batch)
  BY DEF Barriers!Flush, Barriers!FlushResourceBarriers
<1>4. sound
  BY DEF StateInv
<1>5. /\ AreIn(c, planes') /\ sound'
      /\ Barriers!IsPlaneStates(planes)' /\ IsReal(Barriers!Recording)'
  BY <1>1, <1>2, <1>3, <1>4, BatchFlushed
<1>6. Len(batch') = 0
  BY <1>3
<1>7. ListUntouched'
  <2>1. ASSUME numBarriers' = Len(batch')
        PROVE  /\ c.count = 0 /\ Len(c.batch) = 0
               /\ numBarriers = Len(batch)
    <3>1. c.count = 0
      BY <1>3, <1>6, <2>1
    <3>2. Len(c.batch) <= c.count
      BY <1>1 DEF IsReal
    <3> QED BY <1>1, <1>2, <3>1, <3>2, StateFacts
  <2>2. ASSUME numBarriers' = Len(batch'), NEW r \in Barriers!Resources,
               NEW p \in Barriers!Planes(r)
        PROVE  planes'[r][p] = gpu'[r][p]
    <3>1. Barriers!Flushed(planes, c.batch)[r][p] = planes[r][p]
      BY <2>1, <2>2, NoneExecuted DEF Barriers!Flushed
    <3>2. planes[r][p] = gpu[r][p]
      BY <2>1, <2>2 DEF StateInv, ListUntouched
    <3> QED BY <1>3, <3>1, <3>2
  <2> QED BY <2>2 DEF ListUntouched, Barriers!Resources, Barriers!Planes
<1>8. Barriers!TypeOK'
  <2>1. state' \in [Barriers!Resources -> Barriers!States]
    BY <1>2, <1>3
  <2>2. numBarriers' \in Len(batch') .. MaxBarriers
    BY <1>2, <1>3, <1>6, ResourcesFacts
  <2>3. DOMAIN batch' = {}
    BY <1>3
  <2>4. Barriers!IsPlaneStates(gpu)'
    BY StateFacts
    DEF Barriers!IsPlaneStates, Barriers!Resources, Barriers!Planes,
        Barriers!States
  <2>5. sound' \in BOOLEAN
    BY <1>3 DEF Barriers!FlushResourceBarriers
  <2> QED BY <1>5, <2>1, <2>2, <2>3, <2>4, <2>5
      DEF Barriers!TypeOK, Rest, Barriers!Resources, Barriers!States,
          Barriers!Passes, Barriers!NoPass
<1> QED BY <1>5, <1>7, <1>8 DEF StateInv, Rest

\* Without work the GPU will be where the list is.
LEMMA SubmitStep ==
  ASSUME StateInv, NEW c, Meets(c), NEW t, Barriers!Submit(c, t), Rest'
  PROVE  StateInv' /\ AreIn(c, gpu')
<1>1. c \in Recordings /\ IsReal(c)
      /\ c.count + Len(batch) = numBarriers + Len(c.batch)
  BY DEF Meets, IsReal, Recordings
<1>2. /\ c.batch \in Seq(BarrierSet) /\ c.count \in Nat /\ Len(c.batch) \in Nat
      /\ c.state \in [Barriers!Resources -> Barriers!States]
      /\ Len(c.batch) <= c.count
  BY <1>1 DEF Recordings, IsReal
<1>3. /\ state' = c.state
      /\ Barriers!FlushResourceBarriers(c.batch) /\ batch' = <<>>
      /\ planes' = Barriers!Flushed(planes, c.batch)
  BY DEF Barriers!Submit, Barriers!FlushResourceBarriers
<1>4. sound
  BY DEF StateInv
<1>5. CASE Barriers!HasDoneWork(c)
  <2>1. gpu' = planes' /\ numBarriers' = 0
    BY <1>5 DEF Barriers!Submit
  <2>2. /\ AreIn(c, planes') /\ sound'
        /\ Barriers!IsPlaneStates(planes)' /\ IsReal(Barriers!Recording)'
    BY <1>1, <1>2, <1>3, <1>4, <2>1, BatchFlushed
  <2>3. Barriers!TypeOK'
    <3>1. state' \in [Barriers!Resources -> Barriers!States]
      BY <1>2, <1>3
    <3>2. DOMAIN batch' = {} /\ Len(batch') = 0
      BY <1>3
    <3>3. numBarriers' \in Len(batch') .. MaxBarriers
      BY <2>1, <3>2, ResourcesFacts
    <3>4. Barriers!IsPlaneStates(gpu)'
      BY <2>1, <2>2
      DEF Barriers!IsPlaneStates, Barriers!Resources, Barriers!Planes,
          Barriers!States
    <3>5. sound' \in BOOLEAN
      BY <1>3 DEF Barriers!FlushResourceBarriers
    <3> QED BY <2>2, <3>1, <3>2, <3>3, <3>4, <3>5
        DEF Barriers!TypeOK, Rest, Barriers!Resources, Barriers!States,
            Barriers!Passes, Barriers!NoPass
  <2>4. ListUntouched'
    BY <2>1 DEF ListUntouched
  <2> QED BY <2>1, <2>2, <2>3, <2>4 DEF StateInv, Rest
<1>6. CASE ~ Barriers!HasDoneWork(c)
  <2>1. gpu' = gpu /\ numBarriers' = c.count /\ c.count = 0
    BY <1>2, <1>6 DEF Barriers!Submit, Barriers!HasDoneWork
  <2>2. Barriers!Flush(c) /\ c.count <= MaxBarriers
    BY <1>3, <2>1, ResourcesFacts DEF Barriers!Flush
  <2>3. StateInv' /\ AreIn(c, planes')
    BY <2>1, <2>2, FlushStep
  <2>4. Len(batch') = 0 /\ numBarriers' = 0
    BY <1>3, <2>1
  <2>5. \A r \in Barriers!Resources : \A p \in Barriers!Planes(r) :
          planes'[r][p] = gpu'[r][p]
    BY <2>3, <2>4
    DEF StateInv, ListUntouched, Barriers!Resources, Barriers!Planes
  <2> QED BY <2>3, <2>5 DEF AreIn
<1> QED BY <1>5, <1>6

\* What a recording with one transition more needs to be flushed
LEMMA TransitionMeets ==
  ASSUME StateInv, NEW r \in Colors \cup BackBuffers \cup {Nothing},
         NEW after \in Barriers!States, NEW c,
         c = Barriers!Transition(Barriers!Recording, r, {0}, after)
  PROVE  /\ Meets(c) /\ c.count <= numBarriers + 1 /\ c \in Recordings
         /\ IF r = Nothing THEN c.state = state
            ELSE c.state = [state EXCEPT ![r] = after]
<1>1. IsReal(Barriers!Recording)
  BY DEF StateInv
<1>2. OneTransition(Barriers!Recording, c, r, after)
  BY <1>1, TransitionReal
<1>3. c \in Recordings
  BY <1>2 DEF OneTransition, IsReal, Recordings
<1> QED BY <1>2, <1>3, StateFacts DEF OneTransition, Meets

LEMMA RecordingMeets ==
  ASSUME StateInv
  PROVE  Meets(Barriers!Recording)
BY StateFacts DEF StateInv, Meets

\* The targets of t are ready on a list in the states of c.
LEMMA ReadyThen ==
  ASSUME NEW c, IsReal(c), NEW l, AreIn(c, l),
         NEW t \in Barriers!Passes \cup {Barriers!NoPass},
         t.color # Nothing => c.state[t.color] = "RENDER_TARGET"
  PROVE  Barriers!Ready(t, l)
<1>1. /\ t.color \in Colors \cup BackBuffers \cup {Nothing}
      /\ t.depth \in Depths \cup {Nothing}
  BY DEF Barriers!Passes, Barriers!NoPass
<1>2. ASSUME NEW r \in {t.color, t.depth} \ {Nothing}
      PROVE  r \in Barriers!Resources /\ c.state[r] = Barriers!Target(r)
  <2>1. CASE r \in Depths
    BY <2>1, ResourcesFacts DEF Barriers!Target, IsReal
  <2>2. CASE r \notin Depths
    BY <1>1, <2>2, ResourcesFacts DEF Barriers!Target
  <2> QED BY <2>1, <2>2
<1> QED BY <1>2 DEF Barriers!Ready, AreIn

\* The barriers go to the list and one on all writes waits behind them.
LEMMA BuildStep ==
  ASSUME StateInv, Barriers!BuildAccelerationStructure
  PROVE  StateInv'
<1>1. /\ Barriers!Room(3) /\ batch' = <<Barriers!UAVBarrier>>
      /\ planes' = Barriers!Flushed(planes, batch)
      /\ sound' = (sound /\ Barriers!Sound(planes, batch))
      /\ numBarriers' = numBarriers + 3
      /\ UNCHANGED <<state, drawn, pass, needSetRTs, gpu, index, rays>>
  BY DEF Barriers!BuildAccelerationStructure
<1>2. PICK c : c = Barriers!Recording
  OBVIOUS
<1>3. /\ IsReal(c) /\ c.batch = batch /\ c.state = state
      /\ state \in [Barriers!Resources -> Barriers!States]
      /\ numBarriers \in Nat /\ batch \in Seq(BarrierSet)
      /\ Len(batch) \in Nat /\ Len(batch) <= numBarriers
  BY <1>2, StateFacts DEF StateInv
<1>4. AreIn(c, planes') /\ Barriers!IsPlaneStates(planes)'
  <2>1. PICK l : l = Barriers!Flushed(planes, c.batch)
    OBVIOUS
  <2>2. AreIn(c, l) /\ Barriers!IsPlaneStates(l)
    BY <1>3, <2>1, FlushedStates
  <2>3. planes' = l
    BY <1>1, <1>3, <2>1
  <2> QED BY <2>2, <2>3
      DEF Barriers!IsPlaneStates, Barriers!Planes, Barriers!Resources,
          Barriers!States
<1>5. sound'
  BY <1>1, <1>3 DEF StateInv, IsReal
<1>6. PICK bs \in Seq(BarrierSet), b \in BarrierSet :
        /\ bs = <<>> /\ b = Barriers!UAVBarrier
        /\ batch' = Append(bs, b) /\ Len(batch') = 1 /\ batch' \in Seq(BarrierSet)
        /\ b.planes = {} /\ b.resource = Nothing
  <2>1. <<>> \in Seq(BarrierSet) /\ Barriers!UAVBarrier \in BarrierSet
    BY DEF BarrierSet
  <2>2. <<Barriers!UAVBarrier>> = Append(<<>>, Barriers!UAVBarrier)
    OBVIOUS
  <2>3. Barriers!UAVBarrier.planes = {} /\ Barriers!UAVBarrier.resource = Nothing
    BY DEF Barriers!UAVBarrier
  <2>4. PICK u \in BarrierSet : u = Barriers!UAVBarrier
    BY <2>1
  <2>5. /\ Len(Append(<<>>, u)) = 1
        /\ Append(<<>>, u) \in Seq(BarrierSet)
    BY <2>1
  <2>6. batch' = Append(<<>>, u)
    BY <1>1, <2>2, <2>4
  <2> QED BY <2>1, <2>3, <2>4, <2>5, <2>6
<1>7. IsReal(Barriers!Recording)'
  <2>1. PICK e : e = [state |-> state, batch |-> Append(bs, b),
                      count |-> numBarriers + 3]
    OBVIOUS
  <2>2. e = Barriers!Recording'
    BY <1>1, <1>6, <2>1 DEF Barriers!Recording
  <2>3. e \in Recordings /\ e.state = c.state /\ e.batch = Append(bs, b)
        /\ e.count = numBarriers + 3
    BY <1>3, <1>6, <2>1 DEF Recordings
  <2>4. PICK l : l = planes'
    OBVIOUS
  <2>5. /\ Barriers!Flushed(l, bs) = Barriers!Executed(l, bs, 0)
        /\ Barriers!Sound(l, bs)
    <3>1. Len(bs) = 0 /\ DOMAIN bs = {}
      BY <1>6
    <3> QED BY <3>1 DEF Barriers!Flushed, Barriers!Sound
  <2>6. ASSUME NEW r \in Barriers!Resources, NEW p \in Barriers!Planes(r)
        PROVE  Barriers!Flushed(l, Append(bs, b))[r][p]
                 = Barriers!Flushed(l, bs)[r][p]
    <3>1. ~ (b.resource = r /\ p \in b.planes)
      BY <1>6
    <3> QED BY <3>1, AppendedTo
  <2>7. Barriers!Sound(l, Append(bs, b)) <=>
          /\ Barriers!Sound(l, bs)
          /\ \A p \in b.planes :
               Barriers!Flushed(l, bs)[b.resource][p] = b.before
    BY AppendedBarrier
  <2>8. \A r \in Barriers!Resources : \A p \in Barriers!Planes(r) :
          Barriers!Flushed(l, e.batch)[r][p] = e.state[r]
    BY <1>4, <1>6, <2>3, <2>4, <2>5, <2>6, NoneExecuted DEF AreIn
  <2>9. Barriers!Sound(l, e.batch)
    BY <1>6, <2>3, <2>5, <2>7
  <2>10. /\ Len(e.batch) <= e.count
         /\ \A d \in Depths : e.state[d] = "DEPTH_WRITE"
    BY <1>3, <1>6, <2>3 DEF IsReal
  <2>11. e \in [state : [Barriers!Resources -> Barriers!States],
                batch : Seq(BarrierSet), count : Nat]
    BY <2>3 DEF Recordings
  <2> QED BY <2>2, <2>4, <2>8, <2>9, <2>10, <2>11 DEF IsReal
<1>8. ListUntouched'
  BY <1>1, <1>3, <1>6 DEF ListUntouched
<1>9. Barriers!TypeOK'
  <2>1. numBarriers' \in Len(batch') .. MaxBarriers
    BY <1>1, <1>3, <1>6, ResourcesFacts DEF Barriers!Room
  <2>2. \A i \in DOMAIN batch' : batch'[i] = Barriers!UAVBarrier
    BY <1>1
  <2>3. Barriers!IsPlaneStates(gpu)'
    BY <1>1, StateFacts
    DEF Barriers!IsPlaneStates, Barriers!Resources, Barriers!Planes,
        Barriers!States
  <2>4. sound' \in BOOLEAN
    BY <1>1
  <2> QED BY <1>1, <1>4, <2>1, <2>2, <2>3, <2>4
      DEF StateInv, Barriers!TypeOK, Barriers!UAVBarrier, Barriers!Resources,
          Barriers!States, Barriers!Passes, Barriers!NoPass
<1>10. TargetSet'
  BY <1>1 DEF StateInv, TargetSet
<1> QED BY <1>5, <1>7, <1>8, <1>9, <1>10 DEF StateInv

\* Nothing is recorded.
LEMMA NothingRecorded ==
  ASSUME StateInv, UNCHANGED <<state, batch, numBarriers, planes, sound, gpu>>,
         Rest'
  PROVE  StateInv'
<1>1. IsReal(Barriers!Recording)'
  <2>1. PICK c : c = Barriers!Recording
    OBVIOUS
  <2>2. c = Barriers!Recording'
    BY <2>1 DEF Barriers!Recording
  <2>3. PICK l : l = planes
    OBVIOUS
  <2>4. /\ c \in [state : [Barriers!Resources -> Barriers!States],
                 batch : Seq(BarrierSet), count : Nat]
        /\ Len(c.batch) <= c.count
        /\ \A d \in Depths : c.state[d] = "DEPTH_WRITE"
        /\ Barriers!Sound(l, c.batch)
        /\ \A r \in Barriers!Resources : \A p \in Barriers!Planes(r) :
             Barriers!Flushed(l, c.batch)[r][p] = c.state[r]
    BY <2>1, <2>3 DEF StateInv, IsReal
  <2>5. planes' = l
    BY <2>3
  <2> QED BY <2>2, <2>4, <2>5 DEF IsReal
<1>2. ListUntouched'
  BY DEF StateInv, ListUntouched, Barriers!Resources, Barriers!Planes
<1>3. Barriers!TypeOK'
  BY DEF StateInv, Rest, Barriers!TypeOK, Barriers!IsPlaneStates,
     Barriers!UAVBarrier, Barriers!Resources, Barriers!Planes, Barriers!States,
     Barriers!Passes, Barriers!NoPass
<1>4. sound' = sound
  OBVIOUS
<1> QED BY <1>1, <1>2, <1>3, <1>4 DEF StateInv, Rest

LEMMA DrawStep ==
  ASSUME StateInv, Barriers!Draw
  PROVE  StateInv' /\ Barriers!Ready(pass, planes')
<1>1. PICK c : c = IF needSetRTs
                   THEN Barriers!SetRenderTargets(Barriers!Recording)
                   ELSE Barriers!Recording
  OBVIOUS
<1>2. /\ Barriers!Room(3) /\ pass # Barriers!NoPass /\ Barriers!Flush(c)
      /\ needSetRTs' = FALSE /\ drawn' = TRUE
      /\ pass' = pass /\ gpu' = gpu /\ index' = index /\ rays' = rays
  BY <1>1 DEF Barriers!Draw
<1>3. pass \in Barriers!Passes
  BY <1>2, StateFacts
<1>4. /\ Meets(c) /\ c.count <= MaxBarriers
      /\ pass.color # Nothing => c.state[pass.color] = "RENDER_TARGET"
  <2>1. CASE needSetRTs
    <3>1. c = Barriers!Transition(Barriers!Recording, pass.color, {0},
                                  "RENDER_TARGET")
      BY <1>1, <1>3, <2>1, ColourOnly
    <3>2. /\ pass.color \in Colors \cup BackBuffers \cup {Nothing}
          /\ "RENDER_TARGET" \in Barriers!States
      BY StateFacts DEF Barriers!States
    <3>3. /\ Meets(c) /\ c.count <= numBarriers + 1 /\ c \in Recordings
          /\ IF pass.color = Nothing THEN c.state = state
             ELSE c.state = [state EXCEPT ![pass.color] = "RENDER_TARGET"]
      BY <3>1, <3>2, TransitionMeets
    <3>4. c.count <= MaxBarriers
      BY <1>2, <3>3, StateFacts, ResourcesFacts DEF Barriers!Room, Recordings
    <3>5. pass.color # Nothing => c.state[pass.color] = "RENDER_TARGET"
      BY <3>2, <3>3, StateFacts, ResourcesFacts
    <3> QED BY <3>3, <3>4, <3>5
  <2>2. CASE ~ needSetRTs
    <3>1. c = Barriers!Recording
      BY <1>1, <2>2
    <3> QED BY <2>2, <3>1, RecordingMeets, StateFacts DEF StateInv, TargetSet
  <2> QED BY <2>1, <2>2
<1>5. Rest'
  <2>1. /\ state' = c.state
    BY <1>2 DEF Barriers!Flush
  <2>2. TargetSet'
    BY <1>2, <1>4, <2>1 DEF TargetSet
  <2> QED BY <1>2, <2>2, StateFacts
      DEF Rest, Barriers!Passes, Barriers!NoPass, Barriers!States
<1>6. StateInv' /\ AreIn(c, planes')
  BY <1>2, <1>4, <1>5, FlushStep
<1>7. Barriers!Ready(pass, planes')
  <2>1. PICK l : l = planes'
    OBVIOUS
  <2>2. IsReal(c)
    BY <1>4 DEF Meets
  <2>3. Barriers!Ready(pass, l)
    BY <1>3, <1>4, <1>6, <2>1, <2>2, ReadyThen
  <2> QED BY <2>1, <2>3
<1> QED BY <1>6, <1>7

LEMMA BeginRenderPassStep ==
  ASSUME StateInv, NEW t \in Barriers!Passes, NEW clear \in BOOLEAN,
         Barriers!BeginRenderPass(t, clear)
  PROVE  StateInv' /\ (clear => Barriers!Ready(t, planes'))
<1>1. /\ Barriers!Room(2) /\ pass' = t
      /\ needSetRTs' = (needSetRTs \/ t # pass)
      /\ drawn' = drawn /\ gpu' = gpu /\ index' = index /\ rays' = rays
  BY DEF Barriers!BeginRenderPass
<1>2. CASE clear
  <2>1. PICK c : c = Barriers!Transition(Barriers!Recording, t.color, {0},
                                         "RENDER_TARGET")
    OBVIOUS
  <2>2. Barriers!Flush(c)
    BY <1>2, <2>1, ColourOnly DEF Barriers!BeginRenderPass, Barriers!ClearMRT
  <2>3. /\ t.color \in Colors \cup BackBuffers \cup {Nothing}
        /\ "RENDER_TARGET" \in Barriers!States
    BY DEF Barriers!Passes, Barriers!States
  <2>4. /\ Meets(c) /\ c.count <= numBarriers + 1 /\ c \in Recordings
        /\ IF t.color = Nothing THEN c.state = state
           ELSE c.state = [state EXCEPT ![t.color] = "RENDER_TARGET"]
    BY <2>1, <2>3, TransitionMeets
  <2>5. c.count <= MaxBarriers
    BY <1>1, <2>4, StateFacts, ResourcesFacts DEF Barriers!Room, Recordings
  <2>6. t.color # Nothing => c.state[t.color] = "RENDER_TARGET"
    BY <2>3, <2>4, StateFacts, ResourcesFacts
  <2>7. Rest'
    <3>1. state' = c.state
      BY <2>2 DEF Barriers!Flush
    <3>2. TargetSet'
      BY <1>1, <2>6, <3>1 DEF TargetSet
    <3>3. needSetRTs' \in BOOLEAN
      BY <1>1
    <3> QED BY <1>1, <3>2, <3>3, StateFacts
        DEF Rest, Barriers!Passes, Barriers!NoPass, Barriers!States
  <2>8. StateInv' /\ AreIn(c, planes')
    BY <1>1, <2>2, <2>4, <2>5, <2>7, FlushStep
  <2>9. PICK l : l = planes'
    OBVIOUS
  <2>10. IsReal(c)
    BY <2>4 DEF Meets
  <2>11. Barriers!Ready(t, l)
    BY <2>6, <2>8, <2>9, <2>10, ReadyThen
  <2> QED BY <2>8, <2>9, <2>11
<1>3. CASE ~ clear
  <2>1. UNCHANGED <<state, batch, numBarriers, planes, sound, gpu>>
    BY <1>1, <1>3 DEF Barriers!BeginRenderPass, Barriers!context
  <2>2. TargetSet'
    <3>1. ASSUME ~ needSetRTs', t.color # Nothing
          PROVE  state[t.color] = "RENDER_TARGET"
      <4>1. ~ needSetRTs /\ t = pass
        BY <1>1, <3>1
      <4> QED BY <3>1, <4>1 DEF StateInv, TargetSet
    <3> QED BY <1>1, <2>1, <3>1 DEF TargetSet
  <2>3. needSetRTs' \in BOOLEAN
    BY <1>1
  <2>4. Rest'
    BY <1>1, <2>2, <2>3, StateFacts
    DEF Rest, Barriers!Passes, Barriers!NoPass, Barriers!States
  <2> QED BY <1>3, <2>1, <2>4, NothingRecorded
<1> QED BY <1>2, <1>3

LEMMA DispatchStep ==
  ASSUME StateInv, Barriers!DispatchComputeShader
  PROVE  StateInv'
<1>1. /\ Barriers!Flush(Barriers!Recording)
      /\ UNCHANGED <<drawn, pass, needSetRTs, gpu, index, rays>>
  BY DEF Barriers!DispatchComputeShader
<1>2. state' = state
  BY <1>1, StateFacts DEF Barriers!Flush
<1>3. Rest'
  BY <1>1, <1>2, StateFacts
  DEF Rest, StateInv, TargetSet, Barriers!Passes, Barriers!NoPass,
      Barriers!States
<1> QED BY <1>1, <1>3, RecordingMeets, StateFacts, FlushStep

LEMMA RayTraceShadowStep ==
  ASSUME StateInv, NEW d \in Depths, Barriers!RayTraceShadow(d)
  PROVE  StateInv'
<1>1. /\ Barriers!Keep(Barriers!Transition(
           Barriers!Transition(Barriers!Recording, d, Barriers!Planes(d),
                               "DEPTH_READ"),
           d, Barriers!Planes(d), "DEPTH_WRITE"))
      /\ rays' = {planes[d][p] : p \in Barriers!Planes(d)}
      /\ UNCHANGED <<drawn, pass, needSetRTs, gpu, index>>
  BY DEF Barriers!RayTraceShadow
<1>2. Barriers!Keep(Barriers!Recording)
  <2>1. IsReal(Barriers!Recording)
    BY DEF StateInv
  <2> QED BY <1>1, <2>1, ShadowTransitions
<1>3. UNCHANGED <<state, batch, numBarriers, planes, sound, gpu>>
  BY <1>1, <1>2, StateFacts DEF Barriers!Keep
<1>4. rays' \subseteq Barriers!States
  <2>1. d \in Barriers!Resources
    BY ResourcesFacts
  <2> QED BY <1>1, <2>1, StateFacts DEF Barriers!IsPlaneStates
<1>5. Rest'
  BY <1>1, <1>3, <1>4, StateFacts
  DEF Rest, StateInv, TargetSet, Barriers!Passes, Barriers!NoPass,
      Barriers!States
<1> QED BY <1>3, <1>5, NothingRecorded

LEMMA FlushCommandsStep ==
  ASSUME StateInv, Barriers!FlushCommands
  PROVE  StateInv'
<1>1. /\ Barriers!Submit(Barriers!Recording, pass)
      /\ UNCHANGED <<pass, index, rays>>
  BY DEF Barriers!FlushCommands
<1>2. /\ state' = state /\ drawn' \in BOOLEAN
      /\ needSetRTs' \in BOOLEAN /\ (~ needSetRTs' => ~ needSetRTs)
  BY <1>1, StateFacts DEF Barriers!Submit
<1>3. Rest'
  BY <1>1, <1>2, StateFacts
  DEF Rest, StateInv, TargetSet, Barriers!Passes, Barriers!NoPass,
      Barriers!States
<1> QED BY <1>1, <1>3, RecordingMeets, SubmitStep

LEMMA EndFrameStep ==
  ASSUME StateInv, Barriers!EndFrame
  PROVE  StateInv'
<1>1. /\ pass' = Barriers!NoPass
      /\ Barriers!Submit(Barriers!Recording, Barriers!NoPass)
      /\ UNCHANGED <<index, rays>>
  BY DEF Barriers!EndFrame
<1>2. drawn' \in BOOLEAN /\ needSetRTs' \in BOOLEAN
  BY <1>1, StateFacts DEF Barriers!Submit
<1>3. TargetSet'
  BY <1>1 DEF TargetSet, Barriers!NoPass
<1>4. Rest'
  BY <1>1, <1>2, <1>3, StateFacts
  DEF Rest, Barriers!Passes, Barriers!NoPass, Barriers!States
<1> QED BY <1>1, <1>4, RecordingMeets, SubmitStep

LEMMA SwapBuffersStep ==
  ASSUME StateInv, Barriers!SwapBuffers
  PROVE  StateInv' /\ gpu'[index][0] = "COMMON"
<1>1. PICK c : c = Barriers!Transition(Barriers!Recording, index, {0},
                                       "COMMON")
  OBVIOUS
<1>2. /\ pass = Barriers!NoPass /\ Barriers!Submit(c, Barriers!NoPass)
      /\ index' \in BackBuffers /\ pass' = pass /\ rays' = rays
  BY <1>1 DEF Barriers!SwapBuffers
<1>3. index \in BackBuffers /\ "COMMON" \in Barriers!States
  BY StateFacts DEF Barriers!States
<1>4. /\ Meets(c)
      /\ c.state = [state EXCEPT ![index] = "COMMON"]
  <2>1. index # Nothing
    BY <1>3, ResourcesFacts
  <2> QED BY <1>1, <1>3, <2>1, TransitionMeets
<1>5. drawn' \in BOOLEAN /\ needSetRTs' \in BOOLEAN
  BY <1>2, StateFacts DEF Barriers!Submit
<1>6. TargetSet'
  BY <1>2 DEF TargetSet, Barriers!NoPass
<1>7. Rest'
  BY <1>2, <1>5, <1>6, StateFacts
  DEF Rest, Barriers!Passes, Barriers!NoPass, Barriers!States
<1>8. StateInv' /\ AreIn(c, gpu')
  BY <1>2, <1>4, <1>7, SubmitStep
<1>9. gpu'[index][0] = "COMMON"
  BY <1>3, <1>4, <1>8, StateFacts, ResourcesFacts DEF AreIn
<1> QED BY <1>8, <1>9

LEMMA NextStateInv ==
  StateInv /\ [Barriers!Next]_(Barriers!vars) => StateInv'
<1> SUFFICES ASSUME StateInv, [Barriers!Next]_(Barriers!vars)
             PROVE  StateInv'
  OBVIOUS
<1>1. ASSUME UNCHANGED Barriers!vars
      PROVE  StateInv'
  <2>1. /\ UNCHANGED <<state, batch, numBarriers, planes, sound, gpu>>
        /\ UNCHANGED <<drawn, pass, needSetRTs, index, rays>>
    BY <1>1 DEF Barriers!vars
  <2>2. Rest'
    BY <2>1, StateFacts
    DEF Rest, StateInv, TargetSet, Barriers!Passes, Barriers!NoPass,
        Barriers!States
  <2> QED BY <2>1, <2>2, NothingRecorded
<1>2. ASSUME NEW t \in Barriers!Passes, NEW clear \in BOOLEAN,
             Barriers!BeginRenderPass(t, clear)
      PROVE  StateInv'
  BY <1>2, BeginRenderPassStep
<1>3. ASSUME NEW d \in Depths, Barriers!RayTraceShadow(d)
      PROVE  StateInv'
  BY <1>3, RayTraceShadowStep
<1> QED
  BY <1>1, <1>2, <1>3, DrawStep, DispatchStep, BuildStep, FlushCommandsStep,
     EndFrameStep, SwapBuffersStep
  DEF Barriers!Next

LEMMA InitStateInv == Barriers!Init => StateInv
<1> SUFFICES ASSUME Barriers!Init
             PROVE  StateInv
  OBVIOUS
<1> USE ResourcesFacts
<1>1. /\ state = [r \in Barriers!Resources |->
                    IF r \in Depths THEN "DEPTH_WRITE" ELSE "COMMON"]
      /\ batch = <<>> /\ numBarriers = 0 /\ drawn = FALSE
      /\ pass = Barriers!NoPass /\ needSetRTs \in BOOLEAN
      /\ planes = [r \in Barriers!Resources |->
                     [p \in Barriers!Planes(r) |-> state[r]]]
      /\ gpu = planes /\ index \in BackBuffers /\ sound = TRUE /\ rays = {}
  BY DEF Barriers!Init
<1>2. state \in [Barriers!Resources -> Barriers!States]
  BY <1>1 DEF Barriers!States
<1>3. Len(batch) = 0 /\ DOMAIN batch = {} /\ batch \in Seq(BarrierSet)
  BY <1>1
<1>4. PICK c : c = Barriers!Recording
  OBVIOUS
<1>5. c.state = state /\ c.batch = batch /\ c.count = 0
      /\ c \in [state : [Barriers!Resources -> Barriers!States],
                batch : Seq(BarrierSet), count : Nat]
  BY <1>1, <1>2, <1>3, <1>4 DEF Barriers!Recording
<1>6. \A r \in Barriers!Resources : \A p \in Barriers!Planes(r) :
        Barriers!Flushed(planes, c.batch)[r][p] = c.state[r]
  <2>1. Barriers!Flushed(planes, c.batch)
          = Barriers!Executed(planes, c.batch, 0)
    BY <1>3, <1>5 DEF Barriers!Flushed
  <2>2. ASSUME NEW r \in Barriers!Resources, NEW p \in Barriers!Planes(r)
        PROVE  Barriers!Flushed(planes, c.batch)[r][p] = c.state[r]
    <3>1. Barriers!Executed(planes, c.batch, 0)[r][p] = planes[r][p]
      BY NoneExecuted
    <3>2. planes[r][p] = state[r]
      BY <1>1
    <3> QED BY <1>5, <2>1, <3>1, <3>2
  <2> QED BY <2>2
<1>7. IsReal(c)
  <2>1. Barriers!Sound(planes, c.batch)
    BY <1>3, <1>5 DEF Barriers!Sound
  <2>2. Len(c.batch) <= c.count /\ \A d \in Depths : c.state[d] = "DEPTH_WRITE"
    BY <1>1, <1>3, <1>5
  <2> QED BY <1>5, <1>6, <2>1, <2>2 DEF IsReal
<1>8. Barriers!IsPlaneStates(planes)
  BY <1>1, <1>2 DEF Barriers!IsPlaneStates
<1>9. numBarriers \in Len(batch) .. MaxBarriers
  BY <1>1, <1>3
<1>10. Barriers!TypeOK
  BY <1>1, <1>2, <1>3, <1>8, <1>9 DEF Barriers!TypeOK
<1>11. ListUntouched /\ TargetSet
  BY <1>1 DEF ListUntouched, TargetSet, Barriers!NoPass
<1> QED BY <1>1, <1>4, <1>7, <1>10, <1>11 DEF StateInv

LEMMA FramesKeepStates ==
  /\ FramesInit => StateInv
  /\ StateInv /\ [FramesNext]_<<part, vars, pipelineVars, drawVars,
                                barrierVars, tableVars>> => StateInv'
<1>1. FramesInit => StateInv
  BY InitStateInv DEF FramesInit
<1>2. [FramesNext]_<<part, vars, pipelineVars, drawVars, barrierVars,
                     tableVars>> => [Barriers!Next]_(Barriers!vars)
  BY DEF FramesNext, DeletionStep, PipelineStep, DrawingStep, BarrierStep,
     TableStep, barrierVars, Barriers!vars
<1> QED BY <1>1, <1>2, NextStateInv

\* Whatever passes, draws, builds, rays, flushes and frames follow each other,
\* over any textures: every barrier executed on a list began in the state its
\* planes were in, and the tracked state of a texture is that of all its planes
\* once the batch is flushed, whatever transitions cancelled.
THEOREM StatesTracked == FramesSpec => []TrackedIsReal
<1>1. StateInv => TrackedIsReal
  BY StateFacts
  DEF StateInv, IsReal, TrackedIsReal, Barriers!TrackedIsReal
<1> QED BY <1>1, FramesKeepStates, PTL DEF FramesSpec

\* A target that is drawn to or cleared is in the state for it on the list at
\* that point, and a back buffer is in PRESENT on the queue when it is presented.
THEOREM TargetsAreReady == FramesSpec => TargetsReady
<1> DEFINE framesVars == <<part, vars, pipelineVars, drawVars, barrierVars,
                           tableVars>>
           drawReady ==
             /\ Barriers!Draw => Barriers!Ready(pass, planes')
             /\ \A t \in Barriers!Passes :
                  Barriers!BeginRenderPass(t, TRUE)
                    => Barriers!Ready(t, planes')
           presentReady == Barriers!SwapBuffers => gpu'[index][0] = "COMMON"
<1>1. StateInv => drawReady /\ presentReady
  <2>1. ASSUME StateInv, NEW t \in Barriers!Passes,
               Barriers!BeginRenderPass(t, TRUE)
        PROVE  Barriers!Ready(t, planes')
    BY <2>1, BeginRenderPassStep
  <2> QED BY <2>1, DrawStep, SwapBuffersStep
<1>2. StateInv /\ [FramesNext]_framesVars
        => [drawReady]_(Barriers!vars) /\ [presentReady]_(Barriers!vars)
  BY <1>1
<1>3. FramesSpec => [][drawReady]_(Barriers!vars) /\ [][presentReady]_(Barriers!vars)
  BY <1>2, FramesKeepStates, PTL DEF FramesSpec
<1> QED BY <1>3
    DEF TargetsReady, Barriers!TargetsReady, Barriers!PresentedInPresent

-----------------------------------------------------------------------------
(* Tables in the online heaps                                              *)

\* What reads the heaps: draws not finished, and the tables of the open list,
\* which the next draw reads.
ViewRefs ==
  {u \in uses : u.kind = "view"} \cup Tables!UsesOf("view", tabV)
SamplerRefs ==
  {u \in uses : u.kind = "sampler"} \cup Tables!UsesOf("sampler", tabS)

Reads == [batch : Nat, kind : {"view", "sampler"},
        at : [heap : Nat, slot : Nat]]

\* Uses are of batches the GPU has not finished
UsesKnown ==
  /\ uses \subseteq Reads
  /\ \A u \in uses : done < u.batch /\ u.batch <= open
  /\ done < open

\* What a pool holds is in the order it was given back
InTurn(pool, now) ==
  /\ \A i \in 1 .. Len(pool) : pool[i].sync <= now
  /\ \A i, j \in 1 .. Len(pool) : i <= j => pool[i].sync <= pool[j].sync

\* The heaps made so far are in one place each; what reads the current one is
\* below its next slot, what reads one in the pool began before that was left
HeapsPlaced(l, refs, now) ==
  /\ l.heap \in 2 .. l.made + 1
  /\ \A i \in 1 .. Len(l.pool) :
       l.pool[i].heap \in 2 .. l.made + 1 /\ l.pool[i].heap # l.heap
  /\ \A i, j \in 1 .. Len(l.pool) :
       l.pool[i].heap = l.pool[j].heap => i = j
  /\ InTurn(l.pool, now)
  /\ \A r \in refs :
       r.at.heap \in Tables!Locals =>
         \/ r.at.heap = l.heap /\ r.at.slot <= l.next
         \/ \E i \in 1 .. Len(l.pool) :
              r.at.heap = l.pool[i].heap /\ r.batch <= l.pool[i].sync

BlockStart(b) == (b - 1) * BlockSize
InBlock(slot, b) == BlockStart(b) < slot /\ slot <= BlockStart(b) + BlockSize

\* The same of the blocks of the shared view heap
BlocksPlaced ==
  /\ \A i \in 1 .. Len(blockPool) : blockPool[i].block # block
  /\ \A i, j \in 1 .. Len(blockPool) :
       blockPool[i].block = blockPool[j].block => i = j
  /\ InTurn(blockPool, open)
  /\ \A r \in ViewRefs :
       r.at # Tables!NoTable =>
         /\ r.at.heap = Tables!Shared
         /\ \/ InBlock(r.at.slot, block) /\ r.at.slot <= BlockStart(block) + used
            \/ \E i \in 1 .. Len(blockPool) :
                 /\ InBlock(r.at.slot, blockPool[i].block)
                 /\ r.batch <= blockPool[i].sync

ViewsPlaced ==
  IF onBlocks THEN localV = Tables!NoHeap /\ BlocksPlaced
  ELSE HeapsPlaced(localV, ViewRefs, open)

\* The heaps that are current are set on the open list
CurrentSet ==
  setV = Tables!CurrentViewHeap /\ setS = Tables!CurrentSamplerHeap

\* Tables are written to the global heap one after the other, and what reads
\* it reads one of them
GlobalWritten ==
  /\ DOMAIN globalSet \in SUBSET Samplers /\ IsFiniteSet(DOMAIN globalSet)
  /\ globalSet \in [DOMAIN globalSet -> 1 .. Cardinality(DOMAIN globalSet)]
  /\ Cardinality(DOMAIN globalSet) <= GlobalSize
  /\ IsFiniteSet(unique)
  /\ \A r \in SamplerRefs :
       r.at.heap = Tables!Shared => r.at.slot <= Cardinality(DOMAIN globalSet)
  /\ localSet \in [DOMAIN localSet -> Nat]

MapWritten ==
  /\ DOMAIN samplerMap \in SUBSET Samplers
  /\ samplerMap \in [DOMAIN samplerMap -> 1 .. localS.next]

\* The inductive invariant
TableInv ==
  /\ Tables!TypeOK /\ UsesKnown /\ CurrentSet
  /\ ViewsPlaced /\ HeapsPlaced(localS, SamplerRefs, open)
  /\ GlobalWritten /\ MapWritten
  /\ Tables!CleanTablesValid /\ Tables!SamplerTablesExact
  /\ Tables!BlocksInOnePlace
-----------------------------------------------------------------------------
(* Sizes and ranks                                                         *)

\* The instance and the library count alike.
LEMMA SameCardinality ==
  \A S : Tables!Cardinality(S) = Cardinality(S)
         /\ (Tables!IsFiniteSet(S) <=> IsFiniteSet(S))
<1> TAKE S
<1>1. Tables!Cardinality(S) = Cardinality(S)
  BY DEF Tables!Cardinality, Cardinality
<1>2. Tables!IsFiniteSet(S) <=> IsFiniteSet(S)
  BY DEF Tables!IsFiniteSet, IsFiniteSet
<1> QED BY <1>1, <1>2

\* The sizes of the heaps.
LEMMA TableFacts ==
  /\ ViewStages \in SUBSET Nat /\ IsFiniteSet(ViewStages)
  /\ SamplerStages \in SUBSET Nat /\ IsFiniteSet(SamplerStages)
  /\ Blocks \in Nat \ {0} /\ BlockSize \in Nat /\ LocalSize \in Nat
  /\ Cardinality(ViewStages) <= BlockSize
  /\ Cardinality(ViewStages) <= LocalSize
  /\ Cardinality(SamplerStages) <= LocalSize
  /\ GlobalSize \in Nat /\ MaxLocal \in Nat \ {0}
  /\ NoSampler \in Samplers /\ Garbage \notin Samplers
BY PartsAssumption, SameCardinality
   DEF Tables!SizesAllowed, Tables!ContentAllowed

\* Ranks count a finite set of numbers from 1 on.
LEMMA RankFacts ==
  ASSUME NEW S \in SUBSET Nat, IsFiniteSet(S)
  PROVE  /\ Cardinality(S) \in Nat
         /\ \A s \in S : Tables!Rank(s, S) \in 1 .. Cardinality(S)
         /\ \A s, t \in S : Tables!Rank(s, S) = Tables!Rank(t, S) => s = t
<1> DEFINE upTo(s) == {t \in S : t <= s}
<1>1. \A s \in S : Tables!Rank(s, S) = Cardinality(upTo(s))
  BY SameCardinality DEF Tables!Rank
<1>2. ASSUME NEW s \in S
      PROVE  /\ IsFiniteSet(upTo(s)) /\ Cardinality(upTo(s)) \in Nat
             /\ Cardinality(upTo(s)) <= Cardinality(S)
             /\ Cardinality(upTo(s)) # 0
  <2>1. upTo(s) \in SUBSET S /\ s \in upTo(s)
    OBVIOUS
  <2>2. IsFiniteSet(upTo(s)) /\ Cardinality(upTo(s)) <= Cardinality(S)
    BY <2>1, FS_Subset
  <2>3. Cardinality(upTo(s)) \in Nat
    BY <2>2, FS_CardinalityType
  <2>4. Cardinality(upTo(s)) # 0
    BY <2>1, <2>2, FS_EmptySet
  <2> QED BY <2>2, <2>3, <2>4
<1>3. Cardinality(S) \in Nat
  BY FS_CardinalityType
<1>4. ASSUME NEW s \in S, NEW t \in S, s < t
      PROVE  Cardinality(upTo(s)) # Cardinality(upTo(t))
  <2>0. s \in Nat /\ t \in Nat /\ S \in SUBSET Nat
    OBVIOUS
  <2>1. upTo(s) \in SUBSET upTo(t)
    <3> SUFFICES ASSUME NEW i \in S, i <= s PROVE i <= t
      OBVIOUS
    <3> QED BY <1>4, <2>0
  <2>2. t \in upTo(t) /\ t \notin upTo(s)
    BY <1>4, <2>0
  <2> HIDE DEF upTo
  <2> QED BY <1>2, <2>1, <2>2, FS_Subset
<1> HIDE DEF upTo
<1>5. \A s \in S : Tables!Rank(s, S) \in 1 .. Cardinality(S)
  BY <1>1, <1>2, <1>3
<1>6. ASSUME NEW s \in S, NEW t \in S, Tables!Rank(s, S) = Tables!Rank(t, S)
      PROVE  s = t
  <2>1. s < t \/ s = t \/ t < s
    OBVIOUS
  <2>2. Cardinality(upTo(s)) = Cardinality(upTo(t))
    BY <1>1, <1>6
  <2> QED BY <1>4, <2>1, <2>2
<1> QED BY <1>3, <1>5, <1>6

-----------------------------------------------------------------------------
(* Heaps that roll over                                                    *)

PoolEntry == [heap : Tables!Locals, sync : Nat]

\* The fields of a local heap.
LEMMA HeapFields ==
  ASSUME NEW l \in Tables!LocalHeap
  PROVE  /\ l.heap \in Nat /\ l.next \in 0 .. LocalSize /\ l.made \in 0 .. MaxLocal
         /\ l.pool \in Seq(PoolEntry) /\ Len(l.pool) \in Nat
         /\ \A i \in 1 .. Len(l.pool) :
              l.pool[i].heap \in Tables!Locals /\ l.pool[i].sync \in Nat
<1>1. /\ l.heap \in {0} \cup Tables!Locals /\ l.next \in 0 .. LocalSize
      /\ l.made \in 0 .. MaxLocal /\ l.pool \in Seq(PoolEntry)
  BY DEF Tables!LocalHeap, PoolEntry
<1>2. l.heap \in Nat
  BY <1>1, TableFacts DEF Tables!Locals
<1>3. ASSUME NEW i \in 1 .. Len(l.pool)
      PROVE  l.pool[i].heap \in Tables!Locals /\ l.pool[i].sync \in Nat
  <2>1. l.pool[i] \in PoolEntry
    BY <1>1, ElementOfSeq
  <2> QED BY <2>1 DEF PoolEntry
<1> QED BY <1>1, <1>2, <1>3, LenProperties

\* A pool with the current heap at its end: everything in it is in turn, and
\* what read the current heap began before it was left.
PoolWithHeap(l) == Append(l.pool, [heap |-> l.heap, sync |-> open])

LEMMA PoolInTurn ==
  ASSUME NEW l \in Tables!LocalHeap, NEW refs, HeapsPlaced(l, refs, open),
         open \in Nat, \A r \in refs : r.batch <= open
  PROVE  /\ PoolWithHeap(l) \in Seq(PoolEntry)
         /\ Len(PoolWithHeap(l)) = Len(l.pool) + 1
         /\ PoolWithHeap(l)[Len(l.pool) + 1] = [heap |-> l.heap, sync |-> open]
         /\ \A i \in 1 .. Len(l.pool) : PoolWithHeap(l)[i] = l.pool[i]
         /\ \A i \in 1 .. Len(l.pool) + 1 :
              PoolWithHeap(l)[i].heap \in 2 .. l.made + 1
              /\ PoolWithHeap(l)[i].sync \in Nat
         /\ \A i, j \in 1 .. Len(l.pool) + 1 :
              PoolWithHeap(l)[i].heap = PoolWithHeap(l)[j].heap => i = j
         /\ InTurn(PoolWithHeap(l), open)
         /\ \A r \in refs :
              r.at.heap \in Tables!Locals =>
                \E i \in 1 .. Len(l.pool) + 1 :
                  r.at.heap = PoolWithHeap(l)[i].heap
                  /\ r.batch <= PoolWithHeap(l)[i].sync
<1> DEFINE p == PoolWithHeap(l)
           k == Len(l.pool)
           e == [heap |-> l.heap, sync |-> open]
<1>1. /\ l.heap \in Nat /\ l.made \in 0 .. MaxLocal /\ MaxLocal \in Nat
      /\ l.pool \in Seq(PoolEntry) /\ k \in Nat
      /\ \A i \in 1 .. k : l.pool[i].heap \in Tables!Locals
                           /\ l.pool[i].sync \in Nat
  BY HeapFields, TableFacts
<1>2. l.heap \in 2 .. l.made + 1
  BY DEF HeapsPlaced
<1>3. e \in PoolEntry /\ e.heap = l.heap /\ e.sync = open
  BY <1>1, <1>2 DEF PoolEntry, Tables!Locals
<1> HIDE DEF e
<1>4. /\ p \in Seq(PoolEntry) /\ Len(p) = k + 1 /\ p[k + 1] = e
      /\ \A i \in 1 .. k : p[i] = l.pool[i]
  BY <1>1, <1>3, AppendProperties DEF e, PoolWithHeap
<1> HIDE DEF k, p
<1>5. \A i \in 1 .. k + 1 : i \in 1 .. k \/ i = k + 1
  BY <1>1
<1>6. k + 1 \in 1 .. k + 1
      /\ \A i \in 1 .. k : i \in 1 .. k + 1 /\ i <= k + 1 /\ ~ (k + 1 <= i)
  BY <1>1
<1>7. /\ \A i \in 1 .. k : l.pool[i].heap \in 2 .. l.made + 1
                           /\ l.pool[i].heap # l.heap /\ l.pool[i].sync <= open
      /\ \A i, j \in 1 .. k : l.pool[i].heap = l.pool[j].heap => i = j
      /\ \A i, j \in 1 .. k : i <= j => l.pool[i].sync <= l.pool[j].sync
      /\ \A r \in refs :
           r.at.heap \in Tables!Locals =>
             \/ r.at.heap = l.heap
             \/ \E i \in 1 .. k :
                  r.at.heap = l.pool[i].heap /\ r.batch <= l.pool[i].sync
  BY DEF HeapsPlaced, InTurn, k
<1>8. \A i \in 1 .. k + 1 : p[i].heap \in 2 .. l.made + 1 /\ p[i].sync \in Nat
  BY <1>1, <1>2, <1>3, <1>4, <1>5, <1>7
<1>9. \A i, j \in 1 .. k + 1 : p[i].heap = p[j].heap => i = j
  BY <1>3, <1>4, <1>5, <1>7
<1>10. InTurn(p, open)
  <2>1. \A i \in 1 .. k + 1 : p[i].sync <= open
    BY <1>3, <1>4, <1>5, <1>7
  <2>2. ASSUME NEW i \in 1 .. k + 1, NEW j \in 1 .. k + 1, i <= j
        PROVE  p[i].sync <= p[j].sync
    <3>1. CASE j = k + 1
      BY <1>3, <1>4, <2>1, <3>1
    <3>2. CASE j \in 1 .. k
      <4>1. i \in 1 .. k
        BY <1>5, <1>6, <2>2, <3>2
      <4> QED BY <1>4, <1>7, <2>2, <3>2, <4>1
    <3> QED BY <1>5, <3>1, <3>2
  <2> QED BY <1>4, <2>1, <2>2 DEF InTurn
<1>11. ASSUME NEW r \in refs, r.at.heap \in Tables!Locals
       PROVE  \E i \in 1 .. k + 1 : r.at.heap = p[i].heap /\ r.batch <= p[i].sync
  <2>1. CASE r.at.heap = l.heap
    BY <1>3, <1>4, <1>6, <2>1
  <2>2. CASE \E i \in 1 .. k :
               r.at.heap = l.pool[i].heap /\ r.batch <= l.pool[i].sync
    BY <1>4, <1>6, <2>2
  <2> QED BY <1>7, <1>11, <2>1, <2>2
<1>12. \A r \in refs :
         r.at.heap \in Tables!Locals =>
           \E i \in 1 .. k + 1 : r.at.heap = p[i].heap /\ r.batch <= p[i].sync
  BY <1>11
<1> QED BY <1>4, <1>8, <1>9, <1>10, <1>12, Zenon DEF k, e, p

\* A heap that is handed out again, or made, is another one than before, and
\* nothing that is recorded or in flight reads it.
LEMMA RollOverPlaced ==
  ASSUME NEW l \in Tables!LocalHeap, NEW refs, HeapsPlaced(l, refs, open),
         open \in Nat, done \in Nat, done < open, Tables!MayRollOver(l),
         \A r \in refs : r.batch \in Nat /\ done < r.batch /\ r.batch <= open,
         NEW n, n = Tables!RollOverHeap(l)
  PROVE  /\ n \in Tables!LocalHeap /\ n.next = 0
         /\ n.heap \in Tables!Locals /\ n.heap # l.heap
         /\ HeapsPlaced(n, refs, open)
         /\ \A r \in refs : r.at.heap # n.heap
         /\ n.made > l.made => Tables!InFlight(l.pool)
<1> DEFINE k == Len(l.pool)
           p == PoolWithHeap(l)
<1>1. /\ l.heap \in Nat /\ l.made \in 0 .. MaxLocal /\ MaxLocal \in Nat
      /\ l.pool \in Seq(PoolEntry) /\ k \in Nat /\ LocalSize \in Nat
      /\ l.heap \in 2 .. l.made + 1
  BY HeapFields, TableFacts DEF HeapsPlaced
<1>2. /\ p \in Seq(PoolEntry) /\ Len(p) = k + 1
      /\ p[k + 1].heap = l.heap /\ p[k + 1].sync = open
      /\ \A i \in 1 .. k : p[i] = l.pool[i]
      /\ \A i \in 1 .. k + 1 : p[i].heap \in 2 .. l.made + 1 /\ p[i].sync \in Nat
      /\ \A i, j \in 1 .. k + 1 : p[i].heap = p[j].heap => i = j
      /\ InTurn(p, open)
      /\ \A r \in refs :
           r.at.heap \in Tables!Locals =>
             \E i \in 1 .. k + 1 :
               r.at.heap = p[i].heap /\ r.batch <= p[i].sync
  <2>1. \A r \in refs : r.batch <= open
    OBVIOUS
  <2>2. /\ p \in Seq(PoolEntry) /\ Len(p) = k + 1
        /\ p[k + 1] = [heap |-> l.heap, sync |-> open]
        /\ \A i \in 1 .. k : p[i] = l.pool[i]
    BY <2>1, PoolInTurn, Zenon
  <2>3. p[k + 1].heap = l.heap /\ p[k + 1].sync = open
    BY <2>2
  <2>4. /\ \A i \in 1 .. k + 1 : p[i].heap \in 2 .. l.made + 1
                                 /\ p[i].sync \in Nat
        /\ \A i, j \in 1 .. k + 1 : p[i].heap = p[j].heap => i = j
        /\ InTurn(p, open)
        /\ \A r \in refs :
             r.at.heap \in Tables!Locals =>
               \E i \in 1 .. k + 1 :
                 r.at.heap = p[i].heap /\ r.batch <= p[i].sync
    BY <2>1, PoolInTurn, Zenon
  <2> QED BY <2>2, <2>3, <2>4, Zenon
<1>3. /\ \A i \in 1 .. k + 1 : p[i].sync <= open
      /\ \A i, j \in 1 .. k + 1 : i <= j => p[i].sync <= p[j].sync
  BY <1>2 DEF InTurn
<1>4. p # <<>> /\ Tables!Front(p) = p[1]
  <2> HIDE DEF p
  <2> QED BY <1>1, <1>2, EmptySeq DEF Tables!Front
<1>5. n = IF p[1].sync <= done
          THEN [heap |-> p[1].heap, next |-> 0, pool |-> Tail(p), made |-> l.made]
          ELSE [heap |-> l.made + 2, next |-> 0, pool |-> p, made |-> l.made + 1]
  BY <1>4 DEF Tables!RollOverHeap, Tables!IsComplete, PoolWithHeap
<1>6. n.made <= MaxLocal
  BY DEF Tables!MayRollOver
<1> HIDE DEF p
<1>7. \A i \in 2 .. l.made + 1 : i \in Tables!Locals
  BY <1>1 DEF Tables!Locals
<1>8. CASE p[1].sync <= done
  <2>1. n = [heap |-> p[1].heap, next |-> 0, pool |-> Tail(p), made |-> l.made]
    BY <1>5, <1>8
  <2>2. 1 \in 1 .. k + 1 /\ k + 1 \in 1 .. k + 1
    BY <1>1
  <2>3. 1 # k + 1
    BY <1>2, <1>8
  <2>4. /\ n.heap = p[1].heap /\ n.next = 0 /\ n.made = l.made
        /\ n.pool = Tail(p) /\ n.pool \in Seq(PoolEntry) /\ Len(n.pool) = k
        /\ \A i \in 1 .. k : n.pool[i] = p[i + 1]
    BY <1>1, <1>2, <1>4, <2>1, HeadTailProperties
  <2>5. \A i \in 1 .. k : i + 1 \in 1 .. k + 1 /\ i + 1 # 1
    BY <1>1
  <2>6. n.heap \in 2 .. l.made + 1 /\ n.heap \in Tables!Locals /\ n.heap # l.heap
    BY <1>2, <1>7, <2>2, <2>3, <2>4
  <2>7. n \in Tables!LocalHeap
    BY <1>1, <2>1, <2>4, <2>6 DEF Tables!LocalHeap, PoolEntry
  <2>8. \A r \in refs : r.at.heap # n.heap
    <3> SUFFICES ASSUME NEW r \in refs, r.at.heap = n.heap PROVE FALSE
      OBVIOUS
    <3>1. PICK i \in 1 .. k + 1 : r.at.heap = p[i].heap /\ r.batch <= p[i].sync
      BY <1>2, <2>6
    <3>2. i = 1
      BY <1>2, <2>2, <2>4, <3>1
    <3> QED BY <1>2, <1>8, <3>1, <3>2
  <2>9. HeapsPlaced(n, refs, open)
    <3>1. \A i \in 1 .. k : n.pool[i].heap \in 2 .. l.made + 1
                            /\ n.pool[i].heap # n.heap
      BY <1>2, <2>2, <2>4, <2>5
    <3>2. \A i, j \in 1 .. k : n.pool[i].heap = n.pool[j].heap => i = j
      <4> SUFFICES ASSUME NEW i \in 1 .. k, NEW j \in 1 .. k,
                          n.pool[i].heap = n.pool[j].heap
                   PROVE  i = j
        OBVIOUS
      <4>1. p[i + 1].heap = p[j + 1].heap
        BY <2>4
      <4>2. \A a, b \in 1 .. k + 1 : p[a].heap = p[b].heap => a = b
        BY <1>2
      <4>3. i + 1 = j + 1
        BY <2>5, <4>1, <4>2
      <4> QED BY <4>3
    <3>3. InTurn(n.pool, open)
      <4>1. \A i, j \in 1 .. k : i <= j => i + 1 <= j + 1
        BY <1>1
      <4>2. \A i \in 1 .. k : n.pool[i] = p[i + 1]
        BY <2>4
      <4>3. \A i \in 1 .. k : n.pool[i].sync <= open
        BY <1>3, <2>5, <4>2
      <4>4. ASSUME NEW i \in 1 .. k, NEW j \in 1 .. k, i <= j
            PROVE  n.pool[i].sync <= n.pool[j].sync
        <5>1. p[i + 1].sync <= p[j + 1].sync
          BY <1>3, <2>5, <4>1, <4>4
        <5> QED BY <4>2, <5>1
      <4> QED BY <2>4, <4>3, <4>4 DEF InTurn
    <3>4. ASSUME NEW r \in refs, r.at.heap \in Tables!Locals
          PROVE  \E i \in 1 .. k :
                   r.at.heap = n.pool[i].heap /\ r.batch <= n.pool[i].sync
      <4>1. PICK i \in 1 .. k + 1 : r.at.heap = p[i].heap /\ r.batch <= p[i].sync
        BY <1>2, <3>4
      <4>2. i # 1
        BY <2>4, <2>8, <4>1
      <4>3. i - 1 \in 1 .. k /\ (i - 1) + 1 = i
        BY <1>1, <4>2
      <4>4. n.pool[i - 1] = p[i]
        BY <2>4, <4>3
      <4> QED BY <4>1, <4>3, <4>4
    <3>5. Len(n.pool) = k /\ n.made = l.made
      BY <2>4
    <3>6. /\ \A i \in 1 .. Len(n.pool) : n.pool[i].heap \in 2 .. n.made + 1
                                        /\ n.pool[i].heap # n.heap
          /\ \A i, j \in 1 .. Len(n.pool) :
               n.pool[i].heap = n.pool[j].heap => i = j
      BY <3>1, <3>2, <3>5, Zenon
    <3>7. \A r \in refs :
            r.at.heap \in Tables!Locals =>
              \/ r.at.heap = n.heap /\ r.at.slot <= n.next
              \/ \E i \in 1 .. Len(n.pool) :
                   r.at.heap = n.pool[i].heap /\ r.batch <= n.pool[i].sync
      BY <3>4, <3>5, Zenon
    <3>8. n.heap \in 2 .. n.made + 1
      BY <2>6, <3>5, Zenon
    <3> QED BY <3>3, <3>6, <3>7, <3>8, Zenon DEF HeapsPlaced
  <2>10. ~ (n.made > l.made)
    BY <1>1, <2>4
  <2> QED BY <2>4, <2>6, <2>7, <2>8, <2>9, <2>10
<1>9. CASE ~ (p[1].sync <= done)
  <2>1. n = [heap |-> l.made + 2, next |-> 0, pool |-> p, made |-> l.made + 1]
    BY <1>5, <1>9
  <2>2. /\ n.heap = l.made + 2 /\ n.next = 0 /\ n.made = l.made + 1
        /\ n.pool = p
    BY <2>1
  <2>3. n.heap \in 2 .. n.made + 1 /\ n.heap \in Tables!Locals /\ n.heap # l.heap
        /\ \A i \in 2 .. l.made + 1 : i # n.heap /\ i \in 2 .. n.made + 1
    BY <1>1, <1>6, <2>2 DEF Tables!Locals
  <2>4. n \in Tables!LocalHeap
    BY <1>1, <1>2, <1>6, <2>1, <2>2, <2>3 DEF Tables!LocalHeap, PoolEntry
  <2>5. \A r \in refs : r.at.heap # n.heap
    BY <1>2, <2>3
  <2>6. HeapsPlaced(n, refs, open)
    BY <1>2, <2>2, <2>3 DEF HeapsPlaced
  <2>7. Tables!InFlight(l.pool)
    <3> SUFFICES ASSUME NEW i \in DOMAIN l.pool PROVE l.pool[i].sync > done
      BY DEF Tables!InFlight
    <3>1. i \in 1 .. k /\ i \in 1 .. k + 1 /\ 1 \in 1 .. k + 1 /\ 1 <= i
      BY <1>1
    <3>2. p[1].sync \in Nat /\ p[i].sync \in Nat /\ p[i] = l.pool[i]
      BY <1>2, <3>1
    <3>3. p[1].sync <= p[i].sync
      BY <1>3, <3>1
    <3>4. p[i].sync > done
      BY <1>9, <3>2, <3>3
    <3> QED BY <3>2, <3>4
  <2> QED BY <2>2, <2>3, <2>4, <2>5, <2>6, <2>7
<1> QED BY <1>8, <1>9

-----------------------------------------------------------------------------
(* What the invariant says plainly, and what leaves it alone               *)

LEMMA InvFacts ==
  ASSUME TableInv
  PROVE  /\ open \in Nat /\ done \in Nat /\ done < open
         /\ dirtyV \subseteq ViewStages /\ dirtyS \subseteq SamplerStages
         /\ tabV \in [ViewStages -> Tables!ViewSlots \cup {Tables!NoTable}]
         /\ tabS \in [SamplerStages -> Tables!SamplerSlots \cup {Tables!NoTable}]
         /\ sampler \in [SamplerStages -> Samplers]
         /\ onBlocks \in BOOLEAN /\ onGlobal \in BOOLEAN /\ globalDirty \in BOOLEAN
         /\ block \in 1 .. Blocks /\ used \in 0 .. BlockSize
         /\ blockPool \in Seq([block : 1 .. Blocks, sync : Nat])
         /\ localV \in Tables!LocalHeap /\ localS \in Tables!LocalHeap
         /\ unique \subseteq Samplers
         /\ memS \in [Tables!SamplerSlots -> Samplers \cup {Garbage}]
BY DEF TableInv, Tables!TypeOK, UsesKnown

LEMMA SlotFacts ==
  /\ \A p \in Tables!ViewSlots \cup {Tables!NoTable} :
       p \in [heap : Nat, slot : Nat]
  /\ \A p \in Tables!SamplerSlots \cup {Tables!NoTable} :
       p \in [heap : Nat, slot : Nat]
  /\ Tables!NoTable.heap = 0 /\ Tables!NoTable.slot = 0
  /\ Tables!Shared = 1 /\ Tables!Shared \notin Tables!Locals
  /\ 0 \notin Tables!Locals /\ Tables!Locals \subseteq Nat
  /\ Tables!NoTable \notin Tables!ViewSlots
  /\ Tables!NoTable \notin Tables!SamplerSlots
BY TableFacts DEF Tables!ViewSlots, Tables!SamplerSlots, Tables!NoTable, Tables!At,
   Tables!Shared, Tables!Locals

LEMMA BlockFacts ==
  ASSUME TableInv
  PROVE  /\ Len(blockPool) \in Nat
         /\ \A i \in 1 .. Len(blockPool) :
              blockPool[i].block \in 1 .. Blocks /\ blockPool[i].sync \in Nat
<1> USE InvFacts
<1>1. ASSUME NEW i \in 1 .. Len(blockPool)
      PROVE  blockPool[i].block \in 1 .. Blocks /\ blockPool[i].sync \in Nat
  <2>1. blockPool[i] \in [block : 1 .. Blocks, sync : Nat]
    BY ElementOfSeq
  <2> QED BY <2>1
<1> QED BY <1>1, LenProperties

\* What reads the heaps is of batches the GPU has not finished.
LEMMA RefFacts ==
  ASSUME TableInv
  PROVE  /\ \A r \in ViewRefs :
              r \in Reads /\ done < r.batch /\ r.batch <= open
              /\ r.kind = "view"
         /\ \A r \in SamplerRefs :
              r \in Reads /\ done < r.batch /\ r.batch <= open
              /\ r.kind = "sampler"
<1> USE InvFacts
<1>1. \A u \in uses : u \in Reads /\ done < u.batch /\ u.batch <= open
  BY DEF TableInv, UsesKnown
<1>2. ASSUME NEW r \in Tables!UsesOf("view", tabV)
      PROVE  r \in Reads /\ r.batch = open /\ r.kind = "view"
  <2>1. PICK st \in ViewStages :
          r = [batch |-> open, kind |-> "view", at |-> tabV[st]]
    BY DEF Tables!UsesOf
  <2> QED BY <2>1, SlotFacts DEF Reads
<1>3. ASSUME NEW r \in Tables!UsesOf("sampler", tabS)
      PROVE  r \in Reads /\ r.batch = open /\ r.kind = "sampler"
  <2>1. PICK st \in SamplerStages :
          r = [batch |-> open, kind |-> "sampler", at |-> tabS[st]]
    BY DEF Tables!UsesOf
  <2> QED BY <2>1, SlotFacts DEF Reads
<1>4. ASSUME NEW r \in ViewRefs
      PROVE  r \in Reads /\ done < r.batch /\ r.batch <= open /\ r.kind = "view"
  BY <1>1, <1>2 DEF ViewRefs
<1>5. ASSUME NEW r \in SamplerRefs
      PROVE  r \in Reads /\ done < r.batch /\ r.batch <= open
             /\ r.kind = "sampler"
  BY <1>1, <1>3 DEF SamplerRefs
<1> QED BY <1>4, <1>5

\* Fewer readers, and later batches, leave heaps in place.
LEMMA PlacedKept ==
  ASSUME NEW l \in Tables!LocalHeap, NEW refs, NEW refs2,
         NEW now \in Nat, NEW now2 \in Nat, now <= now2,
         HeapsPlaced(l, refs, now),
         \A r \in refs2 : r \in refs \/ r.at.heap \notin Tables!Locals
  PROVE  HeapsPlaced(l, refs2, now2)
<1>1. \A i \in 1 .. Len(l.pool) : l.pool[i].sync \in Nat
  BY HeapFields
<1>2. InTurn(l.pool, now2)
  BY <1>1 DEF HeapsPlaced, InTurn
<1> QED BY <1>2 DEF HeapsPlaced

\* When nothing is set but what had been, or everything is undefined, nothing
\* new reads the heaps.
LEMMA ViewRefsKept ==
  ASSUME TableInv, uses' \subseteq uses,
         \/ tabV' = tabV /\ open' = open
         \/ tabV' = Tables!NoTables(ViewStages)
  PROVE  \A r \in ViewRefs' : r \in ViewRefs \/ r.at = Tables!NoTable
<1> SUFFICES ASSUME NEW r \in ViewRefs'
             PROVE  r \in ViewRefs \/ r.at = Tables!NoTable
  OBVIOUS
<1>1. CASE r \in uses' /\ r.kind = "view"
  BY <1>1 DEF ViewRefs
<1>2. CASE r \in Tables!UsesOf("view", tabV)'
  <2>1. CASE tabV' = tabV /\ open' = open
    BY <1>2, <2>1 DEF ViewRefs, Tables!UsesOf
  <2>2. CASE tabV' = Tables!NoTables(ViewStages)
    BY <1>2, <2>2 DEF Tables!UsesOf, Tables!NoTables
  <2> QED BY <2>1, <2>2
<1> QED BY <1>1, <1>2 DEF ViewRefs

LEMMA SamplerRefsKept ==
  ASSUME TableInv, uses' \subseteq uses,
         \/ tabS' = tabS /\ open' = open
         \/ tabS' = Tables!NoTables(SamplerStages)
  PROVE  \A r \in SamplerRefs' : r \in SamplerRefs \/ r.at = Tables!NoTable
<1> SUFFICES ASSUME NEW r \in SamplerRefs'
             PROVE  r \in SamplerRefs \/ r.at = Tables!NoTable
  OBVIOUS
<1>1. CASE r \in uses' /\ r.kind = "sampler"
  BY <1>1 DEF SamplerRefs
<1>2. CASE r \in Tables!UsesOf("sampler", tabS)'
  <2>1. CASE tabS' = tabS /\ open' = open
    BY <1>2, <2>1 DEF SamplerRefs, Tables!UsesOf
  <2>2. CASE tabS' = Tables!NoTables(SamplerStages)
    BY <1>2, <2>2 DEF Tables!UsesOf, Tables!NoTables
  <2> QED BY <2>1, <2>2
<1> QED BY <1>1, <1>2 DEF SamplerRefs

\* The view heaps as long as no slot is taken and no heap changed.
LEMMA ViewsKept ==
  ASSUME TableInv, UNCHANGED <<onBlocks, block, used, blockPool, localV>>,
         open' \in Nat, open <= open',
         \A r \in ViewRefs' : r \in ViewRefs \/ r.at = Tables!NoTable
  PROVE  ViewsPlaced' /\ Tables!BlocksInOnePlace'
<1> USE InvFacts
<1>1. Tables!BlocksInOnePlace'
  BY DEF TableInv, Tables!BlocksInOnePlace
<1>2. PICK refs2 : refs2 = ViewRefs'
  OBVIOUS
<1>3. CASE onBlocks
  <2>1. localV = Tables!NoHeap /\ BlocksPlaced
    BY <1>3 DEF TableInv, ViewsPlaced
  <2>2. \A i \in 1 .. Len(blockPool) : blockPool[i].sync \in Nat
    BY BlockFacts
  <2>3. InTurn(blockPool, open)'
    BY <2>1, <2>2 DEF BlocksPlaced, InTurn
  <2>4. \A i \in 1 .. Len(blockPool)' : blockPool'[i].block # block'
    BY <2>1 DEF BlocksPlaced
  <2>5. \A i, j \in 1 .. Len(blockPool)' :
           blockPool'[i].block = blockPool'[j].block => i = j
    BY <2>1 DEF BlocksPlaced
  <2>6. ASSUME NEW r \in ViewRefs', r.at # Tables!NoTable
        PROVE  /\ r.at.heap = Tables!Shared
               /\ \/ /\ InBlock(r.at.slot, block')
                     /\ r.at.slot <= BlockStart(block') + used'
                  \/ \E i \in 1 .. Len(blockPool') :
                       /\ InBlock(r.at.slot, blockPool'[i].block)
                       /\ r.batch <= blockPool'[i].sync
    <3>1. r \in ViewRefs
      BY <2>6
    <3> QED BY <2>1, <2>6, <3>1 DEF BlocksPlaced
  <2>7. BlocksPlaced'
    BY <2>3, <2>4, <2>5, <2>6 DEF BlocksPlaced, InBlock, BlockStart
  <2> QED BY <1>1, <1>3, <2>1, <2>7 DEF ViewsPlaced, Tables!NoHeap
<1>4. CASE ~ onBlocks
  <2>1. HeapsPlaced(localV, ViewRefs, open)
    BY <1>4 DEF TableInv, ViewsPlaced
  <2>2. \A r \in refs2 : r \in ViewRefs \/ r.at.heap \notin Tables!Locals
    BY <1>2, SlotFacts
  <2>3. HeapsPlaced(localV, refs2, open')
    BY <2>1, <2>2, PlacedKept
  <2>4. HeapsPlaced(localV, ViewRefs, open)'
    BY <1>2, <2>3 DEF HeapsPlaced, InTurn
  <2> QED BY <1>1, <1>4, <2>4 DEF ViewsPlaced
<1> QED BY <1>3, <1>4

\* The sampler heaps likewise.
LEMMA SamplersKept ==
  ASSUME TableInv, UNCHANGED localS, open' \in Nat, open <= open',
         \A r \in SamplerRefs' : r \in SamplerRefs \/ r.at = Tables!NoTable
  PROVE  HeapsPlaced(localS, SamplerRefs, open)'
<1> USE InvFacts
<1>1. PICK refs2 : refs2 = SamplerRefs'
  OBVIOUS
<1>2. HeapsPlaced(localS, SamplerRefs, open)
  BY DEF TableInv
<1>3. \A r \in refs2 : r \in SamplerRefs \/ r.at.heap \notin Tables!Locals
  BY <1>1, SlotFacts
<1>4. HeapsPlaced(localS, refs2, open')
  BY <1>2, <1>3, PlacedKept
<1> QED BY <1>1, <1>4 DEF HeapsPlaced, InTurn

LEMMA GlobalKept ==
  ASSUME TableInv, UNCHANGED <<globalSet, unique>>,
         localSet' \in {localSet, globalSet},
         \A r \in SamplerRefs' : r \in SamplerRefs \/ r.at = Tables!NoTable
  PROVE  GlobalWritten'
<1>1. GlobalWritten
  BY DEF TableInv
<1>2. localSet' \in [DOMAIN localSet' -> Nat]
  <2>1. CASE localSet' = localSet
    BY <1>1, <2>1 DEF GlobalWritten
  <2>2. CASE localSet' = globalSet
    <3>1. Cardinality(DOMAIN globalSet) \in Nat
      BY <1>1, FS_CardinalityType DEF GlobalWritten
    <3> QED BY <1>1, <2>2, <3>1 DEF GlobalWritten
  <2> QED BY <2>1, <2>2
<1>3. \A r \in SamplerRefs' : r.at.heap = Tables!Shared =>
         r.at.slot <= Cardinality(DOMAIN globalSet)
  BY <1>1, SlotFacts DEF GlobalWritten
<1> QED BY <1>1, <1>2, <1>3 DEF GlobalWritten

-----------------------------------------------------------------------------
(* The steps that write no descriptor                                      *)

LEMMA UsesKept ==
  ASSUME TableInv, uses' \subseteq uses, open' \in Nat, open <= open', done' = done
  PROVE  UsesKnown'
<1> USE InvFacts
<1>1. \A u \in uses : u \in Reads /\ done < u.batch /\ u.batch <= open
                      /\ u.batch \in Nat
  BY DEF TableInv, UsesKnown, Reads
<1> QED BY <1>1 DEF UsesKnown

LEMMA BindStep ==
  ASSUME TableInv, NEW d \in SUBSET ViewStages,
         NEW s \in [SamplerStages -> Samplers], Tables!Bind(d, s)
  PROVE  TableInv'
<1> USE InvFacts
<1>1. /\ sampler' = s /\ dirtyV' = dirtyV \cup d
      /\ dirtyS' = dirtyS \cup {st \in SamplerStages : s[st] # sampler[st]}
      /\ pc' = "samplers"
      /\ UNCHANGED <<open, done, inFrame, tabV, tabS, setV, setS, samplerMap>>
      /\ UNCHANGED <<onBlocks, block, used, blockPool, localV, localS>>
      /\ UNCHANGED <<onGlobal, localSet, unique, globalSet, globalDirty>>
      /\ UNCHANGED <<memS, uses>>
  BY DEF Tables!Bind, Tables!MarkSamplers, Tables!queueVars, Tables!blockVars,
     Tables!localVars, Tables!globalVars
<1>2. Tables!TypeOK'
  BY <1>1 DEF TableInv, Tables!TypeOK
<1>3. /\ \A r \in ViewRefs' : r \in ViewRefs \/ r.at = Tables!NoTable
      /\ \A r \in SamplerRefs' : r \in SamplerRefs \/ r.at = Tables!NoTable
  BY <1>1, ViewRefsKept, SamplerRefsKept
<1>4. ViewsPlaced' /\ Tables!BlocksInOnePlace'
  BY <1>1, <1>3, ViewsKept
<1>5. HeapsPlaced(localS, SamplerRefs, open)'
  BY <1>1, <1>3, SamplersKept
<1>6. GlobalWritten'
  BY <1>1, <1>3, GlobalKept
<1>7. MapWritten' /\ UsesKnown' /\ CurrentSet' /\ Tables!SamplerTablesExact'
  BY <1>1
  DEF TableInv, MapWritten, UsesKnown, CurrentSet, Tables!SamplerTablesExact,
      Tables!CurrentViewHeap, Tables!CurrentSamplerHeap
<1>8. Tables!CleanTablesValid'
  BY <1>1 DEF TableInv, Tables!CleanTablesValid
<1> QED BY <1>2, <1>4, <1>5, <1>6, <1>7, <1>8 DEF TableInv

\* Heaps set anew: the tables into a heap that was replaced are undefined, and
\* all of its stages dirty.
LEMMA HeapsSet ==
  ASSUME TableInv, NEW v \in Tables!Locals \cup {Tables!Shared},
         NEW s \in Tables!Locals \cup {Tables!Shared},
         Tables!SetDescriptorHeaps(v, s), sampler' = sampler,
         memS' = memS \/ s # setS
  PROVE  /\ setV' = v /\ setS' = s
         /\ dirtyV' \in SUBSET ViewStages /\ dirtyS' \in SUBSET SamplerStages
         /\ dirtyV \subseteq dirtyV' /\ dirtyS \subseteq dirtyS'
         /\ tabV' = tabV \/ tabV' = Tables!NoTables(ViewStages)
         /\ tabS' = tabS \/ tabS' = Tables!NoTables(SamplerStages)
         /\ tabV' \in [ViewStages -> Tables!ViewSlots \cup {Tables!NoTable}]
         /\ tabS' \in [SamplerStages -> Tables!SamplerSlots \cup {Tables!NoTable}]
         /\ Tables!CleanTablesValid'
         /\ samplerMap' = IF s # setS THEN Tables!NoKeys ELSE samplerMap
<1> USE InvFacts
<1>1. /\ setV' = v /\ setS' = s
      /\ dirtyV' = IF v # setV THEN ViewStages ELSE dirtyV
      /\ tabV'   = IF v # setV THEN Tables!NoTables(ViewStages) ELSE tabV
      /\ dirtyS' = IF s # setS THEN SamplerStages ELSE dirtyS
      /\ tabS'   = IF s # setS THEN Tables!NoTables(SamplerStages) ELSE tabS
      /\ samplerMap' = IF s # setS THEN Tables!NoKeys ELSE samplerMap
  BY DEF Tables!SetDescriptorHeaps, Tables!SamplerMapFor
<1>2. /\ tabV' \in [ViewStages -> Tables!ViewSlots \cup {Tables!NoTable}]
      /\ tabS' \in [SamplerStages -> Tables!SamplerSlots \cup {Tables!NoTable}]
  BY <1>1 DEF Tables!NoTables
<1>3. Tables!CleanTablesValid
  BY DEF TableInv
<1>4. \A st \in ViewStages \ dirtyV' :
        tabV'[st] # Tables!NoTable /\ tabV'[st].heap = setV'
  BY <1>1, <1>3 DEF Tables!CleanTablesValid
<1>5. \A st \in SamplerStages \ dirtyS' :
        /\ tabS'[st] # Tables!NoTable /\ tabS'[st].heap = setS'
        /\ memS'[tabS'[st]] = sampler'[st]
  BY <1>1, <1>3 DEF Tables!CleanTablesValid
<1>6. Tables!CleanTablesValid'
  BY <1>4, <1>5 DEF Tables!CleanTablesValid
<1> QED BY <1>1, <1>2, <1>6

\* The lists the samplers are remembered in stay right when the map is kept, or
\* emptied, and nothing is written.
LEMMA MapKept ==
  ASSUME TableInv, NEW s, setS' = s,
         samplerMap' = IF s # setS THEN Tables!NoKeys ELSE samplerMap,
         UNCHANGED <<localS, memS>>
  PROVE  /\ MapWritten'
         /\ \A k \in DOMAIN samplerMap' :
              setS' = localS'.heap
              /\ memS'[Tables!At(setS', samplerMap'[k])] = k
<1>1. MapWritten /\ Tables!SamplerTablesExact
  BY DEF TableInv
<1>2. CASE s # setS
  <2>1. samplerMap' = Tables!NoKeys /\ DOMAIN samplerMap' = {}
    BY <1>2 DEF Tables!NoKeys
  <2> QED BY <2>1 DEF MapWritten, Tables!NoKeys
<1>3. CASE s = setS
  BY <1>1, <1>3 DEF MapWritten, Tables!SamplerTablesExact
<1> QED BY <1>2, <1>3

LEMMA HeapIsLocal ==
  ASSUME NEW l \in Tables!LocalHeap, NEW refs, NEW now, HeapsPlaced(l, refs, now)
  PROVE  l.heap \in Tables!Locals /\ l.heap # Tables!Shared
<1>1. l.heap \in 2 .. l.made + 1 /\ l.made \in 0 .. MaxLocal /\ MaxLocal \in Nat
  BY HeapFields, TableFacts DEF HeapsPlaced
<1> QED BY <1>1 DEF Tables!Locals, Tables!Shared

LEMMA SetFacts ==
  ASSUME TableInv
  PROVE  /\ localS.heap \in Tables!Locals /\ localS.heap # Tables!Shared
         /\ ~ onBlocks => HeapsPlaced(localV, ViewRefs, open)
                          /\ localV.heap \in Tables!Locals
         /\ onBlocks => localV = Tables!NoHeap /\ BlocksPlaced
         /\ setV = IF onBlocks THEN Tables!Shared ELSE localV.heap
         /\ setS = IF onGlobal THEN Tables!Shared ELSE localS.heap
         /\ setV \in Tables!Locals \cup {Tables!Shared}
         /\ setS \in Tables!Locals \cup {Tables!Shared}
<1> USE InvFacts
<1>1. HeapsPlaced(localS, SamplerRefs, open)
  BY DEF TableInv
<1>2. /\ ~ onBlocks => HeapsPlaced(localV, ViewRefs, open)
      /\ onBlocks => localV = Tables!NoHeap /\ BlocksPlaced
  BY DEF TableInv, ViewsPlaced
<1>3. /\ setV = IF onBlocks THEN Tables!Shared ELSE localV.heap
      /\ setS = IF onGlobal THEN Tables!Shared ELSE localS.heap
  BY DEF TableInv, CurrentSet, Tables!CurrentViewHeap, Tables!CurrentSamplerHeap
<1>4. localS.heap \in Tables!Locals /\ localS.heap # Tables!Shared
  BY <1>1, HeapIsLocal
<1>5. ~ onBlocks => localV.heap \in Tables!Locals
  BY <1>2, HeapIsLocal
<1> QED BY <1>2, <1>3, <1>4, <1>5

\* A table in the global heap holds its sampler.
LEMMA GlobalTables ==
  ASSUME TableInv, NEW k \in DOMAIN globalSet
  PROVE  /\ Cardinality(DOMAIN globalSet) \in Nat
         /\ globalSet[k] \in 1 .. Cardinality(DOMAIN globalSet)
         /\ Tables!At(Tables!Shared, globalSet[k]) \in Tables!SamplerSlots
         /\ memS[Tables!At(Tables!Shared, globalSet[k])] = k
<1>1. /\ IsFiniteSet(DOMAIN globalSet)
      /\ globalSet \in [DOMAIN globalSet -> 1 .. Cardinality(DOMAIN globalSet)]
      /\ Cardinality(DOMAIN globalSet) <= GlobalSize
      /\ memS[Tables!At(Tables!Shared, globalSet[k])] = k
  BY DEF TableInv, GlobalWritten, Tables!SamplerTablesExact
<1>2. Cardinality(DOMAIN globalSet) \in Nat
  BY <1>1, FS_CardinalityType
<1>3. globalSet[k] \in 1 .. GlobalSize
  BY <1>1, <1>2, TableFacts
<1> QED BY <1>1, <1>2, <1>3 DEF Tables!SamplerSlots, Tables!At

LEMMA FindGlobalTablesStep ==
  ASSUME TableInv, Tables!FindGlobalTables
  PROVE  TableInv'
<1> USE InvFacts
<1>1. /\ onGlobal /\ \A st \in dirtyS : sampler[st] \in DOMAIN localSet
      /\ tabS' = [st \in SamplerStages |->
                    IF st \in dirtyS
                    THEN Tables!At(Tables!Shared, localSet[sampler[st]])
                    ELSE tabS[st]]
      /\ dirtyS' = {} /\ pc' = "views"
      /\ UNCHANGED <<open, done, inFrame, sampler, dirtyV, tabV, setV, setS>>
      /\ UNCHANGED <<onBlocks, block, used, blockPool, localV, localS>>
      /\ UNCHANGED <<onGlobal, localSet, unique, globalSet, globalDirty>>
      /\ UNCHANGED <<samplerMap, memS, uses>>
  BY DEF Tables!FindGlobalTables, Tables!queueVars, Tables!boundVars,
     Tables!blockVars, Tables!localVars, Tables!globalVars
<1>2. ASSUME NEW st \in SamplerStages, st \in dirtyS
      PROVE  /\ tabS'[st] \in Tables!SamplerSlots
             /\ tabS'[st].heap = Tables!Shared
             /\ tabS'[st].slot <= Cardinality(DOMAIN globalSet)
             /\ memS[tabS'[st]] = sampler[st]
  <2>1. /\ sampler[st] \in DOMAIN globalSet
        /\ localSet[sampler[st]] = globalSet[sampler[st]]
    BY <1>1, <1>2 DEF TableInv, Tables!SamplerTablesExact
  <2>2. tabS'[st] = Tables!At(Tables!Shared, globalSet[sampler[st]])
    BY <1>1, <1>2, <2>1
  <2>3. tabS'[st].heap = Tables!Shared /\ tabS'[st].slot = globalSet[sampler[st]]
    BY <2>2 DEF Tables!At
  <2> QED BY <2>1, <2>2, <2>3, GlobalTables
<1>3. tabS' \in [SamplerStages -> Tables!SamplerSlots \cup {Tables!NoTable}]
  BY <1>1, <1>2
<1>4. Tables!TypeOK'
  BY <1>1, <1>3 DEF TableInv, Tables!TypeOK
<1>5. \A r \in ViewRefs' : r \in ViewRefs \/ r.at = Tables!NoTable
  BY <1>1, ViewRefsKept
<1>6. \A r \in SamplerRefs' :
        \/ r \in SamplerRefs
        \/ /\ r.at.heap = Tables!Shared
           /\ r.at.slot <= Cardinality(DOMAIN globalSet)
  <2> SUFFICES ASSUME NEW r \in SamplerRefs', r \notin SamplerRefs
               PROVE  /\ r.at.heap = Tables!Shared
                      /\ r.at.slot <= Cardinality(DOMAIN globalSet)
    OBVIOUS
  <2>1. PICK st \in SamplerStages :
          r = [batch |-> open, kind |-> "sampler", at |-> tabS'[st]]
    BY <1>1 DEF SamplerRefs, Tables!UsesOf
  <2>2. st \in dirtyS
    <3> SUFFICES ASSUME st \notin dirtyS PROVE FALSE
      OBVIOUS
    <3>1. tabS'[st] = tabS[st]
      BY <1>1
    <3> QED BY <2>1, <3>1 DEF SamplerRefs, Tables!UsesOf
  <2> QED BY <1>2, <2>1, <2>2
<1>7. ViewsPlaced' /\ Tables!BlocksInOnePlace'
  BY <1>1, <1>5, ViewsKept
<1>8. HeapsPlaced(localS, SamplerRefs, open)'
  <2>1. PICK refs2 : refs2 = SamplerRefs'
    OBVIOUS
  <2>2. \A r \in refs2 : r \in SamplerRefs \/ r.at.heap \notin Tables!Locals
    BY <1>6, <2>1, SlotFacts
  <2>3. HeapsPlaced(localS, refs2, open)
    BY <2>2, PlacedKept DEF TableInv
  <2> QED BY <1>1, <2>1, <2>3 DEF HeapsPlaced, InTurn
<1>9. GlobalWritten'
  <2>1. GlobalWritten
    BY DEF TableInv
  <2>2. \A r \in SamplerRefs' :
          r.at.heap = Tables!Shared => r.at.slot <= Cardinality(DOMAIN globalSet)
    BY <1>6, <2>1 DEF GlobalWritten
  <2> QED BY <1>1, <2>1, <2>2 DEF GlobalWritten
<1>10. MapWritten' /\ UsesKnown' /\ CurrentSet' /\ Tables!SamplerTablesExact'
  BY <1>1
  DEF TableInv, MapWritten, UsesKnown, CurrentSet, Tables!SamplerTablesExact,
      Tables!CurrentViewHeap, Tables!CurrentSamplerHeap
<1>11. Tables!CleanTablesValid'
  <2>1. \A st \in SamplerStages :
          /\ tabS'[st] # Tables!NoTable /\ tabS'[st].heap = setS
          /\ memS[tabS'[st]] = sampler[st]
    <3> SUFFICES ASSUME NEW st \in SamplerStages
                 PROVE  /\ tabS'[st] # Tables!NoTable /\ tabS'[st].heap = setS
                        /\ memS[tabS'[st]] = sampler[st]
      OBVIOUS
    <3>1. CASE st \in dirtyS
      BY <1>1, <1>2, <3>1, SetFacts, SlotFacts
    <3>2. CASE st \notin dirtyS
      <4>1. tabS'[st] = tabS[st]
        BY <1>1, <3>2
      <4> QED BY <3>2, <4>1 DEF TableInv, Tables!CleanTablesValid
    <3> QED BY <3>1, <3>2
  <2> QED BY <1>1, <2>1 DEF TableInv, Tables!CleanTablesValid
<1> QED BY <1>4, <1>7, <1>8, <1>9, <1>10, <1>11 DEF TableInv

LEMMA MissGlobalTableStep ==
  ASSUME TableInv, Tables!MissGlobalTable
  PROVE  TableInv' /\ dirtyV \subseteq dirtyV'
<1> USE InvFacts, SetFacts
<1>1. /\ onGlobal' = FALSE /\ Tables!SetDescriptorHeaps(setV, localS.heap)
      /\ onGlobal
      /\ UNCHANGED <<open, done, pc, inFrame, sampler>>
      /\ UNCHANGED <<onBlocks, block, used, blockPool, localV, localS>>
      /\ UNCHANGED <<localSet, unique, globalSet, globalDirty, memS, uses>>
  BY DEF Tables!MissGlobalTable, Tables!queueVars, Tables!boundVars,
     Tables!blockVars, Tables!localVars
<1>2. /\ setV' = setV /\ setS' = localS.heap
      /\ dirtyV' \in SUBSET ViewStages /\ dirtyS' \in SUBSET SamplerStages
      /\ dirtyV \subseteq dirtyV'
      /\ tabV' = tabV \/ tabV' = Tables!NoTables(ViewStages)
      /\ tabS' = tabS \/ tabS' = Tables!NoTables(SamplerStages)
      /\ tabV' \in [ViewStages -> Tables!ViewSlots \cup {Tables!NoTable}]
      /\ tabS' \in [SamplerStages -> Tables!SamplerSlots \cup {Tables!NoTable}]
      /\ Tables!CleanTablesValid'
      /\ samplerMap' = IF localS.heap # setS THEN Tables!NoKeys ELSE samplerMap
  BY <1>1, HeapsSet
<1>3. Tables!TypeOK'
  BY <1>1, <1>2 DEF TableInv, Tables!TypeOK
<1>4. /\ \A r \in ViewRefs' : r \in ViewRefs \/ r.at = Tables!NoTable
      /\ \A r \in SamplerRefs' : r \in SamplerRefs \/ r.at = Tables!NoTable
  BY <1>1, <1>2, ViewRefsKept, SamplerRefsKept
<1>5. ViewsPlaced' /\ Tables!BlocksInOnePlace'
  BY <1>1, <1>4, ViewsKept
<1>6. HeapsPlaced(localS, SamplerRefs, open)'
  BY <1>1, <1>4, SamplersKept
<1>7. GlobalWritten'
  BY <1>1, <1>4, GlobalKept
<1>8. UsesKnown' /\ CurrentSet'
  BY <1>1, <1>2
  DEF TableInv, UsesKnown, CurrentSet, Tables!CurrentViewHeap,
      Tables!CurrentSamplerHeap
<1>9. MapWritten' /\ Tables!SamplerTablesExact'
  BY <1>1, <1>2, MapKept DEF TableInv, Tables!SamplerTablesExact
<1> QED BY <1>2, <1>3, <1>5, <1>6, <1>7, <1>8, <1>9 DEF TableInv

LEMMA BeginFrameStep ==
  ASSUME TableInv, Tables!BeginFrame
  PROVE  TableInv' /\ dirtyV \subseteq dirtyV'
<1> USE InvFacts, SetFacts
<1>1. /\ onGlobal' = TRUE /\ Tables!SetDescriptorHeaps(setV, Tables!Shared)
      /\ inFrame' = TRUE /\ globalDirty' = globalDirty
      /\ localSet' = IF globalDirty THEN globalSet ELSE localSet
      /\ UNCHANGED <<open, done, pc, sampler>>
      /\ UNCHANGED <<onBlocks, block, used, blockPool, localV, localS>>
      /\ UNCHANGED <<unique, globalSet, memS, uses>>
  BY DEF Tables!BeginFrame, Tables!queueVars, Tables!blockVars, Tables!localVars
<1>2. /\ setV' = setV /\ setS' = Tables!Shared
      /\ dirtyV' \in SUBSET ViewStages /\ dirtyS' \in SUBSET SamplerStages
      /\ dirtyV \subseteq dirtyV'
      /\ tabV' = tabV \/ tabV' = Tables!NoTables(ViewStages)
      /\ tabS' = tabS \/ tabS' = Tables!NoTables(SamplerStages)
      /\ tabV' \in [ViewStages -> Tables!ViewSlots \cup {Tables!NoTable}]
      /\ tabS' \in [SamplerStages -> Tables!SamplerSlots \cup {Tables!NoTable}]
      /\ Tables!CleanTablesValid'
      /\ samplerMap' = IF Tables!Shared # setS THEN Tables!NoKeys ELSE samplerMap
  BY <1>1, HeapsSet
<1>3. Tables!TypeOK'
  BY <1>1, <1>2 DEF TableInv, Tables!TypeOK
<1>4. /\ \A r \in ViewRefs' : r \in ViewRefs \/ r.at = Tables!NoTable
      /\ \A r \in SamplerRefs' : r \in SamplerRefs \/ r.at = Tables!NoTable
  BY <1>1, <1>2, ViewRefsKept, SamplerRefsKept
<1>5. ViewsPlaced' /\ Tables!BlocksInOnePlace'
  BY <1>1, <1>4, ViewsKept
<1>6. HeapsPlaced(localS, SamplerRefs, open)'
  BY <1>1, <1>4, SamplersKept
<1>7. GlobalWritten'
  BY <1>1, <1>4, GlobalKept
<1>8. UsesKnown' /\ CurrentSet'
  BY <1>1, <1>2
  DEF TableInv, UsesKnown, CurrentSet, Tables!CurrentViewHeap,
      Tables!CurrentSamplerHeap
<1>9. MapWritten' /\ Tables!SamplerTablesExact'
  BY <1>1, <1>2, MapKept DEF TableInv, Tables!SamplerTablesExact
<1> QED BY <1>2, <1>3, <1>5, <1>6, <1>7, <1>8, <1>9 DEF TableInv

\* A new list: nothing is set on it, and every stage is dirty.
LEMMA ListOpened ==
  ASSUME TableInv, Tables!OpenCommandList
  PROVE  /\ setV' = setV /\ setS' = setS
         /\ dirtyV' = ViewStages /\ dirtyS' = SamplerStages
         /\ tabV' = Tables!NoTables(ViewStages)
         /\ tabS' = Tables!NoTables(SamplerStages)
         /\ tabV' \in [ViewStages -> Tables!ViewSlots \cup {Tables!NoTable}]
         /\ tabS' \in [SamplerStages -> Tables!SamplerSlots \cup {Tables!NoTable}]
         /\ samplerMap' = Tables!NoKeys
         /\ DOMAIN samplerMap' = {}
BY DEF TableInv, CurrentSet, Tables!OpenCommandList, Tables!NoTables, Tables!NoKeys

LEMMA FlushTablesStep ==
  ASSUME TableInv, Tables!FlushCommands
  PROVE  TableInv' /\ dirtyV \subseteq dirtyV'
<1> USE InvFacts
<1>1. /\ Tables!OpenCommandList /\ open' = open + 1 /\ done' = done
      /\ UNCHANGED <<pc, inFrame, sampler>>
      /\ UNCHANGED <<onBlocks, block, used, blockPool, localV, localS>>
      /\ UNCHANGED <<onGlobal, localSet, unique, globalSet, globalDirty>>
      /\ UNCHANGED <<memS, uses>>
  BY DEF Tables!FlushCommands, Tables!Queue!Submit, Tables!boundVars,
     Tables!blockVars, Tables!localVars, Tables!globalVars
<1>2. open' \in Nat /\ open <= open'
  BY <1>1
<1>3. Tables!TypeOK'
  BY <1>1, <1>2, ListOpened DEF TableInv, Tables!TypeOK
<1>4. /\ \A r \in ViewRefs' : r \in ViewRefs \/ r.at = Tables!NoTable
      /\ \A r \in SamplerRefs' : r \in SamplerRefs \/ r.at = Tables!NoTable
  BY <1>1, ListOpened, ViewRefsKept, SamplerRefsKept
<1>5. ViewsPlaced' /\ Tables!BlocksInOnePlace'
  BY <1>1, <1>2, <1>4, ViewsKept
<1>6. HeapsPlaced(localS, SamplerRefs, open)'
  BY <1>1, <1>2, <1>4, SamplersKept
<1>7. GlobalWritten'
  BY <1>1, <1>4, GlobalKept
<1>8. UsesKnown'
  <2>1. \A u \in uses : u \in Reads /\ done < u.batch /\ u.batch <= open
                        /\ u.batch \in Nat
    BY DEF TableInv, UsesKnown, Reads
  <2>2. \A u \in uses : u.batch <= open + 1
    BY <2>1
  <2> QED BY <1>1, <2>1, <2>2 DEF UsesKnown
<1>9. CurrentSet'
  BY <1>1, ListOpened
  DEF TableInv, CurrentSet, Tables!CurrentViewHeap, Tables!CurrentSamplerHeap
<1>10. MapWritten' /\ Tables!SamplerTablesExact'
  BY <1>1, ListOpened
  DEF TableInv, MapWritten, Tables!SamplerTablesExact, Tables!NoKeys
<1>11. dirtyV' = ViewStages /\ dirtyS' = SamplerStages
  BY <1>1, ListOpened
<1>12. Tables!CleanTablesValid'
  BY <1>11 DEF Tables!CleanTablesValid
<1> QED BY <1>3, <1>5, <1>6, <1>7, <1>8, <1>9, <1>10, <1>11, <1>12 DEF TableInv

LEMMA GpuFinishStep ==
  ASSUME TableInv, Tables!GpuFinish
  PROVE  TableInv'
<1> USE InvFacts
<1>1. /\ done + 1 < open /\ done' = done + 1 /\ open' = open
      /\ uses' = {u \in uses : u.batch > done'}
      /\ UNCHANGED <<pc, inFrame, sampler>>
      /\ UNCHANGED <<dirtyV, dirtyS, tabV, tabS, setV, setS, samplerMap>>
      /\ UNCHANGED <<onBlocks, block, used, blockPool, localV, localS>>
      /\ UNCHANGED <<onGlobal, localSet, unique, globalSet, globalDirty, memS>>
  BY DEF Tables!GpuFinish, Tables!Queue!Finish, Tables!boundVars,
     Tables!listVars, Tables!blockVars, Tables!localVars, Tables!globalVars
<1>2. uses' \subseteq uses
  BY <1>1
<1>3. Tables!TypeOK'
  BY <1>1 DEF TableInv, Tables!TypeOK
<1>4. /\ \A r \in ViewRefs' : r \in ViewRefs \/ r.at = Tables!NoTable
      /\ \A r \in SamplerRefs' : r \in SamplerRefs \/ r.at = Tables!NoTable
  BY <1>1, <1>2, ViewRefsKept, SamplerRefsKept
<1>5. ViewsPlaced' /\ Tables!BlocksInOnePlace'
  BY <1>1, <1>4, ViewsKept
<1>6. HeapsPlaced(localS, SamplerRefs, open)'
  BY <1>1, <1>4, SamplersKept
<1>7. GlobalWritten'
  BY <1>1, <1>4, GlobalKept
<1>8. UsesKnown'
  <2>1. \A u \in uses : u \in Reads /\ done < u.batch /\ u.batch <= open
                        /\ u.batch \in Nat
    BY DEF TableInv, UsesKnown, Reads
  <2>2. \A u \in uses' : u \in uses /\ u.batch > done'
    BY <1>1
  <2>3. \A u \in uses' : done' < u.batch
    BY <1>1, <2>1, <2>2
  <2> QED BY <1>1, <2>1, <2>2, <2>3 DEF UsesKnown
<1>9. CurrentSet' /\ MapWritten' /\ Tables!SamplerTablesExact'
      /\ Tables!CleanTablesValid'
  BY <1>1
  DEF TableInv, CurrentSet, Tables!CurrentViewHeap, Tables!CurrentSamplerHeap,
      MapWritten, Tables!SamplerTablesExact, Tables!CleanTablesValid
<1> QED BY <1>3, <1>5, <1>6, <1>7, <1>8, <1>9 DEF TableInv

\* A view heap that is full gives way to another, which nothing reads.
LEMMA RollOverLocalViewsStep ==
  ASSUME TableInv, Tables!RollOverLocalViews
  PROVE  /\ TableInv' /\ dirtyV \subseteq dirtyV'
         /\ localV'.made > localV.made => Tables!InFlight(localV.pool)
<1> USE InvFacts, SetFacts
<1>1. /\ ~ onBlocks /\ Tables!MayRollOver(localV)
      /\ localV' = Tables!RollOverHeap(localV)
      /\ Tables!SetDescriptorHeaps(localV'.heap, setS)
      /\ UNCHANGED <<open, done, pc, inFrame, sampler>>
      /\ UNCHANGED <<onBlocks, block, used, blockPool, localS>>
      /\ UNCHANGED <<onGlobal, localSet, unique, globalSet, globalDirty>>
      /\ UNCHANGED <<memS, uses>>
  BY DEF Tables!RollOverLocalViews, Tables!queueVars, Tables!boundVars,
     Tables!blockVars, Tables!globalVars
<1>2. PICK n : n = Tables!RollOverHeap(localV)
  OBVIOUS
<1>3. \A r \in ViewRefs : r.batch \in Nat /\ done < r.batch /\ r.batch <= open
  BY RefFacts DEF Reads
<1>4. /\ n \in Tables!LocalHeap /\ n.heap \in Tables!Locals
      /\ n.heap # localV.heap /\ HeapsPlaced(n, ViewRefs, open)
      /\ n.made > localV.made => Tables!InFlight(localV.pool)
  BY <1>1, <1>2, <1>3, RollOverPlaced
<1>5. localV' = n
  BY <1>1, <1>2
<1>6. /\ setV' = n.heap /\ setS' = setS
      /\ dirtyV' \in SUBSET ViewStages /\ dirtyS' \in SUBSET SamplerStages
      /\ dirtyV \subseteq dirtyV'
      /\ tabV' = tabV \/ tabV' = Tables!NoTables(ViewStages)
      /\ tabS' = tabS \/ tabS' = Tables!NoTables(SamplerStages)
      /\ tabV' \in [ViewStages -> Tables!ViewSlots \cup {Tables!NoTable}]
      /\ tabS' \in [SamplerStages -> Tables!SamplerSlots \cup {Tables!NoTable}]
      /\ Tables!CleanTablesValid' /\ samplerMap' = samplerMap
  BY <1>1, <1>4, <1>5, HeapsSet
<1>7. Tables!TypeOK'
  BY <1>1, <1>4, <1>5, <1>6 DEF TableInv, Tables!TypeOK
<1>8. /\ \A r \in ViewRefs' : r \in ViewRefs \/ r.at = Tables!NoTable
      /\ \A r \in SamplerRefs' : r \in SamplerRefs \/ r.at = Tables!NoTable
  BY <1>1, <1>6, ViewRefsKept, SamplerRefsKept
<1>9. ViewsPlaced'
  <2>1. PICK refs2 : refs2 = ViewRefs'
    OBVIOUS
  <2>2. \A r \in refs2 : r \in ViewRefs \/ r.at.heap \notin Tables!Locals
    BY <1>8, <2>1, SlotFacts
  <2>3. open <= open
    OBVIOUS
  <2>4. HeapsPlaced(n, refs2, open)
    BY <1>4, <2>2, <2>3, PlacedKept
  <2>5. HeapsPlaced(localV, ViewRefs, open)'
    BY <1>1, <1>5, <2>1, <2>4 DEF HeapsPlaced, InTurn
  <2> QED BY <1>1, <2>5 DEF ViewsPlaced
<1>10. HeapsPlaced(localS, SamplerRefs, open)'
  BY <1>1, <1>8, SamplersKept
<1>11. GlobalWritten'
  BY <1>1, <1>8, GlobalKept
<1>12. UsesKnown' /\ CurrentSet' /\ MapWritten' /\ Tables!SamplerTablesExact'
       /\ Tables!BlocksInOnePlace'
  BY <1>1, <1>5, <1>6
  DEF TableInv, UsesKnown, CurrentSet, Tables!CurrentViewHeap,
      Tables!CurrentSamplerHeap, MapWritten, Tables!SamplerTablesExact,
      Tables!BlocksInOnePlace
<1> QED BY <1>4, <1>5, <1>6, <1>7, <1>9, <1>10, <1>11, <1>12 DEF TableInv

\* A sampler heap that is full likewise; its tables are forgotten.
LEMMA RollOverSamplersStep ==
  ASSUME TableInv, Tables!RollOverSamplers
  PROVE  /\ TableInv' /\ dirtyV \subseteq dirtyV'
         /\ localS'.made > localS.made => Tables!InFlight(localS.pool)
         /\ \A u \in uses : u.kind = "sampler" /\ u.at \in Tables!SamplerSlots
                              => memS'[u.at] = memS[u.at]
<1> USE InvFacts, SetFacts
<1>1. /\ ~ onGlobal /\ Tables!MayRollOver(localS)
      /\ localS' = Tables!RollOverHeap(localS)
      /\ Tables!SetDescriptorHeaps(setV, localS'.heap)
      /\ memS' = Tables!Forget(memS, Tables!HeapSlots(localS'.heap))
      /\ UNCHANGED <<open, done, pc, inFrame, sampler>>
      /\ UNCHANGED <<onBlocks, block, used, blockPool, localV>>
      /\ UNCHANGED <<onGlobal, localSet, unique, globalSet, globalDirty, uses>>
  BY DEF Tables!RollOverSamplers, Tables!queueVars, Tables!boundVars,
     Tables!blockVars, Tables!globalVars
<1>2. PICK n : n = Tables!RollOverHeap(localS)
  OBVIOUS
<1>3. \A r \in SamplerRefs : r.batch \in Nat /\ done < r.batch /\ r.batch <= open
  BY RefFacts DEF Reads
<1>4. HeapsPlaced(localS, SamplerRefs, open)
  BY DEF TableInv
<1>5. /\ n \in Tables!LocalHeap /\ n.heap \in Tables!Locals
      /\ n.heap # localS.heap /\ HeapsPlaced(n, SamplerRefs, open)
      /\ \A r \in SamplerRefs : r.at.heap # n.heap
      /\ n.made > localS.made => Tables!InFlight(localS.pool)
  BY <1>1, <1>2, <1>3, <1>4, RollOverPlaced
<1>6. localS' = n /\ n.heap # setS /\ n.heap # Tables!Shared
  BY <1>1, <1>2, <1>5, SlotFacts
<1>7. /\ setV' = setV /\ setS' = n.heap
      /\ dirtyV' \in SUBSET ViewStages /\ dirtyS' \in SUBSET SamplerStages
      /\ dirtyV \subseteq dirtyV'
      /\ tabV' = tabV \/ tabV' = Tables!NoTables(ViewStages)
      /\ tabS' = tabS \/ tabS' = Tables!NoTables(SamplerStages)
      /\ tabV' \in [ViewStages -> Tables!ViewSlots \cup {Tables!NoTable}]
      /\ tabS' \in [SamplerStages -> Tables!SamplerSlots \cup {Tables!NoTable}]
      /\ Tables!CleanTablesValid' /\ samplerMap' = Tables!NoKeys
  <2>1. /\ Tables!SetDescriptorHeaps(setV, n.heap) /\ sampler' = sampler
        /\ n.heap \in Tables!Locals \cup {Tables!Shared}
        /\ setV \in Tables!Locals \cup {Tables!Shared}
    BY <1>1, <1>5, <1>6
  <2> QED BY <1>6, <2>1, HeapsSet
<1>8. /\ memS' \in [Tables!SamplerSlots -> Samplers \cup {Garbage}]
      /\ \A p \in Tables!SamplerSlots : p.heap # n.heap => memS'[p] = memS[p]
  BY <1>1, <1>6 DEF Tables!Forget, Tables!HeapSlots
<1>9. Tables!TypeOK'
  BY <1>1, <1>5, <1>6, <1>7, <1>8 DEF TableInv, Tables!TypeOK
<1>10. /\ \A r \in ViewRefs' : r \in ViewRefs \/ r.at = Tables!NoTable
       /\ \A r \in SamplerRefs' : r \in SamplerRefs \/ r.at = Tables!NoTable
  BY <1>1, <1>7, ViewRefsKept, SamplerRefsKept
<1>11. ViewsPlaced' /\ Tables!BlocksInOnePlace'
  BY <1>1, <1>10, ViewsKept
<1>12. HeapsPlaced(localS, SamplerRefs, open)'
  <2>1. PICK refs2 : refs2 = SamplerRefs'
    OBVIOUS
  <2>2. \A r \in refs2 : r \in SamplerRefs \/ r.at.heap \notin Tables!Locals
    BY <1>10, <2>1, SlotFacts
  <2>3. HeapsPlaced(n, refs2, open)
    BY <1>5, <2>2, PlacedKept
  <2> QED BY <1>1, <1>6, <2>1, <2>3 DEF HeapsPlaced, InTurn
<1>13. GlobalWritten'
  BY <1>1, <1>10, GlobalKept
<1>14. UsesKnown' /\ CurrentSet'
  BY <1>1, <1>6, <1>7
  DEF TableInv, UsesKnown, CurrentSet, Tables!CurrentViewHeap,
      Tables!CurrentSamplerHeap
<1>15. DOMAIN samplerMap' = {}
  BY <1>7 DEF Tables!NoKeys
<1>16. MapWritten'
  BY <1>7, <1>15 DEF MapWritten, Tables!NoKeys
<1>17. Tables!SamplerTablesExact'
  <2>1. \A k \in DOMAIN globalSet :
          memS'[Tables!At(Tables!Shared, globalSet[k])] = k
    BY <1>6, <1>8, GlobalTables DEF Tables!At
  <2> QED BY <1>1, <1>15, <2>1 DEF TableInv, Tables!SamplerTablesExact
<1>18. ASSUME NEW u \in uses, u.kind = "sampler", u.at \in Tables!SamplerSlots
       PROVE  memS'[u.at] = memS[u.at]
  <2>1. u \in SamplerRefs
    BY <1>18 DEF SamplerRefs
  <2> QED BY <1>5, <1>8, <1>18, <2>1
<1> QED BY <1>5, <1>6, <1>7, <1>9, <1>11, <1>12, <1>13, <1>14, <1>16, <1>17,
           <1>18 DEF TableInv

-----------------------------------------------------------------------------
(* Blocks and views                                                        *)

\* Blocks share no slot, and lie in the heap.
LEMMA BlockSlots ==
  /\ \A b \in 1 .. Blocks : BlockStart(b) \in Nat
       /\ BlockStart(b) + BlockSize <= Blocks * BlockSize
  /\ \A b, c \in 1 .. Blocks : \A slot \in Nat :
       InBlock(slot, b) /\ InBlock(slot, c) => b = c
<1> USE TableFacts
<1>1. ASSUME NEW m \in Nat, NEW n \in Nat, m <= n
      PROVE  /\ m * BlockSize \in Nat /\ n * BlockSize \in Nat
             /\ m * BlockSize <= n * BlockSize
  <2>1. PICK d \in Nat : n = m + d
    <3>1. n - m \in Nat /\ n = m + (n - m)
      BY <1>1
    <3> QED BY <3>1
  <2>2. (m + d) * BlockSize = m * BlockSize + d * BlockSize
    OBVIOUS
  <2>3. m * BlockSize \in Nat /\ d * BlockSize \in Nat /\ n * BlockSize \in Nat
    OBVIOUS
  <2> QED BY <2>1, <2>2, <2>3
<1>2. \A m \in Nat : (m + 1) * BlockSize = m * BlockSize + BlockSize
  OBVIOUS
<1>3. ASSUME NEW b \in 1 .. Blocks
      PROVE  /\ BlockStart(b) \in Nat /\ BlockStart(b) + BlockSize = b * BlockSize
             /\ b * BlockSize <= Blocks * BlockSize
  <2>1. /\ b - 1 \in Nat /\ b \in Nat /\ (b - 1) + 1 = b /\ b - 1 <= b
        /\ b <= Blocks
    OBVIOUS
  <2>2. /\ (b - 1) * BlockSize \in Nat
        /\ b * BlockSize = (b - 1) * BlockSize + BlockSize
    BY <1>1, <1>2, <2>1
  <2>3. b * BlockSize <= Blocks * BlockSize
    BY <1>1, <2>1
  <2> QED BY <2>2, <2>3 DEF BlockStart
<1>4. ASSUME NEW b \in 1 .. Blocks, NEW c \in 1 .. Blocks, b < c
      PROVE  BlockStart(b) + BlockSize <= BlockStart(c)
  <2>1. b \in Nat /\ c - 1 \in Nat /\ b <= c - 1
    BY <1>4
  <2>2. b * BlockSize <= (c - 1) * BlockSize
    BY <1>1, <2>1
  <2> QED BY <1>3, <2>2 DEF BlockStart
<1>5. ASSUME NEW b \in 1 .. Blocks, NEW c \in 1 .. Blocks, NEW slot \in Nat,
             InBlock(slot, b), InBlock(slot, c), b < c
      PROVE  FALSE
  BY <1>3, <1>4, <1>5 DEF InBlock
<1>6. ASSUME NEW b \in 1 .. Blocks, NEW c \in 1 .. Blocks, NEW slot \in Nat,
             InBlock(slot, b), InBlock(slot, c)
      PROVE  b = c
  <2>1. b < c \/ b = c \/ c < b
    OBVIOUS
  <2> QED BY <1>5, <1>6, <2>1
<1> QED BY <1>3, <1>6

\* The pool of blocks with the current one at its end.
IsBlockPool(p, k) == p = Tables!PoolWithBlock /\ k = Len(blockPool)

LEMMA BlocksInTurn ==
  ASSUME TableInv, onBlocks, NEW p, NEW k, IsBlockPool(p, k)
  PROVE  /\ k \in Nat /\ Len(p) = k + 1 /\ p # <<>> /\ Tables!Front(p) = p[1]
         /\ p \in Seq([block : 1 .. Blocks, sync : Nat])
         /\ p[k + 1].block = block /\ p[k + 1].sync = open
         /\ \A i \in 1 .. k : p[i] = blockPool[i]
         /\ \A i \in 1 .. k + 1 : p[i].block \in 1 .. Blocks /\ p[i].sync \in Nat
         /\ \A i, j \in 1 .. k + 1 : p[i].block = p[j].block => i = j
         /\ \A i, j \in 1 .. k + 1 : i <= j => p[i].sync <= p[j].sync
         /\ \A i \in 1 .. k + 1 : p[i].sync <= open
         /\ \A r \in ViewRefs :
              r.at # Tables!NoTable =>
                /\ r.at.heap = Tables!Shared
                /\ \E i \in 1 .. k + 1 :
                     InBlock(r.at.slot, p[i].block) /\ r.batch <= p[i].sync
<1> DEFINE e == [block |-> block, sync |-> open]
<1>1. /\ BlocksPlaced /\ open \in Nat /\ block \in 1 .. Blocks
      /\ p = Tables!PoolWithBlock /\ k = Len(blockPool)
  BY SetFacts, InvFacts DEF IsBlockPool
<1>2. /\ p \in Seq([block : 1 .. Blocks, sync : Nat]) /\ Len(p) = k + 1
      /\ p[k + 1] = e /\ \A i \in 1 .. k : p[i] = blockPool[i]
  <2>1. /\ blockPool \in Seq([block : 1 .. Blocks, sync : Nat])
        /\ e \in [block : 1 .. Blocks, sync : Nat]
    BY <1>1, InvFacts
  <2>2. p = Append(blockPool, e)
    BY <1>1 DEF Tables!PoolWithBlock
  <2> HIDE DEF e
  <2> QED BY <1>1, <2>1, <2>2, AppendProperties
<1>3. e.block = block /\ e.sync = open
  OBVIOUS
<1> HIDE DEF e
<1>4. k \in Nat /\ p # <<>> /\ Tables!Front(p) = p[1]
  <2>1. k \in Nat
    BY <1>1, BlockFacts
  <2> QED BY <1>2, <2>1, EmptySeq DEF Tables!Front
<1>5. \A i \in 1 .. k + 1 : i \in 1 .. k \/ i = k + 1
  BY <1>4
<1>6. k + 1 \in 1 .. k + 1
      /\ \A i \in 1 .. k : i \in 1 .. k + 1 /\ i <= k + 1 /\ ~ (k + 1 <= i)
  BY <1>4
<1>7. \A i \in 1 .. k + 1 : p[i].block \in 1 .. Blocks /\ p[i].sync \in Nat
  <2>1. \A i \in 1 .. k : blockPool[i].block \in 1 .. Blocks
                          /\ blockPool[i].sync \in Nat
    BY <1>1, BlockFacts
  <2> QED BY <1>1, <1>2, <1>3, <1>5, <2>1
<1>8. /\ \A i \in 1 .. k : blockPool[i].block # block /\ blockPool[i].sync <= open
      /\ \A i, j \in 1 .. k : blockPool[i].block = blockPool[j].block => i = j
      /\ \A i, j \in 1 .. k : i <= j => blockPool[i].sync <= blockPool[j].sync
  BY <1>1, Zenon DEF BlocksPlaced, InTurn
<1>9. \A i, j \in 1 .. k + 1 : p[i].block = p[j].block => i = j
  BY <1>2, <1>3, <1>5, <1>8
<1>10. \A i \in 1 .. k + 1 : p[i].sync <= open
  BY <1>1, <1>2, <1>3, <1>5, <1>8
<1>11. ASSUME NEW i \in 1 .. k + 1, NEW j \in 1 .. k + 1, i <= j
       PROVE  p[i].sync <= p[j].sync
  <2>1. CASE j = k + 1
    BY <1>2, <1>3, <1>10, <2>1
  <2>2. CASE j \in 1 .. k
    <3>1. i \in 1 .. k
      BY <1>5, <1>6, <1>11, <2>2
    <3> QED BY <1>2, <1>8, <1>11, <2>2, <3>1
  <2> QED BY <1>5, <2>1, <2>2
<1>12. ASSUME NEW r \in ViewRefs, r.at # Tables!NoTable
       PROVE  /\ r.at.heap = Tables!Shared
              /\ \E i \in 1 .. k + 1 :
                   InBlock(r.at.slot, p[i].block) /\ r.batch <= p[i].sync
  <2>1. /\ r.at.heap = Tables!Shared
        /\ \/ InBlock(r.at.slot, block)
           \/ \E i \in 1 .. k : /\ InBlock(r.at.slot, blockPool[i].block)
                                /\ r.batch <= blockPool[i].sync
    BY <1>1, <1>12 DEF BlocksPlaced
  <2>2. CASE InBlock(r.at.slot, block)
    BY <1>2, <1>3, <1>6, <2>1, <2>2, RefFacts
  <2>3. CASE \E i \in 1 .. k : /\ InBlock(r.at.slot, blockPool[i].block)
                               /\ r.batch <= blockPool[i].sync
    BY <1>2, <1>6, <2>1, <2>3
  <2> QED BY <2>1, <2>2, <2>3
<1> QED BY <1>2, <1>3, <1>4, <1>7, <1>9, <1>10, <1>11, <1>12

LEMMA RollOverBlockStep ==
  ASSUME TableInv, Tables!RollOverBlock
  PROVE  TableInv'
<1>1. PICK p, k : IsBlockPool(p, k)
  BY DEF IsBlockPool
<1>2. /\ onBlocks /\ block' = Tables!Front(p).block /\ used' = 0
      /\ Tables!IsComplete(Tables!Front(p).sync)
      /\ blockPool' = Tail(p)
      /\ UNCHANGED <<open, done, pc, inFrame, sampler>>
      /\ UNCHANGED <<dirtyV, dirtyS, tabV, tabS, setV, setS, samplerMap>>
      /\ UNCHANGED <<onBlocks, localV, localS>>
      /\ UNCHANGED <<onGlobal, localSet, unique, globalSet, globalDirty>>
      /\ UNCHANGED <<memS, uses>>
  BY <1>1 DEF IsBlockPool, Tables!RollOverBlock, Tables!queueVars, Tables!boundVars,
     Tables!listVars, Tables!localVars, Tables!globalVars
<1>3. /\ k \in Nat /\ Len(p) = k + 1 /\ p # <<>> /\ Tables!Front(p) = p[1]
      /\ p \in Seq([block : 1 .. Blocks, sync : Nat])
      /\ p[k + 1].block = block /\ p[k + 1].sync = open
      /\ \A i \in 1 .. k : p[i] = blockPool[i]
      /\ \A i \in 1 .. k + 1 : p[i].block \in 1 .. Blocks /\ p[i].sync \in Nat
      /\ \A i, j \in 1 .. k + 1 : p[i].block = p[j].block => i = j
      /\ \A i, j \in 1 .. k + 1 : i <= j => p[i].sync <= p[j].sync
      /\ \A i \in 1 .. k + 1 : p[i].sync <= open
  BY <1>1, <1>2, BlocksInTurn, Zenon
<1>4. \A r \in ViewRefs :
        r.at # Tables!NoTable =>
          /\ r.at.heap = Tables!Shared
          /\ \E i \in 1 .. k + 1 :
               InBlock(r.at.slot, p[i].block) /\ r.batch <= p[i].sync
  BY <1>1, <1>2, BlocksInTurn, Zenon
<1>5. /\ Tail(p) \in Seq([block : 1 .. Blocks, sync : Nat])
      /\ Len(blockPool') = k
      /\ \A i \in 1 .. k : blockPool'[i] = p[i + 1]
  BY <1>2, <1>3, HeadTailProperties
<1>6. /\ \A i \in 1 .. k : i + 1 \in 1 .. k + 1 /\ i + 1 # 1
      /\ \A i \in 1 .. k + 1 : i # 1 => i - 1 \in 1 .. k /\ (i - 1) + 1 = i
      /\ 1 \in 1 .. k + 1 /\ k + 1 \in 1 .. k + 1
  BY <1>3
<1>7. block' = p[1].block /\ p[1].sync <= done /\ block' \in 1 .. Blocks
  BY <1>2, <1>3, <1>6 DEF Tables!IsComplete
<1>8. Tables!TypeOK'
  <2>1. used' \in 0 .. BlockSize
    BY <1>2, TableFacts
  <2> QED BY <1>2, <1>5, <1>7, <2>1 DEF TableInv, Tables!TypeOK
<1>9. ViewRefs' = ViewRefs /\ SamplerRefs' = SamplerRefs
  BY <1>2 DEF ViewRefs, SamplerRefs, Tables!UsesOf
<1>10. BlocksPlaced'
  <2>0. /\ \A i, j \in 1 .. k + 1 : p[i].block = p[j].block => i = j
        /\ \A i, j \in 1 .. k + 1 : i <= j => p[i].sync <= p[j].sync
        /\ \A i \in 1 .. k + 1 : p[i].sync <= open
    BY <1>3
  <2>1. \A i \in 1 .. k : blockPool'[i].block # block'
    <3> SUFFICES ASSUME NEW i \in 1 .. k PROVE blockPool'[i].block # block'
      OBVIOUS
    <3>1. p[i + 1].block # p[1].block
      BY <1>6, <2>0
    <3> QED BY <1>5, <1>7, <3>1
  <2>2. \A i, j \in 1 .. k : blockPool'[i].block = blockPool'[j].block => i = j
    <3> SUFFICES ASSUME NEW i \in 1 .. k, NEW j \in 1 .. k,
                        blockPool'[i].block = blockPool'[j].block
                 PROVE  i = j
      OBVIOUS
    <3>1. i + 1 = j + 1
      <4>1. p[i + 1].block = p[j + 1].block
        BY <1>5
      <4> QED BY <1>6, <2>0, <4>1
    <3> QED BY <3>1
  <2>3. InTurn(blockPool, open)'
    <3>1. \A i, j \in 1 .. k : i <= j => i + 1 <= j + 1
      BY <1>3
    <3>2. ASSUME NEW i \in 1 .. k
          PROVE  blockPool'[i].sync <= open
      <4>1. p[i + 1].sync <= open
        BY <1>6, <2>0
      <4> QED BY <1>5, <4>1
    <3>3. ASSUME NEW i \in 1 .. k, NEW j \in 1 .. k, i <= j
          PROVE  blockPool'[i].sync <= blockPool'[j].sync
      <4>1. p[i + 1].sync <= p[j + 1].sync
        BY <1>6, <2>0, <3>1, <3>3
      <4> QED BY <1>5, <4>1
    <3> QED BY <1>2, <1>5, <3>2, <3>3 DEF InTurn
  <2>4. ASSUME NEW r \in ViewRefs, r.at # Tables!NoTable
        PROVE  /\ r.at.heap = Tables!Shared
               /\ \E i \in 1 .. k :
                    /\ InBlock(r.at.slot, blockPool'[i].block)
                    /\ r.batch <= blockPool'[i].sync
    <3>1. PICK i \in 1 .. k + 1 :
            InBlock(r.at.slot, p[i].block) /\ r.batch <= p[i].sync
      BY <1>4, <2>4
    <3>2. r.batch \in Nat /\ done \in Nat /\ done < r.batch
      BY RefFacts, InvFacts DEF Reads
    <3>3. i # 1
      BY <1>3, <1>7, <3>1, <3>2
    <3>4. r.at.heap = Tables!Shared
      BY <1>4, <2>4
    <3>5. i - 1 \in 1 .. k /\ blockPool'[i - 1] = p[i]
      BY <1>5, <1>6, <3>3
    <3> QED BY <3>1, <3>4, <3>5
  <2> QED BY <1>2, <1>5, <1>9, <2>1, <2>2, <2>3, <2>4
          DEF BlocksPlaced, InBlock, BlockStart
<1>11. ViewsPlaced'
  BY <1>2, <1>10, SetFacts DEF ViewsPlaced, Tables!NoHeap
<1>12. Tables!BlocksInOnePlace'
  <2>1. /\ {block} \cup {blockPool[i].block : i \in DOMAIN blockPool} = 1 .. Blocks
        /\ k = Blocks - 1
    BY <1>1, <1>2 DEF IsBlockPool, TableInv, Tables!BlocksInOnePlace
  <2>2. DOMAIN blockPool = 1 .. k /\ DOMAIN blockPool' = 1 .. k
    BY <1>1, <1>2, <1>5, InvFacts, LenProperties DEF IsBlockPool
  <2>3. \A b \in 1 .. Blocks : \E i \in 1 .. k + 1 : b = p[i].block
    <3> SUFFICES ASSUME NEW b \in 1 .. Blocks
                 PROVE  \E i \in 1 .. k + 1 : b = p[i].block
      OBVIOUS
    <3>1. CASE b = block
      BY <1>3, <1>6, <3>1
    <3>2. CASE \E i \in 1 .. k : b = blockPool[i].block
      <4>1. \A i \in 1 .. k : i \in 1 .. k + 1
        BY <1>3
      <4> QED BY <1>3, <3>2, <4>1
    <3> QED BY <2>1, <2>2, <3>1, <3>2
  <2>4. \A b \in 1 .. Blocks :
          b = block' \/ \E i \in 1 .. k : b = blockPool'[i].block
    <3> SUFFICES ASSUME NEW b \in 1 .. Blocks, b # block'
                 PROVE  \E i \in 1 .. k : b = blockPool'[i].block
      OBVIOUS
    <3>1. PICK i \in 1 .. k + 1 : b = p[i].block
      BY <2>3
    <3>2. i # 1
      BY <1>7, <3>1
    <3>3. i - 1 \in 1 .. k /\ blockPool'[i - 1] = p[i]
      BY <1>5, <1>6, <3>2
    <3> QED BY <3>1, <3>3
  <2>5. \A i \in 1 .. k : blockPool'[i].block \in 1 .. Blocks
    BY <1>3, <1>5, <1>6
  <2>6. {block'} \cup {blockPool'[i].block : i \in 1 .. k} = 1 .. Blocks
    BY <1>7, <2>4, <2>5
  <2> QED BY <1>5, <2>1, <2>2, <2>6 DEF Tables!BlocksInOnePlace
<1>13. HeapsPlaced(localS, SamplerRefs, open)'
  BY <1>2, <1>9 DEF TableInv, HeapsPlaced, InTurn
<1>14. GlobalWritten'
  BY <1>2, <1>9 DEF TableInv, GlobalWritten
<1>15. UsesKnown' /\ CurrentSet' /\ MapWritten' /\ Tables!SamplerTablesExact'
       /\ Tables!CleanTablesValid'
  BY <1>2
  DEF TableInv, UsesKnown, CurrentSet, Tables!CurrentViewHeap,
      Tables!CurrentSamplerHeap, MapWritten, Tables!SamplerTablesExact,
      Tables!CleanTablesValid
<1> QED BY <1>8, <1>11, <1>12, <1>13, <1>14, <1>15 DEF TableInv

\* The blocks are given up when the one that is longest in the pool is in
\* flight, and then all are.
LEMMA RunOutOfBlocksStep ==
  ASSUME TableInv, Tables!RunOutOfBlocks
  PROVE  /\ TableInv' /\ dirtyV \subseteq dirtyV'
         /\ onBlocks /\ Tables!InFlight(blockPool)
<1>1. PICK p, k : IsBlockPool(p, k)
  BY DEF IsBlockPool
<1>2. /\ onBlocks /\ block' = Tables!Front(p).block
      /\ ~ Tables!IsComplete(Tables!Front(p).sync)
      /\ blockPool' = p /\ onBlocks' = FALSE /\ localV' = Tables!NewLocalHeap
      /\ Tables!SetDescriptorHeaps(Tables!NewLocalHeap.heap, setS)
      /\ UNCHANGED <<open, done, pc, inFrame, sampler, used, localS>>
      /\ UNCHANGED <<onGlobal, localSet, unique, globalSet, globalDirty>>
      /\ UNCHANGED <<memS, uses>>
  BY <1>1 DEF IsBlockPool, Tables!RunOutOfBlocks, Tables!queueVars, Tables!boundVars,
     Tables!globalVars
<1>3. /\ k \in Nat /\ Tables!Front(p) = p[1]
      /\ p \in Seq([block : 1 .. Blocks, sync : Nat])
      /\ \A i \in 1 .. k : p[i] = blockPool[i]
      /\ \A i \in 1 .. k + 1 : p[i].block \in 1 .. Blocks /\ p[i].sync \in Nat
      /\ \A i, j \in 1 .. k + 1 : i <= j => p[i].sync <= p[j].sync
  BY <1>1, <1>2, BlocksInTurn
<1>4. block' = p[1].block /\ p[1].sync > done /\ block' \in 1 .. Blocks
  <2>1. 1 \in 1 .. k + 1
    BY <1>3
  <2>2. p[1].block \in 1 .. Blocks /\ p[1].sync \in Nat
    BY <1>3, <2>1
  <2>3. Tables!Front(p) = p[1]
    BY <1>3
  <2>4. done \in Nat
    BY InvFacts
  <2> QED BY <1>2, <2>2, <2>3, <2>4 DEF Tables!IsComplete
<1>5. Tables!InFlight(blockPool)
  <2> SUFFICES ASSUME NEW i \in DOMAIN blockPool PROVE blockPool[i].sync > done
    BY DEF Tables!InFlight
  <2>1. i \in 1 .. k
    BY <1>1, InvFacts, LenProperties DEF IsBlockPool
  <2>2. i \in 1 .. k + 1 /\ 1 \in 1 .. k + 1 /\ 1 <= i
    BY <1>3, <2>1
  <2>3. p[1].sync <= p[i].sync /\ p[i].sync \in Nat /\ p[1].sync \in Nat
        /\ done \in Nat
    BY <1>3, <2>2, InvFacts
  <2> QED BY <1>3, <1>4, <2>1, <2>3
<1>6. PICK n : n = Tables!NewLocalHeap
  OBVIOUS
<1>7. /\ n.heap = 2 /\ n.next = 0 /\ n.pool = <<>> /\ n.made = 1 /\ Len(n.pool) = 0
      /\ n \in Tables!LocalHeap /\ 2 \in Tables!Locals /\ localV' = n
  BY <1>2, <1>6, TableFacts DEF Tables!NewLocalHeap, Tables!LocalHeap, Tables!Locals
<1>8. /\ setV' = 2 /\ setS' = setS
      /\ dirtyV' \in SUBSET ViewStages /\ dirtyS' \in SUBSET SamplerStages
      /\ dirtyV \subseteq dirtyV'
      /\ tabV' = tabV \/ tabV' = Tables!NoTables(ViewStages)
      /\ tabS' = tabS \/ tabS' = Tables!NoTables(SamplerStages)
      /\ tabV' \in [ViewStages -> Tables!ViewSlots \cup {Tables!NoTable}]
      /\ tabS' \in [SamplerStages -> Tables!SamplerSlots \cup {Tables!NoTable}]
      /\ Tables!CleanTablesValid' /\ samplerMap' = samplerMap
  <2>1. Tables!SetDescriptorHeaps(2, setS) /\ sampler' = sampler /\ memS' = memS
        /\ 2 \in Tables!Locals \cup {Tables!Shared}
        /\ setS \in Tables!Locals \cup {Tables!Shared}
    BY <1>2, <1>6, <1>7, SetFacts
  <2> QED BY <2>1, HeapsSet
<1>9. Tables!TypeOK'
  BY <1>2, <1>3, <1>4, <1>7, <1>8 DEF TableInv, Tables!TypeOK
<1>10. /\ \A r \in ViewRefs' : r \in ViewRefs \/ r.at = Tables!NoTable
       /\ \A r \in SamplerRefs' : r \in SamplerRefs \/ r.at = Tables!NoTable
  BY <1>2, <1>8, InvFacts, ViewRefsKept, SamplerRefsKept
<1>11. ViewsPlaced'
  <2>1. \A r \in ViewRefs' : r.at.heap \notin Tables!Locals
    <3> SUFFICES ASSUME NEW r \in ViewRefs' PROVE r.at.heap \notin Tables!Locals
      OBVIOUS
    <3>1. r \in ViewRefs /\ r.at # Tables!NoTable => r.at.heap = Tables!Shared
      BY <1>2, SetFacts DEF BlocksPlaced
    <3> QED BY <1>10, <3>1, SlotFacts
  <2>2. HeapsPlaced(localV, ViewRefs, open)'
    BY <1>7, <2>1 DEF HeapsPlaced, InTurn
  <2> QED BY <1>2, <2>2 DEF ViewsPlaced
<1>12. HeapsPlaced(localS, SamplerRefs, open)'
  BY <1>2, <1>10, InvFacts, SamplersKept
<1>13. GlobalWritten'
  BY <1>2, <1>10, GlobalKept
<1>14. UsesKnown' /\ CurrentSet' /\ MapWritten' /\ Tables!SamplerTablesExact'
       /\ Tables!BlocksInOnePlace'
  BY <1>2, <1>7, <1>8
  DEF TableInv, UsesKnown, CurrentSet, Tables!CurrentViewHeap,
      Tables!CurrentSamplerHeap, MapWritten, Tables!SamplerTablesExact,
      Tables!BlocksInOnePlace
<1> QED BY <1>2, <1>5, <1>8, <1>9, <1>11, <1>12, <1>13, <1>14 DEF TableInv

-----------------------------------------------------------------------------
(* Draws                                                                   *)

\* A heap some of whose next slots are taken.
Taken(l, n) == [l EXCEPT !.next = @ + n]

\* The slots after the last one taken are read by nobody.
LEMMA NextSlotsFree ==
  ASSUME NEW l \in Tables!LocalHeap, NEW refs, NEW now, HeapsPlaced(l, refs, now),
         NEW r \in refs, r.at.heap = l.heap
  PROVE  r.at.slot <= l.next
<1>1. l.heap \in Tables!Locals
  BY HeapIsLocal
<1> QED BY <1>1 DEF HeapsPlaced

LEMMA PlacedTaken ==
  ASSUME NEW l \in Tables!LocalHeap, NEW n \in Nat, l.next + n <= LocalSize,
         NEW refs, NEW refs2, NEW now, HeapsPlaced(l, refs, now),
         \A r \in refs : r.at.slot \in Nat,
         \A r \in refs2 :
           \/ r \in refs
           \/ r.at.heap = l.heap /\ r.at.slot <= l.next + n
  PROVE  /\ Taken(l, n) \in Tables!LocalHeap
         /\ Taken(l, n).heap = l.heap /\ Taken(l, n).next = l.next + n
         /\ Taken(l, n).pool = l.pool /\ Taken(l, n).made = l.made
         /\ HeapsPlaced(Taken(l, n), refs2, now)
<1>1. l.next \in 0 .. LocalSize /\ LocalSize \in Nat
  BY HeapFields, TableFacts
<1>2. /\ Taken(l, n) \in Tables!LocalHeap
      /\ Taken(l, n).heap = l.heap /\ Taken(l, n).next = l.next + n
      /\ Taken(l, n).pool = l.pool /\ Taken(l, n).made = l.made
  BY <1>1 DEF Taken, Tables!LocalHeap
<1>3. l.next <= l.next + n /\ l.next \in Nat
  BY <1>1
<1>4. ASSUME NEW r \in refs2, r.at.heap \in Tables!Locals
      PROVE  \/ r.at.heap = l.heap /\ r.at.slot <= l.next + n
             \/ \E i \in 1 .. Len(l.pool) :
                  r.at.heap = l.pool[i].heap /\ r.batch <= l.pool[i].sync
  <2>1. CASE r \in refs
    <3>1. CASE r.at.heap = l.heap
      <4>1. r.at.slot <= l.next /\ r.at.slot \in Nat
        BY <2>1, <3>1, NextSlotsFree
      <4> QED BY <1>3, <3>1, <4>1
    <3>2. CASE r.at.heap # l.heap
      BY <1>4, <2>1, <3>2 DEF HeapsPlaced
    <3> QED BY <3>1, <3>2
  <2> QED BY <2>1
<1> HIDE DEF Taken
<1> QED BY <1>2, <1>4 DEF HeapsPlaced

\* What a draw leaves, whatever slots its views are written to.
LEMMA DrawKeeps ==
  ASSUME TableInv, NEW base, Tables!SetViewsAndDraw(base),
         tabV' \in [ViewStages -> Tables!ViewSlots \cup {Tables!NoTable}]
  PROVE  /\ \A r \in ViewRefs' :
              \/ r \in ViewRefs
              \/ \E st \in dirtyV : /\ r.at = tabV'[st]
                                    /\ r.batch = open
         /\ UsesKnown' /\ HeapsPlaced(localS, SamplerRefs, open)'
         /\ GlobalWritten' /\ MapWritten' /\ Tables!SamplerTablesExact'
<1>1. /\ tabV' = [st \in ViewStages |->
                    IF st \in dirtyV
                    THEN Tables!At(Tables!CurrentViewHeap,
                                   base + Tables!Rank(st, dirtyV))
                    ELSE tabV[st]]
      /\ uses' = uses \cup Tables!UsesOf("view", tabV')
                      \cup Tables!UsesOf("sampler", tabS)
      /\ UNCHANGED <<open, done, sampler, dirtyS, tabS, setV, setS, samplerMap>>
      /\ UNCHANGED <<onBlocks, block, blockPool, localS, memS>>
      /\ UNCHANGED <<onGlobal, localSet, unique, globalSet, globalDirty>>
  BY DEF Tables!SetViewsAndDraw, Tables!queueVars, Tables!boundVars,
     Tables!globalVars
<1>2. /\ tabV \in [ViewStages -> Tables!ViewSlots \cup {Tables!NoTable}]
      /\ tabS \in [SamplerStages -> Tables!SamplerSlots \cup {Tables!NoTable}]
      /\ open \in Nat /\ done \in Nat /\ done < open
  BY InvFacts
<1>3. \A u \in Tables!UsesOf("view", tabV') : u.batch = open /\ u.kind = "view"
        /\ \E st \in ViewStages : u.at = tabV'[st]
        /\ u \in Reads
  <2> SUFFICES ASSUME NEW u \in Tables!UsesOf("view", tabV')
               PROVE  u.batch = open /\ u.kind = "view"
                      /\ (\E st \in ViewStages : u.at = tabV'[st]) /\ u \in Reads
    OBVIOUS
  <2>1. PICK st \in ViewStages :
          u = [batch |-> open, kind |-> "view", at |-> tabV'[st]]
    BY DEF Tables!UsesOf
  <2>2. tabV'[st] \in [heap : Nat, slot : Nat]
    BY SlotFacts
  <2> QED BY <1>2, <2>1, <2>2 DEF Reads
<1>4. ASSUME NEW r \in ViewRefs', r \notin ViewRefs
      PROVE  \E st \in dirtyV : r.at = tabV'[st] /\ r.batch = open
  <2>1. r \in Tables!UsesOf("view", tabV')
    <3>1. CASE r \in uses' /\ r.kind = "view"
      <4>1. \A u \in Tables!UsesOf("sampler", tabS) : u.kind = "sampler"
        BY DEF Tables!UsesOf
      <4> QED BY <1>1, <1>4, <3>1, <4>1 DEF ViewRefs
    <3>2. CASE r \in Tables!UsesOf("view", tabV)'
      BY <1>1, <3>2 DEF Tables!UsesOf
    <3> QED BY <3>1, <3>2 DEF ViewRefs
  <2>2. PICK st \in ViewStages :
          r = [batch |-> open, kind |-> "view", at |-> tabV'[st]]
    BY <1>1, <2>1 DEF Tables!UsesOf
  <2>3. st \in dirtyV
    <3> SUFFICES ASSUME st \notin dirtyV PROVE FALSE
      OBVIOUS
    <3>1. tabV'[st] = tabV[st]
      BY <1>1
    <3>2. r \in Tables!UsesOf("view", tabV)
      BY <1>2, <2>2, <3>1 DEF Tables!UsesOf
    <3> QED BY <1>4, <3>2 DEF ViewRefs
  <2> QED BY <2>2, <2>3
<1>5. SamplerRefs' = SamplerRefs
  <2>1. \A u \in Tables!UsesOf("sampler", tabS) : u.kind = "sampler"
    BY DEF Tables!UsesOf
  <2>2. Tables!UsesOf("sampler", tabS)' = Tables!UsesOf("sampler", tabS)
    BY <1>1 DEF Tables!UsesOf
  <2>3. \A u : u \in SamplerRefs' <=> u \in SamplerRefs
    BY <1>1, <1>3, <2>1, <2>2 DEF SamplerRefs
  <2> QED BY <2>3
<1>6. UsesKnown'
  <2>1. \A u \in Tables!UsesOf("sampler", tabS) :
          u \in Reads /\ done < u.batch /\ u.batch <= open
    BY RefFacts DEF SamplerRefs
  <2>2. \A u \in Tables!UsesOf("view", tabV') :
          u \in Reads /\ done < u.batch /\ u.batch <= open
    BY <1>2, <1>3
  <2>3. \A u \in uses : u \in Reads /\ done < u.batch /\ u.batch <= open
    BY DEF TableInv, UsesKnown
  <2>4. \A u \in uses' : u \in Reads /\ done < u.batch /\ u.batch <= open
    BY <1>1, <2>1, <2>2, <2>3
  <2> QED BY <1>1, <1>2, <2>4 DEF UsesKnown
<1>7. HeapsPlaced(localS, SamplerRefs, open)'
  BY <1>1, <1>5 DEF TableInv, HeapsPlaced, InTurn
<1>8. GlobalWritten' /\ MapWritten' /\ Tables!SamplerTablesExact'
  BY <1>1, <1>5
  DEF TableInv, GlobalWritten, MapWritten, Tables!SamplerTablesExact
<1> QED BY <1>4, <1>6, <1>7, <1>8

\* The views a draw writes, and the rest of the tables.
LEMMA DrawnTables ==
  ASSUME TableInv, NEW base \in Nat, Tables!SetViewsAndDraw(base)
  PROVE  /\ Cardinality(dirtyV) \in Nat
         /\ \A st \in dirtyV :
              /\ tabV'[st].heap = setV
              /\ tabV'[st].slot \in base + 1 .. base + Cardinality(dirtyV)
              /\ tabV'[st] = [heap |-> setV, slot |-> tabV'[st].slot]
         /\ \A st \in ViewStages \ dirtyV : tabV'[st] = tabV[st]
         /\ DOMAIN tabV' = ViewStages
         /\ tabV' = [st \in ViewStages |-> tabV'[st]]
<1>1. /\ tabV' = [st \in ViewStages |->
                    IF st \in dirtyV
                    THEN Tables!At(Tables!CurrentViewHeap,
                                   base + Tables!Rank(st, dirtyV))
                    ELSE tabV[st]]
  BY DEF Tables!SetViewsAndDraw
<1>2. dirtyV \in SUBSET ViewStages /\ setV = Tables!CurrentViewHeap
  BY InvFacts DEF TableInv, CurrentSet
<1>3. dirtyV \in SUBSET Nat /\ IsFiniteSet(dirtyV)
  BY <1>2, TableFacts, FS_Subset
<1>4. Cardinality(dirtyV) \in Nat
      /\ \A st \in dirtyV : Tables!Rank(st, dirtyV) \in 1 .. Cardinality(dirtyV)
  BY <1>3, RankFacts
<1>5. ASSUME NEW st \in dirtyV
      PROVE  /\ tabV'[st].heap = setV
             /\ tabV'[st].slot \in base + 1 .. base + Cardinality(dirtyV)
             /\ tabV'[st] = [heap |-> setV, slot |-> tabV'[st].slot]
  <2>1. tabV'[st] = [heap |-> setV, slot |-> base + Tables!Rank(st, dirtyV)]
    BY <1>1, <1>2 DEF Tables!At
  <2>2. base + Tables!Rank(st, dirtyV) \in base + 1 .. base + Cardinality(dirtyV)
    BY <1>4
  <2> QED BY <2>1, <2>2
<1>6. /\ \A st \in ViewStages \ dirtyV : tabV'[st] = tabV[st]
      /\ DOMAIN tabV' = ViewStages /\ tabV' = [st \in ViewStages |-> tabV'[st]]
  BY <1>1
<1> QED BY <1>4, <1>5, <1>6

\* After a draw all views are set, in the heap that is current.
LEMMA DrawnClean ==
  ASSUME TableInv, NEW base \in Nat, Tables!SetViewsAndDraw(base)
  PROVE  Tables!CleanTablesValid'
<1>1. /\ UNCHANGED <<sampler, dirtyS, tabS, setV, setS, memS>>
  BY DEF Tables!SetViewsAndDraw, Tables!boundVars
<1>2. Tables!CleanTablesValid /\ setV # 0
  BY SetFacts, SlotFacts DEF TableInv
<1>3. ASSUME NEW st \in ViewStages
      PROVE  tabV'[st] # Tables!NoTable /\ tabV'[st].heap = setV'
  <2>1. CASE st \in dirtyV
    <3>1. tabV'[st].heap = setV
      BY <2>1, DrawnTables
    <3> QED BY <1>1, <1>2, <3>1, SlotFacts
  <2>2. CASE st \notin dirtyV
    <3>1. tabV'[st] = tabV[st]
      BY <2>2, DrawnTables
    <3> QED BY <1>1, <1>2, <2>2, <3>1 DEF Tables!CleanTablesValid
  <2> QED BY <2>1, <2>2
<1> QED BY <1>1, <1>2, <1>3 DEF Tables!CleanTablesValid

LEMMA DrawOnBlockStep ==
  ASSUME TableInv, Tables!DrawOnBlock
  PROVE  /\ TableInv'
         /\ \A st \in dirtyV, u \in uses : u.kind = "view" => u.at # tabV'[st]
<1> DEFINE base == BlockStart(block) + used
<1>1. /\ onBlocks /\ Tables!SetViewsAndDraw((block - 1) * BlockSize + used)
      /\ Tables!CanReserveSlots(used, Cardinality(dirtyV), BlockSize)
      /\ used' = used + Cardinality(dirtyV) /\ localV' = localV
  BY SameCardinality DEF Tables!DrawOnBlock
<1>2. /\ UNCHANGED <<open, done, inFrame, sampler, dirtyS, tabS, setV, setS>>
      /\ UNCHANGED <<onBlocks, block, blockPool, localS, memS, samplerMap>>
      /\ UNCHANGED <<onGlobal, localSet, unique, globalSet, globalDirty>>
      /\ dirtyV' = {} /\ pc' = "idle"
  BY <1>1 DEF Tables!SetViewsAndDraw, Tables!queueVars, Tables!boundVars,
     Tables!globalVars
<1>3. /\ block \in 1 .. Blocks /\ used \in 0 .. BlockSize /\ BlockSize \in Nat
      /\ BlockStart(block) \in Nat /\ base \in Nat
      /\ BlockStart(block) + BlockSize <= Blocks * BlockSize
      /\ open \in Nat
  <2>1. block \in 1 .. Blocks /\ used \in 0 .. BlockSize /\ open \in Nat
    BY InvFacts
  <2>2. /\ BlockStart(block) \in Nat
        /\ BlockStart(block) + BlockSize <= Blocks * BlockSize
    BY <2>1, BlockSlots
  <2>3. BlockSize \in Nat
    BY TableFacts
  <2> QED BY <2>1, <2>2, <2>3
<1>4. Tables!SetViewsAndDraw(base)
  BY <1>1 DEF BlockStart
<1>5. setV = Tables!Shared /\ localV = Tables!NoHeap /\ BlocksPlaced
  BY <1>1, SetFacts
<1>6. Cardinality(dirtyV) \in Nat /\ used + Cardinality(dirtyV) <= BlockSize
  BY <1>1, <1>3, <1>4, DrawnTables DEF Tables!CanReserveSlots
<1> HIDE DEF base
<1>7. ASSUME NEW st \in dirtyV
      PROVE  /\ tabV'[st].heap = Tables!Shared
             /\ tabV'[st].slot \in base + 1 .. base + Cardinality(dirtyV)
             /\ tabV'[st] = [heap |-> Tables!Shared, slot |-> tabV'[st].slot]
  BY <1>3, <1>4, <1>5, DrawnTables
<1>8. \A st \in dirtyV :
        /\ tabV'[st].slot \in Nat /\ InBlock(tabV'[st].slot, block)
        /\ BlockStart(block) + used < tabV'[st].slot
        /\ tabV'[st].slot <= BlockStart(block) + used'
        /\ tabV'[st].slot \in 1 .. Blocks * BlockSize
  <2> SUFFICES ASSUME NEW st \in dirtyV, NEW n, n = tabV'[st].slot
               PROVE  /\ n \in Nat /\ InBlock(n, block)
                      /\ BlockStart(block) + used < n
                      /\ n <= BlockStart(block) + used'
                      /\ n \in 1 .. Blocks * BlockSize
    OBVIOUS
  <2>1. n \in base + 1 .. base + Cardinality(dirtyV)
    BY <1>7
  <2>2. base = BlockStart(block) + used
    BY DEF base
  <2>3. PICK s, top : s = BlockStart(block) /\ top = Blocks * BlockSize
    OBVIOUS
  <2>4. top \in Nat
    BY <2>3, TableFacts
  <2>5. /\ n \in Nat /\ s < n /\ n <= s + BlockSize /\ s + used < n
        /\ n <= s + used' /\ n \in 1 .. top
    BY <1>1, <1>3, <1>6, <2>1, <2>2, <2>3, <2>4
  <2> QED BY <2>3, <2>5 DEF InBlock
<1>9. tabV' \in [ViewStages -> Tables!ViewSlots \cup {Tables!NoTable}]
  <2>1. ASSUME NEW st \in ViewStages
        PROVE  tabV'[st] \in Tables!ViewSlots \cup {Tables!NoTable}
    <3>1. CASE st \in dirtyV
      <4>1. PICK n : n = tabV'[st].slot
        OBVIOUS
      <4>2. tabV'[st] = [heap |-> Tables!Shared, slot |-> n]
            /\ n \in 1 .. Blocks * BlockSize
        BY <1>7, <1>8, <3>1, <4>1
      <4> QED BY <4>2 DEF Tables!ViewSlots
    <3>2. CASE st \notin dirtyV
      <4>1. tabV'[st] = tabV[st]
        BY <1>3, <1>4, <3>2, DrawnTables
      <4> QED BY <4>1, InvFacts
    <3> QED BY <3>1, <3>2
  <2>2. tabV' = [st \in ViewStages |-> tabV'[st]]
    BY <1>3, <1>4, DrawnTables
  <2> QED BY <2>1, <2>2
<1>10. /\ \A r \in ViewRefs' :
            r \in ViewRefs \/ \E st \in dirtyV : r.at = tabV'[st] /\ r.batch = open
       /\ UsesKnown' /\ HeapsPlaced(localS, SamplerRefs, open)'
       /\ GlobalWritten' /\ MapWritten' /\ Tables!SamplerTablesExact'
  BY <1>4, <1>9, DrawKeeps
<1>11. Tables!CleanTablesValid'
  BY <1>3, <1>4, DrawnClean
<1>12. Tables!TypeOK'
  <2>1. used' \in 0 .. BlockSize
    BY <1>1, <1>3, <1>6
  <2> QED BY <1>1, <1>2, <1>9, <2>1 DEF TableInv, Tables!TypeOK
<1>13. ASSUME NEW r \in ViewRefs', r.at # Tables!NoTable
       PROVE  /\ r.at.heap = Tables!Shared
              /\ \/ /\ InBlock(r.at.slot, block)
                    /\ r.at.slot <= BlockStart(block) + used'
                 \/ \E i \in 1 .. Len(blockPool) :
                      /\ InBlock(r.at.slot, blockPool[i].block)
                      /\ r.batch <= blockPool[i].sync
  <2>1. CASE r \in ViewRefs
    <3>1. r.at.slot \in Nat
      BY <2>1, RefFacts DEF Reads
    <3>2. /\ r.at.heap = Tables!Shared
          /\ \/ /\ InBlock(r.at.slot, block)
                /\ r.at.slot <= BlockStart(block) + used
             \/ \E i \in 1 .. Len(blockPool) :
                  /\ InBlock(r.at.slot, blockPool[i].block)
                  /\ r.batch <= blockPool[i].sync
      BY <1>5, <1>13, <2>1 DEF BlocksPlaced
    <3>3. r.at.slot <= BlockStart(block) + used
            => r.at.slot <= BlockStart(block) + used'
      BY <1>1, <1>3, <1>6, <3>1
    <3> QED BY <3>2, <3>3
  <2>2. CASE r \notin ViewRefs
    <3>1. PICK st \in dirtyV : r.at = tabV'[st]
      BY <1>10, <2>2
    <3> QED BY <1>7, <1>8, <3>1
  <2> QED BY <2>1, <2>2
<1>14. BlocksPlaced'
  BY <1>2, <1>5, <1>13 DEF BlocksPlaced, InTurn, InBlock, BlockStart
<1>15. ViewsPlaced' /\ CurrentSet' /\ Tables!BlocksInOnePlace'
  BY <1>1, <1>2, <1>5, <1>14
  DEF TableInv, ViewsPlaced, Tables!NoHeap, CurrentSet, Tables!CurrentViewHeap,
      Tables!CurrentSamplerHeap, Tables!BlocksInOnePlace
<1>16. ASSUME NEW st \in dirtyV, NEW u \in uses, u.kind = "view",
              u.at = tabV'[st]
       PROVE  FALSE
  <2>1. u \in ViewRefs /\ u.at # Tables!NoTable
    <3>1. u.at.heap = Tables!Shared
      BY <1>7, <1>16
    <3>2. Tables!NoTable.heap # Tables!Shared
      BY SlotFacts
    <3> QED BY <1>16, <3>1, <3>2 DEF ViewRefs
  <2>2. CASE /\ InBlock(u.at.slot, block)
             /\ u.at.slot <= BlockStart(block) + used
    <3>1. u.at.slot \in Nat /\ BlockStart(block) + used < u.at.slot
      BY <1>8, <1>16
    <3> QED BY <1>3, <2>2, <3>1
  <2>3. CASE \E i \in 1 .. Len(blockPool) : InBlock(u.at.slot, blockPool[i].block)
    <3>1. PICK i \in 1 .. Len(blockPool) : InBlock(u.at.slot, blockPool[i].block)
      BY <2>3
    <3>2. blockPool[i].block # block /\ blockPool[i].block \in 1 .. Blocks
      BY <1>5, BlockFacts DEF BlocksPlaced
    <3>3. u.at.slot \in Nat /\ InBlock(u.at.slot, block)
      BY <1>8, <1>16
    <3> QED BY <1>3, <3>1, <3>2, <3>3, BlockSlots
  <2> QED BY <1>5, <2>1, <2>2, <2>3 DEF BlocksPlaced
<1> QED BY <1>10, <1>11, <1>12, <1>15, <1>16 DEF TableInv

LEMMA DrawOnLocalHeapStep ==
  ASSUME TableInv, Tables!DrawOnLocalHeap
  PROVE  /\ TableInv'
         /\ \A st \in dirtyV, u \in uses : u.kind = "view" => u.at # tabV'[st]
         /\ localV'.made = localV.made
<1>1. /\ ~ onBlocks /\ Tables!SetViewsAndDraw(localV.next)
      /\ Tables!CanReserveSlots(localV.next, Cardinality(dirtyV), LocalSize)
      /\ localV' = Taken(localV, Cardinality(dirtyV)) /\ used' = used
  BY SameCardinality DEF Tables!DrawOnLocalHeap, Taken
<1>2. /\ UNCHANGED <<open, done, inFrame, sampler, dirtyS, tabS, setV, setS>>
      /\ UNCHANGED <<onBlocks, block, blockPool, localS, memS, samplerMap>>
      /\ UNCHANGED <<onGlobal, localSet, unique, globalSet, globalDirty>>
      /\ dirtyV' = {} /\ pc' = "idle"
  BY <1>1 DEF Tables!SetViewsAndDraw, Tables!queueVars, Tables!boundVars,
     Tables!globalVars
<1>3. /\ localV \in Tables!LocalHeap /\ localV.next \in 0 .. LocalSize
      /\ LocalSize \in Nat /\ open \in Nat
  BY InvFacts, HeapFields, TableFacts
<1>4. /\ setV = localV.heap /\ localV.heap \in Tables!Locals
      /\ HeapsPlaced(localV, ViewRefs, open)
  BY <1>1, SetFacts
<1>5. localV.next \in Nat
  BY <1>3
<1>6. Cardinality(dirtyV) \in Nat
      /\ localV.next + Cardinality(dirtyV) <= LocalSize
  BY <1>1, <1>5, DrawnTables DEF Tables!CanReserveSlots
<1>7. ASSUME NEW st \in dirtyV
      PROVE  /\ tabV'[st].heap = localV.heap
             /\ tabV'[st].slot \in localV.next + 1
                                     .. localV.next + Cardinality(dirtyV)
             /\ tabV'[st] = [heap |-> localV.heap, slot |-> tabV'[st].slot]
  BY <1>1, <1>4, <1>5, DrawnTables
<1>8. \A st \in dirtyV :
        /\ tabV'[st].slot \in 1 .. LocalSize /\ localV.next < tabV'[st].slot
        /\ tabV'[st].slot <= localV.next + Cardinality(dirtyV)
  <2> SUFFICES ASSUME NEW st \in dirtyV, NEW n, n = tabV'[st].slot
               PROVE  /\ n \in 1 .. LocalSize /\ localV.next < n
                      /\ n <= localV.next + Cardinality(dirtyV)
    OBVIOUS
  <2>1. n \in localV.next + 1 .. localV.next + Cardinality(dirtyV)
    BY <1>7
  <2> QED BY <1>3, <1>5, <1>6, <2>1
<1>9. tabV' \in [ViewStages -> Tables!ViewSlots \cup {Tables!NoTable}]
  <2>1. ASSUME NEW st \in ViewStages
        PROVE  tabV'[st] \in Tables!ViewSlots \cup {Tables!NoTable}
    <3>1. CASE st \in dirtyV
      <4>1. PICK n : n = tabV'[st].slot
        OBVIOUS
      <4>2. tabV'[st] = [heap |-> localV.heap, slot |-> n] /\ n \in 1 .. LocalSize
        BY <1>7, <1>8, <3>1, <4>1
      <4> QED BY <1>4, <4>2 DEF Tables!ViewSlots
    <3>2. CASE st \notin dirtyV
      <4>1. tabV'[st] = tabV[st]
        BY <1>1, <1>5, <3>2, DrawnTables
      <4> QED BY <4>1, InvFacts
    <3> QED BY <3>1, <3>2
  <2>2. tabV' = [st \in ViewStages |-> tabV'[st]]
    BY <1>1, <1>5, DrawnTables
  <2> QED BY <2>1, <2>2
<1>10. /\ \A r \in ViewRefs' :
            r \in ViewRefs \/ \E st \in dirtyV : r.at = tabV'[st] /\ r.batch = open
       /\ UsesKnown' /\ HeapsPlaced(localS, SamplerRefs, open)'
       /\ GlobalWritten' /\ MapWritten' /\ Tables!SamplerTablesExact'
  BY <1>1, <1>9, DrawKeeps
<1>11. Tables!CleanTablesValid'
  BY <1>1, <1>5, DrawnClean
<1>12. PICK refs2 : refs2 = ViewRefs'
  OBVIOUS
<1>13. /\ localV' \in Tables!LocalHeap /\ localV'.heap = localV.heap
       /\ localV'.made = localV.made
       /\ HeapsPlaced(localV', refs2, open)
  <2>1. \A r \in ViewRefs : r.at.slot \in Nat
    BY RefFacts DEF Reads
  <2>2. \A r \in refs2 :
          \/ r \in ViewRefs
          \/ /\ r.at.heap = localV.heap
             /\ r.at.slot <= localV.next + Cardinality(dirtyV)
    BY <1>7, <1>8, <1>10, <1>12
  <2> QED BY <1>1, <1>3, <1>4, <1>6, <2>1, <2>2, PlacedTaken
<1>14. Tables!TypeOK'
  BY <1>1, <1>2, <1>9, <1>13 DEF TableInv, Tables!TypeOK
<1>15. ViewsPlaced'
  <2>1. HeapsPlaced(localV, ViewRefs, open)'
    BY <1>2, <1>12, <1>13 DEF HeapsPlaced, InTurn
  <2> QED BY <1>1, <1>2, <2>1 DEF ViewsPlaced
<1>16. CurrentSet' /\ Tables!BlocksInOnePlace'
  BY <1>1, <1>2, <1>13
  DEF TableInv, CurrentSet, Tables!CurrentViewHeap, Tables!CurrentSamplerHeap,
      Tables!BlocksInOnePlace
<1>17. ASSUME NEW st \in dirtyV, NEW u \in uses, u.kind = "view",
              u.at = tabV'[st]
       PROVE  FALSE
  <2>1. u \in ViewRefs /\ u.at.heap = localV.heap
    BY <1>7, <1>17 DEF ViewRefs
  <2>2. u.at.slot <= localV.next
    BY <1>3, <1>4, <2>1, NextSlotsFree
  <2>3. u.at.slot \in Nat /\ localV.next < u.at.slot
    BY <1>3, <1>8, <1>17
  <2> QED BY <1>5, <2>2, <2>3
<1> QED BY <1>10, <1>11, <1>13, <1>14, <1>15, <1>16, <1>17 DEF TableInv

-----------------------------------------------------------------------------
(* Sampler tables in a local heap                                          *)

LEMMA NatMinimum ==
  ASSUME NEW S \in SUBSET Nat, S # {}
  PROVE  \E n \in S : \A m \in S : n <= m
<1>1. IsWellFoundedOn(OpToRel(<, Nat), Nat)
  BY NatLessThanWellFounded
<1>2. PICK n \in S : \A m \in S : ~ (<<m, n>> \in OpToRel(<, Nat))
  BY <1>1, WFMin
<1>3. n \in Nat /\ \A m \in S : m \in Nat /\ ~ (m < n)
  BY <1>2 DEF OpToRel
<1> QED BY <1>3

\* What SetSamplers writes: for each sampler that has no table in the heap, the
\* first stage that uses it, and the slots it takes.
FirstStages ==
  {st \in dirtyS : /\ sampler[st] \notin DOMAIN samplerMap
                   /\ \A t \in dirtyS : t < st => sampler[t] # sampler[st]}
FreshSamplers == {sampler[st] : st \in FirstStages}
SlotOf(k) ==
  IF k \in DOMAIN samplerMap THEN samplerMap[k]
  ELSE localS.next + Tables!Rank(CHOOSE st \in FirstStages : sampler[st] = k,
                                 FirstStages)

LEMMA FirstFacts ==
  ASSUME TableInv
  PROVE  /\ FirstStages \in SUBSET Nat /\ IsFiniteSet(FirstStages)
         /\ IsFiniteSet(dirtyS) /\ Cardinality(dirtyS) \in Nat
         /\ Cardinality(FirstStages) \in Nat
         /\ Cardinality(FirstStages) <= Cardinality(dirtyS)
         /\ \A st \in dirtyS :
              sampler[st] \in DOMAIN samplerMap \cup FreshSamplers
         /\ FreshSamplers \subseteq Samplers /\ IsFiniteSet(FreshSamplers)
         /\ FreshSamplers \cap DOMAIN samplerMap = {}
<1>1. /\ dirtyS \subseteq SamplerStages /\ SamplerStages \in SUBSET Nat
      /\ IsFiniteSet(SamplerStages) /\ sampler \in [SamplerStages -> Samplers]
  BY InvFacts, TableFacts
<1>2. FirstStages \in SUBSET dirtyS
  BY DEF FirstStages
<1>3. IsFiniteSet(dirtyS)
  BY <1>1, FS_Subset
<1>4. /\ IsFiniteSet(FirstStages)
      /\ Cardinality(FirstStages) <= Cardinality(dirtyS)
  BY <1>2, <1>3, FS_Subset
<1>5. Cardinality(dirtyS) \in Nat /\ Cardinality(FirstStages) \in Nat
  BY <1>3, <1>4, FS_CardinalityType
<1>6. ASSUME NEW st \in dirtyS
      PROVE  sampler[st] \in DOMAIN samplerMap \cup FreshSamplers
  <2>1. PICK same : same = {t \in dirtyS : sampler[t] = sampler[st]}
    OBVIOUS
  <2>2. same \in SUBSET Nat /\ same # {}
    BY <1>1, <2>1
  <2>3. PICK f \in same : \A m \in same : f <= m
    BY <2>2, NatMinimum
  <2>4. \A t \in dirtyS : t < f => sampler[t] # sampler[f]
    BY <1>1, <2>1, <2>3
  <2>5. CASE sampler[st] \notin DOMAIN samplerMap
    <3>1. f \in FirstStages
      BY <2>1, <2>3, <2>4, <2>5 DEF FirstStages
    <3> QED BY <2>1, <3>1 DEF FreshSamplers
  <2> QED BY <2>5
<1>7. FreshSamplers \subseteq Samplers /\ FreshSamplers \cap DOMAIN samplerMap = {}
  BY <1>1, <1>2 DEF FreshSamplers, FirstStages
<1>8. IsFiniteSet(FreshSamplers)
  <2>1. PICK f : f = [st \in FirstStages |-> sampler[st]]
    OBVIOUS
  <2>2. f \in Surjection(FirstStages, FreshSamplers)
    BY <2>1 DEF Surjection, FreshSamplers
  <2> QED BY <1>4, <2>2, FS_Surjection
<1> QED BY <1>1, <1>2, <1>3, <1>4, <1>5, <1>6, <1>7, <1>8

\* The fresh tables are in the next slots, one each.
LEMMA FreshSlots ==
  ASSUME TableInv
  PROVE  /\ \A k \in FreshSamplers :
              SlotOf(k) \in localS.next + 1
                              .. localS.next + Cardinality(FirstStages)
         /\ \A k, l \in FreshSamplers : SlotOf(k) = SlotOf(l) => k = l
         /\ \A k \in DOMAIN samplerMap : SlotOf(k) = samplerMap[k]
<1> DEFINE at(k) == CHOOSE st \in FirstStages : sampler[st] = k
<1>1. \A k \in FreshSamplers : at(k) \in FirstStages /\ sampler[at(k)] = k
  BY DEF FreshSamplers
<1>2. /\ Cardinality(FirstStages) \in Nat
      /\ \A s \in FirstStages :
           Tables!Rank(s, FirstStages) \in 1 .. Cardinality(FirstStages)
      /\ \A s, t \in FirstStages :
           Tables!Rank(s, FirstStages) = Tables!Rank(t, FirstStages) => s = t
  BY FirstFacts, RankFacts
<1>3. localS.next \in Nat
  BY InvFacts, HeapFields
<1>4. \A k \in FreshSamplers :
        SlotOf(k) = localS.next + Tables!Rank(at(k), FirstStages)
  BY FirstFacts DEF SlotOf
<1>5. \A k \in DOMAIN samplerMap : SlotOf(k) = samplerMap[k]
  BY DEF SlotOf
<1> HIDE DEF at
<1>6. ASSUME NEW k \in FreshSamplers
      PROVE  SlotOf(k) \in localS.next + 1
                             .. localS.next + Cardinality(FirstStages)
  <2>1. Tables!Rank(at(k), FirstStages) \in 1 .. Cardinality(FirstStages)
    BY <1>1, <1>2
  <2> QED BY <1>2, <1>3, <1>4, <2>1
<1>7. ASSUME NEW k \in FreshSamplers, NEW l \in FreshSamplers,
             SlotOf(k) = SlotOf(l)
      PROVE  k = l
  <2>1. /\ Tables!Rank(at(k), FirstStages) \in 1 .. Cardinality(FirstStages)
        /\ Tables!Rank(at(l), FirstStages) \in 1 .. Cardinality(FirstStages)
    BY <1>1, <1>2
  <2>2. Tables!Rank(at(k), FirstStages) = Tables!Rank(at(l), FirstStages)
    BY <1>2, <1>3, <1>4, <1>7, <2>1
  <2>3. at(k) = at(l)
    BY <1>1, <1>2, <2>2
  <2> QED BY <1>1, <2>3
<1> QED BY <1>5, <1>6, <1>7

LEMMA SetSamplersAction ==
  ASSUME TableInv, Tables!SetSamplers
  PROVE  /\ ~ onGlobal
         /\ localS.next + Cardinality(dirtyS) <= LocalSize
         /\ memS' = [p \in Tables!SamplerSlots |->
                       IF /\ p.heap = localS.heap
                          /\ \E k \in FreshSamplers : SlotOf(k) = p.slot
                       THEN CHOOSE k \in FreshSamplers : SlotOf(k) = p.slot
                       ELSE memS[p]]
         /\ samplerMap' = [k \in DOMAIN samplerMap \cup FreshSamplers |->
                             SlotOf(k)]
         /\ unique' = unique \cup FreshSamplers
         /\ localS' = Taken(localS, Cardinality(FirstStages))
         /\ tabS' = [st \in SamplerStages |->
                       IF st \in dirtyS
                       THEN Tables!At(localS.heap, SlotOf(sampler[st]))
                       ELSE tabS[st]]
         /\ dirtyS' = {} /\ pc' = "views"
BY SameCardinality
   DEF Tables!SetSamplers, Tables!CanReserveSlots, FirstStages, FreshSamplers,
       SlotOf, Taken

\* The fresh slots hold the fresh samplers, and no other slot changes.
LEMMA SamplersWritten ==
  ASSUME TableInv, Tables!SetSamplers
  PROVE  /\ memS' \in [Tables!SamplerSlots -> Samplers \cup {Garbage}]
         /\ \A k \in FreshSamplers :
              /\ Tables!At(localS.heap, SlotOf(k)) \in Tables!SamplerSlots
              /\ memS'[Tables!At(localS.heap, SlotOf(k))] = k
         /\ \A p \in Tables!SamplerSlots :
              p.heap # localS.heap \/ p.slot <= localS.next
                => memS'[p] = memS[p]
<1>1. memS' = [p \in Tables!SamplerSlots |->
                 IF /\ p.heap = localS.heap
                    /\ \E k \in FreshSamplers : SlotOf(k) = p.slot
                 THEN CHOOSE k \in FreshSamplers : SlotOf(k) = p.slot
                 ELSE memS[p]]
  BY SetSamplersAction
<1>2. /\ \A k \in FreshSamplers :
           SlotOf(k) \in localS.next + 1
                           .. localS.next + Cardinality(FirstStages)
      /\ \A k, l \in FreshSamplers : SlotOf(k) = SlotOf(l) => k = l
  BY FreshSlots
<1>3. /\ localS.next \in Nat /\ LocalSize \in Nat
      /\ Cardinality(FirstStages) \in Nat
      /\ localS.next + Cardinality(FirstStages) <= LocalSize
  <2>1. localS.next \in Nat /\ LocalSize \in Nat
    BY InvFacts, HeapFields, TableFacts
  <2>2. /\ Cardinality(FirstStages) \in Nat /\ Cardinality(dirtyS) \in Nat
        /\ Cardinality(FirstStages) <= Cardinality(dirtyS)
    BY FirstFacts
  <2>3. localS.next + Cardinality(dirtyS) <= LocalSize
    BY SetSamplersAction
  <2> QED BY <2>1, <2>2, <2>3
<1>4. /\ FreshSamplers \subseteq Samplers /\ localS.heap \in Tables!Locals
      /\ memS \in [Tables!SamplerSlots -> Samplers \cup {Garbage}]
  BY FirstFacts, SetFacts, InvFacts
<1>5. ASSUME NEW k \in FreshSamplers
      PROVE  /\ Tables!At(localS.heap, SlotOf(k)) \in Tables!SamplerSlots
             /\ memS'[Tables!At(localS.heap, SlotOf(k))] = k
  <2>1. SlotOf(k) \in 1 .. LocalSize
    BY <1>2, <1>3
  <2>2. PICK p : p = Tables!At(localS.heap, SlotOf(k))
    OBVIOUS
  <2>3. p.heap = localS.heap /\ p.slot = SlotOf(k) /\ p \in Tables!SamplerSlots
    BY <1>4, <2>1, <2>2 DEF Tables!At, Tables!SamplerSlots
  <2>4. (CHOOSE l \in FreshSamplers : SlotOf(l) = p.slot) = k
    BY <1>2, <2>3
  <2> QED BY <1>1, <2>2, <2>3, <2>4
<1>6. \A p \in Tables!SamplerSlots :
        p.heap # localS.heap \/ p.slot <= localS.next => memS'[p] = memS[p]
  <2> SUFFICES ASSUME NEW p \in Tables!SamplerSlots,
                      p.heap # localS.heap \/ p.slot <= localS.next
               PROVE  memS'[p] = memS[p]
    OBVIOUS
  <2>1. p.slot \in Nat
    BY SlotFacts
  <2>2. p.heap # localS.heap \/ \A k \in FreshSamplers : SlotOf(k) # p.slot
    BY <1>2, <1>3, <2>1
  <2> QED BY <1>1, <2>2
<1>7. memS' \in [Tables!SamplerSlots -> Samplers \cup {Garbage}]
  <2>1. \A p : (\E k \in FreshSamplers : SlotOf(k) = p.slot)
                 => (CHOOSE k \in FreshSamplers : SlotOf(k) = p.slot) \in Samplers
    BY <1>4
  <2> QED BY <1>1, <1>4, <2>1
<1> QED BY <1>5, <1>6, <1>7

LEMMA SetSamplersStep ==
  ASSUME TableInv, Tables!SetSamplers
  PROVE  /\ TableInv'
         /\ localS'.made = localS.made
         /\ \A u \in uses : u.kind = "sampler" /\ u.at \in Tables!SamplerSlots
                              => memS'[u.at] = memS[u.at]
<1>1. /\ UNCHANGED <<open, done, inFrame, sampler, dirtyV, tabV, setV, setS>>
      /\ UNCHANGED <<onBlocks, block, used, blockPool, localV>>
      /\ UNCHANGED <<onGlobal, localSet, globalSet, globalDirty, uses>>
      /\ dirtyS' = {} /\ pc' = "views"
  BY DEF Tables!SetSamplers, Tables!queueVars, Tables!boundVars, Tables!blockVars
<1>2. /\ ~ onGlobal
      /\ samplerMap' = [k \in DOMAIN samplerMap \cup FreshSamplers |-> SlotOf(k)]
      /\ unique' = unique \cup FreshSamplers
      /\ localS' = Taken(localS, Cardinality(FirstStages))
      /\ tabS' = [st \in SamplerStages |->
                    IF st \in dirtyS
                    THEN Tables!At(localS.heap, SlotOf(sampler[st]))
                    ELSE tabS[st]]
  BY SetSamplersAction
<1>3. /\ localS \in Tables!LocalHeap /\ open \in Nat /\ open <= open
      /\ dirtyS \subseteq SamplerStages /\ unique \subseteq Samplers
      /\ tabS \in [SamplerStages -> Tables!SamplerSlots \cup {Tables!NoTable}]
      /\ localS.next \in Nat /\ LocalSize \in Nat
  BY InvFacts, HeapFields, TableFacts
<1>4. setS = localS.heap /\ localS.heap \in Tables!Locals
      /\ localS.heap # Tables!Shared
  BY <1>2, SetFacts
<1>5. /\ Cardinality(FirstStages) \in Nat
      /\ localS.next + Cardinality(FirstStages) <= LocalSize
      /\ \A st \in dirtyS : sampler[st] \in DOMAIN samplerMap \cup FreshSamplers
      /\ FreshSamplers \subseteq Samplers /\ IsFiniteSet(FreshSamplers)
  <2>1. /\ Cardinality(FirstStages) \in Nat /\ Cardinality(dirtyS) \in Nat
        /\ Cardinality(FirstStages) <= Cardinality(dirtyS)
    BY FirstFacts
  <2>2. localS.next + Cardinality(dirtyS) <= LocalSize
    BY SetSamplersAction
  <2>3. localS.next + Cardinality(FirstStages) <= LocalSize
    BY <1>3, <2>1, <2>2
  <2> QED BY <2>1, <2>3, FirstFacts
<1>6. /\ MapWritten /\ Tables!SamplerTablesExact /\ GlobalWritten
      /\ Tables!CleanTablesValid /\ HeapsPlaced(localS, SamplerRefs, open)
  BY DEF TableInv
<1>7. ASSUME NEW k \in DOMAIN samplerMap
      PROVE  /\ SlotOf(k) = samplerMap[k]
             /\ SlotOf(k) \in 1 .. localS.next
             /\ Tables!At(localS.heap, SlotOf(k)) \in Tables!SamplerSlots
             /\ memS'[Tables!At(localS.heap, SlotOf(k))] = k
  <2>1. SlotOf(k) = samplerMap[k] /\ SlotOf(k) \in 1 .. localS.next
    BY <1>6, FreshSlots DEF MapWritten
  <2>2. SlotOf(k) \in 1 .. LocalSize /\ SlotOf(k) <= localS.next
    BY <1>3, <1>5, <2>1
  <2>3. PICK p : p = Tables!At(localS.heap, SlotOf(k))
    OBVIOUS
  <2>4. p.slot <= localS.next /\ p \in Tables!SamplerSlots
    BY <1>4, <2>2, <2>3 DEF Tables!At, Tables!SamplerSlots
  <2>5. memS[p] = k
    BY <1>4, <1>6, <2>1, <2>3 DEF Tables!SamplerTablesExact
  <2>6. memS'[p] = memS[p]
    BY <2>4, SamplersWritten
  <2> QED BY <2>1, <2>3, <2>4, <2>5, <2>6
<1>8. ASSUME NEW k \in FreshSamplers
      PROVE  /\ SlotOf(k) \in 1 .. localS.next + Cardinality(FirstStages)
             /\ Tables!At(localS.heap, SlotOf(k)) \in Tables!SamplerSlots
             /\ memS'[Tables!At(localS.heap, SlotOf(k))] = k
  <2>1. SlotOf(k) \in localS.next + 1 .. localS.next + Cardinality(FirstStages)
    BY FreshSlots
  <2> QED BY <1>3, <1>5, <2>1, SamplersWritten
<1>9. ASSUME NEW st \in dirtyS
      PROVE  /\ tabS'[st] \in Tables!SamplerSlots
             /\ tabS'[st].heap = localS.heap
             /\ tabS'[st].slot <= localS.next + Cardinality(FirstStages)
             /\ memS'[tabS'[st]] = sampler[st]
  <2>1. PICK k : k = sampler[st]
    OBVIOUS
  <2>2. tabS'[st] = Tables!At(localS.heap, SlotOf(k))
    BY <1>2, <1>3, <2>1
  <2>3. tabS'[st].heap = localS.heap /\ tabS'[st].slot = SlotOf(k)
    BY <2>2 DEF Tables!At
  <2>4. CASE k \in DOMAIN samplerMap
    <3>1. SlotOf(k) <= localS.next + Cardinality(FirstStages)
      BY <1>3, <1>5, <1>7, <2>4
    <3> QED BY <1>7, <2>1, <2>2, <2>3, <2>4, <3>1
  <2>5. CASE k \in FreshSamplers
    <3>1. SlotOf(k) <= localS.next + Cardinality(FirstStages)
      BY <1>3, <1>5, <1>8, <2>5
    <3> QED BY <1>8, <2>1, <2>2, <2>3, <2>5, <3>1
  <2> QED BY <1>5, <2>1, <2>4, <2>5
<1>10. ASSUME NEW st \in SamplerStages \ dirtyS
       PROVE  /\ tabS'[st] = tabS[st] /\ tabS[st] # Tables!NoTable
              /\ tabS[st].heap = localS.heap
              /\ memS'[tabS[st]] = sampler[st]
  <2>1. /\ tabS[st] # Tables!NoTable /\ tabS[st].heap = localS.heap
        /\ memS[tabS[st]] = sampler[st]
    BY <1>4, <1>6 DEF Tables!CleanTablesValid
  <2>2. PICK r : r = [batch |-> open, kind |-> "sampler", at |-> tabS[st]]
    OBVIOUS
  <2>3. r \in SamplerRefs /\ r.at = tabS[st]
    BY <1>3, <2>2 DEF SamplerRefs, Tables!UsesOf
  <2>4. tabS[st].slot <= localS.next
    BY <1>3, <1>6, <2>1, <2>3, NextSlotsFree
  <2>5. tabS[st] \in Tables!SamplerSlots
    BY <1>3, <2>1
  <2>6. memS'[tabS[st]] = memS[tabS[st]]
    BY <2>4, <2>5, SamplersWritten
  <2> QED BY <1>2, <2>1, <2>6
<1>11. tabS' \in [SamplerStages -> Tables!SamplerSlots \cup {Tables!NoTable}]
  <2>1. \A st \in SamplerStages :
          tabS'[st] \in Tables!SamplerSlots \cup {Tables!NoTable}
    BY <1>3, <1>9, <1>10
  <2> QED BY <1>2, <2>1
<1>12. ASSUME NEW r \in SamplerRefs', r \notin SamplerRefs
       PROVE  /\ r.at.heap = localS.heap
              /\ r.at.slot <= localS.next + Cardinality(FirstStages)
  <2>1. PICK st \in SamplerStages :
          r = [batch |-> open, kind |-> "sampler", at |-> tabS'[st]]
    BY <1>1, <1>11, <1>12 DEF SamplerRefs, Tables!UsesOf
  <2>2. st \in dirtyS
    <3> SUFFICES ASSUME st \notin dirtyS PROVE FALSE
      OBVIOUS
    <3>1. tabS'[st] = tabS[st]
      BY <1>10
    <3> QED BY <1>3, <1>12, <2>1, <3>1 DEF SamplerRefs, Tables!UsesOf
  <2> QED BY <1>9, <2>1, <2>2
<1>13. PICK refs2 : refs2 = SamplerRefs'
  OBVIOUS
<1>14. /\ localS' \in Tables!LocalHeap /\ localS'.heap = localS.heap
       /\ localS'.made = localS.made
       /\ localS'.next = localS.next + Cardinality(FirstStages)
       /\ HeapsPlaced(localS', refs2, open)
  <2>1. \A r \in SamplerRefs : r.at.slot \in Nat
    BY RefFacts DEF Reads
  <2>2. \A r \in refs2 :
          \/ r \in SamplerRefs
          \/ /\ r.at.heap = localS.heap
             /\ r.at.slot <= localS.next + Cardinality(FirstStages)
    BY <1>12, <1>13
  <2> QED BY <1>2, <1>3, <1>5, <1>6, <2>1, <2>2, PlacedTaken
<1>15. HeapsPlaced(localS, SamplerRefs, open)'
  BY <1>1, <1>13, <1>14 DEF HeapsPlaced, InTurn
<1>16. Tables!TypeOK'
  <2>1. unique' \subseteq Samplers
    BY <1>2, <1>3, <1>5
  <2> QED BY <1>1, <1>11, <1>14, <2>1, SamplersWritten DEF TableInv, Tables!TypeOK
<1>17. ViewsPlaced' /\ Tables!BlocksInOnePlace'
  <2>1. \A r \in ViewRefs' : r \in ViewRefs \/ r.at = Tables!NoTable
    BY <1>1, ViewRefsKept
  <2> QED BY <1>1, <1>3, <2>1, ViewsKept
<1>18. GlobalWritten'
  <2>1. IsFiniteSet(unique')
    BY <1>2, <1>5, <1>6, FS_Union DEF GlobalWritten
  <2>2. \A r \in SamplerRefs' : r.at.heap = Tables!Shared =>
           r.at.slot <= Cardinality(DOMAIN globalSet)
    BY <1>4, <1>6, <1>12 DEF GlobalWritten
  <2> QED BY <1>1, <1>6, <2>1, <2>2 DEF GlobalWritten
<1>19. MapWritten'
  <2>1. DOMAIN samplerMap' = DOMAIN samplerMap \cup FreshSamplers
    BY <1>2
  <2>2. DOMAIN samplerMap' \in SUBSET Samplers
    BY <1>5, <1>6, <2>1 DEF MapWritten
  <2>3. ASSUME NEW k \in DOMAIN samplerMap \cup FreshSamplers
        PROVE  SlotOf(k) \in 1 .. localS'.next
    <3>1. CASE k \in DOMAIN samplerMap
      BY <1>3, <1>5, <1>7, <1>14, <3>1
    <3>2. CASE k \in FreshSamplers
      BY <1>8, <1>14, <3>2
    <3> QED BY <3>1, <3>2
  <2> QED BY <1>2, <2>1, <2>2, <2>3 DEF MapWritten
<1>20. Tables!SamplerTablesExact'
  <2>1. ASSUME NEW k \in DOMAIN samplerMap'
        PROVE  /\ setS' = localS'.heap
               /\ memS'[Tables!At(setS', samplerMap'[k])] = k
    <3>1. samplerMap'[k] = SlotOf(k) /\ k \in DOMAIN samplerMap \cup FreshSamplers
      BY <1>2
    <3>2. memS'[Tables!At(localS.heap, SlotOf(k))] = k
      BY <1>7, <1>8, <3>1
    <3> QED BY <1>1, <1>4, <1>14, <3>1, <3>2
  <2>2. ASSUME NEW k \in DOMAIN globalSet
        PROVE  memS'[Tables!At(Tables!Shared, globalSet[k])] = k
    <3>1. PICK p : p = Tables!At(Tables!Shared, globalSet[k])
      OBVIOUS
    <3>2. p \in Tables!SamplerSlots /\ memS[p] = k /\ p.heap # localS.heap
      BY <1>4, <3>1, GlobalTables DEF Tables!At
    <3> QED BY <3>1, <3>2, SamplersWritten
  <2> QED BY <1>1, <1>6, <2>1, <2>2 DEF Tables!SamplerTablesExact
<1>21. Tables!CleanTablesValid'
  <2>1. ASSUME NEW st \in SamplerStages
        PROVE  /\ tabS'[st] # Tables!NoTable /\ tabS'[st].heap = setS'
               /\ memS'[tabS'[st]] = sampler'[st]
    <3>1. CASE st \in dirtyS
      BY <1>1, <1>4, <1>9, <3>1, SlotFacts
    <3>2. CASE st \notin dirtyS
      BY <1>1, <1>4, <1>10, <3>2
    <3> QED BY <3>1, <3>2
  <2> QED BY <1>1, <1>6, <2>1 DEF Tables!CleanTablesValid
<1>22. UsesKnown' /\ CurrentSet'
  BY <1>1, <1>14
  DEF TableInv, UsesKnown, CurrentSet, Tables!CurrentViewHeap,
      Tables!CurrentSamplerHeap
<1>23. ASSUME NEW u \in uses, u.kind = "sampler", u.at \in Tables!SamplerSlots
       PROVE  memS'[u.at] = memS[u.at]
  <2>1. u \in SamplerRefs
    BY <1>23 DEF SamplerRefs
  <2>2. u.at.heap = localS.heap => u.at.slot <= localS.next
    BY <1>3, <1>6, <2>1, NextSlotsFree
  <2> QED BY <1>23, <2>2, SamplersWritten
<1> QED BY <1>14, <1>15, <1>16, <1>17, <1>18, <1>19, <1>20, <1>21, <1>22, <1>23
        DEF TableInv

-----------------------------------------------------------------------------
(* The end of a frame                                                      *)

\* The tables added to the global heap are in slots nothing reads yet.
LEMMA TablesGathered ==
  ASSUME TableInv, Tables!GatherUniqueSamplerTables
  PROVE  /\ memS' \in [Tables!SamplerSlots -> Samplers \cup {Garbage}]
         /\ \A p \in Tables!SamplerSlots :
              p.heap # Tables!Shared \/ p.slot <= Cardinality(DOMAIN globalSet)
                => memS'[p] = memS[p]
         /\ unique' = {} /\ globalDirty' \in BOOLEAN
         /\ DOMAIN globalSet' \in SUBSET Samplers
         /\ IsFiniteSet(DOMAIN globalSet')
         /\ globalSet' \in [DOMAIN globalSet' ->
                              1 .. Cardinality(DOMAIN globalSet')]
         /\ Cardinality(DOMAIN globalSet') <= GlobalSize
         /\ Cardinality(DOMAIN globalSet) <= Cardinality(DOMAIN globalSet')
         /\ Cardinality(DOMAIN globalSet) \in Nat
         /\ Cardinality(DOMAIN globalSet') \in Nat
         /\ \A k \in DOMAIN globalSet :
              k \in DOMAIN globalSet' /\ globalSet'[k] = globalSet[k]
         /\ \A k \in DOMAIN globalSet' :
              memS'[Tables!At(Tables!Shared, globalSet'[k])] = k
<1> DEFINE old == DOMAIN globalSet
           base == Cardinality(old)
           added(kept, at) ==
             /\ Cardinality(kept) <= GlobalSize - base
             /\ \A k, l \in kept : at[k] = at[l] => k = l
             /\ globalSet' = [k \in old \cup kept |->
                                IF k \in kept THEN at[k] ELSE globalSet[k]]
             /\ memS' = [p \in Tables!SamplerSlots |->
                           IF p.heap = Tables!Shared
                              /\ \E k \in kept : at[k] = p.slot
                           THEN CHOOSE k \in kept : at[k] = p.slot ELSE memS[p]]
             /\ globalDirty' = (globalDirty \/ kept # {})
             /\ unique' = {}
<1>0. PICK kept \in SUBSET (unique \ old) :
        \E at \in [kept -> base + 1 .. base + Cardinality(kept)] : added(kept, at)
  BY SameCardinality, Zenon DEF Tables!GatherUniqueSamplerTables
<1>1. PICK at \in [kept -> base + 1 .. base + Cardinality(kept)] : added(kept, at)
  BY <1>0
<1>2. /\ old \in SUBSET Samplers /\ IsFiniteSet(old)
      /\ globalSet \in [old -> 1 .. base] /\ base <= GlobalSize
      /\ IsFiniteSet(unique)
  BY DEF TableInv, GlobalWritten
<1>3. /\ unique \subseteq Samplers /\ globalDirty \in BOOLEAN
      /\ memS \in [Tables!SamplerSlots -> Samplers \cup {Garbage}]
      /\ GlobalSize \in Nat
  BY InvFacts, TableFacts
<1>4. IsFiniteSet(kept) /\ kept \subseteq unique /\ kept \cap old = {}
  <2>1. kept \in SUBSET unique
    BY <1>1
  <2> QED BY <1>1, <1>2, <2>1, FS_Subset
<1>5. base \in Nat /\ Cardinality(kept) \in Nat
  BY <1>2, <1>4, FS_CardinalityType
<1>6. /\ DOMAIN globalSet' = old \cup kept /\ IsFiniteSet(old \cup kept)
      /\ Cardinality(old \cup kept) = base + Cardinality(kept)
  <2>1. Cardinality(old \cap kept) = 0
    BY <1>4, FS_EmptySet
  <2>2. DOMAIN globalSet' = old \cup kept
    BY <1>1
  <2>3. base = Cardinality(old)
    OBVIOUS
  <2> HIDE DEF base, old
  <2>4. /\ IsFiniteSet(old \cup kept)
        /\ Cardinality(old \cup kept)
             = Cardinality(old) + Cardinality(kept) - Cardinality(old \cap kept)
    BY <1>2, <1>4, FS_Union
  <2> QED BY <1>5, <2>1, <2>2, <2>3, <2>4
<1> HIDE DEF base, old
<1>7. base + Cardinality(kept) <= GlobalSize
      /\ base <= base + Cardinality(kept)
  BY <1>1, <1>3, <1>5
<1>8. ASSUME NEW k \in old \cup kept
      PROVE  globalSet'[k] \in 1 .. base + Cardinality(kept)
  <2>1. CASE k \in kept
    BY <1>1, <1>5, <2>1
  <2>2. CASE k \notin kept
    <3>1. globalSet'[k] = globalSet[k] /\ globalSet[k] \in 1 .. base
      BY <1>1, <1>2, <2>2
    <3> QED BY <1>5, <3>1
  <2> QED BY <2>1, <2>2
<1>9. globalSet' \in [old \cup kept -> 1 .. base + Cardinality(kept)]
  <2>1. globalSet' = [k \in old \cup kept |-> globalSet'[k]]
    BY <1>1
  <2> QED BY <1>8, <2>1
<1>10. \A k \in kept : at[k] \in base + 1 .. base + Cardinality(kept)
  BY <1>1
<1>11. \A p \in Tables!SamplerSlots :
         p.heap # Tables!Shared \/ p.slot <= base => memS'[p] = memS[p]
  <2> SUFFICES ASSUME NEW p \in Tables!SamplerSlots,
                      p.heap # Tables!Shared \/ p.slot <= base
               PROVE  memS'[p] = memS[p]
    OBVIOUS
  <2>1. p.slot \in Nat
    BY SlotFacts
  <2>2. p.heap # Tables!Shared \/ \A k \in kept : at[k] # p.slot
    BY <1>5, <1>10, <2>1
  <2> QED BY <1>1, <2>2
<1>12. memS' \in [Tables!SamplerSlots -> Samplers \cup {Garbage}]
  <2>1. \A p : (\E k \in kept : at[k] = p.slot)
                 => (CHOOSE k \in kept : at[k] = p.slot) \in Samplers
    BY <1>3, <1>4
  <2> QED BY <1>1, <1>3, <2>1
<1>13. ASSUME NEW k \in old \cup kept
       PROVE  memS'[Tables!At(Tables!Shared, globalSet'[k])] = k
  <2>1. CASE k \in kept
    <3>1. PICK p : p = Tables!At(Tables!Shared, at[k])
      OBVIOUS
    <3>2. at[k] \in 1 .. GlobalSize
      BY <1>3, <1>5, <1>7, <1>10, <2>1
    <3>3. /\ p.heap = Tables!Shared /\ p.slot = at[k]
          /\ p \in Tables!SamplerSlots
      BY <3>1, <3>2 DEF Tables!At, Tables!SamplerSlots
    <3>4. (CHOOSE l \in kept : at[l] = p.slot) = k
      BY <1>1, <2>1, <3>3
    <3>5. globalSet'[k] = at[k]
      BY <1>1, <2>1
    <3> QED BY <1>1, <2>1, <3>1, <3>3, <3>4, <3>5
  <2>2. CASE k \notin kept
    <3>1. k \in DOMAIN globalSet /\ globalSet'[k] = globalSet[k]
      BY <1>1, <2>2 DEF old
    <3>2. PICK p : p = Tables!At(Tables!Shared, globalSet[k])
      OBVIOUS
    <3>3. p \in Tables!SamplerSlots /\ memS[p] = k /\ p.slot <= base
      BY <3>1, <3>2, GlobalTables DEF Tables!At, base, old
    <3> QED BY <1>11, <3>1, <3>2, <3>3
  <2> QED BY <2>1, <2>2
<1>14. \A k \in old : k \in old \cup kept /\ globalSet'[k] = globalSet[k]
  BY <1>1, <1>4
<1>15. globalDirty' \in BOOLEAN /\ unique' = {}
  BY <1>1
<1>16. old \cup kept \in SUBSET Samplers
  BY <1>2, <1>3, <1>4
<1>17. old = DOMAIN globalSet /\ base = Cardinality(DOMAIN globalSet)
  BY DEF base, old
<1>18. /\ DOMAIN globalSet' \in SUBSET Samplers /\ IsFiniteSet(DOMAIN globalSet')
       /\ globalSet' \in [DOMAIN globalSet' ->
                            1 .. Cardinality(DOMAIN globalSet')]
       /\ Cardinality(DOMAIN globalSet') <= GlobalSize
       /\ base <= Cardinality(DOMAIN globalSet')
       /\ Cardinality(DOMAIN globalSet') \in Nat
  BY <1>5, <1>6, <1>7, <1>9, <1>16
<1>19. \A k \in DOMAIN globalSet' :
         memS'[Tables!At(Tables!Shared, globalSet'[k])] = k
  BY <1>6, <1>13
<1>20. \A k \in old : k \in DOMAIN globalSet' /\ globalSet'[k] = globalSet[k]
  BY <1>6, <1>14
<1> QED BY <1>5, <1>11, <1>12, <1>15, <1>17, <1>18, <1>19, <1>20

LEMMA EndTablesStep ==
  ASSUME TableInv, Tables!EndFrame
  PROVE  /\ TableInv' /\ dirtyV \subseteq dirtyV'
         /\ \A u \in uses : u.kind = "sampler" /\ u.at \in Tables!SamplerSlots
                              => memS'[u.at] = memS[u.at]
<1>1. /\ inFrame' = FALSE /\ sampler' = [st \in SamplerStages |-> NoSampler]
      /\ UNCHANGED <<pc, onBlocks, block, used, blockPool, localV, localS>>
      /\ UNCHANGED <<onGlobal, localSet, uses>>
      /\ Tables!GatherUniqueSamplerTables
  BY DEF Tables!EndFrame, Tables!blockVars, Tables!localVars
<1>2. \/ Tables!OpenCommandList /\ open' = open + 1 /\ done' = done
      \/ /\ dirtyV' = ViewStages /\ dirtyS' = SamplerStages
         /\ UNCHANGED <<open, done, tabV, tabS, setV, setS, samplerMap>>
  BY DEF Tables!EndFrame, Tables!Queue!Submit, Tables!queueVars
<1>3. /\ open \in Nat /\ done \in Nat /\ done < open
      /\ dirtyV \subseteq ViewStages
      /\ tabV \in [ViewStages -> Tables!ViewSlots \cup {Tables!NoTable}]
      /\ tabS \in [SamplerStages -> Tables!SamplerSlots \cup {Tables!NoTable}]
      /\ setV \in Tables!Locals \cup {Tables!Shared}
      /\ setS \in Tables!Locals \cup {Tables!Shared}
  BY InvFacts, SetFacts
<1>4. open' \in Nat /\ open <= open' /\ done' = done /\ done < open'
  BY <1>2, <1>3
<1>5. /\ setV' = setV /\ setS' = setS
      /\ dirtyV' = ViewStages /\ dirtyS' = SamplerStages
      /\ \/ tabV' = tabV /\ open' = open
         \/ tabV' = Tables!NoTables(ViewStages)
      /\ \/ tabS' = tabS /\ open' = open
         \/ tabS' = Tables!NoTables(SamplerStages)
      /\ tabV' \in [ViewStages -> Tables!ViewSlots \cup {Tables!NoTable}]
      /\ tabS' \in [SamplerStages -> Tables!SamplerSlots \cup {Tables!NoTable}]
      /\ samplerMap' = Tables!NoKeys \/ samplerMap' = samplerMap
  BY <1>2, <1>3, ListOpened
<1>6. /\ \A r \in ViewRefs' : r \in ViewRefs \/ r.at = Tables!NoTable
      /\ \A r \in SamplerRefs' : r \in SamplerRefs \/ r.at = Tables!NoTable
  BY <1>1, <1>5, ViewRefsKept, SamplerRefsKept
<1>7. ViewsPlaced' /\ Tables!BlocksInOnePlace'
  BY <1>1, <1>4, <1>6, ViewsKept
<1>8. HeapsPlaced(localS, SamplerRefs, open)'
  BY <1>1, <1>4, <1>6, SamplersKept
<1>9. Tables!TypeOK'
  <2>1. sampler' \in [SamplerStages -> Samplers] /\ inFrame' \in BOOLEAN
    BY <1>1, TableFacts
  <2>2. /\ memS' \in [Tables!SamplerSlots -> Samplers \cup {Garbage}]
        /\ unique' \subseteq Samplers /\ globalDirty' \in BOOLEAN
    BY <1>1, TablesGathered
  <2> QED BY <1>1, <1>3, <1>4, <1>5, <2>1, <2>2 DEF TableInv, Tables!TypeOK
<1>10. UsesKnown'
  BY <1>1, <1>4, UsesKept DEF UsesKnown
<1>11. CurrentSet'
  BY <1>1, <1>5
  DEF TableInv, CurrentSet, Tables!CurrentViewHeap, Tables!CurrentSamplerHeap
<1>12. GlobalWritten'
  <2>1. \A r \in SamplerRefs' :
          r.at.heap = Tables!Shared => r.at.slot <= Cardinality(DOMAIN globalSet')
    <3> SUFFICES ASSUME NEW r \in SamplerRefs', r.at.heap = Tables!Shared
                 PROVE  r.at.slot <= Cardinality(DOMAIN globalSet')
      OBVIOUS
    <3>1. r \in SamplerRefs
      BY <1>6, SlotFacts
    <3>2. r.at.slot <= Cardinality(DOMAIN globalSet) /\ r.at.slot \in Nat
      BY <3>1, RefFacts DEF TableInv, GlobalWritten, Reads
    <3>3. /\ Cardinality(DOMAIN globalSet) <= Cardinality(DOMAIN globalSet')
          /\ Cardinality(DOMAIN globalSet) \in Nat
          /\ Cardinality(DOMAIN globalSet') \in Nat
      BY <1>1, TablesGathered
    <3> QED BY <3>2, <3>3
  <2>2. /\ DOMAIN globalSet' \in SUBSET Samplers /\ IsFiniteSet(DOMAIN globalSet')
        /\ globalSet' \in [DOMAIN globalSet' ->
                             1 .. Cardinality(DOMAIN globalSet')]
        /\ Cardinality(DOMAIN globalSet') <= GlobalSize
        /\ unique' = {}
    BY <1>1, TablesGathered
  <2>3. IsFiniteSet(unique')
    BY <2>2, FS_EmptySet
  <2>4. localSet' \in [DOMAIN localSet' -> Nat]
    BY <1>1 DEF TableInv, GlobalWritten
  <2> QED BY <2>1, <2>2, <2>3, <2>4 DEF GlobalWritten
<1>13. MapWritten'
  BY <1>1, <1>5 DEF TableInv, MapWritten, Tables!NoKeys
<1>14. Tables!SamplerTablesExact'
  <2>1. Tables!SamplerTablesExact /\ MapWritten
    BY DEF TableInv
  <2>2. ASSUME NEW k \in DOMAIN samplerMap'
        PROVE  /\ setS' = localS'.heap
               /\ memS'[Tables!At(setS', samplerMap'[k])] = k
    <3>1. samplerMap' = samplerMap /\ k \in DOMAIN samplerMap
      BY <1>5, <2>2 DEF Tables!NoKeys
    <3>2. PICK p : p = Tables!At(setS, samplerMap[k])
      OBVIOUS
    <3>3. setS = localS.heap /\ memS[p] = k
      BY <2>1, <3>1, <3>2 DEF Tables!SamplerTablesExact
    <3>4. /\ localS.heap \in Tables!Locals /\ localS.heap # Tables!Shared
          /\ localS.next \in 0 .. LocalSize /\ LocalSize \in Nat
      BY SetFacts, InvFacts, HeapFields, TableFacts
    <3>5. samplerMap[k] \in 1 .. LocalSize
      BY <2>1, <3>1, <3>4 DEF MapWritten
    <3>6. p \in Tables!SamplerSlots /\ p.heap # Tables!Shared
      BY <3>2, <3>3, <3>4, <3>5 DEF Tables!At, Tables!SamplerSlots
    <3>7. memS'[p] = memS[p]
      BY <1>1, <3>6, TablesGathered
    <3> QED BY <1>1, <1>5, <3>1, <3>2, <3>3, <3>7
  <2>3. \A k \in DOMAIN globalSet' :
          memS'[Tables!At(Tables!Shared, globalSet'[k])] = k
    BY <1>1, TablesGathered
  <2>4. \A k \in DOMAIN localSet' : k \in DOMAIN globalSet'
                                    /\ localSet'[k] = globalSet'[k]
    <3>1. \A k \in DOMAIN globalSet :
            k \in DOMAIN globalSet' /\ globalSet'[k] = globalSet[k]
      BY <1>1, TablesGathered
    <3> QED BY <1>1, <2>1, <3>1 DEF Tables!SamplerTablesExact
  <2> QED BY <2>2, <2>3, <2>4 DEF Tables!SamplerTablesExact
<1>15. Tables!CleanTablesValid'
  BY <1>5 DEF Tables!CleanTablesValid
<1>16. ASSUME NEW u \in uses, u.kind = "sampler", u.at \in Tables!SamplerSlots
       PROVE  memS'[u.at] = memS[u.at]
  <2>1. u \in SamplerRefs
    BY <1>16 DEF SamplerRefs
  <2>2. u.at.heap = Tables!Shared => u.at.slot <= Cardinality(DOMAIN globalSet)
    BY <2>1 DEF TableInv, GlobalWritten
  <2> QED BY <1>1, <1>16, <2>2, TablesGathered
<1> QED BY <1>3, <1>5, <1>7, <1>8, <1>9, <1>10, <1>11, <1>12, <1>13, <1>14,
           <1>15, <1>16 DEF TableInv

-----------------------------------------------------------------------------
(* All steps                                                               *)

LEMMA InitTableInv == Tables!Init => TableInv
<1> SUFFICES ASSUME Tables!Init PROVE TableInv
  OBVIOUS
<1>1. /\ open = 1 /\ done = 0 /\ pc = "idle" /\ inFrame = FALSE
      /\ sampler = [st \in SamplerStages |-> NoSampler]
      /\ dirtyV = ViewStages /\ tabV = Tables!NoTables(ViewStages)
      /\ dirtyS = SamplerStages /\ tabS = Tables!NoTables(SamplerStages)
      /\ setV = Tables!Shared /\ setS = Tables!NewLocalHeap.heap
      /\ samplerMap = Tables!NoKeys
      /\ onBlocks = TRUE /\ block = 1 /\ used = 0
      /\ blockPool = [b \in 1 .. Blocks - 1 |-> [block |-> b + 1, sync |-> 0]]
      /\ localV = Tables!NoHeap /\ localS = Tables!NewLocalHeap
      /\ onGlobal = FALSE /\ localSet = Tables!NoKeys /\ unique = {}
      /\ globalSet = Tables!NoKeys /\ globalDirty = FALSE
      /\ memS = [p \in Tables!SamplerSlots |-> Garbage]
      /\ uses = {}
  BY DEF Tables!Init, Tables!Queue!Init
<1>2. /\ DOMAIN Tables!NoKeys = {} /\ Tables!NoKeys \in [{} -> Nat]
      /\ Tables!NoKeys \in [{} -> 1 .. localS.next]
      /\ Tables!NoKeys \in [{} -> 1 .. 0]
  BY DEF Tables!NoKeys
<1>3. /\ localS.heap = 2 /\ localS.next = 0 /\ localS.pool = <<>>
      /\ localS.made = 1 /\ Len(localS.pool) = 0
      /\ localS \in Tables!LocalHeap /\ 2 \in Tables!Locals
      /\ localV \in Tables!LocalHeap
  BY <1>1, TableFacts
     DEF Tables!NewLocalHeap, Tables!NoHeap, Tables!LocalHeap, Tables!Locals
<1>4. /\ Blocks \in Nat \ {0} /\ Blocks - 1 \in Nat
      /\ \A b \in 1 .. Blocks - 1 : b + 1 \in 1 .. Blocks /\ b + 1 # 1
  BY TableFacts
<1>5. /\ blockPool \in Seq([block : 1 .. Blocks, sync : Nat])
      /\ Len(blockPool) = Blocks - 1 /\ DOMAIN blockPool = 1 .. Blocks - 1
      /\ \A b \in 1 .. Blocks - 1 :
           blockPool[b].block = b + 1 /\ blockPool[b].sync = 0
  <2>1. PICK n \in Nat : n = Blocks - 1
    BY <1>4
  <2>2. blockPool \in [1 .. n -> [block : 1 .. Blocks, sync : Nat]]
    BY <1>1, <1>4, <2>1
  <2>3. blockPool \in Seq([block : 1 .. Blocks, sync : Nat])
    <3> DEFINE T == [block : 1 .. Blocks, sync : Nat]
    <3>1. blockPool \in [1 .. n -> T]
      BY <2>2
    <3> HIDE DEF T
    <3>2. blockPool \in UNION {[1 .. m -> T] : m \in Nat}
      BY <2>1, <3>1
    <3>3. blockPool \in Seq(T)
      BY <3>2, SeqDef, Zenon
    <3> QED BY <3>3 DEF T
  <2>4. DOMAIN blockPool = 1 .. n /\ Len(blockPool) = n
    BY <2>1, <2>2, <2>3, LenProperties
  <2> QED BY <1>1, <2>1, <2>3, <2>4
<1>6. /\ tabV \in [ViewStages -> Tables!ViewSlots \cup {Tables!NoTable}]
      /\ tabS \in [SamplerStages -> Tables!SamplerSlots \cup {Tables!NoTable}]
  BY <1>1 DEF Tables!NoTables
<1>7. Tables!TypeOK
  <2>1. block \in 1 .. Blocks /\ used \in 0 .. BlockSize
    BY <1>1, TableFacts
  <2>2. setV \in Tables!Locals \cup {Tables!Shared}
        /\ setS \in Tables!Locals \cup {Tables!Shared}
    BY <1>1, <1>3
  <2>3. sampler \in [SamplerStages -> Samplers]
        /\ memS \in [Tables!SamplerSlots -> Samplers \cup {Garbage}]
    BY <1>1, TableFacts
  <2> QED BY <1>1, <1>3, <1>5, <1>6, <2>1, <2>2, <2>3 DEF Tables!TypeOK
<1>8. UsesKnown
  BY <1>1 DEF UsesKnown
<1>9. CurrentSet
  BY <1>1
  DEF CurrentSet, Tables!CurrentViewHeap, Tables!CurrentSamplerHeap
<1>10. /\ \A r \in ViewRefs : r.at = Tables!NoTable
       /\ \A r \in SamplerRefs : r.at = Tables!NoTable
  BY <1>1 DEF ViewRefs, SamplerRefs, Tables!UsesOf, Tables!NoTables
<1>11. ViewsPlaced
  <2>1. InTurn(blockPool, open)
    <3>1. open = 1 /\ \A i \in 1 .. Len(blockPool) : blockPool[i].sync = 0
      BY <1>1, <1>5
    <3> QED BY <3>1 DEF InTurn
  <2>2. /\ \A i \in 1 .. Len(blockPool) : blockPool[i].block # block
        /\ \A i, j \in 1 .. Len(blockPool) :
             blockPool[i].block = blockPool[j].block => i = j
    BY <1>1, <1>4, <1>5
  <2> QED BY <1>1, <1>10, <2>1, <2>2 DEF ViewsPlaced, BlocksPlaced
<1>12. HeapsPlaced(localS, SamplerRefs, open)
  BY <1>3, <1>10, SlotFacts DEF HeapsPlaced, InTurn
<1>13. GlobalWritten
  <2>1. IsFiniteSet({}) /\ Cardinality({}) = 0
    BY FS_EmptySet
  <2>2. \A r \in SamplerRefs : r.at.heap # Tables!Shared
    BY <1>10, SlotFacts
  <2> QED BY <1>1, <1>2, <2>1, <2>2, TableFacts DEF GlobalWritten
<1>14. MapWritten
  BY <1>1, <1>2 DEF MapWritten
<1>15. Tables!CleanTablesValid
  BY <1>1 DEF Tables!CleanTablesValid
<1>16. Tables!SamplerTablesExact
  BY <1>1, <1>2 DEF Tables!SamplerTablesExact
<1>17. Tables!BlocksInOnePlace
  <2>1. \A b \in 1 .. Blocks :
          b = 1 \/ (b - 1 \in 1 .. Blocks - 1 /\ (b - 1) + 1 = b)
    BY <1>4
  <2>2. \A b \in 1 .. Blocks :
          b = block \/ \E i \in DOMAIN blockPool : b = blockPool[i].block
    BY <1>1, <1>5, <2>1
  <2>3. \A i \in DOMAIN blockPool : blockPool[i].block \in 1 .. Blocks
    BY <1>4, <1>5
  <2>4. block \in 1 .. Blocks
    BY <1>1, <1>4
  <2>5. {block} \cup {blockPool[i].block : i \in DOMAIN blockPool} = 1 .. Blocks
    BY <2>2, <2>3, <2>4
  <2> QED BY <1>5, <2>5 DEF Tables!BlocksInOnePlace
<1> QED BY <1>7, <1>8, <1>9, <1>11, <1>12, <1>13, <1>14, <1>15, <1>16, <1>17
        DEF TableInv

LEMMA TablesStand ==
  ASSUME TableInv, UNCHANGED Tables!vars
  PROVE  TableInv'
<1>1. /\ UNCHANGED <<open, done, pc, inFrame, sampler>>
      /\ UNCHANGED <<dirtyV, dirtyS, tabV, tabS, setV, setS, samplerMap>>
      /\ UNCHANGED <<onBlocks, block, used, blockPool, localV, localS>>
      /\ UNCHANGED <<onGlobal, localSet, unique, globalSet, globalDirty>>
      /\ UNCHANGED <<memS, uses>>
  BY DEF Tables!vars, Tables!queueVars, Tables!boundVars, Tables!listVars,
     Tables!blockVars, Tables!localVars, Tables!globalVars
<1>2. open \in Nat /\ open <= open
  BY InvFacts
<1>3. /\ \A r \in ViewRefs' : r \in ViewRefs \/ r.at = Tables!NoTable
      /\ \A r \in SamplerRefs' : r \in SamplerRefs \/ r.at = Tables!NoTable
  BY <1>1, ViewRefsKept, SamplerRefsKept
<1>4. ViewsPlaced' /\ Tables!BlocksInOnePlace'
  BY <1>1, <1>2, <1>3, ViewsKept
<1>5. HeapsPlaced(localS, SamplerRefs, open)'
  BY <1>1, <1>2, <1>3, SamplersKept
<1>6. GlobalWritten'
  BY <1>1, <1>3, GlobalKept
<1>7. Tables!TypeOK'
  BY <1>1 DEF TableInv, Tables!TypeOK
<1>8. UsesKnown' /\ CurrentSet' /\ MapWritten' /\ Tables!CleanTablesValid'
      /\ Tables!SamplerTablesExact'
  BY <1>1
  DEF TableInv, UsesKnown, CurrentSet, MapWritten, Tables!CleanTablesValid,
      Tables!SamplerTablesExact, Tables!CurrentViewHeap,
      Tables!CurrentSamplerHeap
<1> QED BY <1>4, <1>5, <1>6, <1>7, <1>8 DEF TableInv

\* What a step writes was read by nobody, and what it makes was needed.
NothingReadWritten ==
  /\ \A st \in dirtyV \ dirtyV', u \in uses :
       u.kind = "view" => u.at # tabV'[st]
  /\ \A p \in Tables!SamplerSlots, u \in uses :
       u.kind = "sampler" /\ u.at = p => memS'[p] = memS[p]
NothingNeedless ==
  /\ localV'.made > localV.made =>
       IF onBlocks THEN Tables!InFlight(blockPool)
       ELSE Tables!InFlight(localV.pool)
  /\ localS'.made > localS.made => Tables!InFlight(localS.pool)

\* Steps that make no heap.
LEMMA NoneMade ==
  ASSUME TableInv, localV'.made = localV.made, localS'.made = localS.made
  PROVE  NothingNeedless
<1>1. localV.made \in Nat /\ localS.made \in Nat
  BY InvFacts, HeapFields
<1>2. ~ (localV'.made > localV.made) /\ ~ (localS'.made > localS.made)
  BY <1>1
<1> QED BY <1>2 DEF NothingNeedless

\* Steps that write no descriptor.
LEMMA NoneWritten ==
  ASSUME dirtyV \subseteq dirtyV', memS' = memS
  PROVE  NothingReadWritten
BY DEF NothingReadWritten

LEMMA TableStepInv ==
  ASSUME TableInv, Tables!Next
  PROVE  TableInv' /\ NothingReadWritten /\ NothingNeedless
<1>1. ASSUME NEW d \in SUBSET ViewStages, NEW s \in [SamplerStages -> Samplers],
             Tables!Bind(d, s)
      PROVE  TableInv' /\ NothingReadWritten /\ NothingNeedless
  <2>1. UNCHANGED <<memS, localV, localS>> /\ dirtyV \subseteq dirtyV'
    BY <1>1 DEF Tables!Bind, Tables!localVars
  <2> QED BY <1>1, <2>1, BindStep, NoneMade, NoneWritten
<1>2. ASSUME Tables!FindGlobalTables
      PROVE  TableInv' /\ NothingReadWritten /\ NothingNeedless
  <2>1. UNCHANGED <<memS, localV, localS, dirtyV>>
    BY <1>2 DEF Tables!FindGlobalTables, Tables!localVars
  <2> QED BY <1>2, <2>1, FindGlobalTablesStep, NoneMade, NoneWritten
<1>3. ASSUME Tables!MissGlobalTable
      PROVE  TableInv' /\ NothingReadWritten /\ NothingNeedless
  <2>1. UNCHANGED <<memS, localV, localS>>
    BY <1>3 DEF Tables!MissGlobalTable, Tables!localVars
  <2> QED BY <1>3, <2>1, MissGlobalTableStep, NoneMade, NoneWritten
<1>4. ASSUME Tables!RollOverSamplers
      PROVE  TableInv' /\ NothingReadWritten /\ NothingNeedless
  <2>1. UNCHANGED localV
    BY <1>4 DEF Tables!RollOverSamplers
  <2>2. localV.made \in Nat
    BY InvFacts, HeapFields
  <2>3. NothingNeedless
    BY <1>4, <2>1, <2>2, RollOverSamplersStep DEF NothingNeedless
  <2>4. NothingReadWritten
    BY <1>4, RollOverSamplersStep DEF NothingReadWritten
  <2> QED BY <1>4, <2>3, <2>4, RollOverSamplersStep
<1>5. ASSUME Tables!SetSamplers
      PROVE  TableInv' /\ NothingReadWritten /\ NothingNeedless
  <2>1. UNCHANGED <<localV, dirtyV>>
    BY <1>5 DEF Tables!SetSamplers
  <2>2. NothingReadWritten
    BY <1>5, <2>1, SetSamplersStep DEF NothingReadWritten
  <2> QED BY <1>5, <2>1, <2>2, SetSamplersStep, NoneMade
<1>6. ASSUME Tables!RollOverBlock
      PROVE  TableInv' /\ NothingReadWritten /\ NothingNeedless
  <2>1. UNCHANGED <<memS, localV, localS, dirtyV>>
    BY <1>6 DEF Tables!RollOverBlock, Tables!localVars, Tables!listVars
  <2> QED BY <1>6, <2>1, RollOverBlockStep, NoneMade, NoneWritten
<1>7. ASSUME Tables!RunOutOfBlocks
      PROVE  TableInv' /\ NothingReadWritten /\ NothingNeedless
  <2>1. UNCHANGED <<memS, localS>>
    BY <1>7 DEF Tables!RunOutOfBlocks
  <2>2. localS.made \in Nat
    BY InvFacts, HeapFields
  <2>3. NothingNeedless
    BY <1>7, <2>1, <2>2, RunOutOfBlocksStep DEF NothingNeedless
  <2> QED BY <1>7, <2>1, <2>3, RunOutOfBlocksStep, NoneWritten
<1>8. ASSUME Tables!RollOverLocalViews
      PROVE  TableInv' /\ NothingReadWritten /\ NothingNeedless
  <2>1. UNCHANGED <<memS, localS>> /\ ~ onBlocks
    BY <1>8 DEF Tables!RollOverLocalViews
  <2>2. localS.made \in Nat
    BY InvFacts, HeapFields
  <2>3. NothingNeedless
    BY <1>8, <2>1, <2>2, RollOverLocalViewsStep DEF NothingNeedless
  <2> QED BY <1>8, <2>1, <2>3, RollOverLocalViewsStep, NoneWritten
<1>9. ASSUME Tables!DrawOnBlock
      PROVE  TableInv' /\ NothingReadWritten /\ NothingNeedless
  <2>1. UNCHANGED <<memS, localV, localS>>
    BY <1>9 DEF Tables!DrawOnBlock, Tables!SetViewsAndDraw
  <2>2. NothingReadWritten
    BY <1>9, <2>1, DrawOnBlockStep DEF NothingReadWritten
  <2> QED BY <1>9, <2>1, <2>2, DrawOnBlockStep, NoneMade
<1>10. ASSUME Tables!DrawOnLocalHeap
       PROVE  TableInv' /\ NothingReadWritten /\ NothingNeedless
  <2>1. UNCHANGED <<memS, localS>>
    BY <1>10 DEF Tables!DrawOnLocalHeap, Tables!SetViewsAndDraw
  <2>2. NothingReadWritten
    BY <1>10, <2>1, DrawOnLocalHeapStep DEF NothingReadWritten
  <2> QED BY <1>10, <2>1, <2>2, DrawOnLocalHeapStep, NoneMade
<1>11. ASSUME Tables!FlushCommands
       PROVE  TableInv' /\ NothingReadWritten /\ NothingNeedless
  <2>1. UNCHANGED <<memS, localV, localS>>
    BY <1>11 DEF Tables!FlushCommands, Tables!localVars
  <2> QED BY <1>11, <2>1, FlushTablesStep, NoneMade, NoneWritten
<1>12. ASSUME Tables!EndFrame
       PROVE  TableInv' /\ NothingReadWritten /\ NothingNeedless
  <2>1. UNCHANGED <<localV, localS>>
    BY <1>12 DEF Tables!EndFrame, Tables!localVars
  <2>2. NothingReadWritten
    BY <1>12, EndTablesStep DEF NothingReadWritten
  <2> QED BY <1>12, <2>1, <2>2, EndTablesStep, NoneMade
<1>13. ASSUME Tables!BeginFrame
       PROVE  TableInv' /\ NothingReadWritten /\ NothingNeedless
  <2>1. UNCHANGED <<memS, localV, localS>>
    BY <1>13 DEF Tables!BeginFrame, Tables!localVars
  <2> QED BY <1>13, <2>1, BeginFrameStep, NoneMade, NoneWritten
<1>14. ASSUME Tables!GpuFinish
       PROVE  TableInv' /\ NothingReadWritten /\ NothingNeedless
  <2>1. UNCHANGED <<memS, localV, localS, dirtyV>>
    BY <1>14 DEF Tables!GpuFinish, Tables!localVars, Tables!listVars
  <2> QED BY <1>14, <2>1, GpuFinishStep, NoneMade, NoneWritten
<1>15. ASSUME Tables!Stop
       PROVE  TableInv' /\ NothingReadWritten /\ NothingNeedless
  <2>1. UNCHANGED <<memS, localV, localS, dirtyV>> /\ UNCHANGED Tables!vars
    BY <1>15 DEF Tables!Stop, Tables!vars, Tables!localVars, Tables!listVars
  <2> QED BY <2>1, TablesStand, NoneMade, NoneWritten
<1> QED
  BY <1>1, <1>2, <1>3, <1>4, <1>5, <1>6, <1>7, <1>8, <1>9, <1>10, <1>11, <1>12,
     <1>13, <1>14, <1>15
  DEF Tables!Next, Tables!ApplySamplers, Tables!ApplyViews

LEMMA FramesKeepTables ==
  /\ FramesInit => TableInv
  /\ TableInv /\ [FramesNext]_<<part, vars, pipelineVars, drawVars,
                                barrierVars, tableVars>>
       => /\ TableInv'
          /\ [NothingReadWritten]_(Tables!vars) /\ [NothingNeedless]_(Tables!vars)
<1>1. FramesInit => TableInv
  BY InitTableInv DEF FramesInit
<1>2. [FramesNext]_<<part, vars, pipelineVars, drawVars, barrierVars,
                     tableVars>> => [Tables!Next]_(Tables!vars)
  BY DEF FramesNext, DeletionStep, PipelineStep, DrawingStep, BarrierStep,
     TableStep, tableVars, Tables!vars, Tables!queueVars, Tables!boundVars,
     Tables!listVars, Tables!blockVars, Tables!localVars, Tables!globalVars
<1>3. TableInv /\ [Tables!Next]_(Tables!vars)
        => /\ TableInv'
           /\ [NothingReadWritten]_(Tables!vars) /\ [NothingNeedless]_(Tables!vars)
  BY TableStepInv, TablesStand
<1> QED BY <1>1, <1>2, <1>3

\* However draws, flushes and frames follow each other, with any sizes of the
\* heaps: the tables ApplyState leaves alone are defined, in the heap that is
\* set, and hold what is bound; every table remembered by its samplers holds
\* them; and while blocks are used each is in one place.
THEOREM TablesStayValid == FramesSpec => []TablesValid
<1>1. TableInv => TablesValid
  BY DEF TableInv, TablesValid
<1> QED BY <1>1, FramesKeepTables, PTL DEF FramesSpec

\* A slot gets a new descriptor only when no draw that is recorded or in flight
\* reads it; a heap is made, and the blocks are given up, only while everything
\* in the pool is in flight.
THEOREM SlotsNotRewritten == FramesSpec => SlotsReused
<1>1. FramesSpec => /\ [][NothingReadWritten]_(Tables!vars)
                    /\ [][NothingNeedless]_(Tables!vars)
  BY FramesKeepTables, PTL DEF FramesSpec
<1> QED BY <1>1
    DEF SlotsReused, Tables!NoSlotRewritten, Tables!NoNeedlessHeap,
        NothingReadWritten, NothingNeedless
=============================================================================
