------------------------- MODULE OfflineDescriptors -------------------------
(***************************************************************************)
(* OfflineDescriptorManager (Engine/Render/D3D12/DescriptorCache.h): slots *)
(* of CPU descriptor heaps for views and samplers.  Each heap keeps a list  *)
(* of free ranges in ascending order; m_FreeHeaps lists the heaps that have *)
(* one.  Every operation holds CritSect from beginning to end.  A slot is a *)
(* place in its heap: the offset in units of the descriptor size.           *)
(*                                                                         *)
(* A definition that says "mutant of" is the code with one plausible slip;  *)
(* no behaviour of the model uses it.                                       *)
(***************************************************************************)
EXTENDS Integers, Sequences

CONSTANTS NumDescriptors,  \* NumDescriptors of m_Desc
          MaxHeaps         \* bound: heaps ever created

ASSUME SizesAssumption == NumDescriptors \in Nat \ {0} /\ MaxHeaps \in Nat

VARIABLES heaps,      \* m_Heaps: the m_FreeList of each heap
          freeHeaps,  \* m_FreeHeaps
          holders     \* handles of a slot that views and samplers hold

vars == <<heaps, freeHeaps, holders>>

Places == 0 .. NumDescriptors - 1
Slots  == (1 .. MaxHeaps) \X Places    \* index of the heap and place in it
Ranges == [start : Places, end : 1 .. NumDescriptors]

FreeRange(s, e) == [start |-> s, end |-> e]
-----------------------------------------------------------------------------
WholeHeap == <<FreeRange(0, NumDescriptors)>>

\* The front range loses its first slot, and goes when that was its last
KeepLast(list) ==                                                \* mutant of
  IF list[1].start + 1 = list[1].end THEN list
  ELSE [list EXCEPT ![1].start = @ + 1]
TakeFirst(list) ==
  IF list[1].start + 1 = list[1].end THEN Tail(list)
  ELSE [list EXCEPT ![1].start = @ + 1]

\* One slot of heap `index', which stands first in the list of free heaps
Take(lists, order) ==
  LET index == Head(order)
      rest == TakeFirst(lists[index])
  IN /\ holders' = [holders EXCEPT ![<<index, lists[index][1].start>>] = @ + 1]
     /\ heaps' = [lists EXCEPT ![index] = rest]
     /\ freeHeaps' = IF rest = <<>> THEN Tail(order) ELSE order

\* OfflineDescriptorManager::AllocateHeapSlot, with AllocateHeap
AllocateHeapSlot ==
  \/ freeHeaps # <<>> /\ Take(heaps, freeHeaps)
  \/ /\ freeHeaps = <<>> /\ Len(heaps) < MaxHeaps
     /\ Take(Append(heaps, WholeHeap), <<Len(heaps) + 1>>)

\* The loop of FreeHeapSlot leaves a range alone and goes on, or stops at it
Stops(range, s) == range.end = s \/ range.start > s

InsertAt(list, k, range) ==
  [i \in 1 .. Len(list) + 1 |->
     IF i < k THEN list[i] ELSE IF i = k THEN range ELSE list[i - 1]]

\* The range the loop stopped at grows by the slot, or is preceded by it
GrowWrongWay(list, s, k) ==                                      \* mutant of
  IF list[k].start = s + 1 \/ list[k].end = s
  THEN [list EXCEPT ![k].end = @ + 1]
  ELSE InsertAt(list, k, FreeRange(s, s + 1))
FreedAt(list, s, k) ==
  IF list[k].start = s + 1 THEN [list EXCEPT ![k].start = s]
  ELSE IF list[k].end = s THEN [list EXCEPT ![k].end = s + 1]
  ELSE InsertAt(list, k, FreeRange(s, s + 1))

\* A heap that had no free range is listed again
ListAgain(index) == Append(freeHeaps, index)                     \* mutant of
ListIfWasFull(index) ==
  IF heaps[index] = <<>> THEN Append(freeHeaps, index) ELSE freeHeaps

\* OfflineDescriptorManager::FreeHeapSlot, called once by the owner of a slot
FreeHeapSlot(index, s) ==
  /\ holders[<<index, s>>] > 0
  /\ holders' = [holders EXCEPT ![<<index, s>>] = @ - 1]
  /\ \/ \E k \in 1 .. Len(heaps[index]) :
          /\ Stops(heaps[index][k], s)
          /\ \A j \in 1 .. k - 1 : ~ Stops(heaps[index][j], s)
          /\ heaps' = [heaps EXCEPT ![index] = FreedAt(heaps[index], s, k)]
          /\ UNCHANGED freeHeaps
     \/ /\ \A j \in 1 .. Len(heaps[index]) : ~ Stops(heaps[index][j], s)
        /\ heaps' = [heaps EXCEPT ![index] = Append(@, FreeRange(s, s + 1))]
        /\ freeHeaps' = ListIfWasFull(index)

Init == heaps = <<>> /\ freeHeaps = <<>> /\ holders = [s \in Slots |-> 0]

Next ==
  \/ AllocateHeapSlot
  \/ \E index \in 1 .. Len(heaps), s \in Places : FreeHeapSlot(index, s)

Spec == Init /\ [][Next]_vars
-----------------------------------------------------------------------------
(* Properties *)

TypeOK ==
  /\ heaps \in Seq(Seq(Ranges)) /\ Len(heaps) <= MaxHeaps
  /\ freeHeaps \in Seq(1 .. Len(heaps))
  /\ holders \in [Slots -> Nat]

Covers(range, s) == range.start <= s /\ s < range.end

\* Ranges are not empty, ascend and do not overlap (the constraints asserted
\* in the loop of FreeHeapSlot)
Ascending(list) ==
  /\ \A j \in 1 .. Len(list) : list[j].start < list[j].end
  /\ \A j, k \in 1 .. Len(list) : j < k => list[j].end <= list[k].start

(* Splitting and merging loses no slot and doubles none: the free ranges of  *)
(* each heap are in order, a slot in one of them is held by nobody and any   *)
(* other by one.                                                            *)
FreeListsExact ==
  \A i \in 1 .. Len(heaps) :
    /\ Ascending(heaps[i])
    /\ \A s \in Places :
         holders[<<i, s>>] =
           IF \E j \in 1 .. Len(heaps[i]) : Covers(heaps[i][j], s) THEN 0 ELSE 1

(* A heap is listed once while it has a free slot and not otherwise; the     *)
(* constraints at the head of AllocateHeapSlot rely on it.                  *)
FreeHeapsExact ==
  /\ \A i \in 1 .. Len(heaps) :
       heaps[i] # <<>> <=> \E j \in 1 .. Len(freeHeaps) : freeHeaps[j] = i
  /\ \A j, k \in 1 .. Len(freeHeaps) : freeHeaps[j] = freeHeaps[k] => j = k

Pool == INSTANCE SlotPool WITH count <- Len(heaps)

(* The manager is a pool of slots: none is given out while it is held, and a *)
(* heap is created only when all are.                                       *)
PoolSpec == Pool!Spec
=============================================================================
