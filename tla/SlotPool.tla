------------------------------ MODULE SlotPool ------------------------------
(***************************************************************************)
(* What an offline descriptor manager promises to the views and samplers   *)
(* that hold its slots: a slot is given out to one holder at a time, a slot *)
(* that was given back can be given out again, and a further heap is        *)
(* created only when every slot of the existing ones is held.               *)
(***************************************************************************)
EXTENDS Integers

CONSTANTS NumDescriptors,   \* slots of a heap
          MaxHeaps          \* heaps that can be created

VARIABLES count,    \* heaps created
          holders   \* how many hold a slot, given by heap and place in it

vars == <<count, holders>>

Slots(n) == (1 .. n) \X (0 .. NumDescriptors - 1)

Init == count = 0 /\ holders = [s \in Slots(MaxHeaps) |-> 0]

Allocate ==
  /\ \E s \in Slots(count) :
       holders[s] = 0 /\ holders' = [holders EXCEPT ![s] = 1]
  /\ UNCHANGED count

Grow ==
  /\ count < MaxHeaps /\ \A s \in Slots(count) : holders[s] = 1
  /\ count' = count + 1
  /\ \E s \in Slots(count + 1) \ Slots(count) :
       holders' = [holders EXCEPT ![s] = 1]

Free ==
  /\ \E s \in Slots(count) :
       holders[s] = 1 /\ holders' = [holders EXCEPT ![s] = 0]
  /\ UNCHANGED count

Next == Allocate \/ Grow \/ Free

Spec == Init /\ [][Next]_vars
=============================================================================
