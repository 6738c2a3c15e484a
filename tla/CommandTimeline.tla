--------------------------- MODULE CommandTimeline ---------------------------
(***************************************************************************)
(* What the direct command queue promises to everything that recycles      *)
(* memory the GPU reads (descriptor blocks, upload buffers, allocators).   *)
(* Batches of commands are numbered from 1.  `open' is the batch the CPU    *)
(* is recording; every batch below it was submitted; batches 1..done have   *)
(* finished on the GPU.  A batch finishes only after it was submitted, in   *)
(* order, and every submitted batch finishes some day.                      *)
(***************************************************************************)
EXTENDS Naturals

VARIABLES open, done

vars == <<open, done>>

Init == open = 1 /\ done = 0

Submit == open' = open + 1 /\ UNCHANGED done

Finish == done + 1 < open /\ done' = done + 1 /\ UNCHANGED open

Next == Submit \/ Finish

Spec == Init /\ [][Next]_vars /\ WF_vars(Finish)
=============================================================================
