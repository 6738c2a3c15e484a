------------------------------ MODULE ForkJoin ------------------------------
(***************************************************************************)
(* What SyncWait(WhenAllReady(tasks)) promises its caller: the call comes   *)
(* back once, and not before every task has ended.                          *)
(***************************************************************************)
EXTENDS Naturals

CONSTANT Tasks

VARIABLES running, returned

vars == <<running, returned>>

Init == running = Tasks /\ returned = FALSE

End(k) == k \in running /\ running' = running \ {k} /\ UNCHANGED returned

Return == running = {} /\ ~ returned /\ returned' = TRUE /\ UNCHANGED running

Next == Return \/ \E k \in Tasks : End(k)

Spec == Init /\ [][Next]_vars
=============================================================================
