----------------------------- MODULE HostThreads -----------------------------
(***************************************************************************)
(* The thread pool of LBase (ThreadPool) and the message loop of           *)
(* LFramework (MessageLoop) in one program.  They share no state, so a     *)
(* step of one changes nothing for the other: a behaviour follows the part *)
(* it begins with, and the other stands still.                             *)
(***************************************************************************)
EXTENDS ThreadPool

CONSTANTS Main, WindowThread, Posters, Priorities, UIResponseLimit,
          DefaultQuitPriority, MaxPosts, MaxNested

ASSUME LoopAssumption ==
  Priorities \cup {UIResponseLimit, DefaultQuitPriority, MaxNested} \subseteq Nat

VARIABLES part, qMain, hShell, pc, current, window, attached, posted, nested,
          handled

Loop == INSTANCE MessageLoop WITH Workers <- Posters

loopVars == <<qMain, hShell, pc, current, window, attached, posted, nested,
              handled>>
hostVars == <<part, vars, loopVars>>

HostInit == part \in {"pool", "loop"} /\ Init /\ Loop!Init

PoolStep(A) == part = "pool" /\ A /\ UNCHANGED <<part, loopVars>>
LoopStep(A) == part = "loop" /\ A /\ UNCHANGED <<part, vars>>

HostNext == PoolStep(Next) \/ LoopStep(Loop!Next)

\* The fairness that each part states for itself
HostFairness ==
  /\ \A w \in Workers : WF_hostVars(PoolStep(Works(w)))
  /\ \A c \in Callers : WF_hostVars(PoolStep(Proceeds(c)))
  /\ WF_hostVars(PoolStep(Reset))
  /\ WF_hostVars(LoopStep(Loop!Start \/ Loop!DealMessage))
  /\ WF_hostVars(LoopStep(Loop!Window))

HostSpec == HostInit /\ [][HostNext]_hostVars /\ HostFairness
-----------------------------------------------------------------------------
(* Properties of each part while it moves                                   *)

\* A task is in one place until it has run, and reset, although it tells the
\* workers to stop while tasks are queued, destroys the pool after all have run.
TasksKept == part = "pool" => TypeOK /\ TasksInOnePlace /\ ResetDrains

\* A message is dispatched once, and those of one thread in the order they
\* were posted unless priorities say otherwise.
DispatchOrderly ==
  part = "loop" => Loop!TypeOK /\ Loop!HandledOnce /\ Loop!PostingOrderKept

\* Every call returns: one that waits for a place gets one, and reset, which
\* joins the workers, finds all of them woken.
EveryCallReturns == EveryWaiterReturns /\ ResetReturns

\* Every message, of whatever priority, is dispatched unless the quit message
\* ends the loop first, and the loop ends by a quit request that is whole.  The
\* first half assumes the shell valid, as GUIApplication.h:111 asserts: between
\* the two messages of PostQuitMessage it is not, which ShellValid of
\* MessageLoop shows apart, and the loop that fails so handles nothing more.
EveryMessageHandled == Loop!EveryMessageHandled /\ Loop!QuitEndsLoop
=============================================================================
