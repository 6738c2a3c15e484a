----------------------------- MODULE Coroutines -----------------------------
(***************************************************************************)
(* SyncWait(WhenAllReady(tasks)) of Engine/Core/Coroutine: a thread starts   *)
(* the tasks one after the other and sleeps on an event of its own stack;   *)
(* the tasks suspend, go on and end on the threads of the schedulers, and   *)
(* the one that counts down to zero runs the awaiting coroutine, whose end   *)
(* sets the event.  When the waiter returns, the event, the counter, the    *)
(* tasks and the awaiting coroutine are destroyed.                          *)
(*                                                                         *)
(* A definition that says "mutant of" is the code with one plausible slip;  *)
(* no behaviour of the model uses it.                                       *)
(***************************************************************************)
EXTENDS Integers

CONSTANTS Waiter,     \* the thread in SyncWait
          Pool,       \* threads of the schedulers
          N,          \* tasks
          MaxAwaits   \* bound: awaits of a task that suspend it

ASSUME CoroutinesAssumption ==
  Waiter \notin Pool /\ N \in Nat /\ MaxAwaits \in Nat

Threads == Pool \cup {Waiter}
Tasks   == 1 .. N
NoTask  == 0

VARIABLES
  started,        \* tasks begun by the loop of try_await
  task, awaits,   \* state of a task, how often it was suspended
  pc, cur,        \* place of a thread, the task it runs or ends
  count,          \* when_all_counter::count
  coroutine,      \* when_all_counter::coroutine is set
  resumes,        \* ghost: how often the awaiting coroutine went on
  value           \* manual_reset_event::value

taskVars    == <<started, task, awaits>>
counterVars == <<count, coroutine, resumes>>
vars == <<taskVars, pc, cur, counterVars, value>>

Goto(t, place) == pc' = [pc EXCEPT ![t] = place]

\* Where a thread goes when a task it ran has suspended, or has ended and was
\* not the last
Back(t) == IF t = Waiter THEN "loop" ELSE "idle"
-----------------------------------------------------------------------------
(* The tasks *)

\* The next iteration of the loop in when_all_ready_awaitable::try_await
StartTask ==
  /\ pc[Waiter] = "loop" /\ started < N
  /\ started' = started + 1
  /\ task' = [task EXCEPT ![started + 1] = "running"]
  /\ cur' = [cur EXCEPT ![Waiter] = started + 1]
  /\ Goto(Waiter, "task")
  /\ UNCHANGED <<awaits, counterVars, value>>

\* A task awaits an operation of a scheduler
Suspend(t) ==
  /\ pc[t] = "task" /\ awaits[cur[t]] < MaxAwaits
  /\ awaits' = [awaits EXCEPT ![cur[t]] = @ + 1]
  /\ task' = [task EXCEPT ![cur[t]] = "suspended"]
  /\ cur' = [cur EXCEPT ![t] = NoTask] /\ Goto(t, Back(t))
  /\ UNCHANGED <<started, counterVars, value>>

\* ... which resumes it on one of its threads
ResumeTask(t, k) ==
  /\ t \in Pool /\ pc[t] = "idle" /\ task[k] = "suspended"
  /\ task' = [task EXCEPT ![k] = "running"]
  /\ cur' = [cur EXCEPT ![t] = k] /\ Goto(t, "task")
  /\ UNCHANGED <<started, awaits, counterVars, value>>

\* A task returns or throws and is at its final suspension
EndTask(t) ==
  /\ pc[t] = "task"
  /\ task' = [task EXCEPT ![cur[t]] = "ended"]
  /\ Goto(t, "notify")
  /\ UNCHANGED <<started, awaits, cur, counterVars, value>>
-----------------------------------------------------------------------------
(* when_all_counter *)

CountOfTasks == N                                                \* mutant of
InitialCount == N + 1

LastByNewValue(old) == old = 0                                   \* mutant of
IsLast(old) == old = 1

\* notify_awaitable_completed, the fetch_sub
Notify(t) ==
  /\ pc[t] = "notify"
  /\ count' = count - 1
  /\ cur' = [cur EXCEPT ![t] = NoTask]
  /\ Goto(t, IF IsLast(count) THEN "resume" ELSE Back(t))
  /\ UNCHANGED <<taskVars, coroutine, resumes, value>>

\* ... and the call of coroutine.resume()
ResumeAwaiting(t) ==
  /\ pc[t] = "resume"
  /\ resumes' = resumes + 1
  /\ Goto(t, "set")
  /\ UNCHANGED <<taskVars, cur, count, coroutine, value>>

\* try_await: all tasks are started, the coroutine is stored
StoreAwaiting ==
  /\ pc[Waiter] = "loop" /\ started = N
  /\ coroutine' = TRUE /\ Goto(Waiter, "await")
  /\ UNCHANGED <<taskVars, cur, count, resumes, value>>

\* ... and counted: suspend, or go on at once
TryAwait ==
  /\ pc[Waiter] = "await"
  /\ count' = count - 1
  /\ \/ count > 1 /\ Goto(Waiter, "load") /\ UNCHANGED resumes
     \/ ~ count > 1 /\ Goto(Waiter, "set") /\ resumes' = resumes + 1
  /\ UNCHANGED <<taskVars, cur, coroutine, value>>
-----------------------------------------------------------------------------
(* manual_reset_event: set by the end of the awaiting coroutine *)

SetEvent(t) ==
  /\ pc[t] = "set"
  /\ value' = 1 /\ Goto(t, "wake")
  /\ UNCHANGED <<taskVars, cur, counterVars>>

\* WakeByAddressAll; it needs the address, the event may be gone
Wake(t) ==
  /\ pc[t] = "wake"
  /\ pc' = [u \in Threads |->
              CASE u = t /\ t = Waiter  -> "load"
                [] u = t /\ t # Waiter  -> "idle"
                [] pc[u] = "asleep"     -> "load"
                [] OTHER                -> pc[u]]
  /\ UNCHANGED <<taskVars, cur, counterVars, value>>

\* wait: look at the value and return, or call WaitOnAddress
LoadValue ==
  /\ pc[Waiter] = "load"
  /\ Goto(Waiter, IF value = 0 THEN "compare" ELSE "returned")
  /\ UNCHANGED <<taskVars, cur, counterVars, value>>

\* WaitOnAddress sleeps if the value is still the one that was loaded
WaitOnAddress ==
  /\ pc[Waiter] = "compare"
  /\ Goto(Waiter, IF value = 0 THEN "asleep" ELSE "load")
  /\ UNCHANGED <<taskVars, cur, counterVars, value>>

ReturnWhenWoken == "returned"                                    \* mutant of
LookAgain == "load"

\* "WaitOnAddress() can have spurious wake-ups", or fail
SpuriousWake ==
  /\ pc[Waiter] = "asleep"
  /\ Goto(Waiter, LookAgain)
  /\ UNCHANGED <<taskVars, cur, counterVars, value>>
-----------------------------------------------------------------------------
\* SyncWait has made its task and its event, and starts the task
Init ==
  /\ started = 0 /\ task = [k \in Tasks |-> "new"]
  /\ awaits = [k \in Tasks |-> 0]
  /\ pc = [t \in Threads |-> IF t = Waiter THEN "loop" ELSE "idle"]
  /\ cur = [t \in Threads |-> NoTask]
  /\ count = InitialCount /\ coroutine = FALSE /\ resumes = 0
  /\ value = 0

\* What a thread does next
WaiterStep ==
  StartTask \/ StoreAwaiting \/ TryAwait \/ LoadValue \/ WaitOnAddress
ThreadStep(t) ==
  \/ Suspend(t) \/ EndTask(t) \/ Notify(t) \/ ResumeAwaiting(t)
  \/ SetEvent(t) \/ Wake(t)

Next ==
  \/ WaiterStep \/ SpuriousWake
  \/ \E t \in Threads : ThreadStep(t)
  \/ \E t \in Pool, k \in Tasks : ResumeTask(t, k)

\* Threads run, and the schedulers resume what was awaited (TaskScheduler,
\* IOScheduler)
Fairness ==
  /\ WF_vars(WaiterStep) /\ \A t \in Threads : WF_vars(ThreadStep(t))
  /\ \A k \in Tasks : WF_vars(\E t \in Pool : ResumeTask(t, k))

Spec == Init /\ [][Next]_vars /\ Fairness
-----------------------------------------------------------------------------
(* Properties *)

TypeOK ==
  /\ started \in 0 .. N
  /\ task \in [Tasks -> {"new", "running", "suspended", "ended"}]
  /\ awaits \in [Tasks -> 0 .. MaxAwaits]
  /\ pc \in [Threads -> {"loop", "idle", "task", "notify", "resume", "await",
                         "set", "wake", "load", "compare", "asleep", "returned"}]
  /\ cur \in [Threads -> Tasks \cup {NoTask}]
  /\ count \in 0 .. N + 1 /\ coroutine \in BOOLEAN /\ resumes \in Nat
  /\ value \in {0, 1}

(* The awaiting coroutine goes on once, on one thread, with every task       *)
(* ended; whoever resumes it finds it stored.                               *)
AwaiterOnce ==
  /\ resumes <= 1
  /\ resumes = 1 => \A k \in Tasks : task[k] = "ended"
  /\ \A t \in Threads : pc[t] = "resume" => coroutine /\ resumes = 0

(* When SyncWait returns and its event, the counter and the frames are       *)
(* destroyed, no other thread is in a place where it still uses one: only    *)
(* WakeByAddressAll, which does not look at the memory, may be to come.      *)
MemoryOutlivesUse ==
  pc[Waiter] = "returned" =>
    /\ \A t \in Pool : pc[t] \in {"idle", "wake"}
    /\ \A k \in Tasks : task[k] = "ended"

ForkJoinOf == INSTANCE ForkJoin WITH
  running <- {k \in Tasks : task[k] # "ended"},
  returned <- pc[Waiter] = "returned"

(* The whole is a fork and join: the call returns, once, after all tasks,    *)
(* however the wake-ups of the waiter fall.                                 *)
JoinSpec == ForkJoinOf!Spec

(* The call returns: no countdown misses zero, and no wake-up is lost        *)
(* between the look at the value and the sleep.                             *)
SyncWaitReturns == <>(pc[Waiter] = "returned")
=============================================================================
