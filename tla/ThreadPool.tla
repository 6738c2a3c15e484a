------------------------------ MODULE ThreadPool ------------------------------
(***************************************************************************)
(* leo::thread_pool and leo::task_pool, the pool with a bounded queue: its    *)
(* workers, callers of wait and wait_for, and reset, which destroys the pool  *)
(* and makes it again.                                                      *)
(*                                                                         *)
(* What is done under queue_mutex is one step.  A thread that waits for a     *)
(* condition has released the mutex; notified, or woken for no reason, it     *)
(* checks again.  Notifications are given with the mutex released, in steps   *)
(* of their own: by a caller after it has pushed, by a task as it starts.     *)
(***************************************************************************)
EXTENDS Naturals, Sequences, FiniteSets, SequencesExt

CONSTANTS Workers,    \* threads the pool may have
          Callers,    \* threads that enqueue
          MaxTasks,   \* max_tasks
          MaxCalls,   \* bound: calls of a caller
          MaxResets,  \* bound: calls of reset
          ResetAlone  \* TRUE: reset is called when no other call is going on

ASSUME PoolAssumption ==
  MaxTasks \in 1..Cardinality(Workers) /\ {MaxCalls, MaxResets} \subseteq Nat
  /\ ResetAlone \in BOOLEAN

VARIABLES
  tasks,     \* the queue
  stopped,
  worker,    \* where each worker is
  held,      \* the task it has taken
  caller,    \* where each caller is
  timed,     \* callers inside wait_for
  calls,     \* calls made by each caller; names its tasks
  resetting, \* where the caller of reset is
  resets,
  accepted, ran \* ghost: tasks enqueued, tasks run

poolVars == <<tasks, stopped>>
workerVars == <<worker, held>>
callerVars == <<caller, timed, calls>>
resetVars == <<resetting, resets>>
ghostVars == <<accepted, ran>>
vars == <<poolVars, workerVars, callerVars, resetVars, ghostVars>>

NoTask == <<>>
Tasks == Callers \X (1..MaxCalls)

-----------------------------------------------------------------------------
(* The workers                                                              *)

Leaves == stopped /\ tasks = <<>>

\* condition.wait: neither stopped nor anything to take
MayWait == ~stopped /\ tasks = <<>>

\* mutant of Check: the front is read and not popped
CheckKeepsFront(w) ==
  /\ worker[w] = "check" /\ ~MayWait /\ ~Leaves
  /\ held' = [held EXCEPT ![w] = Head(tasks)]
  /\ worker' = [worker EXCEPT ![w] = "starting"]
  /\ UNCHANGED <<poolVars, callerVars, resetVars, ghostVars>>

Check(w) ==
  /\ worker[w] = "check"
  /\ \/ /\ MayWait /\ worker' = [worker EXCEPT ![w] = "waiting"]
        /\ UNCHANGED <<tasks, held>>
     \/ /\ Leaves /\ worker' = [worker EXCEPT ![w] = "exited"]
        /\ UNCHANGED <<tasks, held>>
     \/ /\ ~MayWait /\ ~Leaves
        /\ held' = [held EXCEPT ![w] = Head(tasks)] /\ tasks' = Tail(tasks)
        /\ worker' = [worker EXCEPT ![w] = "starting"]
  /\ UNCHANGED <<stopped, callerVars, resetVars, ghostVars>>

SpuriousWake(w) ==
  /\ worker[w] = "waiting" /\ worker' = [worker EXCEPT ![w] = "check"]
  /\ UNCHANGED <<poolVars, held, callerVars, resetVars, ghostVars>>

\* mutant of TaskStarts: nobody is told of the place in the queue
TaskStartsQuietly(w) ==
  /\ worker[w] = "starting" /\ worker' = [worker EXCEPT ![w] = "running"]
  /\ UNCHANGED <<poolVars, held, callerVars, resetVars, ghostVars>>

\* the task wrapped by wait_to_enqueue: enqueue_condition.notify_one
TaskStarts(w) ==
  /\ worker[w] = "starting" /\ worker' = [worker EXCEPT ![w] = "running"]
  /\ IF \E c \in Callers : caller[c] = "waiting"
     THEN \E c \in Callers : /\ caller[c] = "waiting"
                             /\ caller' = [caller EXCEPT ![c] = "check"]
     ELSE UNCHANGED caller
  /\ UNCHANGED <<poolVars, held, timed, calls, resetVars, ghostVars>>

TaskEnds(w) ==
  /\ worker[w] = "running" /\ worker' = [worker EXCEPT ![w] = "check"]
  /\ ran' = Append(ran, held[w]) /\ held' = [held EXCEPT ![w] = NoTask]
  /\ UNCHANGED <<poolVars, callerVars, resetVars, accepted>>

-----------------------------------------------------------------------------
(* wait and wait_for of task_pool                                           *)

CanEnqueue == Len(tasks) < MaxTasks

Call(c) ==
  /\ caller[c] = "idle" /\ calls[c] < MaxCalls
  /\ ResetAlone => resetting = "no"
  /\ calls' = [calls EXCEPT ![c] = @ + 1]
  /\ caller' = [caller EXCEPT ![c] = "check"]
  /\ \E waitFor \in BOOLEAN :
       timed' = IF waitFor THEN timed \cup {c} ELSE timed \ {c}
  /\ UNCHANGED <<poolVars, workerVars, resetVars, ghostVars>>

Push(c) ==
  /\ tasks' = Append(tasks, <<c, calls[c]>>)
  /\ accepted' = accepted \cup {<<c, calls[c]>>}
  /\ caller' = [caller EXCEPT ![c] = "notify"]

Enqueue(c) ==
  /\ caller[c] = "check" /\ CanEnqueue /\ Push(c)
  /\ UNCHANGED <<stopped, workerVars, timed, calls, resetVars, ran>>

EnqueueWait(c) ==
  /\ caller[c] = "check" /\ ~CanEnqueue
  /\ caller' = [caller EXCEPT ![c] = "waiting"]
  /\ UNCHANGED <<poolVars, workerVars, timed, calls, resetVars, ghostVars>>

\* wait_for: the time is over, the predicate is asked once more; and a waking
\* without a reason, after which wait asks it too
TimeOut(c) ==
  /\ c \in timed /\ caller[c] = "waiting"
  /\ \/ CanEnqueue /\ Push(c)
     \/ /\ ~CanEnqueue /\ caller' = [caller EXCEPT ![c] = "idle"]
        /\ UNCHANGED <<tasks, accepted>>
  /\ UNCHANGED <<stopped, workerVars, timed, calls, resetVars, ran>>

CallerWakes(c) ==
  /\ caller[c] = "waiting" /\ caller' = [caller EXCEPT ![c] = "check"]
  /\ UNCHANGED <<poolVars, workerVars, timed, calls, resetVars, ghostVars>>

\* mutant of NotifyWorker: the other condition variable is notified
NotifyCaller(c) ==
  /\ caller[c] = "notify"
  /\ LET waiting == {d \in Callers : caller[d] = "waiting"}
     IN  \E d \in (IF waiting = {} THEN {c} ELSE waiting) : caller' =
           [caller EXCEPT ![d] = "check", ![c] = "idle"]
  /\ UNCHANGED <<poolVars, workerVars, timed, calls, resetVars, ghostVars>>

\* condition.notify_one, then the call returns
NotifyWorker(c) ==
  /\ caller[c] = "notify" /\ caller' = [caller EXCEPT ![c] = "idle"]
  /\ IF \E w \in Workers : worker[w] = "waiting"
     THEN \E w \in Workers : /\ worker[w] = "waiting"
                             /\ worker' = [worker EXCEPT ![w] = "check"]
     ELSE UNCHANGED worker
  /\ UNCHANGED <<poolVars, held, timed, calls, resetVars, ghostVars>>

-----------------------------------------------------------------------------
(* reset: the destructor of thread_pool and its constructor                 *)

Inside == {c \in Callers : caller[c] # "idle"}

Stop ==
  /\ resetting = "no" /\ resets < MaxResets /\ (ResetAlone => Inside = {})
  /\ stopped' = TRUE /\ resetting' = "stopped" /\ resets' = resets + 1
  /\ UNCHANGED <<tasks, workerVars, callerVars, ghostVars>>

NotifyAll ==
  /\ resetting = "stopped" /\ resetting' = "joining"
  /\ worker' = [w \in Workers |-> IF worker[w] = "waiting" THEN "check"
                                  ELSE worker[w]]
  /\ UNCHANGED <<poolVars, held, callerVars, resets, ghostVars>>

\* every worker is joined: the members are destroyed next
Join ==
  /\ resetting = "joining"
  /\ \A w \in Workers : worker[w] \in {"absent", "exited"}
  /\ resetting' = "destroyed"
  /\ UNCHANGED <<poolVars, workerVars, callerVars, resets, ghostVars>>

Threads(ws) == [w \in Workers |-> IF w \in ws THEN "check" ELSE "absent"]

\* the pool is made again at the same place, with any number of workers
Recreate ==
  /\ resetting = "destroyed" /\ resetting' = "no"
  /\ tasks' = <<>> /\ stopped' = FALSE
  /\ \E ws \in (SUBSET Workers) \ {{}} : worker' = Threads(ws)
  /\ UNCHANGED <<held, callerVars, resets, ghostVars>>

-----------------------------------------------------------------------------
\* the constructor of task_pool: as many workers as places in the queue
Init ==
  /\ tasks = <<>> /\ stopped = FALSE
  /\ worker \in {Threads(ws) : ws \in kSubset(MaxTasks, Workers)}
  /\ held = [w \in Workers |-> NoTask]
  /\ caller = [c \in Callers |-> "idle"] /\ timed = {}
  /\ calls = [c \in Callers |-> 0]
  /\ resetting = "no" /\ resets = 0
  /\ accepted = {} /\ ran = <<>>

Works(w) == Check(w) \/ TaskStarts(w) \/ TaskEnds(w)
Proceeds(c) == Enqueue(c) \/ EnqueueWait(c) \/ NotifyWorker(c)
Reset == NotifyAll \/ Join \/ Recreate

Next ==
  \/ \E w \in Workers : Works(w) \/ SpuriousWake(w)
  \/ \E c \in Callers : Call(c) \/ Proceeds(c) \/ TimeOut(c) \/ CallerWakes(c)
  \/ Stop \/ Reset

\* Threads run, and tasks end; no wake-up without a reason is counted on
Fairness ==
  /\ \A w \in Workers : WF_vars(Works(w))
  /\ \A c \in Callers : WF_vars(Proceeds(c))
  /\ WF_vars(Reset)

Spec == Init /\ [][Next]_vars /\ Fairness

-----------------------------------------------------------------------------
(* Properties                                                               *)

TypeOK ==
  /\ tasks \in Seq(Tasks) /\ ran \in Seq(Tasks) /\ accepted \subseteq Tasks
  /\ stopped \in BOOLEAN /\ timed \subseteq Callers
  /\ worker \in [Workers -> {"absent", "check", "waiting", "starting",
                             "running", "exited"}]
  /\ held \in [Workers -> Tasks \cup {NoTask}]
  /\ caller \in [Callers -> {"idle", "check", "waiting", "notify"}]
  /\ calls \in [Callers -> 0..MaxCalls] /\ resets \in 0..MaxResets
  /\ resetting \in {"no", "stopped", "joining", "destroyed"}
  /\ stopped <=> resetting # "no"
  /\ Len(tasks) <= MaxTasks

\* What was accepted is in one place, or has run once.
TasksInOnePlace ==
  /\ IsInjective(tasks \o ran)
  /\ \A w \in Workers : held[w] \notin ToSet(tasks \o ran)
  /\ accepted = ToSet(tasks \o ran) \cup ({held[w] : w \in Workers} \ {NoTask})

\* reset waits for all tasks before it destroys the pool: what was accepted
\* before has run, although the workers are told to stop while it is queued.
ResetDrains == resetting = "destroyed" => ToSet(ran) = accepted

\* Every accepted task runs: no wake-up of a worker is lost.
EveryTaskRuns == \A t \in Tasks : t \in accepted ~> t \in ToSet(ran)

\* A caller that waits for a place in the queue gets one: every start of a
\* task wakes one caller, and a place taken by another leads to another start.
EveryWaiterReturns ==
  \A c \in Callers : caller[c] # "idle" ~> caller[c] = "idle"

\* reset returns: every worker is woken and leaves.
ResetReturns == resetting # "no" ~> resetting = "no"

\* The pool is not destroyed under a caller that waits on its mutex, as all
\* public members are thread safe.
NobodyInside == resetting = "destroyed" => Inside = {}
=============================================================================
