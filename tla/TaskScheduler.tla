--------------------------- MODULE TaskScheduler ---------------------------
(***************************************************************************)
(* Engine/Core/Threading/TaskScheduler: pool threads and the render thread, *)
(* each with a local queue of operations, and the list of remote ones.  An  *)
(* operation is a coroutine suspended in co_await schedule() or             *)
(* schedule_render(); resuming it runs the coroutine on the thread that     *)
(* took the operation, until it awaits again or ends.                       *)
(*                                                                         *)
(* Local queues are modelled as the code has them, an array that doubles    *)
(* and a head, with the head read in one step and written in a later one:   *)
(* any thread may push on the queue of the render thread.  queue_tail is    *)
(* never written, so indices are head values.                               *)
(*                                                                         *)
(* A definition that says "mutant of" is the code with one plausible slip;  *)
(* no behaviour of the model uses it.                                       *)
(***************************************************************************)
EXTENDS Integers, Sequences, SequencesExt

CONSTANTS NumWorkers,    \* max_scheduler
          Renderer,      \* the thread of render_scheduler
          Clients,       \* threads outside, the I/O thread among them
          Coros,         \* coroutines
          RenderCoros,   \* those that await schedule_render()
          None,          \* no coroutine
          MaxHops,       \* bound: operations of a coroutine
          InitialSize,   \* initial_local_queue_size
          MaxLocalSize   \* max_local_queue_size

ASSUME SizesAssumption ==
  /\ NumWorkers \in Nat \ {0} /\ MaxHops \in Nat
  /\ InitialSize \in Nat \ {0} /\ MaxLocalSize \in Nat
  /\ RenderCoros \subseteq Coros /\ None \notin Coros
  /\ Renderer \notin 1 .. NumWorkers

Workers == 1 .. NumWorkers           \* places in schedulers
Queues  == Workers \cup {Renderer}   \* threads with a local queue
Threads == Queues \cup Clients

VARIABLES
  slots, head,      \* queue and queue_head of each thread_state
  remote, taken,    \* lists at queue_tail and queue_head of the Scheduler
  sleeping, event,  \* thread_state::sleeping, wakeup_event
  hops, ended,      \* operations a coroutine began; coroutines that ended
  pc, cur,          \* place of a thread, the coroutine it runs
  oper, target,     \* operation being scheduled, local queue it goes to
  seen, scan,       \* queue_head as read, place in wake_one_thread
  contended         \* history: two threads were in the render queue at once

localVars  == <<slots, head>>
remoteVars == <<remote, taken>>
sleepVars  == <<sleeping, event>>
coroVars   == <<hops, ended>>
operVars   == <<oper, target>>
vars == <<localVars, remoteVars, sleepVars, coroVars, pc, cur, operVars, seen,
          scan, contended>>

Goto(t, place) == pc' = [pc EXCEPT ![t] = place]

\* The local variables of a function that returned have no value any more
Forget(t) == seen' = [seen EXCEPT ![t] = 0]
ForgetCall(t) ==
  /\ oper' = [oper EXCEPT ![t] = None] /\ target' = [target EXCEPT ![t] = None]
  /\ scan' = [scan EXCEPT ![t] = 1]

\* Between its reading of the render thread's queue_head and its writing of it
InRenderQueue(t) ==
  \/ t = Renderer /\ pc[t] = "take"
  \/ pc[t] \in {"store", "publish", "grow"} /\ target[t] = Renderer

\* The thread reads the head of q: another may be between the two already
Notice(t, q) ==
  contended' = \/ contended
               \/ q = Renderer /\ \E u \in Threads \ {t} : InRenderQueue(u)
-----------------------------------------------------------------------------
(* Code of coroutines and clients *)

\* co_await by the coroutine that t runs, or by one that t's code starts
Suspend(t, c) ==
  /\ pc[t] = "code"
  /\ \/ c = cur[t] /\ cur' = [cur EXCEPT ![t] = None]
     \/ hops[c] = 0 /\ (t \in Queues => cur[t] # None) /\ UNCHANGED cur
  /\ hops[c] < MaxHops /\ hops' = [hops EXCEPT ![c] = @ + 1]
  /\ oper' = [oper EXCEPT ![t] = c]
  /\ UNCHANGED <<localVars, remoteVars, sleepVars, ended, seen, scan,
                 contended>>

\* TaskScheduler::schedule_impl: pool threads queue locally, others remotely
Schedule(t, c) ==
  /\ Suspend(t, c)
  /\ target' = [target EXCEPT ![t] = IF t \in Workers THEN t ELSE None]
  /\ Goto(t, IF t \in Workers THEN "enqueue" ELSE "push")

\* ThreadScheduler::schedule_impl of the render scheduler
ScheduleRender(t, c) ==
  /\ c \in RenderCoros /\ Suspend(t, c)
  /\ target' = [target EXCEPT ![t] = Renderer]
  /\ Goto(t, "enqueue")

\* The coroutine ends and resume() returns
End(t) ==
  /\ pc[t] = "code" /\ cur[t] # None
  /\ ended' = ended \cup {cur[t]} /\ cur' = [cur EXCEPT ![t] = None]
  /\ Goto(t, "pop")
  /\ UNCHANGED <<localVars, remoteVars, sleepVars, hops, operVars, seen, scan,
                 contended>>
-----------------------------------------------------------------------------
(* thread_state::try_local_enqueue *)

Mask(q) == Len(slots[q]) - 1

Fits(h, q) == h < Mask(q)

ReadHead(t) ==
  /\ pc[t] = "enqueue"
  /\ Notice(t, target[t])
  /\ seen' = [seen EXCEPT ![t] = head[target[t]]]
  /\ Goto(t, IF Fits(head[target[t]], target[t]) THEN "store" ELSE "grow")
  /\ UNCHANGED <<localVars, remoteVars, sleepVars, coroVars, cur, operVars,
                 scan>>

Store(t) ==
  /\ pc[t] = "store"
  /\ LET q == target[t]
     IN slots' = [slots EXCEPT ![q][(head[q] % Len(slots[q])) + 1] = oper[t]]
  /\ Goto(t, "publish")
  /\ UNCHANGED <<head, remoteVars, sleepVars, coroVars, cur, operVars, seen,
                 scan, contended>>

Publish(t) ==
  /\ pc[t] = "publish"
  /\ head' = [head EXCEPT ![target[t]] = seen[t] + 1]
  /\ Forget(t) /\ Goto(t, "wake")
  /\ UNCHANGED <<slots, remoteVars, sleepVars, coroVars, cur, operVars, scan,
                 contended>>

\* Twice the size, the operations below h, and the new one
ForgetNew(old, h, c) ==                                          \* mutant of
  [i \in 1 .. 2 * Len(old) |-> IF i <= h THEN old[i] ELSE None]
Grown(old, h, c) ==
  [i \in 1 .. 2 * Len(old) |->
     IF i <= h THEN old[i] ELSE IF i = h + 1 THEN c ELSE None]

\* The array is copied and replaced, unless it has the one size that is
\* refused (there the program fails an assertion)
Grow(t) ==
  /\ pc[t] = "grow" /\ Mask(target[t]) # MaxLocalSize
  /\ slots' = [slots EXCEPT ![target[t]] = Grown(@, seen[t], oper[t])]
  /\ head' = [head EXCEPT ![target[t]] = seen[t] + 1]
  /\ Forget(t) /\ Goto(t, "wake")
  /\ UNCHANGED <<remoteVars, sleepVars, coroVars, cur, operVars, scan,
                 contended>>
-----------------------------------------------------------------------------
(* The remote list *)

\* TaskScheduler::remote_enqueue, at its successful compare-exchange
RemoteEnqueue(t) ==
  /\ pc[t] = "push"
  /\ remote' = <<oper[t]>> \o remote
  /\ Goto(t, "wake")
  /\ UNCHANGED <<localVars, taken, sleepVars, coroVars, cur, operVars, seen,
                 scan, contended>>

NotReversed(list) == list                                        \* mutant of
ReverseList(list) == Reverse(list)

\* TaskScheduler::get_remote, all of it under queue_head_mutex
GetRemote(t) ==
  /\ pc[t] = "remote"
  /\ LET list == IF taken # <<>> THEN taken ELSE ReverseList(remote)
     IN \/ /\ list # <<>>
           /\ taken' = Tail(list)
           /\ remote' = IF taken # <<>> THEN remote ELSE <<>>
           /\ cur' = [cur EXCEPT ![t] = Head(list)]
           /\ Goto(t, "code")
        \/ list = <<>> /\ Goto(t, "idle") /\ UNCHANGED <<remoteVars, cur>>
  /\ UNCHANGED <<localVars, sleepVars, coroVars, operVars, seen, scan,
                 contended>>
-----------------------------------------------------------------------------
(* Waking *)

GiveUpEarly(i) == TRUE                                           \* mutant of
LastScheduler(i) == i = NumWorkers

\* wake_up of the render scheduler, or one turn of wake_one_thread
TryWakeUp(t) ==
  /\ pc[t] = "wake"
  /\ LET q    == IF target[t] = Renderer THEN Renderer ELSE scan[t]
         back == IF t \in Queues /\ cur[t] = None THEN "pop" ELSE "code"
     IN \/ /\ sleeping[q]
           /\ sleeping' = [sleeping EXCEPT ![q] = FALSE]
           /\ event' = [event EXCEPT ![q] = TRUE]
           /\ Goto(t, back) /\ ForgetCall(t)
        \/ /\ ~ sleeping[q]
           /\ IF q = Renderer \/ LastScheduler(q)
              THEN Goto(t, back) /\ ForgetCall(t)
              ELSE scan' = [scan EXCEPT ![t] = @ + 1] /\ UNCHANGED <<pc, operVars>>
           /\ UNCHANGED sleepVars
  /\ UNCHANGED <<localVars, remoteVars, coroVars, cur, seen, contended>>
-----------------------------------------------------------------------------
(* ThreadScheduler::run *)

OneIsNone(h) == h <= 1                                           \* mutant of
NothingQueued(h) == h <= 0

\* try_local_pop: the head is read, then stored, then the operation is loaded
PopHead(t) ==
  /\ pc[t] = "pop"
  /\ IF NothingQueued(head[t])
     THEN Goto(t, "remote") /\ UNCHANGED <<seen, contended>>
     ELSE /\ Goto(t, "take") /\ seen' = [seen EXCEPT ![t] = head[t]]
          /\ Notice(t, t)
  /\ UNCHANGED <<localVars, remoteVars, sleepVars, coroVars, cur, operVars,
                 scan>>

TakeLocal(t) ==
  /\ pc[t] = "take"
  /\ head' = [head EXCEPT ![t] = seen[t] - 1]
  /\ cur' = [cur EXCEPT ![t] = slots[t][seen[t]]]
  /\ Forget(t) /\ Goto(t, "code")
  /\ UNCHANGED <<slots, remoteVars, sleepVars, coroVars, operVars, scan,
                 contended>>

\* notify_intent_to_sleep
AnnounceSleep(t) ==
  /\ pc[t] = "idle"
  /\ sleeping' = [sleeping EXCEPT ![t] = TRUE]
  /\ Goto(t, "asleep")
  /\ UNCHANGED <<localVars, remoteVars, event, coroVars, cur, operVars, seen,
                 scan, contended>>

\* sleep_until_woken
Woken(t) ==
  /\ pc[t] = "asleep" /\ event[t]
  /\ event' = [event EXCEPT ![t] = FALSE]
  /\ Goto(t, "pop")
  /\ UNCHANGED <<localVars, remoteVars, sleeping, coroVars, cur, operVars, seen,
                 scan, contended>>
-----------------------------------------------------------------------------
\* The threads have started, and look for work for the first time
Init ==
  /\ slots = [q \in Queues |-> [i \in 1 .. InitialSize |-> None]]
  /\ head = [q \in Queues |-> 0]
  /\ remote = <<>> /\ taken = <<>>
  /\ sleeping = [q \in Queues |-> FALSE] /\ event = [q \in Queues |-> FALSE]
  /\ hops = [c \in Coros |-> 0] /\ ended = {}
  /\ pc = [t \in Threads |-> IF t \in Queues THEN "pop" ELSE "code"]
  /\ cur = [t \in Threads |-> None]
  /\ oper = [t \in Threads |-> None] /\ target = [t \in Threads |-> None]
  /\ seen = [t \in Threads |-> 0] /\ scan = [t \in Threads |-> 1]
  /\ contended = FALSE

\* What a thread does inside the scheduler
Step(t) ==
  \/ ReadHead(t) \/ Store(t) \/ Publish(t) \/ Grow(t) \/ RemoteEnqueue(t)
  \/ TryWakeUp(t)
  \/ t \in Queues /\ (\/ PopHead(t) \/ TakeLocal(t) \/ GetRemote(t)
                      \/ AnnounceSleep(t) \/ Woken(t))

\* What a coroutine or a client does
Code(t) == (\E c \in Coros : Schedule(t, c) \/ ScheduleRender(t, c)) \/ End(t)

Next == \E t \in Threads : Step(t) \/ Code(t)

\* Threads run, and so do the coroutines on them; clients need not do anything
Fairness ==
  /\ \A q \in Queues : WF_vars(Step(q) \/ Code(q))
  /\ \A t \in Clients : WF_vars(Step(t))

Spec == Init /\ [][Next]_vars /\ Fairness
-----------------------------------------------------------------------------
(* Properties *)

Enqueuing == {"enqueue", "store", "publish", "grow", "push"}
Popping   == {"pop", "take", "remote", "idle", "asleep"}

TypeOK ==
  /\ slots \in [Queues -> Seq(Coros \cup {None})]
  /\ head \in [Queues -> Nat] /\ \A q \in Queues : head[q] < Len(slots[q])
  /\ remote \in Seq(Coros) /\ taken \in Seq(Coros)
  /\ sleeping \in [Queues -> BOOLEAN] /\ event \in [Queues -> BOOLEAN]
  /\ hops \in [Coros -> 0 .. MaxHops] /\ ended \subseteq Coros
  /\ pc \in [Threads -> Enqueuing \cup Popping \cup {"code", "wake"}]
  /\ cur \in [Threads -> Coros \cup {None}]
  /\ oper \in [Threads -> Coros \cup {None}]
  /\ target \in [Threads -> Queues \cup {None}]
  /\ seen \in [Threads -> Nat] /\ scan \in [Threads -> Workers]
  /\ contended \in BOOLEAN

Queued(q, c) == {i \in 1 .. head[q] : slots[q][i] = c}

\* Everything that will resume the coroutine, or runs it
Holders(c) ==
  {<<"local", q, i>> : q \in {p \in Queues : Queued(p, c) # {}},
                       i \in UNION {Queued(p, c) : p \in Queues}}
  \cup {<<"remote", i>> : i \in {j \in DOMAIN remote : remote[j] = c}}
  \cup {<<"taken", i>> : i \in {j \in DOMAIN taken : taken[j] = c}}
  \cup {<<"enqueuing", t>> :
          t \in {u \in Threads : oper[u] = c /\ pc[u] \in Enqueuing}}
  \cup {<<"running", t>> : t \in {u \in Threads : cur[u] = c}}

(* What can be relied on.  The queue of the render thread is written without  *)
(* a lock, so once two threads were in it at once the coroutines that use it *)
(* may be lost or resumed twice; the others never come to it.               *)
Tracked == Coros \ (IF contended THEN RenderCoros ELSE {})

(* From its first co_await to its end a coroutine is in one place only: no   *)
(* operation is lost in a queue, in the growth of one or between lists, and  *)
(* none is resumed twice.  For those that await schedule_render() until two *)
(* threads are in the render thread's queue at once, for the others always. *)
OnePlace ==
  /\ TypeOK
  /\ \A c \in Tracked :
       IF hops[c] > 0 /\ c \notin ended
       THEN \E h \in Holders(c) : Holders(c) = {h}
       ELSE Holders(c) = {}

RemoteOrder == taken \o Reverse(remote)

(* The two lists, one pushed at the front and one taken from the front, are  *)
(* together a first-in first-out queue.                                     *)
RemoteFifo ==
  [][\/ RemoteOrder' = RemoteOrder
     \/ \E t \in Threads : RemoteOrder' = Append(RemoteOrder, oper[t])
     \/ RemoteOrder # <<>> /\ RemoteOrder' = Tail(RemoteOrder)]_remoteVars

(* A pool thread does not sleep over its own queue, and comes to the oldest  *)
(* operation in it.                                                         *)
LocalWorkRuns ==
  \A c \in Coros : (\E q \in Workers : Queued(q, c) # {})
                    ~> \A q \in Workers : Queued(q, c) = {}

(* A remote operation is taken if, when its wake-up begins, some pool thread *)
(* has announced that it sleeps.                                            *)
SleeperServes ==
  \A c \in Coros :
    /\ \E t \in Threads : pc[t] = "wake" /\ oper[t] = c /\ scan[t] = 1
    /\ Contains(remote, c) /\ \E q \in Workers : sleeping[q]
    ~> ~ Contains(RemoteOrder, c)

(* "Keep each thread's local queue under 1MB"; at the maximum "we don't want *)
(* to grow it any further".                                                 *)
LocalQueueBounded == \A q \in Queues : Len(slots[q]) <= MaxLocalSize

(* "Copy the existing operations", for which "we hold the lock": what the     *)
(* queue held when the larger array is installed, it holds afterwards.      *)
GrowthKeepsOperations ==
  [][\A q \in Queues, c \in Coros :
       Len(slots'[q]) # Len(slots[q]) /\ Queued(q, c) # {} => Queued(q, c)' # {}]_localVars
=============================================================================
