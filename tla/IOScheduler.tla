---------------------------- MODULE IOScheduler ----------------------------
(***************************************************************************)
(* Engine/Core/Coroutine/IOScheduler and the overlapped file operations     *)
(* that complete through it: coroutines await schedule(), or a read or      *)
(* write of a file; I/O threads take events from the completion port and    *)
(* resume them.  The kernel finishes a file operation when it likes, also   *)
(* while the call that started it has not returned yet.                     *)
(*                                                                         *)
(* A definition that says "mutant of" is the code with one plausible slip;  *)
(* no behaviour of the model uses it.                                       *)
(***************************************************************************)
EXTENDS Integers, Sequences

CONSTANTS IOThreads,  \* threads in process_events
          Clients,    \* threads outside, where coroutines begin
          Coros,      \* coroutines
          None,       \* no coroutine
          MaxAwaits   \* bound: awaits of a coroutine

ASSUME CorosAssumption ==
  /\ None \notin Coros \cup {"done", "error", "pending"}
  /\ MaxAwaits \in Nat /\ IOThreads \cap Clients = {}

Threads  == IOThreads \cup Clients
Outcomes == {"done", "error"}       \* how a file operation can end

VARIABLES
  port,              \* events of the completion port
  kernel,            \* coroutines whose file operation is pending
  outcome,           \* how the last file operation of a coroutine ended
  overflow,          \* list at operations_head
  rest,              \* list an I/O thread took from there
  result,            \* error_code and bytes_transferred of that operation
  pc, cur,           \* place of a thread, the coroutine it runs
  oper, error,       \* operation a thread starts, errorCode of try_start
  awaits, ended,     \* awaits of a coroutine; coroutines that ended
  dropped            \* ghost: schedule()d, and the event names no coroutine

listVars  == <<overflow, rest>>
kernelVars == <<kernel, outcome>>
coroVars  == <<awaits, ended, dropped>>
vars == <<port, kernelVars, listVars, result, pc, cur, oper, error, coroVars>>

\* An event of a file operation (of), or one that was posted (for, a ghost)
\* with the address of a coroutine as completion key
Completion(c) == [of |-> c, key |-> None, for |-> None]
Posted(c, k)  == [of |-> None, key |-> k, for |-> c]

Goto(t, place) == pc' = [pc EXCEPT ![t] = place]

\* Where a thread goes when the coroutine it resumed or began has left it
Outside(t) == IF t \in IOThreads THEN "drain" ELSE "code"
Leave(t) ==
  /\ cur' = [cur EXCEPT ![t] = None] /\ oper' = [oper EXCEPT ![t] = None]
  /\ error' = [error EXCEPT ![t] = None] /\ Goto(t, Outside(t))

\* The coroutine that t runs awaits an operation
Await(t) ==
  /\ pc[t] = "code" /\ cur[t] # None /\ awaits[cur[t]] < MaxAwaits
  /\ awaits' = [awaits EXCEPT ![cur[t]] = @ + 1]
-----------------------------------------------------------------------------
(* Coroutines *)

Begin(t, c) ==
  /\ t \in Clients /\ pc[t] = "code" /\ cur[t] = None
  /\ awaits[c] = 0 /\ c \notin ended /\ \A u \in Threads : cur[u] # c
  /\ cur' = [cur EXCEPT ![t] = c]
  /\ UNCHANGED <<port, kernelVars, listVars, result, pc, oper, error, coroVars>>

End(t) ==
  /\ pc[t] = "code" /\ cur[t] # None
  /\ ended' = ended \cup {cur[t]} /\ Leave(t)
  /\ UNCHANGED <<port, kernelVars, listVars, result, awaits, dropped>>
-----------------------------------------------------------------------------
(* co_await schedule() *)

\* schedule_operation::continuation, after the parameter of the same name was
\* assigned to itself
Continuation(c) == None

\* await_suspend and schedule_impl: posted, or to be pushed on the list
Schedule(t) ==
  /\ Await(t)
  /\ \/ /\ port' = Append(port, Posted(cur[t], Continuation(cur[t])))
        /\ Leave(t)
     \/ /\ oper' = [oper EXCEPT ![t] = cur[t]]
        /\ cur' = [cur EXCEPT ![t] = None]
        /\ Goto(t, "push") /\ UNCHANGED <<port, error>>
  /\ UNCHANGED <<kernelVars, listVars, result, ended, dropped>>

PushOverflow(t) ==
  /\ pc[t] = "push"
  /\ overflow' = <<oper[t]>> \o overflow
  /\ Leave(t)
  /\ UNCHANGED <<port, kernelVars, rest, result, coroVars>>
-----------------------------------------------------------------------------
(* co_await of a file operation *)

\* With FILE_SKIP_COMPLETION_PORT_ON_SUCCESS an operation that ended at once
\* has no event
AlsoEvent(c) == <<Completion(c)>>                                \* mutant of
EventAtOnce(c) == <<>>

\* await_suspend, up to the return of ReadFile or WriteFile; the operation is
\* a new one, its fields are zero
StartFileOperation(t) ==
  /\ Await(t)
  /\ LET c == cur[t]
     IN /\ \/ \E o \in Outcomes :
                /\ outcome' = [outcome EXCEPT ![c] = o]
                /\ error' = [error EXCEPT ![t] = o]
                /\ port' = port \o EventAtOnce(c) /\ UNCHANGED kernel
           \/ /\ kernel' = kernel \cup {c}
              /\ error' = [error EXCEPT ![t] = "pending"]
              /\ UNCHANGED <<port, outcome>>
        /\ result' = [result EXCEPT ![c] = "none"]
        /\ oper' = [oper EXCEPT ![t] = c] /\ cur' = [cur EXCEPT ![t] = None]
  /\ Goto(t, "started")
  /\ UNCHANGED <<listVars, ended, dropped>>

\* What try_start stores in the operation
StoreAlways(t) == [result EXCEPT ![oper[t]] = error[t]]          \* mutant of
StoreIfAtOnce(t) ==
  IF error[t] = "pending" THEN result
                          ELSE [result EXCEPT ![oper[t]] = error[t]]

\* The rest of try_start: go on in the coroutine, or suspend it
ReturnFromStart(t) ==
  /\ pc[t] = "started"
  /\ result' = StoreIfAtOnce(t)
  /\ \/ error[t] = "pending" /\ Leave(t)
     \/ /\ error[t] # "pending"
        /\ cur' = [cur EXCEPT ![t] = oper[t]]
        /\ oper' = [oper EXCEPT ![t] = None]
        /\ error' = [error EXCEPT ![t] = None] /\ Goto(t, "code")
  /\ UNCHANGED <<port, kernelVars, listVars, coroVars>>

\* The kernel finishes an operation it had left pending
KernelCompletes(c) ==
  /\ c \in kernel /\ kernel' = kernel \ {c}
  /\ \E o \in Outcomes : outcome' = [outcome EXCEPT ![c] = o]
  /\ port' = Append(port, Completion(c))
  /\ UNCHANGED <<listVars, result, pc, cur, oper, error, coroVars>>
-----------------------------------------------------------------------------
(* The event loop *)

\* try_reschedule_overflow_operations: take the list
TakeOverflow(t) ==
  /\ pc[t] = "drain"
  /\ rest' = [rest EXCEPT ![t] = overflow] /\ overflow' = <<>>
  /\ Goto(t, "repost")
  /\ UNCHANGED <<port, kernelVars, result, cur, oper, error, coroVars>>

\* ... and post one after the other
Repost(t) ==
  /\ pc[t] = "repost"
  /\ \/ rest[t] = <<>> /\ Goto(t, "wait") /\ UNCHANGED <<port, rest>>
     \/ /\ rest[t] # <<>>
        /\ LET c == Head(rest[t])
           IN port' = Append(port, Posted(c, Continuation(c)))
        /\ rest' = [rest EXCEPT ![t] = Tail(@)] /\ UNCHANGED pc
     \/ rest[t] # <<>> /\ Goto(t, "putback") /\ UNCHANGED <<port, rest>>
  /\ UNCHANGED <<kernelVars, overflow, result, cur, oper, error, coroVars>>

\* ... or put back what is left, in front of what others pushed meanwhile
OnlyLeft(left) == left                                           \* mutant of
InFront(left) == left \o overflow

PutBack(t) ==
  /\ pc[t] = "putback"
  /\ overflow' = InFront(rest[t]) /\ rest' = [rest EXCEPT ![t] = <<>>]
  /\ Goto(t, "wait")
  /\ UNCHANGED <<port, kernelVars, result, cur, oper, error, coroVars>>

\* An event that names nothing is a request to look again
StopOnEmpty == "stopped"                                         \* mutant of
AfterEmpty == "drain"

\* GetQueuedCompletionStatus, and on_operation_completed for a file operation
TakeEvent(t) ==
  /\ pc[t] = "wait" /\ port # <<>> /\ port' = Tail(port)
  /\ LET e == Head(port)
         c == IF e.of # None THEN e.of ELSE e.key
     IN /\ result' = IF e.of # None THEN [result EXCEPT ![c] = outcome[c]]
                                    ELSE result
        /\ cur' = [cur EXCEPT ![t] = c]
        /\ Goto(t, IF c # None THEN "code" ELSE AfterEmpty)
        /\ dropped' = IF c # None THEN dropped ELSE dropped \cup {e.for}
  /\ UNCHANGED <<kernelVars, listVars, oper, error, awaits, ended>>
-----------------------------------------------------------------------------
Init ==
  /\ port = <<>> /\ kernel = {} /\ outcome = [c \in Coros |-> "none"]
  /\ overflow = <<>> /\ rest = [t \in IOThreads |-> <<>>]
  /\ result = [c \in Coros |-> "none"]
  /\ pc = [t \in Threads |-> Outside(t)]
  /\ cur = [t \in Threads |-> None] /\ oper = [t \in Threads |-> None]
  /\ error = [t \in Threads |-> None]
  /\ awaits = [c \in Coros |-> 0] /\ ended = {} /\ dropped = {}

\* What a thread does once it is in a call or a coroutine
Step(t) ==
  \/ End(t) \/ Schedule(t) \/ PushOverflow(t)
  \/ StartFileOperation(t) \/ ReturnFromStart(t)
  \/ t \in IOThreads /\ (TakeOverflow(t) \/ Repost(t) \/ PutBack(t) \/ TakeEvent(t))

Next ==
  \/ \E t \in Threads : Step(t) \/ \E c \in Coros : Begin(t, c)
  \/ \E c \in Coros : KernelCompletes(c)

Fairness ==
  /\ \A t \in Threads : WF_vars(Step(t))
  /\ \A c \in Coros : WF_vars(KernelCompletes(c))

Spec == Init /\ [][Next]_vars /\ Fairness
-----------------------------------------------------------------------------
(* Properties *)

TypeOK ==
  /\ port \in Seq([of : Coros \cup {None}, key : Coros \cup {None},
                   for : Coros \cup {None}])
  /\ kernel \subseteq Coros /\ outcome \in [Coros -> Outcomes \cup {"none"}]
  /\ overflow \in Seq(Coros) /\ rest \in [IOThreads -> Seq(Coros)]
  /\ result \in [Coros -> Outcomes \cup {"none"}]
  /\ pc \in [Threads -> {"code", "push", "started", "drain", "repost",
                         "putback", "wait"}]
  /\ cur \in [Threads -> Coros \cup {None}]
  /\ oper \in [Threads -> Coros \cup {None}]
  /\ error \in [Threads -> Outcomes \cup {"pending", None}]
  /\ awaits \in [Coros -> 0 .. MaxAwaits]
  /\ ended \subseteq Coros /\ dropped \subseteq Coros

\* What runs a coroutine, will resume it, or has forgotten it.  A thread that
\* started a pending operation has nothing to do with it any more.
Places(c) ==
  {<<"running", t>> : t \in {u \in Threads : cur[u] = c}}
  \cup {<<"starting", t>> :
          t \in {u \in Threads : oper[u] = c /\ error[u] # "pending"}}
  \cup {<<"kernel">> : k \in kernel \cap {c}}
  \cup {<<"port", i>> : i \in {j \in DOMAIN port : c \in {port[j].of, port[j].for}}}
  \cup {<<"overflow", i>> : i \in {j \in DOMAIN overflow : overflow[j] = c}}
  \cup (UNION {{<<"rest", t, i>> : i \in {j \in DOMAIN rest[t] : rest[t][j] = c}} :
               t \in IOThreads})
  \cup {<<"dropped">> : d \in dropped \cap {c}}

(* A coroutine that has begun and not ended is in one place: an operation    *)
(* is not lost when the list of overflow operations is put back while others *)
(* push on it, and none is resumed by its event and by its starter.         *)
OnePlace ==
  /\ TypeOK
  /\ \A c \in Coros :
       IF awaits[c] > 0 /\ c \notin ended
       THEN \E p \in Places(c) : Places(c) = {p}
       ELSE c \in ended => Places(c) = {}

(* What a running coroutine reads of its last file operation is how that one *)
(* ended: the thread that started it does not write over it when the         *)
(* completion was faster.                                                   *)
ResultsOwn ==
  \A t \in Threads : cur[t] # None => result[cur[t]] = outcome[cur[t]]

(* A pending operation resumes its coroutine.                               *)
FileAwaitsReturn ==
  \A c \in Coros : c \in kernel ~> \E t \in IOThreads : cur[t] = c

(* schedule() "suspends the awaiting coroutine and reschedules it for        *)
(* resumption on an I/O thread".                                            *)
ScheduleResumes ==
  \A c \in Coros :
    (\E i \in DOMAIN port : port[i].for = c) ~> \E t \in IOThreads : cur[t] = c
=============================================================================
