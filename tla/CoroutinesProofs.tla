--------------------------- MODULE CoroutinesProofs ---------------------------
(***************************************************************************)
(* Proofs about Coroutines, for any number of tasks and threads: the        *)
(* awaiting coroutine goes on once, nothing is used after SyncWait returned, *)
(* and the whole implements ForkJoin.  What carries the argument is that     *)
(* when_all_counter::count is the number of tasks that have not been counted *)
(* down, and one more until the awaiting coroutine has been.                *)
(***************************************************************************)
EXTENDS Coroutines, FiniteSetTheorems, TLAPS

\* Where pool threads and the waiter can be
PoolPlaces == {"idle", "task", "notify", "resume", "set", "wake"}
Awaiting   == {"set", "wake", "load", "compare", "asleep", "returned"}
WaiterPlaces == {"loop", "task", "notify", "await"} \cup Awaiting

Places ==
  /\ pc \in [Threads -> PoolPlaces \cup WaiterPlaces]
  /\ \A t \in Pool : pc[t] \in PoolPlaces
  /\ pc[Waiter] \in WaiterPlaces

\* Tasks from the next one on are new, others are not
Started == \A k \in Tasks : k > started <=> task[k] = "new"

\* The task a thread runs or ends, which no other thread does
OneRunner ==
  /\ \A t \in Threads : IF pc[t] \in {"task", "notify"} THEN cur[t] \in Tasks
                                                       ELSE cur[t] = NoTask
  /\ \A t \in Threads : pc[t] = "task" => task[cur[t]] = "running"
  /\ \A t \in Threads : pc[t] = "notify" => task[cur[t]] = "ended"
  /\ \A t, u \in Threads : cur[t] = cur[u] /\ t # u => cur[t] = NoTask

\* Tasks that have not been counted down
Open == {k \in Tasks : task[k] # "ended" \/ \E t \in Threads : cur[t] = k}
Awaited == IF pc[Waiter] \in Awaiting THEN 0 ELSE 1
CountExact == count = Cardinality(Open) + Awaited

Last == {"resume", "set", "wake"}

\* Who has counted to zero is alone on its way to the event
LastOne ==
  /\ \A t, u \in Threads : pc[t] \in Last /\ pc[u] \in Last => t = u
  /\ \A t \in Threads : pc[t] \in Last => count = 0
  /\ \A t \in Threads : pc[t] = "resume" => resumes = 0 /\ value = 0
  /\ \A t \in Threads : pc[t] = "set" => resumes = 1 /\ value = 0
  /\ \A t \in Threads : pc[t] = "wake" => value = 1
  /\ resumes \in {0, 1}
  /\ value = 1 => resumes = 1
  /\ resumes = 1 => count = 0
  /\ pc[Waiter] = "returned" => value = 1
  /\ pc[Waiter] \in Awaiting \cup {"await"} => coroutine

IInv == TypeOK /\ Places /\ Started /\ OneRunner /\ CountExact /\ LastOne

LEMMA ThreadFacts == /\ Waiter \in Threads /\ Waiter \notin Pool
                     /\ \A t \in Pool : t \in Threads
                     /\ \A t \in Threads : t = Waiter \/ t \in Pool
BY CoroutinesAssumption DEF Threads

LEMMA TaskFacts == /\ IsFiniteSet(Tasks) /\ Cardinality(Tasks) = N
                   /\ NoTask \notin Tasks
BY CoroutinesAssumption, FS_Interval DEF Tasks, NoTask

LEMMA OpenFacts ==
  /\ IsFiniteSet(Open) /\ Cardinality(Open) \in Nat
  /\ Cardinality(Open) = 0 <=> Open = {}
<1>1. Open \in SUBSET Tasks
  BY DEF Open
<1> QED
  BY <1>1, TaskFacts, FS_Subset, FS_CardinalityType, FS_EmptySet

LEMMA InitIInv == Init => IInv
<1> SUFFICES ASSUME Init PROVE IInv
  OBVIOUS
<1> USE ThreadFacts, CoroutinesAssumption
<1>1. TypeOK
  <2>1. cur \in [Threads -> Tasks \cup {NoTask}] /\ count \in 0 .. N + 1
    BY DEF Init, InitialCount
  <2>2. awaits \in [Tasks -> 0 .. MaxAwaits]
    BY DEF Init
  <2>3. coroutine \in BOOLEAN
    BY DEF Init
  <2>4. pc \in [Threads -> {"loop", "idle", "task", "notify", "resume", "await",
                         "set", "wake", "load", "compare", "asleep",
                         "returned"}]
    BY DEF Init
  <2>5. task \in [Tasks -> {"new", "running", "suspended", "ended"}]
    BY DEF Init
  <2> QED
    BY <2>1, <2>2, <2>3, <2>4, <2>5 DEF Init, TypeOK
<1>2. Places
  BY DEF Init, Places, PoolPlaces, WaiterPlaces
<1>3. Started
  BY DEF Init, Started, Tasks
<1>4. OneRunner
  BY DEF Init, OneRunner
<1>5. CountExact
  <2>1. Open = Tasks
    BY DEF Init, Open
  <2> QED
    BY <2>1, TaskFacts DEF Init, CountExact, Awaited, Awaiting, InitialCount
<1>6. LastOne
  BY DEF Init, LastOne, Last, Awaiting
<1> QED
  BY <1>1, <1>2, <1>3, <1>4, <1>5, <1>6 DEF IInv

\* The waiter's own count is still to come while it runs a task
LEMMA WaiterNotLast ==
  ASSUME IInv, pc[Waiter] = "notify"
  PROVE  ~ IsLast(count)
<1>1. cur[Waiter] \in Open /\ Awaited = 1
  BY ThreadFacts DEF IInv, OneRunner, Open, Awaited, Awaiting
<1> QED
  BY <1>1, OpenFacts DEF IInv, CountExact, IsLast

\* Threads stay where they can be; the waiter never counts to zero before it
\* awaits
LEMMA PlacesStep == IInv /\ [Next]_vars => Places'
<1> SUFFICES ASSUME IInv, [Next]_vars PROVE Places'
  OBVIOUS
<1> USE ThreadFacts DEF IInv
<1>1. CASE StartTask
  BY <1>1 DEF StartTask, Goto, Places, WaiterPlaces
<1>2. CASE StoreAwaiting
  BY <1>2 DEF StoreAwaiting, Goto, Places, WaiterPlaces
<1>3. CASE TryAwait
  BY <1>3 DEF TryAwait, Goto, Places, WaiterPlaces, Awaiting
<1>4. CASE LoadValue
  BY <1>4 DEF LoadValue, Goto, Places, WaiterPlaces, Awaiting
<1>5. CASE WaitOnAddress
  BY <1>5 DEF WaitOnAddress, Goto, Places, WaiterPlaces, Awaiting
<1>6. CASE SpuriousWake
  BY <1>6 DEF SpuriousWake, LookAgain, Goto, Places, WaiterPlaces, Awaiting
<1>7. ASSUME NEW t \in Threads, Suspend(t) PROVE Places'
  BY <1>7 DEF Suspend, Back, Goto, Places, PoolPlaces, WaiterPlaces
<1>8. ASSUME NEW t \in Threads, EndTask(t) PROVE Places'
  BY <1>8 DEF EndTask, Goto, Places, PoolPlaces, WaiterPlaces
<1>9. ASSUME NEW t \in Threads, Notify(t) PROVE Places'
  <2>1. t = Waiter => ~ IsLast(count)
    BY <1>9, WaiterNotLast DEF Notify
  <2> QED
    BY <1>9, <2>1 DEF Notify, Goto, Back, Places, PoolPlaces, WaiterPlaces
<1>10. ASSUME NEW t \in Threads, ResumeAwaiting(t) PROVE Places'
  BY <1>10 DEF ResumeAwaiting, Goto, Places, PoolPlaces, WaiterPlaces, Awaiting
<1>11. ASSUME NEW t \in Threads, SetEvent(t) PROVE Places'
  BY <1>11 DEF SetEvent, Goto, Places, PoolPlaces, WaiterPlaces, Awaiting
<1>12. ASSUME NEW t \in Threads, Wake(t) PROVE Places'
  BY <1>12 DEF Wake, Places, PoolPlaces, WaiterPlaces, Awaiting
<1>13. ASSUME NEW t \in Pool, NEW k \in Tasks, ResumeTask(t, k) PROVE Places'
  BY <1>13 DEF ResumeTask, Goto, Places, PoolPlaces
<1>14. CASE UNCHANGED vars
  BY <1>14 DEF vars, taskVars, counterVars, Places
<1> QED
  BY <1>1, <1>2, <1>3, <1>4, <1>5, <1>6, <1>7, <1>8, <1>9, <1>10, <1>11, <1>12,
     <1>13, <1>14
     DEF Next, WaiterStep, ThreadStep

\* Every variable keeps its type
LEMMA TypeStep == IInv /\ [Next]_vars => TypeOK'
<1> SUFFICES ASSUME IInv, [Next]_vars PROVE TypeOK'
  OBVIOUS
<1> USE ThreadFacts DEF IInv
<1>1. CASE StartTask
  BY <1>1, CoroutinesAssumption DEF StartTask, Goto, counterVars, TypeOK, Tasks
<1>2. CASE StoreAwaiting
  BY <1>2 DEF StoreAwaiting, Goto, taskVars, TypeOK
<1>3. CASE TryAwait
  <2>1. count' \in 0 .. N + 1
    BY <1>3, OpenFacts, CoroutinesAssumption
       DEF TryAwait, CountExact, Awaited, Awaiting, TypeOK
  <2> QED
    BY <1>3, <2>1 DEF TryAwait, Goto, taskVars, TypeOK
<1>4. CASE LoadValue
  BY <1>4 DEF LoadValue, Goto, taskVars, counterVars, TypeOK
<1>5. CASE WaitOnAddress
  BY <1>5 DEF WaitOnAddress, Goto, taskVars, counterVars, TypeOK
<1>6. CASE SpuriousWake
  BY <1>6 DEF SpuriousWake, LookAgain, Goto, taskVars, counterVars, TypeOK
<1>7. ASSUME NEW t \in Threads, Suspend(t) PROVE TypeOK'
  BY <1>7, CoroutinesAssumption
     DEF Suspend, Back, Goto, OneRunner, TypeOK, counterVars
<1>8. ASSUME NEW t \in Threads, EndTask(t) PROVE TypeOK'
  BY <1>8 DEF EndTask, Goto, counterVars, TypeOK
<1>9. ASSUME NEW t \in Threads, Notify(t) PROVE TypeOK'
  <2>1. cur[t] \in Open
    BY <1>9 DEF Notify, OneRunner, Open
  <2>2. count' \in 0 .. N + 1
    BY <1>9, <2>1, OpenFacts, CoroutinesAssumption
       DEF Notify, CountExact, Awaited, TypeOK
  <2> QED
    BY <1>9, <2>2 DEF Notify, Goto, Back, taskVars, TypeOK
<1>10. ASSUME NEW t \in Threads, ResumeAwaiting(t) PROVE TypeOK'
  BY <1>10 DEF ResumeAwaiting, Goto, taskVars, TypeOK
<1>11. ASSUME NEW t \in Threads, SetEvent(t) PROVE TypeOK'
  BY <1>11 DEF SetEvent, Goto, taskVars, counterVars, TypeOK
<1>12. ASSUME NEW t \in Threads, Wake(t) PROVE TypeOK'
  BY <1>12 DEF Wake, taskVars, counterVars, TypeOK
<1>13. ASSUME NEW t \in Pool, NEW k \in Tasks, ResumeTask(t, k) PROVE TypeOK'
  BY <1>13 DEF ResumeTask, Goto, counterVars, TypeOK
<1>14. CASE UNCHANGED vars
  BY <1>14 DEF vars, taskVars, counterVars, TypeOK
<1> QED
  BY <1>1, <1>2, <1>3, <1>4, <1>5, <1>6, <1>7, <1>8, <1>9, <1>10, <1>11, <1>12,
     <1>13, <1>14
     DEF Next, WaiterStep, ThreadStep

\* The loop starts the tasks in turn
LEMMA StartedStep == IInv /\ [Next]_vars => Started'
<1> SUFFICES ASSUME IInv, [Next]_vars PROVE Started'
  OBVIOUS
<1> USE ThreadFacts DEF IInv
<1>1. CASE StartTask
  BY <1>1 DEF StartTask, Started, Tasks, TypeOK
<1>2. CASE StoreAwaiting
  BY <1>2 DEF StoreAwaiting, taskVars, Started
<1>3. CASE TryAwait
  BY <1>3 DEF TryAwait, taskVars, Started
<1>4. CASE LoadValue
  BY <1>4 DEF LoadValue, taskVars, Started
<1>5. CASE WaitOnAddress
  BY <1>5 DEF WaitOnAddress, taskVars, Started
<1>6. CASE SpuriousWake
  BY <1>6 DEF SpuriousWake, taskVars, Started
<1>7. ASSUME NEW t \in Threads, Suspend(t) PROVE Started'
  BY <1>7 DEF Suspend, Started, OneRunner
<1>8. ASSUME NEW t \in Threads, EndTask(t) PROVE Started'
  BY <1>8 DEF EndTask, Started, OneRunner
<1>9. ASSUME NEW t \in Threads, Notify(t) PROVE Started'
  BY <1>9 DEF Notify, taskVars, Started
<1>10. ASSUME NEW t \in Threads, ResumeAwaiting(t) PROVE Started'
  BY <1>10 DEF ResumeAwaiting, taskVars, Started
<1>11. ASSUME NEW t \in Threads, SetEvent(t) PROVE Started'
  BY <1>11 DEF SetEvent, taskVars, Started
<1>12. ASSUME NEW t \in Threads, Wake(t) PROVE Started'
  BY <1>12 DEF Wake, taskVars, Started
<1>13. ASSUME NEW t \in Pool, NEW k \in Tasks, ResumeTask(t, k) PROVE Started'
  BY <1>13 DEF ResumeTask, Started
<1>14. CASE UNCHANGED vars
  BY <1>14 DEF vars, taskVars, counterVars, Started
<1> QED
  BY <1>1, <1>2, <1>3, <1>4, <1>5, <1>6, <1>7, <1>8, <1>9, <1>10, <1>11, <1>12,
     <1>13, <1>14
     DEF Next, WaiterStep, ThreadStep

\* No two threads run or end the same task
LEMMA OneRunnerStep == IInv /\ [Next]_vars => OneRunner'
<1> SUFFICES ASSUME IInv, [Next]_vars PROVE OneRunner'
  OBVIOUS
<1> USE ThreadFacts DEF IInv
<1>1. CASE StartTask
  <2>1. /\ started + 1 \in Tasks /\ started + 1 # NoTask
        /\ task[started + 1] = "new"
    BY <1>1, CoroutinesAssumption DEF StartTask, Started, TypeOK, Tasks, NoTask
  <2>2. \A u \in Threads : cur[u] # started + 1
    BY <2>1 DEF OneRunner
  <2> QED
    BY <1>1, <2>1, <2>2 DEF StartTask, Goto, OneRunner, TypeOK
<1>2. CASE StoreAwaiting
  BY <1>2 DEF StoreAwaiting, Goto, taskVars, OneRunner
<1>3. CASE TryAwait
  BY <1>3 DEF TryAwait, Goto, taskVars, OneRunner, TypeOK
<1>4. CASE LoadValue
  BY <1>4 DEF LoadValue, Goto, taskVars, OneRunner
<1>5. CASE WaitOnAddress
  BY <1>5 DEF WaitOnAddress, Goto, taskVars, OneRunner
<1>6. CASE SpuriousWake
  BY <1>6 DEF SpuriousWake, LookAgain, Goto, taskVars, OneRunner
<1>7. ASSUME NEW t \in Threads, Suspend(t) PROVE OneRunner'
  BY <1>7, TaskFacts DEF Suspend, Back, Goto, OneRunner, TypeOK
<1>8. ASSUME NEW t \in Threads, EndTask(t) PROVE OneRunner'
  BY <1>8, TaskFacts DEF EndTask, Goto, OneRunner, TypeOK
<1>9. ASSUME NEW t \in Threads, Notify(t) PROVE OneRunner'
  BY <1>9 DEF Notify, Back, Goto, taskVars, OneRunner, TypeOK
<1>10. ASSUME NEW t \in Threads, ResumeAwaiting(t) PROVE OneRunner'
  BY <1>10 DEF ResumeAwaiting, Goto, taskVars, OneRunner
<1>11. ASSUME NEW t \in Threads, SetEvent(t) PROVE OneRunner'
  BY <1>11 DEF SetEvent, Goto, taskVars, OneRunner
<1>12. ASSUME NEW t \in Threads, Wake(t) PROVE OneRunner'
  BY <1>12 DEF Wake, taskVars, OneRunner
<1>13. ASSUME NEW t \in Pool, NEW k \in Tasks, ResumeTask(t, k) PROVE OneRunner'
  BY <1>13 DEF ResumeTask, Goto, OneRunner, TypeOK
<1>14. CASE UNCHANGED vars
  BY <1>14 DEF vars, taskVars, counterVars, OneRunner
<1> QED
  BY <1>1, <1>2, <1>3, <1>4, <1>5, <1>6, <1>7, <1>8, <1>9, <1>10, <1>11, <1>12,
     <1>13, <1>14
     DEF Next, WaiterStep, ThreadStep

\* The count stays exact
LEMMA CountStep == IInv /\ [Next]_vars => CountExact'
<1> SUFFICES ASSUME IInv, [Next]_vars PROVE CountExact'
  OBVIOUS
<1> USE ThreadFacts DEF IInv
<1>1. CASE StartTask
  <2>1. Open' = Open
    BY <1>1 DEF StartTask, Open, OneRunner, Started, Tasks, NoTask, TypeOK
  <2>2. Awaited' = Awaited /\ count' = count
    BY <1>1 DEF StartTask, Goto, Awaited, Awaiting, counterVars
  <2> QED
    BY <2>1, <2>2 DEF CountExact
<1>2. CASE StoreAwaiting
  <2>1. Open' = Open
    BY <1>2 DEF StoreAwaiting, Open, taskVars
  <2>2. Awaited' = Awaited /\ count' = count
    BY <1>2 DEF StoreAwaiting, Goto, Awaited, Awaiting
  <2> QED
    BY <2>1, <2>2 DEF CountExact
<1>3. CASE TryAwait
  <2>1. Open' = Open
    BY <1>3 DEF TryAwait, Open, taskVars
  <2>2. Awaited = 1 /\ Awaited' = 0 /\ count' = count - 1
    BY <1>3 DEF TryAwait, Goto, Awaited, Awaiting, TypeOK
  <2> QED
    BY <2>1, <2>2, OpenFacts DEF CountExact
<1>4. CASE LoadValue
  <2>1. Open' = Open
    BY <1>4 DEF LoadValue, Open, taskVars
  <2>2. Awaited' = Awaited /\ count' = count
    BY <1>4 DEF LoadValue, Goto, Awaited, Awaiting, counterVars
  <2> QED
    BY <2>1, <2>2 DEF CountExact
<1>5. CASE WaitOnAddress
  <2>1. Open' = Open
    BY <1>5 DEF WaitOnAddress, Open, taskVars
  <2>2. Awaited' = Awaited /\ count' = count
    BY <1>5 DEF WaitOnAddress, Goto, Awaited, Awaiting, counterVars
  <2> QED
    BY <2>1, <2>2 DEF CountExact
<1>6. CASE SpuriousWake
  <2>1. Open' = Open
    BY <1>6 DEF SpuriousWake, Open, taskVars
  <2>2. Awaited' = Awaited /\ count' = count
    BY <1>6 DEF SpuriousWake, LookAgain, Goto, Awaited, Awaiting, counterVars
  <2> QED
    BY <2>1, <2>2 DEF CountExact
<1>7. ASSUME NEW t \in Threads, Suspend(t) PROVE CountExact'
  <2>1. Open' = Open
    BY <1>7, TaskFacts DEF Suspend, Open, TypeOK
  <2>2. Awaited' = Awaited /\ count' = count
    BY <1>7 DEF Suspend, Back, Goto, Awaited, Awaiting, counterVars
  <2> QED
    BY <2>1, <2>2 DEF CountExact
<1>8. ASSUME NEW t \in Threads, EndTask(t) PROVE CountExact'
  <2>1. Open' = Open
    BY <1>8 DEF EndTask, Open
  <2>2. Awaited' = Awaited /\ count' = count
    BY <1>8 DEF EndTask, Goto, Awaited, Awaiting, counterVars
  <2> QED
    BY <2>1, <2>2 DEF CountExact
<1>9. ASSUME NEW t \in Threads, Notify(t) PROVE CountExact'
  <2>1. cur[t] \in Open /\ Open' = Open \ {cur[t]}
    BY <1>9, TaskFacts DEF Notify, Open, OneRunner, TypeOK, taskVars
  <2>2. Cardinality(Open') = Cardinality(Open) - 1
    BY <2>1, OpenFacts, FS_RemoveElement
  <2>3. Awaited' = Awaited /\ count' = count - 1
    BY <1>9 DEF Notify, Goto, Back, Awaited, Awaiting
  <2> QED
    BY <2>2, <2>3, OpenFacts DEF CountExact, Awaited
<1>10. ASSUME NEW t \in Threads, ResumeAwaiting(t) PROVE CountExact'
  <2>1. Open' = Open
    BY <1>10 DEF ResumeAwaiting, Open, taskVars
  <2>2. Awaited' = Awaited /\ count' = count
    BY <1>10 DEF ResumeAwaiting, Goto, Awaited, Awaiting, Places, WaiterPlaces
  <2> QED
    BY <2>1, <2>2 DEF CountExact
<1>11. ASSUME NEW t \in Threads, SetEvent(t) PROVE CountExact'
  <2>1. Open' = Open
    BY <1>11 DEF SetEvent, Open, taskVars
  <2>2. Awaited' = Awaited /\ count' = count
    BY <1>11 DEF SetEvent, Goto, Awaited, Awaiting, counterVars
  <2> QED
    BY <2>1, <2>2 DEF CountExact
<1>12. ASSUME NEW t \in Threads, Wake(t) PROVE CountExact'
  <2>1. Open' = Open
    BY <1>12 DEF Wake, Open, taskVars
  <2>2. Awaited' = Awaited /\ count' = count
    BY <1>12 DEF Wake, Awaited, Awaiting, counterVars
  <2> QED
    BY <2>1, <2>2 DEF CountExact
<1>13. ASSUME NEW t \in Pool, NEW k \in Tasks, ResumeTask(t, k)
       PROVE  CountExact'
  <2>1. Open' = Open
    BY <1>13, TaskFacts DEF ResumeTask, Open, OneRunner
  <2>2. Awaited' = Awaited /\ count' = count
    BY <1>13 DEF ResumeTask, Goto, Awaited, counterVars
  <2> QED
    BY <2>1, <2>2 DEF CountExact
<1>14. CASE UNCHANGED vars
  <2>1. Open' = Open
    BY <1>14 DEF vars, Open, taskVars
  <2>2. Awaited' = Awaited /\ count' = count
    BY <1>14 DEF vars, Awaited, counterVars
  <2> QED
    BY <2>1, <2>2 DEF CountExact
<1> QED
  BY <1>1, <1>2, <1>3, <1>4, <1>5, <1>6, <1>7, <1>8, <1>9, <1>10, <1>11, <1>12,
     <1>13, <1>14
     DEF Next, WaiterStep, ThreadStep

\* One thread at most counts to zero and sets the event
LEMMA LastOneStep == IInv /\ [Next]_vars => LastOne'
<1> SUFFICES ASSUME IInv, [Next]_vars PROVE LastOne'
  OBVIOUS
<1> USE ThreadFacts DEF IInv
<1>1. CASE StartTask
  BY <1>1 DEF StartTask, Goto, counterVars, LastOne, Last, Awaiting
<1>2. CASE StoreAwaiting
  BY <1>2 DEF StoreAwaiting, Goto, LastOne, Last
<1>3. CASE TryAwait
  <2>1. count > 0
    BY <1>3, OpenFacts DEF TryAwait, CountExact, Awaited, Awaiting
  <2>2. \A u \in Threads : pc[u] \notin Last
    BY <2>1 DEF LastOne
  <2>3. resumes = 0 /\ value = 0
    BY <2>1 DEF LastOne, TypeOK
  <2> QED
    BY <1>3, <2>1, <2>2, <2>3 DEF TryAwait, Goto, LastOne, Last, TypeOK
<1>4. CASE LoadValue
  BY <1>4
     DEF LoadValue, Goto, counterVars, LastOne, Last, TypeOK, Places,
         WaiterPlaces
<1>5. CASE WaitOnAddress
  BY <1>5
     DEF WaitOnAddress, Goto, counterVars, LastOne, Last, Places, WaiterPlaces
<1>6. CASE SpuriousWake
  BY <1>6
     DEF SpuriousWake, LookAgain, Goto, counterVars, LastOne, Last, Places,
         WaiterPlaces
<1>7. ASSUME NEW t \in Threads, Suspend(t) PROVE LastOne'
  BY <1>7 DEF Suspend, Back, Goto, counterVars, LastOne, Last, Awaiting
<1>8. ASSUME NEW t \in Threads, EndTask(t) PROVE LastOne'
  BY <1>8 DEF EndTask, Goto, counterVars, LastOne, Last, Awaiting
<1>9. ASSUME NEW t \in Threads, Notify(t) PROVE LastOne'
  <2>1. count > 0 /\ (IsLast(count) => count' = 0) /\ pc[Waiter] # "returned"
    <3>1. cur[t] \in Open
      BY <1>9 DEF Notify, OneRunner, Open
    <3>2. count > 0
      BY <3>1, OpenFacts DEF CountExact, Awaited
    <3> QED
      BY <1>9, <3>2 DEF Notify, IsLast, LastOne
  <2>2. IsLast(count) => pc[Waiter] # "notify" /\ t # Waiter
    BY <1>9, WaiterNotLast DEF Notify
  <2>3. \A u \in Threads : pc[u] \notin Last
    BY <2>1 DEF LastOne
  <2>4. resumes = 0 /\ value = 0
    BY <2>1 DEF LastOne, TypeOK
  <2> QED
    BY <1>9, <2>1, <2>2, <2>3, <2>4
       DEF Notify, Goto, Back, LastOne, Last, Awaiting
<1>10. ASSUME NEW t \in Threads, ResumeAwaiting(t) PROVE LastOne'
  BY <1>10 DEF ResumeAwaiting, Goto, LastOne, Last, Places, WaiterPlaces
<1>11. ASSUME NEW t \in Threads, SetEvent(t) PROVE LastOne'
  BY <1>11 DEF SetEvent, Goto, counterVars, LastOne, Last, Places, WaiterPlaces
<1>12. ASSUME NEW t \in Threads, Wake(t) PROVE LastOne'
  BY <1>12 DEF Wake, counterVars, LastOne, Last, Places, WaiterPlaces
<1>13. ASSUME NEW t \in Pool, NEW k \in Tasks, ResumeTask(t, k) PROVE LastOne'
  BY <1>13 DEF ResumeTask, Goto, counterVars, LastOne, Last
<1>14. CASE UNCHANGED vars
  BY <1>14 DEF vars, taskVars, counterVars, LastOne
<1> QED
  BY <1>1, <1>2, <1>3, <1>4, <1>5, <1>6, <1>7, <1>8, <1>9, <1>10, <1>11, <1>12,
     <1>13, <1>14
     DEF Next, WaiterStep, ThreadStep

LEMMA InvStep == IInv /\ [Next]_vars => IInv'
BY TypeStep, PlacesStep, StartedStep, OneRunnerStep, CountStep, LastOneStep
   DEF IInv

LEMMA Invariance == Spec => []IInv
BY InitIInv, InvStep, PTL DEF Spec

\* Counted to zero: every task has ended, and nobody is about to count
LEMMA ZeroMeansEnded ==
  ASSUME IInv, count = 0
  PROVE  /\ \A k \in Tasks : task[k] = "ended"
         /\ \A t \in Threads : pc[t] \notin {"task", "notify"}
         /\ pc[Waiter] \in Awaiting
<1>1. Open = {} /\ Awaited = 0
  BY OpenFacts DEF IInv, CountExact, Awaited
<1>2. \A k \in Tasks : task[k] = "ended"
  BY <1>1 DEF Open
<1>3. \A t \in Threads : cur[t] \notin Tasks
  BY <1>1 DEF Open
<1> QED
  BY <1>1, <1>2, <1>3 DEF IInv, OneRunner, Awaited

(* Every variable keeps its type, for any number of tasks and threads; in    *)
(* particular when_all_counter::count never goes below zero.                *)
THEOREM TypeCorrect == Spec => []TypeOK
BY Invariance, PTL DEF IInv

(* when_all_counter resumes the awaiting coroutine at most once, with every  *)
(* task ended, and finds it stored.                                         *)
THEOREM ResumedOnce == Spec => []AwaiterOnce
<1>1. IInv => AwaiterOnce
  <2> SUFFICES ASSUME IInv PROVE AwaiterOnce
    OBVIOUS
  <2>1. resumes = 1 => \A k \in Tasks : task[k] = "ended"
    BY ZeroMeansEnded DEF IInv, LastOne
  <2>2. ASSUME NEW t \in Threads, pc[t] = "resume"
        PROVE  coroutine /\ resumes = 0
    <3>1. count = 0 /\ resumes = 0
      BY <2>2 DEF IInv, LastOne, Last
    <3> QED
      BY <3>1, ZeroMeansEnded DEF IInv, LastOne
  <2>3. resumes <= 1
    BY DEF IInv, LastOne
  <2> QED
    BY <2>1, <2>2, <2>3 DEF AwaiterOnce
<1> QED
  BY <1>1, Invariance, PTL

(* When SyncWait has returned, no thread has anything left to do with the    *)
(* event, the counter or the tasks, except to wake by an address.            *)
THEOREM NothingOutlived == Spec => []MemoryOutlivesUse
<1>1. IInv => MemoryOutlivesUse
  <2> SUFFICES ASSUME IInv, pc[Waiter] = "returned"
               PROVE  /\ \A t \in Pool : pc[t] \in {"idle", "wake"}
                      /\ \A k \in Tasks : task[k] = "ended"
    BY DEF MemoryOutlivesUse
  <2>1. value = 1 /\ count = 0
    BY DEF IInv, LastOne
  <2>2. \A t \in Threads : pc[t] \notin {"resume", "set"}
    BY <2>1 DEF IInv, LastOne
  <2> QED
    BY <2>1, <2>2, ZeroMeansEnded, ThreadFacts DEF IInv, Places, PoolPlaces
<1> QED
  BY <1>1, Invariance, PTL

\* What ForkJoin sees of a step
LEMMA JoinInit == Init => ForkJoinOf!Init
BY ThreadFacts DEF Init, ForkJoinOf!Init

\* A task that ends is End, the last look at the value is Return
LEMMA JoinStep == IInv /\ [Next]_vars => [ForkJoinOf!Next]_(ForkJoinOf!vars)
<1> SUFFICES ASSUME IInv, [Next]_vars PROVE [ForkJoinOf!Next]_(ForkJoinOf!vars)
  OBVIOUS
<1> USE ThreadFacts DEF IInv
<1> DEFINE running == {k \in Tasks : task[k] # "ended"}
           returned == pc[Waiter] = "returned"
<1>1. CASE StartTask
  <2>1. running' = running
    BY <1>1 DEF StartTask, Started, TypeOK
  <2>2. returned' = returned
    BY <1>1 DEF StartTask, Goto
  <2> QED
    BY <2>1, <2>2 DEF ForkJoinOf!vars
<1>2. CASE StoreAwaiting
  <2>1. running' = running
    BY <1>2 DEF StoreAwaiting, taskVars
  <2>2. returned' = returned
    BY <1>2 DEF StoreAwaiting, Goto
  <2> QED
    BY <2>1, <2>2 DEF ForkJoinOf!vars
<1>3. CASE TryAwait
  <2>1. running' = running
    BY <1>3 DEF TryAwait, taskVars
  <2>2. returned' = returned
    BY <1>3 DEF TryAwait, Goto, Places
  <2> QED
    BY <2>1, <2>2 DEF ForkJoinOf!vars
<1>4. CASE LoadValue
  <2>1. running' = running
    BY <1>4 DEF LoadValue, taskVars
  <2>2. CASE value = 0
    <3>1. returned' = returned
      BY <1>4, <2>2 DEF LoadValue, Goto
    <3> QED
      BY <2>1, <3>1 DEF ForkJoinOf!vars
  <2>3. CASE value = 1
    <3>1. count = 0
      BY <2>3 DEF LastOne
    <3>2. running = {}
      BY <3>1, ZeroMeansEnded
    <3>3. ~ returned /\ returned'
      BY <1>4, <2>3 DEF LoadValue, Goto, TypeOK
    <3> QED
      BY <2>1, <3>2, <3>3 DEF ForkJoinOf!Next, ForkJoinOf!Return
  <2> QED
    BY <2>2, <2>3 DEF TypeOK
<1>5. CASE WaitOnAddress
  <2>1. running' = running
    BY <1>5 DEF WaitOnAddress, taskVars
  <2>2. returned' = returned
    BY <1>5 DEF WaitOnAddress, Goto
  <2> QED
    BY <2>1, <2>2 DEF ForkJoinOf!vars
<1>6. CASE SpuriousWake
  <2>1. running' = running
    BY <1>6 DEF SpuriousWake, taskVars
  <2>2. returned' = returned
    BY <1>6 DEF SpuriousWake, LookAgain, Goto
  <2> QED
    BY <2>1, <2>2 DEF ForkJoinOf!vars
<1>7. ASSUME NEW t \in Threads, Suspend(t)
      PROVE  [ForkJoinOf!Next]_(ForkJoinOf!vars)
  <2>1. running' = running
    BY <1>7 DEF Suspend, OneRunner
  <2>2. returned' = returned
    BY <1>7 DEF Suspend, Back, Goto
  <2> QED
    BY <2>1, <2>2 DEF ForkJoinOf!vars
<1>8. ASSUME NEW t \in Threads, EndTask(t)
      PROVE  [ForkJoinOf!Next]_(ForkJoinOf!vars)
  <2>1. cur[t] \in running /\ running' = running \ {cur[t]}
    BY <1>8 DEF EndTask, OneRunner, TypeOK
  <2>2. returned' = returned /\ cur[t] \in Tasks
    BY <1>8, <2>1 DEF EndTask, Goto
  <2> QED
    BY <2>1, <2>2 DEF ForkJoinOf!Next, ForkJoinOf!End
<1>9. ASSUME NEW t \in Threads, Notify(t)
      PROVE  [ForkJoinOf!Next]_(ForkJoinOf!vars)
  <2>1. running' = running
    BY <1>9 DEF Notify, taskVars
  <2>2. returned' = returned
    BY <1>9 DEF Notify, Back, Goto
  <2> QED
    BY <2>1, <2>2 DEF ForkJoinOf!vars
<1>10. ASSUME NEW t \in Threads, ResumeAwaiting(t)
       PROVE  [ForkJoinOf!Next]_(ForkJoinOf!vars)
  <2>1. running' = running
    BY <1>10 DEF ResumeAwaiting, taskVars
  <2>2. returned' = returned
    BY <1>10 DEF ResumeAwaiting, Goto
  <2> QED
    BY <2>1, <2>2 DEF ForkJoinOf!vars
<1>11. ASSUME NEW t \in Threads, SetEvent(t)
       PROVE  [ForkJoinOf!Next]_(ForkJoinOf!vars)
  <2>1. running' = running
    BY <1>11 DEF SetEvent, taskVars
  <2>2. returned' = returned
    BY <1>11 DEF SetEvent, Goto
  <2> QED
    BY <2>1, <2>2 DEF ForkJoinOf!vars
<1>12. ASSUME NEW t \in Threads, Wake(t)
       PROVE  [ForkJoinOf!Next]_(ForkJoinOf!vars)
  <2>1. running' = running
    BY <1>12 DEF Wake, taskVars
  <2>2. returned' = returned
    BY <1>12 DEF Wake
  <2> QED
    BY <2>1, <2>2 DEF ForkJoinOf!vars
<1>13. ASSUME NEW t \in Pool, NEW k \in Tasks, ResumeTask(t, k)
       PROVE  [ForkJoinOf!Next]_(ForkJoinOf!vars)
  <2>1. running' = running
    BY <1>13 DEF ResumeTask
  <2>2. returned' = returned
    BY <1>13 DEF ResumeTask, Goto
  <2> QED
    BY <2>1, <2>2 DEF ForkJoinOf!vars
<1>14. CASE UNCHANGED vars
  <2>1. running' = running
    BY <1>14 DEF vars, taskVars
  <2>2. returned' = returned
    BY <1>14 DEF vars
  <2> QED
    BY <2>1, <2>2 DEF ForkJoinOf!vars
<1> QED
  BY <1>1, <1>2, <1>3, <1>4, <1>5, <1>6, <1>7, <1>8, <1>9, <1>10, <1>11, <1>12,
     <1>13, <1>14
     DEF Next, WaiterStep, ThreadStep

(* SyncWait of WhenAllReady is a fork and join, whatever the order in which   *)
(* tasks end, counts fall and wake-ups come.                                *)
THEOREM ImplementsForkJoin == Spec => JoinSpec
BY JoinInit, JoinStep, Invariance, PTL DEF Spec, JoinSpec, ForkJoinOf!Spec
=============================================================================
