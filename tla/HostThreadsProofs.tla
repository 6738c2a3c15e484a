--------------------------- MODULE HostThreadsProofs ---------------------------
(***************************************************************************)
(* Theorems about HostThreads: the thread pool with its bounded queue, for   *)
(* any number of workers, callers and places, and the message loop, for any  *)
(* threads, priorities and numbers of messages.                             *)
(***************************************************************************)
EXTENDS HostThreads, SequenceTheorems, FiniteSetTheorems, WellFoundedInduction, TLAPS

(* A task is held by the worker that runs it and by nobody else.             *)
HeldInv ==
  /\ \A w \in Workers : held[w] = NoTask <=> worker[w] \notin {"starting", "running"}
  /\ \A v, w \in Workers : held[v] = held[w] /\ held[v] # NoTask => v = w

(* The task a caller is about to push has not been accepted: those accepted   *)
(* of it are of its earlier calls.                                          *)
FreshInv ==
  /\ \A c \in Callers, n \in 1 .. MaxCalls : <<c, n>> \in accepted => n <= calls[c]
  /\ \A c \in Callers : caller[c] \in {"check", "waiting"} =>
       calls[c] > 0 /\ <<c, calls[c]>> \notin accepted

(* A worker leaves only a pool that is stopped and has nothing queued, and    *)
(* some worker was there to take what was.                                  *)
StopInv ==
  /\ \E w \in Workers : worker[w] # "absent"
  /\ \A w \in Workers : worker[w] = "exited" => resetting # "no" /\ tasks = <<>>
  /\ resetting # "no" => Inside = {}
  /\ resetting = "destroyed" =>
       tasks = <<>> /\ \A w \in Workers : worker[w] \in {"absent", "exited"}

PoolInv == TypeOK /\ TasksInOnePlace /\ HeldInv /\ FreshInv /\ StopInv
-----------------------------------------------------------------------------
(* Sequences of different elements                                          *)

LEMMA SetOfAppend ==
  ASSUME NEW S, NEW s \in Seq(S), NEW x \in S
  PROVE  /\ Append(s, x) \in Seq(S) /\ Len(Append(s, x)) = Len(s) + 1
         /\ ToSet(Append(s, x)) = ToSet(s) \cup {x}
         /\ IsInjective(s) /\ x \notin ToSet(s) => IsInjective(Append(s, x))
<1> DEFINE n == Len(s)
           r == Append(s, x)
<1>1. /\ n \in Nat /\ r \in Seq(S) /\ Len(r) = n + 1 /\ r[n + 1] = x
      /\ \A i \in 1 .. n : r[i] = s[i]
      /\ DOMAIN s = 1 .. n /\ DOMAIN r = 1 .. n + 1
  BY AppendProperties
<1> HIDE DEF n, r
<1>2. \A i : i \in 1 .. n + 1 <=> (i \in 1 .. n \/ i = n + 1)
  BY <1>1
<1>3. ToSet(r) = ToSet(s) \cup {x}
  BY <1>1, <1>2 DEF ToSet
<1>4. ASSUME IsInjective(s), x \notin ToSet(s), NEW i \in DOMAIN r, NEW j \in DOMAIN r,
             r[i] = r[j]
      PROVE  i = j
  <2>1. \A k \in 1 .. n : s[k] # x
    BY <1>1, <1>4 DEF ToSet
  <2> QED BY <1>1, <1>2, <1>4, <2>1 DEF IsInjective
<1>5. IsInjective(s) /\ x \notin ToSet(s) => IsInjective(r)
  BY <1>4 DEF IsInjective
<1> QED BY <1>1, <1>3, <1>5 DEF n, r

LEMMA SetOfTail ==
  ASSUME NEW S, NEW s \in Seq(S), s # <<>>, IsInjective(s)
  PROVE  /\ Head(s) \in S /\ Tail(s) \in Seq(S) /\ Len(Tail(s)) < Len(s)
         /\ IsInjective(Tail(s))
         /\ ToSet(Tail(s)) = ToSet(s) \ {Head(s)} /\ Head(s) \in ToSet(s)
<1> DEFINE n == Len(s)
           r == Tail(s)
<1>1. /\ n \in Nat /\ n > 0 /\ Head(s) \in S /\ r \in Seq(S) /\ Len(r) = n - 1
      /\ Head(s) = s[1] /\ \A i \in 1 .. n - 1 : r[i] = s[i + 1]
      /\ DOMAIN s = 1 .. n /\ DOMAIN r = 1 .. n - 1
  OBVIOUS
<1> HIDE DEF n, r
<1>2. \A i \in 1 .. n - 1 : i + 1 \in 1 .. n /\ i + 1 # 1
  BY <1>1
<1>3. IsInjective(r)
  <2> SUFFICES ASSUME NEW i \in 1 .. n - 1, NEW j \in 1 .. n - 1, r[i] = r[j] PROVE i = j
    BY <1>1 DEF IsInjective
  <2>1. i + 1 \in DOMAIN s /\ j + 1 \in DOMAIN s
    BY <1>1, <1>2
  <2>2. s[i + 1] = s[j + 1]
    BY <1>1
  <2>3. i + 1 = j + 1
    BY <2>1, <2>2 DEF IsInjective
  <2> QED BY <2>3
<1>4. \A i \in 1 .. n : i = 1 \/ \E j \in 1 .. n - 1 : i = j + 1
  <2> SUFFICES ASSUME NEW i \in 1 .. n, i # 1 PROVE \E j \in 1 .. n - 1 : i = j + 1
    OBVIOUS
  <2>1. i - 1 \in 1 .. n - 1 /\ i = (i - 1) + 1
    BY <1>1
  <2> QED BY <2>1
<1>5. 1 \in 1 .. n
  BY <1>1
<1>6. \A i \in 1 .. n - 1 : r[i] # s[1]
  BY <1>1, <1>2, <1>5 DEF IsInjective
<1>7. ASSUME NEW x PROVE x \in ToSet(r) <=> x \in ToSet(s) /\ x # s[1]
  <2>1. x \in ToSet(r) => x \in ToSet(s) /\ x # s[1]
    BY <1>1, <1>2, <1>6 DEF ToSet
  <2>2. x \in ToSet(s) /\ x # s[1] => x \in ToSet(r)
    <3> SUFFICES ASSUME x \in ToSet(s), x # s[1] PROVE x \in ToSet(r)
      OBVIOUS
    <3>1. PICK i \in 1 .. n : s[i] = x
      BY <1>1 DEF ToSet
    <3>2. PICK j \in 1 .. n - 1 : i = j + 1
      BY <1>4, <3>1
    <3>3. r[j] = x
      BY <1>1, <3>1, <3>2
    <3> QED BY <1>1, <3>3 DEF ToSet
  <2> QED BY <2>1, <2>2
<1>8. Len(r) < n
  BY <1>1
<1> QED BY <1>1, <1>3, <1>5, <1>7, <1>8 DEF n, r, ToSet

LEMMA SetOfConcat ==
  ASSUME NEW S, NEW s \in Seq(S), NEW r \in Seq(S)
  PROVE  /\ ToSet(s \o r) = ToSet(s) \cup ToSet(r)
         /\ IsInjective(s \o r) <=>
              IsInjective(s) /\ IsInjective(r) /\ ToSet(s) \cap ToSet(r) = {}
<1> DEFINE n == Len(s)
           m == Len(r)
           c == s \o r
<1>1. /\ n \in Nat /\ m \in Nat /\ c \in Seq(S) /\ Len(c) = n + m
      /\ \A i \in 1 .. n : c[i] = s[i]
      /\ \A i \in n + 1 .. n + m : c[i] = r[i - n]
      /\ DOMAIN s = 1 .. n /\ DOMAIN r = 1 .. m /\ DOMAIN c = 1 .. n + m
  BY ConcatProperties, LenProperties
<1> HIDE DEF n, m, c
<1>2. \A j \in 1 .. m : n + j \in n + 1 .. n + m /\ n + j \in 1 .. n + m
      /\ (n + j) - n = j
  BY <1>1
<1>3. \A j \in 1 .. m : c[n + j] = r[j]
  BY <1>1, <1>2
<1>4. \A i \in 1 .. n + m : i \in 1 .. n \/ \E j \in 1 .. m : i = n + j
  <2> SUFFICES ASSUME NEW i \in 1 .. n + m, i \notin 1 .. n
               PROVE  \E j \in 1 .. m : i = n + j
    OBVIOUS
  <2>1. i - n \in 1 .. m /\ i = n + (i - n)
    BY <1>1
  <2> QED BY <2>1
<1>5. \A i \in 1 .. n : i \in 1 .. n + m
  BY <1>1
<1>6. ToSet(c) = ToSet(s) \cup ToSet(r)
  <2>1. ASSUME NEW x \in ToSet(c) PROVE x \in ToSet(s) \cup ToSet(r)
    <3>1. PICK i \in 1 .. n + m : c[i] = x
      BY <1>1, <2>1 DEF ToSet
    <3>2. CASE i \in 1 .. n
      BY <1>1, <3>1, <3>2 DEF ToSet
    <3>3. ASSUME NEW j \in 1 .. m, i = n + j PROVE x \in ToSet(r)
      <4>1. r[j] = x
        BY <1>3, <3>1, <3>3
      <4> QED BY <1>1, <4>1 DEF ToSet
    <3> QED BY <1>4, <3>2, <3>3
  <2>2. ASSUME NEW x \in ToSet(s) \cup ToSet(r) PROVE x \in ToSet(c)
    <3>1. CASE x \in ToSet(s)
      BY <1>1, <1>5, <3>1 DEF ToSet
    <3>2. CASE x \in ToSet(r)
      <4>1. PICK j \in 1 .. m : r[j] = x
        BY <1>1, <3>2 DEF ToSet
      <4>2. n + j \in DOMAIN c /\ c[n + j] = x
        BY <1>1, <1>2, <1>3, <4>1
      <4> QED BY <4>2, Zenon DEF ToSet
    <3> QED BY <2>2, <3>1, <3>2
  <2> QED BY <2>1, <2>2
<1>7. ASSUME IsInjective(c)
      PROVE  IsInjective(s) /\ IsInjective(r) /\ ToSet(s) \cap ToSet(r) = {}
  <2>0. \A i, j \in 1 .. n + m : c[i] = c[j] => i = j
    BY <1>1, <1>7 DEF IsInjective
  <2>1. IsInjective(s)
    BY <1>1, <1>5, <1>7 DEF IsInjective
  <2>2. IsInjective(r)
    <3> SUFFICES ASSUME NEW i \in 1 .. m, NEW j \in 1 .. m, r[i] = r[j] PROVE i = j
      BY <1>1 DEF IsInjective
    <3>1. c[n + i] = c[n + j] /\ n + i \in 1 .. n + m /\ n + j \in 1 .. n + m
      BY <1>2, <1>3
    <3>2. n + i = n + j
      BY <2>0, <3>1
    <3> QED BY <1>1, <3>2
  <2>3. ASSUME NEW i \in 1 .. n, NEW j \in 1 .. m, s[i] = r[j] PROVE FALSE
    <3>1. c[i] = c[n + j] /\ i \in 1 .. n + m /\ n + j \in 1 .. n + m
      BY <1>1, <1>2, <1>3, <1>5, <2>3
    <3>2. i = n + j
      BY <2>0, <3>1
    <3> QED BY <1>1, <3>2
  <2> QED BY <1>1, <2>1, <2>2, <2>3 DEF ToSet
<1>8. ASSUME IsInjective(s), IsInjective(r), ToSet(s) \cap ToSet(r) = {}
      PROVE  IsInjective(c)
  <2> SUFFICES ASSUME NEW i \in 1 .. n + m, NEW j \in 1 .. n + m, c[i] = c[j] PROVE i = j
    BY <1>1 DEF IsInjective
  <2>1. \A k \in 1 .. n, l \in 1 .. m : s[k] # r[l]
    BY <1>1, <1>8 DEF ToSet
  <2>2. CASE i \in 1 .. n /\ j \in 1 .. n
    BY <1>1, <1>8, <2>2 DEF IsInjective
  <2>3. ASSUME NEW k \in 1 .. m, NEW l \in 1 .. m, i = n + k, j = n + l PROVE i = j
    <3>1. k \in DOMAIN r /\ l \in DOMAIN r /\ r[k] = r[l]
      BY <1>1, <1>3, <2>3
    <3>2. k = l
      BY <1>8, <3>1 DEF IsInjective
    <3> QED BY <2>3, <3>2
  <2>4. ASSUME NEW k \in 1 .. n, NEW l \in 1 .. m PROVE c[k] # c[n + l]
    BY <1>1, <1>3, <2>1
  <2> QED BY <1>4, <2>2, <2>3, <2>4
<1> QED BY <1>6, <1>7, <1>8 DEF c
-----------------------------------------------------------------------------
(* The pool                                                                 *)

TakenBy == {held[w] : w \in Workers} \ {NoTask}

LEMMA OnePlaceParts ==
  ASSUME TypeOK, TasksInOnePlace
  PROVE  /\ IsInjective(tasks) /\ IsInjective(ran) /\ ToSet(tasks) \cap ToSet(ran) = {}
         /\ \A w \in Workers : held[w] \notin ToSet(tasks) \cup ToSet(ran)
         /\ accepted = ToSet(tasks) \cup ToSet(ran) \cup TakenBy
BY SetOfConcat DEF TypeOK, TasksInOnePlace, TakenBy

LEMMA OnePlaceFrom ==
  ASSUME tasks' \in Seq(Tasks), ran' \in Seq(Tasks),
         IsInjective(tasks'), IsInjective(ran'), ToSet(tasks') \cap ToSet(ran') = {},
         \A w \in Workers : held'[w] \notin ToSet(tasks') \cup ToSet(ran'),
         accepted' = ToSet(tasks') \cup ToSet(ran') \cup TakenBy'
  PROVE  TasksInOnePlace'
BY SetOfConcat DEF TasksInOnePlace, TakenBy

LEMMA NoTaskFacts == NoTask \notin Tasks
<1> SUFFICES ASSUME NEW c \in Callers, NEW n \in 1 .. MaxCalls PROVE <<c, n>> # NoTask
  BY DEF Tasks
<1> QED BY DEF NoTask

LEMMA PoolInit == Init => PoolInv
<1> SUFFICES ASSUME Init PROVE PoolInv
  OBVIOUS
<1> USE PoolAssumption
<1>1. MaxTasks \in Nat \ {0} /\ {MaxCalls, MaxResets} \subseteq Nat
  OBVIOUS
<1>2. PICK ws \in SUBSET Workers : Cardinality(ws) = MaxTasks /\ worker = Threads(ws)
  BY DEF Init, kSubset
<1>3. PICK v \in ws : TRUE
  <2>1. ws # {}
    BY <1>1, <1>2, FS_EmptySet
  <2> QED BY <2>1
<1>4. TypeOK
  <2>1. worker \in [Workers ->
          {"absent", "check", "waiting", "starting", "running", "exited"}]
    BY <1>2 DEF Threads
  <2>2. 0 \in 0 .. MaxCalls /\ 0 \in 0 .. MaxResets /\ 0 <= MaxTasks
    BY <1>1
  <2>3. Len(tasks) = 0 /\ tasks \in Seq(Tasks) /\ ran \in Seq(Tasks)
    BY DEF Init
  <2> QED BY <2>1, <2>2, <2>3 DEF Init, TypeOK
<1>5. TasksInOnePlace
  <2>1. ToSet(tasks) = {} /\ ToSet(ran) = {} /\ IsInjective(tasks) /\ IsInjective(ran)
    BY DEF Init, ToSet, IsInjective
  <2>2. tasks \in Seq(Tasks) /\ ran \in Seq(Tasks)
    BY <1>4 DEF TypeOK
  <2>3. {held[w] : w \in Workers} \ {NoTask} = {}
    BY DEF Init
  <2> QED BY <2>1, <2>2, <2>3, SetOfConcat DEF Init, TasksInOnePlace
<1>6. HeldInv
  BY <1>2 DEF Init, HeldInv, Threads
<1>7. FreshInv
  BY DEF Init, FreshInv
<1>8. StopInv
  BY <1>2, <1>3 DEF Init, StopInv, Threads
<1> QED BY <1>4, <1>5, <1>6, <1>7, <1>8 DEF PoolInv

\* A step that moves no task
LEMMA NoTaskMoves ==
  ASSUME PoolInv, UNCHANGED <<tasks, ran, held, accepted>>
  PROVE  TasksInOnePlace'
BY DEF PoolInv, TasksInOnePlace

LEMMA WorkersStep ==
  ASSUME PoolInv, ResetAlone, NEW w \in Workers, Works(w) \/ SpuriousWake(w)
  PROVE  PoolInv'
<1> USE PoolAssumption DEF PoolInv
<1>0. /\ worker[w] # "absent" => \E v \in Workers : worker[v] # "absent"
      /\ tasks \in Seq(Tasks) /\ ran \in Seq(Tasks)
      /\ held \in [Workers -> Tasks \cup {NoTask}]
      /\ stopped <=> resetting # "no"
  BY DEF TypeOK
<1>1. CASE Check(w) /\ UNCHANGED <<tasks, held>>
  <2>1. /\ worker[w] = "check" /\ UNCHANGED <<tasks, held, stopped, caller, timed, calls,
                                              resetting,
                                              resets, accepted, ran>>
        /\ \/ worker' = [worker EXCEPT ![w] = "waiting"]
           \/ worker' = [worker EXCEPT ![w] = "exited"] /\ stopped /\ tasks = <<>>
    <3>1. tasks # <<>> => Tail(tasks) # tasks
      BY <1>0, <1>1, SetOfTail, OnePlaceParts
    <3> QED BY <1>1, <3>1 DEF Check, Leaves, MayWait, callerVars, resetVars, ghostVars
  <2>2. TypeOK'
    BY <2>1 DEF TypeOK
  <2>3. HeldInv'
    BY <2>1 DEF HeldInv, TypeOK
  <2>4. FreshInv'
    BY <2>1 DEF FreshInv
  <2>5. StopInv'
    BY <1>0, <2>1 DEF StopInv, TypeOK, Inside
  <2> QED BY <2>1, <2>2, <2>3, <2>4, <2>5, NoTaskMoves
<1>2. CASE Check(w) /\ ~ UNCHANGED <<tasks, held>>
  <2>1. /\ worker[w] = "check" /\ tasks # <<>>
        /\ held' = [held EXCEPT ![w] = Head(tasks)] /\ tasks' = Tail(tasks)
        /\ worker' = [worker EXCEPT ![w] = "starting"]
        /\ UNCHANGED <<stopped, caller, timed, calls, resetting, resets, accepted, ran>>
    BY <1>2 DEF Check, Leaves, MayWait, callerVars, resetVars, ghostVars
  <2>2. /\ IsInjective(tasks) /\ IsInjective(ran) /\ ToSet(tasks) \cap ToSet(ran) = {}
        /\ \A v \in Workers : held[v] \notin ToSet(tasks) \cup ToSet(ran)
        /\ accepted = ToSet(tasks) \cup ToSet(ran) \cup TakenBy
    BY OnePlaceParts
  <2>3. /\ Head(tasks) \in Tasks /\ tasks' \in Seq(Tasks) /\ Len(tasks') < Len(tasks)
        /\ IsInjective(tasks') /\ ToSet(tasks') = ToSet(tasks) \ {Head(tasks)}
        /\ Head(tasks) \in ToSet(tasks)
    BY <1>0, <2>1, <2>2, SetOfTail
  <2>4. TypeOK'
    <3>1. Len(tasks) \in Nat /\ Len(tasks') \in Nat /\ MaxTasks \in Int
          /\ Len(tasks) <= MaxTasks
      BY <1>0, <2>3 DEF TypeOK
    <3>2. Len(tasks') <= MaxTasks
      BY <2>3, <3>1
    <3> QED BY <1>0, <2>1, <2>3, <3>2 DEF TypeOK
  <2>5. held[w] = NoTask /\ held'[w] = Head(tasks) /\ Head(tasks) # NoTask
        /\ \A v \in Workers : v # w => held'[v] = held[v]
    BY <1>0, <2>1, <2>3, NoTaskFacts DEF HeldInv
  <2>6. HeldInv'
    BY <1>0, <2>1, <2>2, <2>3, <2>5 DEF HeldInv, TypeOK
  <2>7. TasksInOnePlace'
    <3>1. TakenBy' = TakenBy \cup {Head(tasks)}
      BY <2>5 DEF TakenBy
    <3>2. accepted' = ToSet(tasks') \cup ToSet(ran') \cup TakenBy'
      BY <2>1, <2>2, <2>3, <3>1
    <3>3. \A v \in Workers : held'[v] \notin ToSet(tasks') \cup ToSet(ran')
      BY <2>1, <2>2, <2>3, <2>5
    <3> QED BY <1>0, <2>1, <2>2, <2>3, <3>2, <3>3, OnePlaceFrom
  <2>8. FreshInv'
    BY <2>1 DEF FreshInv
  <2>9. StopInv'
    BY <1>0, <2>1 DEF StopInv, TypeOK, Inside
  <2> QED BY <2>4, <2>6, <2>7, <2>8, <2>9
<1>3. CASE TaskStarts(w)
  <2>1. /\ worker[w] = "starting" /\ worker' = [worker EXCEPT ![w] = "running"]
        /\ caller' = caller \/ \E c \in Callers : /\ caller[c] = "waiting"
                                                /\ caller' = [caller EXCEPT ![c] = "check"]
        /\ UNCHANGED <<tasks, stopped, held, timed, calls, resetting, resets, accepted,
                       ran>>
    BY <1>3 DEF TaskStarts, poolVars, resetVars, ghostVars
  <2>2. TypeOK'
    BY <2>1 DEF TypeOK
  <2>3. HeldInv'
    BY <2>1 DEF HeldInv, TypeOK
  <2>4. FreshInv'
    BY <2>1 DEF FreshInv, TypeOK
  <2>5. StopInv'
    BY <1>0, <2>1 DEF StopInv, TypeOK, Inside
  <2> QED BY <2>1, <2>2, <2>3, <2>4, <2>5, NoTaskMoves
<1>4. CASE TaskEnds(w)
  <2>1. /\ worker[w] = "running" /\ worker' = [worker EXCEPT ![w] = "check"]
        /\ ran' = Append(ran, held[w]) /\ held' = [held EXCEPT ![w] = NoTask]
        /\ UNCHANGED <<tasks, stopped, caller, timed, calls, resetting, resets, accepted>>
    BY <1>4 DEF TaskEnds, poolVars, callerVars, resetVars
  <2>2. /\ IsInjective(tasks) /\ IsInjective(ran) /\ ToSet(tasks) \cap ToSet(ran) = {}
        /\ \A v \in Workers : held[v] \notin ToSet(tasks) \cup ToSet(ran)
        /\ accepted = ToSet(tasks) \cup ToSet(ran) \cup TakenBy
    BY OnePlaceParts
  <2>3. /\ held[w] # NoTask /\ held[w] \in Tasks /\ held'[w] = NoTask
        /\ \A v \in Workers : v # w => held'[v] = held[v] /\ held[v] # held[w]
    BY <1>0, <2>1 DEF HeldInv
  <2>4. /\ ran' \in Seq(Tasks) /\ IsInjective(ran')
        /\ ToSet(ran') = ToSet(ran) \cup {held[w]}
    BY <1>0, <2>1, <2>2, <2>3, SetOfAppend
  <2>5. TypeOK'
    BY <1>0, <2>1, <2>4 DEF TypeOK
  <2>6. HeldInv'
    BY <2>1, <2>3 DEF HeldInv, TypeOK
  <2>7. TasksInOnePlace'
    <3>1. TakenBy' = TakenBy \ {held[w]} /\ held[w] \in TakenBy
      BY <2>3 DEF TakenBy
    <3>2. accepted' = ToSet(tasks') \cup ToSet(ran') \cup TakenBy'
      BY <2>1, <2>2, <2>4, <3>1
    <3>3. NoTask \notin ToSet(tasks) \cup ToSet(ran')
      BY <1>0, <2>4, NoTaskFacts DEF ToSet
    <3>4. \A v \in Workers : held'[v] \notin ToSet(tasks') \cup ToSet(ran')
      BY <2>1, <2>2, <2>3, <2>4, <3>3
    <3> QED BY <1>0, <2>1, <2>2, <2>4, <3>2, <3>4, OnePlaceFrom
  <2>8. FreshInv'
    BY <2>1 DEF FreshInv
  <2>9. StopInv'
    BY <1>0, <2>1 DEF StopInv, TypeOK, Inside
  <2> QED BY <2>5, <2>6, <2>7, <2>8, <2>9
<1>5. CASE SpuriousWake(w)
  <2>1. /\ worker[w] = "waiting" /\ worker' = [worker EXCEPT ![w] = "check"]
        /\ UNCHANGED <<tasks, stopped, held, caller, timed, calls, resetting, resets,
                       accepted, ran>>
    BY <1>5 DEF SpuriousWake, poolVars, callerVars, resetVars, ghostVars
  <2>2. TypeOK'
    BY <2>1 DEF TypeOK
  <2>3. HeldInv'
    BY <2>1 DEF HeldInv, TypeOK
  <2>4. FreshInv'
    BY <2>1 DEF FreshInv
  <2>5. StopInv'
    BY <1>0, <2>1 DEF StopInv, TypeOK, Inside
  <2> QED BY <2>1, <2>2, <2>3, <2>4, <2>5, NoTaskMoves
<1> QED BY <1>1, <1>2, <1>3, <1>4, <1>5 DEF Works

\* A step of a caller that pushes: its task goes to the end of the queue
LEMMA PushStep ==
  ASSUME PoolInv, NEW c \in Callers, caller[c] \in {"check", "waiting"},
         CanEnqueue, Push(c),
         UNCHANGED <<stopped, worker, held, timed, calls, resetting, resets, ran>>
  PROVE  PoolInv'
<1> USE PoolAssumption DEF PoolInv
<1> DEFINE t == <<c, calls[c]>>
<1>0. /\ tasks \in Seq(Tasks) /\ ran \in Seq(Tasks)
      /\ held \in [Workers -> Tasks \cup {NoTask}]
      /\ calls \in [Callers -> 0 .. MaxCalls] /\ MaxCalls \in Nat /\ MaxTasks \in Nat
  BY DEF TypeOK
<1>1. t \in Tasks /\ t \notin accepted /\ resetting = "no"
  <2>1. calls[c] \in 1 .. MaxCalls
    <3>1. calls[c] > 0
      BY DEF FreshInv
    <3> QED BY <1>0, <3>1
  <2> QED BY <2>1 DEF FreshInv, StopInv, Inside, Tasks
<1>2. /\ tasks' = Append(tasks, t) /\ accepted' = accepted \cup {t}
      /\ caller' = [caller EXCEPT ![c] = "notify"]
  BY DEF Push
<1>3. /\ IsInjective(tasks) /\ IsInjective(ran) /\ ToSet(tasks) \cap ToSet(ran) = {}
      /\ \A v \in Workers : held[v] \notin ToSet(tasks) \cup ToSet(ran)
      /\ accepted = ToSet(tasks) \cup ToSet(ran) \cup TakenBy
  BY OnePlaceParts
<1> HIDE DEF t
<1>4. /\ tasks' \in Seq(Tasks) /\ Len(tasks') = Len(tasks) + 1 /\ IsInjective(tasks')
      /\ ToSet(tasks') = ToSet(tasks) \cup {t}
  BY <1>0, <1>1, <1>2, <1>3, SetOfAppend
<1>5. TypeOK'
  <2>1. Len(tasks) \in Nat /\ Len(tasks) < MaxTasks
    BY <1>0 DEF CanEnqueue
  <2>2. Len(tasks') <= MaxTasks
    BY <1>0, <1>4, <2>1
  <2> QED BY <1>1, <1>2, <1>4, <2>2 DEF TypeOK
<1>6. HeldInv'
  BY DEF HeldInv
<1>7. TasksInOnePlace'
  <2>1. TakenBy' = TakenBy
    BY DEF TakenBy
  <2>2. \A v \in Workers : held[v] # t
    BY <1>1, <1>3, NoTaskFacts DEF TakenBy
  <2>3. accepted' = ToSet(tasks') \cup ToSet(ran') \cup TakenBy'
    BY <1>2, <1>3, <1>4, <2>1
  <2>4. \A v \in Workers : held'[v] \notin ToSet(tasks') \cup ToSet(ran')
    BY <1>3, <1>4, <2>2
  <2>5. ToSet(tasks') \cap ToSet(ran') = {}
    BY <1>1, <1>3, <1>4
  <2> QED BY <1>0, <1>3, <1>4, <2>3, <2>4, <2>5, OnePlaceFrom
<1>8. FreshInv'
  <2>1. \A d \in Callers, n \in 1 .. MaxCalls : <<d, n>> = t => d = c /\ n = calls[c]
    BY DEF t
  <2>2. \A d \in Callers : <<d, calls[d]>> = t => d = c
    BY DEF t
  <2>3. \A d \in Callers, n \in 1 .. MaxCalls : <<d, n>> \in accepted' => n <= calls'[d]
    BY <1>0, <1>2, <2>1 DEF FreshInv
  <2>4. \A d \in Callers : caller'[d] \in {"check", "waiting"} =>
          d # c /\ caller[d] \in {"check", "waiting"}
    BY <1>2 DEF TypeOK
  <2> QED BY <1>2, <2>2, <2>3, <2>4 DEF FreshInv
<1>9. StopInv'
  <2>1. \A w \in Workers : worker[w] # "exited"
    BY <1>1 DEF StopInv
  <2> QED BY <1>1, <2>1 DEF StopInv
<1> QED BY <1>5, <1>6, <1>7, <1>8, <1>9

LEMMA CallersStep ==
  ASSUME PoolInv, ResetAlone, NEW c \in Callers,
         Call(c) \/ Proceeds(c) \/ TimeOut(c) \/ CallerWakes(c)
  PROVE  PoolInv'
<1> USE PoolAssumption DEF PoolInv
<1>1. CASE Call(c)
  <2>1. /\ caller[c] = "idle" /\ calls[c] < MaxCalls /\ resetting = "no"
        /\ calls' = [calls EXCEPT ![c] = @ + 1]
        /\ caller' = [caller EXCEPT ![c] = "check"]
        /\ timed' = timed \cup {c} \/ timed' = timed \ {c}
        /\ UNCHANGED <<tasks, stopped, worker, held, resetting, resets, accepted, ran>>
    BY <1>1 DEF Call, poolVars, workerVars, resetVars, ghostVars
  <2>2. /\ calls[c] + 1 \in 1 .. MaxCalls /\ calls[c] \in Nat /\ calls'[c] = calls[c] + 1
        /\ \A d \in Callers : d # c => calls'[d] = calls[d]
        /\ calls' \in [Callers -> 0 .. MaxCalls]
    BY <2>1 DEF TypeOK
  <2>3. TypeOK'
    BY <2>1, <2>2 DEF TypeOK
  <2>4. HeldInv'
    BY <2>1 DEF HeldInv
  <2>5. FreshInv'
    <3>1. <<c, calls[c] + 1>> \notin accepted
      BY <2>2 DEF FreshInv
    <3>2. \A d \in Callers, n \in 1 .. MaxCalls : <<d, n>> \in accepted => n <= calls'[d]
      <4> TAKE d \in Callers, n \in 1 .. MaxCalls
      <4>1. <<d, n>> \in accepted => n <= calls[d]
        BY DEF FreshInv
      <4>2. n <= calls[c] => n <= calls[c] + 1
        BY <2>2
      <4> QED BY <2>2, <4>1, <4>2
    <3>3. \A d \in Callers : caller'[d] \in {"check", "waiting"} =>
            calls'[d] > 0 /\ <<d, calls'[d]>> \notin accepted
      <4> TAKE d \in Callers
      <4>1. CASE d = c
        BY <2>2, <3>1, <4>1
      <4>2. CASE d # c
        BY <2>1, <2>2, <4>2 DEF FreshInv, TypeOK
      <4> QED BY <4>1, <4>2
    <3> QED BY <2>1, <3>2, <3>3 DEF FreshInv
  <2>6. StopInv'
    BY <2>1 DEF StopInv, Inside
  <2> QED BY <2>1, <2>3, <2>4, <2>5, <2>6, NoTaskMoves
<1>2. CASE Enqueue(c)
  BY <1>2, PushStep DEF Enqueue, workerVars, resetVars
<1>3. ASSUME caller[c] # "idle", UNCHANGED <<tasks, stopped, held, timed, calls,
                                             resetting, resets,
                                          accepted, ran>>,
             NEW s \in {"idle", "check", "waiting"}, caller' = [caller EXCEPT ![c] = s],
             s # "idle" => caller[c] \in {"check", "waiting"},
             \/ UNCHANGED worker
             \/ \E w \in Workers : /\ worker[w] = "waiting"
                                  /\ worker' = [worker EXCEPT ![w] = "check"]
      PROVE  PoolInv'
  <2>1. TypeOK'
    BY <1>3 DEF TypeOK
  <2>2. HeldInv'
    BY <1>3 DEF HeldInv, TypeOK
  <2>3. FreshInv'
    <3>1. \A d \in Callers : caller'[d] \in {"check", "waiting"} =>
                              caller[d] \in {"check", "waiting"}
      BY <1>3 DEF TypeOK
    <3> QED BY <1>3, <3>1 DEF FreshInv
  <2>4. StopInv'
    <3>1. resetting = "no"
      BY <1>3 DEF StopInv, Inside
    <3> QED BY <1>3, <3>1 DEF StopInv, TypeOK
  <2> QED BY <1>3, <2>1, <2>2, <2>3, <2>4, NoTaskMoves
<1>4. CASE EnqueueWait(c) \/ CallerWakes(c) \/ NotifyWorker(c)
  BY <1>3, <1>4 DEF EnqueueWait, CallerWakes, NotifyWorker, poolVars, workerVars,
                    resetVars,
                    ghostVars
<1>5. CASE TimeOut(c)
  BY <1>3, <1>5, PushStep DEF TimeOut, workerVars, resetVars
<1> QED BY <1>1, <1>2, <1>4, <1>5 DEF Proceeds

LEMMA ResetStep ==
  ASSUME PoolInv, ResetAlone, Stop \/ Reset
  PROVE  PoolInv'
<1> USE PoolAssumption DEF PoolInv
<1>1. CASE Stop
  <2>1. /\ resetting = "no" /\ resets < MaxResets /\ Inside = {} /\ stopped' = TRUE
        /\ resetting' = "stopped" /\ resets' = resets + 1
        /\ UNCHANGED <<tasks, worker, held, caller, timed, calls, accepted, ran>>
    BY <1>1 DEF Stop, workerVars, callerVars, ghostVars
  <2>2. TypeOK'
    BY <2>1 DEF TypeOK
  <2>3. HeldInv' /\ FreshInv' /\ StopInv'
    BY <2>1 DEF HeldInv, FreshInv, StopInv, Inside
  <2> QED BY <2>1, <2>2, <2>3, NoTaskMoves
<1>2. CASE NotifyAll
  <2>1. /\ resetting = "stopped" /\ resetting' = "joining"
        /\ worker' = [w \in Workers |->
                        IF worker[w] = "waiting" THEN "check" ELSE worker[w]]
        /\ UNCHANGED <<tasks, stopped, held, caller, timed, calls, resets, accepted, ran>>
    BY <1>2 DEF NotifyAll, poolVars, callerVars, ghostVars
  <2>2. TypeOK'
    BY <2>1 DEF TypeOK
  <2>3. HeldInv' /\ FreshInv' /\ StopInv'
    BY <2>1 DEF HeldInv, FreshInv, StopInv, Inside
  <2> QED BY <2>1, <2>2, <2>3, NoTaskMoves
<1>3. CASE Join
  <2>1. /\ resetting = "joining" /\ resetting' = "destroyed"
        /\ \A w \in Workers : worker[w] \in {"absent", "exited"}
        /\ UNCHANGED <<tasks, stopped, worker, held, caller, timed, calls, resets,
                       accepted, ran>>
    BY <1>3 DEF Join, poolVars, workerVars, callerVars, ghostVars
  <2>2. TypeOK'
    BY <2>1 DEF TypeOK
  <2>3. HeldInv' /\ FreshInv'
    BY <2>1 DEF HeldInv, FreshInv
  <2>4. StopInv'
    BY <2>1 DEF StopInv, Inside
  <2> QED BY <2>1, <2>2, <2>3, <2>4, NoTaskMoves
<1>4. CASE Recreate
  <2>1. PICK ws \in (SUBSET Workers) \ {{}} :
        /\ resetting = "destroyed" /\ resetting' = "no" /\ tasks' = <<>>
        /\ stopped' = FALSE
        /\ worker' = Threads(ws) /\ tasks = <<>>
        /\ \A w \in Workers : worker[w] \in {"absent", "exited"}
        /\ UNCHANGED <<held, caller, timed, calls, resets, accepted, ran>>
    BY <1>4 DEF Recreate, callerVars, ghostVars, StopInv
  <2>2. TypeOK'
    BY <2>1 DEF TypeOK, Threads
  <2>3. HeldInv' /\ FreshInv'
    BY <2>1 DEF HeldInv, FreshInv, Threads
  <2>4. StopInv'
    BY <2>1 DEF StopInv, Threads
  <2> QED BY <2>1, <2>2, <2>3, <2>4, NoTaskMoves
<1> QED BY <1>1, <1>2, <1>3, <1>4 DEF Reset

LEMMA PoolNext == ResetAlone /\ PoolInv /\ [Next]_vars => PoolInv'
<1> SUFFICES ASSUME ResetAlone, PoolInv, [Next]_vars PROVE PoolInv'
  OBVIOUS
<1>1. CASE UNCHANGED vars
  BY <1>1 DEF vars, poolVars, workerVars, callerVars, resetVars, ghostVars, PoolInv,
              TypeOK,
              TasksInOnePlace, HeldInv, FreshInv, StopInv, Inside
<1> QED BY <1>1, WorkersStep, CallersStep, ResetStep DEF Next

\* Nothing is queued and nobody holds a task when the pool is destroyed
LEMMA PoolDrained == PoolInv => ResetDrains
<1> SUFFICES ASSUME PoolInv, resetting = "destroyed" PROVE ToSet(ran) = accepted
  BY DEF ResetDrains
<1>1. TakenBy = {} /\ tasks = <<>>
  BY DEF PoolInv, StopInv, HeldInv, TakenBy
<1>2. ToSet(tasks) = {}
  BY <1>1 DEF ToSet
<1> QED BY <1>1, <1>2, OnePlaceParts DEF PoolInv
-----------------------------------------------------------------------------
(* The message loop.  x is somewhere in front of y in s.                     *)
Before(s, x, y) == \E i, j \in DOMAIN s : i < j /\ s[i] = x /\ s[j] = y

\* Not an idle message; of two such the thread and the number tell them apart
Real(x) == x.id # "Input"
Same(x, y) == x.from = y.from /\ x.n = y.n

\* y is urgent enough that x of the same thread, if earlier, precedes it
InOrder(x, y) == x.from = y.from /\ x.prior <= y.prior => x.n < y.n

\* What the loop is doing with its current message
Mode == IF pc \in {"idle", "dispatch"} THEN "dispatching"
        ELSE IF pc = "erase" THEN "erasing" ELSE "none"

KnownInv(q, h, post) ==
  /\ q \in Seq(Loop!Messages) /\ h \in Seq(Loop!Messages)
  /\ post \in [Loop!Threads -> Nat]
  /\ \A x \in ToSet(q) : x = Loop!IdleMessage \/ (Real(x) /\ x.n \in 1 .. post[x.from])
  /\ \A x \in ToSet(h) : Real(x) /\ x.n \in 1 .. post[x.from]

(* The queue is sorted.  Of two messages of a thread the earlier is in front,  *)
(* unless the later is more urgent.                                         *)
QueueOrder(q) ==
  /\ \A x, y : Before(q, x, y) => x.prior >= y.prior
  /\ \A x, y : Before(q, x, y) /\ Real(x) => ~ Same(x, y)
  /\ \A x, y : Before(q, x, y) /\ Real(x) /\ Real(y) => InOrder(x, y)

(* So they were dispatched, each once.                                       *)
HandledOrder(h) ==
  \A x, y : Before(h, x, y) => ~ Same(x, y) /\ InOrder(x, y)

(* What was dispatched comes before all that is queued, and is not queued any  *)
(* more, but for the message that is going to be erased.                     *)
SplitInv(q, h, cur, mode) ==
  \A x \in ToSet(h), y \in ToSet(q) :
    IF Same(x, y) THEN mode = "erasing" /\ y = cur
                  ELSE Real(y) => InOrder(x, y)

(* The current message is still queued; what got in front of it while the lock *)
(* was released is newer.                                                   *)
CurrentInv(q, cur, mode) ==
  /\ mode # "none" => cur \in ToSet(q)
  /\ mode = "dispatching" /\ Real(cur) =>
       \A x : Before(q, x, cur) /\ Real(x) /\ x.from = cur.from => cur.n < x.n

MessagesInv(q, h, cur, mode, post) ==
  /\ KnownInv(q, h, post) /\ QueueOrder(q) /\ HandledOrder(h)
  /\ SplitInv(q, h, cur, mode) /\ CurrentInv(q, cur, mode)

(* Before it takes a message there is none; and the one it takes is there.     *)
TakeInv ==
  /\ pc \notin {"idle", "dispatch", "erase", "stopped", "failed"} =>
       current = Loop!NoMessage
  /\ pc = "front" => qMain # <<>>

LoopInv ==
  /\ Loop!TypeOK /\ TakeInv
  /\ MessagesInv(qMain, handled, current, Mode, posted)
-----------------------------------------------------------------------------
(* Sequences that an element is put into or taken from                       *)

LEMMA NatMinimum ==
  ASSUME NEW T \in SUBSET Nat, T # {}
  PROVE  \E x \in T : \A y \in T : x <= y
<1>1. IsWellFoundedOn(OpToRel(<, Nat), Nat)
  BY NatLessThanWellFounded
<1>2. PICK x \in T : \A y \in T : ~ (<<y, x>> \in OpToRel(<, Nat))
  BY <1>1, WFMin
<1>3. x \in T /\ \A y \in T : ~ (y < x)
  BY <1>2 DEF OpToRel
<1> QED BY <1>3

LEMMA InsertFacts ==
  ASSUME NEW S, NEW q \in Seq(S), NEW m \in S, NEW p \in 1 .. Len(q) + 1
  PROVE  /\ InsertAt(q, p, m) \in Seq(S) /\ ToSet(InsertAt(q, p, m)) = ToSet(q) \cup {m}
         /\ \A x, y : Before(InsertAt(q, p, m), x, y) =>
              \/ Before(q, x, y)
              \/ x = m /\ \E i \in p .. Len(q) : q[i] = y
              \/ y = m /\ \E i \in 1 .. p - 1 : q[i] = x
<1> DEFINE n == Len(q)
           r == InsertAt(q, p, m)
<1>0. n \in Nat /\ p \in Nat /\ p > 0 /\ p <= n + 1 /\ DOMAIN q = 1 .. n
  BY LenProperties
<1>1. /\ SubSeq(q, 1, p - 1) \in Seq(S) /\ Len(SubSeq(q, 1, p - 1)) = p - 1
      /\ \A i \in 1 .. p - 1 : SubSeq(q, 1, p - 1)[i] = q[i]
  BY <1>0, SubSeqProperties
<1>2. /\ SubSeq(q, p, n) \in Seq(S) /\ Len(SubSeq(q, p, n)) = n - p + 1
      /\ \A i \in 1 .. n - p + 1 : SubSeq(q, p, n)[i] = q[p + i - 1]
  BY <1>0, SubSeqProperties
<1> DEFINE A == SubSeq(q, 1, p - 1)
           B == SubSeq(q, p, n)
           C == A \o <<m>>
<1>3. r = C \o B
  BY DEF InsertAt
<1> HIDE DEF n, r, A, B
<1>4. /\ C \in Seq(S) /\ Len(C) = p /\ C[p] = m /\ \A i \in 1 .. p - 1 : C[i] = q[i]
  <2>1. <<m>> \in Seq(S) /\ Len(<<m>>) = 1 /\ <<m>>[1] = m
    OBVIOUS
  <2>2. /\ C \in Seq(S) /\ Len(C) = Len(A) + 1
        /\ \A i \in 1 .. Len(A) : C[i] = A[i]
        /\ \A i \in Len(A) + 1 .. Len(A) + 1 : C[i] = <<m>>[i - Len(A)]
    BY <1>1, <2>1, ConcatProperties DEF A
  <2>3. (p - 1) + 1 = p /\ p \in (p - 1) + 1 .. (p - 1) + 1 /\ p - (p - 1) = 1
    BY <1>0
  <2> HIDE DEF C
  <2>4. C[p] = m
    BY <1>1, <2>1, <2>2, <2>3 DEF A
  <2> QED BY <1>1, <2>2, <2>3, <2>4 DEF A
<1> HIDE DEF C
<1>5. /\ r \in Seq(S) /\ Len(r) = n + 1 /\ DOMAIN r = 1 .. n + 1 /\ r[p] = m
      /\ \A i \in 1 .. p - 1 : r[i] = q[i]
      /\ \A i \in p + 1 .. n + 1 : r[i] = q[i - 1]
  <2>1. /\ r \in Seq(S) /\ Len(r) = p + (n - p + 1)
        /\ \A i \in 1 .. p : r[i] = C[i]
        /\ \A i \in p + 1 .. p + (n - p + 1) : r[i] = B[i - p]
    <3>1. /\ C \in Seq(S) /\ B \in Seq(S) /\ Len(C) = p /\ Len(B) = n - p + 1
          /\ r = C \o B
      BY <1>2, <1>3, <1>4 DEF B
    <3>2. /\ C \o B \in Seq(S) /\ Len(C \o B) = Len(C) + Len(B)
          /\ \A i \in 1 .. Len(C) + Len(B) :
               (C \o B)[i] = IF i <= Len(C) THEN C[i] ELSE B[i - Len(C)]
      BY <3>1, ConcatProperties, Zenon
    <3>3. /\ r \in Seq(S) /\ Len(r) = p + (n - p + 1)
          /\ \A i \in 1 .. p + (n - p + 1) : r[i] = IF i <= p THEN C[i] ELSE B[i - p]
      BY <3>1, <3>2, Zenon
    <3>4. /\ \A i \in 1 .. p : i \in 1 .. p + (n - p + 1) /\ i <= p
          /\ \A i \in p + 1 .. p + (n - p + 1) :
               i \in 1 .. p + (n - p + 1) /\ ~ (i <= p)
      BY <1>0
    <3> QED BY <3>3, <3>4
  <2>2. p + (n - p + 1) = n + 1 /\ p \in 1 .. p
    BY <1>0
  <2>3. \A i \in 1 .. p - 1 : i \in 1 .. p
    BY <1>0
  <2>4. ASSUME NEW i \in p + 1 .. n + 1 PROVE r[i] = q[i - 1]
    <3>1. i - p \in 1 .. n - p + 1 /\ p + (i - p) - 1 = i - 1
      BY <1>0
    <3>2. r[i] = B[i - p]
      BY <2>1, <2>2
    <3> QED BY <1>2, <3>1, <3>2 DEF B
  <2>5. DOMAIN r = 1 .. Len(r)
    BY <2>1
  <2> QED BY <1>4, <2>1, <2>2, <2>3, <2>4, <2>5
<1>6. \A i \in 1 .. n + 1 : i \in 1 .. p - 1 \/ i = p \/ i \in p + 1 .. n + 1
  BY <1>0
<1>7. /\ \A i \in 1 .. p - 1 : i \in 1 .. n /\ i \in 1 .. n + 1
      /\ \A i \in p + 1 .. n + 1 : i - 1 \in 1 .. n /\ i - 1 \in p .. n
      /\ p \in 1 .. n + 1
  BY <1>0
<1>8. ToSet(r) = ToSet(q) \cup {m}
  <2>1. ASSUME NEW x \in ToSet(r) PROVE x \in ToSet(q) \cup {m}
    <3>1. PICK i \in 1 .. n + 1 : r[i] = x
      BY <1>5, <2>1 DEF ToSet
    <3>2. CASE i \in 1 .. p - 1
      BY <1>0, <1>5, <1>7, <3>1, <3>2 DEF ToSet
    <3>3. CASE i = p
      BY <1>5, <3>1, <3>3
    <3>4. CASE i \in p + 1 .. n + 1
      <4>1. i - 1 \in DOMAIN q /\ q[i - 1] = x
        BY <1>0, <1>5, <1>7, <3>1, <3>4
      <4> QED BY <4>1, Zenon DEF ToSet
    <3> QED BY <1>6, <3>2, <3>3, <3>4
  <2>2. m \in ToSet(r)
    BY <1>5, <1>7 DEF ToSet
  <2>3. ASSUME NEW x \in ToSet(q) PROVE x \in ToSet(r)
    <3>1. PICK i \in 1 .. n : q[i] = x
      BY <1>0, <2>3 DEF ToSet
    <3>2. CASE i < p
      <4>1. i \in 1 .. p - 1 /\ i \in 1 .. n + 1
        BY <1>0, <3>2
      <4>2. i \in DOMAIN r /\ r[i] = x
        BY <1>5, <3>1, <4>1
      <4> QED BY <4>2, Zenon DEF ToSet
    <3>3. CASE ~ (i < p)
      <4>1. i + 1 \in p + 1 .. n + 1 /\ i + 1 \in 1 .. n + 1 /\ (i + 1) - 1 = i
        BY <1>0, <3>3
      <4>2. i + 1 \in DOMAIN r /\ r[i + 1] = x
        BY <1>5, <3>1, <4>1
      <4> QED BY <4>2, Zenon DEF ToSet
    <3> QED BY <3>2, <3>3
  <2> QED BY <2>1, <2>2, <2>3
<1>9. ASSUME NEW x, NEW y, Before(r, x, y)
      PROVE  \/ Before(q, x, y)
             \/ x = m /\ \E i \in p .. n : q[i] = y
             \/ y = m /\ \E i \in 1 .. p - 1 : q[i] = x
  <2>1. PICK i \in 1 .. n + 1, j \in 1 .. n + 1 : i < j /\ r[i] = x /\ r[j] = y
    BY <1>5, <1>9 DEF Before
  <2>2. CASE i = p
    <3>1. j \in p + 1 .. n + 1
      BY <1>0, <2>1, <2>2
    <3>2. j - 1 \in p .. n /\ q[j - 1] = y
      BY <1>5, <1>7, <2>1, <3>1
    <3> QED BY <1>5, <2>1, <2>2, <3>2
  <2>3. CASE j = p
    <3>1. i \in 1 .. p - 1
      BY <1>0, <2>1, <2>3
    <3>2. q[i] = x
      BY <1>5, <2>1, <3>1
    <3> QED BY <1>5, <2>1, <2>3, <3>1, <3>2
  <2>4. CASE i # p /\ j # p
    <3>1. PICK k \in 1 .. n : q[k] = x /\ k = IF i < p THEN i ELSE i - 1
      <4>1. CASE i < p
        <5>1. i \in 1 .. p - 1
          BY <1>0, <4>1
        <5> QED BY <1>5, <1>7, <2>1, <4>1, <5>1
      <4>2. CASE ~ (i < p)
        <5>1. i \in p + 1 .. n + 1
          BY <1>0, <2>4, <4>2
        <5> QED BY <1>5, <1>7, <2>1, <4>2, <5>1
      <4> QED BY <4>1, <4>2
    <3>2. PICK l \in 1 .. n : q[l] = y /\ l = IF j < p THEN j ELSE j - 1
      <4>1. CASE j < p
        <5>1. j \in 1 .. p - 1
          BY <1>0, <4>1
        <5> QED BY <1>5, <1>7, <2>1, <4>1, <5>1
      <4>2. CASE ~ (j < p)
        <5>1. j \in p + 1 .. n + 1
          BY <1>0, <2>4, <4>2
        <5> QED BY <1>5, <1>7, <2>1, <4>2, <5>1
      <4> QED BY <4>1, <4>2
    <3>3. k < l
      BY <1>0, <2>1, <2>4, <3>1, <3>2
    <3> QED BY <1>0, <3>1, <3>2, <3>3 DEF Before
  <2> QED BY <2>2, <2>3, <2>4
<1> QED BY <1>5, <1>8, <1>9 DEF n, r

LEMMA RemoveAtFacts ==
  ASSUME NEW S, NEW q \in Seq(S), NEW p \in 1 .. Len(q)
  PROVE  /\ RemoveAt(q, p) \in Seq(S) /\ ToSet(RemoveAt(q, p)) \subseteq ToSet(q)
         /\ \A x, y : Before(RemoveAt(q, p), x, y) => Before(q, x, y)
         /\ \A x \in ToSet(RemoveAt(q, p)) : Before(q, x, q[p]) \/ Before(q, q[p], x)
<1> DEFINE n == Len(q)
           r == RemoveAt(q, p)
           A == SubSeq(q, 1, p - 1)
           B == SubSeq(q, p + 1, n)
<1>0. n \in Nat /\ p \in Nat /\ p > 0 /\ p <= n /\ DOMAIN q = 1 .. n
  BY LenProperties
<1>1. A \in Seq(S) /\ Len(A) = p - 1 /\ \A i \in 1 .. p - 1 : A[i] = q[i]
  BY <1>0, SubSeqProperties
<1>1a. n = Len(q)
  OBVIOUS
<1> HIDE DEF n
<1>2. B \in Seq(S) /\ Len(B) = n - p /\ \A i \in 1 .. n - p : B[i] = q[p + i]
  <2>1. ASSUME NEW i \in p + 1 .. n PROVE q[i] \in S
    <3>1. i \in 1 .. Len(q)
      BY <1>0, <1>1a
    <3> QED BY <3>1, ElementOfSeq
  <2>2. /\ B \in Seq(S) /\ Len(B) = IF p + 1 <= n THEN n - (p + 1) + 1 ELSE 0
        /\ \A i \in 1 .. n - (p + 1) + 1 : B[i] = q[p + 1 + i - 1]
    BY <1>0, <2>1, SubSeqProperties
  <2>3. n - (p + 1) + 1 = n - p /\ (~ (p + 1 <= n) => n - p = 0)
    BY <1>0
  <2>4. \A i \in 1 .. n - p : p + 1 + i - 1 = p + i
    BY <1>0
  <2> HIDE DEF B
  <2> QED BY <2>2, <2>3, <2>4
<1>3. r = A \o B
  BY <1>1a DEF RemoveAt
<1> HIDE DEF r, A, B
<1>4. /\ r \in Seq(S) /\ Len(r) = n - 1 /\ DOMAIN r = 1 .. n - 1
      /\ \A i \in 1 .. p - 1 : r[i] = q[i]
      /\ \A i \in p .. n - 1 : r[i] = q[i + 1]
  <2>1. /\ r \in Seq(S) /\ Len(r) = (p - 1) + (n - p)
        /\ \A i \in 1 .. p - 1 : r[i] = A[i]
        /\ \A i \in (p - 1) + 1 .. (p - 1) + (n - p) : r[i] = B[i - (p - 1)]
    <3>1. /\ r \in Seq(S) /\ Len(r) = Len(A) + Len(B)
          /\ \A i \in 1 .. Len(A) : r[i] = A[i]
          /\ \A i \in Len(A) + 1 .. Len(A) + Len(B) : r[i] = B[i - Len(A)]
      <4>1. A \in Seq(S) /\ B \in Seq(S)
        BY <1>1, <1>2
      <4>2. /\ r \in Seq(S) /\ Len(r) = Len(A) + Len(B)
            /\ \A i \in 1 .. Len(A) + Len(B) :
                 r[i] = IF i <= Len(A) THEN A[i] ELSE B[i - Len(A)]
        BY <4>1, <1>3, ConcatProperties, Zenon
      <4>3. Len(A) \in Nat /\ Len(B) \in Nat
        BY <4>1
      <4> QED BY <4>2, <4>3
    <3> QED BY <1>1, <1>2, <3>1
  <2>2. (p - 1) + (n - p) = n - 1 /\ (p - 1) + 1 = p
    BY <1>0
  <2>3. ASSUME NEW i \in p .. n - 1 PROVE r[i] = q[i + 1]
    <3>1. i - (p - 1) \in 1 .. n - p /\ p + (i - (p - 1)) = i + 1
      BY <1>0
    <3>2. r[i] = B[i - (p - 1)]
      BY <2>1, <2>2
    <3> QED BY <1>2, <3>1, <3>2
  <2>4. DOMAIN r = 1 .. Len(r)
    BY <2>1
  <2> QED BY <1>1, <2>1, <2>2, <2>3, <2>4
<1>5. ASSUME NEW i \in 1 .. n - 1
      PROVE  \E k \in 1 .. n : q[k] = r[i] /\ k = IF i < p THEN i ELSE i + 1
  <2>1. CASE i < p
    <3>1. i \in 1 .. p - 1 /\ i \in 1 .. n
      BY <1>0, <2>1
    <3> QED BY <1>4, <2>1, <3>1
  <2>2. CASE ~ (i < p)
    <3>1. i \in p .. n - 1 /\ i + 1 \in 1 .. n
      BY <1>0, <2>2
    <3> QED BY <1>4, <2>2, <3>1
  <2> QED BY <2>1, <2>2
<1>6. ASSUME NEW x \in ToSet(r)
      PROVE  x \in ToSet(q) /\ (Before(q, x, q[p]) \/ Before(q, q[p], x))
  <2>1. PICK i \in 1 .. n - 1 : r[i] = x
    BY <1>4, <1>6 DEF ToSet
  <2>2. PICK k \in 1 .. n : q[k] = x /\ k = IF i < p THEN i ELSE i + 1
    BY <1>5, <2>1
  <2>3. k < p \/ p < k
    BY <1>0, <2>2
  <2>4. p \in DOMAIN q /\ k \in DOMAIN q
    BY <1>0
  <2> QED BY <2>2, <2>3, <2>4, Zenon DEF Before, ToSet
<1>7. ASSUME NEW x, NEW y, Before(r, x, y) PROVE Before(q, x, y)
  <2>1. PICK i \in 1 .. n - 1, j \in 1 .. n - 1 : i < j /\ r[i] = x /\ r[j] = y
    BY <1>4, <1>7 DEF Before
  <2>2. PICK k \in 1 .. n : q[k] = x /\ k = IF i < p THEN i ELSE i + 1
    BY <1>5, <2>1
  <2>3. PICK l \in 1 .. n : q[l] = y /\ l = IF j < p THEN j ELSE j + 1
    BY <1>5, <2>1
  <2>4. k < l
    BY <1>0, <2>1, <2>2, <2>3
  <2> QED BY <1>0, <2>2, <2>3, <2>4, Zenon DEF Before
<1> QED BY <1>4, <1>6, <1>7 DEF r

LEMMA RemoveFirstFacts ==
  ASSUME NEW S, NEW q \in Seq(S), NEW c \in ToSet(q)
  PROVE  /\ RemoveFirst(q, c) \in Seq(S) /\ ToSet(RemoveFirst(q, c)) \subseteq ToSet(q)
         /\ \A x, y : Before(RemoveFirst(q, c), x, y) => Before(q, x, y)
         /\ \A x \in ToSet(RemoveFirst(q, c)) : Before(q, x, c) \/ Before(q, c, x)
<1> DEFINE I == {i \in 1 .. Len(q) : q[i] = c}
<1>1. I # {} /\ I \in SUBSET Nat
  BY DEF ToSet
<1>2. Min(I) \in I
  BY <1>1, NatMinimum DEF Min
<1>3. RemoveFirst(q, c) = RemoveAt(q, Min(I))
  BY <1>1 DEF RemoveFirst, SelectInSeq
<1> HIDE DEF I
<1>4. Min(I) \in 1 .. Len(q) /\ q[Min(I)] = c
  BY <1>2 DEF I
<1> QED BY <1>3, <1>4, RemoveAtFacts

LEMMA HeadFirst ==
  ASSUME NEW S, NEW q \in Seq(S), q # <<>>
  PROVE  /\ Head(q) \in ToSet(q) /\ Head(q) \in S
         /\ \A x : Before(q, x, Head(q)) => Before(q, Head(q), Head(q))
<1>1. Head(q) = q[1] /\ Len(q) \in Nat /\ Len(q) > 0 /\ Head(q) \in S
  OBVIOUS
<1>2. DOMAIN q = 1 .. Len(q) /\ 1 \in DOMAIN q
  BY <1>1
<1>3. ASSUME NEW x, Before(q, x, Head(q)) PROVE Before(q, Head(q), Head(q))
  <2>1. PICK i \in DOMAIN q, j \in DOMAIN q : i < j /\ q[j] = Head(q)
    BY <1>3 DEF Before
  <2>2. 1 < j
    BY <1>2, <2>1
  <2> QED BY <1>1, <1>2, <2>1, <2>2 DEF Before
<1> QED BY <1>1, <1>2, <1>3 DEF ToSet

LEMMA AppendLast ==
  ASSUME NEW S, NEW s \in Seq(S), NEW m \in S
  PROVE  /\ Append(s, m) \in Seq(S) /\ ToSet(Append(s, m)) = ToSet(s) \cup {m}
         /\ \A x, y : Before(Append(s, m), x, y) =>
              Before(s, x, y) \/ (x \in ToSet(s) /\ y = m)
<1> DEFINE n == Len(s)
           r == Append(s, m)
<1>1. /\ n \in Nat /\ r \in Seq(S) /\ Len(r) = n + 1 /\ r[n + 1] = m
      /\ \A i \in 1 .. n : r[i] = s[i]
      /\ DOMAIN s = 1 .. n /\ DOMAIN r = 1 .. n + 1
  BY AppendProperties
<1> HIDE DEF n, r
<1>2. ASSUME NEW x, NEW y, Before(r, x, y)
      PROVE  Before(s, x, y) \/ (x \in ToSet(s) /\ y = m)
  <2>1. PICK i \in 1 .. n + 1, j \in 1 .. n + 1 : i < j /\ r[i] = x /\ r[j] = y
    BY <1>1, <1>2 DEF Before
  <2>2. i \in 1 .. n /\ (j \in 1 .. n \/ j = n + 1)
    BY <1>1, <2>1
  <2>3. s[i] = x /\ i \in DOMAIN s
    BY <1>1, <2>1, <2>2
  <2>4. CASE j = n + 1
    BY <1>1, <2>1, <2>3, <2>4, Zenon DEF ToSet
  <2>5. CASE j \in 1 .. n
    BY <1>1, <2>1, <2>3, <2>5 DEF Before
  <2> QED BY <2>2, <2>4, <2>5
<1> QED BY <1>1, <1>2, SetOfAppend DEF r
-----------------------------------------------------------------------------
(* The queue                                                                *)

\* The library's operators, as the instance names them
LEMMA LibraryOfLoop ==
  /\ \A S : Loop!Cardinality(S) = Cardinality(S)
  /\ \A s, i, e : Loop!InsertAt(s, i, e) = InsertAt(s, i, e)
  /\ \A s, e : Loop!RemoveFirst(s, e) = RemoveFirst(s, e)
  /\ \A f : Loop!IsInjective(f) = IsInjective(f)
BY Zenon DEF Loop!Cardinality, Cardinality, Loop!InsertAt, InsertAt, Loop!IsInjective,
             IsInjective,
             Loop!RemoveFirst, RemoveFirst, Loop!RemoveAt, RemoveAt,
             Loop!SelectInSeq, SelectInSeq,
             Loop!Min, Min

\* A message is put behind all of at least its priority and before the others
LEMMA PlacedFacts ==
  ASSUME NEW q \in Seq(Loop!Messages), NEW m \in Loop!Messages,
         \A x, y : Before(q, x, y) => x.prior >= y.prior
  PROVE  /\ Loop!Placed(q, m) \in Seq(Loop!Messages)
         /\ ToSet(Loop!Placed(q, m)) = ToSet(q) \cup {m}
         /\ \A x, y : Before(Loop!Placed(q, m), x, y) =>
              \/ Before(q, x, y)
              \/ x = m /\ y \in ToSet(q) /\ y.prior < m.prior
              \/ y = m /\ x \in ToSet(q) /\ x.prior >= m.prior
<1> DEFINE n == Len(q)
           K == {k \in DOMAIN q : q[k].prior >= m.prior}
           T == {k \in 1 .. n + 1 : k = n + 1 \/ k \notin K}
<1>1. n \in Nat /\ DOMAIN q = 1 .. n /\ n = Len(q)
  BY LenProperties
<1> HIDE DEF n
<1>2. m.prior \in Nat /\ \A k \in 1 .. n : q[k].prior \in Nat /\ q[k] \in Loop!Messages
  <2>1. \A x \in Loop!Messages : x.prior \in Nat
    BY DEF Loop!Messages
  <2>2. \A k \in 1 .. n : q[k] \in Loop!Messages
    BY <1>1, ElementOfSeq
  <2> QED BY <2>1, <2>2
<1>3. PICK p \in T : \A k \in T : p <= k
  <2>1. T \in SUBSET Nat
    BY <1>1
  <2>2. n + 1 \in T
    BY <1>1
  <2> QED BY <2>1, <2>2, NatMinimum
<1>4. p \in 1 .. n + 1 /\ p \in Nat /\ p > 0
  BY <1>1, <1>3
<1>5. ASSUME NEW k \in 1 .. p - 1 PROVE k \in 1 .. n /\ q[k].prior >= m.prior
  <2>1. k \in 1 .. n /\ k < p /\ k \in 1 .. n + 1
    BY <1>1, <1>4
  <2>2. k \notin T
    BY <1>3, <1>4, <2>1
  <2> QED BY <1>1, <2>1, <2>2
<1>6. ASSUME NEW k \in p .. n PROVE k \in 1 .. n /\ q[k].prior < m.prior
  <2>1. k \in 1 .. n /\ p \in 1 .. n /\ p # n + 1
    BY <1>1, <1>4
  <2>2. q[p].prior < m.prior
    BY <1>1, <1>2, <1>3, <2>1
  <2>3. CASE k = p
    BY <2>1, <2>2, <2>3
  <2>4. CASE k # p
    <3>1. p < k
      BY <1>4, <2>4
    <3>2. Before(q, q[p], q[k])
      BY <1>1, <2>1, <3>1 DEF Before
    <3>3. q[p].prior >= q[k].prior
      BY <3>2
    <3> QED BY <1>2, <2>1, <2>2, <3>3
  <2> QED BY <2>3, <2>4
<1>7. K = 1 .. p - 1
  <2>1. \A k \in K : k \in 1 .. p - 1
    <3> SUFFICES ASSUME NEW k \in 1 .. n, q[k].prior >= m.prior PROVE k \in 1 .. p - 1
      BY <1>1
    <3>1. k \notin p .. n
      BY <1>2, <1>6
    <3> QED BY <1>1, <1>4, <3>1
  <2> QED BY <1>1, <1>5, <2>1
<1> HIDE DEF K, T
<1>8. Cardinality(K) + 1 = p
  <2>1. Cardinality(1 .. p - 1) = p - 1
    <3>1. 1 \in Int /\ p - 1 \in Int
      BY <1>4
    <3>2. Cardinality(1 .. p - 1) = IF 1 > p - 1 THEN 0 ELSE (p - 1) - 1 + 1
      BY <3>1, FS_Interval
    <3> QED BY <1>4, <3>2
  <2> QED BY <1>4, <1>7, <2>1
<1>9. Loop!Placed(q, m) = InsertAt(q, p, m)
  <2>1. Loop!Placed(q, m) = InsertAt(q, Cardinality(K) + 1, m)
    BY LibraryOfLoop, Zenon DEF Loop!Placed, K
  <2> QED BY <1>8, <2>1
<1>10. \A k \in p .. n : q[k] \in ToSet(q)
  BY <1>1, <1>6 DEF ToSet
<1>11. \A k \in 1 .. p - 1 : q[k] \in ToSet(q)
  BY <1>1, <1>5 DEF ToSet
<1>12. p \in 1 .. Len(q) + 1
  BY <1>1, <1>4
<1>13. /\ InsertAt(q, p, m) \in Seq(Loop!Messages)
       /\ ToSet(InsertAt(q, p, m)) = ToSet(q) \cup {m}
       /\ \A x, y : Before(InsertAt(q, p, m), x, y) =>
              \/ Before(q, x, y)
              \/ x = m /\ \E i \in p .. n : q[i] = y
              \/ y = m /\ \E i \in 1 .. p - 1 : q[i] = x
  <2>1. /\ InsertAt(q, p, m) \in Seq(Loop!Messages)
        /\ ToSet(InsertAt(q, p, m)) = ToSet(q) \cup {m}
    BY <1>12, InsertFacts
  <2>2. ASSUME NEW x, NEW y, Before(InsertAt(q, p, m), x, y)
        PROVE  \/ Before(q, x, y)
               \/ x = m /\ \E i \in p .. Len(q) : q[i] = y
               \/ y = m /\ \E i \in 1 .. p - 1 : q[i] = x
    BY <1>12, <2>2, InsertFacts
  <2> QED BY <1>1, <2>1, <2>2
<1> QED BY <1>5, <1>6, <1>9, <1>10, <1>11, <1>13

\* What the invariants say of the fields of a message
LEMMA FieldFacts ==
  ASSUME NEW q, NEW h, NEW post, KnownInv(q, h, post)
  PROVE  /\ \A x \in ToSet(q) : /\ x \in Loop!Messages /\ x.from \in Loop!Threads
                               /\ x.n \in Nat /\ x.prior \in Nat /\ post[x.from] \in Nat
                               /\ x.n <= post[x.from] /\ (Real(x) <=> x.n > 0)
         /\ \A x \in ToSet(h) : /\ x \in Loop!Messages /\ x.from \in Loop!Threads
                               /\ x.n \in Nat /\ x.prior \in Nat /\ post[x.from] \in Nat
                               /\ x.n <= post[x.from] /\ Real(x) /\ x.n > 0
<1>1. \A x \in Loop!Messages : x.from \in Loop!Threads /\ x.n \in Nat /\ x.prior \in Nat
  BY DEF Loop!Messages
<1>2. \A x \in ToSet(q) : x \in Loop!Messages
  BY DEF KnownInv, ToSet
<1>3. \A x \in ToSet(h) : x \in Loop!Messages
  BY DEF KnownInv, ToSet
<1>4. Loop!IdleMessage.n = 0 /\ ~ Real(Loop!IdleMessage)
  BY DEF Loop!IdleMessage, Real
<1>5. \A t \in Loop!Threads : post[t] \in Nat
  BY DEF KnownInv
<1> QED BY <1>1, <1>2, <1>3, <1>4, <1>5 DEF KnownInv

LEMMA InsertMessage ==
  ASSUME NEW q, NEW h, NEW cur, NEW mode, NEW post, MessagesInv(q, h, cur, mode, post),
         NEW m \in Loop!Messages, NEW next \in [Loop!Threads -> Nat],
         \A t \in Loop!Threads : post[t] <= next[t],
         \/ m = Loop!IdleMessage
         \/ Real(m) /\ m.n \in 1 .. next[m.from] /\ m.n > post[m.from]
  PROVE  MessagesInv(Loop!Placed(q, m), h, cur, mode, next)
<1> DEFINE r == Loop!Placed(q, m)
<1>0. KnownInv(q, h, post) /\ QueueOrder(q) /\ HandledOrder(h)
      /\ SplitInv(q, h, cur, mode)
      /\ CurrentInv(q, cur, mode)
  BY DEF MessagesInv
<1>1. /\ \A x \in ToSet(q) : /\ x.from \in Loop!Threads /\ x.n \in Nat /\ x.prior \in Nat
                            /\ post[x.from] \in Nat /\ x.n <= post[x.from]
                            /\ (Real(x) <=> x.n > 0)
      /\ \A x \in ToSet(h) : /\ x.from \in Loop!Threads /\ x.n \in Nat /\ x.prior \in Nat
                            /\ post[x.from] \in Nat /\ x.n <= post[x.from] /\ Real(x)
                            /\ x.n > 0
  BY <1>0, FieldFacts
<1>2. /\ m.from \in Loop!Threads /\ m.n \in Nat /\ m.prior \in Nat /\ next[m.from] \in Nat
      /\ post[m.from] \in Nat
      /\ \/ m.n = 0 /\ ~ Real(m) /\ m = Loop!IdleMessage
         \/ m.n > 0 /\ m.n \in 1 .. next[m.from] /\ m.n > post[m.from] /\ Real(m)
  BY <1>0 DEF KnownInv, Loop!Messages, Loop!IdleMessage, Real
<1>3. /\ r \in Seq(Loop!Messages) /\ ToSet(r) = ToSet(q) \cup {m}
      /\ \A x, y : Before(r, x, y) =>
           \/ Before(q, x, y)
           \/ x = m /\ y \in ToSet(q) /\ y.prior < m.prior
           \/ y = m /\ x \in ToSet(q) /\ x.prior >= m.prior
  BY <1>0, PlacedFacts DEF KnownInv, QueueOrder
<1> HIDE DEF r
<1>4. KnownInv(r, h, next)
  <2>1. ASSUME NEW x, Real(x), x.n \in 1 .. post[x.from], x.from \in Loop!Threads
        PROVE  x.n \in 1 .. next[x.from]
    <3>1. post[x.from] \in Nat /\ next[x.from] \in Nat /\ post[x.from] <= next[x.from]
      BY <1>0, <2>1 DEF KnownInv
    <3> QED BY <2>1, <3>1
  <2> QED BY <1>0, <1>1, <1>2, <1>3, <2>1 DEF KnownInv
\* The new message is newer than all of its thread
<1>5. \A x \in ToSet(q) \cup ToSet(h) : x.from = m.from /\ Real(m) => x.n < m.n
  BY <1>1, <1>2
<1>6. \A x \in ToSet(q) \cup ToSet(h) : Real(x) \/ Real(m) => ~ Same(x, m) /\ ~ Same(m, x)
  BY <1>1, <1>2, <1>5 DEF Same
<1>7. QueueOrder(r)
  <2> SUFFICES ASSUME NEW x, NEW y, Before(r, x, y)
               PROVE  /\ x.prior >= y.prior
                      /\ Real(x) => ~ Same(x, y)
                      /\ Real(x) /\ Real(y) => InOrder(x, y)
    BY DEF QueueOrder
  <2>1. CASE Before(q, x, y)
    BY <1>0, <2>1 DEF QueueOrder
  <2>2. CASE x = m /\ y \in ToSet(q) /\ y.prior < m.prior
    <3>1. ~ (m.prior <= y.prior) /\ m.prior >= y.prior
      BY <1>1, <1>2, <2>2
    <3> QED BY <1>6, <2>2, <3>1 DEF InOrder
  <2>3. CASE y = m /\ x \in ToSet(q) /\ x.prior >= m.prior
    BY <1>5, <1>6, <2>3 DEF InOrder
  <2> QED BY <1>3, <2>1, <2>2, <2>3
<1>8. SplitInv(r, h, cur, mode)
  BY <1>0, <1>3, <1>5, <1>6, <1>1 DEF SplitInv, InOrder
<1>9. CurrentInv(r, cur, mode)
  <2>1. mode # "none" => cur \in ToSet(r)
    BY <1>0, <1>3 DEF CurrentInv
  <2>2. ASSUME mode = "dispatching", Real(cur), NEW x, Before(r, x, cur), Real(x),
               x.from = cur.from
        PROVE  cur.n < x.n
    <3>1. cur \in ToSet(q)
      BY <1>0, <2>2 DEF CurrentInv
    <3>2. cur # m
      BY <1>6, <2>2, <3>1 DEF Same
    <3>3. CASE Before(q, x, cur)
      BY <1>0, <2>2, <3>3 DEF CurrentInv
    <3>4. CASE x = m
      BY <1>5, <2>2, <3>1, <3>4
    <3> QED BY <1>3, <2>2, <3>2, <3>3, <3>4
  <2> QED BY <2>1, <2>2 DEF CurrentInv
<1> QED BY <1>0, <1>4, <1>7, <1>8, <1>9 DEF MessagesInv, r

\* The current message is dispatched; an idle one leaves no trace
LEMMA HandleMessage ==
  ASSUME NEW q, NEW h, NEW cur, NEW post, MessagesInv(q, h, cur, "dispatching", post)
  PROVE  /\ Real(cur) => MessagesInv(q, Append(h, cur), cur, "erasing", post)
         /\ ~ Real(cur) => MessagesInv(q, h, cur, "erasing", post)
<1>0. KnownInv(q, h, post) /\ QueueOrder(q) /\ HandledOrder(h)
      /\ SplitInv(q, h, cur, "dispatching") /\ CurrentInv(q, cur, "dispatching")
  BY DEF MessagesInv
<1>1. CurrentInv(q, cur, "erasing") /\ cur \in ToSet(q)
  BY <1>0 DEF CurrentInv
<1>2. SplitInv(q, h, cur, "erasing")
  BY <1>0 DEF SplitInv
<1>3. /\ \A x \in ToSet(q) : /\ x \in Loop!Messages /\ x.from \in Loop!Threads
                            /\ x.n \in Nat /\ x.prior \in Nat /\ post[x.from] \in Nat
                            /\ x.n <= post[x.from] /\ (Real(x) <=> x.n > 0)
      /\ \A x \in ToSet(h) : x \in Loop!Messages /\ Real(x) /\ x.n > 0
  BY <1>0, FieldFacts
<1>4. ASSUME Real(cur) PROVE MessagesInv(q, Append(h, cur), cur, "erasing", post)
  <2> DEFINE r == Append(h, cur)
  <2>1. h \in Seq(Loop!Messages) /\ cur \in Loop!Messages
    BY <1>0, <1>1, <1>3 DEF KnownInv
  <2>2. /\ r \in Seq(Loop!Messages) /\ ToSet(r) = ToSet(h) \cup {cur}
        /\ \A x, y : Before(r, x, y) => Before(h, x, y) \/ (x \in ToSet(h) /\ y = cur)
    BY <2>1, AppendLast
  <2> HIDE DEF r
  <2>3. KnownInv(q, r, post)
    <3>1. cur.n \in 1 .. post[cur.from]
      BY <1>1, <1>3, <1>4
    <3> QED BY <1>0, <1>4, <2>2, <3>1 DEF KnownInv
  <2>4. \A x \in ToSet(h) : ~ Same(x, cur) /\ InOrder(x, cur)
    BY <1>0, <1>1, <1>4 DEF SplitInv
  <2>5. HandledOrder(r)
    BY <1>0, <2>2, <2>4 DEF HandledOrder
  <2>6. ASSUME NEW y \in ToSet(q), y # cur
        PROVE  ~ Same(cur, y) /\ (Real(y) => InOrder(cur, y))
    <3>1. Before(q, y, cur) \/ Before(q, cur, y)
      <4>1. PICK i \in DOMAIN q : q[i] = y
        BY DEF ToSet
      <4>2. PICK j \in DOMAIN q : q[j] = cur
        BY <1>1 DEF ToSet
      <4>3. i < j \/ j < i
        BY <1>0, <2>6, <4>1, <4>2 DEF KnownInv
      <4> QED BY <4>1, <4>2, <4>3 DEF Before
    <3>2. CASE Before(q, cur, y)
      BY <1>0, <1>4, <3>2 DEF QueueOrder
    <3>3. CASE Before(q, y, cur)
      <4>1. Real(y) => ~ Same(y, cur) /\ (y.from = cur.from => cur.n < y.n)
        BY <1>0, <1>4, <3>3 DEF QueueOrder, CurrentInv
      <4>2. Real(y) => ~ Same(cur, y) /\ InOrder(cur, y)
        BY <4>1 DEF InOrder, Same
      <4>3. ~ Real(y) => ~ Same(cur, y)
        BY <1>1, <1>3, <1>4 DEF Same
      <4> QED BY <4>2, <4>3
    <3> QED BY <3>1, <3>2, <3>3
  <2>7. SplitInv(q, r, cur, "erasing")
    <3> SUFFICES ASSUME NEW x \in ToSet(r), NEW y \in ToSet(q)
                 PROVE  IF Same(x, y) THEN y = cur ELSE Real(y) => InOrder(x, y)
      BY DEF SplitInv
    <3>1. CASE x \in ToSet(h)
      BY <1>2, <3>1 DEF SplitInv
    <3>2. CASE x = cur /\ y # cur
      BY <2>6, <3>2
    <3>3. CASE x = cur /\ y = cur
      BY <3>3 DEF Same
    <3> QED BY <2>2, <3>1, <3>2, <3>3
  <2> QED BY <1>0, <1>1, <2>3, <2>5, <2>7 DEF MessagesInv, r
<1> QED BY <1>0, <1>1, <1>2, <1>4 DEF MessagesInv

LEMMA EraseMessage ==
  ASSUME NEW q, NEW h, NEW cur, NEW c, NEW post, MessagesInv(q, h, cur, "erasing", post)
  PROVE  MessagesInv(Loop!Erased(q, cur), h, c, "none", post)
<1> DEFINE r == Loop!Erased(q, cur)
<1>0. KnownInv(q, h, post) /\ QueueOrder(q) /\ HandledOrder(h)
      /\ SplitInv(q, h, cur, "erasing") /\ cur \in ToSet(q)
  BY DEF MessagesInv, CurrentInv
<1>1. /\ r \in Seq(Loop!Messages) /\ ToSet(r) \subseteq ToSet(q)
      /\ \A x, y : Before(r, x, y) => Before(q, x, y)
      /\ \A x \in ToSet(r) : Before(q, x, cur) \/ Before(q, cur, x)
  <2>1. r = RemoveFirst(q, cur)
    BY LibraryOfLoop DEF Loop!Erased
  <2> QED BY <1>0, <2>1, RemoveFirstFacts DEF KnownInv
<1> HIDE DEF r
<1>2. KnownInv(r, h, post) /\ QueueOrder(r)
  BY <1>0, <1>1 DEF KnownInv, QueueOrder
<1>3. SplitInv(r, h, c, "none")
  <2> SUFFICES ASSUME NEW x \in ToSet(h), NEW y \in ToSet(r)
               PROVE  ~ Same(x, y) /\ (Real(y) => InOrder(x, y))
    BY DEF SplitInv
  <2>1. y \in ToSet(q)
    BY <1>1
  <2>2. CASE Same(x, y)
    <3>1. y = cur
      BY <1>0, <2>1, <2>2 DEF SplitInv
    <3>2. Before(q, cur, cur)
      BY <1>1, <3>1
    <3>3. x.n > 0 /\ (Real(y) <=> y.n > 0)
      BY <1>0, <2>1, FieldFacts
    <3>4. Real(cur)
      BY <2>2, <3>1, <3>3 DEF Same
    <3> QED BY <1>0, <3>2, <3>4 DEF QueueOrder, Same
  <2>3. CASE ~ Same(x, y)
    BY <1>0, <2>1, <2>3 DEF SplitInv
  <2> QED BY <2>2, <2>3
<1> QED BY <1>0, <1>2, <1>3 DEF MessagesInv, CurrentInv, r

LEMMA TakeMessage ==
  ASSUME NEW q, NEW h, NEW cur, NEW post, MessagesInv(q, h, cur, "none", post), q # <<>>
  PROVE  /\ MessagesInv(q, h, Head(q), "dispatching", post) /\ Head(q) \in Loop!Messages
         /\ \A c : MessagesInv(q, h, c, "none", post)
<1>0. KnownInv(q, h, post) /\ QueueOrder(q) /\ HandledOrder(h)
      /\ SplitInv(q, h, cur, "none")
  BY DEF MessagesInv
<1>1. /\ Head(q) \in ToSet(q) /\ Head(q) \in Loop!Messages
      /\ \A x : Before(q, x, Head(q)) => Before(q, Head(q), Head(q))
  BY <1>0, HeadFirst DEF KnownInv
<1>2. CurrentInv(q, Head(q), "dispatching")
  BY <1>0, <1>1 DEF CurrentInv, QueueOrder, Same
<1>3. SplitInv(q, h, Head(q), "dispatching") /\ \A c : SplitInv(q, h, c, "none")
  BY <1>0 DEF SplitInv
<1> QED BY <1>0, <1>1, <1>2, <1>3 DEF MessagesInv, CurrentInv

-----------------------------------------------------------------------------
(* The steps of the loop                                                    *)

LEMMA LoopInit == Loop!Init => LoopInv
<1> SUFFICES ASSUME Loop!Init PROVE LoopInv
  OBVIOUS
<1>1. /\ qMain = <<>> /\ handled = <<>> /\ pc = "await" /\ Mode = "none"
      /\ posted = [t \in Loop!Threads |-> 0]
  BY DEF Loop!Init, Mode
<1>2. ToSet(<<>>) = {} /\ \A x, y : ~ Before(<<>>, x, y)
  BY DEF ToSet, Before
<1>3. <<>> \in Seq(Loop!Messages)
  OBVIOUS
<1>4. MessagesInv(<<>>, <<>>, current, "none", posted)
  BY <1>1, <1>2, <1>3
     DEF MessagesInv, KnownInv, QueueOrder, HandledOrder, SplitInv, CurrentInv
<1>5. 0 \in 0 .. MaxNested /\ posted \in [Loop!Threads -> Nat]
  BY <1>1, LoopAssumption
<1>6. Loop!TypeOK /\ TakeInv
  BY <1>1, <1>3, <1>5 DEF Loop!Init, Loop!TypeOK, TakeInv
<1> QED BY <1>1, <1>4, <1>6 DEF LoopInv

\* The current message says nothing while the loop does nothing with it
LEMMA NoCurrent ==
  ASSUME NEW q, NEW h, NEW cur, NEW c, NEW post, MessagesInv(q, h, cur, "none", post)
  PROVE  MessagesInv(q, h, c, "none", post)
BY DEF MessagesInv, SplitInv, CurrentInv

\* A posted message gets the next number of its thread
LEMMA PostedMessage ==
  ASSUME NEW q, NEW h, NEW cur, NEW mode, MessagesInv(q, h, cur, mode, posted),
         NEW t \in Loop!Threads, NEW id \in Loop!Ids \ {"Input"}, NEW prior \in Nat,
         q = qMain, Loop!PostMessage(t, id, prior)
  PROVE  /\ MessagesInv(qMain', h, cur, mode, posted')
         /\ posted' \in [Loop!Threads -> Nat] /\ qMain' # <<>>
<1>1. posted \in [Loop!Threads -> Nat]
  BY DEF MessagesInv, KnownInv
<1>2. PICK n \in Nat : n = posted[t]
  BY <1>1
<1> DEFINE m == [from |-> t, n |-> n + 1, prior |-> prior, id |-> id]
<1>3. m \in Loop!Messages /\ Real(m) /\ m.from = t /\ m.n = n + 1
  BY <1>2 DEF Loop!Messages, Real
<1>4. qMain' = Loop!Placed(q, m) /\ posted' = [posted EXCEPT ![t] = n + 1]
  BY <1>1, <1>2 DEF Loop!PostMessage
<1> HIDE DEF m
<1>5. /\ posted' \in [Loop!Threads -> Nat] /\ posted'[t] = n + 1
      /\ \A u \in Loop!Threads : posted[u] <= posted'[u]
  BY <1>1, <1>2, <1>4
<1>6. m.n \in 1 .. posted'[m.from] /\ m.n > posted[m.from]
  BY <1>2, <1>3, <1>5
<1>7. MessagesInv(qMain', h, cur, mode, posted')
  BY <1>3, <1>4, <1>5, <1>6, InsertMessage
<1>8. ToSet(qMain') = ToSet(q) \cup {m}
  BY <1>3, <1>4, PlacedFacts DEF MessagesInv, KnownInv, QueueOrder
<1>9. qMain' # <<>>
  BY <1>8 DEF ToSet
<1> QED BY <1>5, <1>7, <1>9

LEMMA LoopNext == LoopInv /\ [Loop!Next]_loopVars => LoopInv'
<1> SUFFICES ASSUME LoopInv, [Loop!Next]_loopVars PROVE LoopInv'
  OBVIOUS
<1>1. /\ Loop!TypeOK /\ TakeInv
      /\ MessagesInv(qMain, handled, current, Mode, posted)
  BY DEF LoopInv
<1>2. Main \in Loop!Threads /\ WindowThread \in Loop!Threads
      /\ Posters \subseteq Loop!Threads
  BY DEF Loop!Threads
<1>3. Priorities \subseteq Nat /\ UIResponseLimit \in Nat /\ DefaultQuitPriority \in Nat
      /\ MaxNested \in Nat
  BY LoopAssumption
<1>4. Loop!IdleMessage \in Loop!Messages
  BY <1>2, <1>3 DEF Loop!IdleMessage, Loop!Messages, Loop!Ids
\* A thread posts while the loop is anywhere
<1>5. ASSUME NEW t \in Loop!Threads, NEW id \in Loop!Ids \ {"Input"}, NEW prior \in Nat,
             Loop!PostMessage(t, id, prior), UNCHANGED <<hShell, pc, current, nested,
                                                         handled>>,
             window' \in {"open", "set", "destroyed", window}, UNCHANGED attached
      PROVE  LoopInv'
  <2>1. MessagesInv(qMain', handled, current, Mode, posted')
        /\ posted' \in [Loop!Threads -> Nat] /\ qMain' # <<>>
    BY <1>1, <1>5, PostedMessage
  <2>2. Mode' = Mode /\ TakeInv'
    BY <1>1, <1>5, <2>1 DEF Mode, TakeInv
  <2>3. qMain' \in Seq(Loop!Messages)
    BY <2>1 DEF MessagesInv, KnownInv
  <2>4. Loop!TypeOK'
    BY <1>1, <1>5, <2>1, <2>3 DEF Loop!TypeOK
  <2> QED BY <1>5, <2>1, <2>2, <2>4 DEF LoopInv
\* The loop does nothing with a message, before and after
<1>6. ASSUME UNCHANGED <<qMain, current, handled, posted, nested>>,
             TakeInv', Mode' = "none", hShell' \in BOOLEAN, attached' \in BOOLEAN,
             pc' \in {"show", "attach", "run", "deal", "front", "failed"},
             window' = window,
             pc # "erase"
      PROVE  LoopInv'
  <2>1. Loop!TypeOK'
    BY <1>1, <1>6 DEF Loop!TypeOK, TakeInv
  <2>2. MessagesInv(qMain, handled, current, "none", posted)
    <3>1. CASE Mode = "none"
      BY <1>1, <3>1
    <3>2. CASE Mode = "dispatching"
      BY <1>1, <3>2 DEF MessagesInv, SplitInv, CurrentInv
    <3> QED BY <1>6, <3>1, <3>2 DEF Mode
  <2> QED BY <1>6, <2>1, <2>2 DEF LoopInv
<1>7. CASE \/ Loop!AwaitWindow \/ Loop!Show \/ Loop!AttachQuit \/ Loop!SwitchShell
           \/ Loop!DealIdle \/ Loop!DealNonempty \/ Loop!DispatchNull
  BY <1>1, <1>6, <1>7
     DEF Loop!AwaitWindow, Loop!Show, Loop!AttachQuit, Loop!SwitchShell, Loop!DealIdle,
         Loop!DealNonempty, Loop!DispatchNull, Loop!TypeOK, TakeInv, Mode, Loop!windowVars
<1>8. CASE UNCHANGED loopVars \/ Loop!CreateWindow \/ Loop!Destroy
  <2>1. /\ UNCHANGED <<qMain, hShell, pc, current, nested, handled, attached, posted>>
        /\ window' \in {window, "open", "quitting", "destroyed"}
    BY <1>8 DEF loopVars, Loop!CreateWindow, Loop!Destroy, Loop!mainVars
  <2> QED BY <1>1, <2>1 DEF LoopInv, Loop!TypeOK, TakeInv, Mode
<1>9. CASE Loop!PostSet \/ Loop!PostQuit
  BY <1>2, <1>3, <1>5, <1>9 DEF Loop!PostSet, Loop!PostQuit, Loop!mainVars, Loop!Ids
<1>10. ASSUME NEW w \in Posters, Loop!Work(w) PROVE LoopInv'
  BY <1>2, <1>3, <1>5, <1>10 DEF Loop!Work, Loop!mainVars, Loop!windowVars, Loop!Ids
<1>11. CASE Loop!TakeFirst
  <2>1. /\ pc = "front" /\ Mode = "none" /\ qMain # <<>> /\ current' = Head(qMain)
        /\ UNCHANGED <<qMain, hShell, nested, handled, window, attached, posted>>
        /\ pc' \in {"stopped", "idle", "dispatch"}
    BY <1>1, <1>11 DEF Loop!TakeFirst, Loop!windowVars, Mode, TakeInv
  <2>2. /\ MessagesInv(qMain, handled, current', "dispatching", posted)
        /\ MessagesInv(qMain, handled, current', "none", posted)
        /\ current' \in Loop!Messages
    BY <1>1, <2>1, TakeMessage
  <2>3. Loop!TypeOK' /\ TakeInv'
    BY <1>1, <2>1, <2>2 DEF Loop!TypeOK, TakeInv
  <2>4. Mode' \in {"dispatching", "none"}
    BY <2>1 DEF Mode
  <2> QED BY <2>1, <2>2, <2>3, <2>4 DEF LoopInv
<1>12. CASE Loop!Idle
  <2>1. /\ pc = "idle" /\ pc' = "dispatch"
        /\ qMain' = Loop!Placed(qMain, Loop!IdleMessage)
        /\ UNCHANGED <<hShell, current, nested, handled, window, attached, posted>>
    BY <1>12 DEF Loop!Idle, Loop!windowVars
  <2>2. Mode = "dispatching" /\ Mode' = Mode /\ TakeInv'
    BY <2>1 DEF Mode, TakeInv
  <2>3. \A t \in Loop!Threads : posted[t] <= posted[t]
    BY <1>1 DEF Loop!TypeOK
  <2>4. MessagesInv(qMain', handled, current, Mode, posted)
    BY <1>1, <1>4, <2>1, <2>3, InsertMessage DEF Loop!TypeOK
  <2>5. qMain' \in Seq(Loop!Messages)
    BY <2>4 DEF MessagesInv, KnownInv
  <2>6. Loop!TypeOK'
    BY <1>1, <2>1, <2>5 DEF Loop!TypeOK
  <2> QED BY <2>1, <2>2, <2>4, <2>6 DEF LoopInv
\* The message is dispatched, then its handler may post
<1>13. CASE Loop!Dispatch
  <2>1. /\ pc = "dispatch" /\ pc' = "erase" /\ hShell' \in BOOLEAN
        /\ UNCHANGED <<current, window, attached>>
        /\ handled' = IF Real(current) THEN Append(handled, current) ELSE handled
    BY <1>13 DEF Loop!Dispatch, Loop!windowVars, Real
  <2>2. Mode = "dispatching" /\ Mode' = "erasing" /\ TakeInv'
    BY <2>1 DEF Mode, TakeInv
  <2>3. MessagesInv(qMain, handled', current, "erasing", posted)
    BY <1>1, <2>1, <2>2, HandleMessage
  <2>4. /\ MessagesInv(qMain', handled', current, "erasing", posted')
        /\ posted' \in [Loop!Threads -> Nat] /\ nested' \in 0 .. MaxNested
    <3>1. CASE UNCHANGED <<qMain, nested, posted>>
      BY <1>1, <2>3, <3>1 DEF Loop!TypeOK
    <3>2. CASE /\ nested < MaxNested /\ nested' = nested + 1
               /\ \E prior \in Priorities : Loop!PostMessage(Main, "Task", prior)
      <4>1. PICK prior \in Nat : Loop!PostMessage(Main, "Task", prior)
        BY <1>3, <3>2
      <4>2. MessagesInv(qMain', handled', current, "erasing", posted')
            /\ posted' \in [Loop!Threads -> Nat]
        BY <1>2, <2>3, <4>1, PostedMessage DEF Loop!Ids
      <4>3. nested' \in 0 .. MaxNested
        BY <1>1, <1>3, <3>2 DEF Loop!TypeOK
      <4> QED BY <4>2, <4>3
    <3> QED BY <1>13, <3>1, <3>2 DEF Loop!Dispatch
  <2>5. qMain' \in Seq(Loop!Messages) /\ handled' \in Seq(Loop!Messages)
    BY <2>4 DEF MessagesInv, KnownInv
  <2>6. Loop!TypeOK'
    BY <1>1, <2>1, <2>4, <2>5 DEF Loop!TypeOK
  <2> QED BY <2>1, <2>2, <2>4, <2>6 DEF LoopInv
<1>14. CASE Loop!Erase
  <2>1. /\ pc = "erase" /\ pc' = "deal" /\ current' = Loop!NoMessage
        /\ qMain' = Loop!Erased(qMain, current)
        /\ UNCHANGED <<hShell, nested, handled, window, attached, posted>>
    BY <1>14 DEF Loop!Erase, Loop!windowVars
  <2>2. Mode = "erasing" /\ Mode' = "none" /\ TakeInv'
    BY <2>1 DEF Mode, TakeInv
  <2>3. MessagesInv(qMain', handled, current', "none", posted)
    BY <1>1, <2>1, <2>2, EraseMessage
  <2>4. qMain' \in Seq(Loop!Messages)
    BY <2>3 DEF MessagesInv, KnownInv
  <2>5. Loop!TypeOK'
    BY <1>1, <2>1, <2>4 DEF Loop!TypeOK
  <2> QED BY <2>1, <2>2, <2>3, <2>5 DEF LoopInv
<1> QED BY <1>7, <1>8, <1>9, <1>10, <1>11, <1>12, <1>13, <1>14
        DEF Loop!Next, Loop!Start, Loop!DealMessage, Loop!Window

\* What the order of the dispatched messages means
LEMMA LoopOrderly == LoopInv => Loop!HandledOnce /\ Loop!PostingOrderKept
<1> SUFFICES ASSUME LoopInv PROVE Loop!HandledOnce /\ Loop!PostingOrderKept
  OBVIOUS
<1>1. HandledOrder(handled) /\ handled \in Seq(Loop!Messages)
  BY DEF LoopInv, MessagesInv, KnownInv
<1>2. ASSUME NEW j \in DOMAIN handled, NEW k \in DOMAIN handled, j < k
      PROVE  ~ Same(handled[j], handled[k]) /\ InOrder(handled[j], handled[k])
  BY <1>1, <1>2 DEF HandledOrder, Before
<1>3. \A j, k \in DOMAIN handled : j < k \/ k < j \/ j = k
  BY <1>1
<1>4. Loop!HandledOnce
  <2>1. ASSUME NEW j \in DOMAIN handled, NEW k \in DOMAIN handled, handled[j] = handled[k]
        PROVE  j = k
    BY <1>2, <1>3, <2>1 DEF Same
  <2> QED BY <2>1 DEF Loop!HandledOnce, Loop!IsInjective
<1>5. Loop!PostingOrderKept
  BY <1>2 DEF Loop!PostingOrderKept, InOrder
<1> QED BY <1>4, <1>5
-----------------------------------------------------------------------------
(* Both in one program                                                      *)

\* Initially, and after every step, of either part
LEMMA HostInvariants ==
  /\ HostInit => PoolInv /\ LoopInv
  /\ LoopInv /\ [HostNext]_hostVars => LoopInv'
  /\ ResetAlone /\ PoolInv /\ [HostNext]_hostVars => PoolInv'
<1>1. HostInit => PoolInv /\ LoopInv
  BY PoolInit, LoopInit DEF HostInit
<1>2. [HostNext]_hostVars => [Next]_vars /\ [Loop!Next]_loopVars
  BY DEF HostNext, PoolStep, LoopStep, hostVars
<1> QED BY <1>1, <1>2, PoolNext, LoopNext

(* A task is queued, taken by one worker, has run, or was refused: in one of    *)
(* these places.  reset, although it tells the workers to stop while tasks are *)
(* queued, destroys the pool only when all of the accepted ones have run.      *)
(* It holds when the one who calls reset calls nothing else at that time.      *)
THEOREM PoolKeepsTasks == ResetAlone => (HostSpec => []TasksKept)
<1> SUFFICES ASSUME ResetAlone PROVE HostSpec => []TasksKept
  OBVIOUS
<1>1. HostInit => PoolInv
  BY HostInvariants
<1>2. PoolInv /\ [HostNext]_hostVars => PoolInv'
  BY HostInvariants
<1>3. PoolInv => TasksKept
  BY PoolDrained DEF PoolInv, TasksKept
<1> QED BY <1>1, <1>2, <1>3, PTL DEF HostSpec

(* A message is dispatched once, and of two messages of one thread the earlier *)
(* first unless the later is more urgent, although the handler of a message     *)
(* runs with the lock released and others, and it, post in between.           *)
THEOREM LoopKeepsOrder == HostSpec => []DispatchOrderly
<1>1. HostInit => LoopInv
  BY HostInvariants
<1>2. LoopInv /\ [HostNext]_hostVars => LoopInv'
  BY HostInvariants
<1>3. LoopInv => DispatchOrderly
  BY LoopOrderly DEF LoopInv, DispatchOrderly
<1> QED BY <1>1, <1>2, <1>3, PTL DEF HostSpec
=============================================================================
