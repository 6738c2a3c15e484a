-------------------------- MODULE TaskSchedulerProofs --------------------------
(***************************************************************************)
(* Theorems about TaskScheduler, for any number of pool threads, clients and *)
(* coroutines: its two lists are one queue, and a coroutine is in one place. *)
(* The render thread's queue has no lock, and coroutines in it can be lost   *)
(* once two threads were in it at once.  The invariant says what stays true  *)
(* then, and that the loss does not reach coroutines that never use it.      *)
(***************************************************************************)
EXTENDS TaskScheduler, SequenceTheorems, TLAPS

-----------------------------------------------------------------------------
(* Sequences in which no element of D is twice                              *)

Alone(s, D) == \A i, j \in DOMAIN s : s[i] = s[j] /\ s[i] \in D => i = j

LEMMA SetOfAppend ==
  ASSUME NEW S, NEW s \in Seq(S), NEW x \in S, NEW D
  PROVE  /\ Append(s, x) \in Seq(S) /\ Len(Append(s, x)) = Len(s) + 1
         /\ ToSet(Append(s, x)) = ToSet(s) \cup {x}
         /\ Alone(s, D) /\ (x \in D => x \notin ToSet(s)) => Alone(Append(s, x), D)
<1> DEFINE n == Len(s)
           r == Append(s, x)
<1>1. /\ n \in Nat /\ r \in Seq(S) /\ Len(r) = n + 1 /\ r[n + 1] = x
      /\ \A i \in 1 .. n : r[i] = s[i]
      /\ DOMAIN s = 1 .. n /\ DOMAIN r = 1 .. n + 1
  BY AppendProperties
<1> HIDE DEF n, r
<1>2. \A i : i \in 1 .. n + 1 <=> (i \in 1 .. n \/ i = n + 1)
  BY <1>1
<1>3. ToSet(r) = ToSet(s) \cup {x}
  BY <1>1, <1>2 DEF ToSet
<1>4. ASSUME Alone(s, D), x \in D => x \notin ToSet(s),
             NEW i \in DOMAIN r, NEW j \in DOMAIN r, r[i] = r[j], r[i] \in D
      PROVE  i = j
  <2>1. x \in D => \A k \in 1 .. n : s[k] # x
    BY <1>1, <1>4 DEF ToSet
  <2> QED BY <1>1, <1>2, <1>4, <2>1 DEF Alone
<1>5. Alone(s, D) /\ (x \in D => x \notin ToSet(s)) => Alone(r, D)
  BY <1>4 DEF Alone
<1> QED BY <1>1, <1>3, <1>5 DEF n, r

LEMMA SetOfTail ==
  ASSUME NEW S, NEW s \in Seq(S), s # <<>>, NEW D, Alone(s, D)
  PROVE  /\ Head(s) \in S /\ Tail(s) \in Seq(S) /\ Len(Tail(s)) < Len(s)
         /\ Alone(Tail(s), D) /\ Head(s) \in ToSet(s)
         /\ \A d \in D : d \in ToSet(Tail(s)) <=> d \in ToSet(s) /\ d # Head(s)
<1> DEFINE n == Len(s)
           r == Tail(s)
<1>1. /\ n \in Nat /\ n > 0 /\ Head(s) \in S /\ r \in Seq(S) /\ Len(r) = n - 1
      /\ Head(s) = s[1] /\ \A i \in 1 .. n - 1 : r[i] = s[i + 1]
      /\ DOMAIN s = 1 .. n /\ DOMAIN r = 1 .. n - 1
  OBVIOUS
<1> HIDE DEF n, r
<1>2. \A i \in 1 .. n - 1 : i + 1 \in 1 .. n /\ i + 1 # 1
  BY <1>1
<1>3. Alone(r, D)
  <2> SUFFICES ASSUME NEW i \in 1 .. n - 1, NEW j \in 1 .. n - 1, r[i] = r[j], r[i] \in D
               PROVE  i = j
    BY <1>1 DEF Alone
  <2>1. i + 1 \in DOMAIN s /\ j + 1 \in DOMAIN s
    BY <1>1, <1>2
  <2>2. s[i + 1] = s[j + 1] /\ s[i + 1] \in D
    BY <1>1
  <2>3. i + 1 = j + 1
    BY <2>1, <2>2 DEF Alone
  <2> QED BY <2>3
<1>4. \A i \in 1 .. n : i = 1 \/ \E j \in 1 .. n - 1 : i = j + 1
  <2> SUFFICES ASSUME NEW i \in 1 .. n, i # 1 PROVE \E j \in 1 .. n - 1 : i = j + 1
    OBVIOUS
  <2>1. i - 1 \in 1 .. n - 1 /\ i = (i - 1) + 1
    BY <1>1
  <2> QED BY <2>1
<1>5. 1 \in 1 .. n
  BY <1>1
<1>6. \A i \in 1 .. n - 1 : r[i] \in D => r[i] # s[1]
  BY <1>1, <1>2, <1>5 DEF Alone
<1>7. ASSUME NEW x \in D PROVE x \in ToSet(r) <=> x \in ToSet(s) /\ x # s[1]
  <2>1. x \in ToSet(r) => x \in ToSet(s) /\ x # s[1]
    BY <1>1, <1>2, <1>6 DEF ToSet
  <2>2. x \in ToSet(s) /\ x # s[1] => x \in ToSet(r)
    <3> SUFFICES ASSUME x \in ToSet(s), x # s[1] PROVE x \in ToSet(r)
      OBVIOUS
    <3>1. PICK i \in 1 .. n : s[i] = x
      BY <1>1 DEF ToSet
    <3>2. PICK j \in 1 .. n - 1 : i = j + 1
      BY <1>4, <3>1
    <3>3. r[j] = x
      BY <1>1, <3>1, <3>2
    <3> QED BY <1>1, <3>3 DEF ToSet
  <2> QED BY <2>1, <2>2
<1>8. Len(r) < n
  BY <1>1
<1> QED BY <1>1, <1>3, <1>5, <1>7, <1>8 DEF n, r, ToSet

-----------------------------------------------------------------------------
(* The two remote lists as one queue                                        *)

Order(tk, rm) == tk \o Reverse(rm)

LEMMA OrderFacts ==
  ASSUME NEW S, NEW tk \in Seq(S), NEW rm \in Seq(S)
  PROVE  /\ Order(tk, rm) \in Seq(S) /\ Len(Order(tk, rm)) = Len(tk) + Len(rm)
         /\ \A i \in 1 .. Len(tk) : Order(tk, rm)[i] = tk[i]
         /\ \A j \in 1 .. Len(rm) : Order(tk, rm)[Len(tk) + j] = rm[(Len(rm) - j) + 1]
         /\ Reverse(rm) \in Seq(S) /\ Len(Reverse(rm)) = Len(rm)
<1>1. PICK m \in Nat : m = Len(tk)
  OBVIOUS
<1>2. PICK n \in Nat : n = Len(rm)
  OBVIOUS
<1> DEFINE v == Reverse(rm)
<1>3. \A j \in 1 .. n : (n - j) + 1 \in 1 .. n
  OBVIOUS
<1>4. \A j \in 1 .. n : rm[(n - j) + 1] \in S
  BY <1>2, <1>3, ElementOfSeq
<1>5. v = [j \in 1 .. n |-> rm[(n - j) + 1]]
  BY <1>2 DEF Reverse
<1>6. v \in Seq(S) /\ Len(v) = n
  BY <1>4, <1>5
<1>7. \A j \in 1 .. n : v[j] = rm[(n - j) + 1]
  BY <1>5
<1> HIDE DEF v
<1> DEFINE r == tk \o v
<1>8. /\ r \in Seq(S) /\ Len(r) = m + n
      /\ \A i \in 1 .. m + n : r[i] = IF i <= m THEN tk[i] ELSE v[i - m]
  BY <1>1, <1>6, ConcatProperties, Zenon
<1> HIDE DEF r
<1>9. \A i \in 1 .. m : i \in 1 .. m + n /\ i <= m
  OBVIOUS
<1>10. \A j \in 1 .. n : m + j \in 1 .. m + n /\ ~ (m + j <= m) /\ (m + j) - m = j
  OBVIOUS
<1>11. /\ \A i \in 1 .. m : r[i] = tk[i]
       /\ \A j \in 1 .. n : r[m + j] = rm[(n - j) + 1]
  BY <1>7, <1>8, <1>9, <1>10
<1> QED BY <1>1, <1>2, <1>6, <1>8, <1>11 DEF r, v, Order

\* An operation pushed at the front of one list is last in the queue
LEMMA PushOrder ==
  ASSUME NEW S, NEW tk \in Seq(S), NEW rm \in Seq(S), NEW c \in S
  PROVE  /\ <<c>> \o rm \in Seq(S)
         /\ Order(tk, <<c>> \o rm) = Append(Order(tk, rm), c)
<1> DEFINE n == Len(rm)
           m == Len(tk)
           w == <<c>> \o rm
<1>1. m \in Nat /\ n \in Nat
  OBVIOUS
<1>2. /\ w \in Seq(S) /\ Len(w) = n + 1 /\ w[1] = c
      /\ \A i \in 1 .. n : w[i + 1] = rm[i]
  OBVIOUS
<1> HIDE DEF w
<1> DEFINE a == Order(tk, rm)
           b == Order(tk, w)
<1>3. /\ a \in Seq(S) /\ Len(a) = m + n
      /\ \A i \in 1 .. m : a[i] = tk[i]
      /\ \A j \in 1 .. n : a[m + j] = rm[(n - j) + 1]
  BY OrderFacts
<1>4. /\ b \in Seq(S) /\ Len(b) = m + (n + 1)
      /\ \A i \in 1 .. m : b[i] = tk[i]
      /\ \A j \in 1 .. n + 1 : b[m + j] = w[((n + 1) - j) + 1]
  <2>1. /\ b \in Seq(S) /\ Len(b) = m + Len(w)
        /\ \A i \in 1 .. m : b[i] = tk[i]
        /\ \A j \in 1 .. Len(w) : b[m + j] = w[(Len(w) - j) + 1]
    <3>1. w \in Seq(S)
      BY <1>2
    <3>2. \A x \in Seq(S) :
            /\ Order(tk, x) \in Seq(S) /\ Len(Order(tk, x)) = Len(tk) + Len(x)
            /\ \A i \in 1 .. Len(tk) : Order(tk, x)[i] = tk[i]
            /\ \A j \in 1 .. Len(x) : Order(tk, x)[Len(tk) + j] = x[(Len(x) - j) + 1]
      BY OrderFacts
    <3> QED BY <3>1, <3>2
  <2> QED BY <1>2, <2>1, Zenon
<1> HIDE DEF a, b, m, n
<1> DEFINE d == Append(a, c)
<1>5. /\ d \in Seq(S) /\ Len(d) = m + n + 1
      /\ \A i \in 1 .. m + n : d[i] = a[i]
      /\ d[m + n + 1] = c
  BY <1>3, AppendProperties
<1> HIDE DEF d
<1>6. ASSUME NEW i \in 1 .. m + n + 1 PROVE b[i] = d[i]
  <2>1. CASE i \in 1 .. m
    <3>1. i \in 1 .. m + n
      BY <1>1, <2>1
    <3> QED BY <1>3, <1>4, <1>5, <2>1, <3>1
  <2>2. CASE i \notin 1 .. m /\ i # m + n + 1
    <3>1. PICK j \in 1 .. n : i = m + j
      <4>1. i - m \in 1 .. n /\ i = m + (i - m)
        BY <1>1, <2>2
      <4> QED BY <4>1
    <3>2. j \in 1 .. n + 1 /\ (n - j) + 1 \in 1 .. n /\ m + j \in 1 .. m + n
      BY <1>1
    <3>3. ((n + 1) - j) + 1 = ((n - j) + 1) + 1
      BY <1>1
    <3>4. b[i] = w[((n - j) + 1) + 1]
      BY <1>4, <3>1, <3>2, <3>3
    <3>5. b[i] = rm[(n - j) + 1] /\ d[i] = rm[(n - j) + 1]
      BY <1>2, <1>3, <1>5, <3>1, <3>2, <3>4
    <3> QED BY <3>5
  <2>3. CASE i = m + n + 1
    <3>1. n + 1 \in 1 .. n + 1 /\ m + (n + 1) = i /\ ((n + 1) - (n + 1)) + 1 = 1
      BY <1>1, <2>3
    <3>2. b[i] = w[1]
      BY <1>4, <3>1
    <3> QED BY <1>2, <1>5, <2>3, <3>2
  <2> QED BY <2>1, <2>2, <2>3
<1>7. Len(b) = Len(d)
  BY <1>1, <1>4, <1>5
<1>8. b = d
  BY <1>4, <1>5, <1>6, <1>7, SeqEqual
<1> QED BY <1>2, <1>8 DEF a, b, d, w

\* What a thread gets is first in the queue
LEMMA GetOrder ==
  ASSUME NEW S, NEW tk \in Seq(S), NEW rm \in Seq(S)
  PROVE  LET list == IF tk # <<>> THEN tk ELSE Reverse(rm)
         IN list # <<>> =>
              /\ Order(tk, rm) # <<>> /\ Head(list) = Head(Order(tk, rm))
              /\ Head(list) \in S /\ Tail(list) \in Seq(S)
              /\ Order(Tail(list), IF tk # <<>> THEN rm ELSE <<>>) = Tail(Order(tk, rm))
<1> DEFINE v == Reverse(rm)
<1>1. v \in Seq(S)
  BY OrderFacts
<1>2. ASSUME tk # <<>>
      PROVE  /\ tk \o v # <<>> /\ Head(tk) = Head(tk \o v) /\ Head(tk) \in S
             /\ Tail(tk) \in Seq(S) /\ Tail(tk) \o v = Tail(tk \o v)
  <2> HIDE DEF v
  <2> QED BY <1>1, <1>2
<1>3. ASSUME tk = <<>>, v # <<>>
      PROVE  /\ tk \o v # <<>> /\ Head(v) = Head(tk \o v) /\ Head(v) \in S
             /\ Tail(v) \in Seq(S) /\ Tail(v) \o <<>> = Tail(tk \o v)
  <2> HIDE DEF v
  <2> QED BY <1>1, <1>3
<1>4. Reverse(<<>>) = <<>>
  BY DEF Reverse
<1> QED BY <1>2, <1>3, <1>4 DEF Order

\* Both lists hold operations, and a thread schedules one
RemoteType ==
  /\ remote \in Seq(Coros \cup {None}) /\ taken \in Seq(Coros \cup {None})
  /\ oper \in [Threads -> Coros \cup {None}]

\* What a step does to the queue
QueueSteps ==
  \/ UNCHANGED remoteVars
  \/ \E t \in Threads : RemoteOrder' = Append(RemoteOrder, oper[t])
  \/ RemoteOrder # <<>> /\ RemoteOrder' = Tail(RemoteOrder)

LEMMA RemoteNext == RemoteType /\ [Next]_vars => RemoteType' /\ QueueSteps
<1> SUFFICES ASSUME RemoteType, [Next]_vars PROVE RemoteType' /\ QueueSteps
  OBVIOUS
<1> DEFINE S == Coros \cup {None}
<1>1. remote \in Seq(S) /\ taken \in Seq(S) /\ oper \in [Threads -> S]
  BY DEF RemoteType
<1>2. RemoteOrder = Order(taken, remote) /\ RemoteOrder' = Order(taken', remote')
  BY DEF RemoteOrder, Order
<1>3. CASE UNCHANGED remoteVars /\ oper' \in [Threads -> S]
  BY <1>1, <1>3 DEF RemoteType, QueueSteps, remoteVars
<1>4. ASSUME NEW t \in Threads, RemoteEnqueue(t) PROVE RemoteType' /\ QueueSteps
  <2>1. remote' = <<oper[t]>> \o remote /\ UNCHANGED <<taken, oper>> /\ oper[t] \in S
    BY <1>1, <1>4 DEF RemoteEnqueue, operVars
  <2>2. remote' \in Seq(S) /\ RemoteOrder' = Append(RemoteOrder, oper[t])
    BY <1>1, <1>2, <2>1, PushOrder
  <2> QED BY <1>1, <2>1, <2>2 DEF RemoteType, QueueSteps
<1>5. ASSUME NEW t \in Threads, GetRemote(t) PROVE RemoteType' /\ QueueSteps
  <2> DEFINE list == IF taken # <<>> THEN taken ELSE Reverse(remote)
  <2>1. CASE list = <<>>
    <3>1. UNCHANGED remoteVars /\ UNCHANGED oper
      BY <1>5, <2>1 DEF GetRemote, ReverseList, operVars
    <3> QED BY <1>1, <1>3, <3>1
  <2>2. CASE list # <<>>
    <3>1. /\ taken' = Tail(list) /\ UNCHANGED oper
          /\ remote' = IF taken # <<>> THEN remote ELSE <<>>
      BY <1>5, <2>2 DEF GetRemote, ReverseList, operVars
    <3>2. /\ RemoteOrder # <<>> /\ taken' \in Seq(S)
          /\ RemoteOrder' = Tail(RemoteOrder)
      BY <1>1, <1>2, <2>2, <3>1, GetOrder
    <3>3. remote' \in Seq(S)
      BY <1>1, <3>1
    <3> QED BY <1>1, <3>1, <3>2, <3>3 DEF RemoteType, QueueSteps
  <2> QED BY <2>1, <2>2
<1>6. CASE UNCHANGED vars
  BY <1>1, <1>3, <1>6 DEF vars, remoteVars, operVars
<1>7. ASSUME NEW t \in Threads, NEW c \in Coros, Schedule(t, c) \/ ScheduleRender(t, c)
      PROVE  RemoteType' /\ QueueSteps
  BY <1>1, <1>3, <1>7 DEF Schedule, ScheduleRender, Suspend
<1>8. ASSUME NEW t \in Threads,
             \/ ReadHead(t) \/ Store(t) \/ Publish(t) \/ Grow(t) \/ PopHead(t)
             \/ TakeLocal(t) \/ AnnounceSleep(t) \/ Woken(t) \/ End(t)
      PROVE  RemoteType' /\ QueueSteps
  BY <1>1, <1>3, <1>8
     DEF ReadHead, Store, Publish, Grow, PopHead, TakeLocal, AnnounceSleep, Woken, End,
         operVars
<1>9. ASSUME NEW t \in Threads, TryWakeUp(t) PROVE RemoteType' /\ QueueSteps
  <2>1. UNCHANGED remoteVars /\ (oper' = [oper EXCEPT ![t] = None] \/ oper' = oper)
    BY <1>9 DEF TryWakeUp, ForgetCall, operVars
  <2> QED BY <1>1, <1>3, <2>1
<1> QED BY <1>4, <1>5, <1>6, <1>7, <1>8, <1>9 DEF Next, Step, Code

(* The two lists, one pushed at the front and one taken from the front, are    *)
(* together a first-in first-out queue, whichever threads push and take.     *)
THEOREM RemoteIsFifo == Spec => RemoteFifo
<1>1. Init => RemoteType
  BY DEF Init, RemoteType
<1>2. RemoteType /\ [Next]_vars => RemoteType'
  BY RemoteNext
<1>3. RemoteType /\ [Next]_vars =>
        [\/ RemoteOrder' = RemoteOrder
         \/ \E t \in Threads : RemoteOrder' = Append(RemoteOrder, oper[t])
         \/ RemoteOrder # <<>> /\ RemoteOrder' = Tail(RemoteOrder)]_remoteVars
  BY RemoteNext DEF QueueSteps
<1> QED BY <1>1, <1>2, <1>3, PTL DEF Spec, RemoteFifo
-----------------------------------------------------------------------------
(* The place of a coroutine                                                 *)

LocalPlaces == {"enqueue", "store", "publish", "grow"}
Writing     == {"store", "publish", "grow"}

\* A queue that at most one thread has written at a time
Sound(q) == q = Renderer => ~ contended

(* What a thread does to a local queue: its own, or that of the render thread  *)
(* for a coroutine that asked for it.  An index it remembers is inside the     *)
(* array, and while the queue is sound it is the head.                       *)
ThreadOK(t) ==
  /\ pc[t] \in Enqueuing => oper[t] \in Coros
  /\ pc[t] \in LocalPlaces => \/ t \in Workers /\ target[t] = t
                              \/ target[t] = Renderer /\ oper[t] \in RenderCoros
  /\ pc[t] \in {"store", "publish"} => Fits(seen[t], target[t])
  /\ pc[t] = "grow" => seen[t] < Len(slots[target[t]])
  /\ pc[t] \in Writing /\ Sound(target[t]) => seen[t] = head[target[t]]
  /\ pc[t] = "publish" /\ Sound(target[t]) => slots[target[t]][seen[t] + 1] = oper[t]
  /\ pc[t] = "take" => t \in Queues /\ 0 < seen[t] /\ seen[t] < Len(slots[t])
  /\ pc[t] = "take" /\ Sound(t) => seen[t] = head[t]
  /\ pc[t] \in Popping => cur[t] = None
  /\ cur[t] # None => t \in Queues

ThreadInv == \A t \in Threads : ThreadOK(t)

\* One thread at a time is in the render thread's queue, until two are noticed
AloneInv ==
  ~ contended =>
     \A t, u \in Threads : InRenderQueue(t) /\ InRenderQueue(u) => t = u

\* What is in local queues
SlotInv ==
  /\ \A q \in Queues : Sound(q) => \A i \in 1 .. head[q] : slots[q][i] \in Coros
  /\ slots[Renderer] \in Seq(RenderCoros \cup {None})
  /\ \A p, q \in Queues : \A i \in 1 .. head[p], j \in 1 .. head[q] :
       slots[p][i] = slots[q][j] /\ slots[p][i] \in Tracked => p = q /\ i = j

InLocal(c)  == \E q \in Queues : \E i \in 1 .. head[q] : slots[q][i] = c
InRemote(c) == c \in ToSet(RemoteOrder)
Entering(c) == \E t \in Threads : pc[t] \in Enqueuing /\ oper[t] = c
Running(c)  == \E t \in Threads : cur[t] = c

\* Each of these places has a tracked coroutine once
EnterOnce ==
  \A t, u \in Threads :
    /\ pc[t] \in Enqueuing /\ pc[u] \in Enqueuing
    /\ oper[t] = oper[u] /\ oper[t] \in Tracked
    => t = u
RunOnce == \A t, u \in Threads : cur[t] = cur[u] /\ cur[t] \in Tracked => t = u
OnceInv == Alone(RemoteOrder, Tracked) /\ EnterOnce /\ RunOnce

(* The parts have none in common, and those that began and did not end are in  *)
(* one of them.                                                             *)
PartInv ==
  \A c \in Tracked :
    /\ ~ (InLocal(c) /\ InRemote(c)) /\ ~ (InLocal(c) /\ Entering(c))
    /\ ~ (InLocal(c) /\ Running(c)) /\ ~ (InRemote(c) /\ Entering(c))
    /\ ~ (InRemote(c) /\ Running(c)) /\ ~ (Entering(c) /\ Running(c))
    /\ (InLocal(c) \/ InRemote(c) \/ Entering(c) \/ Running(c))
         <=> hops[c] > 0 /\ c \notin ended
    /\ c \in ended => hops[c] > 0

IInv == TypeOK /\ ThreadInv /\ AloneInv /\ SlotInv /\ OnceInv /\ PartInv
-----------------------------------------------------------------------------
(* What one step changes                                                    *)

LEMMA Domains ==
  /\ Renderer \in Queues /\ Renderer \notin Workers /\ Workers \subseteq Queues
  /\ Queues = Workers \cup {Renderer}
  /\ Queues \subseteq Threads /\ None \notin Coros /\ 1 \in Workers
  /\ Writing \subseteq LocalPlaces /\ "take" \notin Writing
  /\ LocalPlaces \subseteq Enqueuing /\ "take" \notin LocalPlaces
  /\ Enqueuing \cap Popping = {} /\ "code" \notin Enqueuing \cup Popping
  /\ "wake" \notin Enqueuing \cup Popping
BY SizesAssumption
   DEF Workers, Queues, Threads, Writing, LocalPlaces, Enqueuing, Popping

\* What can be relied on becomes less
LEMMA TrackedFacts ==
  /\ Tracked \subseteq Coros /\ None \notin Tracked
  /\ contended => Tracked \cap RenderCoros = {}
  /\ ~ contended => Tracked = Coros
  /\ (contended => contended') => Tracked' \subseteq Tracked
  /\ contended' = contended => Tracked' = Tracked
BY SizesAssumption DEF Tracked

\* No index into the array of q is outside the new one
NoShorter(q) == \A h \in Nat : /\ h < Len(slots[q]) => h < Len(slots'[q])
                               /\ Fits(h, q) => h < Len(slots'[q]) - 1

LEMMA SameLength ==
  ASSUME NEW q, Len(slots'[q]) = Len(slots[q])
  PROVE  NoShorter(q)
BY DEF NoShorter, Fits, Mask

LEMMA Longer ==
  ASSUME NEW q, NEW S, NEW s \in Seq(S), s = slots[q], NEW r \in Seq(S),
         r = slots'[q], Len(s) <= Len(r)
  PROVE  NoShorter(q)
<1>1. PICK m \in Nat : m = Len(s)
  OBVIOUS
<1>2. PICK n \in Nat : n = Len(r)
  OBVIOUS
<1>3. \A h \in Nat : (h < m => h < n) /\ (h < m - 1 => h < n - 1)
  BY <1>1, <1>2
<1> QED BY <1>1, <1>2, <1>3 DEF NoShorter, Fits, Mask

LEMMA ThreadKept ==
  ASSUME NEW u, ThreadOK(u), seen[u] \in Nat, contended => contended',
         pc'[u] = pc[u], cur'[u] = cur[u], oper'[u] = oper[u],
         target'[u] = target[u], seen'[u] = seen[u],
         pc[u] \in Writing =>
           /\ NoShorter(target[u])
           /\ Sound(target[u]) => /\ head'[target[u]] = head[target[u]]
                                  /\ slots'[target[u]] = slots[target[u]],
         pc[u] = "take" => NoShorter(u) /\ (Sound(u) => head'[u] = head[u])
  PROVE  ThreadOK(u)'
<1>1. pc[u] \in {"store", "publish", "grow"} <=> pc[u] \in Writing
  BY DEF Writing
<1>2. /\ Sound(target[u])' => Sound(target[u])
      /\ Sound(u)' => Sound(u)
  BY DEF Sound
<1>3. pc[u] \in {"store", "publish"} => Fits(seen[u], target[u])'
  BY <1>1 DEF ThreadOK, NoShorter, Fits, Mask
<1>4. pc[u] = "grow" => seen'[u] < Len(slots'[target'[u]])
  BY <1>1 DEF ThreadOK, NoShorter
<1>5. pc[u] \in Writing /\ Sound(target[u])' =>
        /\ seen'[u] = head'[target'[u]]
        /\ pc[u] = "publish" => slots'[target'[u]][seen'[u] + 1] = oper'[u]
  BY <1>2 DEF ThreadOK
<1>6. pc[u] = "take" => /\ u \in Queues /\ 0 < seen'[u] /\ seen'[u] < Len(slots'[u])
                        /\ Sound(u)' => seen'[u] = head'[u]
  BY <1>2 DEF ThreadOK, NoShorter
<1>7. pc[u] = "publish" => pc[u] \in Writing
  BY DEF Writing
<1> QED BY <1>3, <1>4, <1>5, <1>6, <1>7 DEF ThreadOK

\* Other threads when no local queue changes
LEMMA OthersKept ==
  ASSUME TypeOK, ThreadInv, contended => contended', UNCHANGED <<slots, head>>,
         NEW t, \A u \in Threads \ {t} :
           /\ pc'[u] = pc[u] /\ cur'[u] = cur[u] /\ oper'[u] = oper[u]
           /\ target'[u] = target[u] /\ seen'[u] = seen[u],
         t \in Threads => ThreadOK(t)'
  PROVE  ThreadInv'
<1>1. ASSUME NEW u \in Threads \ {t} PROVE ThreadOK(u)'
  <2>1. ThreadOK(u) /\ seen[u] \in Nat
    BY DEF ThreadInv, TypeOK
  <2>2. NoShorter(target[u]) /\ NoShorter(u)
    BY SameLength
  <2> QED BY <2>1, <2>2, ThreadKept
<1> QED BY <1>1 DEF ThreadInv

\* Only a thread that read the head is in the queue
LEMMA AloneKept ==
  ASSUME AloneInv, contended' = contended, NEW t,
         InRenderQueue(t)' => InRenderQueue(t),
         \A u \in Threads \ {t} : pc'[u] = pc[u] /\ target'[u] = target[u]
  PROVE  AloneInv'
<1>1. \A u \in Threads : InRenderQueue(u)' => InRenderQueue(u)
  BY DEF InRenderQueue
<1> QED BY <1>1 DEF AloneInv

LEMMA AloneNoticed ==
  ASSUME AloneInv, NEW t \in Threads, NEW q, Notice(t, q),
         InRenderQueue(t)' => q = Renderer,
         \A u \in Threads \ {t} : pc'[u] = pc[u] /\ target'[u] = target[u]
  PROVE  AloneInv' /\ (contended => contended') /\ contended' \in BOOLEAN
<1>1. /\ contended => contended'
      /\ ~ contended' /\ q = Renderer => \A u \in Threads \ {t} : ~ InRenderQueue(u)
      /\ contended' \in BOOLEAN
  BY DEF Notice
<1>2. \A u \in Threads \ {t} : InRenderQueue(u)' => InRenderQueue(u)
  BY DEF InRenderQueue
<1> QED BY <1>1, <1>2 DEF AloneInv

\* No operation comes to a local queue or leaves it
LEMMA SlotsKept ==
  ASSUME SlotInv, UNCHANGED head, contended => contended',
         slots'[Renderer] \in Seq(RenderCoros \cup {None}),
         \A q \in Queues : \A i \in 1 .. head[q] : slots'[q][i] = slots[q][i]
  PROVE  SlotInv' /\ \A c : InLocal(c)' <=> InLocal(c)
<1>1. Tracked' \subseteq Tracked /\ \A q : Sound(q)' => Sound(q)
  BY TrackedFacts DEF Sound
<1>2. \A c : InLocal(c)' <=> InLocal(c)
  BY DEF InLocal
<1> QED BY <1>1, <1>2 DEF SlotInv

\* The render thread's queue after two threads were in it
LEMMA SlotsLost ==
  ASSUME SlotInv, head \in [Queues -> Nat], head' \in [Queues -> Nat],
         contended, contended',
         NEW n \in Nat, n = Len(slots[Renderer]), head[Renderer] < n,
         NEW m \in Nat, m = Len(slots'[Renderer]), head'[Renderer] < m,
         slots'[Renderer] \in Seq(RenderCoros \cup {None}),
         \A q \in Queues \ {Renderer} : slots'[q] = slots[q] /\ head'[q] = head[q]
  PROVE  SlotInv' /\ \A d \in Tracked : InLocal(d)' <=> InLocal(d)
<1>1. Tracked' = Tracked /\ Tracked \cap (RenderCoros \cup {None}) = {}
  BY TrackedFacts
<1>2. \A i \in 1 .. head[Renderer] : slots[Renderer][i] \notin Tracked
  <2>1. \A i \in 1 .. n : slots[Renderer][i] \in RenderCoros \cup {None}
    BY ElementOfSeq DEF SlotInv
  <2>2. \A i \in 1 .. head[Renderer] : i \in 1 .. n
    BY Domains
  <2> QED BY <1>1, <2>1, <2>2
<1>3. \A i \in 1 .. head'[Renderer] : slots'[Renderer][i] \notin Tracked
  <2>1. \A i \in 1 .. m : slots'[Renderer][i] \in RenderCoros \cup {None}
    BY ElementOfSeq
  <2>2. \A i \in 1 .. head'[Renderer] : i \in 1 .. m
    BY Domains
  <2> QED BY <1>1, <2>1, <2>2
<1>4. \A q : Sound(q)' => q # Renderer /\ Sound(q)
  BY DEF Sound
<1>5. ASSUME NEW p \in Queues, NEW q \in Queues, NEW i \in 1 .. head'[p],
             NEW j \in 1 .. head'[q], slots'[p][i] = slots'[q][j], slots'[p][i] \in Tracked
      PROVE  p = q /\ i = j
  <2>1. p # Renderer /\ q # Renderer
    BY <1>3, <1>5
  <2> QED BY <1>5, <2>1 DEF SlotInv
<1>6. SlotInv'
  BY <1>1, <1>4, <1>5 DEF SlotInv
<1>7. \A d \in Tracked : InLocal(d)' <=> InLocal(d)
  BY <1>2, <1>3 DEF InLocal
<1> QED BY <1>6, <1>7

LEMMA SlotAdded ==
  ASSUME SlotInv, head \in [Queues -> Nat], contended' = contended,
         NEW q \in Queues, NEW c \in Coros,
         NEW h \in Nat, h = head[q], head' = [head EXCEPT ![q] = h + 1],
         \A p \in Queues : \A i \in 1 .. head[p] : slots'[p][i] = slots[p][i],
         slots'[Renderer] \in Seq(RenderCoros \cup {None}),
         slots'[q][h + 1] = c, c \in Tracked => ~ InLocal(c)
  PROVE  SlotInv' /\ \A d : InLocal(d)' <=> InLocal(d) \/ d = c
<1>1. /\ \A p \in Queues \ {q} : head'[p] = head[p]
      /\ head'[q] = h + 1 /\ Tracked' = Tracked /\ \A p : Sound(p)' <=> Sound(p)
  BY TrackedFacts DEF Sound
\* An operation below the new head is an old one or the new one
<1>2. ASSUME NEW p \in Queues, NEW i \in 1 .. head'[p]
      PROVE  \/ /\ i \in 1 .. head[p] /\ slots'[p][i] = slots[p][i]
                /\ c \in Tracked => slots[p][i] # c
             \/ p = q /\ i = h + 1 /\ slots'[p][i] = c
  <2>1. CASE i \in 1 .. head[p]
    BY <2>1 DEF InLocal
  <2>2. CASE i \notin 1 .. head[p]
    <3>1. p = q
      BY <1>1, <2>2
    <3>2. i \in 1 .. h + 1 /\ i \notin 1 .. h
      BY <1>1, <2>2, <3>1
    <3>3. i = h + 1
      BY <3>2
    <3> QED BY <3>1, <3>3
  <2> QED BY <2>1, <2>2
<1>3. ASSUME NEW p \in Queues, NEW i \in 1 .. head[p] PROVE i \in 1 .. head'[p]
  <2>1. CASE p = q
    <3>1. i \in 1 .. h
      BY <2>1
    <3>2. i \in 1 .. h + 1
      BY <3>1
    <3> QED BY <1>1, <2>1, <3>2
  <2> QED BY <1>1, <2>1
<1>4. h + 1 \in 1 .. head'[q]
  BY <1>1
<1>5. ASSUME NEW d PROVE InLocal(d)' <=> InLocal(d) \/ d = c
  <2>1. InLocal(d)' => InLocal(d) \/ d = c
    BY <1>2 DEF InLocal
  <2>2. InLocal(d) => InLocal(d)'
    BY <1>3 DEF InLocal
  <2>3. InLocal(c)'
    BY <1>4 DEF InLocal
  <2> QED BY <2>1, <2>2, <2>3
<1>6. ASSUME NEW p \in Queues, Sound(p)', NEW i \in 1 .. head'[p]
      PROVE  slots'[p][i] \in Coros
  BY <1>1, <1>2, <1>6 DEF SlotInv
<1>7. ASSUME NEW p \in Queues, NEW r \in Queues, NEW i \in 1 .. head'[p],
             NEW j \in 1 .. head'[r], slots'[p][i] = slots'[r][j],
             slots'[p][i] \in Tracked
      PROVE  p = r /\ i = j
  <2>1. CASE i \in 1 .. head[p] /\ j \in 1 .. head[r]
    BY <1>7, <2>1 DEF SlotInv
  <2>2. CASE ~ (i \in 1 .. head[p] /\ j \in 1 .. head[r])
    BY <1>2, <1>7, <2>2
  <2> QED BY <2>1, <2>2
<1>8. SlotInv'
  BY <1>1, <1>6, <1>7 DEF SlotInv
<1> QED BY <1>5, <1>8

LEMMA SlotTaken ==
  ASSUME SlotInv, head \in [Queues -> Nat], contended' = contended, NEW q \in Queues,
         NEW h \in Nat, h = head[q], h > 0, head' = [head EXCEPT ![q] = h - 1],
         UNCHANGED slots, NEW c, c = slots[q][h]
  PROVE  /\ SlotInv' /\ InLocal(c)
         /\ \A d \in Tracked : InLocal(d)' <=> InLocal(d) /\ d # c
<1>1. /\ \A p \in Queues \ {q} : head'[p] = head[p]
      /\ head'[q] = h - 1 /\ Tracked' = Tracked /\ \A p : Sound(p)' <=> Sound(p)
  BY TrackedFacts DEF Sound
<1>2. ASSUME NEW p \in Queues, NEW i
      PROVE  i \in 1 .. head'[p] <=> i \in 1 .. head[p] /\ ~ (p = q /\ i = h)
  <2>1. CASE p = q
    <3>1. i \in 1 .. h - 1 <=> i \in 1 .. h /\ i # h
      OBVIOUS
    <3> QED BY <1>1, <2>1, <3>1
  <2> QED BY <1>1, <2>1
<1>3. h \in 1 .. head[q]
  OBVIOUS
<1>4. InLocal(c)
  BY <1>3 DEF InLocal
<1>5. ASSUME NEW d \in Tracked PROVE InLocal(d)' <=> InLocal(d) /\ d # c
  <2>1. InLocal(d)' => InLocal(d) /\ d # c
    BY <1>2, <1>3 DEF InLocal, SlotInv
  <2>2. InLocal(d) /\ d # c => InLocal(d)'
    BY <1>2 DEF InLocal
  <2> QED BY <2>1, <2>2
<1>6. SlotInv'
  BY <1>1, <1>2 DEF SlotInv
<1> QED BY <1>4, <1>5, <1>6

\* Which thread schedules what
LEMMA EnterKept ==
  ASSUME EnterOnce, Tracked' \subseteq Tracked,
         \A u \in Threads : /\ pc'[u] \in Enqueuing <=> pc[u] \in Enqueuing
                            /\ pc[u] \in Enqueuing => oper'[u] = oper[u]
  PROVE  EnterOnce' /\ \A c : Entering(c)' <=> Entering(c)
BY DEF EnterOnce, Entering

LEMMA EnterNew ==
  ASSUME EnterOnce, Tracked' \subseteq Tracked,
         NEW t \in Threads, pc[t] \notin Enqueuing, pc'[t] \in Enqueuing,
         NEW c, oper'[t] = c, c \in Tracked => ~ Entering(c),
         \A u \in Threads \ {t} : pc'[u] = pc[u] /\ oper'[u] = oper[u]
  PROVE  EnterOnce' /\ \A d : Entering(d)' <=> Entering(d) \/ d = c
BY DEF EnterOnce, Entering

LEMMA EnterLeave ==
  ASSUME EnterOnce, Tracked' \subseteq Tracked,
         NEW t \in Threads, pc[t] \in Enqueuing, pc'[t] \notin Enqueuing,
         \A u \in Threads \ {t} : pc'[u] = pc[u] /\ oper'[u] = oper[u]
  PROVE  EnterOnce' /\ \A d \in Tracked : Entering(d)' <=> Entering(d) /\ d # oper[t]
BY DEF EnterOnce, Entering

\* Which thread runs what
LEMMA RunNew ==
  ASSUME RunOnce, Tracked' \subseteq Tracked,
         NEW t \in Threads, cur[t] = None, NEW c, cur'[t] = c,
         c \in Tracked => ~ Running(c), \A u \in Threads \ {t} : cur'[u] = cur[u]
  PROVE  RunOnce' /\ \A d \in Tracked : Running(d)' <=> Running(d) \/ d = c
BY TrackedFacts DEF RunOnce, Running

LEMMA RunLeave ==
  ASSUME RunOnce, Tracked' \subseteq Tracked,
         NEW t \in Threads, cur[t] # None, cur'[t] = None,
         \A u \in Threads \ {t} : cur'[u] = cur[u]
  PROVE  RunOnce' /\ \A d \in Tracked : Running(d)' <=> Running(d) /\ d # cur[t]
BY TrackedFacts DEF RunOnce, Running

LEMMA RunKept ==
  ASSUME RunOnce, Tracked' \subseteq Tracked, UNCHANGED cur
  PROVE  RunOnce' /\ \A d : Running(d)' <=> Running(d)
BY DEF RunOnce, Running

LEMMA OrderKept ==
  ASSUME UNCHANGED remoteVars, Alone(RemoteOrder, Tracked), Tracked' \subseteq Tracked
  PROVE  /\ RemoteOrder' = RemoteOrder /\ \A d : InRemote(d)' <=> InRemote(d)
         /\ Alone(RemoteOrder, Tracked)'
<1>1. RemoteOrder' = RemoteOrder
  BY DEF remoteVars, RemoteOrder
<1> QED BY <1>1 DEF InRemote, Alone

\* One thread alone is at a sound queue
LEMMA Exclusive ==
  ASSUME ThreadInv, AloneInv, NEW t \in Threads, NEW u \in Threads, u # t, NEW q,
         Sound(q),
         \/ pc[t] \in Writing /\ target[t] = q
         \/ pc[t] = "take" /\ t = q /\ q \in Queues
  PROVE  ~ (pc[u] \in Writing /\ target[u] = q) /\ ~ (pc[u] = "take" /\ u = q)
<1>1. ThreadOK(t) /\ ThreadOK(u)
  BY DEF ThreadInv
<1>2. \A v \in {t, u} : pc[v] \in Writing /\ target[v] = q =>
                          (v \in Workers /\ q = v) \/ q = Renderer
  BY <1>1, Domains DEF ThreadOK
<1>3. CASE q = Renderer
  BY <1>3 DEF Sound, AloneInv, InRenderQueue, Writing
<1>4. CASE q # Renderer
  <2>1. \A v \in {t, u} : pc[v] \in Writing /\ target[v] = q => v = q
    BY <1>2, <1>4
  <2> QED BY <2>1
<1> QED BY <1>3, <1>4
-----------------------------------------------------------------------------
(* The steps                                                                *)

LEMMA InitIInv == Init => IInv
<1> SUFFICES ASSUME Init PROVE IInv
  OBVIOUS
<1>1. /\ head = [q \in Queues |-> 0] /\ remote = <<>> /\ taken = <<>> /\ ended = {}
      /\ hops = [c \in Coros |-> 0] /\ cur = [t \in Threads |-> None]
      /\ oper = [t \in Threads |-> None] /\ seen = [t \in Threads |-> 0]
      /\ slots = [q \in Queues |-> [i \in 1 .. InitialSize |-> None]]
      /\ pc = [t \in Threads |-> IF t \in Queues THEN "pop" ELSE "code"]
  BY DEF Init
<1>2. PICK n \in Nat : n = InitialSize /\ 0 < n
  BY SizesAssumption
<1> DEFINE s == [i \in 1 .. n |-> None]
<1>3. /\ slots \in [Queues -> Seq(Coros \cup {None})]
      /\ \A q \in Queues : head[q] < Len(slots[q])
  <2>1. s \in Seq(Coros \cup {None}) /\ Len(s) = n
    OBVIOUS
  <2>2. slots = [q \in Queues |-> s]
    BY <1>1, <1>2
  <2> HIDE DEF s
  <2> QED BY <1>1, <1>2, <2>1, <2>2
<1>4. TypeOK
  <2>1. 0 \in 0 .. MaxHops /\ 1 \in Workers
    BY SizesAssumption, Domains
  <2>2. pc \in [Threads -> Enqueuing \cup Popping \cup {"code", "wake"}]
    BY <1>1 DEF Popping
  <2>3. /\ sleeping \in [Queues -> BOOLEAN] /\ event \in [Queues -> BOOLEAN]
        /\ target \in [Threads -> Queues \cup {None}] /\ scan \in [Threads -> Workers]
    BY <2>1 DEF Init
  <2>4. /\ head \in [Queues -> Nat] /\ hops \in [Coros -> 0 .. MaxHops]
        /\ ended \subseteq Coros
        /\ cur \in [Threads -> Coros \cup {None}]
        /\ oper \in [Threads -> Coros \cup {None}]
        /\ seen \in [Threads -> Nat]
    BY <1>1, <2>1
  <2>5. remote \in Seq(Coros) /\ taken \in Seq(Coros)
    BY <1>1
  <2>6. contended \in BOOLEAN
    BY DEF Init
  <2> QED BY <1>3, <2>2, <2>3, <2>4, <2>5, <2>6 DEF TypeOK
<1>5. \A t \in Threads : pc[t] \notin Enqueuing /\ pc[t] # "take" /\ cur[t] = None
  BY <1>1 DEF Enqueuing
<1>6. ThreadInv /\ AloneInv
  BY <1>5, Domains
     DEF ThreadInv, ThreadOK, Enqueuing, LocalPlaces, Writing, AloneInv, InRenderQueue
<1>7. RemoteOrder = <<>>
  BY <1>1 DEF RemoteOrder, Reverse
<1>8. SlotInv /\ \A c \in Coros : ~ InLocal(c)
  <2>1. s \in Seq(RenderCoros \cup {None}) /\ slots[Renderer] = s
    BY <1>1, <1>2, Domains
  <2> HIDE DEF s
  <2>2. \A q \in Queues : \A i : i \notin 1 .. head[q]
    BY <1>1
  <2> QED BY <2>1, <2>2 DEF SlotInv, InLocal
<1>9. OnceInv /\ \A c \in Coros : ~ InRemote(c) /\ ~ Entering(c) /\ ~ Running(c)
  BY <1>5, <1>7, Domains
     DEF OnceInv, Alone, EnterOnce, RunOnce, InRemote, ToSet, Entering, Running, Tracked
<1>10. PartInv
  BY <1>1, <1>8, <1>9 DEF PartInv, Tracked
<1> QED BY <1>4, <1>6, <1>8, <1>9, <1>10 DEF IInv

\* Looking at the local queue
LEMMA ReadHeadStep ==
  ASSUME IInv, NEW t \in Threads, ReadHead(t)
  PROVE  IInv'
<1>0. /\ TypeOK /\ ThreadInv /\ AloneInv /\ SlotInv /\ OnceInv /\ PartInv
      /\ ThreadOK(t)
  BY DEF IInv, ThreadInv
<1>1. PICK q \in Queues : q = target[t]
  BY <1>0, Domains DEF ReadHead, ThreadOK, LocalPlaces
<1>2. PICK p \in {"store", "grow"} :
        /\ pc[t] = "enqueue" /\ seen' = [seen EXCEPT ![t] = head[q]]
        /\ pc' = [pc EXCEPT ![t] = p] /\ (p = "store" <=> Fits(head[q], q))
        /\ Notice(t, q)
        /\ UNCHANGED <<slots, head, remote, taken, sleeping, event, hops, ended, cur,
                       oper, target, scan>>
  BY <1>1
     DEF ReadHead, Goto, localVars, remoteVars, sleepVars, coroVars, operVars
<1>3. /\ pc'[t] = p /\ seen'[t] = head[q]
      /\ \A u \in Threads \ {t} : pc'[u] = pc[u] /\ seen'[u] = seen[u]
  BY <1>0, <1>2 DEF TypeOK
<1>4. AloneInv' /\ (contended => contended') /\ contended' \in BOOLEAN
  <2>1. InRenderQueue(t)' => q = Renderer
    BY <1>1, <1>2, <1>3 DEF InRenderQueue
  <2> QED BY <1>0, <1>2, <1>3, <2>1, AloneNoticed
<1>5. Tracked' \subseteq Tracked
  BY <1>4, TrackedFacts
<1>6. TypeOK'
  BY <1>0, <1>2, <1>4 DEF TypeOK, Enqueuing
<1>7. ThreadInv'
  <2>1. head[q] < Len(slots[q])
    BY <1>0 DEF TypeOK
  <2>2. ThreadOK(t)'
    BY <1>0, <1>1, <1>2, <1>3, <2>1, Domains
       DEF ThreadOK, LocalPlaces, Enqueuing, Popping, Fits, Mask
  <2> QED BY <1>0, <1>2, <1>3, <1>4, <2>2, OthersKept
<1>8. \A u \in Threads : pc'[u] \in Enqueuing <=> pc[u] \in Enqueuing
  BY <1>2, <1>3 DEF Enqueuing
<1>9. EnterOnce' /\ \A c : Entering(c)' <=> Entering(c)
  BY <1>0, <1>2, <1>5, <1>8, EnterKept DEF OnceInv
<1>10. SlotInv' /\ \A c : InLocal(c)' <=> InLocal(c)
  <2>1. slots'[Renderer] \in Seq(RenderCoros \cup {None})
    BY <1>0, <1>2 DEF SlotInv
  <2> QED BY <1>0, <1>2, <1>4, <2>1, SlotsKept
<1>11. RunOnce' /\ \A c : Running(c)' <=> Running(c)
  BY <1>0, <1>2, <1>5, RunKept DEF OnceInv
<1>12. Alone(RemoteOrder, Tracked)' /\ \A c : InRemote(c)' <=> InRemote(c)
  BY <1>0, <1>2, <1>5, OrderKept DEF remoteVars, OnceInv
<1>13. PartInv'
  BY <1>0, <1>2, <1>5, <1>9, <1>10, <1>11, <1>12 DEF PartInv
<1> QED BY <1>4, <1>6, <1>7, <1>9, <1>10, <1>11, <1>12, <1>13 DEF IInv, OnceInv

\* Storing the operation above the head
LEMMA StoreStep ==
  ASSUME IInv, NEW t \in Threads, Store(t)
  PROVE  IInv'
<1>0. /\ TypeOK /\ ThreadInv /\ AloneInv /\ SlotInv /\ OnceInv /\ PartInv
      /\ ThreadOK(t)
  BY DEF IInv, ThreadInv
<1>1. PICK q \in Queues : q = target[t]
  BY <1>0, Domains DEF Store, ThreadOK, LocalPlaces
<1>2. PICK s \in Seq(Coros \cup {None}) : s = slots[q]
  BY <1>0 DEF TypeOK
<1>3. PICK h \in Nat : h = head[q]
  BY <1>0 DEF TypeOK
<1>4. PICK c \in Coros : c = oper[t] /\ (q = Renderer => c \in RenderCoros)
  BY <1>0, <1>1, Domains DEF Store, ThreadOK, Enqueuing, LocalPlaces
<1>5. PICK n \in Nat : n = Len(s)
  BY <1>2
<1>6. /\ pc[t] = "store" /\ h < n /\ pc[t] \in Writing
      /\ Fits(seen[t], q) /\ (Sound(q) => seen[t] = h)
  BY <1>0, <1>1, <1>2, <1>3, <1>5 DEF Store, ThreadOK, TypeOK, Writing
<1>7. (h % n) + 1 = h + 1 /\ h + 1 \in 1 .. n
  BY <1>6
<1> DEFINE r == [s EXCEPT ![h + 1] = c]
<1>8. /\ r \in Seq(Coros \cup {None}) /\ Len(r) = n
      /\ r[h + 1] = c /\ \A i \in 1 .. h : r[i] = s[i]
      /\ q = Renderer => r \in Seq(RenderCoros \cup {None})
  <2>1. \A i \in 1 .. h : i \in 1 .. n /\ i # h + 1
    BY <1>6
  <2>2. q = Renderer => s \in Seq(RenderCoros \cup {None})
                        /\ c \in RenderCoros \cup {None}
    BY <1>0, <1>2, <1>4 DEF SlotInv
  <2>3. q = Renderer => r \in Seq(RenderCoros \cup {None})
    BY <1>5, <1>7, <2>2, ExceptSeq
  <2> QED BY <1>5, <1>7, <2>1, <2>3, ExceptSeq
<1> HIDE DEF r
<1>9. /\ slots' = [slots EXCEPT ![q] = r] /\ pc' = [pc EXCEPT ![t] = "publish"]
      /\ UNCHANGED <<head, remote, taken, sleeping, event, hops, ended, cur, oper, target,
                     seen, scan, contended>>
  BY <1>1, <1>2, <1>3, <1>4, <1>5, <1>7
     DEF Store, Goto, remoteVars, sleepVars, coroVars, operVars, r
<1>10. slots'[q] = r /\ \A p \in Queues \ {q} : slots'[p] = slots[p]
  BY <1>0, <1>9 DEF TypeOK
<1>11. TypeOK'
  <2>1. slots' \in [Queues -> Seq(Coros \cup {None})]
    BY <1>0, <1>8, <1>9 DEF TypeOK
  <2>2. \A p \in Queues : head[p] < Len(slots'[p])
    BY <1>0, <1>2, <1>5, <1>8, <1>10 DEF TypeOK
  <2>3. pc' \in [Threads -> Enqueuing \cup Popping \cup {"code", "wake"}]
    BY <1>0, <1>9 DEF TypeOK, Enqueuing
  <2> QED BY <1>0, <1>9, <2>1, <2>2, <2>3 DEF TypeOK
<1>12. pc'[t] = "publish" /\ \A u \in Threads \ {t} : pc'[u] = pc[u]
  BY <1>0, <1>9 DEF TypeOK
<1>13. ThreadInv'
  <2>1. ThreadOK(t)'
    <3>1. Fits(seen[t], target[t])'
      BY <1>1, <1>2, <1>5, <1>6, <1>8, <1>9, <1>10 DEF Fits, Mask
    <3>2. Sound(q) => /\ slots'[target'[t]][seen'[t] + 1] = oper'[t]
                      /\ seen'[t] = head'[target'[t]]
      BY <1>1, <1>3, <1>4, <1>6, <1>8, <1>9, <1>10
    <3>3. Sound(target[t])' <=> Sound(q)
      BY <1>1, <1>9 DEF Sound
    <3> QED BY <1>0, <1>6, <1>9, <1>12, <3>1, <3>2, <3>3
            DEF ThreadOK, LocalPlaces, Enqueuing, Popping
  <2>2. ASSUME NEW u \in Threads \ {t} PROVE ThreadOK(u)'
    <3>1. ThreadOK(u) /\ seen[u] \in Nat
      BY <1>0 DEF ThreadInv, TypeOK
    <3>2. \A p \in Queues : NoShorter(p)
      BY <1>2, <1>5, <1>8, <1>10, SameLength
    <3>3. pc[u] \in Writing => target[u] \in Queues
      BY <3>1, Domains DEF ThreadOK
    <3>4. pc[u] = "take" => u \in Queues
      BY <3>1 DEF ThreadOK
    <3>5. pc[u] \in Writing /\ Sound(target[u]) => target[u] # q
      BY <1>0, <1>1, <1>6, Exclusive
    <3>6. pc[u] \in Writing => /\ NoShorter(target[u])
                               /\ head'[target[u]] = head[target[u]]
                               /\ Sound(target[u]) => slots'[target[u]] = slots[target[u]]
      BY <1>9, <1>10, <3>2, <3>3, <3>5
    <3>7. pc[u] = "take" => NoShorter(u) /\ head'[u] = head[u]
      BY <1>9, <3>2, <3>4
    <3> QED BY <1>9, <1>12, <3>1, <3>6, <3>7, ThreadKept
  <2> QED BY <2>1, <2>2 DEF ThreadInv
<1>14. AloneInv'
  <2>1. InRenderQueue(t)' => InRenderQueue(t)
    BY <1>6, <1>9, <1>12 DEF InRenderQueue, Writing
  <2> QED BY <1>0, <1>9, <1>12, <2>1, AloneKept
<1>15. Tracked' = Tracked
  BY <1>9, TrackedFacts
<1>16. \A u \in Threads : pc'[u] \in Enqueuing <=> pc[u] \in Enqueuing
  BY <1>6, <1>12 DEF Enqueuing
<1>17. EnterOnce' /\ \A d : Entering(d)' <=> Entering(d)
  BY <1>0, <1>9, <1>15, <1>16, EnterKept DEF OnceInv
<1>18. SlotInv' /\ \A d : InLocal(d)' <=> InLocal(d)
  <2>1. \A p \in Queues : \A i \in 1 .. head[p] : slots'[p][i] = slots[p][i]
    BY <1>2, <1>3, <1>8, <1>10
  <2>2. slots'[Renderer] \in Seq(RenderCoros \cup {None})
    BY <1>0, <1>8, <1>10, Domains DEF SlotInv
  <2> QED BY <1>0, <1>9, <2>1, <2>2, SlotsKept
<1>19. RunOnce' /\ \A d : Running(d)' <=> Running(d)
  BY <1>0, <1>9, <1>15, RunKept DEF OnceInv
<1>20. Alone(RemoteOrder, Tracked)' /\ \A d : InRemote(d)' <=> InRemote(d)
  BY <1>0, <1>9, <1>15, OrderKept DEF remoteVars, OnceInv
<1>21. PartInv'
  BY <1>0, <1>9, <1>15, <1>17, <1>18, <1>19, <1>20 DEF PartInv
<1> QED BY <1>11, <1>13, <1>14, <1>17, <1>18, <1>19, <1>20, <1>21 DEF IInv, OnceInv

\* The operation becomes part of the queue, in the array or in a larger one
LEMMA Installed ==
  ASSUME IInv, NEW t \in Threads, pc[t] \in {"publish", "grow"},
         NEW q \in Queues, q = target[t], NEW h \in Nat, h = seen[t],
         NEW r \in Seq(Coros \cup {None}), h + 1 < Len(r), Len(slots[q]) <= Len(r),
         Sound(q) => r[h + 1] = oper[t] /\ \A i \in 1 .. h : r[i] = slots[q][i],
         q = Renderer => r \in Seq(RenderCoros \cup {None}),
         slots' = [slots EXCEPT ![q] = r], head' = [head EXCEPT ![q] = h + 1],
         seen' = [seen EXCEPT ![t] = 0], pc' = [pc EXCEPT ![t] = "wake"],
         UNCHANGED <<remote, taken, sleeping, event, hops, ended, cur, oper, target,
                     scan, contended>>
  PROVE  IInv'
<1>0. /\ TypeOK /\ ThreadInv /\ AloneInv /\ SlotInv /\ OnceInv /\ PartInv
      /\ ThreadOK(t)
  BY DEF IInv, ThreadInv
<1>1. pc[t] \in Enqueuing /\ pc[t] \in Writing /\ pc'[t] = "wake"
      /\ \A u \in Threads \ {t} : pc'[u] = pc[u] /\ seen'[u] = seen[u]
  BY <1>0 DEF Enqueuing, Writing, TypeOK
<1>2. PICK c \in Coros : c = oper[t] /\ (q = Renderer => c \in RenderCoros)
  BY <1>0, <1>1, Domains DEF ThreadOK
<1>3. /\ slots'[q] = r /\ head'[q] = h + 1
      /\ \A p \in Queues \ {q} : slots'[p] = slots[p] /\ head'[p] = head[p]
  BY <1>0 DEF TypeOK
<1>4. TypeOK'
  <2>1. slots' \in [Queues -> Seq(Coros \cup {None})] /\ head' \in [Queues -> Nat]
        /\ seen' \in [Threads -> Nat]
    BY <1>0 DEF TypeOK
  <2>2. \A p \in Queues : head'[p] < Len(slots'[p])
    BY <1>0, <1>3 DEF TypeOK
  <2>3. pc' \in [Threads -> Enqueuing \cup Popping \cup {"code", "wake"}]
    BY <1>0 DEF TypeOK
  <2> QED BY <1>0, <2>1, <2>2, <2>3 DEF TypeOK
<1>5. Sound(q) => h = head[q]
  BY <1>0, <1>1 DEF ThreadOK
<1>6. ThreadInv'
  <2>1. ThreadOK(t)'
    BY <1>0, <1>1, Domains DEF ThreadOK, LocalPlaces, Writing, Enqueuing, Popping
  <2>2. \A p \in Queues : NoShorter(p)
    <3>1. PICK s \in Seq(Coros \cup {None}) : s = slots[q]
      BY <1>0 DEF TypeOK
    <3>2. NoShorter(q)
      BY <1>3, <3>1, Longer
    <3> QED BY <1>3, <3>2, SameLength
  <2>3. ASSUME NEW u \in Threads \ {t} PROVE ThreadOK(u)'
    <3>1. ThreadOK(u) /\ seen[u] \in Nat
      BY <1>0 DEF ThreadInv, TypeOK
    <3>2. pc[u] \in Writing => target[u] \in Queues
      BY <3>1, Domains DEF ThreadOK
    <3>3. pc[u] = "take" => u \in Queues
      BY <3>1 DEF ThreadOK
    <3>4. /\ pc[u] \in Writing /\ Sound(target[u]) => target[u] # q
          /\ pc[u] = "take" /\ Sound(u) => u # q
      BY <1>0, <1>1, Exclusive
    <3>5. pc[u] \in Writing => /\ NoShorter(target[u])
                               /\ Sound(target[u]) =>
                                    /\ head'[target[u]] = head[target[u]]
                                    /\ slots'[target[u]] = slots[target[u]]
      BY <1>3, <2>2, <3>2, <3>4
    <3>6. pc[u] = "take" => NoShorter(u) /\ (Sound(u) => head'[u] = head[u])
      BY <1>3, <2>2, <3>3, <3>4
    <3> QED BY <1>1, <3>1, <3>5, <3>6, ThreadKept
  <2> QED BY <2>1, <2>3 DEF ThreadInv
<1>7. AloneInv'
  <2>1. InRenderQueue(t)' => InRenderQueue(t)
    BY <1>1 DEF InRenderQueue
  <2> QED BY <1>0, <1>1, <2>1, AloneKept
<1>8. Tracked' = Tracked
  BY TrackedFacts
<1>9. Entering(c) /\ (c \in Tracked => ~ InLocal(c))
  BY <1>0, <1>1, <1>2 DEF Entering, PartInv
<1>10. EnterOnce' /\ \A d \in Tracked : Entering(d)' <=> Entering(d) /\ d # c
  <2>1. \A u \in Threads \ {t} : pc'[u] = pc[u] /\ oper'[u] = oper[u]
    BY <1>1
  <2> QED BY <1>0, <1>1, <1>2, <1>8, <2>1, EnterLeave, Domains DEF OnceInv
<1>11. SlotInv' /\ \A d \in Tracked : InLocal(d)' <=> InLocal(d) \/ d = c
  <2>1. head \in [Queues -> Nat] /\ slots'[Renderer] \in Seq(RenderCoros \cup {None})
    BY <1>0, <1>3, Domains DEF TypeOK, SlotInv
  <2>2. CASE Sound(q)
    <3>1. \A p \in Queues : \A i \in 1 .. head[p] : slots'[p][i] = slots[p][i]
      BY <1>3, <1>5, <2>2
    <3>2. slots'[q][h + 1] = c
      BY <1>2, <1>3, <2>2
    <3>3. SlotInv' /\ \A d : InLocal(d)' <=> InLocal(d) \/ d = c
      BY <1>0, <1>5, <1>9, <2>1, <2>2, <3>1, <3>2, SlotAdded
    <3> QED BY <3>3
  <2>3. CASE ~ Sound(q)
    <3>1. q = Renderer /\ contended /\ contended' /\ c \notin Tracked
      BY <1>2, <2>3, TrackedFacts DEF Sound
    <3>2. PICK n \in Nat : n = Len(slots[Renderer])
      BY <1>0, LenProperties DEF SlotInv
    <3>3. PICK m \in Nat : m = Len(slots'[Renderer])
      BY <2>1, LenProperties
    <3>4. head[Renderer] < n /\ head'[Renderer] < m /\ head' \in [Queues -> Nat]
      BY <1>0, <1>4, <3>2, <3>3, Domains DEF TypeOK
    <3>5. \A p \in Queues \ {Renderer} : slots'[p] = slots[p] /\ head'[p] = head[p]
      BY <1>3, <3>1
    <3>6. SlotInv' /\ \A d \in Tracked : InLocal(d)' <=> InLocal(d)
      BY <1>0, <2>1, <3>1, <3>2, <3>3, <3>4, <3>5, SlotsLost
    <3> QED BY <3>1, <3>6
  <2> QED BY <2>2, <2>3
<1>12. RunOnce' /\ \A d : Running(d)' <=> Running(d)
  BY <1>0, <1>8, RunKept DEF OnceInv
<1>13. Alone(RemoteOrder, Tracked)' /\ \A d : InRemote(d)' <=> InRemote(d)
  BY <1>0, <1>8, OrderKept DEF remoteVars, OnceInv
<1>14. PartInv'
  BY <1>0, <1>8, <1>9, <1>10, <1>11, <1>12, <1>13 DEF PartInv
<1> QED BY <1>4, <1>6, <1>7, <1>10, <1>11, <1>12, <1>13, <1>14 DEF IInv, OnceInv

LEMMA PublishStep ==
  ASSUME IInv, NEW t \in Threads, Publish(t)
  PROVE  IInv'
<1>0. TypeOK /\ ThreadOK(t) /\ SlotInv
  BY DEF IInv, ThreadInv
<1>1. PICK q \in Queues : q = target[t]
  BY <1>0, Domains DEF Publish, ThreadOK, LocalPlaces
<1>2. PICK h \in Nat : h = seen[t]
  BY <1>0 DEF TypeOK
<1>3. PICK r \in Seq(Coros \cup {None}) : r = slots[q]
  BY <1>0 DEF TypeOK
<1>4. /\ pc[t] = "publish" /\ h < Len(r) - 1 /\ (Sound(q) => r[h + 1] = oper[t])
      /\ q = Renderer => r \in Seq(RenderCoros \cup {None})
  BY <1>0, <1>1, <1>2, <1>3 DEF Publish, ThreadOK, Fits, Mask, SlotInv
<1>5. h + 1 < Len(r) /\ Len(slots[q]) <= Len(r)
  <2>1. Len(r) \in Nat
    OBVIOUS
  <2> QED BY <1>3, <1>4, <2>1
<1>6. slots' = [slots EXCEPT ![q] = r]
  BY <1>0, <1>3 DEF Publish, TypeOK
<1>7. /\ head' = [head EXCEPT ![q] = h + 1]
      /\ seen' = [seen EXCEPT ![t] = 0] /\ pc' = [pc EXCEPT ![t] = "wake"]
      /\ UNCHANGED <<remote, taken, sleeping, event, hops, ended, cur, oper, target,
                     scan, contended>>
  BY <1>1, <1>2 DEF Publish, Forget, Goto, remoteVars, sleepVars, coroVars, operVars
<1> QED BY <1>1, <1>2, <1>3, <1>4, <1>5, <1>6, <1>7, Installed

\* What the larger array holds
LEMMA GrownFacts ==
  ASSUME NEW s \in Seq(Coros \cup {None}), NEW h \in Nat, h < Len(s), NEW c \in Coros
  PROVE  /\ Grown(s, h, c) \in Seq(Coros \cup {None})
         /\ s \in Seq(RenderCoros \cup {None}) /\ c \in RenderCoros
              => Grown(s, h, c) \in Seq(RenderCoros \cup {None})
         /\ h + 1 < Len(Grown(s, h, c)) /\ Len(s) <= Len(Grown(s, h, c))
         /\ Grown(s, h, c)[h + 1] = c /\ \A i \in 1 .. h : Grown(s, h, c)[i] = s[i]
<1>1. PICK n \in Nat : n = Len(s)
  OBVIOUS
<1> DEFINE e(i) == IF i <= h THEN s[i] ELSE IF i = h + 1 THEN c ELSE None
           g == [i \in 1 .. 2 * n |-> e(i)]
<1>2. g = Grown(s, h, c)
  BY <1>1 DEF Grown
<1>3. 2 * n \in Nat /\ h + 1 \in 1 .. 2 * n /\ h + 1 < 2 * n /\ n <= 2 * n
  BY <1>1
<1>4. \A i \in 1 .. h : i \in 1 .. n /\ i \in 1 .. 2 * n /\ i <= h
  BY <1>1
<1>5. ASSUME NEW S, s \in Seq(S), c \in S, None \in S, NEW i \in 1 .. 2 * n
      PROVE  e(i) \in S
  <2>1. ASSUME i <= h PROVE s[i] \in S
    <3>1. i \in 1 .. h
      BY <2>1
    <3> QED BY <1>1, <1>4, <1>5, <3>1, ElementOfSeq
  <2> QED BY <1>5, <2>1
<1>6. \A i \in 1 .. 2 * n : g[i] = e(i)
  OBVIOUS
<1>7. g[h + 1] = c
  BY <1>3, <1>6
<1>8. \A i \in 1 .. h : g[i] = s[i]
  BY <1>4, <1>6
<1>9. g \in Seq(Coros \cup {None}) /\ Len(g) = 2 * n
  <2>1. \A i \in 1 .. 2 * n : e(i) \in Coros \cup {None}
    BY <1>5
  <2> HIDE DEF e
  <2> QED BY <1>3, <2>1
<1>10. ASSUME s \in Seq(RenderCoros \cup {None}), c \in RenderCoros
       PROVE  g \in Seq(RenderCoros \cup {None})
  <2>1. \A i \in 1 .. 2 * n : e(i) \in RenderCoros \cup {None}
    BY <1>5, <1>10
  <2> HIDE DEF e
  <2> QED BY <1>3, <2>1
<1> HIDE DEF g
<1> QED BY <1>1, <1>2, <1>3, <1>7, <1>8, <1>9, <1>10

LEMMA GrowStep ==
  ASSUME IInv, NEW t \in Threads, Grow(t)
  PROVE  IInv'
<1>0. TypeOK /\ ThreadOK(t) /\ SlotInv
  BY DEF IInv, ThreadInv
<1>1. PICK q \in Queues : q = target[t]
  BY <1>0, Domains DEF Grow, ThreadOK, LocalPlaces
<1>2. PICK h \in Nat : h = seen[t]
  BY <1>0 DEF TypeOK
<1>3. PICK s \in Seq(Coros \cup {None}) : s = slots[q] /\ h < Len(s)
  BY <1>0, <1>1, <1>2 DEF TypeOK, ThreadOK, Grow
<1>4. PICK c \in Coros : c = oper[t] /\ (q = Renderer => c \in RenderCoros)
  BY <1>0, <1>1, Domains DEF Grow, ThreadOK, Enqueuing, LocalPlaces
<1>5. PICK r \in Seq(Coros \cup {None}) :
        /\ r = Grown(s, h, c) /\ h + 1 < Len(r) /\ Len(s) <= Len(r) /\ r[h + 1] = c
        /\ \A i \in 1 .. h : r[i] = s[i]
        /\ s \in Seq(RenderCoros \cup {None}) /\ c \in RenderCoros
             => r \in Seq(RenderCoros \cup {None})
  <2> DEFINE g == Grown(s, h, c)
  <2>1. /\ g \in Seq(Coros \cup {None}) /\ h + 1 < Len(g) /\ Len(s) <= Len(g)
        /\ g[h + 1] = c /\ \A i \in 1 .. h : g[i] = s[i]
        /\ s \in Seq(RenderCoros \cup {None}) /\ c \in RenderCoros
             => g \in Seq(RenderCoros \cup {None})
    BY <1>3, GrownFacts
  <2> HIDE DEF g
  <2>2. g = Grown(s, h, c)
    BY DEF g
  <2> QED BY <2>1, <2>2, Zenon
<1>6. q = Renderer => r \in Seq(RenderCoros \cup {None})
  BY <1>0, <1>3, <1>4, <1>5 DEF SlotInv
<1>7. slots' = [slots EXCEPT ![q] = r]
  BY <1>0, <1>1, <1>2, <1>3, <1>4, <1>5 DEF Grow, TypeOK
<1>8. /\ head' = [head EXCEPT ![q] = h + 1] /\ pc[t] = "grow"
      /\ seen' = [seen EXCEPT ![t] = 0] /\ pc' = [pc EXCEPT ![t] = "wake"]
      /\ UNCHANGED <<remote, taken, sleeping, event, hops, ended, cur, oper, target,
                     scan, contended>>
  BY <1>1, <1>2 DEF Grow, Forget, Goto, remoteVars, sleepVars, coroVars, operVars
<1>9. /\ r[h + 1] = oper[t] /\ \A i \in 1 .. h : r[i] = slots[q][i]
      /\ Len(slots[q]) <= Len(r)
  BY <1>3, <1>4, <1>5
<1> QED BY <1>1, <1>2, <1>5, <1>6, <1>7, <1>8, <1>9, Installed

\* The operation goes to the remote list
LEMMA RemoteEnqueueStep ==
  ASSUME IInv, NEW t \in Threads, RemoteEnqueue(t)
  PROVE  IInv'
<1>0. /\ TypeOK /\ ThreadInv /\ AloneInv /\ SlotInv /\ OnceInv /\ PartInv
      /\ ThreadOK(t)
  BY DEF IInv, ThreadInv
<1>1. PICK c \in Coros : c = oper[t]
  BY <1>0 DEF RemoteEnqueue, ThreadOK, Enqueuing
<1>2. /\ pc[t] = "push" /\ pc' = [pc EXCEPT ![t] = "wake"] /\ remote' = <<c>> \o remote
      /\ UNCHANGED <<slots, head, taken, sleeping, event, hops, ended, cur, oper, target,
                     seen, scan, contended>>
  BY <1>1 DEF RemoteEnqueue, Goto, localVars, sleepVars, coroVars, operVars
<1>3. pc[t] \in Enqueuing /\ pc'[t] = "wake"
      /\ \A u \in Threads \ {t} : pc'[u] = pc[u]
  BY <1>0, <1>2 DEF Enqueuing, TypeOK
<1>4. remote \in Seq(Coros) /\ taken \in Seq(Coros)
  BY <1>0 DEF TypeOK
<1>5. remote' \in Seq(Coros) /\ RemoteOrder' = Append(RemoteOrder, c)
  <2>1. /\ <<c>> \o remote \in Seq(Coros)
        /\ Order(taken, <<c>> \o remote) = Append(Order(taken, remote), c)
    BY <1>4, PushOrder
  <2>2. RemoteOrder = Order(taken, remote) /\ RemoteOrder' = Order(taken', remote')
    BY DEF RemoteOrder, Order
  <2> QED BY <1>2, <2>1, <2>2
<1>6. TypeOK'
  <2>1. pc' \in [Threads -> Enqueuing \cup Popping \cup {"code", "wake"}]
    BY <1>0, <1>2 DEF TypeOK
  <2> QED BY <1>0, <1>2, <1>5, <2>1 DEF TypeOK
<1>7. ThreadInv'
  <2>1. ThreadOK(t)'
    BY <1>0, <1>2, <1>3 DEF ThreadOK, LocalPlaces, Writing, Enqueuing, Popping
  <2> QED BY <1>0, <1>2, <1>3, <2>1, OthersKept
<1>8. AloneInv' /\ Tracked' = Tracked
  <2>1. InRenderQueue(t)' => InRenderQueue(t)
    BY <1>3 DEF InRenderQueue
  <2> QED BY <1>0, <1>2, <1>3, <2>1, AloneKept, TrackedFacts
<1>9. Entering(c) /\ (c \in Tracked => ~ InRemote(c))
  BY <1>0, <1>1, <1>3 DEF Entering, PartInv
<1>10. EnterOnce' /\ \A d \in Tracked : Entering(d)' <=> Entering(d) /\ d # c
  BY <1>0, <1>1, <1>2, <1>3, <1>8, EnterLeave, Domains DEF OnceInv
<1>11. Alone(RemoteOrder, Tracked)' /\ \A d : InRemote(d)' <=> InRemote(d) \/ d = c
  <2>1. RemoteOrder \in Seq(Coros)
    BY <1>4, OrderFacts DEF RemoteOrder, Order
  <2>2. Alone(RemoteOrder', Tracked) /\ \A d : InRemote(d)' <=> InRemote(d) \/ d = c
    BY <1>0, <1>5, <1>9, <2>1, SetOfAppend DEF OnceInv, InRemote
  <2> QED BY <1>8, <2>2 DEF Alone
<1>12. SlotInv' /\ \A d : InLocal(d)' <=> InLocal(d)
  <2>1. slots'[Renderer] \in Seq(RenderCoros \cup {None})
    BY <1>0, <1>2 DEF SlotInv
  <2> QED BY <1>0, <1>2, <2>1, SlotsKept
<1>13. RunOnce' /\ \A d : Running(d)' <=> Running(d)
  BY <1>0, <1>2, <1>8, RunKept DEF OnceInv
<1>14. PartInv'
  BY <1>0, <1>2, <1>8, <1>9, <1>10, <1>11, <1>12, <1>13 DEF PartInv
<1> QED BY <1>6, <1>7, <1>8, <1>10, <1>11, <1>12, <1>13, <1>14 DEF IInv, OnceInv

\* A thread runs an operation it took
LEMMA StartsRunning ==
  ASSUME IInv, NEW t \in Queues, pc[t] \in Popping, NEW c \in Coros \cup {None},
         pc' = [pc EXCEPT ![t] = "code"], cur' = [cur EXCEPT ![t] = c],
         UNCHANGED <<oper, target, contended>>, c \in Tracked => ~ Running(c),
         \A u \in Threads \ {t} : seen'[u] = seen[u],
         UNCHANGED slots, \A q \in Queues : q = t \/ head'[q] = head[q],
         \A u \in Threads \ {t} : pc[u] \in Writing /\ target[u] = t /\ Sound(t) =>
                                    UNCHANGED head
  PROVE  /\ ThreadInv' /\ AloneInv'
         /\ EnterOnce' /\ \A d : Entering(d)' <=> Entering(d)
         /\ RunOnce' /\ \A d \in Tracked : Running(d)' <=> Running(d) \/ d = c
         /\ pc' \in [Threads -> Enqueuing \cup Popping \cup {"code", "wake"}]
         /\ cur' \in [Threads -> Coros \cup {None}]
<1>0. TypeOK /\ ThreadInv /\ AloneInv /\ OnceInv /\ ThreadOK(t) /\ t \in Threads
  BY Domains DEF IInv, ThreadInv
<1>1. /\ pc'[t] = "code" /\ \A u \in Threads \ {t} : pc'[u] = pc[u]
      /\ cur'[t] = c /\ \A u \in Threads \ {t} : cur'[u] = cur[u]
      /\ cur[t] = None
  BY <1>0 DEF TypeOK, ThreadOK
<1>2. ThreadInv'
  <2>1. ThreadOK(t)'
    BY <1>1, Domains DEF ThreadOK, LocalPlaces, Writing, Enqueuing, Popping
  <2>2. ASSUME NEW u \in Threads \ {t} PROVE ThreadOK(u)'
    <3>1. ThreadOK(u) /\ seen[u] \in Nat
      BY <1>0 DEF ThreadInv, TypeOK
    <3>2. pc[u] \in Writing /\ Sound(target[u]) => head'[target[u]] = head[target[u]]
      BY <3>1, Domains DEF ThreadOK
    <3>3. pc[u] = "take" => head'[u] = head[u]
      BY <3>1 DEF ThreadOK
    <3>4. NoShorter(target[u]) /\ NoShorter(u)
      BY SameLength
    <3> QED BY <1>1, <3>1, <3>2, <3>3, <3>4, ThreadKept
  <2> QED BY <2>1, <2>2 DEF ThreadInv
<1>3. AloneInv' /\ Tracked' = Tracked
  <2>1. InRenderQueue(t)' => InRenderQueue(t)
    BY <1>1 DEF InRenderQueue
  <2> QED BY <1>0, <1>1, <2>1, AloneKept, TrackedFacts
<1>4. \A u \in Threads : pc'[u] \in Enqueuing <=> pc[u] \in Enqueuing
  BY <1>1, Domains
<1>5. EnterOnce' /\ \A d : Entering(d)' <=> Entering(d)
  BY <1>0, <1>3, <1>4, EnterKept DEF OnceInv
<1>6. RunOnce' /\ \A d \in Tracked : Running(d)' <=> Running(d) \/ d = c
  BY <1>0, <1>1, <1>3, RunNew DEF OnceInv
<1>7. /\ pc' \in [Threads -> Enqueuing \cup Popping \cup {"code", "wake"}]
      /\ cur' \in [Threads -> Coros \cup {None}]
  BY <1>0 DEF TypeOK
<1> QED BY <1>2, <1>3, <1>5, <1>6, <1>7

LEMMA GetRemoteStep ==
  ASSUME IInv, NEW t \in Queues, GetRemote(t), pc'[t] = "code"
  PROVE  IInv'
<1>0. /\ TypeOK /\ ThreadInv /\ AloneInv /\ SlotInv /\ OnceInv /\ PartInv
      /\ t \in Threads
  BY Domains DEF IInv
<1> DEFINE list == IF taken # <<>> THEN taken ELSE Reverse(remote)
<1>1. remote \in Seq(Coros) /\ taken \in Seq(Coros) /\ pc[t] = "remote"
  BY <1>0 DEF TypeOK, GetRemote
<1>2. /\ list # <<>> /\ taken' = Tail(list) /\ pc' = [pc EXCEPT ![t] = "code"]
      /\ remote' = IF taken # <<>> THEN remote ELSE <<>>
      /\ cur' = [cur EXCEPT ![t] = Head(list)]
      /\ UNCHANGED <<slots, head, sleeping, event, hops, ended, oper, target, seen, scan,
                     contended>>
  BY <1>0 DEF GetRemote, ReverseList, Goto, TypeOK, localVars, sleepVars, coroVars,
              operVars
<1>3. /\ RemoteOrder # <<>> /\ Head(list) = Head(RemoteOrder) /\ Head(list) \in Coros
      /\ taken' \in Seq(Coros) /\ RemoteOrder' = Tail(RemoteOrder)
  <2>1. RemoteOrder = Order(taken, remote) /\ RemoteOrder' = Order(taken', remote')
    BY DEF RemoteOrder, Order
  <2> QED BY <1>1, <1>2, <2>1, GetOrder
<1>4. PICK c \in Coros : c = Head(list)
  BY <1>3
<1> HIDE DEF list
<1>5. Tracked' = Tracked
  BY <1>2, TrackedFacts
<1>6. /\ Alone(RemoteOrder, Tracked)' /\ InRemote(c)
      /\ \A d \in Tracked : InRemote(d)' <=> InRemote(d) /\ d # c
  <2>1. RemoteOrder \in Seq(Coros)
    BY <1>1, OrderFacts DEF RemoteOrder, Order
  <2>2. /\ Alone(RemoteOrder', Tracked) /\ InRemote(c)
        /\ \A d \in Tracked : InRemote(d)' <=> InRemote(d) /\ d # c
    BY <1>0, <1>3, <1>4, <2>1, SetOfTail DEF OnceInv, InRemote
  <2> QED BY <1>5, <2>2 DEF Alone
<1>7. c \in Tracked => ~ Running(c)
  BY <1>0, <1>6 DEF PartInv
<1>8. pc[t] \in Popping
  BY <1>1 DEF Popping
<1>9. /\ ThreadInv' /\ AloneInv' /\ EnterOnce' /\ \A d : Entering(d)' <=> Entering(d)
      /\ RunOnce' /\ \A d \in Tracked : Running(d)' <=> Running(d) \/ d = c
      /\ pc' \in [Threads -> Enqueuing \cup Popping \cup {"code", "wake"}]
      /\ cur' \in [Threads -> Coros \cup {None}]
  BY <1>2, <1>4, <1>7, <1>8, StartsRunning
<1>10. TypeOK'
  <2>1. remote' \in Seq(Coros)
    BY <1>1, <1>2
  <2> QED BY <1>0, <1>2, <1>3, <1>9, <2>1 DEF TypeOK
<1>11. SlotInv' /\ \A d : InLocal(d)' <=> InLocal(d)
  <2>1. slots'[Renderer] \in Seq(RenderCoros \cup {None})
    BY <1>0, <1>2 DEF SlotInv
  <2> QED BY <1>0, <1>2, <2>1, SlotsKept
<1>12. PartInv'
  BY <1>0, <1>2, <1>5, <1>6, <1>9, <1>11 DEF PartInv
<1> QED BY <1>6, <1>9, <1>10, <1>11, <1>12 DEF IInv, OnceInv

LEMMA TakeLocalStep ==
  ASSUME IInv, NEW t \in Queues, TakeLocal(t)
  PROVE  IInv'
<1>0. /\ TypeOK /\ ThreadInv /\ AloneInv /\ SlotInv /\ OnceInv /\ PartInv
      /\ ThreadOK(t) /\ t \in Threads
  BY Domains DEF IInv, ThreadInv
<1>1. PICK h \in Nat : h = seen[t]
  BY <1>0 DEF TypeOK
<1>2. /\ pc[t] = "take" /\ 0 < h /\ h < Len(slots[t]) /\ (Sound(t) => h = head[t])
      /\ pc[t] \in Popping
  BY <1>0, <1>1 DEF TakeLocal, ThreadOK, Popping
<1>3. PICK s \in Seq(Coros \cup {None}) : s = slots[t]
  BY <1>0 DEF TypeOK
<1>4. PICK c \in Coros \cup {None} :
        c = slots[t][h] /\ (t = Renderer => c \in RenderCoros \cup {None})
  <2>1. h \in 1 .. Len(s)
    BY <1>2, <1>3
  <2>2. s[h] \in Coros \cup {None}
    BY <2>1, ElementOfSeq
  <2>3. ASSUME t = Renderer PROVE s[h] \in RenderCoros \cup {None}
    <3>1. s \in Seq(RenderCoros \cup {None})
      BY <1>0, <1>3, <2>3 DEF SlotInv
    <3> QED BY <2>1, <3>1, ElementOfSeq
  <2> QED BY <1>3, <2>2, <2>3
<1>5. /\ head' = [head EXCEPT ![t] = h - 1] /\ cur' = [cur EXCEPT ![t] = c]
      /\ pc' = [pc EXCEPT ![t] = "code"] /\ seen' = [seen EXCEPT ![t] = 0]
      /\ UNCHANGED <<slots, remote, taken, sleeping, event, hops, ended, oper, target,
                     scan, contended>>
  BY <1>1, <1>4 DEF TakeLocal, Forget, Goto, remoteVars, sleepVars, coroVars, operVars
<1>6. /\ head \in [Queues -> Nat] /\ head' \in [Queues -> Nat] /\ head'[t] = h - 1
      /\ \A q \in Queues \ {t} : head'[q] = head[q]
  <2>1. h - 1 \in Nat
    BY <1>2
  <2> QED BY <1>0, <1>5, <2>1 DEF TypeOK
<1>7. Tracked' = Tracked
  BY <1>5, TrackedFacts
\* A tracked operation leaves the queue
<1>8. /\ SlotInv' /\ (c \in Tracked => InLocal(c))
      /\ \A d \in Tracked : InLocal(d)' <=> InLocal(d) /\ d # c
  <2>1. CASE Sound(t)
    <3>1. /\ SlotInv /\ head \in [Queues -> Nat] /\ contended' = contended
          /\ h = head[t] /\ h > 0 /\ head' = [head EXCEPT ![t] = h - 1]
          /\ UNCHANGED slots /\ c = slots[t][h]
      BY <1>0, <1>2, <1>4, <1>5, <1>6, <2>1
    <3>2. /\ SlotInv' /\ InLocal(c)
          /\ \A d \in Tracked : InLocal(d)' <=> InLocal(d) /\ d # c
      BY <3>1, SlotTaken
    <3> QED BY <3>2
  <2>2. CASE ~ Sound(t)
    <3>1. t = Renderer /\ contended /\ contended' /\ c \notin Tracked
      BY <1>4, <1>5, <2>2, TrackedFacts DEF Sound
    <3>2. PICK n \in Nat : n = Len(slots[Renderer])
      BY <1>0, LenProperties DEF SlotInv
    <3>3. head[Renderer] < n /\ head'[Renderer] < n /\ n = Len(slots'[Renderer])
      BY <1>0, <1>2, <1>5, <1>6, <3>1, <3>2 DEF TypeOK
    <3>4. slots'[Renderer] \in Seq(RenderCoros \cup {None})
      BY <1>0, <1>5 DEF SlotInv
    <3>5. \A p \in Queues \ {Renderer} : slots'[p] = slots[p] /\ head'[p] = head[p]
      BY <1>5, <1>6, <3>1
    <3>6. SlotInv' /\ \A d \in Tracked : InLocal(d)' <=> InLocal(d)
      BY <1>0, <1>6, <3>1, <3>2, <3>3, <3>4, <3>5, SlotsLost
    <3> QED BY <3>1, <3>6
  <2> QED BY <2>1, <2>2
<1>9. c \in Tracked => ~ Running(c)
  BY <1>0, <1>8 DEF PartInv
<1>10. /\ \A u \in Threads \ {t} : seen'[u] = seen[u]
       /\ \A q \in Queues : q = t \/ head'[q] = head[q]
       /\ \A u \in Threads \ {t} : ~ (pc[u] \in Writing /\ target[u] = t /\ Sound(t))
  <2>1. ASSUME NEW u \in Threads \ {t}, Sound(t) PROVE ~ (pc[u] \in Writing /\ target[u] = t)
    BY <1>0, <1>2, <2>1, Exclusive
  <2> QED BY <1>0, <1>5, <1>6, <2>1 DEF TypeOK
<1>11. /\ ThreadInv' /\ AloneInv' /\ EnterOnce' /\ \A d : Entering(d)' <=> Entering(d)
       /\ RunOnce' /\ \A d \in Tracked : Running(d)' <=> Running(d) \/ d = c
       /\ pc' \in [Threads -> Enqueuing \cup Popping \cup {"code", "wake"}]
       /\ cur' \in [Threads -> Coros \cup {None}]
  BY <1>2, <1>5, <1>9, <1>10, StartsRunning
<1>12. TypeOK'
  <2>1. \A q \in Queues : head'[q] < Len(slots[q])
    <3>1. PICK n \in Nat : n = Len(s)
      OBVIOUS
    <3>2. h - 1 < n
      BY <1>2, <1>3, <3>1
    <3> QED BY <1>0, <1>3, <1>6, <3>1, <3>2 DEF TypeOK
  <2>2. seen' \in [Threads -> Nat]
    BY <1>0, <1>5 DEF TypeOK
  <2> QED BY <1>0, <1>5, <1>6, <1>11, <2>1, <2>2 DEF TypeOK
<1>13. Alone(RemoteOrder, Tracked)' /\ \A d : InRemote(d)' <=> InRemote(d)
  BY <1>0, <1>5, <1>7, OrderKept DEF remoteVars, OnceInv
<1>14. PartInv'
  BY <1>0, <1>5, <1>7, <1>8, <1>11, <1>13 DEF PartInv
<1> QED BY <1>8, <1>11, <1>12, <1>13, <1>14 DEF IInv, OnceInv

\* No coroutine changes its place
LEMMA NothingMoves ==
  ASSUME IInv, NEW t \in Threads, pc[t] \notin Enqueuing, pc'[t] \notin Enqueuing,
         \A u \in Threads \ {t} : /\ pc'[u] = pc[u] /\ oper'[u] = oper[u]
                                  /\ target'[u] = target[u] /\ seen'[u] = seen[u],
         UNCHANGED <<slots, head, remote, taken, hops, ended, cur>>, TypeOK',
         ThreadOK(t)', AloneInv', contended => contended'
  PROVE  IInv'
<1>0. TypeOK /\ ThreadInv /\ SlotInv /\ OnceInv /\ PartInv
  BY DEF IInv
<1>1. ThreadInv'
  BY <1>0, OthersKept
<1>2. \A u \in Threads : /\ pc'[u] \in Enqueuing <=> pc[u] \in Enqueuing
                         /\ pc[u] \in Enqueuing => oper'[u] = oper[u]
  OBVIOUS
<1>3. Tracked' \subseteq Tracked
  BY TrackedFacts
<1>4. EnterOnce' /\ \A d : Entering(d)' <=> Entering(d)
  BY <1>0, <1>2, <1>3, EnterKept DEF OnceInv
<1>5. SlotInv' /\ \A d : InLocal(d)' <=> InLocal(d)
  <2>1. slots'[Renderer] \in Seq(RenderCoros \cup {None})
    BY <1>0 DEF SlotInv
  <2> QED BY <1>0, <2>1, SlotsKept
<1>6. RunOnce' /\ \A d : Running(d)' <=> Running(d)
  BY <1>0, <1>3, RunKept DEF OnceInv
<1>7. Alone(RemoteOrder, Tracked)' /\ \A d : InRemote(d)' <=> InRemote(d)
  BY <1>0, <1>3, OrderKept DEF remoteVars, OnceInv
<1>8. PartInv'
  BY <1>0, <1>3, <1>4, <1>5, <1>6, <1>7 DEF PartInv
<1> QED BY <1>1, <1>4, <1>5, <1>6, <1>7, <1>8 DEF IInv, OnceInv

\* Looking for work, sleeping, waking
LEMMA WaitingSteps ==
  ASSUME IInv, NEW t \in Queues,
         \/ PopHead(t) \/ AnnounceSleep(t) \/ Woken(t)
         \/ GetRemote(t) /\ pc'[t] # "code"
  PROVE  IInv'
<1>0. TypeOK /\ AloneInv /\ ThreadOK(t) /\ t \in Threads
  BY Domains DEF IInv, ThreadInv
<1>1. pc[t] \in Popping
  BY DEF PopHead, AnnounceSleep, Woken, GetRemote, Popping
<1>2. PICK p \in Popping :
        /\ pc' = [pc EXCEPT ![t] = p]
        /\ p = "take" => /\ seen' = [seen EXCEPT ![t] = head[t]]
                         /\ ~ NothingQueued(head[t]) /\ Notice(t, t)
        /\ p # "take" => UNCHANGED <<seen, contended>>
        /\ UNCHANGED <<slots, head, remote, taken, hops, ended, cur, oper, target, scan>>
        /\ sleeping' = sleeping \/ sleeping' = [sleeping EXCEPT ![t] = TRUE]
        /\ event' = event \/ event' = [event EXCEPT ![t] = FALSE]
  <2>1. CASE PopHead(t)
    BY <2>1 DEF PopHead, Goto, Popping, localVars, remoteVars, sleepVars, coroVars, operVars
  <2>2. CASE AnnounceSleep(t) \/ Woken(t)
    BY <2>2 DEF AnnounceSleep, Woken, Goto, Popping, localVars, remoteVars, sleepVars,
                coroVars, operVars
  <2>3. CASE GetRemote(t) /\ pc'[t] # "code"
    BY <1>0, <2>3 DEF GetRemote, Goto, TypeOK, Popping, localVars, remoteVars, sleepVars,
                      coroVars, operVars
  <2> QED BY <2>1, <2>2, <2>3
<1>3. /\ pc'[t] = p /\ \A u \in Threads \ {t} : pc'[u] = pc[u] /\ seen'[u] = seen[u]
      /\ pc' \in [Threads -> Enqueuing \cup Popping \cup {"code", "wake"}]
      /\ p = "take" => seen'[t] = head[t]
  BY <1>0, <1>2 DEF TypeOK
<1>4. AloneInv' /\ (contended => contended') /\ contended' \in BOOLEAN
  <2>1. CASE p = "take"
    <3>1. InRenderQueue(t)' => t = Renderer
      BY <1>3, <2>1 DEF InRenderQueue
    <3> QED BY <1>0, <1>2, <1>3, <2>1, <3>1, AloneNoticed
  <2>2. CASE p # "take"
    <3>1. InRenderQueue(t)' => InRenderQueue(t)
      BY <1>2, <1>3, <2>2 DEF InRenderQueue, Popping
    <3> QED BY <1>0, <1>2, <1>3, <2>2, <3>1, AloneKept DEF TypeOK
  <2> QED BY <2>1, <2>2
<1>5. TypeOK'
  <2>1. /\ seen' \in [Threads -> Nat]
        /\ sleeping' \in [Queues -> BOOLEAN] /\ event' \in [Queues -> BOOLEAN]
    BY <1>0, <1>2 DEF TypeOK
  <2> QED BY <1>0, <1>2, <1>3, <1>4, <2>1 DEF TypeOK
<1>6. ThreadOK(t)'
  <2>1. p = "take" => 0 < head[t] /\ head[t] < Len(slots[t])
    BY <1>0, <1>2 DEF NothingQueued, TypeOK
  <2> QED BY <1>0, <1>1, <1>2, <1>3, <2>1, Domains
          DEF ThreadOK, LocalPlaces, Writing, Enqueuing, Popping
<1>7. pc[t] \notin Enqueuing /\ pc'[t] \notin Enqueuing
  BY <1>1, <1>3, Domains
<1> QED BY <1>0, <1>2, <1>3, <1>4, <1>5, <1>6, <1>7, NothingMoves

LEMMA WakeStep ==
  ASSUME IInv, NEW t \in Threads, TryWakeUp(t)
  PROVE  IInv'
<1>0. TypeOK /\ AloneInv /\ ThreadOK(t)
  BY DEF IInv, ThreadInv
<1> DEFINE q    == IF target[t] = Renderer THEN Renderer ELSE scan[t]
           back == IF t \in Queues /\ cur[t] = None THEN "pop" ELSE "code"
           Over == /\ pc' = [pc EXCEPT ![t] = back]
                   /\ oper' = [oper EXCEPT ![t] = None]
                   /\ target' = [target EXCEPT ![t] = None]
                   /\ scan' = [scan EXCEPT ![t] = 1]
           Next1 == /\ ~ LastScheduler(scan[t]) /\ scan' = [scan EXCEPT ![t] = @ + 1]
                    /\ UNCHANGED <<pc, oper, target>>
<1>1. /\ pc[t] = "wake" /\ UNCHANGED <<slots, head, remote, taken, hops, ended, cur,
                                       seen, contended>>
      /\ \/ sleeping' = sleeping /\ event' = event
         \/ sleeping' = [sleeping EXCEPT ![q] = FALSE]
            /\ event' = [event EXCEPT ![q] = TRUE]
      /\ Over \/ Next1
  BY DEF TryWakeUp, Goto, ForgetCall, localVars, remoteVars, sleepVars, coroVars, operVars
<1>2. back \in {"pop", "code"} /\ (back = "pop" => cur[t] = None)
  OBVIOUS
<1>3. \A u \in Threads \ {t} : pc'[u] = pc[u] /\ oper'[u] = oper[u]
                               /\ target'[u] = target[u]
  BY <1>0, <1>1 DEF TypeOK
<1>4. pc'[t] \in {"pop", "code", "wake"} /\ (pc'[t] = "pop" => cur[t] = None)
  BY <1>0, <1>1, <1>2 DEF TypeOK
<1>5. pc' \in [Threads -> Enqueuing \cup Popping \cup {"code", "wake"}]
  BY <1>0, <1>1, <1>2 DEF TypeOK, Popping
<1>6. scan' \in [Threads -> Workers]
  <2>1. CASE Over
    BY <1>0, <2>1, Domains DEF TypeOK
  <2>2. CASE Next1
    <3>1. scan[t] \in Workers /\ scan[t] # NumWorkers
      BY <1>0, <2>2 DEF TypeOK, LastScheduler
    <3>2. scan[t] + 1 \in Workers
      BY <3>1, SizesAssumption DEF Workers
    <3> QED BY <1>0, <2>2, <3>2 DEF TypeOK
  <2> QED BY <1>1, <2>1, <2>2
<1>7. oper' \in [Threads -> Coros \cup {None}]
      /\ target' \in [Threads -> Queues \cup {None}]
  BY <1>0, <1>1 DEF TypeOK
<1>8. sleeping' \in [Queues -> BOOLEAN] /\ event' \in [Queues -> BOOLEAN]
  BY <1>0, <1>1 DEF TypeOK
<1> HIDE DEF Over, Next1, back, q
<1>9. TypeOK'
  BY <1>0, <1>1, <1>5, <1>6, <1>7, <1>8 DEF TypeOK
<1>10. ThreadOK(t)' /\ AloneInv'
  <2>1. ThreadOK(t)'
    BY <1>0, <1>1, <1>4 DEF ThreadOK, LocalPlaces, Writing, Enqueuing, Popping
  <2>2. InRenderQueue(t)' => InRenderQueue(t)
    BY <1>4 DEF InRenderQueue
  <2> QED BY <1>0, <1>1, <1>3, <2>1, <2>2, AloneKept
<1>11. pc[t] \notin Enqueuing /\ pc'[t] \notin Enqueuing
  BY <1>1, <1>4 DEF Enqueuing
<1> QED BY <1>1, <1>3, <1>9, <1>10, <1>11, NothingMoves

\* A coroutine ends
LEMMA EndStep ==
  ASSUME IInv, NEW t \in Threads, End(t)
  PROVE  IInv'
<1>0. /\ TypeOK /\ ThreadInv /\ AloneInv /\ SlotInv /\ OnceInv /\ PartInv
      /\ ThreadOK(t)
  BY DEF IInv, ThreadInv
<1>1. PICK c \in Coros : c = cur[t]
  BY <1>0 DEF End, TypeOK
<1>2. /\ pc[t] = "code" /\ cur[t] # None /\ ended' = ended \cup {c}
      /\ cur' = [cur EXCEPT ![t] = None] /\ pc' = [pc EXCEPT ![t] = "pop"]
      /\ UNCHANGED <<slots, head, remote, taken, sleeping, event, hops, oper, target,
                     seen, scan, contended>>
  BY <1>1 DEF End, Goto, localVars, remoteVars, sleepVars, operVars
<1>3. /\ pc'[t] = "pop" /\ cur'[t] = None
      /\ \A u \in Threads \ {t} : pc'[u] = pc[u] /\ cur'[u] = cur[u]
  BY <1>0, <1>2 DEF TypeOK
<1>4. TypeOK'
  <2>1. /\ pc' \in [Threads -> Enqueuing \cup Popping \cup {"code", "wake"}]
        /\ cur' \in [Threads -> Coros \cup {None}] /\ ended' \subseteq Coros
    BY <1>0, <1>2 DEF TypeOK, Popping
  <2> QED BY <1>0, <1>2, <2>1 DEF TypeOK
<1>5. ThreadInv'
  <2>1. ThreadOK(t)'
    BY <1>3 DEF ThreadOK, LocalPlaces, Writing, Enqueuing, Popping
  <2> QED BY <1>0, <1>2, <1>3, <2>1, OthersKept
<1>6. AloneInv' /\ Tracked' = Tracked
  <2>1. InRenderQueue(t)' => InRenderQueue(t)
    BY <1>3 DEF InRenderQueue
  <2> QED BY <1>0, <1>2, <1>3, <2>1, AloneKept, TrackedFacts
<1>7. \A u \in Threads : pc'[u] \in Enqueuing <=> pc[u] \in Enqueuing
  BY <1>2, <1>3 DEF Enqueuing
<1>8. EnterOnce' /\ \A d : Entering(d)' <=> Entering(d)
  BY <1>0, <1>2, <1>6, <1>7, EnterKept DEF OnceInv
<1>9. SlotInv' /\ \A d : InLocal(d)' <=> InLocal(d)
  <2>1. slots'[Renderer] \in Seq(RenderCoros \cup {None})
    BY <1>0, <1>2 DEF SlotInv
  <2> QED BY <1>0, <1>2, <2>1, SlotsKept
<1>10. RunOnce' /\ \A d \in Tracked : Running(d)' <=> Running(d) /\ d # c
  BY <1>0, <1>1, <1>2, <1>3, <1>6, RunLeave DEF OnceInv
<1>11. Alone(RemoteOrder, Tracked)' /\ \A d : InRemote(d)' <=> InRemote(d)
  BY <1>0, <1>2, <1>6, OrderKept DEF remoteVars, OnceInv
<1>12. Running(c)
  BY <1>1 DEF Running
<1>13. PartInv'
  BY <1>0, <1>2, <1>6, <1>8, <1>9, <1>10, <1>11, <1>12 DEF PartInv
<1> QED BY <1>4, <1>5, <1>6, <1>8, <1>9, <1>10, <1>11, <1>13 DEF IInv, OnceInv

\* A coroutine awaits
LEMMA AwaitStep ==
  ASSUME IInv, NEW t \in Threads, NEW c \in Coros, Schedule(t, c) \/ ScheduleRender(t, c)
  PROVE  IInv'
<1>0. /\ TypeOK /\ ThreadInv /\ AloneInv /\ SlotInv /\ OnceInv /\ PartInv
      /\ ThreadOK(t)
  BY DEF IInv, ThreadInv
<1>1. /\ pc[t] = "code" /\ hops[c] < MaxHops /\ hops' = [hops EXCEPT ![c] = @ + 1]
      /\ oper' = [oper EXCEPT ![t] = c]
      /\ \/ c = cur[t] /\ cur' = [cur EXCEPT ![t] = None]
         \/ hops[c] = 0 /\ cur' = cur
      /\ UNCHANGED <<slots, head, remote, taken, sleeping, event, ended, seen, scan,
                     contended>>
  BY DEF Schedule, ScheduleRender, Suspend, localVars, remoteVars, sleepVars
<1>2. \E p \in {"enqueue", "push"}, g \in Queues \cup {None} :
        /\ pc' = [pc EXCEPT ![t] = p] /\ target' = [target EXCEPT ![t] = g]
        /\ p = "enqueue" => (t \in Workers /\ g = t) \/ (g = Renderer /\ c \in RenderCoros)
  BY Domains DEF Schedule, ScheduleRender, Goto
<1>3. PICK p \in {"enqueue", "push"}, g \in Queues \cup {None} :
        /\ pc' = [pc EXCEPT ![t] = p] /\ target' = [target EXCEPT ![t] = g]
        /\ p = "enqueue" => (t \in Workers /\ g = t) \/ (g = Renderer /\ c \in RenderCoros)
  BY <1>2
<1>4. /\ pc'[t] = p /\ target'[t] = g /\ oper'[t] = c
      /\ \A u \in Threads \ {t} : /\ pc'[u] = pc[u] /\ target'[u] = target[u]
                                  /\ oper'[u] = oper[u] /\ cur'[u] = cur[u]
      /\ cur'[t] = None \/ cur'[t] = cur[t]
  BY <1>0, <1>1, <1>3 DEF TypeOK
<1>5. hops[c] \in Nat /\ hops'[c] = hops[c] + 1
      /\ \A d \in Coros \ {c} : hops'[d] = hops[d]
  BY <1>0, <1>1, SizesAssumption DEF TypeOK
<1>6. TypeOK'
  <2>1. hops' \in [Coros -> 0 .. MaxHops]
    BY <1>0, <1>1, SizesAssumption DEF TypeOK
  <2>2. /\ pc' \in [Threads -> Enqueuing \cup Popping \cup {"code", "wake"}]
        /\ target' \in [Threads -> Queues \cup {None}]
        /\ cur' \in [Threads -> Coros \cup {None}]
        /\ oper' \in [Threads -> Coros \cup {None}]
    BY <1>0, <1>1, <1>3 DEF TypeOK, Enqueuing
  <2> QED BY <1>0, <1>1, <2>1, <2>2 DEF TypeOK
<1>7. ThreadInv'
  <2>1. ThreadOK(t)'
    BY <1>0, <1>3, <1>4, Domains DEF ThreadOK, LocalPlaces, Writing, Enqueuing, Popping
  <2> QED BY <1>0, <1>1, <1>4, <2>1, OthersKept
<1>8. /\ pc[t] \notin Enqueuing /\ pc'[t] \in Enqueuing
      /\ AloneInv' /\ Tracked' = Tracked
  <2>1. InRenderQueue(t)' => InRenderQueue(t)
    BY <1>4 DEF InRenderQueue
  <2>2. AloneInv' /\ Tracked' = Tracked
    BY <1>0, <1>1, <1>4, <2>1, AloneKept, TrackedFacts
  <2> QED BY <1>1, <1>4, <2>2 DEF Enqueuing
\* It ran here, or nowhere
<1>9. \/ /\ cur[t] = c /\ cur'[t] = None /\ Running(c)
         /\ c \in Tracked => ~ Entering(c) /\ hops[c] > 0 /\ c \notin ended
      \/ /\ hops[c] = 0 /\ cur' = cur
         /\ c \in Tracked => /\ c \notin ended /\ ~ Running(c) /\ ~ Entering(c)
                             /\ ~ InLocal(c) /\ ~ InRemote(c)
  <2>1. CASE c = cur[t] /\ cur' = [cur EXCEPT ![t] = None]
    BY <1>0, <2>1 DEF Running, PartInv, TypeOK
  <2>2. CASE hops[c] = 0 /\ cur' = cur
    BY <1>0, <2>2 DEF PartInv
  <2> QED BY <1>1, <2>1, <2>2
<1>10. EnterOnce' /\ \A d : Entering(d)' <=> Entering(d) \/ d = c
  BY <1>0, <1>4, <1>8, <1>9, EnterNew DEF OnceInv
<1>11. SlotInv' /\ \A d : InLocal(d)' <=> InLocal(d)
  <2>1. slots'[Renderer] \in Seq(RenderCoros \cup {None})
    BY <1>0, <1>1 DEF SlotInv
  <2> QED BY <1>0, <1>1, <2>1, SlotsKept
<1>12. RunOnce' /\ \A d \in Tracked : Running(d)' <=> Running(d) /\ d # c
  <2>1. CASE cur[t] = c /\ cur'[t] = None
    BY <1>0, <1>4, <1>8, <2>1, RunLeave, Domains DEF OnceInv
  <2>2. CASE cur' = cur /\ (c \in Tracked => ~ Running(c))
    BY <1>0, <1>8, <2>2, RunKept DEF OnceInv
  <2> QED BY <1>9, <2>1, <2>2
<1>13. Alone(RemoteOrder, Tracked)' /\ \A d : InRemote(d)' <=> InRemote(d)
  BY <1>0, <1>1, <1>8, OrderKept DEF remoteVars, OnceInv
<1>14. PartInv'
  <2> SUFFICES ASSUME NEW d \in Tracked
      PROVE  /\ ~ (InLocal(d)' /\ InRemote(d)') /\ ~ (InLocal(d)' /\ Entering(d)')
             /\ ~ (InLocal(d)' /\ Running(d)') /\ ~ (InRemote(d)' /\ Entering(d)')
             /\ ~ (InRemote(d)' /\ Running(d)') /\ ~ (Entering(d)' /\ Running(d)')
             /\ (InLocal(d)' \/ InRemote(d)' \/ Entering(d)' \/ Running(d)')
                  <=> hops'[d] > 0 /\ d \notin ended'
             /\ d \in ended' => hops'[d] > 0
    BY <1>8 DEF PartInv
  <2>1. CASE d = c
    <3>1. hops'[c] > 0
      BY <1>5
    <3> QED BY <1>0, <1>1, <1>9, <1>10, <1>11, <1>12, <1>13, <2>1, <3>1 DEF PartInv
  <2>2. CASE d # c
    <3>1. d \in Coros /\ hops'[d] = hops[d]
      BY <1>5, <2>2, TrackedFacts
    <3> QED BY <1>0, <1>1, <1>10, <1>11, <1>12, <1>13, <2>2, <3>1 DEF PartInv
  <2> QED BY <2>1, <2>2
<1> QED BY <1>6, <1>7, <1>8, <1>10, <1>11, <1>12, <1>13, <1>14 DEF IInv, OnceInv

LEMMA NextIInv == IInv /\ [Next]_vars => IInv'
<1> SUFFICES ASSUME IInv, [Next]_vars PROVE IInv'
  OBVIOUS
<1>1. CASE UNCHANGED vars
  <2>1. UNCHANGED <<slots, head, remote, taken, sleeping, event, hops, ended, pc, cur,
                    oper, target, seen, scan, contended>>
    BY <1>1 DEF vars, localVars, remoteVars, sleepVars, coroVars, operVars
  <2>2. TypeOK' /\ AloneInv' /\ SlotInv'
    BY <2>1 DEF IInv, TypeOK, AloneInv, InRenderQueue, SlotInv, Sound, Tracked
  <2>4. ThreadInv'
    BY <2>1 DEF IInv, ThreadInv, ThreadOK, Sound, Fits, Mask
  <2>3. OnceInv' /\ PartInv'
    BY <2>1 DEF IInv, OnceInv, Alone, EnterOnce, RunOnce, PartInv, InLocal, InRemote,
                Entering, Running, RemoteOrder, Tracked
  <2> QED BY <2>2, <2>3, <2>4 DEF IInv
<1>2. ASSUME NEW t \in Threads, Step(t) PROVE IInv'
  <2>1. ASSUME t \in Queues, GetRemote(t) PROVE IInv'
    BY <2>1, GetRemoteStep, WaitingSteps
  <2>2. ASSUME t \in Queues, PopHead(t) \/ AnnounceSleep(t) \/ Woken(t) PROVE IInv'
    BY <2>2, WaitingSteps
  <2>3. ASSUME t \in Queues, TakeLocal(t) PROVE IInv'
    BY <2>3, TakeLocalStep
  <2> QED BY <1>2, <2>1, <2>2, <2>3, ReadHeadStep, StoreStep, PublishStep, GrowStep,
             RemoteEnqueueStep, WakeStep DEF Step
<1>3. ASSUME NEW t \in Threads, Code(t) PROVE IInv'
  BY <1>3, AwaitStep, EndStep DEF Code
<1> QED BY <1>1, <1>2, <1>3 DEF Next

\* What the invariant says of one coroutine
LEMMA InvariantPlaces == IInv => OnePlace
<1> SUFFICES ASSUME IInv, NEW c \in Tracked
             PROVE  IF hops[c] > 0 /\ c \notin ended
                    THEN \E h \in Holders(c) : Holders(c) = {h}
                    ELSE Holders(c) = {}
  BY DEF OnePlace, IInv
<1>0. TypeOK /\ SlotInv /\ OnceInv /\ PartInv /\ c \in Coros /\ c # None
  BY TrackedFacts DEF IInv
<1> DEFINE Loc == {<<"local", q, i>> : q \in {p \in Queues : Queued(p, c) # {}},
                                       i \in UNION {Queued(p, c) : p \in Queues}}
           Rem == {<<"remote", i>> : i \in {j \in DOMAIN remote : remote[j] = c}}
           Tak == {<<"taken", i>> : i \in {j \in DOMAIN taken : taken[j] = c}}
           Ent == {<<"enqueuing", t>> :
                     t \in {u \in Threads : oper[u] = c /\ pc[u] \in Enqueuing}}
           Run == {<<"running", t>> : t \in {u \in Threads : cur[u] = c}}
<1>1. Holders(c) = Loc \cup Rem \cup Tak \cup Ent \cup Run
  BY DEF Holders
<1>2. IF InLocal(c) THEN \E h : Loc = {h} ELSE Loc = {}
  <2>1. \A q \in Queues : \A i :
          i \in Queued(q, c) <=> i \in 1 .. head[q] /\ slots[q][i] = c
    BY DEF Queued
  <2>2. CASE InLocal(c)
    <3>1. PICK q \in Queues : \E i \in 1 .. head[q] : slots[q][i] = c
      BY <2>2 DEF InLocal
    <3>5. PICK i \in 1 .. head[q] : slots[q][i] = c
      BY <3>1
    <3>2. \A p \in Queues : \A j : j \in Queued(p, c) <=> p = q /\ j = i
      BY <1>0, <2>1, <3>5 DEF SlotInv
    <3>3. {p \in Queues : Queued(p, c) # {}} = {q}
          /\ UNION {Queued(p, c) : p \in Queues} = {i}
      BY <3>2
    <3>4. Loc = {<<"local", q, i>>}
      BY <3>3
    <3> HIDE DEF Loc
    <3> QED BY <2>2, <3>4
  <2>3. CASE ~ InLocal(c)
    <3>1. \A q \in Queues : Queued(q, c) = {}
      BY <2>1, <2>3 DEF InLocal
    <3>2. {p \in Queues : Queued(p, c) # {}} = {}
      BY <3>1
    <3>3. Loc = {}
      BY <3>2
    <3> QED BY <2>3, <3>3
  <2> QED BY <2>2, <2>3
<1>3. IF Entering(c) THEN \E h : Ent = {h} ELSE Ent = {}
  <2>1. CASE Entering(c)
    <3>1. PICK t \in Threads : pc[t] \in Enqueuing /\ oper[t] = c
      BY <2>1 DEF Entering
    <3>2. {u \in Threads : oper[u] = c /\ pc[u] \in Enqueuing} = {t}
      BY <1>0, <3>1 DEF OnceInv, EnterOnce
    <3>3. Ent = {<<"enqueuing", t>>}
      BY <3>2
    <3> QED BY <2>1, <3>3
  <2>2. CASE ~ Entering(c)
    BY <2>2 DEF Entering
  <2> QED BY <2>1, <2>2
<1>4. IF Running(c) THEN \E h : Run = {h} ELSE Run = {}
  <2>1. CASE Running(c)
    <3>1. PICK t \in Threads : cur[t] = c
      BY <2>1 DEF Running
    <3>2. {u \in Threads : cur[u] = c} = {t}
      BY <1>0, <3>1 DEF OnceInv, RunOnce
    <3>3. Run = {<<"running", t>>}
      BY <3>2
    <3> QED BY <2>1, <3>3
  <2>2. CASE ~ Running(c)
    BY <2>2 DEF Running
  <2> QED BY <2>1, <2>2
\* The two lists are parts of one queue
<1>5. IF InRemote(c) THEN \E h : Rem \cup Tak = {h} ELSE Rem \cup Tak = {}
  <2>1. PICK m \in Nat : m = Len(taken)
    BY <1>0 DEF TypeOK
  <2>2. PICK n \in Nat : n = Len(remote)
    BY <1>0 DEF TypeOK
  <2>3. PICK r \in Seq(Coros) : r = RemoteOrder
    BY <1>0, OrderFacts DEF TypeOK, RemoteOrder, Order
  <2>4. /\ DOMAIN taken = 1 .. m /\ DOMAIN remote = 1 .. n /\ DOMAIN r = 1 .. m + n
        /\ \A i \in 1 .. m : r[i] = taken[i]
        /\ \A j \in 1 .. n : r[m + j] = remote[(n - j) + 1]
    <3>1. remote \in Seq(Coros) /\ taken \in Seq(Coros)
      BY <1>0 DEF TypeOK
    <3>2. /\ Len(r) = m + n /\ \A i \in 1 .. m : r[i] = taken[i]
          /\ \A j \in 1 .. n : r[m + j] = remote[(n - j) + 1]
      BY <2>1, <2>2, <2>3, <3>1, OrderFacts DEF RemoteOrder, Order
    <3> QED BY <2>1, <2>2, <3>1, <3>2, LenProperties
  <2>5. \A k \in 1 .. n : \E j \in 1 .. n : k = (n - j) + 1
    <3> SUFFICES ASSUME NEW k \in 1 .. n PROVE \E j \in 1 .. n : k = (n - j) + 1
      OBVIOUS
    <3>1. (n - k) + 1 \in 1 .. n /\ k = (n - ((n - k) + 1)) + 1
      OBVIOUS
    <3> QED BY <3>1
  <2>6. \A i \in 1 .. m : i \in 1 .. m + n
    OBVIOUS
  <2>7. \A j \in 1 .. n : m + j \in 1 .. m + n
    OBVIOUS
  <2>8. \A i \in 1 .. m + n : i \in 1 .. m \/ \E j \in 1 .. n : i = m + j
    <3> SUFFICES ASSUME NEW i \in 1 .. m + n, i \notin 1 .. m
                 PROVE  \E j \in 1 .. n : i = m + j
      OBVIOUS
    <3>1. i - m \in 1 .. n /\ i = m + (i - m)
      OBVIOUS
    <3> QED BY <3>1
  <2>9. \A i, k \in 1 .. m + n : r[i] = c /\ r[k] = c => i = k
    BY <1>0, <2>3, <2>4 DEF OnceInv, Alone
  <2>10. CASE InRemote(c)
    <3>1. PICK i \in 1 .. m + n : r[i] = c
      BY <2>3, <2>4, <2>10, Zenon DEF InRemote, ToSet
    <3>2. CASE i \in 1 .. m
      <4>1. {j \in DOMAIN taken : taken[j] = c} = {i}
        BY <2>4, <2>6, <2>9, <3>1, <3>2
      <4>2. ASSUME NEW j \in 1 .. n, remote[(n - j) + 1] = c PROVE FALSE
        <5>1. r[m + j] = c /\ m + j \in 1 .. m + n
          BY <2>4, <2>7, <4>2
        <5>2. m + j = i
          BY <2>9, <3>1, <5>1
        <5> QED BY <3>2, <5>2
      <4>3. {j \in DOMAIN remote : remote[j] = c} = {}
        BY <2>4, <2>5, <4>2
      <4>4. Tak = {<<"taken", i>>} /\ Rem = {}
        BY <4>1, <4>3
      <4>5. Rem \cup Tak = {<<"taken", i>>}
        BY <4>4
      <4> QED BY <2>10, <4>5
    <3>3. CASE i \notin 1 .. m
      <4>1. PICK j \in 1 .. n : i = m + j
        BY <2>8, <3>3
      <4>2. PICK k \in 1 .. n : k = (n - j) + 1
        OBVIOUS
      <4>3. remote[k] = c
        BY <2>4, <3>1, <4>1, <4>2
      <4>4. ASSUME NEW l \in 1 .. n, remote[l] = c PROVE l = k
        <5>1. PICK b \in 1 .. n : l = (n - b) + 1
          BY <2>5
        <5>2. r[m + b] = c /\ m + b \in 1 .. m + n
          BY <2>4, <2>7, <4>4, <5>1
        <5>3. m + b = i
          BY <2>9, <3>1, <5>2
        <5> QED BY <4>1, <4>2, <5>1, <5>3
      <4>5. {l \in DOMAIN remote : remote[l] = c} = {k}
        BY <2>4, <4>3, <4>4
      <4>6. \A l \in 1 .. m : taken[l] # c
        BY <2>4, <2>6, <2>9, <3>1, <3>3
      <4>7. {l \in DOMAIN taken : taken[l] = c} = {}
        BY <2>4, <4>6
      <4>8. Rem = {<<"remote", k>>} /\ Tak = {}
        BY <4>5, <4>7
      <4>9. Rem \cup Tak = {<<"remote", k>>}
        BY <4>8
      <4> QED BY <2>10, <4>9
    <3> QED BY <3>2, <3>3
  <2>11. CASE ~ InRemote(c)
    <3>1. \A i \in 1 .. m + n : r[i] # c
      BY <2>3, <2>4, <2>11, Zenon DEF InRemote, ToSet
    <3>2. \A i \in 1 .. m : taken[i] # c
      BY <2>4, <2>6, <3>1
    <3>3. ASSUME NEW k \in 1 .. n, remote[k] = c PROVE FALSE
      <4>1. PICK j \in 1 .. n : k = (n - j) + 1
        BY <2>5
      <4>2. r[m + j] = c /\ m + j \in 1 .. m + n
        BY <2>4, <2>7, <3>3, <4>1
      <4> QED BY <3>1, <4>2
    <3>4. {j \in DOMAIN taken : taken[j] = c} = {}
                                /\ {j \in DOMAIN remote : remote[j] = c} = {}
      BY <2>4, <3>2, <3>3
    <3>5. Rem = {} /\ Tak = {}
      BY <3>4
    <3> QED BY <2>11, <3>5
  <2> QED BY <2>10, <2>11
<1> HIDE DEF Loc, Rem, Tak, Ent, Run
<1>6. CASE hops[c] > 0 /\ c \notin ended
  <2>1. \E h : Holders(c) = {h}
    BY <1>0, <1>1, <1>2, <1>3, <1>4, <1>5, <1>6 DEF PartInv
  <2> QED BY <1>6, <2>1
<1>7. CASE ~ (hops[c] > 0 /\ c \notin ended)
  BY <1>0, <1>1, <1>2, <1>3, <1>4, <1>5, <1>7 DEF PartInv
<1> QED BY <1>6, <1>7

\* At most one coroutine awaits schedule_render()
OneRender == \A c, d \in RenderCoros : c = d

(* Two threads are in the render thread's queue at once only if two coroutines *)
(* await schedule_render(): one would be in two places.                      *)
LEMMA NeverContended ==
  OneRender /\ IInv /\ ~ contended /\ [Next]_vars => ~ contended'
<1> SUFFICES ASSUME OneRender, IInv, ~ contended, [Next]_vars, contended' PROVE FALSE
  OBVIOUS
<1>0. /\ TypeOK /\ ThreadInv /\ SlotInv /\ EnterOnce /\ PartInv
      /\ Tracked = Coros /\ Sound(Renderer)
  BY TrackedFacts DEF IInv, OnceInv, Sound
<1>1. RenderCoros \subseteq Coros
  BY SizesAssumption
\* A coroutine that enters the queue is not in it
<1>2. ASSUME NEW t \in Threads, pc[t] \in LocalPlaces, target[t] = Renderer
      PROVE  /\ oper[t] \in RenderCoros /\ Entering(oper[t]) /\ head[Renderer] = 0
             /\ \A u \in Threads \ {t} : ~ InRenderQueue(u)
  <2>1. oper[t] \in RenderCoros /\ pc[t] \in Enqueuing
    BY <1>0, <1>2, Domains DEF ThreadInv, ThreadOK
  <2>2. Entering(oper[t])
    BY <2>1 DEF Entering
  <2>3. head[Renderer] = 0
    <3> SUFFICES ASSUME head[Renderer] # 0 PROVE FALSE
      OBVIOUS
    <3>1. 1 \in 1 .. head[Renderer]
      BY <1>0, Domains DEF TypeOK
    <3>2. PICK n \in Nat : n = Len(slots[Renderer]) /\ head[Renderer] < n
      BY <1>0, LenProperties, Domains DEF SlotInv, TypeOK
    <3>3. 1 \in 1 .. n
      BY <1>0, <3>1, <3>2, Domains DEF TypeOK
    <3>4. slots[Renderer][1] \in RenderCoros
      BY <1>0, <3>1, <3>2, <3>3, ElementOfSeq, Domains DEF SlotInv
    <3>5. slots[Renderer][1] = oper[t]
      BY <2>1, <3>4 DEF OneRender
    <3>6. InLocal(oper[t])
      BY <3>1, <3>5, Domains DEF InLocal
    <3> QED BY <1>0, <1>1, <2>1, <2>2, <3>6 DEF PartInv
  <2>4. ASSUME NEW u \in Threads \ {t}, InRenderQueue(u) PROVE FALSE
    <3>1. CASE u = Renderer /\ pc[u] = "take"
      BY <1>0, <2>3, <3>1 DEF ThreadInv, ThreadOK
    <3>2. CASE pc[u] \in Writing /\ target[u] = Renderer
      <4>1. oper[u] \in RenderCoros /\ pc[u] \in Enqueuing
        BY <1>0, <3>2, Domains DEF ThreadInv, ThreadOK
      <4>2. oper[u] = oper[t]
        BY <2>1, <4>1 DEF OneRender
      <4> QED BY <1>0, <1>1, <2>1, <4>1, <4>2 DEF EnterOnce
    <3> QED BY <2>4, <3>1, <3>2 DEF InRenderQueue, Writing
  <2> QED BY <2>1, <2>2, <2>3, <2>4
<1>3. \E t \in Threads :
        \/ ReadHead(t) /\ target[t] = Renderer
        \/ PopHead(t) /\ t = Renderer /\ ~ NothingQueued(head[t])
  <2>1. ASSUME UNCHANGED vars PROVE ~ contended'
    BY <2>1 DEF vars
  <2>2. PICK t \in Threads : Step(t) \/ Code(t)
    BY <2>1 DEF Next
  <2>3. ASSUME Store(t) \/ Publish(t) \/ Grow(t) \/ RemoteEnqueue(t) \/ TryWakeUp(t)
        PROVE  ~ contended'
    BY <2>3 DEF Store, Publish, Grow, RemoteEnqueue, TryWakeUp
  <2>4. ASSUME TakeLocal(t) \/ GetRemote(t) \/ AnnounceSleep(t) \/ Woken(t) \/ End(t)
        PROVE  ~ contended'
    BY <2>4 DEF TakeLocal, GetRemote, AnnounceSleep, Woken, End
  <2>5. ASSUME NEW c \in Coros, Schedule(t, c) \/ ScheduleRender(t, c) PROVE ~ contended'
    BY <2>5 DEF Schedule, ScheduleRender, Suspend
  <2>6. ReadHead(t) \/ PopHead(t)
    BY <2>2, <2>3, <2>4, <2>5 DEF Step, Code
  <2>7. ASSUME ReadHead(t) PROVE target[t] = Renderer
    <3>1. Notice(t, target[t])
      BY <2>7 DEF ReadHead
    <3> QED BY <3>1, Zenon DEF Notice
  <2>8. ASSUME PopHead(t) PROVE ~ NothingQueued(head[t]) /\ t = Renderer
    <3>1. ASSUME NothingQueued(head[t]) PROVE ~ contended'
      BY <2>8, <3>1 DEF PopHead
    <3>2. ~ NothingQueued(head[t])
      BY <3>1
    <3>3. Notice(t, t)
      BY <2>8, <3>2 DEF PopHead
    <3> QED BY <3>2, <3>3, Zenon DEF Notice
  <2> QED BY <2>2, <2>6, <2>7, <2>8
<1>4. PICK t \in Threads :
        \/ ReadHead(t) /\ target[t] = Renderer
        \/ PopHead(t) /\ t = Renderer /\ ~ NothingQueued(head[t])
  BY <1>3
<1>5. \E u \in Threads \ {t} : InRenderQueue(u)
  BY <1>4 DEF ReadHead, PopHead, Notice
<1>6. CASE ReadHead(t) /\ target[t] = Renderer
  BY <1>2, <1>5, <1>6 DEF ReadHead, LocalPlaces
<1>7. CASE PopHead(t) /\ t = Renderer /\ ~ NothingQueued(head[t])
  <2>1. PICK u \in Threads \ {t} : InRenderQueue(u)
    BY <1>5
  <2>2. pc[u] \in LocalPlaces /\ target[u] = Renderer
    BY <1>7, <2>1 DEF InRenderQueue, LocalPlaces
  <2>3. head[Renderer] = 0
    BY <1>2, <2>2
  <2> QED BY <1>7, <2>3 DEF NothingQueued
<1> QED BY <1>4, <1>6, <1>7

(* From its first co_await to its end a coroutine is in one place only, whatever *)
(* threads push and pop: one that awaits schedule_render() until two threads   *)
(* are in the unlocked queue of the render thread at once, another for ever.   *)
THEOREM CoroutineInOnePlace == Spec => []OnePlace
<1>1. Init => IInv
  BY InitIInv
<1>2. IInv /\ [Next]_vars => IInv'
  BY NextIInv
<1>3. IInv => OnePlace
  BY InvariantPlaces
<1> QED BY <1>1, <1>2, <1>3, PTL DEF Spec

(* Two threads never are, if at most one coroutine awaits schedule_render():    *)
(* then every coroutine is in one place for ever.                            *)
THEOREM OneRenderNeverContends == OneRender => (Spec => [](~ contended))
<1> SUFFICES ASSUME OneRender PROVE Spec => [](~ contended)
  OBVIOUS
<1>1. Init => IInv /\ ~ contended
  BY InitIInv DEF Init
<1>2. IInv /\ ~ contended /\ [Next]_vars => IInv' /\ ~ contended'
  BY NextIInv, NeverContended
<1> QED BY <1>1, <1>2, PTL DEF Spec
=============================================================================
