--------------------------- MODULE IOSchedulerProofs ---------------------------
(***************************************************************************)
(* Theorems about IOScheduler, for any number of threads and coroutines.    *)
(***************************************************************************)
EXTENDS IOScheduler, SequenceTheorems, TLAPS

(* What a thread holds at each place of its code.                           *)
ThreadInv ==
  \A t \in Threads :
    /\ pc[t] # "code" => cur[t] = None
    /\ IF pc[t] \in {"push", "started"} THEN oper[t] \in Coros ELSE oper[t] = None
    /\ IF pc[t] = "started" THEN error[t] \in Outcomes \cup {"pending"}
                            ELSE error[t] = None
    /\ t \in IOThreads /\ pc[t] \notin {"repost", "putback"} => rest[t] = <<>>
    /\ t \in Clients => pc[t] \in {"code", "push", "started"}

(* An event is of one file operation, or was posted for one coroutine and     *)
(* names none.                                                              *)
PortInv ==
  \A i \in 1 .. Len(port) :
    \/ port[i].of \in Coros /\ port[i].for = None
    \/ port[i].of = None /\ port[i].key = None /\ port[i].for \in Coros

\* The places of a coroutine, each with its kind, its thread and its index
At(c, k, t, i) ==
  \/ k = "running" /\ t \in Threads /\ i = 0 /\ cur[t] = c
  \/ k = "starting" /\ t \in Threads /\ i = 0 /\ oper[t] = c /\ error[t] # "pending"
  \/ k = "kernel" /\ t = None /\ i = 0 /\ c \in kernel
  \/ k = "port" /\ t = None /\ i \in 1 .. Len(port) /\ c \in {port[i].of, port[i].for}
  \/ k = "overflow" /\ t = None /\ i \in 1 .. Len(overflow) /\ overflow[i] = c
  \/ k = "rest" /\ t \in IOThreads /\ i \in 1 .. Len(rest[t]) /\ rest[t][i] = c
  \/ k = "dropped" /\ t = None /\ i = 0 /\ c \in dropped

(* A coroutine is at one place from its first await to its end, where it can  *)
(* only run before it and is nowhere afterwards.                            *)
PlaceOf(c) ==
  /\ \A k, t, i, l, u, j : At(c, k, t, i) /\ At(c, l, u, j) => k = l /\ t = u /\ i = j
  /\ awaits[c] > 0 /\ c \notin ended => \E k, t, i : At(c, k, t, i)
  /\ c \in ended => \A k, t, i : ~ At(c, k, t, i)
  /\ awaits[c] = 0 => \A k, t, i : At(c, k, t, i) => k = "running"

PlaceInv == \A c \in Coros : PlaceOf(c)

(* The result a coroutine reads is its own: what the starter is about to      *)
(* store is how the operation ended, and nothing is stored before one began.  *)
ResultInv ==
  /\ ResultsOwn
  /\ \A t \in Threads :
       pc[t] = "started" /\ error[t] # "pending" => error[t] = outcome[oper[t]]
  /\ \A t \in Threads : oper[t] # None => awaits[oper[t]] > 0
  /\ \A c \in Coros : awaits[c] = 0 => result[c] = "none" /\ outcome[c] = "none"

IInv == TypeOK /\ ThreadInv /\ PortInv /\ PlaceInv /\ ResultInv

CtlInv == TypeOK /\ ThreadInv /\ PortInv

LEMMA InitIInv == Init => IInv
<1> SUFFICES ASSUME Init PROVE IInv
  OBVIOUS
<1> USE CorosAssumption DEF Init, Outside, Threads
<1>1. TypeOK
  BY DEF TypeOK
<1>2. ThreadInv
  <2> SUFFICES ASSUME NEW t \in Threads
               PROVE  /\ pc[t] = Outside(t) /\ cur[t] = None /\ oper[t] = None
                      /\ error[t] = None /\ (t \in IOThreads => rest[t] = <<>>)
    BY DEF ThreadInv
  <2> QED OBVIOUS
<1>2a. PortInv
  BY DEF PortInv
<1>3. \A c \in Coros : \A k, t, i : ~ At(c, k, t, i)
  BY DEF At
<1>4. PlaceInv
  <2> SUFFICES ASSUME NEW c \in Coros PROVE PlaceOf(c)
    BY DEF PlaceInv
  <2> QED BY <1>3 DEF PlaceOf
<1>5. ResultInv
  BY DEF ResultInv, ResultsOwn
<1> QED BY <1>1, <1>2, <1>2a, <1>4, <1>5 DEF IInv
-----------------------------------------------------------------------------
(* Types and places of threads *)

Events == [of : Coros \cup {None}, key : Coros \cup {None}, for : Coros \cup {None}]

LEMMA EventFacts ==
  ASSUME NEW c \in Coros
  PROVE  /\ Completion(c) \in Events /\ Completion(c).of = c
         /\ Completion(c).for = None /\ Completion(c).key = None
         /\ Posted(c, Continuation(c)) \in Events
         /\ Posted(c, Continuation(c)).of = None
         /\ Posted(c, Continuation(c)).key = None
         /\ Posted(c, Continuation(c)).for = c
BY DEF Completion, Posted, Continuation, Events

\* An event comes to the port
LEMMA PortAppend ==
  ASSUME TypeOK, PortInv, NEW c \in Coros,
         NEW e \in {Completion(c), Posted(c, Continuation(c))},
         port' = Append(port, e)
  PROVE  /\ port' \in Seq(Events) /\ PortInv'
         /\ Len(port) \in Nat /\ Len(port') = Len(port) + 1
         /\ port'[Len(port) + 1] = e
         /\ \A i \in 1 .. Len(port) : port'[i] = port[i]
<1>1. port \in Seq(Events) /\ e \in Events
  BY EventFacts DEF TypeOK, Events
<1>2. /\ port' \in Seq(Events) /\ Len(port) \in Nat /\ Len(port') = Len(port) + 1
      /\ port'[Len(port) + 1] = e
      /\ \A i \in 1 .. Len(port) : port'[i] = port[i]
  BY <1>1, AppendProperties, LenProperties
<1>3. PortInv'
  BY <1>2, EventFacts DEF PortInv
<1> QED BY <1>2, <1>3

LEMMA PortTail ==
  ASSUME TypeOK, PortInv, port # <<>>, port' = Tail(port)
  PROVE  /\ port' \in Seq(Events) /\ PortInv' /\ Head(port) \in Events
         /\ Len(port) \in Nat /\ Len(port) > 0 /\ Len(port') = Len(port) - 1
         /\ Head(port) = port[1] /\ 1 \in 1 .. Len(port)
         /\ \A i \in 1 .. Len(port) - 1 : port'[i] = port[i + 1]
<1>1. port \in Seq(Events)
  BY DEF TypeOK, Events
<1>2. /\ port' \in Seq(Events) /\ Head(port) \in Events
      /\ Len(port) \in Nat /\ Len(port) > 0 /\ Len(port') = Len(port) - 1
      /\ Head(port) = port[1] /\ 1 \in 1 .. Len(port)
      /\ \A i \in 1 .. Len(port) - 1 : port'[i] = port[i + 1]
  BY <1>1
<1>3. \A i \in 1 .. Len(port) - 1 : i + 1 \in 1 .. Len(port)
  BY <1>2
<1>4. PortInv'
  BY <1>2, <1>3 DEF PortInv
<1> QED BY <1>2, <1>4

LEMMA LeaveFacts ==
  ASSUME TypeOK, NEW t \in Threads, Leave(t)
  PROVE  /\ cur' \in [Threads -> Coros \cup {None}]
         /\ oper' \in [Threads -> Coros \cup {None}]
         /\ error' \in [Threads -> Outcomes \cup {"pending", None}]
         /\ pc' \in [Threads -> {"code", "push", "started", "drain", "repost", "putback",
                                 "wait"}]
         /\ cur'[t] = None /\ oper'[t] = None /\ error'[t] = None /\ pc'[t] = Outside(t)
         /\ \A u \in Threads \ {t} : /\ cur'[u] = cur[u] /\ oper'[u] = oper[u]
                                    /\ error'[u] = error[u] /\ pc'[u] = pc[u]
BY DEF Leave, Goto, Outside, TypeOK

\* Whatever t does, only its own entries change
LEMMA OneThread ==
  ASSUME ThreadInv, NEW t \in Threads,
         \A u \in Threads \ {t} : /\ cur'[u] = cur[u] /\ oper'[u] = oper[u]
                                 /\ error'[u] = error[u] /\ pc'[u] = pc[u],
         \A u \in IOThreads \ {t} : rest'[u] = rest[u],
         /\ pc'[t] # "code" => cur'[t] = None
         /\ IF pc'[t] \in {"push", "started"} THEN oper'[t] \in Coros ELSE oper'[t] = None
         /\ IF pc'[t] = "started" THEN error'[t] \in Outcomes \cup {"pending"}
                                  ELSE error'[t] = None
         /\ t \in IOThreads /\ pc'[t] \notin {"repost", "putback"} => rest'[t] = <<>>
         /\ t \in Clients => pc'[t] \in {"code", "push", "started"}
  PROVE  ThreadInv'
BY DEF ThreadInv

LEMMA CodeType ==
  ASSUME CtlInv, NEW t \in Threads,
         \/ \E c \in Coros : Begin(t, c)
         \/ End(t) \/ Schedule(t) \/ StartFileOperation(t) \/ ReturnFromStart(t)
         \/ PushOverflow(t)
  PROVE  CtlInv'
<1> USE CorosAssumption DEF CtlInv
<1>0. /\ cur \in [Threads -> Coros \cup {None}] /\ oper \in [Threads -> Coros \cup {None}]
      /\ error \in [Threads -> Outcomes \cup {"pending", None}]
      /\ pc \in [Threads -> {"code", "push", "started", "drain", "repost",
                            "putback", "wait"}]
      /\ awaits \in [Coros -> 0 .. MaxAwaits] /\ rest \in [IOThreads -> Seq(Coros)]
      /\ port \in Seq(Events) /\ overflow \in Seq(Coros) /\ MaxAwaits \in Nat
  BY DEF TypeOK, Events
<1>1. CASE \E c \in Coros : Begin(t, c)
  <2> PICK c \in Coros : Begin(t, c)
    BY <1>1
  <2>1. TypeOK'
    BY DEF Begin, kernelVars, listVars, coroVars, TypeOK
  <2>2. PortInv'
    BY DEF Begin, PortInv
  <2>3. ThreadInv'
    BY <1>0 DEF Begin, kernelVars, listVars, coroVars, ThreadInv
  <2> QED BY <2>1, <2>2, <2>3
<1>2. CASE End(t)
  <2> USE <1>2 DEF End
  <2>1. PortInv'
    BY DEF PortInv
  <2>2. ThreadInv'
    BY LeaveFacts, OneThread DEF listVars, ThreadInv, Outside, Threads
  <2>3. TypeOK'
    <3>1. cur[t] \in Coros
      BY <1>0
    <3> QED BY <3>1, LeaveFacts DEF kernelVars, listVars, TypeOK
  <2> QED BY <2>1, <2>2, <2>3
<1>3. CASE Schedule(t)
  <2>1. /\ cur[t] \in Coros /\ awaits[cur[t]] < MaxAwaits /\ pc[t] = "code"
        /\ awaits' = [awaits EXCEPT ![cur[t]] = @ + 1]
        /\ UNCHANGED <<kernel, outcome, overflow, rest, result, ended, dropped>>
    BY <1>0, <1>3 DEF Schedule, Await, kernelVars, listVars
  <2>2. awaits' \in [Coros -> 0 .. MaxAwaits]
    BY <1>0, <2>1
  <2>3. CASE Leave(t) /\ port' = Append(port, Posted(cur[t], Continuation(cur[t])))
    <3>1. PortInv' /\ port' \in Seq(Events)
      BY <2>1, <2>3, PortAppend
    <3>2. ThreadInv'
      BY <2>1, <2>3, LeaveFacts, OneThread DEF ThreadInv, Outside, Threads
    <3>3. TypeOK'
      BY <2>1, <2>2, <2>3, <3>1, LeaveFacts DEF TypeOK, Events
    <3> QED BY <3>1, <3>2, <3>3
  <2>4. CASE /\ oper' = [oper EXCEPT ![t] = cur[t]]
             /\ cur' = [cur EXCEPT ![t] = None]
             /\ Goto(t, "push") /\ UNCHANGED <<port, error>>
    <3>1. /\ oper'[t] = cur[t] /\ cur'[t] = None /\ pc'[t] = "push"
          /\ error'[t] = error[t]
          /\ \A u \in Threads \ {t} : /\ cur'[u] = cur[u] /\ oper'[u] = oper[u]
                                     /\ error'[u] = error[u] /\ pc'[u] = pc[u]
      BY <1>0, <2>4 DEF Goto
    <3>2. ThreadInv'
      BY <2>1, <3>1, OneThread DEF ThreadInv
    <3>3. PortInv'
      BY <2>4 DEF PortInv
    <3>4. TypeOK'
      BY <1>0, <2>1, <2>2, <2>4 DEF TypeOK, Goto
    <3> QED BY <3>2, <3>3, <3>4
  <2> QED BY <1>3, <2>3, <2>4 DEF Schedule
<1>4. CASE StartFileOperation(t)
  <2>1. PICK o \in Outcomes \cup {"pending"} :
        /\ cur[t] \in Coros /\ awaits[cur[t]] < MaxAwaits /\ pc[t] = "code"
        /\ awaits' = [awaits EXCEPT ![cur[t]] = @ + 1]
        /\ UNCHANGED <<port, overflow, rest, ended, dropped>>
        /\ result' = [result EXCEPT ![cur[t]] = "none"]
        /\ oper' = [oper EXCEPT ![t] = cur[t]] /\ cur' = [cur EXCEPT ![t] = None]
        /\ pc' = [pc EXCEPT ![t] = "started"]
        /\ error' = [error EXCEPT ![t] = o]
        /\ \/ o = "pending" /\ kernel' = kernel \cup {cur[t]} /\ UNCHANGED outcome
           \/ o \in Outcomes /\ outcome' = [outcome EXCEPT ![cur[t]] = o]
              /\ UNCHANGED kernel
    BY <1>0, <1>4 DEF StartFileOperation, Await, listVars, EventAtOnce, Goto
  <2>2. /\ oper'[t] = cur[t] /\ cur'[t] = None /\ pc'[t] = "started" /\ error'[t] = o
        /\ \A u \in Threads \ {t} : /\ cur'[u] = cur[u] /\ oper'[u] = oper[u]
                                   /\ error'[u] = error[u] /\ pc'[u] = pc[u]
    BY <1>0, <2>1
  <2>3. ThreadInv'
    BY <2>1, <2>2, OneThread DEF ThreadInv
  <2>4. PortInv'
    BY <2>1 DEF PortInv
  <2>5. TypeOK'
    BY <1>0, <2>1 DEF TypeOK
  <2> QED BY <2>3, <2>4, <2>5
<1>5. CASE ReturnFromStart(t)
  <2>1. /\ pc[t] = "started" /\ oper[t] \in Coros
        /\ error[t] \in Outcomes \cup {"pending"}
        /\ UNCHANGED <<port, kernel, outcome, overflow, rest, awaits, ended, dropped>>
        /\ result' = StoreIfAtOnce(t)
    BY <1>5 DEF ReturnFromStart, ThreadInv, kernelVars, listVars, coroVars
  <2>2. PortInv'
    BY <2>1 DEF PortInv
  <2>3. result' \in [Coros -> Outcomes \cup {"none"}]
    BY <1>0, <2>1 DEF StoreIfAtOnce, TypeOK
  <2>4. CASE Leave(t)
    <3>1. ThreadInv'
      BY <2>1, <2>4, LeaveFacts, OneThread DEF ThreadInv, Outside, Threads
    <3>2. TypeOK'
      BY <2>1, <2>3, <2>4, LeaveFacts DEF TypeOK
    <3> QED BY <2>2, <3>1, <3>2
  <2>5. CASE /\ cur' = [cur EXCEPT ![t] = oper[t]]
             /\ oper' = [oper EXCEPT ![t] = None]
             /\ error' = [error EXCEPT ![t] = None] /\ Goto(t, "code")
    <3>1. /\ oper'[t] = None /\ cur'[t] = oper[t] /\ pc'[t] = "code" /\ error'[t] = None
          /\ \A u \in Threads \ {t} : /\ cur'[u] = cur[u] /\ oper'[u] = oper[u]
                                     /\ error'[u] = error[u] /\ pc'[u] = pc[u]
      BY <1>0, <2>5 DEF Goto
    <3>2. ThreadInv'
      BY <2>1, <3>1, OneThread DEF ThreadInv
    <3>3. TypeOK'
      BY <1>0, <2>1, <2>3, <2>5 DEF TypeOK, Goto
    <3> QED BY <2>2, <3>2, <3>3
  <2> QED BY <1>5, <2>4, <2>5 DEF ReturnFromStart
<1>6. CASE PushOverflow(t)
  <2>1. /\ pc[t] = "push" /\ oper[t] \in Coros /\ Leave(t)
        /\ UNCHANGED <<port, kernel, outcome, rest, result, awaits, ended, dropped>>
        /\ overflow' = <<oper[t]>> \o overflow
    BY <1>6 DEF PushOverflow, ThreadInv, kernelVars, coroVars
  <2>2. overflow' \in Seq(Coros)
    BY <1>0, <2>1
  <2>3. ThreadInv'
    BY <2>1, LeaveFacts, OneThread DEF ThreadInv, Outside, Threads
  <2>4. PortInv'
    BY <2>1 DEF PortInv
  <2>5. TypeOK'
    BY <2>1, <2>2, LeaveFacts DEF TypeOK
  <2> QED BY <2>3, <2>4, <2>5
<1> QED BY <1>1, <1>2, <1>3, <1>4, <1>5, <1>6

LEMMA LoopType ==
  ASSUME CtlInv, NEW t \in IOThreads,
         TakeOverflow(t) \/ Repost(t) \/ PutBack(t) \/ TakeEvent(t)
  PROVE  CtlInv'
<1> USE CorosAssumption DEF CtlInv
<1>0. /\ cur \in [Threads -> Coros \cup {None}] /\ oper \in [Threads -> Coros \cup {None}]
      /\ error \in [Threads -> Outcomes \cup {"pending", None}]
      /\ pc \in [Threads -> {"code", "push", "started", "drain", "repost",
                            "putback", "wait"}]
      /\ rest \in [IOThreads -> Seq(Coros)] /\ t \in Threads /\ t \notin Clients
      /\ port \in Seq(Events) /\ overflow \in Seq(Coros)
      /\ result \in [Coros -> Outcomes \cup {"none"}]
      /\ outcome \in [Coros -> Outcomes \cup {"none"}]
  BY DEF TypeOK, Events, Threads
<1>1. CASE TakeOverflow(t)
  <2>1. /\ pc[t] = "drain" /\ pc' = [pc EXCEPT ![t] = "repost"]
        /\ rest' = [rest EXCEPT ![t] = overflow] /\ overflow' = <<>>
        /\ UNCHANGED <<port, kernel, outcome, result, cur, oper, error, awaits, ended,
                       dropped>>
    BY <1>1 DEF TakeOverflow, Goto, kernelVars, coroVars
  <2>2. ThreadInv'
    BY <1>0, <2>1, OneThread DEF ThreadInv
  <2>3. PortInv'
    BY <2>1 DEF PortInv
  <2>4. TypeOK'
    BY <1>0, <2>1 DEF TypeOK
  <2> QED BY <2>2, <2>3, <2>4
<1>2. CASE Repost(t)
  <2>1. /\ pc[t] = "repost"
        /\ UNCHANGED <<kernel, outcome, overflow, result, cur, oper, error, awaits, ended,
                      dropped>>
    BY <1>2 DEF Repost, kernelVars, coroVars
  <2>2. CASE rest[t] = <<>> /\ Goto(t, "wait") /\ UNCHANGED <<port, rest>>
    <3>1. ThreadInv'
      BY <1>0, <2>1, <2>2, OneThread DEF ThreadInv, Goto
    <3>2. PortInv'
      BY <2>2 DEF PortInv
    <3>3. TypeOK'
      BY <1>0, <2>1, <2>2 DEF TypeOK, Goto
    <3> QED BY <3>1, <3>2, <3>3
  <2>3. CASE /\ rest[t] # <<>> /\ rest' = [rest EXCEPT ![t] = Tail(@)] /\ UNCHANGED pc
             /\ port' = Append(port, Posted(Head(rest[t]), Continuation(Head(rest[t]))))
    <3>1. rest[t] \in Seq(Coros) /\ Head(rest[t]) \in Coros
          /\ Tail(rest[t]) \in Seq(Coros)
      BY <1>0, <2>3
    <3>2. PortInv' /\ port' \in Seq(Events)
      BY <2>3, <3>1, PortAppend
    <3>3. ThreadInv'
      BY <1>0, <2>1, <2>3, OneThread DEF ThreadInv
    <3>4. rest' \in [IOThreads -> Seq(Coros)]
      BY <1>0, <2>3, <3>1
    <3>5. TypeOK'
      BY <2>1, <2>3, <3>2, <3>4 DEF TypeOK, Events
    <3> QED BY <3>2, <3>3, <3>5
  <2>4. CASE rest[t] # <<>> /\ Goto(t, "putback") /\ UNCHANGED <<port, rest>>
    <3>1. ThreadInv'
      BY <1>0, <2>1, <2>4, OneThread DEF ThreadInv, Goto
    <3>2. PortInv'
      BY <2>4 DEF PortInv
    <3>3. TypeOK'
      BY <1>0, <2>1, <2>4 DEF TypeOK, Goto
    <3> QED BY <3>1, <3>2, <3>3
  <2> QED BY <1>2, <2>2, <2>3, <2>4 DEF Repost
<1>3. CASE PutBack(t)
  <2>1. /\ pc[t] = "putback" /\ pc' = [pc EXCEPT ![t] = "wait"]
        /\ rest' = [rest EXCEPT ![t] = <<>>] /\ overflow' = rest[t] \o overflow
        /\ UNCHANGED <<port, kernel, outcome, result, cur, oper, error, awaits, ended,
                       dropped>>
    BY <1>3 DEF PutBack, Goto, kernelVars, coroVars, InFront
  <2>2. ThreadInv'
    BY <1>0, <2>1, OneThread DEF ThreadInv
  <2>3. PortInv'
    BY <2>1 DEF PortInv
  <2>4. overflow' \in Seq(Coros) /\ rest' \in [IOThreads -> Seq(Coros)]
    <3>1. rest[t] \in Seq(Coros)
      BY <1>0
    <3> QED BY <1>0, <2>1, <3>1, ConcatProperties
  <2>5. TypeOK'
    BY <1>0, <2>1, <2>4 DEF TypeOK
  <2> QED BY <2>2, <2>3, <2>5
<1>4. CASE TakeEvent(t)
  <2> DEFINE e == Head(port)
             c == IF e.of # None THEN e.of ELSE e.key
  <2>1. /\ pc[t] = "wait" /\ port # <<>> /\ port' = Tail(port)
        /\ result' = IF e.of # None THEN [result EXCEPT ![c] = outcome[c]] ELSE result
        /\ cur' = [cur EXCEPT ![t] = c]
        /\ pc' = [pc EXCEPT ![t] = IF c # None THEN "code" ELSE "drain"]
        /\ dropped' = IF c # None THEN dropped ELSE dropped \cup {e.for}
        /\ UNCHANGED <<kernel, outcome, overflow, rest, oper, error, awaits, ended>>
    BY <1>4 DEF TakeEvent, Goto, kernelVars, listVars, AfterEmpty
  <2>2. /\ port' \in Seq(Events) /\ PortInv'
        /\ \/ e.of \in Coros /\ c = e.of
           \/ e.of = None /\ c = None /\ e.for \in Coros
    BY <2>1, PortTail DEF PortInv
  <2> HIDE DEF e, c
  <2>3. ThreadInv'
    BY <1>0, <2>1, <2>2, OneThread DEF ThreadInv
  <2>4. /\ cur' \in [Threads -> Coros \cup {None}] /\ dropped' \subseteq Coros
        /\ pc' \in [Threads -> {"code", "push", "started", "drain", "repost", "putback",
                                "wait"}]
        /\ result' \in [Coros -> Outcomes \cup {"none"}]
    BY <1>0, <2>1, <2>2 DEF TypeOK
  <2>5. TypeOK'
    BY <2>1, <2>2, <2>4 DEF TypeOK, Events
  <2> QED BY <2>2, <2>3, <2>5
<1> QED BY <1>1, <1>2, <1>3, <1>4

LEMMA KernelType ==
  ASSUME CtlInv, NEW c \in Coros, KernelCompletes(c)
  PROVE  CtlInv'
<1>1. PICK o \in Outcomes :
      /\ kernel' = kernel \ {c} /\ outcome' = [outcome EXCEPT ![c] = o]
      /\ port' = Append(port, Completion(c))
      /\ UNCHANGED <<overflow, rest, result, pc, cur, oper, error, awaits, ended,
                     dropped>>
  BY DEF KernelCompletes, listVars, coroVars
<1>2. PortInv' /\ port' \in Seq(Events)
  BY <1>1, PortAppend DEF CtlInv
<1>3. ThreadInv'
  BY <1>1 DEF CtlInv, ThreadInv
<1>4. TypeOK'
  BY <1>1, <1>2 DEF CtlInv, TypeOK, Events
<1> QED BY <1>2, <1>3, <1>4 DEF CtlInv
-----------------------------------------------------------------------------
(* One place *)

Nowhere(c)    == \A k, t, i : ~ At(c, k, t, i)
Only(c, l, u, j) == \A k, t, i : At(c, k, t, i) <=> k = l /\ t = u /\ i = j

LEMMA PlaceCases ==
  ASSUME NEW c, PlaceOf(c)
  PROVE  Nowhere(c) \/ \E l, u, j : Only(c, l, u, j)
BY DEF PlaceOf, Nowhere, Only

LEMMA StaysAway ==
  ASSUME NEW c, Nowhere(c)', awaits'[c] = 0 \/ c \in ended'
  PROVE  PlaceOf(c)'
<1>1. \A k, t, i : ~ At(c, k, t, i)'
  BY DEF Nowhere
<1> QED BY <1>1, SMT DEF PlaceOf

LEMMA ComesTo ==
  ASSUME NEW c, NEW l, NEW u, NEW j, Only(c, l, u, j)',
         c \notin ended', awaits'[c] # 0 \/ l = "running"
  PROVE  PlaceOf(c)'
<1>1. \A k, t, i : At(c, k, t, i)' <=> k = l /\ t = u /\ i = j
  BY DEF Only
<1> QED BY <1>1, SMT DEF PlaceOf

\* Nothing happens to c
LEMMA Quiet ==
  ASSUME NEW c, PlaceOf(c), awaits'[c] = awaits[c], c \in ended' <=> c \in ended,
         \A k, t, i : At(c, k, t, i)' <=> At(c, k, t, i)
  PROVE  PlaceOf(c)'
BY SMT DEF PlaceOf

\* What each kind of step does to the places, from the variables it changes
LEMMA PlacesOfThread ==
  ASSUME NEW t \in Threads, NEW d \in Coros,
         UNCHANGED <<port, kernel, overflow, rest, dropped>>,
         \A u \in Threads \ {t} : /\ cur'[u] = cur[u] /\ oper'[u] = oper[u]
                                 /\ error'[u] = error[u]
  PROVE  \A k, u, i : At(d, k, u, i)' <=>
            IF u = t /\ k \in {"running", "starting"}
            THEN i = 0 /\ IF k = "running" THEN cur'[t] = d
                                          ELSE oper'[t] = d /\ error'[t] # "pending"
            ELSE At(d, k, u, i)
BY CorosAssumption DEF At, Threads
LEMMA BeginPlaces ==
  ASSUME CtlInv, PlaceInv, NEW t \in Threads, NEW c \in Coros, Begin(t, c)
  PROVE  PlaceInv'
<1> USE CorosAssumption DEF CtlInv
<1> SUFFICES ASSUME NEW d \in Coros PROVE PlaceOf(d)'
  BY DEF PlaceInv
<1>1. /\ PlaceOf(d) /\ cur[t] = None /\ oper[t] = None /\ cur'[t] = c /\ oper'[t] = None
      /\ \A u \in Threads \ {t} : cur'[u] = cur[u] /\ oper'[u] = oper[u]
                                  /\ error'[u] = error[u]
      /\ UNCHANGED <<port, kernel, overflow, rest, dropped, awaits, ended>>
      /\ awaits[c] = 0 /\ c \notin ended /\ \A u \in Threads : cur[u] # c
  BY DEF Begin, ThreadInv, TypeOK, PlaceInv, kernelVars, listVars, coroVars
<1>2. \A k, u, i : At(d, k, u, i)' <=>
         IF u = t /\ k \in {"running", "starting"}
         THEN i = 0 /\ k = "running" /\ d = c
         ELSE At(d, k, u, i)
  BY <1>1, PlacesOfThread
<1>3. \A k, i : k \in {"running", "starting"} => ~ At(d, k, t, i)
  BY <1>1 DEF At
<1>4. CASE d # c
  BY <1>1, <1>2, <1>3, <1>4, Quiet
<1>5. CASE d = c
  <2>1. Nowhere(c)
    <3>1. \A k, u, i : At(c, k, u, i) => k = "running"
      BY <1>1, <1>5 DEF PlaceOf
    <3>2. \A u, i : ~ At(c, "running", u, i)
      BY <1>1 DEF At
    <3> QED BY <3>1, <3>2 DEF Nowhere
  <2>2. Only(c, "running", t, 0)'
    BY <1>2, <1>5, <2>1 DEF Only, Nowhere
  <2> QED BY <1>1, <1>5, <2>2, ComesTo
<1> QED BY <1>4, <1>5

\* A thread that runs c leaves it; whatever becomes of c, the others stay
LEMMA LeavesRunning ==
  ASSUME CtlInv, PlaceInv, NEW t \in Threads, NEW c \in Coros, cur[t] = c, pc[t] = "code",
         NEW d \in Coros
  PROVE  /\ PlaceOf(d) /\ Only(c, "running", t, 0) /\ c \notin ended
         /\ d # c => \A k, i : k \in {"running", "starting"} => ~ At(d, k, t, i)
<1>1. PlaceOf(d) /\ PlaceOf(c) /\ c # None /\ d # None /\ oper[t] = None
  BY CorosAssumption DEF PlaceInv, CtlInv, ThreadInv
<1>2. At(c, "running", t, 0)
  BY DEF At
<1>3. Only(c, "running", t, 0) /\ c \notin ended
  BY <1>1, <1>2, SMT DEF Only, PlaceOf
<1>4. d # c => \A k, i : k \in {"running", "starting"} => ~ At(d, k, t, i)
  BY <1>1 DEF At
<1> QED BY <1>1, <1>3, <1>4

LEMMA EndPlaces ==
  ASSUME CtlInv, PlaceInv, NEW t \in Threads, End(t)
  PROVE  PlaceInv'
<1> USE CorosAssumption DEF CtlInv
<1> DEFINE c == cur[t]
<1>0. /\ c \in Coros /\ pc[t] = "code" /\ cur'[t] = None /\ oper'[t] = None
      /\ \A u \in Threads \ {t} : cur'[u] = cur[u] /\ oper'[u] = oper[u]
                                  /\ error'[u] = error[u]
      /\ UNCHANGED <<port, kernel, overflow, rest, dropped, awaits>>
      /\ ended' = ended \cup {c}
  BY LeaveFacts DEF End, TypeOK, kernelVars, listVars
<1> SUFFICES ASSUME NEW d \in Coros PROVE PlaceOf(d)'
  BY DEF PlaceInv
<1>1. /\ PlaceOf(d) /\ Only(c, "running", t, 0)
      /\ d # c => \A k, i : k \in {"running", "starting"} => ~ At(d, k, t, i)
  BY <1>0, LeavesRunning
<1> HIDE DEF c
<1>2. \A k, u, i : At(d, k, u, i)' <=>
         ~ (u = t /\ k \in {"running", "starting"}) /\ At(d, k, u, i)
  BY <1>0, PlacesOfThread
<1>3. CASE d # c
  BY <1>0, <1>1, <1>2, <1>3, Quiet
<1>4. CASE d = c
  <2>1. Nowhere(d)'
    BY <1>1, <1>2, <1>4 DEF Nowhere, Only
  <2> QED BY <1>0, <1>4, <2>1, StaysAway
<1> QED BY <1>3, <1>4

LEMMA SchedulePlaces ==
  ASSUME CtlInv, PlaceInv, NEW t \in Threads, Schedule(t)
  PROVE  PlaceInv'
<1> USE CorosAssumption DEF CtlInv
<1> DEFINE c == cur[t]
<1>0. /\ c \in Coros /\ pc[t] = "code" /\ oper[t] = None /\ error[t] = None
      /\ UNCHANGED <<kernel, overflow, rest, dropped, ended>>
      /\ awaits' = [awaits EXCEPT ![c] = @ + 1]
  BY DEF Schedule, Await, TypeOK, ThreadInv, kernelVars, listVars
<1> SUFFICES ASSUME NEW d \in Coros PROVE PlaceOf(d)'
  BY DEF PlaceInv
<1>1. /\ PlaceOf(d) /\ Only(c, "running", t, 0) /\ c \notin ended
      /\ d # c => \A k, i : k \in {"running", "starting"} => ~ At(d, k, t, i)
  BY <1>0, LeavesRunning
<1>2. awaits'[c] # 0 /\ (d # c => awaits'[d] = awaits[d])
  BY <1>0 DEF TypeOK
<1>3. ASSUME Leave(t), port' = Append(port, Posted(c, Continuation(c)))
      PROVE  PlaceOf(d)'
  <2>1. /\ cur'[t] = None /\ oper'[t] = None
        /\ \A u \in Threads \ {t} : /\ cur'[u] = cur[u] /\ oper'[u] = oper[u]
                                   /\ error'[u] = error[u]
    BY <1>3, LeaveFacts
  <2>2. PICK n \in Nat :
        /\ n = Len(port) /\ Len(port') = n + 1 /\ \A i \in 1 .. n : port'[i] = port[i]
        /\ port'[n + 1].of = None /\ port'[n + 1].for = c
    BY <1>0, <1>3, PortAppend, EventFacts
  <2> HIDE DEF c
  <2>3. \A k, u, i : At(d, k, u, i)' <=>
           \/ ~ (u = t /\ k \in {"running", "starting"}) /\ At(d, k, u, i)
           \/ d = c /\ k = "port" /\ u = None /\ i = n + 1
    BY <1>0, <2>1, <2>2 DEF At, Threads
  <2>4. CASE d # c
    BY <1>0, <1>1, <1>2, <2>3, <2>4, Quiet
  <2>5. CASE d = c
    <3>1. Only(d, "port", None, n + 1)'
      BY <1>1, <2>3, <2>5 DEF Only
    <3> QED BY <1>0, <1>1, <1>2, <2>5, <3>1, ComesTo
  <2> QED BY <2>4, <2>5
<1>4. ASSUME oper' = [oper EXCEPT ![t] = c], cur' = [cur EXCEPT ![t] = None],
             UNCHANGED <<port, error>>
      PROVE  PlaceOf(d)'
  <2>1. /\ cur'[t] = None /\ oper'[t] = c /\ error'[t] # "pending"
        /\ \A u \in Threads \ {t} : /\ cur'[u] = cur[u] /\ oper'[u] = oper[u]
                                   /\ error'[u] = error[u]
    BY <1>0, <1>4 DEF TypeOK
  <2> HIDE DEF c
  <2>2. \A k, u, i : At(d, k, u, i)' <=>
           \/ ~ (u = t /\ k \in {"running", "starting"}) /\ At(d, k, u, i)
           \/ d = c /\ k = "starting" /\ u = t /\ i = 0
    BY <1>0, <1>4, <2>1, PlacesOfThread
  <2>3. CASE d # c
    BY <1>0, <1>1, <1>2, <2>2, <2>3, Quiet
  <2>4. CASE d = c
    <3>1. Only(d, "starting", t, 0)'
      BY <1>1, <2>2, <2>4 DEF Only
    <3> QED BY <1>0, <1>1, <1>2, <2>4, <3>1, ComesTo
  <2> QED BY <2>3, <2>4
<1> QED BY <1>3, <1>4 DEF Schedule
LEMMA StartPlaces ==
  ASSUME CtlInv, PlaceInv, NEW t \in Threads, StartFileOperation(t)
  PROVE  PlaceInv'
<1> USE CorosAssumption DEF CtlInv
<1> DEFINE c == cur[t]
<1>0. PICK o \in Outcomes \cup {"pending"} :
      /\ c \in Coros /\ pc[t] = "code" /\ oper[t] = None /\ error[t] = None
      /\ UNCHANGED <<port, overflow, rest, dropped, ended>>
      /\ awaits' = [awaits EXCEPT ![c] = @ + 1]
      /\ cur'[t] = None /\ oper'[t] = c /\ error'[t] = o
      /\ \A u \in Threads \ {t} : cur'[u] = cur[u] /\ oper'[u] = oper[u]
                                  /\ error'[u] = error[u]
      /\ kernel' = IF o = "pending" THEN kernel \cup {c} ELSE kernel
  BY DEF StartFileOperation, Await, TypeOK, ThreadInv, listVars, EventAtOnce, Outcomes
<1> SUFFICES ASSUME NEW d \in Coros PROVE PlaceOf(d)'
  BY DEF PlaceInv
<1>1. /\ PlaceOf(d) /\ Only(c, "running", t, 0) /\ c \notin ended
      /\ d # c => \A k, i : k \in {"running", "starting"} => ~ At(d, k, t, i)
  BY <1>0, LeavesRunning
<1>2. awaits'[c] # 0 /\ (d # c => awaits'[d] = awaits[d])
  BY <1>0 DEF TypeOK
<1> HIDE DEF c
<1>3. \A k, u, i : At(d, k, u, i)' <=>
         \/ ~ (u = t /\ k \in {"running", "starting"}) /\ At(d, k, u, i)
         \/ d = c /\ o = "pending" /\ k = "kernel" /\ u = None /\ i = 0
         \/ d = c /\ o # "pending" /\ k = "starting" /\ u = t /\ i = 0
  BY <1>0 DEF At, Threads
<1>4. CASE d # c
  BY <1>0, <1>1, <1>2, <1>3, <1>4, Quiet
<1>5. CASE d = c /\ o = "pending"
  <2>1. Only(d, "kernel", None, 0)'
    BY <1>1, <1>3, <1>5 DEF Only
  <2> QED BY <1>0, <1>1, <1>2, <1>5, <2>1, ComesTo
<1>6. CASE d = c /\ o # "pending"
  <2>1. Only(d, "starting", t, 0)'
    BY <1>1, <1>3, <1>6 DEF Only
  <2> QED BY <1>0, <1>1, <1>2, <1>6, <2>1, ComesTo
<1> QED BY <1>4, <1>5, <1>6

LEMMA ReturnPlaces ==
  ASSUME CtlInv, PlaceInv, NEW t \in Threads, ReturnFromStart(t)
  PROVE  PlaceInv'
<1> USE CorosAssumption DEF CtlInv
<1> DEFINE c == oper[t]
<1>0. /\ c \in Coros /\ pc[t] = "started" /\ cur[t] = None /\ oper'[t] = None
      /\ cur'[t] = IF error[t] = "pending" THEN None ELSE c
      /\ \A u \in Threads \ {t} : cur'[u] = cur[u] /\ oper'[u] = oper[u]
                                  /\ error'[u] = error[u]
      /\ UNCHANGED <<port, kernel, overflow, rest, dropped, awaits, ended>>
  <2>1. pc[t] = "started" /\ c \in Coros /\ cur[t] = None
    BY DEF ReturnFromStart, ThreadInv
  <2>2. CASE error[t] = "pending"
    BY <2>1, <2>2, LeaveFacts DEF ReturnFromStart, kernelVars, listVars, coroVars
  <2>3. CASE error[t] # "pending"
    BY <2>1, <2>3 DEF ReturnFromStart, TypeOK, kernelVars, listVars, coroVars
  <2> QED BY <2>2, <2>3
<1> SUFFICES ASSUME NEW d \in Coros PROVE PlaceOf(d)'
  BY DEF PlaceInv
<1>1. PlaceOf(d)
  BY DEF PlaceInv
<1> HIDE DEF c
<1>2. \A k, u, i : At(d, k, u, i)' <=>
         \/ ~ (u = t /\ k \in {"running", "starting"}) /\ At(d, k, u, i)
         \/ d = c /\ error[t] # "pending" /\ k = "running" /\ u = t /\ i = 0
  BY <1>0, PlacesOfThread
<1>3. \A k, i : k \in {"running", "starting"} =>
         (At(d, k, t, i) <=> k = "starting" /\ d = c /\ error[t] # "pending" /\ i = 0)
  BY <1>0 DEF At, c
<1>4. CASE d # c \/ error[t] = "pending"
  <2>1. \A k, u, i : At(d, k, u, i)' <=> At(d, k, u, i)
    BY <1>2, <1>3, <1>4
  <2> QED BY <1>0, <1>1, <2>1, Quiet
<1>5. CASE d = c /\ error[t] # "pending"
  <2>1. At(d, "starting", t, 0)
    BY <1>3, <1>5
  <2>2. Only(d, "starting", t, 0) /\ d \notin ended /\ awaits[d] # 0
    BY <1>1, <2>1 DEF Only, PlaceOf
  <2>3. Only(d, "running", t, 0)'
    BY <1>2, <1>5, <2>2 DEF Only
  <2> QED BY <1>0, <2>2, <2>3, ComesTo
<1> QED BY <1>4, <1>5

LEMMA KernelPlaces ==
  ASSUME CtlInv, PlaceInv, NEW c \in Coros, KernelCompletes(c)
  PROVE  PlaceInv'
<1> USE CorosAssumption DEF CtlInv
<1>0. /\ c \in kernel /\ kernel' = kernel \ {c} /\ port' = Append(port, Completion(c))
      /\ UNCHANGED <<overflow, rest, cur, oper, error, awaits, ended, dropped>>
  BY DEF KernelCompletes, listVars, coroVars
<1> SUFFICES ASSUME NEW d \in Coros PROVE PlaceOf(d)'
  BY DEF PlaceInv
<1>1. PlaceOf(d)
  BY DEF PlaceInv
<1>2. PICK n \in Nat :
      /\ n = Len(port) /\ Len(port') = n + 1 /\ \A i \in 1 .. n : port'[i] = port[i]
      /\ port'[n + 1].of = c /\ port'[n + 1].for = None
  BY <1>0, PortAppend, EventFacts
<1>3. \A k, u, i : At(d, k, u, i)' <=>
         \/ ~ (k = "kernel" /\ d = c) /\ At(d, k, u, i)
         \/ d = c /\ k = "port" /\ u = None /\ i = n + 1
  BY <1>0, <1>2 DEF At
<1>4. CASE d # c
  BY <1>0, <1>1, <1>3, <1>4, Quiet
<1>5. CASE d = c
  <2>1. At(d, "kernel", None, 0)
    BY <1>0, <1>5 DEF At
  <2>2. Only(d, "kernel", None, 0) /\ d \notin ended /\ awaits[d] # 0
    BY <1>1, <2>1 DEF Only, PlaceOf
  <2>3. Only(d, "port", None, n + 1)'
    BY <1>3, <1>5, <2>2 DEF Only
  <2> QED BY <1>0, <2>2, <2>3, ComesTo
<1> QED BY <1>4, <1>5

\* c changes its index or its kind, and the state it is in allows both
LEMMA Moves ==
  ASSUME NEW c, PlaceOf(c), NEW k, NEW t, NEW i, At(c, k, t, i), k # "running",
         NEW l, NEW u, NEW j, \A m, v, h : At(c, m, v, h)' <=> m = l /\ v = u /\ h = j,
         awaits'[c] = awaits[c], c \in ended' <=> c \in ended
  PROVE  PlaceOf(c)'
<1>1. c \notin ended /\ awaits[c] # 0
  BY DEF PlaceOf
<1>2. Only(c, l, u, j)'
  BY DEF Only
<1> QED BY <1>1, <1>2, ComesTo
\* A step that moves events and list entries about: nobody begins or ends
LEMMA Rearranged ==
  ASSUME NEW c, PlaceOf(c), awaits'[c] = awaits[c], c \in ended' <=> c \in ended,
         awaits[c] \in Nat, Nowhere(c) => Nowhere(c)',
         \A l, u, j : Only(c, l, u, j) =>
           \E m, v, h : Only(c, m, v, h)' /\ (l = "running" => m = "running")
  PROVE  PlaceOf(c)'
<1>1. CASE Nowhere(c)
  <2>1. awaits[c] = 0 \/ c \in ended
    BY <1>1 DEF Nowhere, PlaceOf
  <2> QED BY <1>1, <2>1, StaysAway
<1>2. ASSUME NEW l, NEW u, NEW j, Only(c, l, u, j)
      PROVE  PlaceOf(c)'
  <2>1. At(c, l, u, j)
    BY <1>2 DEF Only
  <2>2. c \notin ended /\ (awaits[c] # 0 \/ l = "running")
    BY <2>1 DEF PlaceOf
  <2>3. PICK m, v, h : Only(c, m, v, h)' /\ (l = "running" => m = "running")
    BY <1>2
  <2> QED BY <2>2, <2>3, ComesTo
<1> QED BY <1>1, <1>2, PlaceCases

LEMMA PushPlaces ==
  ASSUME CtlInv, PlaceInv, NEW t \in Threads, PushOverflow(t)
  PROVE  PlaceInv'
<1> USE CorosAssumption DEF CtlInv
<1> DEFINE c == oper[t]
<1>0. /\ c \in Coros /\ cur[t] = None /\ error[t] = None /\ cur'[t] = None
      /\ oper'[t] = None
      /\ \A u \in Threads \ {t} : cur'[u] = cur[u] /\ oper'[u] = oper[u]
                                  /\ error'[u] = error[u]
      /\ UNCHANGED <<port, kernel, rest, dropped, awaits, ended>>
      /\ overflow \in Seq(Coros) /\ overflow' = <<c>> \o overflow
  BY LeaveFacts DEF PushOverflow, ThreadInv, TypeOK, kernelVars, coroVars
<1> SUFFICES ASSUME NEW d \in Coros PROVE PlaceOf(d)'
  BY DEF PlaceInv
<1>1. PlaceOf(d)
  BY DEF PlaceInv
<1> HIDE DEF c
<1>2. PICK n \in Nat :
      /\ n = Len(overflow) /\ Len(overflow') = n + 1 /\ overflow'[1] = c
      /\ \A i \in 2 .. n + 1 : overflow'[i] = overflow[i - 1]
  BY <1>0
<1>3. \A k, u, i : At(d, k, u, i)' <=>
         \/ ~ (u = t /\ k \in {"running", "starting"}) /\ k # "overflow" /\ At(d, k, u, i)
         \/ k = "overflow" /\ u = None /\ i = 1 /\ d = c
         \/ k = "overflow" /\ i \in 2 .. n + 1 /\ At(d, k, u, i - 1)
  <2>1. \A i : i \in 2 .. n + 1 => i - 1 \in 1 .. n
    BY <1>2
  <2>2. \A i : i \in 1 .. n + 1 <=> i = 1 \/ i \in 2 .. n + 1
    BY <1>2
  <2>3a. \A u, i : At(d, "overflow", u, i)' <=>
          u = None /\ i \in 1 .. Len(overflow') /\ overflow'[i] = d
    BY DEF At
  <2>3b. \A i : i \in 1 .. Len(overflow') /\ overflow'[i] = d <=>
            ((i = 1 /\ d = c) \/ (i \in 2 .. n + 1 /\ overflow[i - 1] = d))
    <3> TAKE i
    <3>1. ~ (1 \in 2 .. n + 1) /\ Len(overflow') = n + 1
      BY <1>2
    <3>2. CASE i = 1
      <4>1. i \in 1 .. n + 1 /\ i \notin 2 .. n + 1
        BY <2>2, <3>1, <3>2
      <4>2. overflow'[i] = c
        BY <1>2, <3>2
      <4> QED BY <3>1, <3>2, <4>1, <4>2, Zenon
    <3>3. CASE i \in 2 .. n + 1
      <4>1. overflow'[i] = overflow[i - 1]
        BY <1>2, <3>3
      <4> QED BY <2>2, <3>1, <3>3, <4>1
    <3>4. CASE ~ (i \in 1 .. n + 1)
      BY <2>2, <3>1, <3>4
    <3> QED BY <2>2, <3>2, <3>3, <3>4
  <2>3. \A u, i : At(d, "overflow", u, i)' <=>
          u = None /\ ((i = 1 /\ d = c) \/ (i \in 2 .. n + 1 /\ overflow[i - 1] = d))
    BY <2>3a, <2>3b
  <2>4. \A u, i : i \in 2 .. n + 1 =>
          (At(d, "overflow", u, i - 1) <=> u = None /\ overflow[i - 1] = d)
    BY <1>2, <2>1 DEF At
  <2>5. \A k, u, i : k # "overflow" =>
          (At(d, k, u, i)' <=> ~ (u = t /\ k \in {"running", "starting"}) /\ At(d, k, u, i))
    BY <1>0 DEF At, Threads
  <2>6. \A u, i : At(d, "overflow", u, i)' <=>
           \/ u = None /\ i = 1 /\ d = c
           \/ i \in 2 .. n + 1 /\ At(d, "overflow", u, i - 1)
    BY <2>3, <2>4, Zenon
  <2> QED
    <3> TAKE k, u, i
    <3>1. CASE k = "overflow"
      BY <2>6, <3>1, Zenon
    <3>2. CASE k # "overflow"
      BY <2>5, <3>2, Zenon
    <3> QED BY <3>1, <3>2
<1>4. \A k, i : k \in {"running", "starting"} =>
         (At(d, k, t, i) <=> k = "starting" /\ d = c /\ i = 0)
  BY <1>0 DEF At, c
<1>5. CASE d = c
  <2>1. Only(d, "starting", t, 0) /\ d \notin ended /\ awaits[d] # 0
    BY <1>1, <1>4, <1>5 DEF Only, PlaceOf
  <2>2. Only(d, "overflow", None, 1)'
    BY <1>3, <1>5, <2>1 DEF Only
  <2> QED BY <1>0, <2>1, <2>2, ComesTo
<1>6. CASE d # c
  <2>1. Nowhere(d) => Nowhere(d)'
    BY <1>3, <1>6 DEF Nowhere
  <2>2. ASSUME NEW l, NEW u, NEW j, Only(d, l, u, j)
        PROVE  \E m, v, h : Only(d, m, v, h)' /\ (l = "running" => m = "running")
    <3>1. At(d, l, u, j)
      BY <2>2 DEF Only
    <3>2. CASE l = "overflow"
      <4>1. j \in 1 .. n /\ j \in Int /\ j + 1 \in 2 .. n + 1 /\ (j + 1) - 1 = j
        BY <1>2, <3>1, <3>2 DEF At
      <4>2. \A i \in 2 .. n + 1 : i - 1 = j <=> i = j + 1
        BY <4>1
      <4>3. Only(d, "overflow", u, j + 1)'
        BY <1>3, <1>6, <2>2, <3>2, <4>1, <4>2 DEF Only
      <4> QED BY <3>2, <4>3
    <3>3. CASE l # "overflow"
      <4>1. ~ (u = t /\ l \in {"running", "starting"})
        BY <1>4, <1>6, <3>1
      <4>2. Only(d, l, u, j)'
        BY <1>3, <1>6, <2>2, <3>3, <4>1 DEF Only
      <4> QED BY <4>2
    <3> QED BY <3>2, <3>3
  <2>3. awaits[d] \in Nat
    BY DEF TypeOK
  <2> QED BY <1>0, <1>1, <2>1, <2>2, <2>3, Rearranged
<1> QED BY <1>5, <1>6
LEMMA TakePlaces ==
  ASSUME CtlInv, PlaceInv, NEW t \in IOThreads, TakeOverflow(t)
  PROVE  PlaceInv'
<1> USE CorosAssumption DEF CtlInv
<1>0. /\ rest[t] = <<>> /\ rest'[t] = overflow /\ overflow' = <<>>
      /\ overflow \in Seq(Coros)
      /\ \A u \in IOThreads \ {t} : rest'[u] = rest[u]
      /\ UNCHANGED <<port, kernel, cur, oper, error, awaits, ended, dropped>>
  BY DEF TakeOverflow, ThreadInv, TypeOK, Threads, kernelVars, coroVars
<1> SUFFICES ASSUME NEW d \in Coros PROVE PlaceOf(d)'
  BY DEF PlaceInv
<1>1. PlaceOf(d) /\ awaits[d] \in Nat
  BY DEF PlaceInv, TypeOK
<1>2. \A k, u, i : At(d, k, u, i)' <=>
         \/ ~ (k = "rest" /\ u = t) /\ k # "overflow" /\ At(d, k, u, i)
         \/ k = "rest" /\ u = t /\ At(d, "overflow", None, i)
  BY <1>0 DEF At
<1>3. \A i : ~ At(d, "rest", t, i)
  BY <1>0 DEF At
<1>4. Nowhere(d) => Nowhere(d)'
  BY <1>2 DEF Nowhere
<1>5. ASSUME NEW l, NEW u, NEW j, Only(d, l, u, j)
      PROVE  \E m, v, h : Only(d, m, v, h)' /\ (l = "running" => m = "running")
  <2>1. At(d, l, u, j)
    BY <1>5 DEF Only
  <2>2. CASE l = "overflow"
    <3>1. u = None
      BY <2>1, <2>2 DEF At
    <3>2. Only(d, "rest", t, j)'
      BY <1>2, <1>5, <2>2, <3>1 DEF Only
    <3> QED BY <2>2, <3>2
  <2>3. CASE l # "overflow"
    <3>1. Only(d, l, u, j)'
      BY <1>2, <1>3, <1>5, <2>1, <2>3 DEF Only
    <3> QED BY <3>1
  <2> QED BY <2>2, <2>3
<1> QED BY <1>0, <1>1, <1>4, <1>5, Rearranged

LEMMA RepostPlaces ==
  ASSUME CtlInv, PlaceInv, NEW t \in IOThreads, Repost(t)
  PROVE  PlaceInv'
<1> USE CorosAssumption DEF CtlInv
<1> SUFFICES ASSUME NEW d \in Coros PROVE PlaceOf(d)'
  BY DEF PlaceInv
<1>0. /\ UNCHANGED <<kernel, overflow, cur, oper, error, awaits, ended, dropped>>
      /\ PlaceOf(d) /\ awaits[d] \in Nat
  BY DEF Repost, PlaceInv, TypeOK, kernelVars, coroVars
<1>1. CASE UNCHANGED <<port, rest>>
  <2>1. \A k, u, i : At(d, k, u, i)' <=> At(d, k, u, i)
    BY <1>0, <1>1 DEF At
  <2> QED BY <1>0, <2>1, Quiet
<1>2. ASSUME rest[t] # <<>>, rest' = [rest EXCEPT ![t] = Tail(@)],
             port' = Append(port, Posted(Head(rest[t]), Continuation(Head(rest[t]))))
      PROVE  PlaceOf(d)'
  <2> DEFINE c == Head(rest[t])
  <2>0. rest[t] \in Seq(Coros) /\ rest \in [IOThreads -> Seq(Coros)]
    BY DEF TypeOK
  <2>1. /\ c \in Coros /\ c = rest[t][1] /\ rest'[t] = Tail(rest[t])
        /\ \A u \in IOThreads \ {t} : rest'[u] = rest[u]
    BY <1>2, <2>0
  <2>2. PICK n \in Nat :
        /\ n = Len(port) /\ Len(port') = n + 1 /\ \A i \in 1 .. n : port'[i] = port[i]
        /\ port'[n + 1].of = None /\ port'[n + 1].for = c
    <3> DEFINE e == Posted(c, Continuation(c))
    <3>1. e.of = None /\ e.for = c
      BY <2>1, EventFacts
    <3>2. port' = Append(port, e)
      BY <1>2
    <3> HIDE DEF e, c
    <3>3. /\ Len(port) \in Nat /\ Len(port') = Len(port) + 1
          /\ port'[Len(port) + 1] = e
          /\ \A i \in 1 .. Len(port) : port'[i] = port[i]
      BY <2>1, <3>2, PortAppend DEF e
    <3> QED BY <3>1, <3>3
  <2>3. PICK m \in Nat :
        /\ Len(rest[t]) = m /\ m > 0 /\ Len(rest'[t]) = m - 1
        /\ \A i \in 1 .. m - 1 : rest'[t][i] = rest[t][i + 1]
    BY <1>2, <2>0, <2>1
  <2> HIDE DEF c
  <2>4. \A k, u, i : ~ (k = "rest" /\ u = t) =>
           (At(d, k, u, i)' <=>
              At(d, k, u, i) \/ (k = "port" /\ u = None /\ i = n + 1 /\ d = c))
    BY <1>0, <2>1, <2>2 DEF At
  <2>5. \A i : At(d, "rest", t, i) <=> i \in 1 .. m /\ rest[t][i] = d
    BY <2>3 DEF At
  <2>6. \A i : At(d, "rest", t, i)' <=> i \in 1 .. m - 1 /\ rest[t][i + 1] = d
    BY <2>3 DEF At
  <2>7. CASE d = c
    <3>1. 1 \in 1 .. m
      BY <2>3
    <3>2. At(d, "rest", t, 1)
      BY <2>1, <2>5, <2>7, <3>1
    <3>3. Only(d, "rest", t, 1) /\ d \notin ended /\ awaits[d] # 0
      BY <1>0, <3>2 DEF Only, PlaceOf
    <3>4. \A i : ~ At(d, "rest", t, i)'
      <4>1. \A i \in 1 .. m - 1 : i + 1 \in 1 .. m /\ i + 1 # 1
        BY <2>3
      <4>2. \A i \in 1 .. m - 1 : rest[t][i + 1] # d
        BY <2>5, <3>3, <4>1 DEF Only
      <4> QED BY <2>6, <4>2
    <3>5. Only(d, "port", None, n + 1)'
      BY <2>4, <2>7, <3>3, <3>4 DEF Only
    <3> QED BY <1>0, <3>3, <3>5, ComesTo
  <2>8. CASE d # c
    <3>1. \A i \in 1 .. m - 1 : i \in Int /\ i + 1 \in 1 .. m
      BY <2>3
    <3>2. Nowhere(d) => Nowhere(d)'
      BY <2>4, <2>5, <2>6, <2>8, <3>1 DEF Nowhere
    <3>3. ASSUME NEW l, NEW u, NEW j, Only(d, l, u, j)
          PROVE  \E p, v, h : Only(d, p, v, h)' /\ (l = "running" => p = "running")
      <4>1. At(d, l, u, j)
        BY <3>3 DEF Only
      <4>2. CASE l = "rest" /\ u = t
        <5>1. j \in 1 .. m /\ j # 1
          BY <2>1, <2>5, <2>8, <4>1, <4>2
        <5>2. j - 1 \in 1 .. m - 1 /\ (j - 1) + 1 = j
              /\ \A i \in 1 .. m - 1 : i + 1 = j => i = j - 1
          BY <5>1
        <5>3. \A i : At(d, "rest", t, i)' <=> i = j - 1
          BY <2>5, <2>6, <3>1, <3>3, <4>2, <5>2 DEF Only
        <5>4. Only(d, "rest", t, j - 1)'
          BY <2>4, <2>8, <3>3, <4>2, <5>3 DEF Only
        <5> QED BY <4>2, <5>4
      <4>3. CASE ~ (l = "rest" /\ u = t)
        <5>1. \A i : ~ At(d, "rest", t, i)'
          BY <2>5, <2>6, <3>1, <3>3, <4>3 DEF Only
        <5>2. Only(d, l, u, j)'
          BY <2>4, <2>8, <3>3, <4>3, <5>1 DEF Only
        <5> QED BY <5>2
      <4> QED BY <4>2, <4>3
    <3> QED BY <1>0, <3>2, <3>3, Rearranged
  <2> QED BY <2>7, <2>8
<1> QED BY <1>1, <1>2 DEF Repost
LEMMA PutBackPlaces ==
  ASSUME CtlInv, PlaceInv, NEW t \in IOThreads, PutBack(t)
  PROVE  PlaceInv'
<1> USE CorosAssumption DEF CtlInv
<1>0. /\ rest'[t] = <<>> /\ overflow' = rest[t] \o overflow
      /\ overflow \in Seq(Coros) /\ rest[t] \in Seq(Coros)
      /\ \A u \in IOThreads \ {t} : rest'[u] = rest[u]
      /\ UNCHANGED <<port, kernel, cur, oper, error, awaits, ended, dropped>>
  BY DEF PutBack, TypeOK, kernelVars, coroVars, InFront
<1> SUFFICES ASSUME NEW d \in Coros PROVE PlaceOf(d)'
  BY DEF PlaceInv
<1>1. PlaceOf(d) /\ awaits[d] \in Nat
  BY DEF PlaceInv, TypeOK
<1>2. PICK n \in Nat, m \in Nat :
      /\ n = Len(overflow) /\ m = Len(rest[t]) /\ Len(overflow') = m + n
      /\ \A i \in 1 .. m : overflow'[i] = rest[t][i]
      /\ \A i \in 1 .. n : overflow'[m + i] = overflow[i]
  <2>1. /\ Len(overflow') = Len(rest[t]) + Len(overflow)
        /\ \A i \in 1 .. Len(rest[t]) : overflow'[i] = rest[t][i]
        /\ \A i \in Len(rest[t]) + 1 .. Len(rest[t]) + Len(overflow) :
             overflow'[i] = overflow[i - Len(rest[t])]
    BY <1>0, ConcatProperties
  <2>2. Len(rest[t]) \in Nat /\ Len(overflow) \in Nat
    BY <1>0
  <2>3. ASSUME NEW m \in Nat, NEW n \in Nat, NEW i \in 1 .. n
        PROVE  m + i \in m + 1 .. m + n /\ (m + i) - m = i
    OBVIOUS
  <2>4. \A i \in 1 .. Len(overflow) : overflow'[Len(rest[t]) + i] = overflow[i]
    BY <2>1, <2>2, <2>3
  <2> QED BY <2>1, <2>2, <2>4
<1>3. \A k, u, i : ~ (k = "rest" /\ u = t) /\ k # "overflow" =>
         (At(d, k, u, i)' <=> At(d, k, u, i))
  BY <1>0 DEF At
<1>4. \A u, i : ~ At(d, "rest", t, i)'
  BY <1>0 DEF At
<1>5. \A i : At(d, "rest", t, i) <=> i \in 1 .. m /\ rest[t][i] = d
  BY <1>2 DEF At
<1>6. \A u, i : At(d, "overflow", u, i) <=> u = None /\ i \in 1 .. n /\ overflow[i] = d
  BY <1>2 DEF At
<1>7. \A u, i : At(d, "overflow", u, i)' <=>
         u = None /\ i \in 1 .. m + n /\ overflow'[i] = d
  BY <1>2 DEF At
<1>8. \A i : i \in 1 .. m + n <=>
         (i \in 1 .. m \/ \E j \in 1 .. n : i = m + j)
  <2>1. ASSUME NEW i \in 1 .. m + n, i \notin 1 .. m PROVE \E j \in 1 .. n : i = m + j
    <3>1. i - m \in 1 .. n /\ i = m + (i - m)
      BY <2>1
    <3> QED BY <3>1
  <2>2. ASSUME NEW j \in 1 .. n PROVE m + j \in 1 .. m + n
    OBVIOUS
  <2>3. ASSUME NEW i \in 1 .. m PROVE i \in 1 .. m + n
    OBVIOUS
  <2> QED BY <2>1, <2>2, <2>3
<1>9. \A u, i : At(d, "overflow", u, i)' <=>
         /\ u = None
         /\ \/ At(d, "rest", t, i)
            \/ \E j \in 1 .. n : i = m + j /\ At(d, "overflow", None, j)
  <2> TAKE u, i
  <2>1. ASSUME At(d, "overflow", u, i)'
        PROVE  \/ At(d, "rest", t, i)
               \/ \E j \in 1 .. n : i = m + j /\ At(d, "overflow", None, j)
    <3>1. i \in 1 .. m + n /\ overflow'[i] = d
      BY <1>7, <2>1
    <3>2. CASE i \in 1 .. m
      BY <1>2, <1>5, <3>1, <3>2
    <3>3. ASSUME NEW j \in 1 .. n, i = m + j PROVE At(d, "overflow", None, j)
      BY <1>2, <1>6, <3>1, <3>3
    <3> QED BY <1>8, <3>1, <3>2, <3>3
  <2>2. At(d, "rest", t, i) => i \in 1 .. m + n /\ overflow'[i] = d
    BY <1>2, <1>5, <1>8
  <2>3. ASSUME NEW j \in 1 .. n, i = m + j, At(d, "overflow", None, j)
        PROVE  i \in 1 .. m + n /\ overflow'[i] = d
    BY <1>2, <1>6, <1>8, <2>3
  <2> QED BY <1>7, <2>1, <2>2, <2>3
<1>10. Nowhere(d) => Nowhere(d)'
  BY <1>3, <1>4, <1>9, SMT DEF Nowhere
<1>11. ASSUME NEW l, NEW u, NEW j, Only(d, l, u, j)
      PROVE  \E p, v, h : Only(d, p, v, h)' /\ (l = "running" => p = "running")
  <2>1. At(d, l, u, j)
    BY <1>11 DEF Only
  <2>2. CASE l = "overflow"
    <3>1. u = None /\ j \in 1 .. n
      BY <1>6, <2>1, <2>2
    <3>2. \A v, i : At(d, "overflow", v, i)' <=> v = None /\ i = m + j
      BY <1>9, <1>11, <2>2, <3>1 DEF Only
    <3>3. Only(d, "overflow", None, m + j)'
      BY <1>3, <1>4, <1>11, <2>2, <3>2 DEF Only
    <3> QED BY <2>2, <3>3
  <2>3. CASE l = "rest" /\ u = t
    <3>1. \A v, i : At(d, "overflow", v, i)' <=> v = None /\ i = j
      BY <1>9, <1>11, <2>3 DEF Only
    <3>2. Only(d, "overflow", None, j)'
      BY <1>3, <1>4, <1>11, <2>3, <3>1 DEF Only
    <3> QED BY <2>3, <3>2
  <2>4. CASE l # "overflow" /\ ~ (l = "rest" /\ u = t)
    <3>1. \A v, i : ~ At(d, "overflow", v, i)'
      BY <1>9, <1>11, <2>4 DEF Only
    <3>2. Only(d, l, u, j)'
      BY <1>3, <1>4, <1>11, <2>4, <3>1 DEF Only
    <3> QED BY <3>2
  <2> QED BY <2>2, <2>3, <2>4
<1> QED BY <1>0, <1>1, <1>10, <1>11, Rearranged

LEMMA EventPlaces ==
  ASSUME CtlInv, PlaceInv, NEW t \in IOThreads, TakeEvent(t)
  PROVE  PlaceInv'
<1> USE CorosAssumption DEF CtlInv
<1> DEFINE e == Head(port)
<1>0. /\ cur[t] = None /\ oper[t] = None /\ t \in Threads /\ port # <<>>
      /\ port' = Tail(port)
      /\ e = port[1]
      /\ \/ e.of \in Coros /\ e.for = None /\ cur'[t] = e.of /\ dropped' = dropped
         \/ /\ e.of = None /\ e.for \in Coros /\ cur'[t] = None
            /\ dropped' = dropped \cup {e.for}
      /\ \A u \in Threads \ {t} : cur'[u] = cur[u]
      /\ UNCHANGED <<kernel, overflow, rest, oper, error, awaits, ended>>
  <2>1. /\ pc[t] = "wait" /\ port # <<>> /\ port' = Tail(port) /\ t \in Threads
        /\ UNCHANGED <<kernel, overflow, rest, oper, error, awaits, ended>>
    BY DEF TakeEvent, Threads, kernelVars, listVars
  <2>2. cur[t] = None /\ oper[t] = None /\ cur \in [Threads -> Coros \cup {None}]
    BY <2>1 DEF ThreadInv, TypeOK
  <2>2a. e = port[1] /\ 1 \in 1 .. Len(port)
    BY <2>1, PortTail
  <2>2b. \/ e.of \in Coros /\ e.for = None
         \/ e.of = None /\ e.key = None /\ e.for \in Coros
    BY <2>2a DEF PortInv
  <2>3. /\ cur' = [cur EXCEPT ![t] = IF e.of # None THEN e.of ELSE e.key]
        /\ dropped' = IF (IF e.of # None THEN e.of ELSE e.key) # None THEN dropped
                      ELSE dropped \cup {e.for}
    BY DEF TakeEvent
  <2> HIDE DEF e
  <2> QED BY <2>1, <2>2, <2>2a, <2>2b, <2>3
<1>1. PICK n \in Nat : /\ n = Len(port) /\ n > 0 /\ Len(port') = n - 1
                       /\ \A i \in 1 .. n - 1 : port'[i] = port[i + 1]
  BY <1>0, PortTail
<1> SUFFICES ASSUME NEW d \in Coros PROVE PlaceOf(d)'
  BY DEF PlaceInv
<1>2. PlaceOf(d) /\ awaits[d] \in Nat
  BY DEF PlaceInv, TypeOK
<1> HIDE DEF e
<1>3. \A k, u, i : k # "port" =>
         (At(d, k, u, i)' <=>
            \/ At(d, k, u, i)
            \/ k = "running" /\ u = t /\ i = 0 /\ d = e.of
            \/ k = "dropped" /\ u = None /\ i = 0 /\ d = e.for)
  BY <1>0 DEF At
<1>4. \A u, i : At(d, "port", u, i) <=>
         u = None /\ i \in 1 .. n /\ d \in {port[i].of, port[i].for}
  BY <1>1 DEF At
<1>5. \A u, i : At(d, "port", u, i)' <=>
         u = None /\ i \in 1 .. n - 1 /\ d \in {port[i + 1].of, port[i + 1].for}
  BY <1>1 DEF At
<1>6. CASE d \in {e.of, e.for}
  <2>1. 1 \in 1 .. n
    BY <1>1
  <2>2. At(d, "port", None, 1)
    BY <1>0, <1>4, <1>6, <2>1
  <2>3. Only(d, "port", None, 1) /\ d \notin ended /\ awaits[d] # 0
    BY <1>2, <2>2 DEF Only, PlaceOf
  <2>4. \A u, i : ~ At(d, "port", u, i)'
    <3>1. \A i \in 1 .. n - 1 : i + 1 \in 1 .. n /\ i + 1 # 1
      BY <1>1
    <3>2. \A i \in 1 .. n - 1 : d \notin {port[i + 1].of, port[i + 1].for}
      BY <1>4, <2>3, <3>1 DEF Only
    <3> QED BY <1>5, <3>2
  <2>5. CASE d = e.of
    <3>1. e.for # d
      BY <1>0, <2>5
    <3>2. Only(d, "running", t, 0)'
      BY <1>3, <2>3, <2>4, <2>5, <3>1 DEF Only
    <3> QED BY <1>0, <2>3, <3>2, ComesTo
  <2>6. CASE d = e.for
    <3>1. e.of # d
      BY <1>0, <2>6
    <3>2. Only(d, "dropped", None, 0)'
      BY <1>3, <2>3, <2>4, <2>6, <3>1 DEF Only
    <3> QED BY <1>0, <2>3, <3>2, ComesTo
  <2> QED BY <1>6, <2>5, <2>6
<1>7. CASE d \notin {e.of, e.for}
  <2>1. \A i \in 1 .. n - 1 : i \in Int /\ i + 1 \in 1 .. n
    BY <1>1
  <2>2. \A u, i : At(d, "port", u, i)' => i \in 1 .. n - 1 /\ At(d, "port", u, i + 1)
    BY <1>4, <1>5, <2>1
  <2>3. Nowhere(d) => Nowhere(d)'
    BY <1>3, <1>7, <2>2 DEF Nowhere
  <2>4. ASSUME NEW l, NEW u, NEW j, Only(d, l, u, j)
        PROVE  \E p, v, h : Only(d, p, v, h)' /\ (l = "running" => p = "running")
    <3>1. At(d, l, u, j)
      BY <2>4 DEF Only
    <3>2. CASE l = "port"
      <4>1. u = None /\ j \in 1 .. n /\ j # 1 /\ d \in {port[j].of, port[j].for}
        BY <1>0, <1>4, <1>7, <3>1, <3>2
      <4>2. PICK h \in 1 .. n - 1 : h + 1 = j /\ \A i \in 1 .. n - 1 : i + 1 = j => i = h
        <5>1. j - 1 \in 1 .. n - 1 /\ (j - 1) + 1 = j
              /\ \A i \in 1 .. n - 1 : i + 1 = j => i = j - 1
          BY <4>1
        <5> QED BY <5>1
      <4>3. At(d, "port", None, h)'
        BY <1>5, <4>1, <4>2
      <4>4. \A v, i : At(d, "port", v, i)' => v = None /\ i = h
        BY <2>2, <2>4, <3>2, <4>1, <4>2 DEF Only
      <4>5. Only(d, "port", None, h)'
        BY <1>3, <1>7, <2>4, <3>2, <4>3, <4>4 DEF Only
      <4> QED BY <3>2, <4>5
    <3>3. CASE l # "port"
      <4>1. \A v, i : ~ At(d, "port", v, i)'
        BY <2>2, <2>4, <3>3 DEF Only
      <4>2. Only(d, l, u, j)'
        BY <1>3, <1>7, <2>4, <3>3, <4>1 DEF Only
      <4> QED BY <4>2
    <3> QED BY <3>2, <3>3
  <2> QED BY <1>0, <1>2, <2>3, <2>4, Rearranged
<1> QED BY <1>6, <1>7
-----------------------------------------------------------------------------
(* Results *)

LEMMA CodeResults ==
  ASSUME IInv, NEW t \in Threads,
         \/ \E c \in Coros : Begin(t, c)
         \/ End(t) \/ Schedule(t) \/ PushOverflow(t)
  PROVE  ResultInv'
<1> USE CorosAssumption DEF IInv
<1>1. CASE \E c \in Coros : Begin(t, c)
  BY <1>1 DEF Begin, ResultInv, ResultsOwn, ThreadInv, TypeOK, kernelVars, listVars,
              coroVars
<1>2. ASSUME Leave(t), UNCHANGED <<outcome, result>>,
             \/ awaits' = awaits
             \/ awaits' = [awaits EXCEPT ![cur[t]] = @ + 1] /\ cur[t] \in Coros
      PROVE  ResultInv'
  <2>1. /\ cur'[t] = None /\ oper'[t] = None /\ pc'[t] # "started"
        /\ \A u \in Threads \ {t} : /\ cur'[u] = cur[u] /\ oper'[u] = oper[u]
                                   /\ error'[u] = error[u] /\ pc'[u] = pc[u]
    BY <1>2, LeaveFacts DEF Outside
  <2>2. \A d \in Coros : awaits[d] \in Nat
                         /\ (awaits'[d] = awaits[d] \/ awaits'[d] = awaits[d] + 1)
    BY <1>2 DEF TypeOK
  <2>3. \A d \in Coros : (awaits[d] > 0 => awaits'[d] > 0)
                                           /\ (awaits'[d] = 0 => awaits[d] = 0)
    BY <2>2
  <2>4. ResultsOwn'
    BY <1>2, <2>1 DEF ResultInv, ResultsOwn
  <2>5. \A u \in Threads : oper[u] \in Coros \cup {None}
    BY DEF TypeOK
  <2> QED BY <1>2, <2>1, <2>3, <2>4, <2>5 DEF ResultInv
<1>3. CASE End(t)
  BY <1>2, <1>3 DEF End, kernelVars
<1>4. CASE PushOverflow(t)
  BY <1>2, <1>4 DEF PushOverflow, kernelVars, coroVars
<1>5. CASE Schedule(t)
  <2>1. /\ cur[t] \in Coros /\ pc[t] = "code" /\ UNCHANGED <<outcome, result>>
        /\ awaits' = [awaits EXCEPT ![cur[t]] = @ + 1]
    BY <1>5 DEF Schedule, Await, TypeOK, kernelVars
  <2>2. CASE Leave(t)
    BY <1>2, <2>1, <2>2
  <2>3. ASSUME oper' = [oper EXCEPT ![t] = cur[t]], cur' = [cur EXCEPT ![t] = None],
               Goto(t, "push"), UNCHANGED error
        PROVE  ResultInv'
    <3>1. /\ cur'[t] = None /\ oper'[t] = cur[t] /\ pc'[t] = "push"
          /\ \A u \in Threads \ {t} : /\ cur'[u] = cur[u] /\ oper'[u] = oper[u]
                                     /\ error'[u] = error[u] /\ pc'[u] = pc[u]
      BY <2>3 DEF Goto, TypeOK
    <3>2. \A d \in Coros : /\ awaits[d] \in Nat
                           /\ awaits'[d] = IF d = cur[t] THEN awaits[d] + 1 ELSE awaits[d]
      BY <2>1 DEF TypeOK
    <3>3. /\ \A d \in Coros : /\ awaits[d] > 0 => awaits'[d] > 0
                              /\ awaits'[d] = 0 => awaits[d] = 0
          /\ awaits'[cur[t]] > 0
      BY <2>1, <3>2
    <3>4. \A u \in Threads : oper[u] \in Coros \cup {None}
      BY DEF TypeOK
    <3>5. ResultsOwn'
      BY <2>1, <3>1 DEF ResultInv, ResultsOwn
    <3> QED BY <2>1, <3>1, <3>3, <3>4, <3>5 DEF ResultInv
  <2> QED BY <1>5, <2>2, <2>3 DEF Schedule
<1> QED BY <1>1, <1>3, <1>4, <1>5

LEMMA FileResults ==
  ASSUME IInv, NEW t \in Threads, StartFileOperation(t) \/ ReturnFromStart(t)
  PROVE  ResultInv'
<1> USE CorosAssumption DEF IInv
<1>1. CASE StartFileOperation(t)
  <2> DEFINE c == cur[t]
  <2>1. PICK o \in Outcomes \cup {"pending"} :
        /\ c \in Coros /\ pc[t] = "code"
        /\ awaits' = [awaits EXCEPT ![c] = @ + 1]
        /\ result' = [result EXCEPT ![c] = "none"]
        /\ cur'[t] = None /\ oper'[t] = c /\ error'[t] = o /\ pc'[t] = "started"
        /\ \A u \in Threads \ {t} : /\ cur'[u] = cur[u] /\ oper'[u] = oper[u]
                                   /\ error'[u] = error[u] /\ pc'[u] = pc[u]
        /\ IF o = "pending" THEN outcome' = outcome
                            ELSE outcome' = [outcome EXCEPT ![c] = o]
    BY <1>1 DEF StartFileOperation, Await, TypeOK, Outcomes, Goto
  <2>2. /\ \A u \in Threads \ {t} : cur[u] # c
        /\ \A u \in Threads : oper[u] = c => error[u] = "pending"
    <3>1. Only(c, "running", t, 0)
      BY <2>1, LeavesRunning DEF CtlInv
    <3> QED BY <3>1 DEF Only, At
  <2> HIDE DEF c
  <2>3. \A d \in Coros : /\ awaits[d] \in Nat
                         /\ awaits'[d] = IF d = c THEN awaits[d] + 1 ELSE awaits[d]
                         /\ d # c => result'[d] = result[d] /\ outcome'[d] = outcome[d]
    BY <2>1 DEF TypeOK
  <2>4. /\ \A d \in Coros : /\ awaits[d] > 0 => awaits'[d] > 0
                            /\ awaits'[d] = 0 => awaits[d] = 0 /\ d # c
        /\ awaits'[c] > 0
    BY <2>1, <2>3
  <2>5. \A u \in Threads : oper[u] \in Coros \cup {None} /\ cur[u] \in Coros \cup {None}
    BY DEF TypeOK
  <2>6. o # "pending" => outcome'[c] = o
    BY <2>1 DEF TypeOK
  <2>7. ResultsOwn'
    BY <2>1, <2>2, <2>3, <2>5 DEF ResultInv, ResultsOwn
  <2>8. \A u \in Threads : pc'[u] = "started" /\ error'[u] # "pending" =>
                             error'[u] = outcome'[oper'[u]]
    <3>1. ASSUME NEW u \in Threads, u # t, pc[u] = "started", error[u] # "pending"
          PROVE  error[u] = outcome'[oper[u]]
      <4>1. oper[u] \in Coros /\ oper[u] # c /\ error[u] = outcome[oper[u]]
        BY <2>2, <3>1 DEF ThreadInv, ResultInv
      <4> QED BY <2>3, <4>1
    <3> QED BY <2>1, <2>6, <3>1
  <2>9. \A u \in Threads : oper'[u] # None => awaits'[oper'[u]] > 0
    BY <2>1, <2>4, <2>5 DEF ResultInv
  <2>10. \A d \in Coros : awaits'[d] = 0 => result'[d] = "none" /\ outcome'[d] = "none"
    BY <2>3, <2>4 DEF ResultInv
  <2> QED BY <2>7, <2>8, <2>9, <2>10 DEF ResultInv
<1>2. CASE ReturnFromStart(t)
  <2> DEFINE c == oper[t]
  <2>0. /\ pc[t] = "started" /\ c \in Coros /\ UNCHANGED <<outcome, awaits>>
        /\ result' = IF error[t] = "pending" THEN result
                     ELSE [result EXCEPT ![c] = error[t]]
        /\ awaits[c] > 0 /\ (error[t] # "pending" => error[t] = outcome[c])
    BY <1>2 DEF ReturnFromStart, StoreIfAtOnce, ThreadInv, ResultInv, kernelVars, coroVars
  <2>1. /\ cur'[t] = IF error[t] = "pending" THEN None ELSE c
        /\ oper'[t] = None /\ pc'[t] # "started"
        /\ \A u \in Threads \ {t} : /\ cur'[u] = cur[u] /\ oper'[u] = oper[u]
                                   /\ error'[u] = error[u] /\ pc'[u] = pc[u]
    <3>1. CASE error[t] = "pending"
      BY <1>2, <3>1, LeaveFacts DEF ReturnFromStart, Outside
    <3>2. CASE error[t] # "pending"
      BY <1>2, <3>2 DEF ReturnFromStart, TypeOK, Goto
    <3> QED BY <3>1, <3>2
  <2> HIDE DEF c
  <2>2. \A d \in Coros : result'[d] = result[d] \/ (d = c /\ result'[d] = outcome[d])
    BY <2>0 DEF TypeOK
  <2>3. error[t] # "pending" => result'[c] = outcome[c]
    BY <2>0 DEF TypeOK
  <2>4. \A u \in Threads : cur[u] \in Coros \cup {None}
    BY DEF TypeOK
  <2>5. ResultsOwn'
    BY <2>0, <2>1, <2>2, <2>3, <2>4 DEF ResultInv, ResultsOwn
  <2>6. \A d \in Coros : awaits'[d] = 0 => result'[d] = "none" /\ outcome'[d] = "none"
    BY <2>0, <2>2 DEF ResultInv
  <2> QED BY <2>0, <2>1, <2>5, <2>6 DEF ResultInv
<1> QED BY <1>1, <1>2

LEMMA LoopResults ==
  ASSUME IInv, NEW t \in IOThreads,
         TakeOverflow(t) \/ Repost(t) \/ PutBack(t) \/ TakeEvent(t)
  PROVE  ResultInv'
<1> USE CorosAssumption DEF IInv
<1>1. CASE TakeOverflow(t) \/ Repost(t) \/ PutBack(t)
  <2>1. /\ UNCHANGED <<result, outcome, cur, oper, error, awaits>>
        /\ \A u \in Threads : pc'[u] = "started" => pc[u] = "started"
    BY <1>1 DEF TakeOverflow, Repost, PutBack, Goto, TypeOK, kernelVars, coroVars
  <2> QED BY <2>1 DEF ResultInv, ResultsOwn
<1>2. CASE TakeEvent(t)
  <2> DEFINE e == Head(port)
  <2>1. /\ pc[t] = "wait" /\ UNCHANGED <<outcome, oper, error, awaits>> /\ e = port[1]
        /\ 1 \in 1 .. Len(port) /\ t \in Threads
        /\ cur' = [cur EXCEPT ![t] = IF e.of # None THEN e.of ELSE e.key]
        /\ result' = IF e.of # None THEN [result EXCEPT ![e.of] = outcome[e.of]] ELSE result
        /\ \A u \in Threads : pc'[u] = "started" => pc[u] = "started"
    BY <1>2, PortTail DEF TakeEvent, Goto, AfterEmpty, TypeOK, Threads, kernelVars
  <2>2. e.of \in Coros \/ (e.of = None /\ e.key = None)
    BY <2>1 DEF PortInv
  <2>3. e.of \in Coros => awaits[e.of] # 0
    <3>1. e.of \in Coros => At(e.of, "port", None, 1)
      BY <2>1 DEF At
    <3> QED BY <3>1 DEF PlaceInv, PlaceOf
  <2> HIDE DEF e
  <2>4. \A d \in Coros : result'[d] = result[d] \/ (d = e.of /\ result'[d] = outcome[d])
    BY <2>1, <2>2 DEF TypeOK
  <2>5. \A u \in Threads : /\ cur[u] \in Coros \cup {None}
                           /\ cur'[u] # None => cur'[u] = cur[u] \/ cur'[u] = e.of
    BY <2>1, <2>2 DEF TypeOK
  <2>6. e.of \in Coros => result'[e.of] = outcome[e.of]
    BY <2>1 DEF TypeOK
  <2>7. ResultsOwn'
    BY <2>1, <2>2, <2>4, <2>5, <2>6 DEF ResultInv, ResultsOwn
  <2>8. \A d \in Coros : awaits'[d] = 0 => result'[d] = "none" /\ outcome'[d] = "none"
    BY <2>1, <2>3, <2>4 DEF ResultInv
  <2> QED BY <2>1, <2>7, <2>8 DEF ResultInv
<1> QED BY <1>1, <1>2

LEMMA KernelResults ==
  ASSUME IInv, NEW c \in Coros, KernelCompletes(c)
  PROVE  ResultInv'
<1> USE CorosAssumption DEF IInv
<1>1. PICK o \in Outcomes :
      /\ c \in kernel /\ outcome' = [outcome EXCEPT ![c] = o]
      /\ UNCHANGED <<result, pc, cur, oper, error, awaits>>
  BY DEF KernelCompletes, listVars, coroVars
<1>2. Only(c, "kernel", None, 0) /\ awaits[c] # 0
  <2>1. At(c, "kernel", None, 0) /\ PlaceOf(c)
    BY <1>1 DEF At, PlaceInv
  <2> QED BY <2>1 DEF Only, PlaceOf
<1>3. /\ \A u \in Threads : cur[u] # c
      /\ \A u \in Threads : oper[u] = c => error[u] = "pending"
  <2>1. /\ \A u \in Threads : cur[u] = c => At(c, "running", u, 0)
        /\ \A u \in Threads : oper[u] = c
                              /\ error[u] # "pending" => At(c, "starting", u, 0)
    BY DEF At
  <2> QED BY <1>2, <2>1 DEF Only
<1>4. \A d \in Coros : d # c => outcome'[d] = outcome[d]
  BY <1>1 DEF TypeOK
<1>5. \A u \in Threads : cur[u] \in Coros \cup {None} /\ oper[u] \in Coros \cup {None}
  BY DEF TypeOK
<1>6. ResultsOwn'
  BY <1>1, <1>3, <1>4, <1>5 DEF ResultInv, ResultsOwn
<1>7. \A u \in Threads : pc[u] = "started" /\ error[u] # "pending" =>
                           oper[u] \in Coros /\ oper[u] # c
  BY <1>3 DEF ThreadInv
<1>8. \A d \in Coros : awaits[d] = 0 => result[d] = "none" /\ outcome'[d] = "none"
  BY <1>2, <1>4 DEF ResultInv
<1> QED BY <1>1, <1>4, <1>6, <1>7, <1>8 DEF ResultInv
-----------------------------------------------------------------------------
LEMMA NextIInv == IInv /\ [Next]_vars => IInv'
<1> SUFFICES ASSUME IInv, [Next]_vars PROVE IInv'
  OBVIOUS
<1> CtlInv
  BY DEF IInv, CtlInv
<1>1. CASE UNCHANGED vars
  <2>1. UNCHANGED <<port, kernel, outcome, overflow, rest, result, pc, cur, oper, error,
                    awaits, ended, dropped>>
    BY <1>1 DEF vars, kernelVars, listVars, coroVars
  <2>2. CtlInv' /\ ResultInv'
    BY <2>1 DEF IInv, CtlInv, TypeOK, ThreadInv, PortInv, ResultInv, ResultsOwn
  <2>3. \A c, k, t, i : At(c, k, t, i)' <=> At(c, k, t, i)
    BY <2>1 DEF At
  <2>4. PlaceInv'
    BY <2>1, <2>3, Quiet DEF IInv, PlaceInv
  <2> QED BY <2>2, <2>4 DEF IInv, CtlInv
<1>2. ASSUME NEW t \in Threads, NEW c \in Coros, Begin(t, c) PROVE IInv'
  BY <1>2, CodeType, BeginPlaces, CodeResults DEF IInv, CtlInv
<1>3. ASSUME NEW t \in Threads, End(t) PROVE IInv'
  BY <1>3, CodeType, EndPlaces, CodeResults DEF IInv, CtlInv
<1>4. ASSUME NEW t \in Threads, Schedule(t) PROVE IInv'
  BY <1>4, CodeType, SchedulePlaces, CodeResults DEF IInv, CtlInv
<1>5. ASSUME NEW t \in Threads, PushOverflow(t) PROVE IInv'
  BY <1>5, CodeType, PushPlaces, CodeResults DEF IInv, CtlInv
<1>6. ASSUME NEW t \in Threads, StartFileOperation(t) PROVE IInv'
  BY <1>6, CodeType, StartPlaces, FileResults DEF IInv, CtlInv
<1>7. ASSUME NEW t \in Threads, ReturnFromStart(t) PROVE IInv'
  BY <1>7, CodeType, ReturnPlaces, FileResults DEF IInv, CtlInv
<1>8. ASSUME NEW t \in IOThreads,
             TakeOverflow(t) \/ Repost(t) \/ PutBack(t) \/ TakeEvent(t)
      PROVE  IInv'
  <2>1. PlaceInv'
    BY <1>8, TakePlaces, RepostPlaces, PutBackPlaces, EventPlaces DEF IInv
  <2> QED BY <1>8, <2>1, LoopType, LoopResults DEF IInv, CtlInv
<1>9. ASSUME NEW c \in Coros, KernelCompletes(c) PROVE IInv'
  BY <1>9, KernelType, KernelPlaces, KernelResults DEF IInv, CtlInv
<1> QED BY <1>1, <1>2, <1>3, <1>4, <1>5, <1>6, <1>7, <1>8, <1>9 DEF Next, Step

LEMMA Invariant == Spec => []IInv
<1> QED BY InitIInv, NextIInv, PTL DEF Spec

\* The set of places, as the run checks it, and the places of the proof
LEMMA PlacesAreAt ==
  ASSUME TypeOK, NEW c \in Coros
  PROVE  \A p : p \in Places(c) <=>
           \/ \E t : p = <<"running", t>> /\ At(c, "running", t, 0)
           \/ \E t : p = <<"starting", t>> /\ At(c, "starting", t, 0)
           \/ p = <<"kernel">> /\ At(c, "kernel", None, 0)
           \/ \E i : p = <<"port", i>> /\ At(c, "port", None, i)
           \/ \E i : p = <<"overflow", i>> /\ At(c, "overflow", None, i)
           \/ \E t, i : p = <<"rest", t, i>> /\ At(c, "rest", t, i)
           \/ p = <<"dropped">> /\ At(c, "dropped", None, 0)
<1>1. /\ DOMAIN port = 1 .. Len(port) /\ DOMAIN overflow = 1 .. Len(overflow)
      /\ \A t \in IOThreads : DOMAIN rest[t] = 1 .. Len(rest[t])
  BY DEF TypeOK
<1>2. \A t : At(c, "running", t, 0) <=> t \in Threads /\ cur[t] = c
  BY DEF At
<1>3. \A t : At(c, "starting", t, 0) <=> t \in Threads /\ oper[t] = c
                                         /\ error[t] # "pending"
  BY DEF At
<1>4. /\ At(c, "kernel", None, 0) <=> c \in kernel
      /\ At(c, "dropped", None, 0) <=> c \in dropped
  BY DEF At
<1>5. /\ \A i : At(c, "port", None, i) <=> i \in DOMAIN port
                                           /\ c \in {port[i].of, port[i].for}
      /\ \A i : At(c, "overflow", None, i) <=> i \in DOMAIN overflow /\ overflow[i] = c
  BY <1>1 DEF At
<1>6. \A t, i : At(c, "rest", t, i) <=> t \in IOThreads /\ i \in DOMAIN rest[t]
                                        /\ rest[t][i] = c
  BY <1>1 DEF At
<1> TAKE p
<1> DEFINE Running  == {<<"running", t>> : t \in {u \in Threads : cur[u] = c}}
           Starting == {<<"starting", t>> :
                          t \in {u \in Threads : oper[u] = c /\ error[u] # "pending"}}
           Kernel   == {<<"kernel">> : k \in kernel \cap {c}}
           Port     == {<<"port", i>> :
                          i \in {j \in DOMAIN port : c \in {port[j].of, port[j].for}}}
           Over     == {<<"overflow", i>> : i \in {j \in DOMAIN overflow : overflow[j] = c}}
           Rest     == UNION {{<<"rest", t, i>> :
                                 i \in {j \in DOMAIN rest[t] : rest[t][j] = c}} :
                              t \in IOThreads}
           Dropped  == {<<"dropped">> : d \in dropped \cap {c}}
<1>7. p \in Running <=> \E t : p = <<"running", t>> /\ At(c, "running", t, 0)
  BY <1>2
<1>8. p \in Starting <=> \E t : p = <<"starting", t>> /\ At(c, "starting", t, 0)
  BY <1>3
<1>9. p \in Kernel <=> p = <<"kernel">> /\ At(c, "kernel", None, 0)
  BY <1>4
<1>10. p \in Port <=> \E i : p = <<"port", i>> /\ At(c, "port", None, i)
  BY <1>5
<1>11. p \in Over <=> \E i : p = <<"overflow", i>> /\ At(c, "overflow", None, i)
  BY <1>5
<1>12. p \in Rest <=> \E t, i : p = <<"rest", t, i>> /\ At(c, "rest", t, i)
  BY <1>6
<1>13. p \in Dropped <=> p = <<"dropped">> /\ At(c, "dropped", None, 0)
  BY <1>4
<1>14. Places(c) =
         Running \cup Starting \cup Kernel \cup Port \cup Over \cup Rest \cup Dropped
  BY DEF Places
<1> HIDE DEF Running, Starting, Kernel, Port, Over, Rest, Dropped
<1> QED BY <1>7, <1>8, <1>9, <1>10, <1>11, <1>12, <1>13, <1>14

(* A coroutine that has begun and not ended is in one place, whatever the     *)
(* threads and the kernel do: the list of overflow operations loses none, and *)
(* no operation is resumed twice.                                           *)
THEOREM StaysInOnePlace == Spec => []OnePlace
<1>1. ASSUME IInv PROVE OnePlace
  <2>1. TypeOK
    BY <1>1 DEF IInv
  <2> SUFFICES ASSUME NEW c \in Coros
               PROVE  IF awaits[c] > 0 /\ c \notin ended
                      THEN \E p \in Places(c) : Places(c) = {p}
                      ELSE c \in ended => Places(c) = {}
    BY <2>1 DEF OnePlace
  <2>2. PlaceOf(c)
    BY <1>1 DEF IInv, PlaceInv
  <2>3. CASE awaits[c] > 0 /\ c \notin ended
    <3>0. \A k, t, i : At(c, k, t, i) => \/ k \in {"running", "starting"} /\ i = 0
                                         \/ k \in {"kernel", "dropped"} /\ t = None
                                            /\ i = 0
                                         \/ k \in {"port", "overflow"} /\ t = None
                                         \/ k = "rest"
      BY DEF At
    <3>1. \E p : p \in Places(c)
      <4>1. PICK k, t, i : At(c, k, t, i)
        BY <2>2, <2>3 DEF PlaceOf
      <4>2. \/ At(c, "running", t, 0) \/ At(c, "starting", t, 0)
            \/ At(c, "kernel", None, 0) \/ At(c, "dropped", None, 0)
            \/ At(c, "port", None, i) \/ At(c, "overflow", None, i) \/ At(c, "rest", t, i)
        BY <3>0, <4>1
      <4> QED BY <2>1, <4>2, PlacesAreAt
    <3>2. \A p, q : p \in Places(c) /\ q \in Places(c) => p = q
      BY <2>1, <2>2, PlacesAreAt DEF PlaceOf
    <3> QED BY <2>3, <3>1, <3>2
  <2>4. CASE c \in ended
    <3>1. \A p : p \notin Places(c)
      BY <2>1, <2>2, <2>4, PlacesAreAt DEF PlaceOf
    <3> QED BY <2>4, <3>1
  <2> QED BY <2>3, <2>4
<1> QED BY <1>1, Invariant, PTL

(* A running coroutine reads how its own last file operation ended, also when *)
(* the kernel was faster than the thread that started the operation.         *)
THEOREM ReadsOwnResult == Spec => []ResultsOwn
<1>1. IInv => ResultsOwn
  BY DEF IInv, ResultInv
<1> QED BY <1>1, Invariant, PTL
=============================================================================
