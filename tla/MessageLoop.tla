----------------------------- MODULE MessageLoop -----------------------------
(***************************************************************************)
(* The message loop of the application: MessageQueue, AccessQueue,           *)
(* PostMessage, PostQuitMessage, GUIApplication::DealMessage, and the way     *)
(* TestFrameWork runs it beside the thread of its window.                    *)
(*                                                                         *)
(* Every access to the queue takes queue_mutex and is one step.  DealMessage  *)
(* takes the lock three times: it asks whether the queue is empty, takes an   *)
(* iterator to the first message, dispatches that message with the lock       *)
(* released and erases it through the iterator afterwards.  Other threads,    *)
(* and the message's own handler, post in between.  PostQuitMessage posts two *)
(* messages, each under the lock, so the loop may run between them.           *)
(*                                                                         *)
(* A message is known by the thread that posted it and its number there, as   *)
(* a node of the multimap is by its address.                                 *)
(***************************************************************************)
EXTENDS Naturals, Sequences, FiniteSets, SequencesExt

CONSTANTS Main, WindowThread, \* the two threads of TestFrameWork
          Workers,            \* other threads that post
          Priorities,         \* what they and handlers post with
          UIResponseLimit,    \* a message below it is background
          DefaultQuitPriority,
          MaxPosts,           \* bound: messages of a worker
          MaxNested           \* bound: messages posted by handlers

VARIABLES
  qMain,     \* the multimap, highest priority first
  hShell,    \* TRUE while the shell handle is not null
  pc,        \* where the main thread is in TestFrameWork and DealMessage
  current,   \* the iterator i of DealMessage, as the message it points to
  window,    \* what the window thread does
  attached,  \* the WM_DESTROY handler that posts the quit is attached
  posted,    \* messages posted by each thread
  nested,    \* messages posted by handlers
  handled    \* ghost: messages dispatched, in order, idle ones left out

mainVars == <<hShell, pc, current, nested, handled>>
windowVars == <<window, attached>>
vars == <<qMain, mainVars, windowVars, posted>>

Threads == Workers \cup {Main, WindowThread}
Ids == {"Set", "Quit", "Task", "Input"}
NoMessage == [from |-> Main, n |-> 0, prior |-> 0, id |-> "Null"]

\* FetchIdleMessage, as Idle posts it; nothing tells two of them apart
IdleMessage ==
  [from |-> Main, n |-> 0, prior |-> UIResponseLimit, id |-> "Input"]

-----------------------------------------------------------------------------
(* The queue                                                                *)

\* emplace: behind every message of at least this priority
Placed(q, msg) ==
  InsertAt(q, Cardinality({k \in DOMAIN q : q[k].prior >= msg.prior}) + 1, msg)

\* PostMessage, one step under the lock
PostMessage(t, id, prior) ==
  /\ posted' = [posted EXCEPT ![t] = @ + 1]
  /\ qMain' = Placed(qMain, [from |-> t, n |-> posted[t] + 1,
                             prior |-> prior, id |-> id])

\* mutant of Erased: Pop, whatever is first by now
ErasedFirst(q, msg) == Tail(q)

\* erase(i): the node, wherever newer messages have put it
Erased(q, msg) == RemoveFirst(q, msg)

Work(w) ==
  /\ posted[w] < MaxPosts
  /\ \E prior \in Priorities : PostMessage(w, "Task", prior)
  /\ UNCHANGED <<mainVars, windowVars>>

-----------------------------------------------------------------------------
(* The window and its thread                                                *)

\* the window exists, GetWindowPtr returns it
CreateWindow ==
  /\ window = "creating" /\ window' = "open"
  /\ UNCHANGED <<qMain, mainVars, attached, posted>>

\* the user closes the shown window: WM_DESTROY runs what is attached, and
\* the host quit message ends the loop of the thread
Destroy ==
  /\ window = "open" /\ pc \notin {"await", "show"}
  /\ window' = IF attached THEN "quitting" ELSE "destroyed"
  /\ UNCHANGED <<qMain, mainVars, attached, posted>>

\* PostQuitMessage: first the empty shell, then the quit
PostSet ==
  /\ window = "quitting" /\ window' = "set"
  /\ PostMessage(WindowThread, "Set", DefaultQuitPriority)
  /\ UNCHANGED <<mainVars, attached>>

PostQuit ==
  /\ window = "set" /\ window' = "destroyed"
  /\ PostMessage(WindowThread, "Quit", DefaultQuitPriority)
  /\ UNCHANGED <<mainVars, attached>>

-----------------------------------------------------------------------------
(* The main thread: constructor of TestFrameWork and Run                    *)

AwaitWindow ==
  /\ pc = "await" /\ window # "creating" /\ pc' = "show"
  /\ UNCHANGED <<qMain, hShell, current, nested, handled, windowVars, posted>>

Show ==
  /\ pc = "show" /\ pc' = "attach"
  /\ UNCHANGED <<qMain, hShell, current, nested, handled, windowVars, posted>>

AttachQuit ==
  /\ pc = "attach" /\ pc' = "run" /\ attached' = TRUE
  /\ UNCHANGED <<qMain, hShell, current, nested, handled, window, posted>>

\* Run activates the main shell
SwitchShell ==
  /\ pc = "run" /\ pc' = "deal" /\ hShell' = TRUE
  /\ UNCHANGED <<qMain, current, nested, handled, windowVars, posted>>

-----------------------------------------------------------------------------
(* GUIApplication::DealMessage                                              *)

\* the queue is empty: an idle message to the shell, never queued
DealIdle ==
  /\ pc = "deal" /\ qMain = <<>>
  /\ pc' = IF hShell THEN "deal" ELSE "failed"
  /\ UNCHANGED <<qMain, hShell, current, nested, handled, windowVars, posted>>

DealNonempty ==
  /\ pc = "deal" /\ qMain # <<>> /\ pc' = "front"
  /\ UNCHANGED <<qMain, hShell, current, nested, handled, windowVars, posted>>

\* mutant of IsBackground: the idle messages count as background themselves
IsBackgroundOrIdle(msg) == msg.prior <= UIResponseLimit

\* the message posts an idle message ahead of itself
IsBackground(msg) == msg.prior < UIResponseLimit

\* cbegin; the quit message ends the loop and stays in the queue
TakeFirst ==
  /\ pc = "front" /\ current' = Head(qMain)
  /\ pc' = CASE current'.id = "Quit" -> "stopped"
             [] current'.id # "Quit" /\ IsBackground(current') -> "idle"
             [] OTHER -> "dispatch"
  /\ UNCHANGED <<qMain, hShell, nested, handled, windowVars, posted>>

Idle ==
  /\ pc = "idle" /\ pc' = "dispatch"
  /\ qMain' = Placed(qMain, IdleMessage)
  /\ UNCHANGED <<hShell, current, nested, handled, windowVars, posted>>

\* OnGotMessage dereferences the shell handle; DefShlProc handles the message
DispatchNull ==
  /\ pc = "dispatch" /\ ~hShell /\ pc' = "failed"
  /\ UNCHANGED <<qMain, hShell, current, nested, handled, windowVars, posted>>

Dispatch ==
  /\ pc = "dispatch" /\ hShell /\ pc' = "erase"
  /\ handled' = IF current.id = "Input" THEN handled
                ELSE Append(handled, current)
  /\ hShell' = (current.id # "Set")
  /\ \/ UNCHANGED <<qMain, nested, posted>>
     \/ /\ current.id = "Task" /\ nested < MaxNested /\ nested' = nested + 1
        /\ \E prior \in Priorities : PostMessage(Main, "Task", prior)
  /\ UNCHANGED <<current, windowVars>>

Erase ==
  /\ pc = "erase" /\ pc' = "deal"
  /\ qMain' = Erased(qMain, current) /\ current' = NoMessage
  /\ UNCHANGED <<hShell, nested, handled, windowVars, posted>>

-----------------------------------------------------------------------------
Init ==
  /\ qMain = <<>> /\ hShell = FALSE /\ pc = "await" /\ current = NoMessage
  /\ window = "creating" /\ attached = FALSE
  /\ posted = [t \in Threads |-> 0] /\ nested = 0 /\ handled = <<>>

Start == AwaitWindow \/ Show \/ AttachQuit \/ SwitchShell
DealMessage == DealIdle \/ DealNonempty \/ TakeFirst \/ Idle \/ DispatchNull
               \/ Dispatch \/ Erase
Window == CreateWindow \/ PostSet \/ PostQuit

Next == Start \/ DealMessage \/ Window \/ Destroy \/ \E w \in Workers : Work(w)

\* The two threads run; the user need not close the window, nor workers post
Fairness == WF_vars(Start \/ DealMessage) /\ WF_vars(Window)

Spec == Init /\ [][Next]_vars /\ Fairness

-----------------------------------------------------------------------------
(* Properties                                                               *)

Messages == [from : Threads, n : Nat, prior : Nat, id : Ids]

TypeOK ==
  /\ qMain \in Seq(Messages) /\ handled \in Seq(Messages)
  /\ hShell \in BOOLEAN /\ attached \in BOOLEAN
  /\ pc \in {"await", "show", "attach", "run", "deal", "front", "idle",
             "dispatch", "erase", "stopped", "failed"}
  /\ current \in Messages \cup {NoMessage}
  /\ pc \in {"deal", "front"} => current = NoMessage
  /\ window \in {"creating", "open", "quitting", "set", "destroyed"}
  /\ posted \in [Threads -> Nat] /\ nested \in 0..MaxNested

\* No message is dispatched twice, whatever is posted while one is dispatched
\* with the lock released; the iterator's own node is the one erased.
HandledOnce == IsInjective(handled)

\* A message leaves the queue only when it has been dispatched: an erase of
\* what is first by then would drop a newer, more urgent message unseen.
OnlyHandledLeave ==
  [][\A m \in Range(qMain) \ {IdleMessage} :
       m \in Range(qMain') \/ m \in Range(handled)]_vars

\* Of two messages of one thread the earlier is dispatched first unless the
\* later has the higher priority, whatever other threads post between them.
PostingOrderKept ==
  \A j, k \in DOMAIN handled :
    (/\ j < k /\ handled[j].from = handled[k].from
     /\ handled[j].prior <= handled[k].prior) => handled[j].n < handled[k].n

\* The handle the loop dispatches to is valid, as OnGotMessage asserts
\* (GUIApplication.h:111).  False when the loop runs between the two messages
\* of PostQuitMessage: the shell is empty and the quit not yet in the queue.
ShellValid == pc # "failed"

\* The loop has ended as it should, by the quit message.
Ended == pc = "stopped"

\* Every message, of whatever priority, is dispatched unless the quit message
\* comes first, although each background message puts an idle message ahead of
\* those behind it: DefShlProc ensures that each message is handled (LShell.h:38).
\* The assumption is the assertion above; a loop that dereferences the empty
\* shell handles nothing more, and ShellValid shows that it can come to that.
EveryMessageHandled ==
  []ShellValid =>
    \A w \in Workers, n \in 1..MaxPosts :
      posted[w] >= n ~> Ended \/ \E k \in DOMAIN handled :
                                   handled[k].from = w /\ handled[k].n = n

\* Once the whole quit request is in the queue the loop ends by it: nothing
\* that others post is dispatched to the empty shell first.
QuitEndsLoop ==
  (pc = "deal" /\ \E m \in Range(qMain) : m.id = "Quit") ~> pc = "stopped"
=============================================================================
