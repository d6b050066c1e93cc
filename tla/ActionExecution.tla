-------------------------- MODULE ActionExecution --------------------------
(***************************************************************************)
(* How a thread of the child process executes an action in another thread. *)
(*                                                                         *)
(* ActionBase::execute() hands a helper action to the target thread and    *)
(* waits at the barrier of the helper. The target is interrupted by the    *)
(* notification protocol (module ParentProcess) and runs the actions of    *)
(* its queue in ChildThread::processNotification(), on top of whatever it  *)
(* was doing: it may be waiting at a barrier or hold a mutex.              *)
(*                                                                         *)
(* Each thread has a stack of frames, the innermost call first; op is the  *)
(* point a frame has reached.                                              *)
(***************************************************************************)
EXTENDS Naturals, Sequences

CONSTANTS
  Thread,           \* the threads of the child process
  mainChild,        \* the main thread, which has no ChildThread object
  Workloads,        \* the threads that start in Workload::startInThread()
  None,             \* no thread, no call
  Call,             \* the calls of execute() of a scenario
  To,               \* the thread each is restricted to, or None
  ByWorkload,       \* those restricted by a workload, the others by a tid
  Program,          \* the calls each thread makes
  Calls             \* the calls the action of each call makes

ASSUME ThreadsAssumption  == mainChild \in Thread /\ Workloads \subseteq Thread \ {mainChild}
ASSUME NoneAssumption     == None \notin Thread /\ None \notin Call
ASSUME DistinctAssumption == Thread \cap Call = {}
ASSUME ToAssumption       == To \in [Call -> (Thread \ {mainChild}) \cup {None}]
ASSUME WorkloadAssumption == ByWorkload \subseteq {c \in Call : To[c] \in Workloads}
ASSUME ProgramAssumption  == Program \in [Thread -> Seq(Call)]
ASSUME CallsAssumption    == Calls \in [Call -> Seq(Call)]

\* The calls in the code of a thread, or of the action of a call. Each call is
\* made at one place.
Code(x) == IF x \in Thread THEN Program[x] ELSE Calls[x]

ASSUME OnceAssumption ==
  \A x, y \in Thread \cup Call : \A i \in DOMAIN Code(x), j \in DOMAIN Code(y) :
    Code(x)[i] = Code(y)[j] => x = y /\ i = j

ASSUME MadeAssumption ==
  \A c \in Call : \E x \in Thread \cup Call : \E i \in DOMAIN Code(x) : Code(x)[i] = c

VARIABLES
  stack,        \* the frames of each thread
  alive,        \* the threads that have not ended
  threadMap,    \* the threads that have a ChildThread object
  childThread,  \* the workloads that know their ChildThread
  actionQueue,  \* ChildThread::actionQueue
  waiting,      \* Workload::actionQueue
  mutex,        \* the holder of each mutex
  opened,       \* the helpers whose barrier is open
  inbox,        \* notifications the parent has for each thread
  ran,          \* the calls whose action has run
  returned,     \* the calls that have returned
  aborted       \* the process has ended because of an error, or does something undefined

vars == <<stack, alive, threadMap, childThread, actionQueue, waiting, mutex, opened,
          inbox, ran, returned, aborted>>

Ntf(e, a) == [event |-> e, arg |-> a]

\* The mutexes: of the thread map, of the action queue of a ChildThread, the
\* childThreadMutex of a workload, and of the barrier of the helper of a call.
MapMutex == <<"threadMap", None>>
QueueMutex(t) == <<"actionQueue", t>>
ChildThreadMutex(w) == <<"childThread", w>>
BarrierMutex(c) == <<"barrier", c>>
Mutex == {MapMutex} \cup {QueueMutex(t) : t \in Thread} \cup {ChildThreadMutex(w) : w \in Workloads}
           \cup {BarrierMutex(c) : c \in Call}

\* Frames that wait for a mutex, and the point they reach with it.
AfterLock ==
  [find |-> "found", push |-> "pushed", askWorkload |-> "asked",
   attach |-> "attachFind", attachFind |-> "attachFound",
   lookup |-> "lookedUp", exiting |-> "exitFound", forget |-> "forgot",
   helper |-> "open", wait |-> "waitImp", asleep |-> "waitImp"]

\* The points of a helper whose action has run, or runs in the frame above it,
\* and of the caller that waits for it.
HelperOps == {"helper", "open"}
WaitOps == {"wait", "waitImp", "asleep"}

HandlerOps == {"lookup", "lookedUp", "process", "exiting", "exitFound", "forget", "forgot"}
F(op, c, r) == [op |-> op, call |-> c, to |-> r, rest |-> <<>>]

Top(t) == Head(stack[t])
At(t, op) == stack[t] # <<>> /\ Top(t).op = op
Goto(t, op) == stack' = [stack EXCEPT ![t] = <<[Head(@) EXCEPT !.op = op]>> \o Tail(@)]
Enter(t, frames) == stack' = [stack EXCEPT ![t] = frames \o @]
Leave(t) == stack' = [stack EXCEPT ![t] = Tail(@)]
HasFrame(t, ops, c) == \E i \in 1 .. Len(stack[t]) : stack[t][i].op \in ops /\ stack[t][i].call = c
InHandler(t) == \E i \in 1 .. Len(stack[t]) : stack[t][i].op \in HandlerOps

\* All threads but the main thread are registered; workloads begin with
\* startInThread(), the others are somewhere in their program.
Init ==
  /\ stack = [t \in Thread |->
                (IF t \in Workloads THEN <<F("attach", None, t)>> ELSE <<>>)
                  \o <<[F("program", None, None) EXCEPT !.rest = Program[t]]>>]
  /\ alive = Thread
  /\ threadMap = Thread \ {mainChild}
  /\ childThread = {}
  /\ actionQueue = [t \in Thread |-> <<>>]
  /\ waiting = [w \in Workloads |-> <<>>]
  /\ mutex = [m \in Mutex |-> None]
  /\ opened = {}
  /\ inbox = [t \in Thread |-> <<>>]
  /\ ran = {}
  /\ returned = {}
  /\ aborted = FALSE

----------------------------------------------------------------------------
(* Mutex::lock() and unLock(): the mutexes are not recursive.              *)

Needed(t) ==
  CASE Top(t).op \in {"find", "attachFind", "lookup", "exiting", "forget"} -> MapMutex
    [] Top(t).op = "push" -> QueueMutex(Top(t).to)
    [] Top(t).op \in {"askWorkload", "attach"} -> ChildThreadMutex(Top(t).to)
    [] Top(t).op \in {"helper", "wait", "asleep"} -> BarrierMutex(Top(t).call)
    [] OTHER -> QueueMutex(t)

\* pthread_cond_wait() takes the mutex again after it was signalled. That it does
\* not return before is assumed.
Lock(t) ==
  /\ stack[t] # <<>> /\ Top(t).op \in DOMAIN AfterLock
  /\ Top(t).op = "push" => Top(t).to \in threadMap
  /\ Top(t).op = "asleep" => Top(t).call \in opened
  /\ mutex[Needed(t)] = None
  /\ mutex' = [mutex EXCEPT ![Needed(t)] = t]
  /\ Goto(t, AfterLock[Top(t).op])
  /\ UNCHANGED <<alive, threadMap, childThread, actionQueue, waiting, opened, inbox,
                 ran, returned, aborted>>

Unlock(m) == mutex' = [mutex EXCEPT ![m] = None]

\* getChildThread() throws with the mutex held: a program ends the process, a
\* handler catches it and returns to an address that is not its own. What comes
\* after either is left out. Queueing in a ChildThread that was deleted may also
\* end the process.
Abort(t) ==
  /\ \/ At(t, "found") /\ Top(t).to \notin threadMap
     \/ At(t, "push") /\ Top(t).to \notin threadMap
     \/ At(t, "lookedUp") /\ t \notin threadMap
  /\ aborted' = TRUE
  /\ UNCHANGED <<stack, alive, threadMap, childThread, actionQueue, waiting, mutex,
                 opened, inbox, ran, returned>>

\* The other outcome of queueing in a deleted ChildThread: the action is lost.
QueueInDeleted(t) ==
  /\ At(t, "push")
  /\ Top(t).to \notin threadMap
  /\ Leave(t)
  /\ UNCHANGED <<alive, threadMap, childThread, actionQueue, waiting, mutex, opened,
                 inbox, ran, returned, aborted>>

----------------------------------------------------------------------------
(* ActionBase::execute() and startExecute().                               *)

\* Mutant: the action of a workload that has no thread yet runs at once.
StartUnattached(t, c) ==
  LET direct == <<[F("imp", c, None) EXCEPT !.rest = Calls[c]], F("helper", c, None)>>
  IN IF To[c] \in {None, t} \/ (c \in ByWorkload /\ To[c] \notin childThread) THEN direct
     ELSE IF c \in ByWorkload THEN <<F("push", c, To[c])>>
     ELSE <<F("find", c, To[c])>>

\* Where startExecute() sends the helper action: it is executed at once, it
\* is queued in the thread, or it is left with the workload.
Start(t, c) ==
  LET direct == <<[F("imp", c, None) EXCEPT !.rest = Calls[c]], F("helper", c, None)>>
  IN IF c \in ByWorkload /\ To[c] \notin childThread THEN <<F("askWorkload", c, To[c])>>
     ELSE IF To[c] \in {None, t} THEN direct
     ELSE IF c \in ByWorkload THEN <<F("push", c, To[c])>>
     ELSE <<F("find", c, To[c])>>

Execute(t) ==
  /\ stack[t] # <<>> /\ Top(t).op \in {"program", "imp"} /\ Top(t).rest # <<>>
  /\ LET c == Head(Top(t).rest)
         caller == [Top(t) EXCEPT !.rest = Tail(@)]
     IN stack' = [stack EXCEPT ![t] =
                    Start(t, c) \o <<F("wait", c, None)>> \o <<caller>> \o Tail(@)]
  /\ UNCHANGED <<alive, threadMap, childThread, actionQueue, waiting, mutex, opened,
                 inbox, ran, returned, aborted>>

\* The action has run, the helper goes on.
EndAction(t) ==
  /\ At(t, "imp") /\ Top(t).rest = <<>>
  /\ ran' = ran \cup {Top(t).call}
  /\ Leave(t)
  /\ UNCHANGED <<alive, threadMap, childThread, actionQueue, waiting, mutex, opened,
                 inbox, returned, aborted>>

\* Barrier::open() of the helper, under the mutex of the barrier: who sleeps
\* there is signalled.
OpenBarrier(t) ==
  /\ At(t, "open")
  /\ opened' = opened \cup {Top(t).call}
  /\ Unlock(BarrierMutex(Top(t).call))
  /\ Leave(t)
  /\ UNCHANGED <<alive, threadMap, childThread, actionQueue, waiting, inbox, ran,
                 returned, aborted>>

\* Barrier::waitImp() of a closed barrier: pthread_cond_wait() releases the mutex.
Sleep(t) ==
  /\ At(t, "waitImp")
  /\ Top(t).call \notin opened
  /\ Unlock(BarrierMutex(Top(t).call))
  /\ Goto(t, "asleep")
  /\ UNCHANGED <<alive, threadMap, childThread, actionQueue, waiting, opened, inbox,
                 ran, returned, aborted>>

\* Mutant: the barrier is created open.
PassBarrierOpen(t) ==
  /\ At(t, "waitImp")
  /\ returned' = returned \cup {Top(t).call}
  /\ Unlock(BarrierMutex(Top(t).call))
  /\ Leave(t)
  /\ UNCHANGED <<alive, threadMap, childThread, actionQueue, waiting, opened, inbox,
                 ran, aborted>>

\* The barrier is open, at once or when the wait ends; it stays open.
PassBarrier(t) ==
  /\ At(t, "waitImp")
  /\ Top(t).call \in opened
  /\ returned' = returned \cup {Top(t).call}
  /\ Unlock(BarrierMutex(Top(t).call))
  /\ Leave(t)
  /\ UNCHANGED <<alive, threadMap, childThread, actionQueue, waiting, opened, inbox,
                 ran, aborted>>

----------------------------------------------------------------------------
(* ChildThread::getChildThread() and queueAction().                        *)

Found(t) ==
  /\ At(t, "found")
  /\ Top(t).to \in threadMap
  /\ Unlock(MapMutex)
  /\ Goto(t, "push")
  /\ UNCHANGED <<alive, threadMap, childThread, actionQueue, waiting, opened, inbox,
                 ran, returned, aborted>>

\* Mutant: a thread that forwards to itself does not notify.
PushedSilently(t) ==
  /\ At(t, "pushed")
  /\ actionQueue' = [actionQueue EXCEPT ![Top(t).to] = Append(@, Top(t).call)]
  /\ Unlock(QueueMutex(Top(t).to))
  /\ IF Top(t).to = t THEN Leave(t) ELSE Goto(t, "notify")
  /\ UNCHANGED <<alive, threadMap, childThread, waiting, opened, inbox, ran, returned, aborted>>

Pushed(t) ==
  /\ At(t, "pushed")
  /\ actionQueue' = [actionQueue EXCEPT ![Top(t).to] = Append(@, Top(t).call)]
  /\ Unlock(QueueMutex(Top(t).to))
  /\ Goto(t, "notify")
  /\ UNCHANGED <<alive, threadMap, childThread, waiting, opened, inbox, ran, returned, aborted>>

\* The parent gets QueueProcessActions and has a notification for the thread,
\* which reaches it unless it has ended.
Notify(t) ==
  /\ At(t, "notify")
  /\ LET r == Top(t).to
     IN inbox' = IF r \in alive
                 THEN [inbox EXCEPT ![r] = Append(@, Ntf("ProcessActions", None))] ELSE inbox
  /\ Leave(t)
  /\ UNCHANGED <<alive, threadMap, childThread, actionQueue, waiting, mutex, opened,
                 ran, returned, aborted>>

----------------------------------------------------------------------------
(* Workload::queueAction() and startInThread().                            *)

\* Under the mutex of the workload: forward to its thread, or keep.
Asked(t) ==
  LET f == Top(t)
  IN /\ At(t, "asked")
     /\ IF f.to \in childThread
        THEN /\ stack' = [stack EXCEPT ![t] = <<F("push", f.call, f.to), F("answered", None, f.to)>>
                                                \o Tail(@)]
             /\ UNCHANGED waiting
        ELSE /\ waiting' = [waiting EXCEPT ![f.to] = Append(@, f.call)]
             /\ Goto(t, "answered")
     /\ UNCHANGED <<alive, threadMap, childThread, actionQueue, mutex, opened, inbox,
                    ran, returned, aborted>>

Answered(t) ==
  /\ At(t, "answered")
  /\ Unlock(ChildThreadMutex(Top(t).to))
  /\ Leave(t)
  /\ UNCHANGED <<alive, threadMap, childThread, actionQueue, waiting, opened, inbox,
                 ran, returned, aborted>>

\* The workload learns its ChildThread ...
AttachFound(t) ==
  /\ At(t, "attachFound")
  /\ childThread' = childThread \cup {t}
  /\ Unlock(MapMutex)
  /\ Goto(t, "forward")
  /\ UNCHANGED <<alive, threadMap, actionQueue, waiting, opened, inbox, ran, returned, aborted>>

\* Mutant: what waited for the thread is left in the workload.
ForwardNothing(t) ==
  /\ At(t, "forward")
  /\ Leave(t)
  /\ Unlock(ChildThreadMutex(t))
  /\ UNCHANGED <<alive, threadMap, childThread, actionQueue, waiting, opened, inbox, ran,
                 returned, aborted>>

\* ... and forwards the actions that waited for it, still under its mutex.
Forward(t) ==
  /\ At(t, "forward")
  /\ IF waiting[t] # <<>>
     THEN /\ Enter(t, <<F("push", Head(waiting[t]), t)>>)
          /\ waiting' = [waiting EXCEPT ![t] = Tail(@)]
          /\ UNCHANGED mutex
     ELSE /\ Leave(t)
          /\ Unlock(ChildThreadMutex(t))
          /\ UNCHANGED waiting
  /\ UNCHANGED <<alive, threadMap, childThread, actionQueue, opened, inbox, ran, returned, aborted>>

----------------------------------------------------------------------------
(* ChildThread::processNotification().                                     *)

Handler(n) ==
  CASE n.event = "ProcessActions" -> F("lookup", None, None)
    [] n.event = "ThreadExiting"  -> F("exiting", None, None)
    [] n.event = "ThreadExited"   -> F("forget", None, n.arg)

\* A thread that is in no handler is redirected, wherever it is.
Interrupt(t) ==
  /\ t \in alive
  /\ ~InHandler(t)
  /\ inbox[t] # <<>>
  /\ Enter(t, <<Handler(Head(inbox[t]))>>)
  /\ inbox' = [inbox EXCEPT ![t] = Tail(@)]
  /\ UNCHANGED <<alive, threadMap, childThread, actionQueue, waiting, mutex, opened,
                 ran, returned, aborted>>

\* ProcessingDone: the next notification, or back to the interrupted code.
NextNotification(t) ==
  IF inbox[t] # <<>>
  THEN /\ stack' = [stack EXCEPT ![t] = <<Handler(Head(inbox[t]))>> \o Tail(@)]
       /\ inbox' = [inbox EXCEPT ![t] = Tail(@)]
  ELSE Leave(t) /\ UNCHANGED inbox

LookedUp(t) ==
  /\ At(t, "lookedUp")
  /\ t \in threadMap
  /\ Unlock(MapMutex)
  /\ Goto(t, "process")
  /\ UNCHANGED <<alive, threadMap, childThread, actionQueue, waiting, opened, inbox,
                 ran, returned, aborted>>

\* Mutant: the helper opens its barrier before it runs the action.
ProcessActionsOpensFirst(t) ==
  /\ At(t, "process")
  /\ mutex[QueueMutex(t)] = None
  /\ IF actionQueue[t] # <<>>
     THEN /\ LET c == Head(actionQueue[t])
             IN Enter(t, <<F("helper", c, None), [F("imp", c, None) EXCEPT !.rest = Calls[c]]>>)
          /\ actionQueue' = [actionQueue EXCEPT ![t] = Tail(@)]
          /\ UNCHANGED inbox
     ELSE NextNotification(t) /\ UNCHANGED actionQueue
  /\ UNCHANGED <<alive, threadMap, childThread, waiting, mutex, opened, ran, returned, aborted>>

\* processActions(): execute the first action, or end the handler.
ProcessActions(t) ==
  /\ At(t, "process")
  /\ mutex[QueueMutex(t)] = None
  /\ IF actionQueue[t] # <<>>
     THEN /\ LET c == Head(actionQueue[t])
             IN Enter(t, <<[F("imp", c, None) EXCEPT !.rest = Calls[c]], F("helper", c, None)>>)
          /\ actionQueue' = [actionQueue EXCEPT ![t] = Tail(@)]
          /\ UNCHANGED inbox
     ELSE NextNotification(t) /\ UNCHANGED actionQueue
  /\ UNCHANGED <<alive, threadMap, childThread, waiting, mutex, opened, ran, returned, aborted>>

\* ThreadExited: the ChildThread is deleted.
Forgot(t) ==
  /\ At(t, "forgot")
  /\ threadMap' = threadMap \ {Top(t).to}
  /\ Unlock(MapMutex)
  /\ NextNotification(t)
  /\ UNCHANGED <<alive, childThread, actionQueue, waiting, opened, ran, returned, aborted>>

\* The program of a thread returns; its exit() becomes ThreadExiting.
ThreadReturns(t) ==
  /\ t # mainChild
  /\ At(t, "program") /\ Top(t).rest = <<>>
  /\ Leave(t)
  /\ inbox' = [inbox EXCEPT ![t] = Append(@, Ntf("ThreadExiting", None))]
  /\ UNCHANGED <<alive, threadMap, childThread, actionQueue, waiting, mutex, opened,
                 ran, returned, aborted>>

\* ThreadExiting ends in exit(): what the parent still has for the thread is
\* dropped, and the main thread is told.
ThreadExits(t) ==
  /\ At(t, "exitFound")
  /\ Unlock(MapMutex)
  /\ Leave(t)
  /\ alive' = alive \ {t}
  /\ inbox' = [[inbox EXCEPT ![t] = <<>>] EXCEPT ![mainChild] = Append(@, Ntf("ThreadExited", t))]
  /\ UNCHANGED <<threadMap, childThread, actionQueue, waiting, opened, ran, returned, aborted>>

----------------------------------------------------------------------------

ThreadStep(t) ==
  /\ ~aborted
  /\ \/ Lock(t) \/ Abort(t) \/ QueueInDeleted(t)
     \/ Execute(t) \/ EndAction(t) \/ OpenBarrier(t) \/ Sleep(t) \/ PassBarrier(t)
     \/ Found(t) \/ Pushed(t) \/ Notify(t)
     \/ Asked(t) \/ Answered(t) \/ AttachFound(t) \/ Forward(t)
     \/ Interrupt(t) \/ LookedUp(t) \/ ProcessActions(t) \/ Forgot(t)
     \/ ThreadReturns(t) \/ ThreadExits(t)

Next == \E t \in Thread : ThreadStep(t)

Spec == Init /\ [][Next]_vars

\* Every thread that can go on does, notifications arrive in the end (module
\* ParentProcess), and no thread waits for a mutex for ever while others take it.
FairSpec == Spec /\ \A t \in Thread : WF_vars(ThreadStep(t))

----------------------------------------------------------------------------
(* Properties.                                                             *)

\* The helper action and its barrier live on the stack of the caller: while
\* another thread can still reach them, the caller is waiting.
Reachable(c) ==
  \/ \E t \in Thread : HasFrame(t, HelperOps, c) \/ \E i \in 1 .. Len(actionQueue[t]) : actionQueue[t][i] = c
  \/ \E w \in Workloads : \E i \in 1 .. Len(waiting[w]) : waiting[w][i] = c

HelperExists == \A c \in Call : Reachable(c) => \E t \in Thread : HasFrame(t, WaitOps, c)

\* A restricted action runs in the thread it is restricted to, also when it
\* was queued in the workload before that thread existed.
RightThread == \A t \in Thread, c \in Call : HasFrame(t, {"imp"}, c) => To[c] \in {None, t}

\* No queued action is forgotten: the thread will look at its queue again, or
\* some thread is about to tell the parent, or the parent has a notification.
ActionAnnounced ==
  \A r \in alive : actionQueue[r] # <<>> =>
    \/ At(r, "lookup") \/ At(r, "lookedUp") \/ \E i \in 1 .. Len(stack[r]) : stack[r][i].op = "process"
    \/ \E i \in 1 .. Len(inbox[r]) : inbox[r][i].event = "ProcessActions"
    \/ \E t \in Thread : \E i \in 1 .. Len(stack[t]) : stack[t][i].op = "notify" /\ stack[t][i].to = r
    \/ At(r, "exiting") \/ At(r, "exitFound")

\* The caller waits in pthread_cond_wait().
Sleeps(t) == At(t, "asleep") /\ Top(t).call \notin opened

\* Thread t goes on only after u did: it waits for a mutex of u, perhaps one that
\* it holds itself in the code its handler interrupted, or for an action that u
\* cannot be interrupted to run, because it is in a handler or has yet to attach.
WaitsFor(t, u) ==
  \/ /\ stack[t] # <<>> /\ Top(t).op \in DOMAIN AfterLock \cup {"process"}
     /\ mutex[Needed(t)] = u
  \/ /\ Sleeps(t) /\ To[Top(t).call] = u
     /\ \/ InHandler(u)
        \/ u \in Workloads /\ \E i \in DOMAIN waiting[u] : waiting[u][i] = Top(t).call

\* Threads that wait for each other in a circle, one thread for itself included:
\* the hazard of running a handler anywhere.
CircularWait ==
  LET Waiting == {t \in Thread : \E u \in Thread : WaitsFor(t, u)}
  IN \E S \in SUBSET Waiting \ {{}} : \A t \in S : \E u \in S : WaitsFor(t, u)

Outstanding(c) == \E t \in Thread : HasFrame(t, WaitOps, c)

\* The thread ended without executing the call, which was not left with the workload.
TooLate(d) ==
  /\ To[d] # None /\ To[d] \notin alive
  /\ d \in ByWorkload => \A i \in DOMAIN waiting[To[d]] : waiting[To[d]][i] # d

\* The calls that were made return, unless an outstanding call came too late for
\* its thread, threads wait for each other in a circle, or the process was aborted.
\* No call is made twice, so a moment without a call comes only if each returned.
ExecuteReturns ==
  (\E c \in Call : Outstanding(c)) ~>
    \/ \A c \in Call : ~Outstanding(c)
    \/ aborted
    \/ CircularWait
    \/ \E d \in Call : Outstanding(d) /\ TooLate(d)

\* The calls behave as ActionBase::execute() promises (SynchronousExecution).
Phase(c) ==
  IF c \in returned THEN "returned"
  ELSE IF c \in ran THEN "ran"
  ELSE IF \E t \in Thread : HasFrame(t, {"imp"}, c) THEN "running"
  ELSE IF Outstanding(c) THEN "called" ELSE "idle"

Promise == INSTANCE SynchronousExecution WITH
  Caller <- [c \in Call |-> CHOOSE x \in Thread \cup Call : \E i \in DOMAIN Code(x) : Code(x)[i] = c],
  phase  <- [c \in Call |-> Phase(c)]

ImplementsExecution == Promise!Spec
============================================================================
