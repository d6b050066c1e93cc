--------------------------- MODULE ParentProcess ---------------------------
(***************************************************************************)
(* The notification protocol between the tracing parent process and the    *)
(* threads of the traced child process.                                    *)
(*                                                                         *)
(*   parent   parent/ParentProcess.cpp: one action per kind of report      *)
(*            that waitpid() returns, each the whole iteration of          *)
(*            traceLoop() with the handlers it calls.                      *)
(*   kernel   ptrace stops and the SIGTRAP a tgkill leaves pending         *)
(*            (external, modelled from the way the parent uses them).      *)
(*   threads  the points of the child code the protocol is made of: int3   *)
(*            in notifyParent(), ChildThread::processNotification(),       *)
(*            system calls, clone, thread exit and process exit.           *)
(***************************************************************************)
EXTENDS Naturals, Sequences

CONSTANTS
  Tid,        \* thread ids the kernel can hand out
  mainChild,  \* the thread the parent started with vfork()/execv()
  None,       \* no thread id
  MaxSends,   \* bound: QueueProcessActions notifications sent in a behaviour
  ReuseTids   \* whether the kernel hands out the id of a reaped thread again

ASSUME MainAssumption  == mainChild \in Tid
ASSUME NoneAssumption  == None \notin Tid
ASSUME BoundAssumption == MaxSends \in Nat
ASSUME ReuseAssumption == ReuseTids \in BOOLEAN

VARIABLES
  childStates,              \* parent: "none" where the map has no entry
  childRegs,                \* parent: registers to restore, NoRegs if not saved
  childNotificationQueue,   \* parent: notifications not yet set up
  childInSyscall,           \* parent: toggled by each system call stop
  childExiting,             \* parent: 0 no entry, 2 sequence begun, 1 ThreadExiting set up
  notificationSystemReady,  \* parent: the Startup notification was seen
  exitStatus,               \* parent: "none" while traceLoop() runs
  proc,                     \* kernel: what each thread is doing
  sig,                      \* kernel: a SIGTRAP from tgkill is pending
  regs,                     \* kernel: the registers of each thread
  used,                     \* kernel: ids handed out so far
  threadMap,                \* child: ids that have a ChildThread object
  sends                     \* QueueProcessActions notifications sent so far

parentVars == <<childStates, childRegs, childNotificationQueue, childInSyscall,
                childExiting, notificationSystemReady, exitStatus>>
vars == <<parentVars, proc, sig, regs, used, threadMap, sends>>

ParentNotification == {"Startup", "ProcessingDone", "QueueProcessActions"}
ChildNotification  == {"ThreadStarted", "ProcessActions", "ThreadExited", "ThreadExiting"}

Notification == [event : ChildNotification, arg : Tid \cup {None}]

ASSUME NothingAssumption == None \notin Notification

\* What a thread executes: the program itself, the handler of a notification,
\* or the rest of the ThreadStarted handler, after the thread was registered.
User     == [event |-> "User", arg |-> None]
Dispatch == [event |-> "Dispatch", arg |-> None]
Frame    == Notification \cup {User, Dispatch}

\* "notify" is the instruction after the int3 of notifyParent().
Regs == [ip : {"code", "notify"}, frame : Frame,
         cx : ParentNotification \cup {"none"}, dx : Tid \cup {None},
         sys : {"none", "exit", "other"}]

InCode(f) == [ip |-> "code", frame |-> f, cx |-> "none", dx |-> None, sys |-> "none"]
NoRegs    == [ip |-> "none", frame |-> User, cx |-> "none", dx |-> None, sys |-> "none"]

\* "running" threads execute or are blocked, the kernel works for an
\* "insyscall" thread, every other live value is a stop the parent will see.
Stops == {"sigstop", "trap", "sysenter", "sysleave", "eventclone", "eventexit", "exited"}
Procs == Stops \cup {"absent", "running", "insyscall"}

Live(t) == proc[t] \notin {"absent", "exited"}

Init ==
  /\ childStates = [t \in Tid |-> IF t = mainChild THEN "Running" ELSE "none"]
  /\ childRegs = [t \in Tid |-> NoRegs]
  /\ childNotificationQueue = [t \in Tid |-> <<>>]
  /\ childInSyscall = [t \in Tid |-> FALSE]
  /\ childExiting = [t \in Tid |-> 0]
  /\ notificationSystemReady = FALSE
  /\ exitStatus = "none"
  /\ proc = [t \in Tid |-> IF t = mainChild THEN "running" ELSE "absent"]
  /\ sig = [t \in Tid |-> FALSE]
  /\ regs = [t \in Tid |-> InCode(User)]
  /\ used = {mainChild}
  /\ threadMap = {}
  /\ sends = 0

----------------------------------------------------------------------------
(* The parent: helpers on the values its maps take.                        *)

Ntf(e, a) == [event |-> e, arg |-> a]

\* The thread that a ptrace request continues meets a pending SIGTRAP before
\* it executes an instruction; sg is the set of pending signals by then.
Resume(t, sg) ==
  /\ proc' = [proc EXCEPT ![t] = IF sg[t] THEN "trap" ELSE "running"]
  /\ sig' = [sg EXCEPT ![t] = FALSE]

\* queueNotification(): the queues, the states and the pending signals after
\* stopped t queued n for r. The map of states yields Running for a missing entry.
Pushed(r, n) == [childNotificationQueue EXCEPT ![r] = Append(@, n)]

Wakes(t, r) == t # r /\ childStates[r] \in {"none", "Running"}

\* Mutant: the receiver is signalled and not marked as Stopping.
StatesAfterQueueNotMarked(t, r) == childStates


StatesAfterQueue(t, r) ==
  IF Wakes(t, r) THEN [childStates EXCEPT ![r] = "Stopping"] ELSE childStates

\* Mutant: the receiver is signalled in every state, as from a default case.
SignalsAfterQueueAlways(t, r) ==
  IF t # r /\ Live(r) THEN [sig EXCEPT ![r] = TRUE] ELSE sig


SignalsAfterQueue(t, r) ==
  IF Wakes(t, r) /\ Live(r) THEN [sig EXCEPT ![r] = TRUE] ELSE sig

\* Mutant: the registers are saved again for each notification.
SetupNotificationSavesAgain(t, S, n) ==
  /\ childStates' = [S EXCEPT ![t] = "ProcessingNotification"]
  /\ childRegs' = [childRegs EXCEPT ![t] = regs[t]]
  /\ regs' = [regs EXCEPT ![t] = InCode(n)]

\* setupChildNotification(pid, event, arg): redirect stopped t into the handler.
SetupNotification(t, S, n) ==
  /\ childStates' = [S EXCEPT ![t] = "ProcessingNotification"]
  /\ childRegs' = [childRegs EXCEPT ![t] = IF @ = NoRegs THEN regs[t] ELSE @]
  /\ regs' = [regs EXCEPT ![t] = InCode(n)]

\* setupChildNotification(pid): the same for the first notification queued in Q.
SetupFromQueue(t, S, Q) ==
  /\ SetupNotification(t, S, Head(Q[t]))
  /\ childNotificationQueue' = [Q EXCEPT ![t] = Tail(@)]

----------------------------------------------------------------------------
(* The parent: handleTrapOccured().                                        *)

\* Mutant: the Startup notification wakes nobody.
WaitingNobody == {}

\* The running threads that have a notification waiting.
Waiting == {u \in Tid : childStates[u] = "Running" /\ childNotificationQueue[u] # <<>>}

\* The first trap of the main thread tells the addresses; threads that have
\* a notification waiting are stopped.
StartupTrap(t) ==
  /\ t = mainChild
  /\ proc[t] = "trap"
  /\ regs[t].cx = "Startup"
  /\ ~notificationSystemReady
  /\ notificationSystemReady' = TRUE
  /\ childStates' = [u \in Tid |-> IF u = mainChild THEN "Running"
                                   ELSE IF u \in Waiting THEN "Stopping" ELSE childStates[u]]
  /\ Resume(t, [u \in Tid |-> sig[u] \/ (u \in Waiting /\ Live(u))])
  /\ UNCHANGED <<childRegs, childNotificationQueue, childInSyscall, childExiting, regs>>

\* A trap of a Running or Stopping thread: handle what the thread notifies, if
\* the trap is the int3, then start on the notifications waiting for it.
RunningTrap(t) ==
  LET notified == regs[t].ip = "notify" /\ regs[t].cx = "QueueProcessActions"
      r  == regs[t].dx
      Q  == IF notified THEN Pushed(r, Ntf("ProcessActions", None)) ELSE childNotificationQueue
      S  == IF notified THEN StatesAfterQueue(t, r) ELSE childStates
      sg == IF notified THEN SignalsAfterQueue(t, r) ELSE sig
  IN /\ proc[t] = "trap"
     /\ childStates[t] \in {"Running", "Stopping"}
     /\ t # mainChild \/ regs[t].cx # "Startup" \/ notificationSystemReady
     /\ IF Q[t] # <<>> /\ notificationSystemReady
        THEN SetupFromQueue(t, S, Q)
        ELSE /\ childNotificationQueue' = Q
             /\ childStates' = S
             /\ UNCHANGED <<childRegs, regs>>
     /\ Resume(t, sg)
     /\ UNCHANGED <<childInSyscall, childExiting, notificationSystemReady>>

\* Mutant: the saved registers are dropped before they are written back.
RestoreProgramErasedFirst(t) ==
  /\ childStates' = [childStates EXCEPT ![t] = "Running"]
  /\ childRegs' = [childRegs EXCEPT ![t] = NoRegs]
  /\ regs' = [regs EXCEPT ![t] = NoRegs]

\* Mutant: the state is not set back to running.
RestoreProgramStateKept(t) ==
  /\ regs' = [regs EXCEPT ![t] = childRegs[t]]
  /\ childRegs' = [childRegs EXCEPT ![t] = NoRegs]
  /\ UNCHANGED childStates

\* No notification is left: back to the registers of the interrupted code.
RestoreProgram(t) ==
  /\ childStates' = [childStates EXCEPT ![t] = "Running"]
  /\ regs' = [regs EXCEPT ![t] = childRegs[t]]
  /\ childRegs' = [childRegs EXCEPT ![t] = NoRegs]

\* The handler is done: the next notification, or back to the interrupted code.
DoneTrap(t) ==
  /\ proc[t] = "trap"
  /\ childStates[t] = "ProcessingNotification"
  /\ regs[t].ip = "notify" /\ regs[t].cx = "ProcessingDone"
  /\ IF childNotificationQueue[t] # <<>>
     THEN SetupFromQueue(t, childStates, childNotificationQueue)
     ELSE RestoreProgram(t) /\ UNCHANGED childNotificationQueue
  /\ Resume(t, sig)
  /\ UNCHANGED <<childInSyscall, childExiting, notificationSystemReady>>

\* A handler notifies the parent: queue for the receiver, and continue.
HandlerTrap(t) ==
  LET r == regs[t].dx
  IN /\ proc[t] = "trap"
     /\ childStates[t] = "ProcessingNotification"
     /\ regs[t].ip = "notify" /\ regs[t].cx = "QueueProcessActions"
     /\ childNotificationQueue' = Pushed(r, Ntf("ProcessActions", None))
     /\ childStates' = StatesAfterQueue(t, r)
     /\ Resume(t, SignalsAfterQueue(t, r))
     /\ UNCHANGED <<childRegs, childInSyscall, childExiting, notificationSystemReady, regs>>

\* A wakeup signal that reaches a thread already in a handler is ignored.
IgnoredTrap(t) ==
  /\ proc[t] = "trap"
  /\ childStates[t] = "ProcessingNotification"
  /\ regs[t].ip # "notify"
  /\ Resume(t, sig)
  /\ UNCHANGED <<childStates, childRegs, childNotificationQueue, childInSyscall,
                 childExiting, notificationSystemReady, regs>>

HandleTrapOccured(t) ==
  /\ \/ StartupTrap(t) \/ RunningTrap(t) \/ DoneTrap(t) \/ HandlerTrap(t) \/ IgnoredTrap(t)
  /\ UNCHANGED <<exitStatus, used, threadMap, sends>>

----------------------------------------------------------------------------
(* The parent: the other reports traceLoop() handles.                      *)

\* The initial SIGSTOP of an unknown thread: ThreadStarted, at once or later.
NewThread(t) ==
  /\ proc[t] = "sigstop"
  /\ childStates[t] = "none"
  /\ childInSyscall' = [childInSyscall EXCEPT ![t] = FALSE]
  /\ IF notificationSystemReady
     THEN /\ SetupNotification(t, childStates, Ntf("ThreadStarted", None))
          /\ UNCHANGED childNotificationQueue
     ELSE /\ childStates' = [childStates EXCEPT ![t] = "Running"]
          /\ childNotificationQueue' = Pushed(t, Ntf("ThreadStarted", None))
          /\ UNCHANGED <<childRegs, regs>>
  /\ Resume(t, sig)
  /\ UNCHANGED <<childExiting, notificationSystemReady, exitStatus, used, threadMap, sends>>

\* The initial SIGSTOP of a thread whose id has an entry: forwarded like any
\* signal. The stop it causes is continued by the next iteration.
ForwardSignal(t) ==
  /\ proc[t] = "sigstop"
  /\ childStates[t] # "none"
  /\ Resume(t, sig)
  /\ UNCHANGED <<parentVars, regs, used, threadMap, sends>>

\* An unknown thread that reports something else ends the loop with status 1.
NotStoppedFirst(t) ==
  /\ proc[t] \in Stops \ {"sigstop", "exited"}
  /\ childStates[t] = "none"
  /\ childStates' = [childStates EXCEPT ![t] = "Running"]
  /\ childInSyscall' = [childInSyscall EXCEPT ![t] = FALSE]
  /\ exitStatus' = "error"
  /\ UNCHANGED <<childRegs, childNotificationQueue, childExiting, notificationSystemReady,
                 proc, sig, regs, used, threadMap, sends>>

\* What follows a system call stop: the kernel's work, or the thread's code.
ResumeSyscall(t) ==
  IF proc[t] = "sysenter"
  THEN /\ proc' = [proc EXCEPT ![t] = "insyscall"]
       /\ UNCHANGED sig
  ELSE Resume(t, sig)

\* Mutant: an exit() out of a handler is let through.
InterceptExitOfProgram(t) ==
  IF regs[t].sys = "exit" /\ childExiting[t] = 0 /\ childStates[t] = "Running"
  THEN /\ regs' = [regs EXCEPT ![t].sys = "other"]
       /\ childExiting' = [childExiting EXCEPT ![t] = 2]
  ELSE UNCHANGED <<regs, childExiting>>

\* The first exit() of a thread is turned into getpid().
InterceptExit(t) ==
  IF regs[t].sys = "exit" /\ childExiting[t] = 0
  THEN /\ regs' = [regs EXCEPT ![t].sys = "other"]
       /\ childExiting' = [childExiting EXCEPT ![t] = 2]
  ELSE UNCHANGED <<regs, childExiting>>

\* A system call stop taken for an entry.
SyscallEnter(t) ==
  /\ proc[t] \in {"sysenter", "sysleave"}
  /\ childStates[t] # "none"
  /\ ~childInSyscall[t]
  /\ childInSyscall' = [childInSyscall EXCEPT ![t] = TRUE]
  /\ InterceptExit(t)
  /\ ResumeSyscall(t)
  /\ UNCHANGED <<childStates, childRegs, childNotificationQueue, notificationSystemReady,
                 exitStatus, used, threadMap, sends>>

\* Mutant: ThreadExiting overtakes the queue.
AnnounceExitAtOnce(t) ==
  IF childExiting[t] = 2
  THEN /\ SetupNotification(t, childStates, Ntf("ThreadExiting", None))
       /\ childExiting' = [childExiting EXCEPT ![t] = 1]
       /\ UNCHANGED childNotificationQueue
  ELSE UNCHANGED <<childStates, childRegs, childNotificationQueue, childExiting, regs>>

\* After its getpid() an exiting thread has ThreadExiting queued, and the first
\* notification of the queue set up.
AnnounceExit(t) ==
  IF childExiting[t] = 2
  THEN /\ SetupFromQueue(t, childStates, Pushed(t, Ntf("ThreadExiting", None)))
       /\ childExiting' = [childExiting EXCEPT ![t] = 1]
  ELSE UNCHANGED <<childStates, childRegs, childNotificationQueue, childExiting, regs>>

\* Mutant: the stop is counted only where nothing is announced.
SyscallLeaveMiscounts(t) ==
  /\ proc[t] \in {"sysenter", "sysleave"}
  /\ childStates[t] # "none"
  /\ childInSyscall[t]
  /\ childInSyscall' = [childInSyscall EXCEPT ![t] = (childExiting[t] = 2)]
  /\ AnnounceExit(t)
  /\ ResumeSyscall(t)
  /\ UNCHANGED <<notificationSystemReady, exitStatus, used, threadMap, sends>>

\* A system call stop taken for a return.
SyscallLeave(t) ==
  /\ proc[t] \in {"sysenter", "sysleave"}
  /\ childStates[t] # "none"
  /\ childInSyscall[t]
  /\ childInSyscall' = [childInSyscall EXCEPT ![t] = FALSE]
  /\ AnnounceExit(t)
  /\ ResumeSyscall(t)
  /\ UNCHANGED <<notificationSystemReady, exitStatus, used, threadMap, sends>>

CloneEvent(t) ==
  /\ proc[t] = "eventclone"
  /\ Resume(t, sig)
  /\ UNCHANGED <<parentVars, regs, used, threadMap, sends>>

\* Mutant: the main thread is not told.
HandleChildThreadExitedSilently(t) ==
  /\ childNotificationQueue' = [childNotificationQueue EXCEPT ![t] = <<>>]
  /\ childStates' = [childStates EXCEPT ![t] = "none"]
  /\ childRegs' = [childRegs EXCEPT ![t] = NoRegs]

\* handleChildThreadExited(): forget the thread, tell the main thread.
HandleChildThreadExited(t) ==
  /\ childNotificationQueue' = [Pushed(mainChild, Ntf("ThreadExited", t)) EXCEPT ![t] = <<>>]
  /\ childStates' = [StatesAfterQueue(t, mainChild) EXCEPT ![t] = "none"]
  /\ childRegs' = [childRegs EXCEPT ![t] = NoRegs]

\* The end of the main thread, seen either way, ends the loop.
MainExitEvent ==
  /\ proc[mainChild] \in {"eventexit", "exited"}
  /\ exitStatus' = "child"
  /\ UNCHANGED <<childStates, childRegs, childNotificationQueue, childInSyscall, childExiting,
                 notificationSystemReady, proc, sig, regs, used, threadMap, sends>>

ExitEvent(t) ==
  /\ t # mainChild
  /\ proc[t] = "eventexit"
  /\ childStates[t] # "none"
  /\ HandleChildThreadExited(t)
  /\ proc' = [proc EXCEPT ![t] = "exited"]
  /\ sig' = [SignalsAfterQueue(t, mainChild) EXCEPT ![t] = FALSE]
  /\ UNCHANGED <<childInSyscall, childExiting, notificationSystemReady, exitStatus,
                 regs, used, threadMap, sends>>

\* WIFEXITED: the thread is reaped; an entry it still has is removed again.
Exited(t) ==
  /\ t # mainChild
  /\ proc[t] = "exited"
  /\ proc' = [proc EXCEPT ![t] = "absent"]
  /\ regs' = [regs EXCEPT ![t] = InCode(User)]
  /\ IF childStates[t] # "none"
     THEN /\ HandleChildThreadExited(t)
          /\ sig' = SignalsAfterQueue(t, mainChild)
     ELSE UNCHANGED <<childStates, childRegs, childNotificationQueue, sig>>
  /\ UNCHANGED <<childInSyscall, childExiting, notificationSystemReady, exitStatus,
                 used, threadMap, sends>>

\* One iteration of traceLoop() for the thread that waitpid() returns.
TraceLoop(t) ==
  /\ exitStatus = "none"
  /\ \/ HandleTrapOccured(t)
     \/ NewThread(t) \/ ForwardSignal(t) \/ NotStoppedFirst(t)
     \/ SyscallEnter(t) \/ SyscallLeave(t)
     \/ CloneEvent(t) \/ ExitEvent(t) \/ Exited(t)
     \/ (t = mainChild /\ MainExitEvent)

----------------------------------------------------------------------------
(* The kernel (external).                                                  *)

\* The pending SIGTRAP reaches a thread that runs.
DeliverSignal(t) ==
  /\ proc[t] = "running"
  /\ sig[t]
  /\ proc' = [proc EXCEPT ![t] = "trap"]
  /\ sig' = [sig EXCEPT ![t] = FALSE]
  /\ UNCHANGED <<parentVars, regs, used, threadMap, sends>>

\* A system call ends: exit() in the exit event, another in a return stop.
FinishSyscall(t) ==
  /\ proc[t] = "insyscall"
  /\ proc' = [proc EXCEPT ![t] = IF regs[t].sys = "exit" THEN "eventexit" ELSE "sysleave"]
  /\ regs' = [regs EXCEPT ![t].sys = "none"]
  /\ UNCHANGED <<parentVars, sig, used, threadMap, sends>>

----------------------------------------------------------------------------
(* The threads of the child process.                                       *)

InProgram(t) == proc[t] = "running" /\ regs[t].ip = "code"

\* notifyParent(): the int3 raises SIGTRAP, which merges with a pending one.
Int3(t, notification, arg) ==
  /\ proc' = [proc EXCEPT ![t] = "trap"]
  /\ sig' = [sig EXCEPT ![t] = FALSE]
  /\ regs' = [regs EXCEPT ![t].ip = "notify", ![t].cx = notification, ![t].dx = arg]

ReturnFromInt3(t) ==
  /\ proc[t] = "running"
  /\ regs[t].ip = "notify"
  /\ regs' = [regs EXCEPT ![t] = InCode(@.frame)]
  /\ UNCHANGED <<parentVars, proc, sig, used, threadMap, sends>>

\* The first statement of the child's main().
Startup ==
  /\ InProgram(mainChild)
  /\ ~notificationSystemReady
  /\ Int3(mainChild, "Startup", None)
  /\ UNCHANGED <<parentVars, used, threadMap, sends>>

\* ChildThread::queueAction(): the program, or a handler that runs the actions
\* of a rule, tells the parent that thread r has actions to process.
QueueAction(t, r) ==
  /\ InProgram(t)
  /\ notificationSystemReady
  /\ regs[t].frame.event \in {"User", "Dispatch", "ProcessActions", "ThreadExiting"}
  /\ r \in threadMap
  /\ sends < MaxSends
  /\ sends' = sends + 1
  /\ Int3(t, "QueueProcessActions", r)
  /\ UNCHANGED <<parentVars, used, threadMap>>

\* Mutant: the start event is dispatched first.
RegisterThreadLater(t) ==
  /\ InProgram(t)
  /\ regs[t].frame.event = "ThreadStarted"
  /\ regs' = [regs EXCEPT ![t] = InCode(Dispatch)]
  /\ UNCHANGED <<parentVars, proc, sig, used, threadMap, sends>>

\* processNotification(): ThreadStarted first registers the thread.
RegisterThread(t) ==
  /\ InProgram(t)
  /\ regs[t].frame.event = "ThreadStarted"
  /\ threadMap' = threadMap \cup {t}
  /\ regs' = [regs EXCEPT ![t] = InCode(Dispatch)]
  /\ UNCHANGED <<parentVars, proc, sig, used, sends>>

\* The end of processNotification(). ProcessActions of a thread that has no
\* ChildThread object throws, and never gets here.
FinishHandler(t) ==
  /\ InProgram(t)
  /\ regs[t].frame.event \in {"Dispatch", "ProcessActions", "ThreadExited"}
  /\ regs[t].frame.event = "ProcessActions" => t \in threadMap
  /\ threadMap' = IF regs[t].frame.event = "ThreadExited"
                  THEN threadMap \ {regs[t].frame.arg} ELSE threadMap
  /\ Int3(t, "ProcessingDone", None)
  /\ UNCHANGED <<parentVars, used, sends>>

\* The thread returns from its start routine, or the ThreadExiting handler
\* calls exit() again. No thread exits before the Startup notification.
ThreadExit(t) ==
  /\ InProgram(t)
  /\ notificationSystemReady
  /\ t # mainChild
  /\ regs[t].frame.event \in {"User", "ThreadExiting"}
  /\ proc' = [proc EXCEPT ![t] = "sysenter"]
  /\ regs' = [regs EXCEPT ![t].sys = "exit"]
  /\ UNCHANGED <<parentVars, sig, used, threadMap, sends>>

OtherSyscall(t) ==
  /\ InProgram(t)
  /\ proc' = [proc EXCEPT ![t] = "sysenter"]
  /\ regs' = [regs EXCEPT ![t].sys = "other"]
  /\ UNCHANGED <<parentVars, sig, used, threadMap, sends>>

\* The program creates a thread, which stops at once with SIGSTOP.
Clone(t, u) ==
  /\ InProgram(t)
  /\ regs[t].frame = User
  /\ proc[u] = "absent"
  /\ u \in used => ReuseTids
  /\ proc' = [proc EXCEPT ![t] = "eventclone", ![u] = "sigstop"]
  /\ sig' = [sig EXCEPT ![u] = FALSE]
  /\ regs' = [regs EXCEPT ![u] = InCode(User)]
  /\ used' = used \cup {u}
  /\ UNCHANGED <<parentVars, threadMap, sends>>

\* The main thread returns from main(): exit_group() takes all threads down.
ExitGroup ==
  /\ InProgram(mainChild)
  /\ notificationSystemReady
  /\ regs[mainChild].frame = User
  /\ proc' = [t \in Tid |-> IF Live(t) THEN "eventexit" ELSE proc[t]]
  /\ UNCHANGED <<parentVars, sig, regs, used, threadMap, sends>>

ThreadStep(t) ==
  /\ exitStatus = "none"
  /\ \/ DeliverSignal(t) \/ FinishSyscall(t)
     \/ ReturnFromInt3(t)
     \/ RegisterThread(t) \/ FinishHandler(t)
     \/ ThreadExit(t) \/ OtherSyscall(t)
     \/ (t = mainChild /\ (Startup \/ ExitGroup))
     \/ \E u \in Tid : QueueAction(t, u) \/ Clone(t, u)

----------------------------------------------------------------------------

\* The parent has left traceLoop().
Terminated == exitStatus # "none" /\ UNCHANGED vars

Next == (\E t \in Tid : TraceLoop(t) \/ ThreadStep(t)) \/ Terminated

\* waitpid() reports every stopped thread in the end, the kernel delivers a
\* signal and interrupts a blocking call for it, handlers run to their end.
\* The program itself may block or loop for ever: no fairness for it.
Fairness(t) ==
  /\ WF_vars(TraceLoop(t))
  /\ WF_vars(exitStatus = "none" /\ DeliverSignal(t))
  /\ WF_vars(exitStatus = "none" /\ (sig[t] \/ regs[t].frame # User) /\ FinishSyscall(t))
  /\ WF_vars(exitStatus = "none" /\ regs[t].frame # User /\ ReturnFromInt3(t))
  /\ SF_vars(exitStatus = "none" /\ RegisterThread(t))
  /\ SF_vars(exitStatus = "none" /\ FinishHandler(t))
  /\ SF_vars(exitStatus = "none" /\ regs[t].frame.event = "ThreadExiting" /\ ThreadExit(t))

Spec == Init /\ [][Next]_vars
FairSpec == Spec /\ \A t \in Tid : Fairness(t)

----------------------------------------------------------------------------
(* Properties.                                                             *)

\* Every variable has its type.
TypeOK ==
  /\ childStates \in [Tid -> {"none", "Running", "Stopping", "ProcessingNotification"}]
  /\ childRegs \in [Tid -> Regs \cup {NoRegs}]
  /\ childNotificationQueue \in [Tid -> Seq(Notification)]
  /\ childInSyscall \in [Tid -> BOOLEAN]
  /\ childExiting \in [Tid -> {0, 1, 2}]
  /\ notificationSystemReady \in BOOLEAN
  /\ exitStatus \in {"none", "child", "error"}
  /\ proc \in [Tid -> Procs]
  /\ sig \in [Tid -> BOOLEAN]
  /\ regs \in [Tid -> Regs]
  /\ used \subseteq Tid
  /\ threadMap \subseteq Tid
  /\ sends \in 0 .. MaxSends

\* The state the parent keeps of a thread tells what the thread executes: its
\* program, or a handler while the registers of the program are put away. So
\* ProcessingDone restores the program and never another handler, whatever
\* wakeups, nested notifications and exits came between.
InterruptedProgramSaved ==
  \A t \in Tid : Live(t) =>
    IF childStates[t] = "ProcessingNotification"
    THEN /\ regs[t].frame # User
         /\ childRegs[t] \in Regs
         /\ childRegs[t].frame = User
    ELSE /\ regs[t].frame = User
         /\ childRegs[t] = NoRegs

\* A thread the parent knows and that has a notification waiting is in a
\* handler, is Stopping, or has exited: no wakeup is forgotten when a send
\* meets the end of a handler. And a Stopping thread has the SIGTRAP ahead of
\* it or is stopped in the trap that the SIGTRAP merged with.
NoLostWakeup ==
  \A t \in Tid : notificationSystemReady /\ Live(t) /\ proc[t] # "eventexit" =>
    /\ childNotificationQueue[t] # <<>> => childStates[t] \in {"Stopping", "ProcessingNotification"}
    /\ childStates[t] = "Stopping" => childNotificationQueue[t] # <<>> /\ (sig[t] \/ proc[t] = "trap")

\* A wakeup never stops a thread inside a handler. A handler's int3 is
\* therefore seen once, and the parent queues each of its notifications once.
HandlerNotDisturbed ==
  \A t \in Tid : childStates[t] = "ProcessingNotification"
                    /\ proc[t] \in {"running", "insyscall", "eventclone", "sysenter", "sysleave"}
                  => ~sig[t]

\* The parent tells entry and return of system calls apart only by counting
\* stops: hijacking a thread in between never makes it lose the count.
SyscallStopsInStep ==
  \A t \in Tid : /\ proc[t] = "sysenter" => ~childInSyscall[t]
                 /\ proc[t] = "sysleave" => childInSyscall[t]

\* A thread that ends by itself has run its ThreadExiting handler, so that
\* the rules for the end of threads were applied to it.
ExitingAnnounced ==
  \A t \in Tid : proc[t] = "insyscall" /\ regs[t].sys = "exit" =>
                    regs[t].frame.event = "ThreadExiting" /\ childExiting[t] = 1

\* A thread that processes actions, or dispatches its start or end event, is
\* represented by a ChildThread object, so getChildThread() finds it.
ChildThreadExists ==
  \A t \in Tid : Live(t) /\ regs[t].frame.event \in {"Dispatch", "ProcessActions", "ThreadExiting"} => t \in threadMap

\* Every notification queued for a thread reaches a handler, unless the thread
\* or the whole child process ends.
QueueDrained ==
  \A t \in Tid :
    (notificationSystemReady /\ childStates[t] # "none" /\ childNotificationQueue[t] # <<>>)
      ~> (childNotificationQueue[t] = <<>> \/ ~Live(t) \/ proc[t] = "eventexit" \/ exitStatus # "none")

\* A thread interrupted for notifications returns to its program or ends.
ProgramContinues ==
  \A t \in Tid : (childStates[t] = "ProcessingNotification")
                    ~> (childStates[t] \in {"Running", "none"} \/ exitStatus # "none")

\* The ChildThread object of a thread that exited is deleted in the end.
ExitedForgotten ==
  \A t \in Tid : (proc[t] = "exited") ~> (t \notin threadMap \/ exitStatus # "none")

----------------------------------------------------------------------------
(* Refinement: the protocol implements the service it is built for.        *)

\* What thread t handles; registering the thread is part of ThreadStarted.
Handled(t) ==
  IF ~Live(t) THEN None
  ELSE CASE regs[t].frame = User -> None
         [] regs[t].frame = Dispatch -> Ntf("ThreadStarted", None)
         [] OTHER -> regs[t].frame

Service == INSTANCE NotificationService WITH
  Thread   <- Tid,
  Message  <- Notification,
  Nothing  <- None,
  alive    <- [t \in Tid |-> Live(t)],
  inbox    <- childNotificationQueue,
  current  <- [t \in Tid |-> Handled(t)],
  finished <- [t \in Tid |-> Live(t) /\ regs[t].frame # User /\ regs[t].cx = "ProcessingDone"]

\* The threads see what NotificationService promises: in order, one at a
\* time, the program only when nothing waits, nothing dropped while they live.
ImplementsService == Service!Spec

============================================================================
