-------------------- MODULE ParentProcessService_proofs --------------------
(***************************************************************************)
(* Proofs about ParentProcess, for every set of thread ids and every bound *)
(* on the sends, if no id is used twice. No wakeup is lost, none disturbs  *)
(* a handler, and the parent never miscounts system call stops; every      *)
(* thread that ends has announced it, and every thread that processes      *)
(* actions is registered; and the protocol implements NotificationService. *)
(***************************************************************************)
EXTENDS ParentProcess_proofs

USE MainAssumption, NoneAssumption, BoundAssumption, ReuseAssumption

\* The thread does not exist yet, or the parent has not heard of it.
Fresh(u) == u \notin used \/ proc[u] = "sigstop"

\* Nobody knows a fresh thread, and the parent knows all others that live.
KnownOK(u) ==
  /\ Fresh(u) => /\ childStates[u] = "none"
                 /\ childNotificationQueue[u] = <<>>
                 /\ u \notin threadMap
  /\ u \notin used => proc[u] = "absent"
  /\ childStates[u] = "none" /\ Live(u) => proc[u] \in {"sigstop", "eventexit"}

\* So nobody sends to a fresh thread, also not after having been interrupted.
SendOK(r) == r.cx = "QueueProcessActions" => r.dx \in Tid /\ ~Fresh(r.dx)
ReceiverOK(u) == SendOK(regs[u]) /\ SendOK(childRegs[u])

\* Nobody sends or exits before the Startup notification.
StartOK(u) ==
  ~notificationSystemReady =>
    /\ childStates[u] \in {"none", "Running"}
    /\ proc[u] \notin {"eventexit", "exited"}
    /\ regs[u].cx # "QueueProcessActions"

\* Where a thread is, the parent's count is right.
StopsOK(u) ==
  /\ proc[u] \in {"running", "trap", "sysenter", "eventclone"} => ~childInSyscall[u]
  /\ proc[u] \in {"insyscall", "sysleave"} => childInSyscall[u]

WakeupOK(u) ==
  notificationSystemReady /\ Live(u) /\ proc[u] # "eventexit" =>
    /\ childNotificationQueue[u] # <<>> => childStates[u] \in {"Stopping", "ProcessingNotification"}
    /\ childStates[u] = "Stopping" => childNotificationQueue[u] # <<>> /\ (sig[u] \/ proc[u] = "trap")

UndisturbedOK(u) ==
  childStates[u] = "ProcessingNotification"
    /\ proc[u] \in {"running", "insyscall", "eventclone", "sysenter", "sysleave"} => ~sig[u]

ThreadOK(u) ==
  KnownOK(u) /\ ReceiverOK(u) /\ StartOK(u) /\ StopsOK(u) /\ WakeupOK(u) /\ UndisturbedOK(u)

\* The main thread is known from the start, and nothing waits for it then.
MainOK ==
  /\ ~Fresh(mainChild)
  /\ ~notificationSystemReady => childNotificationQueue[mainChild] = <<>>

\* The inductive invariant.
WInv == MainOK /\ \A u \in Tid : ThreadOK(u)

LEMMA WInvImplies ==
  ASSUME WInv
  PROVE  NoLostWakeup /\ HandlerNotDisturbed /\ SyscallStopsInStep
BY DEF WInv, ThreadOK, WakeupOK, UndisturbedOK, StopsOK, NoLostWakeup, HandlerNotDisturbed,
       SyscallStopsInStep

LEMMA WInvInit == Init => WInv
<1> SUFFICES ASSUME Init PROVE WInv
  OBVIOUS
<1>1. MainOK
  BY DEF Init, MainOK, Fresh
<1>2. ASSUME NEW u \in Tid
      PROVE  ThreadOK(u)
  <2>1. childRegs[u] = NoRegs /\ regs[u] = InCode(User)
    BY DEF Init
  <2>2. ReceiverOK(u)
    BY <2>1 DEF ReceiverOK, SendOK, InCode, NoRegs
  <2>3. /\ childStates[u] = IF u = mainChild THEN "Running" ELSE "none"
        /\ proc[u] = IF u = mainChild THEN "running" ELSE "absent"
        /\ childNotificationQueue[u] = <<>> /\ childInSyscall[u] = FALSE /\ sig[u] = FALSE
        /\ used = {mainChild} /\ threadMap = {} /\ regs[u].cx = "none"
    BY <2>1 DEF Init, InCode
  <2> QED
    BY <2>2, <2>3 DEF ThreadOK, KnownOK, StartOK, StopsOK, WakeupOK, UndisturbedOK, Fresh, Live
<1> QED
  BY <1>1, <1>2 DEF WInv

----------------------------------------------------------------------------
(* What a step of one thread, or of the parent for it, does to the others. *)

\* A fresh thread that is known stays so.
Ages == \A u \in Tid : ~Fresh(u) => ~Fresh(u)'

\* A notification is queued for a thread that did not stop.
Receives(u) ==
  /\ notificationSystemReady /\ ~Fresh(u)
  /\ childNotificationQueue'[u] # <<>>
  /\ childStates'[u] = IF childStates[u] \in {"none", "Running"} THEN "Stopping" ELSE childStates[u]
  /\ sig'[u] = (sig[u] \/ (childStates[u] \in {"none", "Running"} /\ Live(u)))

Untouched(u) ==
  childStates'[u] = childStates[u] /\ childNotificationQueue'[u] = childNotificationQueue[u]
  /\ sig'[u] = sig[u]

LEMMA OtherThread ==
  ASSUME TypeOK, NEW u \in Tid, ThreadOK(u), Ages,
         proc'[u] = proc[u], regs'[u] = regs[u], childRegs'[u] = childRegs[u],
         childInSyscall'[u] = childInSyscall[u],
         notificationSystemReady' = notificationSystemReady,
         u \in used' <=> u \in used, u \in threadMap' => u \in threadMap,
         Untouched(u) \/ Receives(u)
  PROVE  ThreadOK(u)'
<1>1. Live(u)' <=> Live(u)
  BY DEF Live
<1>2. Fresh(u)' <=> Fresh(u)
  BY DEF Fresh
<1>3. KnownOK(u)'
  BY <1>1, <1>2 DEF ThreadOK, KnownOK, Untouched, Receives
<1>4. ReceiverOK(u)'
  BY DEF ThreadOK, ReceiverOK, SendOK, Ages
<1>5. StartOK(u)' /\ StopsOK(u)'
  BY DEF ThreadOK, StartOK, StopsOK, Untouched, Receives
<1>6. WakeupOK(u)'
  <2>1. CASE Untouched(u)
    BY <1>1, <2>1 DEF ThreadOK, WakeupOK, Untouched
  <2>2. CASE Receives(u)
    <3>1. childStates[u] \in {"none", "Running", "Stopping", "ProcessingNotification"}
      BY DEF TypeOK
    <3> QED
      BY <1>1, <2>2, <3>1 DEF ThreadOK, WakeupOK, Receives
  <2> QED
    BY <2>1, <2>2
<1>7. UndisturbedOK(u)'
  BY DEF ThreadOK, UndisturbedOK, Untouched, Receives
<1> QED
  BY <1>3, <1>4, <1>5, <1>6, <1>7 DEF ThreadOK

\* A thread that the parent has continued.
LEMMA ContinuedThread ==
  ASSUME NEW t \in Tid, ReceiverOK(t)',
         t \in used', proc'[t] \in {"running", "trap"}, sig'[t] = FALSE,
         childInSyscall'[t] = FALSE,
         childStates'[t] \in {"Running", "ProcessingNotification"},
         notificationSystemReady' /\ childNotificationQueue'[t] # <<>> =>
           childStates'[t] = "ProcessingNotification",
         ~notificationSystemReady' =>
           childStates'[t] = "Running" /\ regs'[t].cx # "QueueProcessActions"
  PROVE  ThreadOK(t)'
BY DEF ThreadOK, KnownOK, StartOK, StopsOK, WakeupOK, UndisturbedOK, Fresh, Live

\* A step that changes the thread t and may queue something for others.
Others(t) ==
  \A u \in Tid \ {t} :
    /\ proc'[u] = proc[u] /\ regs'[u] = regs[u] /\ childRegs'[u] = childRegs[u]
    /\ childInSyscall'[u] = childInSyscall[u]
    /\ Untouched(u) \/ Receives(u)

LEMMA OneThread ==
  ASSUME TypeOK, WInv, NEW t \in Tid, ThreadOK(t)', Others(t),
         proc'[t] = "sigstop" => proc[t] = "sigstop",
         UNCHANGED <<notificationSystemReady, used>>,
         \A u \in Tid \ {t} : u \in threadMap' => u \in threadMap,
         notificationSystemReady \/ childNotificationQueue'[mainChild] = childNotificationQueue[mainChild]
  PROVE  WInv'
<1>1. Ages
  BY DEF Ages, Fresh, Others
<1>2. MainOK'
  BY <1>1 DEF Ages, MainOK, WInv
<1>3. ASSUME NEW u \in Tid \ {t}
      PROVE  ThreadOK(u)'
  BY <1>1, <1>3, OtherThread DEF Others, WInv
<1> QED
  BY <1>2, <1>3 DEF WInv

LEMMA ResumeFacts ==
  ASSUME TypeOK, NEW t \in Tid, NEW sg \in [Tid -> BOOLEAN], Resume(t, sg)
  PROVE  /\ proc'[t] \in {"running", "trap"} /\ sig'[t] = FALSE
         /\ \A u \in Tid \ {t} : proc'[u] = proc[u] /\ sig'[u] = sg[u]
BY DEF TypeOK, Resume

\* queueNotification(r, n), called for the stopped thread t.
LEMMA QueueFacts ==
  ASSUME TypeOK, NEW t \in Tid, NEW r \in Tid, NEW n \in Notification
  PROVE  /\ Pushed(r, n)[r] # <<>>
         /\ \A u \in Tid \ {r} : /\ Pushed(r, n)[u] = childNotificationQueue[u]
                                 /\ StatesAfterQueue(t, r)[u] = childStates[u]
                                 /\ SignalsAfterQueue(t, r)[u] = sig[u]
         /\ StatesAfterQueue(t, r)[t] = childStates[t]
         /\ r # t => /\ StatesAfterQueue(t, r)[r] =
                          IF childStates[r] \in {"none", "Running"} THEN "Stopping" ELSE childStates[r]
                     /\ SignalsAfterQueue(t, r)[r] =
                          (sig[r] \/ (childStates[r] \in {"none", "Running"} /\ Live(r)))
<1>1. Pushed(r, n)[r] # <<>>
  BY PushedType
<1>2. \A u \in Tid \ {r} : Pushed(r, n)[u] = childNotificationQueue[u]
  BY DEF TypeOK, Pushed
<1>3. \A u \in Tid \ {r} : StatesAfterQueue(t, r)[u] = childStates[u] /\ SignalsAfterQueue(t, r)[u] = sig[u]
  BY DEF TypeOK, StatesAfterQueue, SignalsAfterQueue, Wakes
<1>4. StatesAfterQueue(t, r)[t] = childStates[t]
  BY DEF TypeOK, StatesAfterQueue, Wakes
<1>5. ASSUME r # t
      PROVE  /\ StatesAfterQueue(t, r)[r] =
                    IF childStates[r] \in {"none", "Running"} THEN "Stopping" ELSE childStates[r]
             /\ SignalsAfterQueue(t, r)[r] =
                    (sig[r] \/ (childStates[r] \in {"none", "Running"} /\ Live(r)))
  <2>1. StatesAfterQueue(t, r)[r] =
          IF childStates[r] \in {"none", "Running"} THEN "Stopping" ELSE childStates[r]
    BY <1>5 DEF TypeOK, StatesAfterQueue, Wakes
  <2>2. SignalsAfterQueue(t, r)[r] =
          (sig[r] \/ (childStates[r] \in {"none", "Running"} /\ Live(r)))
    <3>1. CASE childStates[r] \in {"none", "Running"} /\ Live(r)
      BY <1>5, <3>1 DEF TypeOK, SignalsAfterQueue, Wakes
    <3>2. CASE ~(childStates[r] \in {"none", "Running"} /\ Live(r))
      <4>1. SignalsAfterQueue(t, r) = sig /\ sig[r] \in BOOLEAN
        BY <1>5, <3>2 DEF TypeOK, SignalsAfterQueue, Wakes
      <4> QED
        BY <3>2, <4>1
    <3> QED
      BY <3>1, <3>2
  <2> QED
    BY <2>1, <2>2
<1> QED
  BY <1>1, <1>2, <1>3, <1>4, <1>5

\* What is queued for others reaches them, if they are known.
LEMMA QueueReceived ==
  ASSUME TypeOK, NEW t \in Tid, NEW r \in Tid, NEW n \in Notification,
         notificationSystemReady, ~Fresh(r),
         \A u \in Tid \ {t} : /\ childNotificationQueue'[u] = Pushed(r, n)[u]
                              /\ childStates'[u] = StatesAfterQueue(t, r)[u]
                              /\ sig'[u] = SignalsAfterQueue(t, r)[u]
  PROVE  \A u \in Tid \ {t} : Untouched(u) \/ Receives(u)
<1> TAKE u \in Tid \ {t}
<1>1. CASE u = r
  BY <1>1, QueueFacts DEF Receives
<1>2. CASE u # r
  BY <1>2, QueueFacts DEF Untouched
<1> QED
  BY <1>1, <1>2

\* What SetupNotification(), in the parent, does to the threads.
LEMMA SetupFacts ==
  ASSUME TypeOK, NEW t \in Tid, NEW n,
         NEW S \in [Tid -> {"none", "Running", "Stopping", "ProcessingNotification"}],
         SetupNotification(t, S, n)
  PROVE  /\ childStates'[t] = "ProcessingNotification"
         /\ regs'[t].cx = "none"
         /\ childRegs'[t] \in {childRegs[t], regs[t]}
         /\ \A u \in Tid \ {t} : /\ childStates'[u] = S[u] /\ regs'[u] = regs[u]
                                 /\ childRegs'[u] = childRegs[u]
BY DEF TypeOK, SetupNotification, InCode

LEMMA SetupFromQueueFacts ==
  ASSUME TypeOK, NEW t \in Tid,
         NEW S \in [Tid -> {"none", "Running", "Stopping", "ProcessingNotification"}],
         NEW Q \in [Tid -> Seq(Notification)],
         SetupFromQueue(t, S, Q)
  PROVE  /\ childStates'[t] = "ProcessingNotification"
         /\ regs'[t].cx = "none"
         /\ childRegs'[t] \in {childRegs[t], regs[t]}
         /\ \A u \in Tid \ {t} : /\ childStates'[u] = S[u] /\ regs'[u] = regs[u]
                                 /\ childRegs'[u] = childRegs[u]
                                 /\ childNotificationQueue'[u] = Q[u]
<1>1. SetupNotification(t, S, Head(Q[t])) /\ childNotificationQueue' = [Q EXCEPT ![t] = Tail(@)]
  BY DEF SetupFromQueue
<1> QED
  BY <1>1, SetupFacts

\* A thread that goes on with registers that were its own.
LEMMA ReceiverKept ==
  ASSUME TypeOK, NEW t \in Tid, ReceiverOK(t), Ages,
         regs'[t].cx = "none" \/ regs'[t] \in {regs[t], childRegs[t]},
         childRegs'[t] \in {regs[t], childRegs[t], NoRegs}
  PROVE  ReceiverOK(t)'
BY DEF ReceiverOK, SendOK, Ages, NoRegs

\* A thread for which the parent keeps the same state, wherever it goes next.
LEMMA MovedThread ==
  ASSUME TypeOK, NEW t \in Tid, ThreadOK(t), ReceiverOK(t)', ~Fresh(t), t \in used', Live(t),
         proc[t] # "eventexit", proc'[t] \notin {"sigstop", "absent", "exited"},
         childStates'[t] = childStates[t], notificationSystemReady' = notificationSystemReady,
         \/ childNotificationQueue'[t] = childNotificationQueue[t]
         \/ childStates[t] = "ProcessingNotification" /\ notificationSystemReady,
         childStates[t] = "ProcessingNotification" => ~sig'[t] \/ proc'[t] \in {"trap", "eventexit"},
         childStates[t] = "Stopping" => sig'[t] \/ proc'[t] \in {"trap", "eventexit"},
         proc'[t] \in {"running", "trap", "sysenter", "eventclone"} => ~childInSyscall'[t],
         proc'[t] \in {"insyscall", "sysleave"} => childInSyscall'[t],
         proc'[t] = "eventexit" \/ regs'[t].cx = "QueueProcessActions" => notificationSystemReady
  PROVE  ThreadOK(t)'
<1>1. childStates[t] # "none"
  BY DEF ThreadOK, KnownOK, Fresh
<1>2. KnownOK(t)' /\ StopsOK(t)'
  BY <1>1 DEF KnownOK, StopsOK, Fresh
<1>3. StartOK(t)'
  BY DEF ThreadOK, StartOK
<1>4. WakeupOK(t)' /\ UndisturbedOK(t)'
  BY DEF ThreadOK, WakeupOK, UndisturbedOK, Live
<1> QED
  BY <1>2, <1>3, <1>4 DEF ThreadOK

\* A thread that ends.
LEMMA EndedThread ==
  ASSUME NEW t \in Tid, ReceiverOK(t)', t \in used', notificationSystemReady',
         proc'[t] \in {"eventexit", "exited", "absent"}
  PROVE  ThreadOK(t)'
BY DEF ThreadOK, KnownOK, StartOK, StopsOK, WakeupOK, UndisturbedOK, Fresh, Live

LEMMA AgesStep ==
  ASSUME used \subseteq used', \A u \in Tid : u \in used /\ proc'[u] = "sigstop" => proc[u] = "sigstop"
  PROVE  Ages
BY DEF Ages, Fresh

----------------------------------------------------------------------------
(* The parent: one lemma per kind of report.                               *)

LEMMA StartupTrapWakeup ==
  ASSUME IInv, WInv, NEW t \in Tid, StartupTrap(t),
         UNCHANGED <<exitStatus, used, threadMap, sends>>
  PROVE  WInv'
<1> DEFINE sg == [u \in Tid |-> sig[u] \/ (u \in Waiting /\ Live(u))]
<1>0. TypeOK
  BY DEF IInv
<1>1. /\ t = mainChild /\ proc[t] = "trap" /\ ~notificationSystemReady /\ notificationSystemReady'
      /\ Resume(t, sg)
      /\ UNCHANGED <<childRegs, childNotificationQueue, childInSyscall, childExiting, regs,
                     used, threadMap>>
  BY DEF StartupTrap
<1>2. /\ childStates'[t] = "Running"
      /\ \A u \in Tid \ {t} : childStates'[u] = IF u \in Waiting THEN "Stopping" ELSE childStates[u]
  BY DEF StartupTrap
<1>3. /\ proc'[t] \in {"running", "trap"} /\ sig'[t] = FALSE
      /\ \A u \in Tid \ {t} : proc'[u] = proc[u] /\ sig'[u] = (sig[u] \/ (u \in Waiting /\ Live(u)))
  <2>1. sg \in [Tid -> BOOLEAN]
    BY <1>0 DEF TypeOK
  <2>2. \A u \in Tid : sg[u] = (sig[u] \/ (u \in Waiting /\ Live(u)))
    OBVIOUS
  <2> HIDE DEF sg
  <2> QED
    BY <1>0, <1>1, <2>1, <2>2, ResumeFacts
<1>4. Ages
  BY <1>1, <1>3, AgesStep
<1>5. childNotificationQueue[t] = <<>> /\ MainOK'
  BY <1>1, <1>4 DEF WInv, MainOK, Ages
<1>6. \A u \in Tid : ReceiverOK(u)'
  BY <1>1, <1>4 DEF WInv, ThreadOK, ReceiverOK, SendOK, Ages
<1>7. ThreadOK(t)'
  <2>1. t \in used /\ ~childInSyscall[t]
    BY <1>1 DEF WInv, ThreadOK, KnownOK, StopsOK, Fresh
  <2>2. childInSyscall[t] \in BOOLEAN
    BY <1>0 DEF TypeOK
  <2> QED
    BY <1>1, <1>2, <1>3, <1>5, <1>6, <2>1, <2>2, ContinuedThread
<1>8. ASSUME NEW u \in Tid \ {t}
      PROVE  ThreadOK(u)'
  <2>1. /\ KnownOK(u) /\ StopsOK(u)
        /\ childStates[u] \in {"none", "Running"}
        /\ ReceiverOK(u)'
    BY <1>1, <1>6 DEF WInv, ThreadOK, StartOK
  <2>2. u \in Waiting <=> childStates[u] = "Running" /\ childNotificationQueue[u] # <<>>
    BY DEF Waiting
  <2>3. Fresh(u)' <=> Fresh(u)
    BY <1>1, <1>3 DEF Fresh
  <2>4. Live(u)' <=> Live(u)
    BY <1>3 DEF Live
  <2>5. KnownOK(u)' /\ StopsOK(u)' /\ StartOK(u)'
    BY <1>1, <1>2, <1>3, <2>1, <2>2, <2>3, <2>4 DEF KnownOK, StopsOK, StartOK
  <2>6. WakeupOK(u)'
    BY <1>1, <1>2, <1>3, <2>1, <2>2, <2>4 DEF KnownOK, WakeupOK, Fresh
  <2>7. UndisturbedOK(u)'
    BY <1>2, <2>1 DEF UndisturbedOK
  <2> QED
    BY <2>1, <2>5, <2>6, <2>7 DEF ThreadOK
<1> QED
  BY <1>5, <1>7, <1>8 DEF WInv

LEMMA RunningTrapWakeup ==
  ASSUME IInv, WInv, NEW t \in Tid, RunningTrap(t),
         UNCHANGED <<exitStatus, used, threadMap, sends>>
  PROVE  WInv'
<1> DEFINE notified == regs[t].ip = "notify" /\ regs[t].cx = "QueueProcessActions"
           r == regs[t].dx
           n == Ntf("ProcessActions", None)
           Q == IF notified THEN Pushed(r, n) ELSE childNotificationQueue
           S == IF notified THEN StatesAfterQueue(t, r) ELSE childStates
           sg == IF notified THEN SignalsAfterQueue(t, r) ELSE sig
<1>0. TypeOK
  BY DEF IInv
<1>1. n \in Notification
  BY NtfType DEF ChildNotification
<1>2. /\ Q \in [Tid -> Seq(Notification)]
      /\ S \in [Tid -> {"none", "Running", "Stopping", "ProcessingNotification"}]
      /\ sg \in [Tid -> BOOLEAN]
  BY <1>0, <1>1, PushedType, StatesAfterQueueType, SignalsAfterQueueType DEF TypeOK
<1>3. /\ proc[t] = "trap" /\ childStates[t] \in {"Running", "Stopping"} /\ Resume(t, sg)
      /\ IF Q[t] # <<>> /\ notificationSystemReady
         THEN SetupFromQueue(t, S, Q)
         ELSE /\ childNotificationQueue' = Q
              /\ childStates' = S
              /\ UNCHANGED <<childRegs, regs>>
      /\ UNCHANGED <<childInSyscall, childExiting, notificationSystemReady, used, threadMap>>
  BY DEF RunningTrap
<1>4. notified => r \in Tid /\ ~Fresh(r) /\ notificationSystemReady
  BY DEF WInv, ThreadOK, ReceiverOK, SendOK, StartOK
<1>5. S[t] = childStates[t]
  <2>1. CASE notified
    BY <1>0, <1>1, <1>4, <2>1, QueueFacts
  <2> QED
    BY <2>1
<1>6. ~notified => Q = childNotificationQueue /\ S = childStates /\ sg = sig
  OBVIOUS
<1>7. notified => Q = Pushed(r, n) /\ S = StatesAfterQueue(t, r) /\ sg = SignalsAfterQueue(t, r)
  OBVIOUS
<1>8. notified => Q[t] # <<>> \/ Q[t] = childNotificationQueue[t]
  BY <1>0, <1>1, <1>4, <1>7, QueueFacts
<1> HIDE DEF Q, S, sg, notified, r, n
<1>9. /\ proc'[t] \in {"running", "trap"} /\ sig'[t] = FALSE
      /\ \A u \in Tid \ {t} : proc'[u] = proc[u] /\ sig'[u] = sg[u]
  BY <1>0, <1>2, <1>3, ResumeFacts
<1>10. /\ \A u \in Tid \ {t} : /\ childStates'[u] = S[u] /\ regs'[u] = regs[u]
                               /\ childRegs'[u] = childRegs[u]
                               /\ childNotificationQueue'[u] = Q[u]
       /\ \/ /\ Q[t] # <<>> /\ notificationSystemReady
             /\ childStates'[t] = "ProcessingNotification"
             /\ regs'[t].cx = "none"
             /\ childRegs'[t] \in {childRegs[t], regs[t]}
          \/ /\ Q[t] = <<>> \/ ~notificationSystemReady
             /\ childStates'[t] = childStates[t] /\ childNotificationQueue'[t] = Q[t]
             /\ regs'[t] = regs[t] /\ childRegs'[t] = childRegs[t]
  <2>1. CASE Q[t] # <<>> /\ notificationSystemReady
    BY <1>0, <1>2, <1>3, <2>1, SetupFromQueueFacts
  <2>2. CASE ~(Q[t] # <<>> /\ notificationSystemReady)
    BY <1>3, <1>5, <2>2
  <2> QED
    BY <2>1, <2>2
<1>11. Ages
  BY <1>3, <1>9, AgesStep
<1>12. Others(t)
  <2>1. \A u \in Tid \ {t} : Untouched(u) \/ Receives(u)
    <3>1. CASE notified
      BY <1>0, <1>1, <1>4, <1>7, <1>9, <1>10, <3>1, QueueReceived
    <3>2. CASE ~notified
      BY <1>6, <1>9, <1>10, <3>2 DEF Untouched
    <3> QED
      BY <3>1, <3>2
  <2> QED
    BY <1>3, <1>9, <1>10, <2>1 DEF Others
<1>13. ReceiverOK(t)'
  <2>1. ReceiverOK(t)
    BY DEF WInv, ThreadOK
  <2> QED
    BY <1>0, <1>10, <1>11, <2>1, ReceiverKept
<1>14. ThreadOK(t)'
  <2>1. t \in used /\ childInSyscall'[t] = FALSE
    <3>1. t \in used /\ ~childInSyscall[t] /\ childInSyscall[t] \in BOOLEAN
      BY <1>0, <1>3 DEF WInv, ThreadOK, KnownOK, StopsOK, TypeOK
    <3> QED
      BY <1>3, <3>1
  <2>2. /\ notificationSystemReady /\ childNotificationQueue[t] = <<>> => childStates[t] = "Running"
        /\ ~notificationSystemReady => childStates[t] = "Running" /\ regs[t].cx # "QueueProcessActions"
    BY <1>3 DEF WInv, ThreadOK, StartOK, WakeupOK, Live
  <2>3. /\ childStates'[t] \in {"Running", "ProcessingNotification"}
        /\ notificationSystemReady' /\ childNotificationQueue'[t] # <<>> =>
             childStates'[t] = "ProcessingNotification"
        /\ ~notificationSystemReady' =>
             childStates'[t] = "Running" /\ regs'[t].cx # "QueueProcessActions"
    BY <1>3, <1>6, <1>8, <1>10, <2>2
  <2> QED
    BY <1>3, <1>9, <1>13, <2>1, <2>3, ContinuedThread
<1>15. notificationSystemReady \/ childNotificationQueue'[mainChild] = childNotificationQueue[mainChild]
  <2> SUFFICES ASSUME ~notificationSystemReady
               PROVE  childNotificationQueue'[mainChild] = childNotificationQueue[mainChild]
    OBVIOUS
  <2> QED
    BY <1>3, <1>4, <1>6
<1> QED
  BY <1>0, <1>3, <1>9, <1>12, <1>14, <1>15, OneThread

LEMMA DoneTrapWakeup ==
  ASSUME IInv, WInv, NEW t \in Tid, DoneTrap(t), UNCHANGED <<exitStatus, used, threadMap, sends>>
  PROVE  WInv'
<1>0. TypeOK /\ sig \in [Tid -> BOOLEAN]
  BY DEF IInv, TypeOK
<1>1. /\ proc[t] = "trap" /\ childStates[t] = "ProcessingNotification" /\ Resume(t, sig)
      /\ UNCHANGED <<childInSyscall, childExiting, notificationSystemReady, used, threadMap>>
  BY DEF DoneTrap
<1>2. notificationSystemReady
  BY <1>1 DEF IInv, QuietBeforeStartup
<1>3. /\ proc'[t] \in {"running", "trap"} /\ sig'[t] = FALSE
      /\ \A u \in Tid \ {t} : proc'[u] = proc[u] /\ sig'[u] = sig[u]
  BY <1>0, <1>1, ResumeFacts
<1>4. Ages
  BY <1>1, <1>3, AgesStep
<1>5. /\ \A u \in Tid \ {t} : /\ childStates'[u] = childStates[u] /\ regs'[u] = regs[u]
                              /\ childRegs'[u] = childRegs[u]
                              /\ childNotificationQueue'[u] = childNotificationQueue[u]
      /\ \/ /\ childStates'[t] = "ProcessingNotification" /\ regs'[t].cx = "none"
            /\ childRegs'[t] \in {childRegs[t], regs[t]}
         \/ /\ childStates'[t] = "Running" /\ childNotificationQueue'[t] = <<>>
            /\ regs'[t] = childRegs[t] /\ childRegs'[t] = NoRegs
  <2>1. CASE childNotificationQueue[t] # <<>>
    <3>1. SetupFromQueue(t, childStates, childNotificationQueue)
      BY <2>1 DEF DoneTrap
    <3>2. /\ childStates \in [Tid -> {"none", "Running", "Stopping", "ProcessingNotification"}]
          /\ childNotificationQueue \in [Tid -> Seq(Notification)]
      BY <1>0 DEF TypeOK
    <3> QED
      BY <1>0, <3>1, <3>2, SetupFromQueueFacts
  <2>2. CASE childNotificationQueue[t] = <<>>
    BY <1>0, <2>2 DEF DoneTrap, RestoreProgram, TypeOK
  <2> QED
    BY <2>1, <2>2
<1>6. Others(t)
  BY <1>1, <1>3, <1>5 DEF Others, Untouched
<1>7. ReceiverOK(t)'
  <2>1. ReceiverOK(t)
    BY DEF WInv, ThreadOK
  <2> QED
    BY <1>0, <1>4, <1>5, <2>1, ReceiverKept
<1>8. t \in used /\ childInSyscall'[t] = FALSE
  <2>1. t \in used /\ ~childInSyscall[t] /\ childInSyscall[t] \in BOOLEAN
    BY <1>0, <1>1 DEF WInv, ThreadOK, KnownOK, StopsOK, TypeOK
  <2> QED
    BY <1>1, <2>1
<1>9. ThreadOK(t)'
  BY <1>1, <1>2, <1>3, <1>5, <1>7, <1>8, ContinuedThread
<1> QED
  BY <1>0, <1>1, <1>2, <1>3, <1>6, <1>9, OneThread

LEMMA HandlerTrapWakeup ==
  ASSUME IInv, WInv, NEW t \in Tid, HandlerTrap(t),
         UNCHANGED <<exitStatus, used, threadMap, sends>>
  PROVE  WInv'
<1> DEFINE r == regs[t].dx
           n == Ntf("ProcessActions", None)
           sg == SignalsAfterQueue(t, r)
<1>0. TypeOK
  BY DEF IInv
<1>1. n \in Notification /\ sg \in [Tid -> BOOLEAN]
  BY <1>0, NtfType, SignalsAfterQueueType DEF ChildNotification
<1>2. /\ proc[t] = "trap" /\ childStates[t] = "ProcessingNotification"
      /\ regs[t].cx = "QueueProcessActions"
      /\ childNotificationQueue' = Pushed(r, n)
      /\ childStates' = StatesAfterQueue(t, r)
      /\ Resume(t, sg)
      /\ UNCHANGED <<childRegs, childInSyscall, childExiting, notificationSystemReady, regs,
                     used, threadMap>>
  BY DEF HandlerTrap
<1>3. notificationSystemReady
  BY <1>2 DEF IInv, QuietBeforeStartup
<1>4. r \in Tid /\ ~Fresh(r)
  BY <1>2 DEF WInv, ThreadOK, ReceiverOK, SendOK
<1>5. /\ proc'[t] \in {"running", "trap"} /\ sig'[t] = FALSE
      /\ \A u \in Tid \ {t} : proc'[u] = proc[u] /\ sig'[u] = SignalsAfterQueue(t, r)[u]
  <2> HIDE DEF sg
  <2>1. /\ proc'[t] \in {"running", "trap"} /\ sig'[t] = FALSE
        /\ \A u \in Tid \ {t} : proc'[u] = proc[u] /\ sig'[u] = sg[u]
    BY <1>0, <1>1, <1>2, ResumeFacts
  <2> QED
    BY <2>1 DEF sg
<1>6. Ages
  BY <1>2, <1>5, AgesStep
<1>7. \A u \in Tid \ {t} : Untouched(u) \/ Receives(u)
  <2> HIDE DEF r, n
  <2> QED
    BY <1>0, <1>1, <1>2, <1>3, <1>4, <1>5, QueueReceived
<1>8. Others(t)
  BY <1>2, <1>5, <1>7 DEF Others
<1>9. childStates'[t] = "ProcessingNotification"
  <2> HIDE DEF r
  <2> QED
    BY <1>0, <1>1, <1>2, <1>4, QueueFacts
<1>10. ReceiverOK(t)'
  <2>1. ReceiverOK(t)
    BY DEF WInv, ThreadOK
  <2> QED
    BY <1>0, <1>2, <1>6, <2>1, ReceiverKept
<1>11. t \in used /\ childInSyscall'[t] = FALSE
  <2>1. t \in used /\ ~childInSyscall[t] /\ childInSyscall[t] \in BOOLEAN
    BY <1>0, <1>2 DEF WInv, ThreadOK, KnownOK, StopsOK, TypeOK
  <2> QED
    BY <1>2, <2>1
<1>12. ThreadOK(t)'
  BY <1>2, <1>3, <1>5, <1>9, <1>10, <1>11, ContinuedThread
<1> QED
  BY <1>0, <1>2, <1>3, <1>5, <1>8, <1>12, OneThread

\* The parent continues a thread and changes nothing else.
LEMMA ResumedWakeup ==
  ASSUME IInv, WInv, NEW t \in Tid, Resume(t, sig),
         proc[t] \in {"trap", "eventclone"},
         proc[t] = "trap" => childStates[t] # "Stopping",
         UNCHANGED <<parentVars, regs, used, threadMap, sends>>
  PROVE  WInv'
<1>0. TypeOK /\ sig \in [Tid -> BOOLEAN]
  BY DEF IInv, TypeOK
<1>1. /\ proc'[t] \in {"running", "trap"} /\ sig'[t] = FALSE
      /\ \A u \in Tid \ {t} : proc'[u] = proc[u] /\ sig'[u] = sig[u]
  BY <1>0, ResumeFacts
<1>2. sig[t] => proc'[t] = "trap"
  BY <1>0 DEF Resume, TypeOK
<1>3. Ages
  BY <1>1, AgesStep
<1>4. Others(t)
  BY <1>1 DEF Others, Untouched, parentVars
<1>5. /\ ThreadOK(t) /\ ~Fresh(t) /\ t \in used /\ Live(t) /\ ~childInSyscall[t]
  BY DEF WInv, ThreadOK, KnownOK, StopsOK, Fresh, Live
<1>6. ReceiverOK(t)'
  BY <1>0, <1>3, <1>5, ReceiverKept DEF ThreadOK, parentVars
<1>7. /\ childStates[t] = "Stopping" => proc'[t] = "trap"
      /\ regs'[t].cx = "QueueProcessActions" => notificationSystemReady
  BY <1>2, <1>5 DEF ThreadOK, WakeupOK, StartOK
<1>8. ThreadOK(t)'
  <2>1. /\ proc[t] # "eventexit" /\ t \in used'
        /\ UNCHANGED <<childStates, childNotificationQueue, childInSyscall, notificationSystemReady>>
    BY <1>5 DEF parentVars
  <2>2. proc'[t] \in {"running", "trap"} /\ ~sig'[t]
    BY <1>1
  <2> QED
    BY <1>0, <1>5, <1>6, <1>7, <2>1, <2>2, MovedThread
<1> QED
  BY <1>0, <1>1, <1>4, <1>8, OneThread DEF parentVars

LEMMA NewThreadWakeup ==
  ASSUME IInv, WInv, NEW t \in Tid, NewThread(t)
  PROVE  WInv'
<1> DEFINE n == Ntf("ThreadStarted", None)
<1>0. TypeOK /\ sig \in [Tid -> BOOLEAN]
  BY DEF IInv, TypeOK
<1>1. n \in Notification
  BY NtfType DEF ChildNotification
<1>2. /\ proc[t] = "sigstop" /\ childStates[t] = "none" /\ Resume(t, sig)
      /\ childInSyscall' = [childInSyscall EXCEPT ![t] = FALSE]
      /\ UNCHANGED <<childExiting, notificationSystemReady, used, threadMap>>
  BY DEF NewThread
<1>3. /\ Fresh(t) /\ t \in used /\ childNotificationQueue[t] = <<>> /\ t # mainChild
  BY <1>2 DEF WInv, MainOK, ThreadOK, KnownOK, Fresh
<1>4. /\ proc'[t] \in {"running", "trap"} /\ sig'[t] = FALSE
      /\ \A u \in Tid \ {t} : proc'[u] = proc[u] /\ sig'[u] = sig[u]
  BY <1>0, <1>2, ResumeFacts
<1>5. Ages
  BY <1>2, <1>4, AgesStep
<1>6. /\ \A u \in Tid \ {t} : /\ childStates'[u] = childStates[u] /\ regs'[u] = regs[u]
                              /\ childRegs'[u] = childRegs[u]
                              /\ childNotificationQueue'[u] = childNotificationQueue[u]
      /\ \/ /\ childStates'[t] = "ProcessingNotification" /\ regs'[t].cx = "none"
            /\ childRegs'[t] \in {childRegs[t], regs[t]}
            /\ notificationSystemReady
         \/ /\ childStates'[t] = "Running" /\ regs'[t] = regs[t] /\ childRegs'[t] = childRegs[t]
            /\ ~notificationSystemReady
  <2>1. CASE notificationSystemReady
    <3>1. SetupNotification(t, childStates, n) /\ UNCHANGED childNotificationQueue
      BY <2>1 DEF NewThread
    <3> HIDE DEF n
    <3> QED
      BY <1>0, <1>1, <2>1, <3>1, SetupFacts DEF TypeOK
  <2>2. CASE ~notificationSystemReady
    <3>1. /\ childStates' = [childStates EXCEPT ![t] = "Running"]
          /\ childNotificationQueue' = Pushed(t, n)
          /\ UNCHANGED <<childRegs, regs>>
      BY <2>2 DEF NewThread
    <3> HIDE DEF n
    <3>2. \A u \in Tid \ {t} : Pushed(t, n)[u] = childNotificationQueue[u]
      BY <1>0, <1>1, QueueFacts
    <3> QED
      BY <1>0, <2>2, <3>1, <3>2 DEF TypeOK
  <2> QED
    BY <2>1, <2>2
<1>7. childInSyscall'[t] = FALSE /\ \A u \in Tid \ {t} : childInSyscall'[u] = childInSyscall[u]
  BY <1>0, <1>2 DEF TypeOK
<1>8. Others(t)
  BY <1>4, <1>6, <1>7 DEF Others, Untouched
<1>9. ReceiverOK(t)'
  <2>1. ReceiverOK(t)
    BY DEF WInv, ThreadOK
  <2> QED
    BY <1>0, <1>5, <1>6, <2>1, ReceiverKept
<1>10. ~notificationSystemReady => regs[t].cx # "QueueProcessActions"
  BY DEF WInv, ThreadOK, StartOK
<1>11. ThreadOK(t)'
  BY <1>2, <1>3, <1>4, <1>6, <1>7, <1>9, <1>10, ContinuedThread
<1> QED
  BY <1>0, <1>2, <1>3, <1>4, <1>6, <1>8, <1>11, OneThread

LEMMA NotStoppedFirstWakeup ==
  ASSUME IInv, WInv, NEW t \in Tid, NotStoppedFirst(t)
  PROVE  WInv'
<1>0. TypeOK
  BY DEF IInv
<1>1. /\ proc[t] \in Stops \ {"sigstop", "exited"} /\ childStates[t] = "none"
      /\ childStates' = [childStates EXCEPT ![t] = "Running"]
      /\ childInSyscall' = [childInSyscall EXCEPT ![t] = FALSE]
      /\ UNCHANGED <<childRegs, childNotificationQueue, childExiting, notificationSystemReady,
                     proc, sig, regs, used, threadMap, sends>>
  BY DEF NotStoppedFirst
<1>2. proc[t] = "eventexit" /\ t \in used /\ notificationSystemReady
  <2>1. Live(t)
    BY <1>1 DEF Live, Stops
  <2> QED
    BY <1>1, <2>1 DEF WInv, ThreadOK, KnownOK, StartOK, Stops
<1>3. Others(t)
  BY <1>0, <1>1 DEF Others, Untouched, TypeOK
<1>4. Ages
  BY <1>1, AgesStep
<1>5. ReceiverOK(t)'
  <2>1. ReceiverOK(t)
    BY DEF WInv, ThreadOK
  <2> QED
    BY <1>0, <1>1, <1>4, <2>1, ReceiverKept
<1>6. ThreadOK(t)'
  BY <1>1, <1>2, <1>5, EndedThread
<1> QED
  BY <1>0, <1>1, <1>2, <1>3, <1>6, OneThread

LEMMA ResumeSyscallFacts ==
  ASSUME TypeOK, NEW t \in Tid, proc[t] \in {"sysenter", "sysleave"}, ResumeSyscall(t)
  PROVE  /\ \A u \in Tid \ {t} : proc'[u] = proc[u] /\ sig'[u] = sig[u]
         /\ proc[t] = "sysenter" => proc'[t] = "insyscall" /\ sig'[t] = sig[t]
         /\ proc[t] = "sysleave" => /\ proc'[t] = IF sig[t] THEN "trap" ELSE "running"
                                    /\ sig'[t] = FALSE
BY DEF TypeOK, ResumeSyscall, Resume

LEMMA SyscallEnterWakeup ==
  ASSUME IInv, WInv, NEW t \in Tid, SyscallEnter(t)
  PROVE  WInv'
<1>0. TypeOK
  BY DEF IInv
<1>1. /\ proc[t] \in {"sysenter", "sysleave"} /\ ~childInSyscall[t]
      /\ childInSyscall' = [childInSyscall EXCEPT ![t] = TRUE]
      /\ ResumeSyscall(t)
      /\ UNCHANGED <<childStates, childRegs, childNotificationQueue, notificationSystemReady,
                     used, threadMap>>
  BY DEF SyscallEnter
<1>2. ThreadOK(t) /\ ~Fresh(t) /\ t \in used /\ Live(t) /\ proc[t] = "sysenter"
  BY <1>1 DEF WInv, ThreadOK, KnownOK, StopsOK, Fresh, Live
<1>3. /\ proc'[t] = "insyscall" /\ sig'[t] = sig[t]
      /\ \A u \in Tid \ {t} : proc'[u] = proc[u] /\ sig'[u] = sig[u]
  BY <1>0, <1>1, <1>2, ResumeSyscallFacts
<1>4. /\ childInSyscall'[t] = TRUE
      /\ \A u \in Tid \ {t} : childInSyscall'[u] = childInSyscall[u]
  BY <1>0, <1>1 DEF TypeOK
<1>5. /\ regs'[t].cx = regs[t].cx /\ regs'[t].dx = regs[t].dx
      /\ \A u \in Tid \ {t} : regs'[u] = regs[u]
  <2>1. regs' = regs \/ regs' = [regs EXCEPT ![t] = [regs[t] EXCEPT !.sys = "other"]]
    BY DEF SyscallEnter, InterceptExit
  <2>2. regs[t] \in Regs /\ regs \in [Tid -> Regs]
    BY <1>0 DEF TypeOK
  <2>3. /\ [regs[t] EXCEPT !.sys = "other"].cx = regs[t].cx
        /\ [regs[t] EXCEPT !.sys = "other"].dx = regs[t].dx
    BY <2>2 DEF Regs
  <2> QED
    BY <2>1, <2>2, <2>3
<1>6. Ages
  BY <1>1, <1>2, <1>3, AgesStep
<1>7. Others(t)
  BY <1>1, <1>3, <1>4, <1>5 DEF Others, Untouched
<1>8. ReceiverOK(t)'
  BY <1>1, <1>2, <1>5, <1>6 DEF ThreadOK, ReceiverOK, SendOK, Ages
<1>9. /\ childStates[t] = "Stopping" => sig[t]
      /\ childStates[t] = "ProcessingNotification" => ~sig[t]
      /\ regs'[t].cx = "QueueProcessActions" => notificationSystemReady
  BY <1>2, <1>5 DEF ThreadOK, WakeupOK, UndisturbedOK, StartOK
<1>10. ThreadOK(t)'
  BY <1>0, <1>1, <1>2, <1>3, <1>4, <1>8, <1>9, MovedThread
<1> QED
  BY <1>0, <1>1, <1>3, <1>7, <1>10, OneThread

LEMMA SyscallLeaveWakeup ==
  ASSUME IInv, WInv, NEW t \in Tid, SyscallLeave(t)
  PROVE  WInv'
<1> DEFINE n == Ntf("ThreadExiting", None)
           Q == Pushed(t, n)
<1>0. TypeOK
  BY DEF IInv
<1>1. /\ proc[t] \in {"sysenter", "sysleave"} /\ childInSyscall[t]
      /\ childInSyscall' = [childInSyscall EXCEPT ![t] = FALSE]
      /\ ResumeSyscall(t)
      /\ UNCHANGED <<notificationSystemReady, used, threadMap>>
  BY DEF SyscallLeave
<1>2. ThreadOK(t) /\ ~Fresh(t) /\ t \in used /\ Live(t) /\ proc[t] = "sysleave"
  BY <1>1 DEF WInv, ThreadOK, KnownOK, StopsOK, Fresh, Live
<1>3. /\ proc'[t] = (IF sig[t] THEN "trap" ELSE "running") /\ sig'[t] = FALSE
      /\ \A u \in Tid \ {t} : proc'[u] = proc[u] /\ sig'[u] = sig[u]
  BY <1>0, <1>1, <1>2, ResumeSyscallFacts
<1>4. /\ childInSyscall'[t] = FALSE
      /\ \A u \in Tid \ {t} : childInSyscall'[u] = childInSyscall[u]
  BY <1>0, <1>1 DEF TypeOK
<1>5. Ages
  BY <1>1, <1>2, <1>3, AgesStep
<1>6. /\ \A u \in Tid \ {t} : /\ childStates'[u] = childStates[u] /\ regs'[u] = regs[u]
                              /\ childRegs'[u] = childRegs[u]
                              /\ childNotificationQueue'[u] = childNotificationQueue[u]
      /\ \/ /\ childStates'[t] = "ProcessingNotification" /\ regs'[t].cx = "none"
            /\ childRegs'[t] \in {childRegs[t], regs[t]}
            /\ notificationSystemReady
         \/ UNCHANGED <<childStates, childRegs, childNotificationQueue, regs>>
  <2>1. CASE childExiting[t] = 2
    <3>1. SetupFromQueue(t, childStates, Q)
      BY <2>1 DEF SyscallLeave, AnnounceExit
    <3>2. notificationSystemReady
      BY <2>1 DEF IInv, QuietBeforeStartup
    <3>3. n \in Notification
      BY NtfType DEF ChildNotification
    <3> HIDE DEF n
    <3>4. Q \in [Tid -> Seq(Notification)] /\ \A u \in Tid \ {t} : Q[u] = childNotificationQueue[u]
      BY <1>0, <3>3, PushedType, QueueFacts
    <3>5. childStates \in [Tid -> {"none", "Running", "Stopping", "ProcessingNotification"}]
      BY <1>0 DEF TypeOK
    <3> HIDE DEF Q
    <3>6. /\ childStates'[t] = "ProcessingNotification" /\ regs'[t].cx = "none"
          /\ childRegs'[t] \in {childRegs[t], regs[t]}
      <4>1. childStates'[t] = "ProcessingNotification"
        BY <1>0, <3>1, <3>4, <3>5, SetupFromQueueFacts
      <4>2. regs'[t].cx = "none"
        BY <1>0, <3>1, <3>4, <3>5, SetupFromQueueFacts
      <4>3. childRegs'[t] \in {childRegs[t], regs[t]}
        BY <1>0, <3>1, <3>4, <3>5, SetupFromQueueFacts
      <4> QED
        BY <4>1, <4>2, <4>3
    <3>7. \A u \in Tid \ {t} : /\ childStates'[u] = childStates[u] /\ regs'[u] = regs[u]
                               /\ childRegs'[u] = childRegs[u]
                               /\ childNotificationQueue'[u] = Q[u]
      <4> SUFFICES ASSUME NEW u \in Tid \ {t}
                   PROVE  /\ childStates'[u] = childStates[u] /\ regs'[u] = regs[u]
                          /\ childRegs'[u] = childRegs[u]
                          /\ childNotificationQueue'[u] = Q[u]
        OBVIOUS
      <4>1. childStates'[u] = childStates[u] /\ regs'[u] = regs[u] /\ childRegs'[u] = childRegs[u]
        BY <1>0, <3>1 DEF SetupFromQueue, SetupNotification, TypeOK
      <4>2. childNotificationQueue'[u] = Q[u]
        BY <3>1, <3>4 DEF SetupFromQueue
      <4> QED
        BY <4>1, <4>2
    <3> QED
      BY <3>2, <3>4, <3>6, <3>7
  <2>2. CASE childExiting[t] # 2
    BY <2>2 DEF SyscallLeave, AnnounceExit
  <2> QED
    BY <2>1, <2>2
<1>7. Others(t)
  BY <1>3, <1>4, <1>6 DEF Others, Untouched
<1>8. ReceiverOK(t)'
  <2>1. ReceiverOK(t)
    BY <1>2 DEF ThreadOK
  <2> QED
    BY <1>0, <1>5, <1>6, <2>1, ReceiverKept
<1>9. ThreadOK(t)'
  <2>1. CASE childStates'[t] = "ProcessingNotification" /\ notificationSystemReady
    BY <1>1, <1>2, <1>3, <1>4, <1>8, <2>1, ContinuedThread
  <2>2. CASE UNCHANGED <<childStates, childRegs, childNotificationQueue, regs>>
    <3>1. /\ childStates[t] = "Stopping" => proc'[t] = "trap"
          /\ regs'[t].cx = "QueueProcessActions" => notificationSystemReady
      BY <1>2, <1>3, <2>2 DEF ThreadOK, WakeupOK, StartOK
    <3> QED
      BY <1>0, <1>1, <1>2, <1>3, <1>4, <1>8, <2>2, <3>1, MovedThread
  <2> QED
    BY <1>6, <2>1, <2>2
<1>10. notificationSystemReady \/ childNotificationQueue'[mainChild] = childNotificationQueue[mainChild]
  BY <1>6
<1> QED
  BY <1>0, <1>1, <1>3, <1>7, <1>9, <1>10, OneThread

\* The parent forgets a thread that ends, and tells the main thread.
LEMMA ForgetWakeup ==
  ASSUME IInv, WInv, NEW t \in Tid, t # mainChild, notificationSystemReady, t \in used,
         HandleChildThreadExited(t),
         proc'[t] \in {"exited", "absent"}, SendOK(regs'[t]),
         \A u \in Tid \ {t} : /\ proc'[u] = proc[u] /\ regs'[u] = regs[u]
                              /\ sig'[u] = SignalsAfterQueue(t, mainChild)[u],
         UNCHANGED <<childInSyscall, notificationSystemReady, used, threadMap>>
  PROVE  WInv'
<1> DEFINE n == Ntf("ThreadExited", t)
<1>0. TypeOK
  BY DEF IInv
<1>1. n \in Notification
  BY NtfType DEF ChildNotification
<1>2. ~Fresh(mainChild)
  BY DEF WInv, MainOK
<1>3. /\ \A u \in Tid \ {t} : /\ childNotificationQueue'[u] = Pushed(mainChild, n)[u]
                              /\ childStates'[u] = StatesAfterQueue(t, mainChild)[u]
                              /\ childRegs'[u] = childRegs[u]
      /\ childRegs'[t] = NoRegs
  <2>1. /\ Pushed(mainChild, n) \in [Tid -> Seq(Notification)]
        /\ StatesAfterQueue(t, mainChild) \in
             [Tid -> {"none", "Running", "Stopping", "ProcessingNotification"}]
        /\ childRegs \in [Tid -> Regs \cup {NoRegs}]
    BY <1>0, <1>1, PushedType, StatesAfterQueueType DEF TypeOK
  <2> QED
    BY <2>1 DEF HandleChildThreadExited
<1>4. \A u \in Tid \ {t} : Untouched(u) \/ Receives(u)
  <2> HIDE DEF n
  <2> QED
    BY <1>0, <1>1, <1>2, <1>3, QueueReceived
<1>5. Others(t)
  BY <1>3, <1>4 DEF Others
<1>6. Ages
  BY AgesStep
<1>7. ReceiverOK(t)'
  BY <1>3, <1>6 DEF ReceiverOK, SendOK, Ages, NoRegs
<1>8. ThreadOK(t)'
  BY <1>7, EndedThread
<1> QED
  BY <1>0, <1>5, <1>8, OneThread

LEMMA ExitEventWakeup ==
  ASSUME IInv, WInv, NEW t \in Tid, ExitEvent(t)
  PROVE  WInv'
<1>0. TypeOK
  BY DEF IInv
<1>1. /\ t # mainChild /\ proc[t] = "eventexit"
      /\ HandleChildThreadExited(t)
      /\ proc' = [proc EXCEPT ![t] = "exited"]
      /\ sig' = [SignalsAfterQueue(t, mainChild) EXCEPT ![t] = FALSE]
      /\ UNCHANGED <<childInSyscall, notificationSystemReady, regs, used, threadMap>>
  BY DEF ExitEvent
<1>2. /\ notificationSystemReady /\ t \in used /\ SendOK(regs[t])
  BY <1>1 DEF WInv, ThreadOK, StartOK, KnownOK, ReceiverOK
<1>3. SignalsAfterQueue(t, mainChild) \in [Tid -> BOOLEAN]
  BY <1>0, SignalsAfterQueueType
<1>4. /\ proc'[t] = "exited" /\ SendOK(regs'[t])
      /\ \A u \in Tid \ {t} : /\ proc'[u] = proc[u] /\ regs'[u] = regs[u]
                              /\ sig'[u] = SignalsAfterQueue(t, mainChild)[u]
  BY <1>0, <1>1, <1>2, <1>3 DEF TypeOK, SendOK
<1> QED
  BY <1>1, <1>2, <1>4, ForgetWakeup

LEMMA ExitedWakeup ==
  ASSUME IInv, WInv, NEW t \in Tid, Exited(t)
  PROVE  WInv'
<1>0. TypeOK
  BY DEF IInv
<1>1. /\ t # mainChild /\ proc[t] = "exited"
      /\ proc' = [proc EXCEPT ![t] = "absent"]
      /\ regs' = [regs EXCEPT ![t] = InCode(User)]
      /\ UNCHANGED <<childInSyscall, notificationSystemReady, used, threadMap>>
  BY DEF Exited
<1>2. notificationSystemReady /\ t \in used
  BY <1>1 DEF WInv, ThreadOK, StartOK, KnownOK
<1>3. /\ proc'[t] = "absent" /\ regs'[t] = InCode(User)
      /\ \A u \in Tid \ {t} : proc'[u] = proc[u] /\ regs'[u] = regs[u]
  BY <1>0, <1>1 DEF TypeOK
<1>4. SendOK(regs'[t])
  BY <1>3 DEF SendOK, InCode
<1>5. CASE childStates[t] # "none"
  <2>1. HandleChildThreadExited(t) /\ sig' = SignalsAfterQueue(t, mainChild)
    BY <1>5 DEF Exited
  <2> QED
    BY <1>1, <1>2, <1>3, <1>4, <2>1, ForgetWakeup
<1>6. CASE childStates[t] = "none"
  <2>1. UNCHANGED <<childStates, childRegs, childNotificationQueue, sig>>
    BY <1>6 DEF Exited
  <2>2. Others(t)
    BY <1>1, <1>3, <2>1 DEF Others, Untouched
  <2>3. Ages
    BY <1>1, <1>3, AgesStep
  <2>4. ReceiverOK(t)
    BY DEF WInv, ThreadOK
  <2>5. ReceiverOK(t)'
    BY <1>3, <1>4, <2>1, <2>3, <2>4 DEF ReceiverOK, SendOK, Ages
  <2>6. ThreadOK(t)'
    BY <1>1, <1>2, <1>3, <2>5, EndedThread
  <2> QED
    BY <1>0, <1>1, <1>3, <2>1, <2>2, <2>6, OneThread
<1> QED
  BY <1>5, <1>6

LEMMA TraceLoopWakeup ==
  ASSUME IInv, WInv, NEW t \in Tid, TraceLoop(t)
  PROVE  WInv'
<1>1. CASE HandleTrapOccured(t)
  <2>1. UNCHANGED <<exitStatus, used, threadMap, sends>>
    BY <1>1 DEF HandleTrapOccured
  <2>2. CASE StartupTrap(t)
    BY <2>1, <2>2, StartupTrapWakeup
  <2>3. CASE RunningTrap(t)
    BY <2>1, <2>3, RunningTrapWakeup
  <2>4. CASE DoneTrap(t)
    BY <2>1, <2>4, DoneTrapWakeup
  <2>5. CASE HandlerTrap(t)
    BY <2>1, <2>5, HandlerTrapWakeup
  <2>6. CASE IgnoredTrap(t)
    BY <2>1, <2>6, ResumedWakeup DEF IgnoredTrap, parentVars
  <2> QED
    BY <1>1, <2>2, <2>3, <2>4, <2>5, <2>6 DEF HandleTrapOccured
<1>2. CASE NewThread(t)
  BY <1>2, NewThreadWakeup
<1>3. CASE ForwardSignal(t)
  BY <1>3 DEF ForwardSignal, WInv, ThreadOK, KnownOK, Fresh
<1>4. CASE NotStoppedFirst(t)
  BY <1>4, NotStoppedFirstWakeup
<1>5. CASE SyscallEnter(t)
  BY <1>5, SyscallEnterWakeup
<1>6. CASE SyscallLeave(t)
  BY <1>6, SyscallLeaveWakeup
<1>7. CASE CloneEvent(t)
  BY <1>7, ResumedWakeup DEF CloneEvent
<1>8. CASE ExitEvent(t)
  BY <1>8, ExitEventWakeup
<1>9. CASE Exited(t)
  BY <1>9, ExitedWakeup
<1>10. CASE MainExitEvent
  BY <1>10 DEF MainExitEvent, WInv, MainOK, ThreadOK, KnownOK, ReceiverOK, SendOK, StartOK, StopsOK,
               WakeupOK, UndisturbedOK, Fresh, Live
<1> QED
  BY <1>1, <1>2, <1>3, <1>4, <1>5, <1>6, <1>7, <1>8, <1>9, <1>10 DEF TraceLoop

----------------------------------------------------------------------------
(* The kernel and the threads.                                             *)

\* One live thread moves, and the parent does not take part.
LEMMA MoveWakeup ==
  ASSUME IInv, WInv, NEW t \in Tid, proc[t] \in {"running", "insyscall"},
         UNCHANGED <<parentVars, used>>,
         \A u \in Tid \ {t} : /\ proc'[u] = proc[u] /\ regs'[u] = regs[u] /\ sig'[u] = sig[u]
                              /\ u \in threadMap' => u \in threadMap,
         SendOK(regs'[t]),
         proc'[t] = "eventexit" \/ regs'[t].cx = "QueueProcessActions" => notificationSystemReady,
         \/ proc[t] = "running" /\ proc'[t] = "trap"
         \/ proc[t] = "running" /\ proc'[t] \in {"running", "sysenter"} /\ sig'[t] = sig[t]
         \/ proc[t] = "insyscall" /\ proc'[t] \in {"sysleave", "eventexit"} /\ sig'[t] = sig[t]
  PROVE  WInv'
<1>0. TypeOK
  BY DEF IInv
<1>1. ThreadOK(t) /\ ~Fresh(t) /\ t \in used /\ Live(t)
  BY DEF WInv, ThreadOK, KnownOK, Fresh, Live
<1>2. UNCHANGED <<childStates, childRegs, childNotificationQueue, childInSyscall,
                  notificationSystemReady>>
  BY DEF parentVars
<1>3. Ages
  BY AgesStep
<1>4. Others(t)
  BY <1>2 DEF Others, Untouched
<1>5. ReceiverOK(t)'
  BY <1>1, <1>2, <1>3 DEF ThreadOK, ReceiverOK, SendOK, Ages
<1>6. /\ childStates[t] = "Stopping" => sig[t]
      /\ childStates[t] = "ProcessingNotification" => ~sig[t]
      /\ proc[t] = "running" => ~childInSyscall[t]
      /\ proc[t] = "insyscall" => childInSyscall[t]
  BY <1>1 DEF ThreadOK, WakeupOK, UndisturbedOK, StopsOK, StartOK
<1>7. ThreadOK(t)'
  BY <1>0, <1>1, <1>2, <1>5, <1>6, MovedThread
<1> QED
  BY <1>0, <1>2, <1>4, <1>7, OneThread

\* An int3 tells the parent of an actor that it knows.
LEMMA Int3Wakeup ==
  ASSUME IInv, WInv, NEW t \in Tid, InProgram(t), NEW c, NEW d, Int3(t, c, d),
         c = "QueueProcessActions" => d \in Tid /\ ~Fresh(d) /\ notificationSystemReady,
         UNCHANGED <<parentVars, used>>,
         \A u \in Tid \ {t} : u \in threadMap' => u \in threadMap
  PROVE  WInv'
<1>0. TypeOK
  BY DEF IInv
<1>1. /\ proc[t] = "running" /\ proc'[t] = "trap"
      /\ \A u \in Tid \ {t} : proc'[u] = proc[u] /\ sig'[u] = sig[u] /\ regs'[u] = regs[u]
  BY <1>0 DEF InProgram, Int3, TypeOK
<1>2. regs'[t].cx = c /\ regs'[t].dx = d
  <2> DEFINE q == [regs[t] EXCEPT !.ip = "notify", !.cx = c, !.dx = d]
  <2>1. regs[t] \in Regs /\ regs'[t] = q
    BY <1>0 DEF Int3, TypeOK
  <2>2. q.cx = c /\ q.dx = d
    BY <2>1 DEF Regs
  <2> QED
    BY <2>1, <2>2
<1>3. SendOK(regs'[t])
  BY <1>2 DEF SendOK
<1> QED
  BY <1>1, <1>2, <1>3, MoveWakeup

LEMMA EnterSyscallWakeup ==
  ASSUME IInv, WInv, NEW t \in Tid, InProgram(t), NEW s,
         proc' = [proc EXCEPT ![t] = "sysenter"],
         regs' = [regs EXCEPT ![t] = [regs[t] EXCEPT !.sys = s]],
         UNCHANGED <<parentVars, sig, used, threadMap>>
  PROVE  WInv'
<1>0. TypeOK /\ regs[t] \in Regs
  BY DEF IInv, TypeOK
<1>1. /\ proc[t] = "running" /\ proc'[t] = "sysenter"
      /\ \A u \in Tid \ {t} : proc'[u] = proc[u] /\ regs'[u] = regs[u]
      /\ regs'[t] = [regs[t] EXCEPT !.sys = s]
  BY <1>0 DEF InProgram, TypeOK
<1>2. regs'[t].cx = regs[t].cx /\ regs'[t].dx = regs[t].dx
  BY <1>0, <1>1 DEF Regs
<1>3. ReceiverOK(t) /\ StartOK(t)
  BY DEF WInv, ThreadOK
<1>4. SendOK(regs'[t]) /\ (regs'[t].cx = "QueueProcessActions" => notificationSystemReady)
  BY <1>2, <1>3 DEF ReceiverOK, SendOK, StartOK
<1> QED
  BY <1>1, <1>4, MoveWakeup

LEMMA FinishSyscallWakeup ==
  ASSUME IInv, WInv, NEW t \in Tid, FinishSyscall(t)
  PROVE  WInv'
<1>0. TypeOK /\ regs[t] \in Regs
  BY DEF IInv, TypeOK
<1>1. /\ proc[t] = "insyscall"
      /\ proc'[t] = IF regs[t].sys = "exit" THEN "eventexit" ELSE "sysleave"
      /\ \A u \in Tid \ {t} : proc'[u] = proc[u] /\ regs'[u] = regs[u]
      /\ regs'[t] = [regs[t] EXCEPT !.sys = "none"]
      /\ UNCHANGED <<parentVars, sig, used, threadMap>>
  BY <1>0 DEF FinishSyscall, TypeOK
<1>2. regs'[t].cx = regs[t].cx /\ regs'[t].dx = regs[t].dx
  BY <1>0, <1>1 DEF Regs
<1>3. ReceiverOK(t) /\ StartOK(t)
  BY DEF WInv, ThreadOK
<1>4. SendOK(regs'[t]) /\ (regs'[t].cx = "QueueProcessActions" => notificationSystemReady)
  BY <1>2, <1>3 DEF ReceiverOK, SendOK, StartOK
<1>5. proc'[t] = "eventexit" => notificationSystemReady
  BY <1>1 DEF IInv, QuietBeforeStartup
<1> QED
  BY <1>1, <1>4, <1>5, MoveWakeup

\* A thread goes on in its code with other registers.
LEMMA GoOnWakeup ==
  ASSUME IInv, WInv, NEW t \in Tid, proc[t] = "running", NEW f,
         regs' = [regs EXCEPT ![t] = InCode(f)],
         UNCHANGED <<parentVars, proc, sig, used>>,
         \A u \in Tid \ {t} : u \in threadMap' => u \in threadMap
  PROVE  WInv'
<1>1. regs'[t] = InCode(f) /\ \A u \in Tid \ {t} : regs'[u] = regs[u]
  BY DEF IInv, TypeOK
<1>2. SendOK(regs'[t]) /\ regs'[t].cx # "QueueProcessActions"
  BY <1>1 DEF SendOK, InCode
<1> QED
  BY <1>1, <1>2, MoveWakeup

\* No id is used twice, so a new thread is one that nobody knows.
LEMMA CloneWakeup ==
  ASSUME ~ReuseTids, IInv, WInv, NEW t \in Tid, NEW v \in Tid, Clone(t, v)
  PROVE  WInv'
<1>0. TypeOK
  BY DEF IInv
<1>1. /\ proc[t] = "running" /\ t # v /\ v \notin used
      /\ proc'[t] = "eventclone" /\ proc'[v] = "sigstop"
      /\ \A u \in Tid \ {t, v} : proc'[u] = proc[u]
      /\ sig'[v] = FALSE /\ \A u \in Tid \ {v} : sig'[u] = sig[u]
      /\ regs'[v] = InCode(User) /\ \A u \in Tid \ {v} : regs'[u] = regs[u]
      /\ used' = used \cup {v}
      /\ UNCHANGED <<parentVars, threadMap>>
  BY <1>0 DEF Clone, InProgram, TypeOK
<1>2. UNCHANGED <<childStates, childRegs, childNotificationQueue, childInSyscall,
                  notificationSystemReady>>
  BY <1>1 DEF parentVars
<1>3. Ages
  BY <1>1 DEF Ages, Fresh
<1>4. MainOK'
  BY <1>2, <1>3 DEF WInv, MainOK, Ages
<1>5. \A u \in Tid : ThreadOK(u)
  BY DEF WInv
<1>6. ThreadOK(v)'
  <2>1. KnownOK(v) /\ ReceiverOK(v) /\ StartOK(v) /\ Fresh(v)
    BY <1>1, <1>5 DEF ThreadOK, Fresh
  <2>2. KnownOK(v)' /\ StartOK(v)' /\ ReceiverOK(v)'
    BY <1>1, <1>2, <1>3, <2>1 DEF KnownOK, StartOK, ReceiverOK, SendOK, Fresh, Ages, InCode
  <2>3. StopsOK(v)' /\ WakeupOK(v)' /\ UndisturbedOK(v)'
    BY <1>1, <1>2, <2>1 DEF KnownOK, StopsOK, WakeupOK, UndisturbedOK
  <2> QED
    BY <2>2, <2>3 DEF ThreadOK
<1>7. ThreadOK(t)'
  <2>1. ThreadOK(t) /\ ~Fresh(t) /\ t \in used' /\ Live(t)
    BY <1>1, <1>5 DEF ThreadOK, KnownOK, Fresh, Live
  <2>2. ReceiverOK(t)'
    BY <1>1, <1>2, <1>3, <2>1 DEF ThreadOK, ReceiverOK, SendOK, Ages
  <2>3. /\ childStates[t] = "Stopping" => sig'[t]
        /\ childStates[t] = "ProcessingNotification" => ~sig'[t]
        /\ ~childInSyscall'[t]
        /\ regs'[t].cx = "QueueProcessActions" => notificationSystemReady
    BY <1>1, <1>2, <2>1 DEF ThreadOK, WakeupOK, UndisturbedOK, StopsOK, StartOK
  <2> QED
    BY <1>0, <1>1, <1>2, <2>1, <2>2, <2>3, MovedThread
<1>8. ASSUME NEW u \in Tid \ {t, v}
      PROVE  ThreadOK(u)'
  <2>1. Untouched(u) /\ (u \in used' <=> u \in used) /\ (u \in threadMap' => u \in threadMap)
    BY <1>1, <1>2 DEF Untouched
  <2> QED
    BY <1>0, <1>1, <1>2, <1>3, <1>5, <2>1, OtherThread
<1> QED
  BY <1>4, <1>6, <1>7, <1>8 DEF WInv

LEMMA ExitGroupWakeup ==
  ASSUME IInv, WInv, ExitGroup
  PROVE  WInv'
<1>1. /\ notificationSystemReady
      /\ \A u \in Tid : proc'[u] = IF Live(u) THEN "eventexit" ELSE proc[u]
      /\ UNCHANGED <<childStates, childRegs, childNotificationQueue, childInSyscall,
                     notificationSystemReady, regs, used, threadMap>>
  BY DEF ExitGroup, parentVars
<1>2. Ages
  <2>1. \A u \in Tid : proc'[u] # "sigstop"
    BY <1>1 DEF Live
  <2> QED
    BY <1>1, <2>1, AgesStep
<1>3. ASSUME NEW u \in Tid
      PROVE  ThreadOK(u)'
  <2>1. KnownOK(u) /\ ReceiverOK(u)
    BY DEF WInv, ThreadOK
  <2>2. ReceiverOK(u)'
    BY <1>1, <1>2, <2>1 DEF ReceiverOK, SendOK, Ages
  <2>3. proc'[u] \in {"eventexit", "exited", "absent"}
    BY <1>1 DEF Live
  <2>4. CASE u \in used
    BY <1>1, <2>2, <2>3, <2>4, EndedThread
  <2>5. CASE u \notin used
    <3>1. proc[u] = "absent" /\ proc'[u] = "absent"
      BY <1>1, <2>1, <2>5 DEF KnownOK, Live
    <3> QED
      BY <1>1, <2>1, <2>2, <2>5, <3>1
      DEF ThreadOK, KnownOK, StartOK, StopsOK, WakeupOK, UndisturbedOK, Fresh, Live
  <2> QED
    BY <2>4, <2>5
<1>4. MainOK'
  BY <1>1, <1>2 DEF WInv, MainOK, Ages
<1> QED
  BY <1>3, <1>4 DEF WInv

LEMMA ThreadStepWakeup ==
  ASSUME ~ReuseTids, IInv, WInv, NEW t \in Tid, ThreadStep(t)
  PROVE  WInv'
<1>0. TypeOK
  BY DEF IInv
<1>1. CASE DeliverSignal(t)
  <2>1. /\ proc[t] = "running" /\ proc'[t] = "trap"
        /\ \A u \in Tid \ {t} : proc'[u] = proc[u] /\ sig'[u] = sig[u]
        /\ UNCHANGED <<parentVars, regs, used, threadMap>>
    BY <1>0, <1>1 DEF DeliverSignal, TypeOK
  <2>2. SendOK(regs'[t]) /\ (regs'[t].cx = "QueueProcessActions" => notificationSystemReady)
    BY <2>1 DEF WInv, ThreadOK, ReceiverOK, StartOK, SendOK
  <2> QED
    BY <2>1, <2>2, MoveWakeup
<1>2. CASE FinishSyscall(t)
  BY <1>2, FinishSyscallWakeup
<1>3. CASE ReturnFromInt3(t)
  BY <1>3, GoOnWakeup DEF ReturnFromInt3
<1>4. CASE RegisterThread(t)
  BY <1>4, GoOnWakeup DEF RegisterThread, InProgram
<1>5. CASE FinishHandler(t)
  <2>1. /\ InProgram(t) /\ Int3(t, "ProcessingDone", None) /\ UNCHANGED <<parentVars, used>>
        /\ \A u \in Tid \ {t} : u \in threadMap' => u \in threadMap
    BY <1>5 DEF FinishHandler
  <2> QED
    BY <2>1, Int3Wakeup
<1>6. CASE ThreadExit(t)
  BY <1>6, EnterSyscallWakeup DEF ThreadExit
<1>7. CASE OtherSyscall(t)
  BY <1>7, EnterSyscallWakeup DEF OtherSyscall
<1>8. CASE t = mainChild /\ Startup
  BY <1>8, Int3Wakeup DEF Startup
<1>9. CASE t = mainChild /\ ExitGroup
  BY <1>9, ExitGroupWakeup
<1>10. ASSUME NEW u \in Tid, QueueAction(t, u)
       PROVE  WInv'
  <2>1. ~Fresh(u)
    BY <1>10 DEF QueueAction, WInv, ThreadOK, KnownOK
  <2> QED
    BY <1>10, <2>1, Int3Wakeup DEF QueueAction
<1>11. ASSUME NEW u \in Tid, Clone(t, u)
       PROVE  WInv'
  BY <1>11, CloneWakeup
<1> QED
  BY <1>1, <1>2, <1>3, <1>4, <1>5, <1>6, <1>7, <1>8, <1>9, <1>10, <1>11 DEF ThreadStep

----------------------------------------------------------------------------
(* The theorems about wakeups.                                             *)

LEMMA WInvNext == ~ReuseTids /\ IInv /\ WInv /\ [Next]_vars => WInv'
<1> SUFFICES ASSUME ~ReuseTids, IInv, WInv, [Next]_vars
             PROVE  WInv'
  OBVIOUS
<1>1. ASSUME NEW t \in Tid, TraceLoop(t)
      PROVE  WInv'
  BY <1>1, TraceLoopWakeup
<1>2. ASSUME NEW t \in Tid, ThreadStep(t)
      PROVE  WInv'
  BY <1>2, ThreadStepWakeup
<1>3. CASE UNCHANGED vars
  BY <1>3 DEF vars, parentVars, WInv, MainOK, ThreadOK, KnownOK, ReceiverOK, SendOK, StartOK,
              StopsOK, WakeupOK, UndisturbedOK, Fresh, Live
<1> QED
  BY <1>1, <1>2, <1>3 DEF Next, Terminated

LEMMA SpecWInv ==
  ASSUME ~ReuseTids
  PROVE  Spec => []WInv
<1>1. IInv /\ WInv /\ [Next]_vars => WInv'
  BY WInvNext
<1> QED
  BY <1>1, SpecInv, WInvInit, PTL DEF Spec

\* If no thread id is used twice, a notification that waits for a thread the
\* parent knows is never forgotten, however sends meet the end of a handler, a
\* system call, a clone or an exit: the thread handles it or is being stopped.
THEOREM WakeupsAreNotLost ==
  ASSUME ~ReuseTids
  PROVE  Spec => []NoLostWakeup
<1>1. WInv => NoLostWakeup
  BY WInvImplies
<1> QED
  BY <1>1, SpecWInv, PTL

\* And no wakeup stops a thread inside a handler: each of the notifications a
\* handler sends is queued once.
THEOREM HandlersAreNotDisturbed ==
  ASSUME ~ReuseTids
  PROVE  Spec => []HandlerNotDisturbed
<1>1. WInv => HandlerNotDisturbed
  BY WInvImplies
<1> QED
  BY <1>1, SpecWInv, PTL

\* And the parent's count of system call stops never gets out of step, although
\* it redirects threads between the stops of one call.
THEOREM SyscallStopsAreInStep ==
  ASSUME ~ReuseTids
  PROVE  Spec => []SyscallStopsInStep
<1>1. WInv => SyscallStopsInStep
  BY WInvImplies
<1> QED
  BY <1>1, SpecWInv, PTL

----------------------------------------------------------------------------
(* What is queued, announced, and registered.                              *)

\* A thread that ended.
Gone(a) == a \in used /\ ~Live(a)

\* The thread has a ChildThread object, unless it ended.
Registered(a) == a \in threadMap \/ Gone(a)

Elems(q) == {q[i] : i \in DOMAIN q}

\* Only threads that ended are said to have ended, and only registered ones get actions.
SoundNtf(u, n) ==
  /\ n.event = "ThreadExited" => Gone(n.arg)
  /\ n.event = "ProcessActions" => Registered(u)
  /\ n.event = "ThreadStarted" => n.arg = None
SentTo(r) == r.cx = "QueueProcessActions" => Registered(r.dx)
MessagesOK(u) ==
  /\ \A n \in Elems(childNotificationQueue[u]) \cup {regs[u].frame} : SoundNtf(u, n)
  /\ SentTo(childRegs[u])

\* ThreadExiting is queued once, when the system call that stands for exit() returns;
\* from then on the program of the thread does not run.
IsAnnounced(q) == \E n \in Elems(q) : n.event = "ThreadExiting"
AnnouncedOK(u) ==
  Live(u) =>
    /\ childExiting[u] \in {0, 2} =>
         regs[u].frame.event # "ThreadExiting" /\ ~IsAnnounced(childNotificationQueue[u])
    /\ childExiting[u] = 2 => regs[u].frame = User
    /\ childExiting[u] = 1 => \/ regs[u].frame.event = "ThreadExiting"
                              \/ regs[u].frame # User /\ IsAnnounced(childNotificationQueue[u])
    /\ u = mainChild => childExiting[u] = 0 /\ regs[u].sys # "exit"

\* Where a thread is that exits, or has finished a handler.
PlaceOK(u) ==
  Live(u) =>
    /\ childExiting[u] = 2 => proc[u] \in {"insyscall", "sysleave", "eventexit"} /\ regs[u].sys # "exit"
    /\ regs[u].sys = "exit" => /\ proc[u] \in {"sysenter", "insyscall", "eventexit"}
                               /\ regs[u].frame.event \in {"User", "ThreadExiting"}
                               /\ proc[u] = "insyscall" => childExiting[u] = 1
    /\ regs[u].cx = "ProcessingDone" =>
         /\ proc[u] \in {"trap", "eventexit"} /\ regs[u].ip = "notify"
         /\ regs[u].frame.event \in {"Dispatch", "ProcessActions", "ThreadExited"}
    /\ SentTo(regs[u])
SavedOK(u) == Live(u) => childRegs[u].sys # "exit" /\ childRegs[u].cx # "ProcessingDone"

\* The first thing a thread handles is ThreadStarted.
IsFirst(q) == q # <<>> /\ Head(q).event = "ThreadStarted"
Starts(u) ==
  \/ regs[u].frame.event = "ThreadStarted"
  \/ regs[u].frame = User /\ IsFirst(childNotificationQueue[u])
RegisteredOK(u) ==
  Live(u) =>
    /\ u = mainChild \/ proc[u] \in {"sigstop", "eventexit"} \/ Registered(u) \/ Starts(u)
    /\ regs[u].frame.event \in {"Dispatch", "ThreadExiting"} => Registered(u)
NewOK(u) == Fresh(u) => childExiting[u] = 0 /\ (proc[u] = "sigstop" => regs[u] = InCode(User))

ExitOK(u) ==
  MessagesOK(u) /\ AnnouncedOK(u) /\ PlaceOK(u) /\ SavedOK(u) /\ RegisteredOK(u) /\ NewOK(u)

\* The inductive invariant.
ExitInv == \A u \in Tid : ExitOK(u)

----------------------------------------------------------------------------
(* Queues.                                                                 *)

LEMMA AppendedQueue ==
  ASSUME NEW q \in Seq(Notification), NEW n \in Notification
  PROVE  /\ Append(q, n) \in Seq(Notification) /\ Append(q, n) # <<>>
         /\ Elems(Append(q, n)) = Elems(q) \cup {n}
         /\ Head(Append(q, n)) = IF q = <<>> THEN n ELSE Head(q)
<1>1. /\ Append(q, n) \in Seq(Notification) /\ Append(q, n) # <<>> /\ Len(q) \in Nat
      /\ DOMAIN Append(q, n) = 1 .. (Len(q) + 1) /\ DOMAIN q = 1 .. Len(q)
      /\ \A i \in 1 .. Len(q) : Append(q, n)[i] = q[i]
      /\ Append(q, n)[Len(q) + 1] = n
  OBVIOUS
<1>2. Elems(Append(q, n)) = Elems(q) \cup {n}
  <2>1. \A x \in Elems(Append(q, n)) : x \in Elems(q) \cup {n}
    BY <1>1 DEF Elems
  <2>2. \A x \in Elems(q) : x \in Elems(Append(q, n))
    BY <1>1 DEF Elems
  <2>3. n \in Elems(Append(q, n))
    BY <1>1 DEF Elems
  <2> QED
    BY <2>1, <2>2, <2>3
<1>3. Head(Append(q, n)) = IF q = <<>> THEN n ELSE Head(q)
  OBVIOUS
<1> QED
  BY <1>1, <1>2, <1>3

LEMMA QueueHead ==
  ASSUME NEW q \in Seq(Notification), q # <<>>
  PROVE  /\ Head(q) \in Notification /\ Tail(q) \in Seq(Notification)
         /\ Elems(q) = {Head(q)} \cup Elems(Tail(q))
<1>1. /\ Head(q) \in Notification /\ Tail(q) \in Seq(Notification) /\ Len(q) \in Nat \ {0}
      /\ DOMAIN q = 1 .. Len(q) /\ DOMAIN Tail(q) = 1 .. (Len(q) - 1) /\ Head(q) = q[1]
      /\ \A i \in 1 .. (Len(q) - 1) : Tail(q)[i] = q[i + 1]
  OBVIOUS
<1>2. \A x \in Elems(q) : x \in {Head(q)} \cup Elems(Tail(q))
  <2> SUFFICES ASSUME NEW i \in 1 .. Len(q)
               PROVE  q[i] \in {Head(q)} \cup Elems(Tail(q))
    BY <1>1 DEF Elems
  <2>1. CASE i = 1
    BY <1>1, <2>1
  <2>2. CASE i # 1
    <3>1. i - 1 \in 1 .. (Len(q) - 1) /\ i = (i - 1) + 1
      BY <1>1, <2>2
    <3>2. Tail(q)[i - 1] = q[i]
      BY <1>1, <3>1
    <3> QED
      BY <1>1, <3>1, <3>2 DEF Elems
  <2> QED
    BY <2>1, <2>2
<1>3. \A x \in Elems(Tail(q)) : x \in Elems(q)
  <2> SUFFICES ASSUME NEW i \in 1 .. (Len(q) - 1)
               PROVE  Tail(q)[i] \in Elems(q)
    BY <1>1 DEF Elems
  <2>1. i + 1 \in 1 .. Len(q) /\ Tail(q)[i] = q[i + 1]
    BY <1>1
  <2> QED
    BY <1>1, <2>1 DEF Elems
<1>4. Head(q) \in Elems(q)
  <2>1. 1 \in 1 .. Len(q)
    BY <1>1
  <2> QED
    BY <1>1, <2>1 DEF Elems
<1> QED
  BY <1>1, <1>2, <1>3, <1>4

LEMMA EmptyQueue == Elems(<<>>) = {}
BY DEF Elems

----------------------------------------------------------------------------
(* What a step does to one thread. Each kind of change keeps ExitOK of it, *)
(* and is a step of the notification service.                              *)

\* Who ended stays so, and who is registered is so until it ends.
Lasting == \A a \in Tid : (Gone(a) => Gone(a)') /\ (Registered(a) => Registered(a)')

Finished(u) == Live(u) /\ regs[u].frame # User /\ regs[u].cx = "ProcessingDone"

\* What a queue is after a step that sends at most one notification to u.
Reached(u, q) ==
  \/ q = childNotificationQueue[u]
  \/ \E n \in Notification : /\ q = Append(childNotificationQueue[u], n)
                             /\ n.event # "ThreadExiting" /\ SoundNtf(u, n)'

\* The thread stays where it is.
Rests(u) ==
  /\ proc'[u] = proc[u] /\ regs'[u] = regs[u]
  /\ childRegs'[u] = childRegs[u] /\ childExiting'[u] = childExiting[u]
  /\ u \in used' <=> u \in used
  /\ Reached(u, childNotificationQueue'[u])

\* The thread, or the parent for it, goes on with the same code.
GoesOn(u) ==
  /\ Live(u) /\ Live(u)' /\ ~Fresh(u)' /\ proc[u] # "eventexit"
  /\ proc[u] = "sigstop" =>
       regs[u].frame = User /\ (IsFirst(childNotificationQueue'[u]) \/ proc'[u] = "eventexit")
  /\ regs'[u].frame = regs[u].frame /\ childRegs'[u] = childRegs[u]
  /\ childExiting'[u] = childExiting[u] \/ (childExiting[u] = 0 /\ childExiting'[u] = 2)
  /\ childExiting'[u] = 2 => regs[u].frame = User
  /\ u = mainChild => childExiting'[u] = 0 /\ regs'[u].sys # "exit"
  /\ regs[u].cx = "ProcessingDone" => regs'[u].cx = "ProcessingDone"
  /\ PlaceOK(u)'
  /\ Reached(u, childNotificationQueue'[u])

\* The thread is redirected into the handler of the first notification in q.
Redirected(u, q) ==
  /\ Live(u) /\ Live(u)' /\ ~Fresh(u)' /\ proc'[u] # "eventexit"
  /\ q \in Seq(Notification) /\ q # <<>>
  /\ regs'[u] = InCode(Head(q)) /\ childNotificationQueue'[u] = Tail(q)
  /\ childRegs'[u] \in {childRegs[u], regs[u]}
  /\ regs[u].frame = User \/ regs[u].cx = "ProcessingDone"

\* Its program goes on.
Restored(u) ==
  /\ proc[u] = "trap" /\ Live(u)' /\ ~Fresh(u) /\ ~Fresh(u)' /\ proc'[u] # "eventexit"
  /\ regs[u].cx = "ProcessingDone" /\ regs[u].frame # User
  /\ childNotificationQueue[u] = <<>> /\ childNotificationQueue'[u] = <<>>
  /\ regs'[u] = childRegs[u] /\ childRegs[u].frame = User /\ childRegs'[u] = NoRegs
  /\ childExiting'[u] = childExiting[u]

\* It ends.
Ends(u) ==
  /\ ~Live(u)' /\ ~Fresh(u)'
  /\ regs'[u] \in {regs[u], InCode(User)}
  /\ childRegs'[u] \in {childRegs[u], NoRegs}
  /\ \/ childNotificationQueue'[u] = <<>>
     \/ ~Live(u) /\ childNotificationQueue'[u] = childNotificationQueue[u]

LEMMA ReachedQueue ==
  ASSUME TypeOK, NEW u \in Tid, NEW p, Reached(u, p)
  PROVE  LET q == childNotificationQueue[u]
         IN /\ p \in Seq(Notification)
            /\ \A n \in Elems(p) : n \in Elems(q) \/ SoundNtf(u, n)'
            /\ IsAnnounced(p) <=> IsAnnounced(q)
            /\ IsFirst(q) => IsFirst(p)
            /\ q # <<>> => p # <<>>
<1> DEFINE q == childNotificationQueue[u]
<1>1. q \in Seq(Notification)
  BY DEF TypeOK
<1> SUFFICES /\ p \in Seq(Notification)
             /\ \A n \in Elems(p) : n \in Elems(q) \/ SoundNtf(u, n)'
             /\ IsAnnounced(p) <=> IsAnnounced(q)
             /\ IsFirst(q) => IsFirst(p)
             /\ q # <<>> => p # <<>>
  OBVIOUS
<1>2. CASE p = q
  BY <1>1, <1>2
<1>3. ASSUME NEW n \in Notification, p = Append(q, n), n.event # "ThreadExiting", SoundNtf(u, n)'
      PROVE  /\ p \in Seq(Notification)
             /\ \A m \in Elems(p) : m \in Elems(q) \/ SoundNtf(u, m)'
             /\ IsAnnounced(p) <=> IsAnnounced(q)
             /\ IsFirst(q) => IsFirst(p)
             /\ q # <<>> => p # <<>>
  <2>1. /\ p \in Seq(Notification) /\ p # <<>> /\ Elems(p) = Elems(q) \cup {n}
        /\ Head(p) = IF q = <<>> THEN n ELSE Head(q)
    BY <1>1, <1>3, AppendedQueue
  <2> HIDE DEF q
  <2>2. \A m \in Elems(p) : m \in Elems(q) \/ SoundNtf(u, m)'
    BY <1>3, <2>1
  <2>3. IsAnnounced(p) <=> IsAnnounced(q)
    BY <1>3, <2>1 DEF IsAnnounced
  <2>4. IsFirst(q) => IsFirst(p)
    BY <2>1 DEF IsFirst
  <2> QED
    BY <2>1, <2>2, <2>3, <2>4
<1> QED
  BY <1>2, <1>3 DEF Reached

\* What was sound stays so.
LEMMA SoundStays ==
  ASSUME TypeOK, Lasting, NEW u \in Tid, NEW n, SoundNtf(u, n)
  PROVE  SoundNtf(u, n)'
<1>1. Gone(n.arg) => n.arg \in Tid /\ Gone(n.arg)'
  BY DEF TypeOK, Lasting, Gone
<1> QED
  BY <1>1 DEF Lasting, SoundNtf

LEMMA SentStays ==
  ASSUME TypeOK, Lasting, NEW r, SentTo(r), r.cx = "QueueProcessActions" => r.dx \in Tid
  PROVE  SentTo(r)'
BY DEF Lasting, SentTo

LEMMA UserIsSound ==
  /\ User.event = "User" /\ Dispatch.event = "Dispatch"
  /\ \A u \in Tid : SoundNtf(u, User) /\ SoundNtf(u, Dispatch)
BY DEF User, Dispatch, SoundNtf

\* Threads and receivers are what they are supposed to be.
LEMMA ReceiversInTid ==
  ASSUME WInv, NEW u \in Tid
  PROVE  /\ regs[u].cx = "QueueProcessActions" => regs[u].dx \in Tid
         /\ childRegs[u].cx = "QueueProcessActions" => childRegs[u].dx \in Tid
BY DEF WInv, ThreadOK, ReceiverOK, SendOK

LEMMA RestsKeeps ==
  ASSUME TypeOK, WInv, Lasting, NEW u \in Tid, ExitOK(u), Rests(u)
  PROVE  ExitOK(u)'
<1> DEFINE q == childNotificationQueue[u]
           p == childNotificationQueue'[u]
<1>1. /\ \A n \in Elems(p) : n \in Elems(q) \/ SoundNtf(u, n)'
      /\ IsAnnounced(p) <=> IsAnnounced(q)
      /\ IsFirst(q) => IsFirst(p)
  BY ReachedQueue DEF Rests
<1>2. Live(u)' <=> Live(u)
  BY DEF Rests, Live
<1>3. /\ SentTo(childRegs[u])' /\ (Live(u) => SentTo(regs[u])')
      /\ \A n \in Elems(q) \cup {regs[u].frame} : SoundNtf(u, n)'
  <2>1. SentTo(childRegs[u]) /\ (Live(u) => SentTo(regs[u]))
        /\ \A n \in Elems(q) \cup {regs[u].frame} : SoundNtf(u, n)
    BY DEF ExitOK, MessagesOK, PlaceOK
  <2>2. /\ regs[u].cx = "QueueProcessActions" => regs[u].dx \in Tid
        /\ childRegs[u].cx = "QueueProcessActions" => childRegs[u].dx \in Tid
    BY ReceiversInTid
  <2>3. PICK r1, r2 : r1 = regs[u] /\ r2 = childRegs[u]
    OBVIOUS
  <2>4. SentTo(r2)' /\ (Live(u) => SentTo(r1)')
    BY <2>1, <2>2, <2>3, SentStays
  <2>5. \A n \in Elems(q) \cup {regs[u].frame} : SoundNtf(u, n)'
    BY <2>1, SoundStays
  <2> QED
    BY <2>3, <2>4, <2>5 DEF Rests, SentTo
<1>4. MessagesOK(u)'
  BY <1>1, <1>3 DEF MessagesOK, Rests
<1>5. AnnouncedOK(u)' /\ PlaceOK(u)' /\ SavedOK(u)' /\ NewOK(u)'
  <2>1. AnnouncedOK(u)'
    BY <1>1, <1>2 DEF ExitOK, AnnouncedOK, Rests
  <2>2. PlaceOK(u)' /\ SavedOK(u)' /\ NewOK(u)'
    BY <1>2, <1>3 DEF ExitOK, PlaceOK, SavedOK, NewOK, Rests, Fresh
  <2> QED
    BY <2>1, <2>2
<1>6. RegisteredOK(u)'
  BY <1>1, <1>2 DEF ExitOK, RegisteredOK, Starts, Rests, Lasting
<1> QED
  BY <1>4, <1>5, <1>6 DEF ExitOK

LEMMA GoesOnKeeps ==
  ASSUME TypeOK, WInv, Lasting, NEW u \in Tid, ExitOK(u), GoesOn(u)
  PROVE  ExitOK(u)'
<1> DEFINE q == childNotificationQueue[u]
           p == childNotificationQueue'[u]
<1>1. /\ \A n \in Elems(p) : n \in Elems(q) \/ SoundNtf(u, n)'
      /\ IsAnnounced(p) <=> IsAnnounced(q)
      /\ IsFirst(q) => IsFirst(p)
  BY ReachedQueue DEF GoesOn
<1>2. childExiting[u] \in {0, 1, 2}
  BY DEF TypeOK
<1>3. MessagesOK(u)'
  <2>1. PICK r : r = childRegs[u]
    OBVIOUS
  <2>2. SentTo(r) /\ (r.cx = "QueueProcessActions" => r.dx \in Tid)
    BY <2>1, ReceiversInTid DEF ExitOK, MessagesOK
  <2>3. SentTo(r)'
    BY <2>2, SentStays
  <2>4. \A n \in Elems(q) \cup {regs[u].frame} : SoundNtf(u, n)'
    BY SoundStays DEF ExitOK, MessagesOK
  <2> QED
    BY <1>1, <2>1, <2>3, <2>4 DEF MessagesOK, GoesOn, SentTo
<1>4. AnnouncedOK(u)'
  BY <1>1, <1>2 DEF ExitOK, AnnouncedOK, GoesOn
<1>5. PlaceOK(u)' /\ SavedOK(u)' /\ NewOK(u)'
  BY DEF ExitOK, SavedOK, NewOK, GoesOn
<1>6. RegisteredOK(u)'
  BY <1>1 DEF ExitOK, RegisteredOK, Starts, GoesOn, Lasting
<1> QED
  BY <1>3, <1>4, <1>5, <1>6 DEF ExitOK

LEMMA RedirectedKeeps ==
  ASSUME TypeOK, WInv, Lasting, NEW u \in Tid, ExitOK(u), NEW q, Redirected(u, q),
         \A n \in Elems(q) : n \in Elems(childNotificationQueue[u]) \/ SoundNtf(u, n)',
         childExiting'[u] \in {0, 1}, childExiting'[u] = 1 <=> IsAnnounced(q),
         u = mainChild => childExiting'[u] = 0,
         regs[u].sys # "exit",
         childRegs'[u] = regs[u] => regs[u].frame = User,
         u = mainChild \/ Registered(u)' \/ IsFirst(q)
  PROVE  ExitOK(u)'
<1>1. /\ Head(q) \in Notification /\ Elems(q) = {Head(q)} \cup Elems(Tail(q))
  BY QueueHead DEF Redirected
<1>2. /\ regs'[u].frame = Head(q) /\ regs'[u].cx = "none" /\ regs'[u].sys = "none"
      /\ Head(q) # User /\ Head(q).event # "Dispatch"
  BY <1>1, UserIsNoNotification DEF Redirected, InCode, Notification, ChildNotification
<1>3. /\ \A n \in Elems(q) : SoundNtf(u, n)'
      /\ SentTo(childRegs[u]) /\ SentTo(regs[u])
  BY SoundStays DEF ExitOK, MessagesOK, PlaceOK, Redirected
<1>4. MessagesOK(u)'
  <2>1. PICK r \in {childRegs[u], regs[u]} : r = childRegs'[u]
    BY DEF Redirected
  <2>2. SentTo(r) /\ (r.cx = "QueueProcessActions" => r.dx \in Tid)
    BY <1>3, <2>1, ReceiversInTid
  <2>3. SentTo(r)'
    BY <2>2, SentStays
  <2>4. \A n \in Elems(Tail(q)) \cup {Head(q)} : SoundNtf(u, n)'
    BY <1>1, <1>3
  <2> QED
    BY <1>2, <2>1, <2>3, <2>4 DEF MessagesOK, Redirected, SentTo
<1>5. AnnouncedOK(u)'
  <2>1. childNotificationQueue'[u] = Tail(q)
    BY DEF Redirected
  <2>2. IsAnnounced(q) <=> Head(q).event = "ThreadExiting" \/ IsAnnounced(Tail(q))
    BY <1>1 DEF IsAnnounced
  <2> QED
    BY <1>2, <2>1, <2>2 DEF AnnouncedOK
<1>6. PlaceOK(u)' /\ NewOK(u)'
  BY <1>2 DEF PlaceOK, NewOK, SentTo, Redirected
<1>7. SavedOK(u)'
  <2>1. childRegs'[u] = regs[u] => regs[u].cx # "ProcessingDone"
    BY UserIsSound DEF ExitOK, PlaceOK, Redirected
  <2> QED
    BY <2>1 DEF ExitOK, SavedOK, Redirected
<1>8. RegisteredOK(u)'
  <2>1. Head(q).event = "ThreadExiting" => ~IsFirst(q) /\ IsAnnounced(q)
    BY <1>1 DEF IsFirst, IsAnnounced
  <2>2. IsFirst(q) => Head(q).event = "ThreadStarted"
    BY DEF IsFirst
  <2> QED
    BY <1>2, <2>1, <2>2 DEF RegisteredOK, Starts
<1> QED
  BY <1>4, <1>5, <1>6, <1>7, <1>8 DEF ExitOK

LEMMA RestoredKeeps ==
  ASSUME TypeOK, WInv, Lasting, NEW u \in Tid, ExitOK(u), Restored(u)
  PROVE  ExitOK(u)'
<1>1. /\ regs[u].frame.event \in {"Dispatch", "ProcessActions", "ThreadExited"}
      /\ childRegs[u].sys # "exit" /\ childRegs[u].cx # "ProcessingDone"
      /\ SentTo(childRegs[u])
  BY DEF ExitOK, PlaceOK, SavedOK, MessagesOK, Restored, Live
<1>2. ~IsAnnounced(childNotificationQueue[u]) /\ ~IsAnnounced(childNotificationQueue'[u])
  BY EmptyQueue DEF IsAnnounced, Restored
<1>3. childExiting[u] = 0 /\ childExiting'[u] = 0
  BY <1>1, <1>2 DEF TypeOK, ExitOK, AnnouncedOK, Restored, Live
<1>4. SentTo(regs[u])'
  <2>1. PICK r : r = childRegs[u]
    OBVIOUS
  <2>2. SentTo(r) /\ (r.cx = "QueueProcessActions" => r.dx \in Tid)
    BY <1>1, <2>1, ReceiversInTid
  <2>3. SentTo(r)'
    BY <2>2, SentStays
  <2> QED
    BY <2>1, <2>3 DEF Restored, SentTo
<1>5. MessagesOK(u)'
  <2>1. SoundNtf(u, User)' /\ Elems(childNotificationQueue'[u]) = {}
    BY EmptyQueue DEF Restored, SoundNtf, User
  <2>2. childRegs'[u].cx = "none"
    BY DEF Restored, NoRegs
  <2> QED
    BY <2>1, <2>2 DEF MessagesOK, SentTo, Restored
<1>6. AnnouncedOK(u)' /\ PlaceOK(u)' /\ SavedOK(u)' /\ NewOK(u)'
  BY <1>1, <1>2, <1>3, <1>4, UserIsSound DEF AnnouncedOK, PlaceOK, SavedOK, NewOK, Restored, NoRegs, SentTo
<1>7. RegisteredOK(u)'
  <2>1. proc[u] # "sigstop" /\ ~IsFirst(childNotificationQueue[u])
    BY DEF Restored, IsFirst, Fresh
  <2> QED
    BY <1>1, <2>1, UserIsSound DEF ExitOK, RegisteredOK, Starts, Restored, Lasting, Live
<1> QED
  BY <1>5, <1>6, <1>7 DEF ExitOK

LEMMA EndsKeeps ==
  ASSUME TypeOK, WInv, Lasting, NEW u \in Tid, ExitOK(u), Ends(u)
  PROVE  ExitOK(u)'
<1>1. SentTo(childRegs[u])'
  <2>1. PICK r \in {childRegs[u], NoRegs} : r = childRegs'[u]
    BY DEF Ends
  <2>2. SentTo(r) /\ (r.cx = "QueueProcessActions" => r.dx \in Tid)
    BY <2>1, ReceiversInTid DEF ExitOK, MessagesOK, SentTo, NoRegs
  <2>3. SentTo(r)'
    BY <2>2, SentStays
  <2> QED
    BY <2>1, <2>3 DEF SentTo
<1>2. SoundNtf(u, regs[u].frame)'
  <2>1. PICK m \in {regs[u].frame, User} : m = regs'[u].frame
    BY DEF Ends, InCode
  <2>2. SoundNtf(u, m)
    BY UserIsSound DEF ExitOK, MessagesOK
  <2>3. SoundNtf(u, m)'
    BY <2>2, SoundStays
  <2> QED
    BY <2>1, <2>3 DEF SoundNtf
<1>3. \A n \in Elems(childNotificationQueue'[u]) : SoundNtf(u, n)'
  BY SoundStays, EmptyQueue DEF ExitOK, MessagesOK, Ends
<1>4. MessagesOK(u)'
  BY <1>1, <1>2, <1>3 DEF MessagesOK, SentTo, Ends
<1> QED
  BY <1>4 DEF Ends, ExitOK, AnnouncedOK, PlaceOK, SavedOK, RegisteredOK, NewOK

----------------------------------------------------------------------------
(* The same kinds of change, as steps of NotificationService.              *)

LEMMA HandledValue ==
  ASSUME NEW u \in Tid
  PROVE  /\ ~Live(u) => Handled(u) = None
         /\ Live(u) /\ regs[u].frame = User => Handled(u) = None
         /\ Live(u) /\ regs[u].frame = Dispatch => Handled(u) = Ntf("ThreadStarted", None)
         /\ Live(u) /\ regs[u].frame \in Notification => Handled(u) = regs[u].frame
         /\ Live(u)' /\ regs'[u].frame = User => Handled(u)' = None
<1>1. Dispatch # User /\ Dispatch \notin Notification /\ User \notin Notification
  BY DEF User, Dispatch, Notification, ChildNotification
<1> QED
  BY <1>1 DEF Handled

LEMMA HandlesSomething ==
  ASSUME TypeOK, NEW u \in Tid, Live(u), regs[u].frame # User
  PROVE  Handled(u) # None
<1>1. regs[u].frame \in Notification \cup {Dispatch}
  BY RegsFields DEF TypeOK, Frame
<1>2. Ntf("ThreadStarted", None) \in Notification
  BY NtfType DEF ChildNotification
<1> QED
  BY <1>1, <1>2, HandledValue, NothingAssumption

\* The variables of the service.
Alive == [t \in Tid |-> Live(t)]
Current == [t \in Tid |-> Handled(t)]
Done == [t \in Tid |-> Live(t) /\ regs[t].frame # User /\ regs[t].cx = "ProcessingDone"]

LEMMA ServiceValues ==
  ASSUME NEW u \in Tid
  PROVE  /\ (Alive[u] <=> Live(u)) /\ Alive[u] \in BOOLEAN
         /\ (Alive'[u] <=> Live(u)') /\ Alive'[u] \in BOOLEAN
         /\ Current[u] = Handled(u) /\ Current'[u] = Handled(u)'
         /\ (Done[u] <=> Finished(u)) /\ Done[u] \in BOOLEAN
         /\ (Done'[u] <=> Finished(u)') /\ Done'[u] \in BOOLEAN
<1>1. /\ Alive[u] <=> Live(u)
      /\ Alive'[u] <=> Live(u)'
      /\ Alive[u] \in BOOLEAN /\ Alive'[u] \in BOOLEAN
  BY DEF Live, Alive
<1>2. Current[u] = Handled(u) /\ Current'[u] = Handled(u)'
  BY DEF Current
<1>3. /\ Done[u] <=> Finished(u)
      /\ Done'[u] <=> Finished(u)'
      /\ Done[u] \in BOOLEAN /\ Done'[u] \in BOOLEAN
  BY DEF Finished, Done
<1> QED
  BY <1>1, <1>2, <1>3

\* A step in which a thread receives at most one notification.
LEMMA ReceivesAtMostOne ==
  ASSUME TypeOK, NEW u \in Tid, Live(u)' <=> Live(u), Handled(u)' = Handled(u),
         Reached(u, childNotificationQueue'[u]),
         \/ Finished(u)' <=> Finished(u)
         \/ Finished(u)' /\ Handled(u) # None
  PROVE  Service!ThreadStep(u)
<1> DEFINE q == childNotificationQueue[u]
           p == childNotificationQueue'[u]
<1>1. \E new \in Service!Arrivals : p = q \o new
  <2>1. q \in Seq(Notification)
    BY DEF TypeOK
  <2>2. CASE p = q
    <3>1. p = q \o <<>> /\ <<>> \in Service!Arrivals
      BY <2>1, <2>2 DEF Service!Arrivals
    <3> QED
      BY <3>1
  <2>3. ASSUME NEW n \in Notification, p = Append(q, n)
        PROVE  \E new \in Service!Arrivals : p = q \o new
    <3>1. p = q \o <<n>> /\ <<n>> \in Service!Arrivals
      BY <2>1, <2>3 DEF Service!Arrivals
    <3> QED
      BY <3>1
  <2> QED
    BY <2>2, <2>3 DEF Reached
<1>2. UNCHANGED <<Alive[u], Current[u]>> /\ Done'[u] \in {Done[u], Current[u] # None}
  BY ServiceValues
<1>3. Service!Receive(u)
  BY <1>1, <1>2 DEF Service!Receive, Alive, Current, Done
<1> QED
  BY <1>3 DEF Service!ThreadStep

LEMMA RestsServes ==
  ASSUME TypeOK, NEW u \in Tid, Rests(u)
  PROVE  Service!ThreadStep(u)
<1>1. /\ Live(u)' <=> Live(u)
      /\ Finished(u)' <=> Finished(u)
      /\ Handled(u)' = Handled(u)
  BY DEF Rests, Live, Finished, Handled
<1> QED
  BY <1>1, ReceivesAtMostOne DEF Rests

LEMMA GoesOnServes ==
  ASSUME TypeOK, NEW u \in Tid, GoesOn(u)
  PROVE  Service!ThreadStep(u)
<1>1. (Live(u)' <=> Live(u)) /\ Handled(u)' = Handled(u)
  BY DEF GoesOn, Handled
<1>2. Finished(u)' => Finished(u)' /\ Handled(u) # None
  BY HandlesSomething DEF GoesOn, Finished
<1>3. Finished(u) => Finished(u)'
  BY DEF GoesOn, Finished
<1> QED
  BY <1>1, <1>2, <1>3, ReceivesAtMostOne DEF GoesOn

LEMMA RedirectedServes ==
  ASSUME TypeOK, NEW u \in Tid, NEW q, Redirected(u, q),
         \/ q = childNotificationQueue[u]
         \/ \E n \in Notification : q = Append(childNotificationQueue[u], n)
  PROVE  Service!ThreadStep(u)
<1>1. \E new \in Service!Arrivals : q = childNotificationQueue[u] \o new
  <2>1. childNotificationQueue[u] \in Seq(Notification)
    BY DEF TypeOK
  <2>2. CASE q = childNotificationQueue[u]
    <3>1. q = childNotificationQueue[u] \o <<>> /\ <<>> \in Service!Arrivals
      BY <2>1, <2>2 DEF Service!Arrivals
    <3> QED
      BY <3>1
  <2>3. ASSUME NEW n \in Notification, q = Append(childNotificationQueue[u], n)
        PROVE  \E new \in Service!Arrivals : q = childNotificationQueue[u] \o new
    <3>1. q = childNotificationQueue[u] \o <<n>> /\ <<n>> \in Service!Arrivals
      BY <2>1, <2>3 DEF Service!Arrivals
    <3> QED
      BY <3>1
  <2> QED
    BY <2>2, <2>3
<1>2. Head(q) \in Notification
  BY QueueHead DEF Redirected
<1>3. regs'[u].frame = Head(q) /\ regs'[u].cx = "none"
  BY DEF Redirected, InCode
<1>4. Handled(u)' = Head(q)
  <2>1. Head(q) # User /\ Head(q) # Dispatch
    BY <1>2 DEF User, Dispatch, Notification, ChildNotification
  <2> QED
    BY <1>3, <2>1 DEF Handled, Redirected
<1>5. Handled(u) = None \/ Finished(u)
  BY HandledValue DEF Finished, Redirected
<1>6. ~Finished(u)'
  BY <1>3 DEF Finished
<1>7. Alive[u] /\ Alive'[u] /\ (Current[u] = None \/ Done[u]) /\ Current'[u] = Head(q) /\ ~Done'[u]
  BY <1>4, <1>5, <1>6, ServiceValues DEF Redirected
<1>8. q # <<>> /\ childNotificationQueue'[u] = Tail(q)
  BY DEF Redirected
<1>9. Service!Handle(u)
  BY <1>1, <1>7, <1>8 DEF Service!Handle, Service!Idle, Alive, Current, Done
<1> QED
  BY <1>9 DEF Service!ThreadStep

LEMMA RestoredServes ==
  ASSUME TypeOK, NEW u \in Tid, Restored(u)
  PROVE  Service!ThreadStep(u)
<1>1. Live(u) /\ Live(u)' /\ Finished(u) /\ ~Finished(u)' /\ Handled(u)' = None
  BY HandledValue DEF Restored, Finished, Live
<1>2. Alive[u] /\ Alive'[u] /\ Done[u] /\ ~Done'[u] /\ Current'[u] = None
  BY <1>1, ServiceValues
<1>3. Service!Return(u)
  BY <1>2 DEF Service!Return, Alive, Current, Done, Restored
<1> QED
  BY <1>3 DEF Service!ThreadStep

LEMMA EndsServes ==
  ASSUME TypeOK, NEW u \in Tid, Ends(u)
  PROVE  Service!ThreadStep(u)
<1>1. ~Live(u)' /\ ~Finished(u)' /\ Handled(u)' = None
  BY DEF Ends, Finished, Handled
<1>2. CASE childNotificationQueue'[u] = <<>>
  <2>1. ~Alive'[u] /\ ~Done'[u] /\ Current'[u] = None
    BY <1>1, ServiceValues
  <2>2. Service!End(u)
    BY <1>2, <2>1 DEF Service!End, Alive, Current, Done
  <2> QED
    BY <2>2 DEF Service!ThreadStep
<1>3. CASE ~Live(u) /\ childNotificationQueue'[u] = childNotificationQueue[u]
  <2>1. Handled(u) = None /\ ~Finished(u) /\ Reached(u, childNotificationQueue'[u])
    BY <1>3, HandledValue DEF Finished, Reached
  <2> QED
    BY <1>1, <1>3, <2>1, ReceivesAtMostOne DEF Ends
<1> QED
  BY <1>2, <1>3 DEF Ends

----------------------------------------------------------------------------
(* The steps: what each does to its thread and to the others.              *)

\* The promise: the invariant goes on to hold of u, which makes a step of the service.
Kept(u) == ExitOK(u)' /\ Service!ThreadStep(u)

LEMMA KindsKeep ==
  ASSUME TypeOK, WInv, ExitInv, Lasting, NEW u \in Tid,
         Rests(u) \/ GoesOn(u) \/ Restored(u) \/ Ends(u)
  PROVE  Kept(u)
<1>1. ExitOK(u)
  BY DEF ExitInv
<1> QED
  BY <1>1, RestsKeeps, RestsServes, GoesOnKeeps, GoesOnServes, RestoredKeeps, RestoredServes,
     EndsKeeps, EndsServes DEF Kept

LEMMA LastingStep ==
  ASSUME TypeOK, used \subseteq used', \A a \in used : ~Live(a) => ~Live(a)',
         \A a \in Tid : a \in threadMap /\ a \notin threadMap' => Gone(a)'
  PROVE  Lasting
BY DEF Lasting, Gone, Registered, TypeOK

LEMMA SameThreadsLast ==
  ASSUME TypeOK, NEW t \in Tid, Live(t)' => Live(t), \A u \in Tid \ {t} : proc'[u] = proc[u],
         used' = used, threadMap \subseteq threadMap'
  PROVE  Lasting
<1>1. \A a \in Tid : ~Live(a) => ~Live(a)'
  BY DEF Live
<1> QED
  BY <1>1, LastingStep DEF TypeOK

\* A notification is queued for a thread that may get it.
LEMMA PushedReached ==
  ASSUME TypeOK, NEW r \in Tid, NEW n \in Notification, n.event # "ThreadExiting", SoundNtf(r, n)'
  PROVE  \A u \in Tid : Reached(u, Pushed(r, n)[u])
<1> TAKE u \in Tid
<1>1. Pushed(r, n)[u] = IF u = r THEN Append(childNotificationQueue[u], n) ELSE childNotificationQueue[u]
  BY DEF Pushed, TypeOK
<1> QED
  BY <1>1 DEF Reached

\* ProcessActions is queued for a receiver.
LEMMA ActionsReach ==
  ASSUME TypeOK, Lasting, NEW r \in Tid, Registered(r)
  PROVE  \A u \in Tid : Reached(u, Pushed(r, Ntf("ProcessActions", None))[u])
<1> DEFINE n == Ntf("ProcessActions", None)
<1>1. n \in Notification /\ n.event = "ProcessActions"
  BY NtfType DEF ChildNotification, Ntf
<1>2. SoundNtf(r, n)'
  BY <1>1 DEF Lasting, SoundNtf
<1>3. \A u \in Tid : Reached(u, Pushed(r, n)[u])
  <2> HIDE DEF n
  <2> QED
    BY <1>1, <1>2, PushedReached
<1> QED
  BY <1>3

\* The parent continues a thread in its code.
LEMMA ContinuedKept ==
  ASSUME TypeOK, WInv, ExitInv, Lasting, NEW t \in Tid,
         proc[t] \in {"trap", "eventclone"}, proc'[t] \in {"running", "trap"},
         regs'[t] = regs[t], childRegs'[t] = childRegs[t], childExiting'[t] = childExiting[t],
         used' = used, regs[t].cx # "ProcessingDone", Reached(t, childNotificationQueue'[t])
  PROVE  Kept(t)
<1>1. /\ Live(t) /\ Live(t)' /\ ~Fresh(t) /\ ~Fresh(t)'
  BY DEF WInv, ThreadOK, KnownOK, Live, Fresh
<1>2. ExitOK(t)
  BY DEF ExitInv
<1>3. SentTo(regs[t])'
  <2>1. PICK r : r = regs[t]
    OBVIOUS
  <2>2. SentTo(r) /\ (r.cx = "QueueProcessActions" => r.dx \in Tid)
    BY <1>1, <1>2, <2>1, ReceiversInTid DEF ExitOK, PlaceOK
  <2>3. SentTo(r)'
    BY <2>2, SentStays
  <2> QED
    BY <2>1, <2>3 DEF SentTo
<1>4. PlaceOK(t)'
  BY <1>1, <1>2, <1>3 DEF ExitOK, PlaceOK
<1>5. GoesOn(t)
  BY <1>1, <1>2, <1>4 DEF GoesOn, ExitOK, AnnouncedOK
<1> QED
  BY <1>5, KindsKeep

\* The parent redirects a stopped thread: its program, or when a handler is done.
LEMMA RedirectKept ==
  ASSUME IInv, WInv, ExitInv, Lasting, NEW t \in Tid, NEW q, Reached(t, q), q # <<>>,
         proc[t] = "trap", proc'[t] \in {"running", "trap"},
         regs'[t] = InCode(Head(q)), childNotificationQueue'[t] = Tail(q),
         childRegs'[t] = IF childRegs[t] = NoRegs THEN regs[t] ELSE childRegs[t],
         childExiting'[t] = childExiting[t], used' = used,
         regs[t].frame = User \/ regs[t].cx = "ProcessingDone"
  PROVE  Kept(t)
<1>0. TypeOK /\ SavedInv
  BY DEF IInv
<1>1. /\ Live(t) /\ Live(t)' /\ ~Fresh(t) /\ ~Fresh(t)'
  BY DEF WInv, ThreadOK, KnownOK, Live, Fresh
<1>2. ExitOK(t)
  BY DEF ExitInv
<1>3. /\ q \in Seq(Notification)
      /\ \A n \in Elems(q) : n \in Elems(childNotificationQueue[t]) \/ SoundNtf(t, n)'
      /\ IsAnnounced(q) <=> IsAnnounced(childNotificationQueue[t])
      /\ IsFirst(childNotificationQueue[t]) => IsFirst(q)
  BY <1>0, ReachedQueue
<1>4. Redirected(t, q)
  BY <1>1, <1>3 DEF Redirected
<1>5. regs[t].cx = "ProcessingDone" =>
        regs[t].frame.event \in {"Dispatch", "ProcessActions", "ThreadExited"} /\ regs[t].frame # User
  BY <1>1, <1>2, UserIsSound DEF ExitOK, PlaceOK
<1>6. childExiting[t] \in {0, 1} /\ (childExiting[t] = 1 <=> IsAnnounced(q))
  <2>1. childExiting[t] \in {0, 1, 2} /\ childExiting[t] # 2
    BY <1>0, <1>1, <1>2 DEF TypeOK, ExitOK, PlaceOK
  <2> QED
    BY <1>1, <1>2, <1>3, <1>5, <2>1, UserIsSound DEF ExitOK, AnnouncedOK
<1>7. regs[t].sys # "exit" /\ (t = mainChild => childExiting[t] = 0)
  BY <1>1, <1>2 DEF ExitOK, PlaceOK, AnnouncedOK
<1>8. childRegs'[t] = regs[t] => regs[t].frame = User
  BY <1>0, <1>1, NoRegsIsNotRegs DEF SavedInv
<1>9. t = mainChild \/ Registered(t)' \/ IsFirst(q)
  BY <1>1, <1>2, <1>3, <1>5, UserIsSound DEF ExitOK, RegisteredOK, Starts, Lasting
<1>10. ExitOK(t)'
  BY <1>0, <1>2, <1>3, <1>4, <1>6, <1>7, <1>8, <1>9, RedirectedKeeps
<1>11. Service!ThreadStep(t)
  BY <1>0, <1>4, RedirectedServes DEF Reached
<1> QED
  BY <1>10, <1>11 DEF Kept

\* A trap that changes no thread but t, and sends no more than notifications.
LEMMA RestsOthers ==
  ASSUME TypeOK, WInv, ExitInv, Lasting, NEW t \in Tid,
         \A u \in Tid \ {t} : /\ proc'[u] = proc[u] /\ regs'[u] = regs[u]
                              /\ childRegs'[u] = childRegs[u] /\ childExiting'[u] = childExiting[u]
                              /\ u \in used' <=> u \in used
                              /\ Reached(u, childNotificationQueue'[u])
  PROVE  \A u \in Tid \ {t} : Kept(u)
<1>1. \A u \in Tid \ {t} : Rests(u)
  BY DEF Rests
<1> QED
  BY <1>1, KindsKeep

LEMMA StartupTrapKept ==
  ASSUME IInv, WInv, ExitInv, NEW t \in Tid, StartupTrap(t),
         UNCHANGED <<exitStatus, used, threadMap, sends>>
  PROVE  \A u \in Tid : Kept(u)
<1> DEFINE sg == [u \in Tid |-> sig[u] \/ (u \in Waiting /\ Live(u))]
<1>0. TypeOK
  BY DEF IInv
<1>1. /\ proc[t] = "trap" /\ regs[t].cx = "Startup" /\ Resume(t, sg)
      /\ UNCHANGED <<childRegs, childNotificationQueue, childExiting, regs, used, threadMap>>
  BY DEF StartupTrap
<1>2. /\ proc'[t] \in {"running", "trap"} /\ \A u \in Tid \ {t} : proc'[u] = proc[u]
  <2>1. sg \in [Tid -> BOOLEAN]
    BY <1>0 DEF TypeOK
  <2> HIDE DEF sg
  <2> QED
    BY <1>0, <1>1, <2>1, ResumeFacts
<1>3. Lasting
  BY <1>0, <1>1, <1>2, SameThreadsLast DEF Live
<1>4. \A u \in Tid : Reached(u, childNotificationQueue'[u])
  BY <1>1 DEF Reached
<1>5. Kept(t)
  BY <1>0, <1>1, <1>2, <1>3, <1>4, ContinuedKept
<1>6. \A u \in Tid \ {t} : Kept(u)
  BY <1>0, <1>1, <1>2, <1>3, <1>4, RestsOthers
<1> QED
  BY <1>5, <1>6

\* Setting up the first notification of Q.
LEMMA SetupFromQueueChanges ==
  ASSUME TypeOK, NEW t \in Tid, NEW S, NEW Q \in [Tid -> Seq(Notification)], SetupFromQueue(t, S, Q)
  PROVE  /\ regs'[t] = InCode(Head(Q[t])) /\ childNotificationQueue'[t] = Tail(Q[t])
         /\ childRegs'[t] = IF childRegs[t] = NoRegs THEN regs[t] ELSE childRegs[t]
         /\ \A u \in Tid \ {t} : /\ regs'[u] = regs[u] /\ childRegs'[u] = childRegs[u]
                                 /\ childNotificationQueue'[u] = Q[u]
BY DEF TypeOK, SetupFromQueue, SetupNotification

LEMMA RunningTrapKept ==
  ASSUME IInv, WInv, ExitInv, NEW t \in Tid, RunningTrap(t),
         UNCHANGED <<exitStatus, used, threadMap, sends>>
  PROVE  \A u \in Tid : Kept(u)
<1> DEFINE notified == regs[t].ip = "notify" /\ regs[t].cx = "QueueProcessActions"
           r == regs[t].dx
           n == Ntf("ProcessActions", None)
           Q == IF notified THEN Pushed(r, n) ELSE childNotificationQueue
           S == IF notified THEN StatesAfterQueue(t, r) ELSE childStates
           sg == IF notified THEN SignalsAfterQueue(t, r) ELSE sig
<1>0. TypeOK /\ SavedInv
  BY DEF IInv
<1>1. /\ Q \in [Tid -> Seq(Notification)] /\ sg \in [Tid -> BOOLEAN]
  <2>1. n \in Notification
    BY NtfType DEF ChildNotification
  <2> QED
    BY <1>0, <2>1, PushedType, SignalsAfterQueueType DEF TypeOK
<1>2. /\ proc[t] = "trap" /\ childStates[t] \in {"Running", "Stopping"} /\ Resume(t, sg)
      /\ IF Q[t] # <<>> /\ notificationSystemReady
         THEN SetupFromQueue(t, S, Q)
         ELSE childNotificationQueue' = Q /\ UNCHANGED <<childRegs, regs>>
      /\ UNCHANGED <<childExiting, used, threadMap>>
  BY DEF RunningTrap
<1>3. notified => Q = Pushed(r, n) /\ r \in Tid /\ Registered(r)
  <2>1. Live(t)
    BY <1>2 DEF Live
  <2> QED
    BY <2>1, ReceiversInTid DEF ExitInv, ExitOK, PlaceOK, SentTo
<1>4. ~notified => Q = childNotificationQueue
  OBVIOUS
<1>5. regs[t].frame = User /\ regs[t].cx # "ProcessingDone"
  <2>1. Live(t)
    BY <1>2 DEF Live
  <2>2. regs[t].frame = User
    BY <1>0, <1>2, <2>1 DEF SavedInv
  <2> QED
    BY <2>1, <2>2, UserIsSound DEF ExitInv, ExitOK, PlaceOK
<1> HIDE DEF S, sg
<1>6. /\ proc'[t] \in {"running", "trap"} /\ \A u \in Tid \ {t} : proc'[u] = proc[u]
  BY <1>0, <1>1, <1>2, ResumeFacts
<1>7. Lasting
  BY <1>0, <1>2, <1>6, SameThreadsLast DEF Live
<1>8. \A u \in Tid : Reached(u, Q[u])
  <2>1. CASE notified
    BY <1>0, <1>3, <1>7, <2>1, ActionsReach
  <2>2. CASE ~notified
    BY <1>4, <2>2 DEF Reached
  <2> QED
    BY <2>1, <2>2
<1> HIDE DEF Q, notified, r, n
<1>9. CASE Q[t] # <<>> /\ notificationSystemReady
  <2>1. /\ regs'[t] = InCode(Head(Q[t])) /\ childNotificationQueue'[t] = Tail(Q[t])
        /\ childRegs'[t] = IF childRegs[t] = NoRegs THEN regs[t] ELSE childRegs[t]
        /\ \A u \in Tid \ {t} : /\ regs'[u] = regs[u] /\ childRegs'[u] = childRegs[u]
                                /\ childNotificationQueue'[u] = Q[u]
    BY <1>0, <1>1, <1>2, <1>9, SetupFromQueueChanges
  <2>2. PICK q : q = Q[t]
    OBVIOUS
  <2>3. Kept(t)
    BY <1>2, <1>5, <1>6, <1>7, <1>8, <1>9, <2>1, <2>2, RedirectKept
  <2>4. \A u \in Tid \ {t} : Kept(u)
    BY <1>0, <1>2, <1>6, <1>7, <1>8, <2>1, RestsOthers
  <2> QED
    BY <2>3, <2>4
<1>10. CASE ~(Q[t] # <<>> /\ notificationSystemReady)
  <2>1. childNotificationQueue' = Q /\ UNCHANGED <<childRegs, regs>>
    BY <1>2, <1>10
  <2>2. Kept(t)
    BY <1>0, <1>2, <1>5, <1>6, <1>7, <1>8, <2>1, ContinuedKept
  <2>3. \A u \in Tid \ {t} : Kept(u)
    BY <1>0, <1>2, <1>6, <1>7, <1>8, <2>1, RestsOthers
  <2> QED
    BY <2>2, <2>3
<1> QED
  BY <1>9, <1>10

LEMMA DoneTrapKept ==
  ASSUME IInv, WInv, ExitInv, NEW t \in Tid, DoneTrap(t), UNCHANGED <<exitStatus, used, threadMap, sends>>
  PROVE  \A u \in Tid : Kept(u)
<1>0. /\ TypeOK /\ SavedInv /\ sig \in [Tid -> BOOLEAN]
      /\ childNotificationQueue \in [Tid -> Seq(Notification)]
  BY DEF IInv, TypeOK
<1>1. /\ proc[t] = "trap" /\ childStates[t] = "ProcessingNotification"
      /\ regs[t].cx = "ProcessingDone" /\ Resume(t, sig)
      /\ UNCHANGED <<childExiting, used, threadMap>>
  BY DEF DoneTrap
<1>2. /\ proc'[t] \in {"running", "trap"} /\ \A u \in Tid \ {t} : proc'[u] = proc[u]
  BY <1>0, <1>1, ResumeFacts
<1>3. Lasting
  BY <1>0, <1>1, <1>2, SameThreadsLast DEF Live
<1>4. \A u \in Tid : Reached(u, childNotificationQueue[u])
  BY DEF Reached
<1>5. CASE childNotificationQueue[t] # <<>>
  <2>1. SetupFromQueue(t, childStates, childNotificationQueue)
    BY <1>5 DEF DoneTrap
  <2>2. /\ regs'[t] = InCode(Head(childNotificationQueue[t]))
        /\ childNotificationQueue'[t] = Tail(childNotificationQueue[t])
        /\ childRegs'[t] = IF childRegs[t] = NoRegs THEN regs[t] ELSE childRegs[t]
        /\ \A u \in Tid \ {t} : /\ regs'[u] = regs[u] /\ childRegs'[u] = childRegs[u]
                                /\ childNotificationQueue'[u] = childNotificationQueue[u]
    <3>1. /\ regs'[t] = InCode(Head(childNotificationQueue[t]))
          /\ childNotificationQueue'[t] = Tail(childNotificationQueue[t])
      BY <1>0, <2>1, SetupFromQueueChanges
    <3>2. childRegs'[t] = IF childRegs[t] = NoRegs THEN regs[t] ELSE childRegs[t]
      BY <1>0, <2>1, SetupFromQueueChanges
    <3>3. \A u \in Tid \ {t} : /\ regs'[u] = regs[u] /\ childRegs'[u] = childRegs[u]
                               /\ childNotificationQueue'[u] = childNotificationQueue[u]
      BY <1>0, <2>1, SetupFromQueueChanges
    <3> QED
      BY <3>1, <3>2, <3>3
  <2>3. PICK q : q = childNotificationQueue[t]
    OBVIOUS
  <2>4. Kept(t)
    BY <1>1, <1>2, <1>3, <1>4, <1>5, <2>2, <2>3, RedirectKept
  <2>5. \A u \in Tid \ {t} : Kept(u)
    BY <1>0, <1>1, <1>2, <1>3, <1>4, <2>2, RestsOthers
  <2> QED
    BY <2>4, <2>5
<1>6. CASE childNotificationQueue[t] = <<>>
  <2>1. RestoreProgram(t) /\ UNCHANGED childNotificationQueue
    BY <1>6 DEF DoneTrap
  <2>2. /\ regs'[t] = childRegs[t] /\ childRegs'[t] = NoRegs
        /\ \A u \in Tid \ {t} : regs'[u] = regs[u] /\ childRegs'[u] = childRegs[u]
    BY <1>0, <2>1 DEF RestoreProgram, TypeOK
  <2>3. /\ Live(t)' /\ ~Fresh(t) /\ ~Fresh(t)'
        /\ regs[t].frame # User /\ childRegs[t].frame = User
    BY <1>0, <1>1, <1>2 DEF SavedInv, WInv, ThreadOK, KnownOK, Live, Fresh
  <2>4. Restored(t)
    BY <1>1, <1>2, <1>6, <2>1, <2>2, <2>3 DEF Restored
  <2>5. Kept(t)
    BY <1>0, <1>3, <2>4, KindsKeep
  <2>6. \A u \in Tid \ {t} : Kept(u)
    BY <1>0, <1>1, <1>2, <1>3, <1>4, <2>1, <2>2, RestsOthers
  <2> QED
    BY <2>5, <2>6
<1> QED
  BY <1>5, <1>6

LEMMA HandlerTrapKept ==
  ASSUME IInv, WInv, ExitInv, NEW t \in Tid, HandlerTrap(t),
         UNCHANGED <<exitStatus, used, threadMap, sends>>
  PROVE  \A u \in Tid : Kept(u)
<1> DEFINE r == regs[t].dx
           sg == SignalsAfterQueue(t, r)
<1>0. TypeOK /\ sg \in [Tid -> BOOLEAN]
  BY SignalsAfterQueueType DEF IInv
<1>1. /\ proc[t] = "trap" /\ regs[t].cx = "QueueProcessActions"
      /\ childNotificationQueue' = Pushed(r, Ntf("ProcessActions", None))
      /\ Resume(t, sg)
      /\ UNCHANGED <<childRegs, childExiting, regs, used, threadMap>>
  BY DEF HandlerTrap
<1>2. /\ proc'[t] \in {"running", "trap"} /\ \A u \in Tid \ {t} : proc'[u] = proc[u]
  <2> HIDE DEF sg
  <2> QED
    BY <1>0, <1>1, ResumeFacts
<1>3. Lasting
  BY <1>0, <1>1, <1>2, SameThreadsLast DEF Live
<1>4. r \in Tid /\ Registered(r)
  <2>1. Live(t)
    BY <1>1 DEF Live
  <2> QED
    BY <1>1, <2>1, ReceiversInTid DEF ExitInv, ExitOK, PlaceOK, SentTo
<1>5. \A u \in Tid : Reached(u, childNotificationQueue'[u])
  <2> HIDE DEF r
  <2> QED
    BY <1>0, <1>1, <1>3, <1>4, ActionsReach
<1>6. Kept(t)
  BY <1>0, <1>1, <1>2, <1>3, <1>5, ContinuedKept
<1>7. \A u \in Tid \ {t} : Kept(u)
  BY <1>0, <1>1, <1>2, <1>3, <1>5, RestsOthers
<1> QED
  BY <1>6, <1>7

----------------------------------------------------------------------------
(* The rest of the parent's steps.                                         *)

\* Registers with one or more fields written.
LEMMA RegsWritten ==
  ASSUME NEW r \in Regs, NEW s, NEW c, NEW d
  PROVE  /\ LET w == [r EXCEPT !.sys = s]
            IN w.sys = s /\ w.ip = r.ip /\ w.frame = r.frame /\ w.cx = r.cx /\ w.dx = r.dx
         /\ LET w == [r EXCEPT !.ip = "notify", !.cx = c, !.dx = d]
            IN w.sys = r.sys /\ w.ip = "notify" /\ w.frame = r.frame /\ w.cx = c /\ w.dx = d
BY DEF Regs

\* A step of t alone that queues nothing.
LEMMA MovedKept ==
  ASSUME TypeOK, WInv, ExitInv, Lasting, NEW t \in Tid, GoesOn(t) \/ Restored(t) \/ Ends(t),
         \A u \in Tid \ {t} : /\ proc'[u] = proc[u] /\ regs'[u] = regs[u]
                              /\ childRegs'[u] = childRegs[u] /\ childExiting'[u] = childExiting[u],
         UNCHANGED <<used, childNotificationQueue>>
  PROVE  \A u \in Tid : Kept(u)
<1>1. \A u \in Tid \ {t} : Kept(u)
  BY RestsOthers DEF Reached
<1>2. Kept(t)
  BY KindsKeep
<1> QED
  BY <1>1, <1>2

\* A step that changes none of it.
LEMMA NothingKept ==
  ASSUME TypeOK, WInv, ExitInv,
         UNCHANGED <<proc, regs, childRegs, childExiting, used, childNotificationQueue, threadMap>>
  PROVE  \A u \in Tid : Kept(u)
<1>1. Lasting
  BY LastingStep DEF Live
<1>2. \A u \in Tid : Rests(u)
  BY DEF Rests, Reached
<1> QED
  BY <1>1, <1>2, KindsKeep

LEMMA ResumedKept ==
  ASSUME IInv, WInv, ExitInv, NEW t \in Tid, IgnoredTrap(t) \/ CloneEvent(t),
         UNCHANGED <<exitStatus, used, threadMap, sends>>
  PROVE  \A u \in Tid : Kept(u)
<1>0. TypeOK /\ sig \in [Tid -> BOOLEAN]
  BY DEF IInv, TypeOK
<1>1. /\ proc[t] \in {"trap", "eventclone"} /\ Resume(t, sig)
      /\ UNCHANGED <<childRegs, childExiting, regs, used, threadMap, childNotificationQueue>>
      /\ proc[t] = "trap" => regs[t].ip # "notify"
  BY DEF IgnoredTrap, CloneEvent, parentVars
<1>2. /\ proc'[t] \in {"running", "trap"} /\ \A u \in Tid \ {t} : proc'[u] = proc[u]
  BY <1>0, <1>1, ResumeFacts
<1>3. Live(t) /\ Live(t)'
  BY <1>1, <1>2 DEF Live
<1>4. Lasting
  BY <1>0, <1>1, <1>2, <1>3, SameThreadsLast
<1>5. \A u \in Tid : Reached(u, childNotificationQueue'[u])
  BY <1>1 DEF Reached
<1>6. regs[t].cx # "ProcessingDone"
  BY <1>1, <1>3 DEF ExitInv, ExitOK, PlaceOK
<1>7. Kept(t)
  BY <1>0, <1>1, <1>2, <1>4, <1>5, <1>6, ContinuedKept
<1>8. \A u \in Tid \ {t} : Kept(u)
  BY <1>0, <1>1, <1>2, <1>4, <1>5, RestsOthers
<1> QED
  BY <1>7, <1>8

\* A thread the parent has not heard of.
LEMMA FreshFacts ==
  ASSUME IInv, WInv, ExitInv, NEW t \in Tid, Fresh(t)
  PROVE  /\ childStates[t] = "none" /\ childNotificationQueue[t] = <<>> /\ t # mainChild
         /\ childExiting[t] = 0 /\ childRegs[t] = NoRegs
         /\ proc[t] = "sigstop" => regs[t] = InCode(User) /\ t \in used
BY DEF IInv, SavedInv, WInv, MainOK, ThreadOK, KnownOK, ExitInv, ExitOK, NewOK

LEMMA NewThreadKept ==
  ASSUME IInv, WInv, ExitInv, NEW t \in Tid, NewThread(t)
  PROVE  \A u \in Tid : Kept(u)
<1> DEFINE n == Ntf("ThreadStarted", None)
           q == Append(<<>>, n)
<1>0. TypeOK /\ sig \in [Tid -> BOOLEAN]
  BY DEF IInv, TypeOK
<1>1. /\ proc[t] = "sigstop" /\ Resume(t, sig)
      /\ UNCHANGED <<childExiting, used, threadMap>>
  BY DEF NewThread
<1>2. /\ childNotificationQueue[t] = <<>> /\ t # mainChild /\ t \in used
      /\ childExiting[t] = 0 /\ childRegs[t] = NoRegs /\ regs[t] = InCode(User)
  BY <1>1, FreshFacts DEF Fresh
<1>3. /\ proc'[t] \in {"running", "trap"} /\ \A u \in Tid \ {t} : proc'[u] = proc[u]
  BY <1>0, <1>1, ResumeFacts
<1>4. Live(t) /\ Live(t)' /\ ~Fresh(t)'
  BY <1>1, <1>2, <1>3 DEF Live, Fresh
<1>5. Lasting
  BY <1>0, <1>1, <1>3, <1>4, SameThreadsLast
<1>6. /\ n \in Notification /\ n.event = "ThreadStarted" /\ SoundNtf(t, n)'
  BY NtfType DEF ChildNotification, Ntf, SoundNtf
<1>7. /\ q \in Seq(Notification) /\ q # <<>> /\ Elems(q) = {n} /\ Head(q) = n /\ Tail(q) = <<>>
      /\ IsFirst(q) /\ ~IsAnnounced(q)
  <2>1. Elems(q) = {n}
    <3> HIDE DEF n
    <3>1. <<>> \in Seq(Notification)
      BY EmptySeq
    <3>2. PICK empty \in Seq(Notification) : empty = <<>>
      BY <3>1
    <3>3. Elems(Append(empty, n)) = Elems(empty) \cup {n}
      BY <1>6, AppendedQueue
    <3> QED
      BY <3>2, <3>3, EmptyQueue
  <2>2. /\ q \in Seq(Notification) /\ q # <<>> /\ Head(q) = n /\ Tail(q) = <<>>
    <3> HIDE DEF n
    <3> QED
      BY <1>6
  <2> QED
    BY <1>6, <2>1, <2>2 DEF IsFirst, IsAnnounced
<1>8. regs[t].frame = User /\ regs[t].cx = "none" /\ regs[t].sys = "none"
  BY <1>2 DEF InCode
<1>9. ExitOK(t)
  BY DEF ExitInv
<1>10. CASE notificationSystemReady
  <2>1. SetupNotification(t, childStates, n) /\ UNCHANGED childNotificationQueue
    BY <1>10 DEF NewThread
  <2>2. /\ regs'[t] = InCode(n) /\ childRegs'[t] = regs[t]
        /\ \A u \in Tid \ {t} : regs'[u] = regs[u] /\ childRegs'[u] = childRegs[u]
    BY <1>0, <1>2, <2>1 DEF SetupNotification, TypeOK
  <2>3. Redirected(t, q)
    BY <1>2, <1>3, <1>4, <1>7, <1>8, <2>1, <2>2 DEF Redirected
  <2>4. \A m \in Elems(q) : m \in Elems(childNotificationQueue[t]) \/ SoundNtf(t, m)'
    BY <1>6, <1>7
  <2>5. q = Append(childNotificationQueue[t], n)
    BY <1>2
  <2> HIDE DEF q, n
  <2>6. ExitOK(t)'
    BY <1>0, <1>1, <1>2, <1>5, <1>7, <1>8, <1>9, <2>3, <2>4, RedirectedKeeps
  <2>7. Service!ThreadStep(t)
    BY <1>0, <1>6, <2>3, <2>5, RedirectedServes
  <2>8. \A u \in Tid \ {t} : Kept(u)
    BY <1>0, <1>1, <1>3, <1>5, <2>1, <2>2, RestsOthers DEF Reached
  <2> QED
    BY <2>6, <2>7, <2>8 DEF Kept
<1>11. CASE ~notificationSystemReady
  <2>1. childNotificationQueue' = Pushed(t, n) /\ UNCHANGED <<childRegs, regs>>
    BY <1>11 DEF NewThread
  <2>2. \A u \in Tid : Reached(u, childNotificationQueue'[u])
    <3> HIDE DEF n
    <3> QED
      BY <1>0, <1>6, <2>1, PushedReached
  <2>3. childNotificationQueue'[t] = q
    BY <1>0, <1>2, <2>1 DEF Pushed, TypeOK
  <2>4. PlaceOK(t)'
    BY <1>1, <1>2, <1>8, <2>1 DEF PlaceOK, SentTo
  <2> HIDE DEF q, n
  <2>5. GoesOn(t)
    BY <1>1, <1>2, <1>4, <1>7, <1>8, <2>1, <2>2, <2>3, <2>4 DEF GoesOn
  <2>6. Kept(t)
    BY <1>0, <1>5, <2>5, KindsKeep
  <2>7. \A u \in Tid \ {t} : Kept(u)
    BY <1>0, <1>1, <1>3, <1>5, <2>1, <2>2, RestsOthers
  <2> QED
    BY <2>6, <2>7
<1> QED
  BY <1>10, <1>11

LEMMA SyscallEnterKept ==
  ASSUME IInv, WInv, ExitInv, NEW t \in Tid, SyscallEnter(t)
  PROVE  \A u \in Tid : Kept(u)
<1>0. TypeOK /\ regs[t] \in Regs /\ childExiting[t] \in {0, 1, 2}
  BY DEF IInv, TypeOK
<1>1. /\ proc[t] = "sysenter" /\ InterceptExit(t) /\ ResumeSyscall(t)
      /\ UNCHANGED <<childRegs, childNotificationQueue, used, threadMap>>
  BY DEF SyscallEnter, WInv, ThreadOK, StopsOK
<1>2. proc'[t] = "insyscall" /\ \A u \in Tid \ {t} : proc'[u] = proc[u]
  BY <1>0, <1>1 DEF ResumeSyscall, TypeOK
<1>3. Live(t) /\ Live(t)' /\ ~Fresh(t)'
  BY <1>1, <1>2 DEF Live, Fresh, WInv, ThreadOK, KnownOK
<1>4. Lasting
  BY <1>0, <1>1, <1>2, <1>3, SameThreadsLast
<1>5. /\ PlaceOK(t) /\ AnnouncedOK(t)
      /\ childExiting[t] # 2 /\ regs[t].cx # "ProcessingDone"
      /\ regs[t].sys = "exit" => t # mainChild /\ regs[t].frame.event \in {"User", "ThreadExiting"}
  BY <1>1, <1>3 DEF ExitInv, ExitOK, PlaceOK, AnnouncedOK
<1>6. \A u \in Tid : Reached(u, childNotificationQueue'[u])
  BY <1>1 DEF Reached
<1>7. SentTo(regs[t]) /\ (regs[t].cx = "QueueProcessActions" => regs[t].dx \in Tid)
  BY <1>3, <1>5, ReceiversInTid DEF PlaceOK
<1>8. PICK r : r = regs[t]
  OBVIOUS
<1>9. SentTo(r)'
  BY <1>0, <1>4, <1>7, <1>8, SentStays
<1>10. CASE regs[t].sys = "exit" /\ childExiting[t] = 0
  <2>1. /\ regs' = [regs EXCEPT ![t].sys = "other"]
        /\ childExiting' = [childExiting EXCEPT ![t] = 2]
    BY <1>1, <1>10 DEF InterceptExit
  <2>2. /\ childExiting'[t] = 2 /\ regs'[t].sys = "other"
        /\ regs'[t].frame = r.frame /\ regs'[t].cx = r.cx /\ regs'[t].dx = r.dx
        /\ \A u \in Tid \ {t} : regs'[u] = regs[u] /\ childExiting'[u] = childExiting[u]
    BY <1>0, <1>8, <2>1, RegsWritten DEF TypeOK
  <2>3. regs[t].frame.event = "User"
    BY <1>3, <1>5, <1>10 DEF AnnouncedOK
  <2>4. regs[t].frame = User
    BY <1>0, <2>3, RegsFields DEF Frame, Notification, ChildNotification, Dispatch
  <2>5. PlaceOK(t)'
    BY <1>2, <1>5, <1>8, <1>9, <2>2 DEF PlaceOK, SentTo
  <2>6. GoesOn(t)
    BY <1>1, <1>3, <1>5, <1>6, <1>8, <1>10, <2>2, <2>4, <2>5 DEF GoesOn
  <2> QED
    BY <1>0, <1>1, <1>2, <1>4, <2>2, <2>6, MovedKept
<1>11. CASE ~(regs[t].sys = "exit" /\ childExiting[t] = 0)
  <2>1. UNCHANGED <<regs, childExiting>>
    BY <1>1, <1>11 DEF InterceptExit
  <2>2. PlaceOK(t)'
    BY <1>0, <1>2, <1>3, <1>5, <1>8, <1>9, <1>11, <2>1 DEF PlaceOK, SentTo
  <2>3. GoesOn(t)
    BY <1>1, <1>3, <1>5, <1>6, <2>1, <2>2 DEF GoesOn, AnnouncedOK
  <2> QED
    BY <1>0, <1>1, <1>2, <1>4, <2>1, <2>3, MovedKept
<1> QED
  BY <1>10, <1>11

\* After its getpid() the thread is redirected: its program does not run again.
LEMMA SyscallLeaveKept ==
  ASSUME IInv, WInv, ExitInv, NEW t \in Tid, SyscallLeave(t)
  PROVE  \A u \in Tid : Kept(u)
<1> DEFINE n == Ntf("ThreadExiting", None)
           q == Append(childNotificationQueue[t], n)
<1>0. /\ TypeOK /\ SavedInv /\ sig \in [Tid -> BOOLEAN] /\ childExiting[t] \in {0, 1, 2}
      /\ childNotificationQueue[t] \in Seq(Notification)
  BY DEF IInv, TypeOK
<1>1. /\ proc[t] = "sysleave" /\ AnnounceExit(t) /\ Resume(t, sig)
      /\ UNCHANGED <<used, threadMap>>
  BY DEF SyscallLeave, ResumeSyscall, WInv, ThreadOK, StopsOK
<1>2. proc'[t] \in {"running", "trap"} /\ \A u \in Tid \ {t} : proc'[u] = proc[u]
  BY <1>0, <1>1, ResumeFacts
<1>3. Live(t) /\ Live(t)' /\ ~Fresh(t) /\ ~Fresh(t)'
  BY <1>1, <1>2 DEF Live, Fresh, WInv, ThreadOK, KnownOK
<1>4. Lasting
  BY <1>0, <1>1, <1>2, <1>3, SameThreadsLast
<1>5. /\ ExitOK(t) /\ PlaceOK(t) /\ AnnouncedOK(t) /\ RegisteredOK(t)
      /\ regs[t].sys # "exit" /\ regs[t].cx # "ProcessingDone"
  BY <1>1, <1>3 DEF ExitInv, ExitOK, PlaceOK
<1>6. CASE childExiting[t] = 2
  <2>1. /\ SetupFromQueue(t, childStates, Pushed(t, n))
        /\ childExiting' = [childExiting EXCEPT ![t] = 1]
    BY <1>1, <1>6 DEF AnnounceExit
  <2>2. n \in Notification /\ n.event = "ThreadExiting" /\ SoundNtf(t, n)'
    BY NtfType DEF ChildNotification, Ntf, SoundNtf
  <2>3. Pushed(t, n) \in [Tid -> Seq(Notification)]
    <3> HIDE DEF n
    <3> QED
      BY <1>0, <2>2, PushedType
  <2>4. Pushed(t, n)[t] = q /\ \A u \in Tid \ {t} : Pushed(t, n)[u] = childNotificationQueue[u]
    BY <1>0 DEF Pushed, TypeOK
  <2>5. /\ childExiting'[t] = 1 /\ \A u \in Tid \ {t} : childExiting'[u] = childExiting[u]
    BY <1>0, <2>1 DEF TypeOK
  <2> HIDE DEF n
  <2>6. /\ q \in Seq(Notification) /\ q # <<>>
        /\ Elems(q) = Elems(childNotificationQueue[t]) \cup {n}
        /\ Head(q) = IF childNotificationQueue[t] = <<>> THEN n ELSE Head(childNotificationQueue[t])
    BY <1>0, <2>2, AppendedQueue
  <2>7. regs[t].frame = User /\ t # mainChild
    BY <1>3, <1>5, <1>6 DEF AnnouncedOK
  <2>8. childRegs[t] = NoRegs
    BY <1>0, <1>3, <2>7 DEF SavedInv
  <2>9. /\ regs'[t] = InCode(Head(Pushed(t, n)[t])) /\ childNotificationQueue'[t] = Tail(Pushed(t, n)[t])
        /\ childRegs'[t] = IF childRegs[t] = NoRegs THEN regs[t] ELSE childRegs[t]
        /\ \A u \in Tid \ {t} : /\ regs'[u] = regs[u] /\ childRegs'[u] = childRegs[u]
                                /\ childNotificationQueue'[u] = Pushed(t, n)[u]
    <3>1. PICK Q \in [Tid -> Seq(Notification)] : Q = Pushed(t, n)
      BY <2>3
    <3>2. TypeOK /\ SetupFromQueue(t, childStates, Q)
      BY <1>0, <2>1, <3>1
    <3>3. /\ regs'[t] = InCode(Head(Q[t])) /\ childNotificationQueue'[t] = Tail(Q[t])
          /\ childRegs'[t] = IF childRegs[t] = NoRegs THEN regs[t] ELSE childRegs[t]
          /\ \A u \in Tid \ {t} : /\ regs'[u] = regs[u] /\ childRegs'[u] = childRegs[u]
                                  /\ childNotificationQueue'[u] = Q[u]
      <4>1. PICK S : S = childStates
        OBVIOUS
      <4>2. SetupFromQueue(t, S, Q)
        BY <3>2, <4>1
      <4> QED
        BY <3>2, <4>2, SetupFromQueueChanges
    <3> QED
      BY <3>1, <3>3
  <2>10. IsAnnounced(q) /\ (IsFirst(childNotificationQueue[t]) => IsFirst(q))
    BY <2>2, <2>6 DEF IsAnnounced, IsFirst
  <2>11. \A m \in Elems(q) : m \in Elems(childNotificationQueue[t]) \/ SoundNtf(t, m)'
    BY <2>2, <2>6
  <2>12. Registered(t)' \/ IsFirst(q)
    BY <1>1, <1>3, <1>4, <1>5, <2>7, <2>10, UserIsSound DEF RegisteredOK, Starts, Lasting
  <2>13. \A u \in Tid \ {t} : Kept(u)
    BY <1>0, <1>1, <1>2, <1>4, <2>4, <2>5, <2>9, RestsOthers DEF Reached
  <2>14. q = Append(childNotificationQueue[t], n)
    OBVIOUS
  <2> HIDE DEF q
  <2>15. Redirected(t, q)
    BY <1>2, <1>3, <2>4, <2>6, <2>7, <2>8, <2>9 DEF Redirected
  <2>16. ExitOK(t)'
    BY <1>0, <1>4, <1>5, <2>5, <2>7, <2>10, <2>11, <2>12, <2>15, RedirectedKeeps
  <2>17. Service!ThreadStep(t)
    BY <1>0, <2>2, <2>14, <2>15, RedirectedServes
  <2> QED
    BY <2>13, <2>16, <2>17 DEF Kept
<1>7. CASE childExiting[t] # 2
  <2>1. UNCHANGED <<childRegs, childNotificationQueue, childExiting, regs>>
    BY <1>1, <1>7 DEF AnnounceExit
  <2>2. PICK r : r = regs[t]
    OBVIOUS
  <2>3. SentTo(r) /\ (r.cx = "QueueProcessActions" => r.dx \in Tid)
    BY <1>3, <1>5, <2>2, ReceiversInTid DEF PlaceOK
  <2>4. SentTo(r)'
    BY <1>0, <1>4, <2>3, SentStays
  <2>5. PlaceOK(t)'
    BY <1>2, <1>5, <1>7, <2>1, <2>2, <2>4 DEF PlaceOK, SentTo
  <2>6. GoesOn(t)
    BY <1>1, <1>3, <1>5, <1>7, <2>1, <2>5 DEF GoesOn, AnnouncedOK, Reached
  <2> QED
    BY <1>0, <1>1, <1>2, <1>4, <2>1, <2>6, MovedKept
<1> QED
  BY <1>6, <1>7

\* The main thread is told that t ended; t is forgotten.
LEMMA ForgottenKept ==
  ASSUME IInv, WInv, ExitInv, NEW t \in Tid, t # mainChild, HandleChildThreadExited(t),
         ~Live(t)', t \in used, \A u \in Tid \ {t} : proc'[u] = proc[u] /\ regs'[u] = regs[u],
         proc'[t] # "sigstop", regs'[t] \in {regs[t], InCode(User)},
         UNCHANGED <<childExiting, used, threadMap>>
  PROVE  \A u \in Tid : Kept(u)
<1> DEFINE n == Ntf("ThreadExited", t)
<1>0. TypeOK
  BY DEF IInv
<1>1. Lasting
  BY <1>0, SameThreadsLast
<1>2. n \in Notification /\ n.event = "ThreadExited" /\ SoundNtf(mainChild, n)'
  BY NtfType DEF ChildNotification, Ntf, SoundNtf, Gone
<1>3. /\ childNotificationQueue' = [Pushed(mainChild, n) EXCEPT ![t] = <<>>]
      /\ childRegs' = [childRegs EXCEPT ![t] = NoRegs]
  BY DEF HandleChildThreadExited
<1> HIDE DEF n
<1>4. Pushed(mainChild, n) \in [Tid -> Seq(Notification)]
  BY <1>0, <1>2, PushedType
<1>5. \A u \in Tid : Reached(u, Pushed(mainChild, n)[u])
  BY <1>0, <1>2, PushedReached
<1>6. /\ childNotificationQueue'[t] = <<>> /\ childRegs'[t] = NoRegs
      /\ \A u \in Tid \ {t} : /\ childNotificationQueue'[u] = Pushed(mainChild, n)[u]
                              /\ childRegs'[u] = childRegs[u]
  BY <1>0, <1>3, <1>4 DEF TypeOK
<1>7. Ends(t)
  BY <1>6 DEF Ends, Fresh
<1>8. Kept(t)
  BY <1>0, <1>1, <1>7, KindsKeep
<1>9. \A u \in Tid \ {t} : Kept(u)
  BY <1>0, <1>1, <1>5, <1>6, RestsOthers
<1> QED
  BY <1>8, <1>9

LEMMA ExitEventKept ==
  ASSUME IInv, WInv, ExitInv, NEW t \in Tid, ExitEvent(t)
  PROVE  \A u \in Tid : Kept(u)
<1>1. /\ t # mainChild /\ proc[t] = "eventexit" /\ HandleChildThreadExited(t)
      /\ proc' = [proc EXCEPT ![t] = "exited"]
      /\ UNCHANGED <<childExiting, regs, used, threadMap>>
  BY DEF ExitEvent
<1>2. proc'[t] = "exited" /\ \A u \in Tid \ {t} : proc'[u] = proc[u]
  BY <1>1 DEF IInv, TypeOK
<1>3. ~Live(t)' /\ t \in used
  BY <1>1, <1>2 DEF Live, WInv, ThreadOK, KnownOK
<1> QED
  BY <1>1, <1>2, <1>3, ForgottenKept

LEMMA ExitedKept ==
  ASSUME IInv, WInv, ExitInv, NEW t \in Tid, Exited(t)
  PROVE  \A u \in Tid : Kept(u)
<1>0. TypeOK
  BY DEF IInv
<1>1. /\ t # mainChild /\ proc[t] = "exited"
      /\ proc' = [proc EXCEPT ![t] = "absent"] /\ regs' = [regs EXCEPT ![t] = InCode(User)]
      /\ UNCHANGED <<childExiting, used, threadMap>>
  BY DEF Exited
<1>2. /\ proc'[t] = "absent" /\ regs'[t] = InCode(User)
      /\ \A u \in Tid \ {t} : proc'[u] = proc[u] /\ regs'[u] = regs[u]
  BY <1>0, <1>1 DEF TypeOK
<1>3. ~Live(t) /\ ~Live(t)' /\ t \in used
  BY <1>1, <1>2 DEF Live, WInv, ThreadOK, KnownOK
<1>4. CASE childStates[t] # "none"
  <2>1. HandleChildThreadExited(t)
    BY <1>4 DEF Exited
  <2> QED
    BY <1>1, <1>2, <1>3, <2>1, ForgottenKept
<1>5. CASE childStates[t] = "none"
  <2>1. UNCHANGED <<childRegs, childNotificationQueue>>
    BY <1>5 DEF Exited
  <2>2. Lasting
    BY <1>0, <1>1, <1>2, <1>3, SameThreadsLast
  <2>3. Ends(t)
    BY <1>1, <1>2, <1>3, <2>1 DEF Ends, Fresh
  <2> QED
    BY <1>0, <1>1, <1>2, <2>1, <2>2, <2>3, MovedKept
<1> QED
  BY <1>4, <1>5

LEMMA TraceLoopKept ==
  ASSUME IInv, WInv, ExitInv, NEW t \in Tid, TraceLoop(t)
  PROVE  \A u \in Tid : Kept(u)
<1>0. TypeOK
  BY DEF IInv
<1>1. CASE HandleTrapOccured(t)
  BY <1>1, StartupTrapKept, RunningTrapKept, DoneTrapKept, HandlerTrapKept, ResumedKept
     DEF HandleTrapOccured
<1>2. CASE NewThread(t)
  BY <1>2, NewThreadKept
<1>3. ~ForwardSignal(t)
  BY FreshFacts DEF ForwardSignal, Fresh
<1>4. CASE NotStoppedFirst(t) \/ MainExitEvent
  BY <1>0, <1>4, NothingKept DEF NotStoppedFirst, MainExitEvent
<1>5. CASE SyscallEnter(t) \/ SyscallLeave(t)
  BY <1>5, SyscallEnterKept, SyscallLeaveKept
<1>6. CASE CloneEvent(t)
  <2>1. UNCHANGED <<exitStatus, used, threadMap, sends>>
    BY <1>6 DEF CloneEvent, parentVars
  <2> QED
    BY <1>6, <2>1, ResumedKept
<1>7. CASE ExitEvent(t) \/ Exited(t)
  BY <1>7, ExitEventKept, ExitedKept
<1> QED
  BY <1>1, <1>2, <1>3, <1>4, <1>5, <1>6, <1>7 DEF TraceLoop

----------------------------------------------------------------------------
(* The steps of the kernel and of the threads.                             *)

\* What t has sent or is about to send is still sound after the step.
LEMMA SentByThread ==
  ASSUME TypeOK, WInv, ExitInv, Lasting, NEW t \in Tid, Live(t)
  PROVE  /\ regs'[t].cx = regs[t].cx /\ regs'[t].dx = regs[t].dx => SentTo(regs[t])'
         /\ PlaceOK(t) /\ AnnouncedOK(t) /\ RegisteredOK(t) /\ ExitOK(t)
<1>1. PlaceOK(t) /\ AnnouncedOK(t) /\ RegisteredOK(t) /\ ExitOK(t)
  BY DEF ExitInv, ExitOK
<1>2. PICK r : r = regs[t]
  OBVIOUS
<1>3. SentTo(r) /\ (r.cx = "QueueProcessActions" => r.dx \in Tid)
  BY <1>1, <1>2, ReceiversInTid DEF PlaceOK
<1>4. SentTo(r)'
  BY <1>3, SentStays
<1> QED
  BY <1>1, <1>2, <1>4 DEF SentTo

\* A thread that runs is known, and neither exits nor is done with a handler.
LEMMA RunningThread ==
  ASSUME WInv, ExitInv, NEW t \in Tid, proc[t] = "running"
  PROVE  /\ Live(t) /\ ~Fresh(t) /\ t \in used
         /\ regs[t].sys # "exit" /\ regs[t].cx # "ProcessingDone" /\ childExiting[t] # 2
BY DEF WInv, ThreadOK, KnownOK, Live, Fresh, ExitInv, ExitOK, PlaceOK

\* A thread that runs goes on in the same code.
LEMMA ProgressKept ==
  ASSUME IInv, WInv, ExitInv, Lasting, NEW t \in Tid, proc[t] = "running",
         proc'[t] \in {"running", "trap", "sysenter"}, regs'[t].frame = regs[t].frame,
         regs'[t].sys = "exit" => /\ t # mainChild /\ proc'[t] = "sysenter"
                                  /\ regs[t].frame.event \in {"User", "ThreadExiting"},
         regs'[t].cx = "ProcessingDone" =>
           /\ proc'[t] = "trap" /\ regs'[t].ip = "notify"
           /\ regs[t].frame.event \in {"Dispatch", "ProcessActions", "ThreadExited"},
         SentTo(regs[t])',
         \A u \in Tid \ {t} : proc'[u] = proc[u] /\ regs'[u] = regs[u],
         UNCHANGED <<childRegs, childNotificationQueue, childExiting, used>>
  PROVE  \A u \in Tid : Kept(u)
<1>0. TypeOK
  BY DEF IInv
<1>1. /\ Live(t) /\ ~Fresh(t) /\ t \in used
      /\ regs[t].sys # "exit" /\ regs[t].cx # "ProcessingDone" /\ childExiting[t] # 2
  BY RunningThread
<1>2. Live(t)' /\ ~Fresh(t)'
  BY <1>1 DEF Live, Fresh
<1>3. PlaceOK(t)'
  BY <1>1 DEF PlaceOK
<1>4. AnnouncedOK(t)
  BY DEF ExitInv, ExitOK
<1>5. GoesOn(t)
  BY <1>1, <1>2, <1>3, <1>4 DEF GoesOn, AnnouncedOK, Reached
<1> QED
  BY <1>0, <1>5, MovedKept

LEMMA DeliverSignalKept ==
  ASSUME IInv, WInv, ExitInv, NEW t \in Tid, DeliverSignal(t)
  PROVE  \A u \in Tid : Kept(u)
<1>0. TypeOK
  BY DEF IInv
<1>1. /\ proc[t] = "running" /\ proc' = [proc EXCEPT ![t] = "trap"]
      /\ UNCHANGED <<childRegs, childNotificationQueue, childExiting, regs, used, threadMap>>
  BY DEF DeliverSignal, parentVars
<1>2. proc'[t] = "trap" /\ \A u \in Tid \ {t} : proc'[u] = proc[u]
  BY <1>0, <1>1 DEF TypeOK
<1>3. /\ Live(t) /\ regs[t].sys # "exit" /\ regs[t].cx # "ProcessingDone"
  BY <1>1, RunningThread
<1>4. Lasting
  BY <1>0, <1>1, <1>2, <1>3, SameThreadsLast
<1>5. SentTo(regs[t])'
  BY <1>0, <1>1, <1>3, <1>4, SentByThread
<1> QED
  BY <1>1, <1>2, <1>3, <1>4, <1>5, ProgressKept

LEMMA FinishSyscallKept ==
  ASSUME IInv, WInv, ExitInv, NEW t \in Tid, FinishSyscall(t)
  PROVE  \A u \in Tid : Kept(u)
<1>0. TypeOK /\ regs[t] \in Regs
  BY DEF IInv, TypeOK
<1>1. /\ proc[t] = "insyscall"
      /\ proc' = [proc EXCEPT ![t] = IF regs[t].sys = "exit" THEN "eventexit" ELSE "sysleave"]
      /\ regs' = [regs EXCEPT ![t].sys = "none"]
      /\ UNCHANGED <<childRegs, childNotificationQueue, childExiting, used, threadMap>>
  BY DEF FinishSyscall, parentVars
<1>2. /\ proc'[t] = IF regs[t].sys = "exit" THEN "eventexit" ELSE "sysleave"
      /\ regs'[t].sys = "none" /\ regs'[t].frame = regs[t].frame
      /\ regs'[t].cx = regs[t].cx /\ regs'[t].dx = regs[t].dx
      /\ \A u \in Tid \ {t} : proc'[u] = proc[u] /\ regs'[u] = regs[u]
  BY <1>0, <1>1, RegsWritten DEF TypeOK
<1>3. Live(t) /\ Live(t)' /\ ~Fresh(t)'
  BY <1>1, <1>2 DEF Live, Fresh, WInv, ThreadOK, KnownOK
<1>4. Lasting
  BY <1>0, <1>1, <1>2, <1>3, SameThreadsLast
<1>5. SentTo(regs[t])' /\ PlaceOK(t) /\ AnnouncedOK(t)
  BY <1>0, <1>2, <1>3, <1>4, SentByThread
<1>6. regs[t].cx # "ProcessingDone"
  BY <1>1, <1>3, <1>5 DEF PlaceOK
<1>7. PlaceOK(t)'
  BY <1>1, <1>2, <1>3, <1>5, <1>6 DEF PlaceOK
<1>8. GoesOn(t)
  BY <1>1, <1>2, <1>3, <1>5, <1>6, <1>7 DEF GoesOn, AnnouncedOK, Reached
<1> QED
  BY <1>0, <1>1, <1>2, <1>4, <1>8, MovedKept

LEMMA ReturnFromInt3Kept ==
  ASSUME IInv, WInv, ExitInv, NEW t \in Tid, ReturnFromInt3(t)
  PROVE  \A u \in Tid : Kept(u)
<1>0. TypeOK
  BY DEF IInv
<1>1. /\ proc[t] = "running" /\ regs' = [regs EXCEPT ![t] = InCode(@.frame)]
      /\ UNCHANGED <<childRegs, childNotificationQueue, childExiting, proc, used, threadMap>>
  BY DEF ReturnFromInt3, parentVars
<1>2. /\ regs'[t].sys = "none" /\ regs'[t].frame = regs[t].frame /\ regs'[t].cx = "none"
      /\ \A u \in Tid \ {t} : regs'[u] = regs[u]
  BY <1>0, <1>1 DEF InCode, TypeOK
<1>3. Lasting
  BY <1>0, <1>1, SameThreadsLast DEF Live
<1>4. SentTo(regs[t])'
  BY <1>2 DEF SentTo
<1> QED
  BY <1>1, <1>2, <1>3, <1>4, ProgressKept

LEMMA Int3Kept ==
  ASSUME IInv, WInv, ExitInv, NEW t \in Tid, InProgram(t),
         NEW c, NEW d, Int3(t, c, d), UNCHANGED <<parentVars, used>>,
         c = "QueueProcessActions" => Registered(d)',
         c = "ProcessingDone" => regs[t].frame.event \in {"Dispatch", "ProcessActions", "ThreadExited"},
         \A a \in Tid : a \in threadMap /\ a \notin threadMap' => Gone(a)
  PROVE  \A u \in Tid : Kept(u)
<1>0. TypeOK /\ regs[t] \in Regs
  BY DEF IInv, TypeOK
<1>1. /\ proc[t] = "running" /\ proc' = [proc EXCEPT ![t] = "trap"]
      /\ regs' = [regs EXCEPT ![t].ip = "notify", ![t].cx = c, ![t].dx = d]
      /\ UNCHANGED <<childRegs, childNotificationQueue, childExiting, used>>
  BY DEF InProgram, Int3, parentVars
<1>2. /\ proc'[t] = "trap" /\ regs'[t].sys = regs[t].sys /\ regs'[t].frame = regs[t].frame
      /\ regs'[t].ip = "notify" /\ regs'[t].cx = c /\ regs'[t].dx = d
      /\ \A u \in Tid \ {t} : proc'[u] = proc[u] /\ regs'[u] = regs[u]
  BY <1>0, <1>1, RegsWritten DEF TypeOK
<1>3. Live(t) /\ regs[t].sys # "exit"
  BY <1>1, RunningThread
<1>4. \A a \in Tid : ~Live(a) => ~Live(a)'
  BY <1>1, <1>2, <1>3 DEF Live
<1>5. Lasting
  BY <1>0, <1>1, <1>4, LastingStep DEF TypeOK, Gone
<1>6. SentTo(regs[t])'
  BY <1>2 DEF SentTo, Registered, Gone
<1> QED
  BY <1>1, <1>2, <1>3, <1>5, <1>6, ProgressKept

LEMMA FinishHandlerKept ==
  ASSUME IInv, WInv, ExitInv, NEW t \in Tid, FinishHandler(t)
  PROVE  \A u \in Tid : Kept(u)
<1>1. /\ InProgram(t) /\ Int3(t, "ProcessingDone", None) /\ UNCHANGED <<parentVars, used>>
      /\ regs[t].frame.event \in {"Dispatch", "ProcessActions", "ThreadExited"}
      /\ threadMap' = IF regs[t].frame.event = "ThreadExited"
                      THEN threadMap \ {regs[t].frame.arg} ELSE threadMap
  BY DEF FinishHandler
<1>2. regs[t].frame.event = "ThreadExited" => Gone(regs[t].frame.arg)
  BY DEF ExitInv, ExitOK, MessagesOK, SoundNtf
<1>3. \A a \in Tid : a \in threadMap /\ a \notin threadMap' => Gone(a)
  BY <1>1, <1>2
<1> QED
  BY <1>1, <1>3, Int3Kept

LEMMA QueueActionKept ==
  ASSUME IInv, WInv, ExitInv, NEW t \in Tid, NEW r \in Tid, QueueAction(t, r)
  PROVE  \A u \in Tid : Kept(u)
<1>1. /\ InProgram(t) /\ Int3(t, "QueueProcessActions", r) /\ UNCHANGED <<parentVars, used>>
      /\ r \in threadMap /\ threadMap' = threadMap
  BY DEF QueueAction
<1>2. Registered(r)'
  BY <1>1 DEF Registered
<1> QED
  BY <1>1, <1>2, Int3Kept

LEMMA StartupKept ==
  ASSUME IInv, WInv, ExitInv, Startup
  PROVE  \A u \in Tid : Kept(u)
<1>1. /\ InProgram(mainChild) /\ Int3(mainChild, "Startup", None)
      /\ UNCHANGED <<parentVars, used>> /\ threadMap' = threadMap
  BY DEF Startup
<1> QED
  BY <1>1, Int3Kept

LEMMA EnterSyscallKept ==
  ASSUME IInv, WInv, ExitInv, NEW t \in Tid, ThreadExit(t) \/ OtherSyscall(t)
  PROVE  \A u \in Tid : Kept(u)
<1>0. TypeOK /\ regs[t] \in Regs
  BY DEF IInv, TypeOK
<1>1. PICK s \in {"exit", "other"} :
        /\ proc[t] = "running" /\ proc' = [proc EXCEPT ![t] = "sysenter"]
        /\ regs' = [regs EXCEPT ![t].sys = s]
        /\ s = "exit" => t # mainChild /\ regs[t].frame.event \in {"User", "ThreadExiting"}
        /\ UNCHANGED <<childRegs, childNotificationQueue, childExiting, used, threadMap>>
  <2>1. CASE ThreadExit(t)
    BY <2>1 DEF ThreadExit, InProgram, parentVars
  <2>2. CASE OtherSyscall(t)
    BY <2>2 DEF OtherSyscall, InProgram, parentVars
  <2> QED
    BY <2>1, <2>2
<1>2. /\ proc'[t] = "sysenter" /\ regs'[t].sys = s /\ regs'[t].frame = regs[t].frame
      /\ regs'[t].cx = regs[t].cx /\ regs'[t].dx = regs[t].dx
      /\ \A u \in Tid \ {t} : proc'[u] = proc[u] /\ regs'[u] = regs[u]
  BY <1>0, <1>1, RegsWritten DEF TypeOK
<1>3. Live(t) /\ regs[t].cx # "ProcessingDone"
  BY <1>1, RunningThread
<1>4. Lasting
  BY <1>0, <1>1, <1>2, <1>3, SameThreadsLast
<1>5. SentTo(regs[t])'
  BY <1>0, <1>2, <1>3, <1>4, SentByThread
<1> QED
  BY <1>1, <1>2, <1>3, <1>4, <1>5, ProgressKept

\* The first part of ThreadStarted: the thread gets its object.
LEMMA RegisterThreadKept ==
  ASSUME IInv, WInv, ExitInv, NEW t \in Tid, RegisterThread(t)
  PROVE  \A u \in Tid : Kept(u)
<1>0. TypeOK /\ regs[t] \in Regs /\ childExiting[t] \in {0, 1, 2}
  BY DEF IInv, TypeOK
<1>1. /\ proc[t] = "running" /\ regs[t].frame.event = "ThreadStarted"
      /\ threadMap' = threadMap \cup {t} /\ regs' = [regs EXCEPT ![t] = InCode(Dispatch)]
      /\ UNCHANGED <<childRegs, childNotificationQueue, childExiting, proc, used>>
  BY DEF RegisterThread, InProgram, parentVars
<1>2. /\ regs'[t] = InCode(Dispatch) /\ regs'[t].sys = "none" /\ regs'[t].cx = "none"
      /\ regs'[t].frame = Dispatch /\ \A u \in Tid \ {t} : regs'[u] = regs[u]
  BY <1>0, <1>1 DEF InCode, TypeOK
<1>3. /\ Live(t) /\ Live(t)' /\ ~Fresh(t) /\ ~Fresh(t)' /\ regs[t].cx # "ProcessingDone"
      /\ childExiting[t] # 2
  BY <1>1, RunningThread DEF Live, Fresh
<1>4. Lasting
  BY <1>0, <1>1, SameThreadsLast DEF Live
<1>5. ExitOK(t)
  BY DEF ExitInv
<1>6. ExitOK(t)'
  <2>1. MessagesOK(t)'
    <3>1. PICK r : r = childRegs[t]
      OBVIOUS
    <3>2. SentTo(r) /\ (r.cx = "QueueProcessActions" => r.dx \in Tid)
      BY <1>5, <3>1, ReceiversInTid DEF ExitOK, MessagesOK
    <3>3. SentTo(r)'
      BY <1>0, <1>4, <3>2, SentStays
    <3>4. \A n \in Elems(childNotificationQueue[t]) : SoundNtf(t, n)'
      BY <1>0, <1>4, <1>5, SoundStays DEF ExitOK, MessagesOK
    <3>5. SoundNtf(t, Dispatch)'
      BY DEF SoundNtf, Dispatch
    <3> QED
      BY <1>1, <1>2, <3>1, <3>3, <3>4, <3>5 DEF MessagesOK, SentTo
  <2>2. AnnouncedOK(t)'
    BY <1>0, <1>1, <1>2, <1>3, <1>5, UserIsSound, UserIsNoNotification DEF ExitOK, AnnouncedOK
  <2>3. PlaceOK(t)' /\ SavedOK(t)' /\ NewOK(t)'
    BY <1>1, <1>2, <1>3, <1>5 DEF ExitOK, PlaceOK, SavedOK, NewOK, SentTo
  <2>4. RegisteredOK(t)'
    BY <1>1 DEF RegisteredOK, Registered
  <2> QED
    BY <2>1, <2>2, <2>3, <2>4 DEF ExitOK
<1>7. Handled(t) = Ntf("ThreadStarted", None) /\ Handled(t)' = Ntf("ThreadStarted", None)
  <2>1. regs[t].frame.arg = None
    BY <1>1, <1>5 DEF ExitOK, MessagesOK, SoundNtf
  <2>2. regs[t].frame \in Notification
    BY <1>0, <1>1, RegsFields, UserIsSound DEF Frame
  <2>3. regs[t].frame = Ntf("ThreadStarted", None)
    BY <1>1, <2>1, <2>2 DEF Notification, Ntf
  <2>4. Handled(t) = Ntf("ThreadStarted", None)
    BY <1>3, <2>2, <2>3, HandledValue
  <2>5. Handled(t)' = Ntf("ThreadStarted", None)
    BY <1>2, <1>3, UserIsNoNotification DEF Handled
  <2> QED
    BY <2>4, <2>5
<1>8. ~Finished(t) /\ ~Finished(t)'
  BY <1>2, <1>3 DEF Finished
<1>9. Service!ThreadStep(t)
  BY <1>0, <1>1, <1>3, <1>7, <1>8, ReceivesAtMostOne DEF Reached
<1>10. \A u \in Tid \ {t} : Kept(u)
  BY <1>0, <1>1, <1>2, <1>4, RestsOthers DEF Reached
<1> QED
  BY <1>6, <1>9, <1>10 DEF Kept

\* A new thread begins, with an empty queue, as nobody ever had its id.
LEMMA CloneKept ==
  ASSUME ~ReuseTids, IInv, WInv, ExitInv, NEW t \in Tid, NEW v \in Tid, Clone(t, v)
  PROVE  \A u \in Tid : Kept(u)
<1>0. TypeOK
  BY DEF IInv
<1>1. /\ proc[t] = "running" /\ proc[v] = "absent" /\ v \notin used /\ t # v
      /\ proc' = [proc EXCEPT ![t] = "eventclone", ![v] = "sigstop"]
      /\ regs' = [regs EXCEPT ![v] = InCode(User)] /\ used' = used \cup {v}
      /\ UNCHANGED <<childRegs, childNotificationQueue, childExiting, threadMap>>
  BY DEF Clone, InProgram, parentVars
<1>2. /\ proc'[t] = "eventclone" /\ proc'[v] = "sigstop" /\ regs'[v] = InCode(User)
      /\ \A u \in Tid \ {v} : regs'[u] = regs[u]
      /\ \A u \in Tid \ {t, v} : proc'[u] = proc[u]
  BY <1>0, <1>1 DEF TypeOK
<1>3. /\ Live(t) /\ t \in used /\ regs[t].sys # "exit" /\ regs[t].cx # "ProcessingDone"
      /\ childExiting[t] # 2
  BY <1>1, RunningThread
<1>4. Live(t)' /\ ~Fresh(t)' /\ ~Live(v) /\ Live(v)'
  BY <1>1, <1>2, <1>3 DEF Live, Fresh
<1>5. \A a \in used : ~Live(a) => ~Live(a)'
  BY <1>0, <1>1, <1>2, <1>3 DEF Live, TypeOK
<1>6. Lasting
  BY <1>0, <1>1, <1>5, LastingStep
<1>7. /\ childStates[v] = "none" /\ childNotificationQueue[v] = <<>> /\ v # mainChild
      /\ childExiting[v] = 0 /\ childRegs[v] = NoRegs
  BY <1>1, FreshFacts DEF Fresh
<1>8. Kept(t)
  <2>1. SentTo(regs[t])' /\ AnnouncedOK(t)
    BY <1>0, <1>1, <1>2, <1>3, <1>6, SentByThread
  <2>2. PlaceOK(t)'
    BY <1>1, <1>2, <1>3, <2>1 DEF PlaceOK
  <2>3. GoesOn(t)
    BY <1>1, <1>2, <1>3, <1>4, <2>1, <2>2 DEF GoesOn, AnnouncedOK, Reached
  <2> QED
    BY <1>0, <1>6, <2>3, KindsKeep
<1>9. \A u \in Tid \ {t, v} : Kept(u)
  <2> TAKE u \in Tid \ {t, v}
  <2>1. Rests(u)
    BY <1>1, <1>2 DEF Rests, Reached
  <2> QED
    BY <1>0, <1>6, <2>1, KindsKeep
<1>10. ExitOK(v)'
  <2>1. /\ regs'[v].frame = User /\ regs'[v].cx = "none" /\ regs'[v].sys = "none"
        /\ childRegs'[v].cx = "none" /\ childRegs'[v].sys = "none"
        /\ childExiting'[v] = 0 /\ childNotificationQueue'[v] = <<>>
    BY <1>1, <1>2, <1>7 DEF InCode, NoRegs
  <2>2. MessagesOK(v)'
    BY <2>1, EmptyQueue DEF MessagesOK, SoundNtf, SentTo, User
  <2>3. AnnouncedOK(v)'
    BY <1>7, <2>1, EmptyQueue, UserIsSound DEF AnnouncedOK, IsAnnounced
  <2>4. PlaceOK(v)' /\ SavedOK(v)' /\ NewOK(v)'
    BY <1>2, <2>1 DEF PlaceOK, SavedOK, NewOK, SentTo
  <2>5. RegisteredOK(v)'
    BY <1>2, <2>1, UserIsSound DEF RegisteredOK
  <2> QED
    BY <2>2, <2>3, <2>4, <2>5 DEF ExitOK
<1>11. Service!ThreadStep(v)
  <2>1. Handled(v) = None /\ Handled(v)' = None /\ ~Finished(v) /\ ~Finished(v)'
    BY <1>2, <1>4, HandledValue DEF Finished, InCode
  <2>2. /\ ~Alive[v] /\ Alive'[v] /\ Current'[v] = Current[v] /\ Done'[v] = Done[v]
    BY <1>4, <2>1, ServiceValues
  <2>3. Service!Create(v)
    BY <1>1, <1>7, <2>2 DEF Service!Create, Alive, Current, Done
  <2> QED
    BY <2>3 DEF Service!ThreadStep
<1> QED
  BY <1>8, <1>9, <1>10, <1>11 DEF Kept

\* All threads go to their exit.
LEMMA ExitGroupKept ==
  ASSUME IInv, WInv, ExitInv, ExitGroup
  PROVE  \A u \in Tid : Kept(u)
<1>0. TypeOK
  BY DEF IInv
<1>1. /\ proc' = [t \in Tid |-> IF Live(t) THEN "eventexit" ELSE proc[t]]
      /\ UNCHANGED <<childRegs, childNotificationQueue, childExiting, regs, used, threadMap>>
  BY DEF ExitGroup, parentVars
<1>2. \A u \in Tid : Live(u)' <=> Live(u)
  BY <1>1 DEF Live
<1>3. Lasting
  BY <1>0, <1>1, <1>2, LastingStep DEF TypeOK
<1> TAKE u \in Tid
<1>4. CASE ~Live(u) \/ proc[u] = "eventexit"
  <2>1. Rests(u)
    BY <1>1, <1>4 DEF Rests, Reached, Live
  <2> QED
    BY <1>0, <1>3, <2>1, KindsKeep
<1>5. CASE Live(u) /\ proc[u] # "eventexit"
  <2>1. proc'[u] = "eventexit"
    BY <1>1, <1>5
  <2>2. u \in used
    BY <1>5 DEF WInv, ThreadOK, KnownOK, Live
  <2>3. Live(u)' /\ ~Fresh(u)'
    BY <1>1, <1>2, <1>5, <2>1, <2>2 DEF Fresh
  <2>4. SentTo(regs[u])' /\ PlaceOK(u) /\ AnnouncedOK(u)
    BY <1>0, <1>1, <1>3, <1>5, SentByThread
  <2>5. PlaceOK(u)'
    BY <1>1, <1>5, <2>1, <2>4 DEF PlaceOK
  <2>6. proc[u] = "sigstop" => regs[u].frame = User
    BY FreshFacts DEF Fresh, InCode
  <2>7. GoesOn(u)
    BY <1>1, <1>5, <2>1, <2>3, <2>4, <2>5, <2>6 DEF GoesOn, AnnouncedOK, Reached
  <2> QED
    BY <1>0, <1>3, <2>7, KindsKeep
<1> QED
  BY <1>4, <1>5

LEMMA ThreadStepKept ==
  ASSUME ~ReuseTids, IInv, WInv, ExitInv, NEW t \in Tid, ThreadStep(t)
  PROVE  \A u \in Tid : Kept(u)
BY DeliverSignalKept, FinishSyscallKept, ReturnFromInt3Kept, RegisterThreadKept, FinishHandlerKept,
   EnterSyscallKept, StartupKept, ExitGroupKept, QueueActionKept, CloneKept DEF ThreadStep

----------------------------------------------------------------------------
(* The theorems about exits and about the service.                         *)

LEMMA ExitInvInit ==
  ASSUME Init
  PROVE  ExitInv
<1> SUFFICES ASSUME NEW u \in Tid PROVE ExitOK(u)
  BY DEF ExitInv
<1>1. /\ regs[u].frame = User /\ regs[u].cx = "none" /\ regs[u].sys = "none" /\ regs[u] = InCode(User)
      /\ childRegs[u].cx = "none" /\ childRegs[u].sys = "none"
      /\ childExiting[u] = 0 /\ childNotificationQueue[u] = <<>>
      /\ u # mainChild => ~Live(u)
  BY DEF Init, InCode, NoRegs, Live
<1>2. MessagesOK(u)
  BY <1>1, EmptyQueue DEF MessagesOK, SoundNtf, SentTo, User
<1>3. AnnouncedOK(u)
  BY <1>1, EmptyQueue, UserIsSound DEF AnnouncedOK, IsAnnounced
<1>4. PlaceOK(u) /\ SavedOK(u) /\ NewOK(u)
  BY <1>1 DEF PlaceOK, SavedOK, NewOK, SentTo
<1>5. RegisteredOK(u)
  BY <1>1, UserIsSound DEF RegisteredOK
<1> QED
  BY <1>2, <1>3, <1>4, <1>5 DEF ExitOK

LEMMA ServiceInit ==
  ASSUME Init
  PROVE  Service!Init
<1>1. \A u \in Tid : ~Finished(u) /\ Handled(u) = None
  BY HandledValue DEF Init, InCode, Finished
<1>2. /\ [t \in Tid |-> Live(t)] \in [Tid -> BOOLEAN]
      /\ [t \in Tid |-> Handled(t)] = [t \in Tid |-> None]
      /\ [t \in Tid |-> Live(t) /\ regs[t].frame # User /\ regs[t].cx = "ProcessingDone"]
           = [t \in Tid |-> FALSE]
  BY <1>1 DEF Live, Finished
<1>3. childNotificationQueue = [t \in Tid |-> <<>>]
  BY DEF Init
<1> QED
  BY <1>2, <1>3 DEF Service!Init

LEMMA ExitInvNext ==
  ASSUME ~ReuseTids, IInv, WInv, ExitInv, [Next]_vars
  PROVE  ExitInv' /\ [\A t \in Tid : Service!ThreadStep(t)]_Service!vars
<1>1. ASSUME \A u \in Tid : Kept(u)
      PROVE  ExitInv' /\ [\A t \in Tid : Service!ThreadStep(t)]_Service!vars
  <2>1. \A u \in Tid : ExitOK(u)' /\ Service!ThreadStep(u)
    BY <1>1 DEF Kept
  <2>2. ExitInv'
    BY <2>1 DEF ExitInv
  <2> QED
    BY <2>1, <2>2
<1>2. ASSUME NEW t \in Tid, TraceLoop(t) \/ ThreadStep(t)
      PROVE  \A u \in Tid : Kept(u)
  BY <1>2, TraceLoopKept, ThreadStepKept
<1>3. CASE UNCHANGED vars
  <2>1. UNCHANGED <<proc, regs, childRegs, childExiting, used, childNotificationQueue, threadMap>>
    BY <1>3 DEF vars, parentVars
  <2>2. \A u \in Tid : Kept(u)
    BY <2>1, NothingKept DEF IInv
  <2> QED
    BY <1>1, <2>2
<1> QED
  BY <1>1, <1>2, <1>3 DEF Next, Terminated

LEMMA SpecExitInv ==
  ASSUME ~ReuseTids
  PROVE  Spec => []ExitInv
<1>1. Init => ExitInv
  BY ExitInvInit
<1>2. IInv /\ WInv /\ ExitInv /\ [Next]_vars => ExitInv'
  BY ExitInvNext
<1> QED
  BY <1>1, <1>2, SpecInv, SpecWInv, PTL DEF Spec

\* If no thread id is used twice, a thread that ends by itself has been through
\* the ThreadExiting handler, whatever it was sent while it left: the first
\* exit() is turned into another system call in every state of the thread, and
\* after it only handlers run, the last of which exits.
THEOREM ExitsAreAnnounced ==
  ASSUME ~ReuseTids
  PROVE  Spec => []ExitingAnnounced
<1>1. IInv /\ ExitInv => ExitingAnnounced
  <2> SUFFICES ASSUME IInv, ExitInv, NEW t \in Tid, proc[t] = "insyscall", regs[t].sys = "exit"
               PROVE  regs[t].frame.event = "ThreadExiting" /\ childExiting[t] = 1
    BY DEF ExitingAnnounced
  <2>1. PlaceOK(t) /\ AnnouncedOK(t) /\ Live(t)
    BY DEF ExitInv, ExitOK, Live
  <2>2. childExiting[t] = 1 /\ regs[t].frame.event \in {"User", "ThreadExiting"}
    BY <2>1 DEF PlaceOK
  <2>3. regs[t].frame.event = "User" => regs[t].frame = User
    <3>1. regs[t] \in Regs
      BY DEF IInv, TypeOK
    <3> QED
      BY <3>1, RegsFields DEF Frame, Notification, ChildNotification, Dispatch
  <2> QED
    BY <2>1, <2>2, <2>3 DEF AnnouncedOK
<1> QED
  BY <1>1, SpecInv, SpecExitInv, PTL

\* If no thread id is used twice, a thread that processes actions, or is about to
\* dispatch its start or end event, has a ChildThread object: the notifications
\* in the queue of a thread, whoever sent them, follow its ThreadStarted, and the
\* object is removed only on behalf of a thread that ended.
THEOREM ChildThreadsExist ==
  ASSUME ~ReuseTids
  PROVE  Spec => []ChildThreadExists
<1>1. ExitInv => ChildThreadExists
  <2> SUFFICES ASSUME ExitInv, NEW t \in Tid, Live(t),
                      regs[t].frame.event \in {"Dispatch", "ProcessActions", "ThreadExiting"}
               PROVE  t \in threadMap
    BY DEF ChildThreadExists
  <2>1. Registered(t)
    BY DEF ExitInv, ExitOK, RegisteredOK, MessagesOK, SoundNtf
  <2> QED
    BY <2>1 DEF Registered, Gone
<1> QED
  BY <1>1, SpecExitInv, PTL

\* If no thread id is used twice, the notification protocol implements the
\* service it is built for: every thread handles what it is sent in the order it
\* was sent, one at a time, its program goes on only when nothing waits, and only
\* what was sent to a thread that ended is dropped. The parent's redirecting,
\* saving and restoring of registers, its signals and the system calls, clones
\* and exits that they meet are all invisible in it.
THEOREM ServiceIsImplemented ==
  ASSUME ~ReuseTids
  PROVE  Spec => ImplementsService
<1>1. Init => Service!Init
  BY ServiceInit
<1>2. IInv /\ WInv /\ ExitInv /\ [Next]_vars => [\A t \in Tid : Service!ThreadStep(t)]_Service!vars
  BY ExitInvNext
<1> QED
  BY <1>1, <1>2, SpecInv, SpecWInv, SpecExitInv, PTL DEF Spec, ImplementsService, Service!Spec

============================================================================
