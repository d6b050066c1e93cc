----------------------- MODULE ParentProcess_proofs -----------------------
(***************************************************************************)
(* Proofs about ParentProcess, for every set of thread ids, every bound on *)
(* the sends, and whether or not the kernel reuses ids.                    *)
(***************************************************************************)
EXTENDS ParentProcess, SequenceTheorems, TLAPS

USE MainAssumption, NoneAssumption, BoundAssumption, ReuseAssumption

\* No thread is in a handler, and none exits, before the addresses are known.
QuietBeforeStartup ==
  ~notificationSystemReady =>
    \A t \in Tid : /\ childStates[t] # "ProcessingNotification"
                   /\ childExiting[t] # 2
                   /\ regs[t].sys # "exit"

\* InterruptedProgramSaved, and the same for ids that are not in use.
SavedInv ==
  \A t \in Tid :
    IF childStates[t] = "ProcessingNotification"
    THEN /\ Live(t)
         /\ regs[t].frame # User
         /\ childRegs[t] \in Regs
         /\ childRegs[t].frame = User
    ELSE /\ Live(t) => regs[t].frame = User
         /\ childRegs[t] = NoRegs

IInv == TypeOK /\ QuietBeforeStartup /\ SavedInv

----------------------------------------------------------------------------
(* Facts about registers and frames.                                       *)

LEMMA UserIsNoNotification ==
  /\ User \in Frame /\ Dispatch \in Frame /\ Dispatch # User
  /\ \A n \in Notification : n \in Frame /\ n # User
BY DEF User, Dispatch, Frame, Notification, ChildNotification

LEMMA NoRegsIsNotRegs == NoRegs \notin Regs
BY DEF NoRegs, Regs

LEMMA InCodeType ==
  ASSUME NEW f \in Frame
  PROVE  InCode(f) \in Regs /\ InCode(f).frame = f /\ InCode(f).sys = "none"
BY DEF InCode, Regs

LEMMA NtfType ==
  ASSUME NEW e \in ChildNotification, NEW a \in Tid \cup {None}
  PROVE  Ntf(e, a) \in Notification
BY DEF Ntf, Notification

\* Every field of the registers of a thread has its type.
LEMMA RegsFields ==
  ASSUME NEW r \in Regs
  PROVE  /\ r.frame \in Frame
         /\ r.ip \in {"code", "notify"}
         /\ r.cx \in ParentNotification \cup {"none"}
         /\ r.dx \in Tid \cup {None}
         /\ r.sys \in {"none", "exit", "other"}
BY DEF Regs

\* Writing the system call number changes nothing else.
LEMMA RegsSys ==
  ASSUME NEW r \in Regs, NEW s \in {"none", "exit", "other"}
  PROVE  /\ [r EXCEPT !.sys = s] \in Regs
         /\ [r EXCEPT !.sys = s].frame = r.frame
         /\ [r EXCEPT !.sys = s].sys = s
BY DEF Regs

\* The registers after an int3.
LEMMA RegsInt3 ==
  ASSUME NEW r \in Regs, NEW c \in ParentNotification, NEW d \in Tid \cup {None}
  PROVE  /\ [r EXCEPT !.ip = "notify", !.cx = c, !.dx = d] \in Regs
         /\ [r EXCEPT !.ip = "notify", !.cx = c, !.dx = d].frame = r.frame
         /\ [r EXCEPT !.ip = "notify", !.cx = c, !.dx = d].sys = r.sys
BY DEF Regs

----------------------------------------------------------------------------
(* Facts about the helpers of the parent.                                  *)

LEMMA PushedType ==
  ASSUME TypeOK, NEW r, NEW n \in Notification
  PROVE  /\ Pushed(r, n) \in [Tid -> Seq(Notification)]
         /\ r \in Tid => Pushed(r, n)[r] # <<>>
<1>1. \A u \in Tid : Append(childNotificationQueue[u], n) \in Seq(Notification)
                       /\ Append(childNotificationQueue[u], n) # <<>>
  <2> TAKE u \in Tid
  <2>1. childNotificationQueue[u] \in Seq(Notification)
    BY DEF TypeOK
  <2> QED
    BY <2>1, AppendProperties
<1>2. childNotificationQueue \in [Tid -> Seq(Notification)]
  BY DEF TypeOK
<1>3. CASE r \in Tid
  BY <1>1, <1>2, <1>3 DEF Pushed
<1>4. CASE r \notin Tid
  BY <1>2, <1>4 DEF Pushed
<1> QED
  BY <1>3, <1>4

LEMMA StatesAfterQueueType ==
  ASSUME TypeOK, NEW t, NEW r
  PROVE  /\ StatesAfterQueue(t, r)
              \in [Tid -> {"none", "Running", "Stopping", "ProcessingNotification"}]
         /\ \A u \in Tid : StatesAfterQueue(t, r)[u] = "ProcessingNotification"
                             <=> childStates[u] = "ProcessingNotification"
BY DEF TypeOK, StatesAfterQueue, Wakes

LEMMA SignalsAfterQueueType ==
  ASSUME TypeOK, NEW t, NEW r
  PROVE  SignalsAfterQueue(t, r) \in [Tid -> BOOLEAN]
BY DEF TypeOK, SignalsAfterQueue

LEMMA ResumeType ==
  ASSUME TypeOK, NEW t \in Tid, NEW sg \in [Tid -> BOOLEAN], Resume(t, sg), Live(t)
  PROVE  /\ proc' \in [Tid -> Procs]
         /\ sig' \in [Tid -> BOOLEAN]
         /\ \A u \in Tid : Live(u)' <=> Live(u)
BY DEF TypeOK, Resume, Procs, Stops, Live

\* Redirecting a live thread into a handler keeps the invariant.
LEMMA SetupInv ==
  ASSUME TypeOK, SavedInv,
         NEW t \in Tid, Live(t),
         NEW S \in [Tid -> {"none", "Running", "Stopping", "ProcessingNotification"}],
         \A u \in Tid : S[u] = "ProcessingNotification"
                           <=> childStates[u] = "ProcessingNotification",
         NEW n \in Notification,
         SetupNotification(t, S, n),
         \A u \in Tid : Live(u)' <=> Live(u)
  PROVE  /\ childStates' \in [Tid -> {"none", "Running", "Stopping", "ProcessingNotification"}]
         /\ childRegs' \in [Tid -> Regs \cup {NoRegs}]
         /\ regs' \in [Tid -> Regs]
         /\ SavedInv'
<1>1. /\ n \in Frame /\ n # User
      /\ InCode(n) \in Regs /\ InCode(n).frame = n
  BY UserIsNoNotification, InCodeType
<1>2. regs[t] \in Regs
  BY DEF TypeOK
<1>3. /\ childStates' = [S EXCEPT ![t] = "ProcessingNotification"]
      /\ childRegs' = [childRegs EXCEPT ![t] = IF @ = NoRegs THEN regs[t] ELSE @]
      /\ regs' = [regs EXCEPT ![t] = InCode(n)]
  BY DEF SetupNotification
<1>4. childRegs'[t] \in Regs /\ childRegs'[t].frame = User
  <2>1. CASE childStates[t] = "ProcessingNotification"
    <3>1. childRegs[t] \in Regs /\ childRegs[t].frame = User
      BY <2>1 DEF SavedInv
    <3>2. childRegs[t] # NoRegs
      BY <3>1, NoRegsIsNotRegs
    <3> QED
      BY <1>3, <3>1, <3>2 DEF TypeOK
  <2>2. CASE childStates[t] # "ProcessingNotification"
    <3>1. childRegs[t] = NoRegs /\ regs[t].frame = User
      BY <2>2 DEF SavedInv
    <3> QED
      BY <1>2, <1>3, <3>1 DEF TypeOK
  <2> QED
    BY <2>1, <2>2
<1>5. /\ childStates' \in [Tid -> {"none", "Running", "Stopping", "ProcessingNotification"}]
      /\ regs' \in [Tid -> Regs]
  BY <1>1, <1>3 DEF TypeOK
<1>6. childRegs' \in [Tid -> Regs \cup {NoRegs}]
  BY <1>2, <1>3 DEF TypeOK
<1>7. SavedInv'
  <2> SUFFICES ASSUME NEW u \in Tid
               PROVE  (IF childStates[u] = "ProcessingNotification"
                       THEN /\ Live(u)
                            /\ regs[u].frame # User
                            /\ childRegs[u] \in Regs
                            /\ childRegs[u].frame = User
                       ELSE /\ Live(u) => regs[u].frame = User
                            /\ childRegs[u] = NoRegs)'
    BY DEF SavedInv
  <2>1. CASE u = t
    <3>1. childStates'[t] = "ProcessingNotification" /\ regs'[t].frame = n
      BY <1>1, <1>3 DEF TypeOK
    <3> QED
      BY <1>1, <1>4, <2>1, <3>1
  <2>2. CASE u # t
    <3>1. /\ childStates'[u] = S[u]
          /\ childRegs'[u] = childRegs[u]
          /\ regs'[u] = regs[u]
      BY <1>3, <2>2 DEF TypeOK
    <3>2. childStates'[u] = "ProcessingNotification" <=> childStates[u] = "ProcessingNotification"
      BY <3>1
    <3>3. Live(u)' <=> Live(u)
      OBVIOUS
    <3> QED
      BY <3>1, <3>2, <3>3 DEF SavedInv
  <2> QED
    BY <2>1, <2>2
<1> QED
  BY <1>5, <1>6, <1>7

\* A step that moves no thread between its program and a handler keeps it.
LEMMA SameFrames ==
  ASSUME SavedInv, UNCHANGED childRegs,
         \A u \in Tid : /\ Live(u)' <=> Live(u)
                        /\ regs'[u].frame = User <=> regs[u].frame = User
                        /\ childStates'[u] = "ProcessingNotification"
                             <=> childStates[u] = "ProcessingNotification"
  PROVE  SavedInv'
<1> SUFFICES ASSUME NEW u \in Tid
             PROVE  (IF childStates[u] = "ProcessingNotification"
                     THEN /\ Live(u)
                          /\ regs[u].frame # User
                          /\ childRegs[u] \in Regs
                          /\ childRegs[u].frame = User
                     ELSE /\ Live(u) => regs[u].frame = User
                          /\ childRegs[u] = NoRegs)'
  BY DEF SavedInv
<1>1. /\ Live(u)' <=> Live(u)
      /\ regs'[u].frame = User <=> regs[u].frame = User
      /\ childStates'[u] = "ProcessingNotification" <=> childStates[u] = "ProcessingNotification"
      /\ childRegs'[u] = childRegs[u]
  OBVIOUS
<1> QED
  BY <1>1 DEF SavedInv

----------------------------------------------------------------------------
(* The parent: one lemma per kind of report.                               *)

LEMMA StartupTrapInv ==
  ASSUME IInv, NEW t \in Tid, StartupTrap(t), UNCHANGED <<exitStatus, used, threadMap, sends>>
  PROVE  IInv'
<1> DEFINE waiting == {u \in Tid : childStates[u] = "Running" /\ childNotificationQueue[u] # <<>>}
           sg == [u \in Tid |-> sig[u] \/ (u \in waiting /\ Live(u))]
<1>0. TypeOK /\ QuietBeforeStartup /\ SavedInv
  BY DEF IInv
<1>1. sg \in [Tid -> BOOLEAN]
  BY <1>0 DEF TypeOK
<1>2. Live(t) /\ Resume(t, sg)
  BY DEF StartupTrap, Waiting, Live
<1>3. /\ proc' \in [Tid -> Procs]
      /\ sig' \in [Tid -> BOOLEAN]
      /\ \A u \in Tid : Live(u)' <=> Live(u)
  <2> HIDE DEF sg
  <2> QED
    BY <1>0, <1>1, <1>2, ResumeType
<1>4. /\ \A u \in Tid : childStates[u] # "ProcessingNotification"
      /\ \A u \in Tid : childStates'[u] # "ProcessingNotification"
      /\ childStates' \in [Tid -> {"none", "Running", "Stopping", "ProcessingNotification"}]
  BY <1>0 DEF StartupTrap, Waiting, QuietBeforeStartup, TypeOK
<1>5. SavedInv'
  BY <1>0, <1>3, <1>4, SameFrames DEF StartupTrap, Waiting
<1>6. TypeOK'
  BY <1>0, <1>3, <1>4 DEF StartupTrap, Waiting, TypeOK
<1>7. QuietBeforeStartup'
  BY DEF StartupTrap, Waiting, QuietBeforeStartup
<1> QED
  BY <1>5, <1>6, <1>7 DEF IInv

\* Popping the first notification of t keeps the types of the queues.
LEMMA SetupFromQueueInv ==
  ASSUME TypeOK, SavedInv,
         NEW t \in Tid, Live(t),
         NEW S \in [Tid -> {"none", "Running", "Stopping", "ProcessingNotification"}],
         \A u \in Tid : S[u] = "ProcessingNotification"
                           <=> childStates[u] = "ProcessingNotification",
         NEW Q \in [Tid -> Seq(Notification)], Q[t] # <<>>,
         SetupFromQueue(t, S, Q),
         \A u \in Tid : Live(u)' <=> Live(u)
  PROVE  /\ childStates' \in [Tid -> {"none", "Running", "Stopping", "ProcessingNotification"}]
         /\ childRegs' \in [Tid -> Regs \cup {NoRegs}]
         /\ regs' \in [Tid -> Regs]
         /\ childNotificationQueue' \in [Tid -> Seq(Notification)]
         /\ SavedInv'
<1>1. Q[t] \in Seq(Notification)
  OBVIOUS
<1>2. Head(Q[t]) \in Notification /\ Tail(Q[t]) \in Seq(Notification)
  BY <1>1, HeadTailProperties
<1>3. SetupNotification(t, S, Head(Q[t])) /\ childNotificationQueue' = [Q EXCEPT ![t] = Tail(@)]
  BY DEF SetupFromQueue
<1>4. childNotificationQueue' \in [Tid -> Seq(Notification)]
  BY <1>2, <1>3
<1> QED
  BY <1>2, <1>3, <1>4, SetupInv

LEMMA RunningTrapInv ==
  ASSUME IInv, NEW t \in Tid, RunningTrap(t), UNCHANGED <<exitStatus, used, threadMap, sends>>
  PROVE  IInv'
<1> DEFINE notified == regs[t].ip = "notify" /\ regs[t].cx = "QueueProcessActions"
           r == regs[t].dx
           Q == IF notified THEN Pushed(r, Ntf("ProcessActions", None)) ELSE childNotificationQueue
           S == IF notified THEN StatesAfterQueue(t, r) ELSE childStates
           sg == IF notified THEN SignalsAfterQueue(t, r) ELSE sig
<1>0. TypeOK /\ QuietBeforeStartup /\ SavedInv
  BY DEF IInv
<1>1. Ntf("ProcessActions", None) \in Notification
  BY NtfType DEF ChildNotification
<1>2. Q \in [Tid -> Seq(Notification)]
  BY <1>0, <1>1, PushedType DEF TypeOK
<1>3. /\ S \in [Tid -> {"none", "Running", "Stopping", "ProcessingNotification"}]
      /\ \A u \in Tid : S[u] = "ProcessingNotification" <=> childStates[u] = "ProcessingNotification"
  BY <1>0, StatesAfterQueueType DEF TypeOK
<1>4. sg \in [Tid -> BOOLEAN]
  BY <1>0, SignalsAfterQueueType DEF TypeOK
<1>5. /\ Live(t) /\ Resume(t, sg)
      /\ IF Q[t] # <<>> /\ notificationSystemReady
         THEN SetupFromQueue(t, S, Q)
         ELSE /\ childNotificationQueue' = Q
              /\ childStates' = S
              /\ UNCHANGED <<childRegs, regs>>
      /\ UNCHANGED <<childInSyscall, childExiting, notificationSystemReady>>
  BY DEF RunningTrap, Live
<1> HIDE DEF Q, S, sg, notified, r
<1>6. /\ proc' \in [Tid -> Procs]
      /\ sig' \in [Tid -> BOOLEAN]
      /\ \A u \in Tid : Live(u)' <=> Live(u)
  BY <1>0, <1>4, <1>5, ResumeType
<1>7. /\ childStates' \in [Tid -> {"none", "Running", "Stopping", "ProcessingNotification"}]
      /\ childRegs' \in [Tid -> Regs \cup {NoRegs}]
      /\ regs' \in [Tid -> Regs]
      /\ childNotificationQueue' \in [Tid -> Seq(Notification)]
      /\ SavedInv'
  <2>1. CASE Q[t] # <<>> /\ notificationSystemReady
    BY <1>0, <1>2, <1>3, <1>5, <1>6, <2>1, SetupFromQueueInv
  <2>2. CASE ~(Q[t] # <<>> /\ notificationSystemReady)
    <3>1. /\ childNotificationQueue' = Q
          /\ childStates' = S
          /\ UNCHANGED <<childRegs, regs>>
      BY <1>5, <2>2
    <3>2. SavedInv'
      BY <1>0, <1>3, <1>6, <3>1, SameFrames
    <3> QED
      BY <1>0, <1>2, <1>3, <3>1, <3>2 DEF TypeOK
  <2> QED
    BY <2>1, <2>2
<1>8. TypeOK'
  BY <1>0, <1>5, <1>6, <1>7 DEF TypeOK
<1>9. QuietBeforeStartup'
  <2> SUFFICES ASSUME ~notificationSystemReady
               PROVE  QuietBeforeStartup'
    BY <1>5 DEF QuietBeforeStartup
  <2> QED
    BY <1>0, <1>3, <1>5 DEF QuietBeforeStartup
<1> QED
  BY <1>7, <1>8, <1>9 DEF IInv

LEMMA DoneTrapInv ==
  ASSUME IInv, NEW t \in Tid, DoneTrap(t), UNCHANGED <<exitStatus, used, threadMap, sends>>
  PROVE  IInv'
<1>0. TypeOK /\ QuietBeforeStartup /\ SavedInv
  BY DEF IInv
<1>1. Live(t) /\ Resume(t, sig) /\ sig \in [Tid -> BOOLEAN]
  BY <1>0 DEF DoneTrap, RestoreProgram, Live, TypeOK
<1>2. /\ proc' \in [Tid -> Procs]
      /\ sig' \in [Tid -> BOOLEAN]
      /\ \A u \in Tid : Live(u)' <=> Live(u)
  BY <1>0, <1>1, ResumeType
<1>3. /\ childStates' \in [Tid -> {"none", "Running", "Stopping", "ProcessingNotification"}]
      /\ childRegs' \in [Tid -> Regs \cup {NoRegs}]
      /\ regs' \in [Tid -> Regs]
      /\ childNotificationQueue' \in [Tid -> Seq(Notification)]
      /\ SavedInv'
  <2>1. CASE childNotificationQueue[t] # <<>>
    <3>1. SetupFromQueue(t, childStates, childNotificationQueue)
      BY <2>1 DEF DoneTrap, RestoreProgram
    <3>2. /\ childStates \in [Tid -> {"none", "Running", "Stopping", "ProcessingNotification"}]
          /\ childNotificationQueue \in [Tid -> Seq(Notification)]
      BY <1>0 DEF TypeOK
    <3> QED
      BY <1>0, <1>1, <1>2, <2>1, <3>1, <3>2, SetupFromQueueInv
  <2>2. CASE childNotificationQueue[t] = <<>>
    <3>1. /\ childStates' = [childStates EXCEPT ![t] = "Running"]
          /\ regs' = [regs EXCEPT ![t] = childRegs[t]]
          /\ childRegs' = [childRegs EXCEPT ![t] = NoRegs]
          /\ UNCHANGED childNotificationQueue
      BY <2>2 DEF DoneTrap, RestoreProgram
    <3>2. childRegs[t] \in Regs /\ childRegs[t].frame = User
      BY <1>0 DEF SavedInv, DoneTrap, RestoreProgram
    <3>3. /\ childStates' \in [Tid -> {"none", "Running", "Stopping", "ProcessingNotification"}]
          /\ childRegs' \in [Tid -> Regs \cup {NoRegs}]
          /\ regs' \in [Tid -> Regs]
          /\ childNotificationQueue' \in [Tid -> Seq(Notification)]
      BY <1>0, <3>1, <3>2 DEF TypeOK
    <3>4. SavedInv'
      BY <1>0, <1>2, <3>1, <3>2 DEF SavedInv, TypeOK
    <3> QED
      BY <3>3, <3>4
  <2> QED
    BY <2>1, <2>2
<1>4. TypeOK'
  BY <1>0, <1>2, <1>3 DEF TypeOK, DoneTrap, RestoreProgram
<1>5. QuietBeforeStartup'
  BY <1>0 DEF QuietBeforeStartup, DoneTrap, RestoreProgram
<1> QED
  BY <1>3, <1>4, <1>5 DEF IInv

LEMMA HandlerTrapInv ==
  ASSUME IInv, NEW t \in Tid, HandlerTrap(t), UNCHANGED <<exitStatus, used, threadMap, sends>>
  PROVE  IInv'
<1> DEFINE r == regs[t].dx
<1>0. TypeOK /\ QuietBeforeStartup /\ SavedInv
  BY DEF IInv
<1>1. /\ Live(t) /\ Resume(t, SignalsAfterQueue(t, r))
      /\ SignalsAfterQueue(t, r) \in [Tid -> BOOLEAN]
  BY <1>0, SignalsAfterQueueType DEF HandlerTrap, Live
<1>2. /\ proc' \in [Tid -> Procs]
      /\ sig' \in [Tid -> BOOLEAN]
      /\ \A u \in Tid : Live(u)' <=> Live(u)
  BY <1>0, <1>1, ResumeType
<1>3. /\ childStates' \in [Tid -> {"none", "Running", "Stopping", "ProcessingNotification"}]
      /\ \A u \in Tid : childStates'[u] = "ProcessingNotification"
                            <=> childStates[u] = "ProcessingNotification"
  BY <1>0, StatesAfterQueueType DEF HandlerTrap
<1>4. childNotificationQueue' \in [Tid -> Seq(Notification)]
  BY <1>0, PushedType, NtfType DEF HandlerTrap, ChildNotification
<1>5. SavedInv'
  BY <1>0, <1>2, <1>3, SameFrames DEF HandlerTrap
<1>6. TypeOK'
  BY <1>0, <1>2, <1>3, <1>4 DEF TypeOK, HandlerTrap
<1>7. QuietBeforeStartup'
  BY <1>0, <1>3 DEF QuietBeforeStartup, HandlerTrap
<1> QED
  BY <1>5, <1>6, <1>7 DEF IInv

\* A step that only continues a stopped thread.
LEMMA ResumeInv ==
  ASSUME IInv, NEW t \in Tid, Live(t), Resume(t, sig),
         UNCHANGED <<parentVars, regs, used, threadMap, sends>>
  PROVE  IInv'
<1>0. TypeOK /\ QuietBeforeStartup /\ SavedInv
  BY DEF IInv
<1>1. /\ proc' \in [Tid -> Procs]
      /\ sig' \in [Tid -> BOOLEAN]
      /\ \A u \in Tid : Live(u)' <=> Live(u)
  BY <1>0, ResumeType DEF TypeOK
<1>2. SavedInv'
  BY <1>0, <1>1, SameFrames DEF parentVars
<1>3. TypeOK'
  BY <1>0, <1>1 DEF TypeOK, parentVars
<1>4. QuietBeforeStartup'
  BY <1>0 DEF QuietBeforeStartup, parentVars
<1> QED
  BY <1>2, <1>3, <1>4 DEF IInv

LEMMA HandleTrapOccuredInv ==
  ASSUME IInv, NEW t \in Tid, HandleTrapOccured(t)
  PROVE  IInv'
<1>1. UNCHANGED <<exitStatus, used, threadMap, sends>>
  BY DEF HandleTrapOccured
<1>2. CASE StartupTrap(t)
  BY <1>1, <1>2, StartupTrapInv
<1>3. CASE RunningTrap(t)
  BY <1>1, <1>3, RunningTrapInv
<1>4. CASE DoneTrap(t)
  BY <1>1, <1>4, DoneTrapInv
<1>5. CASE HandlerTrap(t)
  BY <1>1, <1>5, HandlerTrapInv
<1>6. CASE IgnoredTrap(t)
  BY <1>1, <1>6, ResumeInv DEF IgnoredTrap, Live, parentVars
<1> QED
  BY <1>2, <1>3, <1>4, <1>5, <1>6 DEF HandleTrapOccured

LEMMA NewThreadInv ==
  ASSUME IInv, NEW t \in Tid, NewThread(t)
  PROVE  IInv'
<1>0. TypeOK /\ QuietBeforeStartup /\ SavedInv
  BY DEF IInv
<1>1. Live(t) /\ Resume(t, sig) /\ sig \in [Tid -> BOOLEAN]
  BY <1>0 DEF NewThread, Live, TypeOK
<1>2. /\ proc' \in [Tid -> Procs]
      /\ sig' \in [Tid -> BOOLEAN]
      /\ \A u \in Tid : Live(u)' <=> Live(u)
  BY <1>0, <1>1, ResumeType
<1>3. Ntf("ThreadStarted", None) \in Notification
  BY NtfType DEF ChildNotification
<1>4. /\ childStates' \in [Tid -> {"none", "Running", "Stopping", "ProcessingNotification"}]
      /\ childRegs' \in [Tid -> Regs \cup {NoRegs}]
      /\ regs' \in [Tid -> Regs]
      /\ childNotificationQueue' \in [Tid -> Seq(Notification)]
      /\ SavedInv'
  <2>1. CASE notificationSystemReady
    <3>1. /\ SetupNotification(t, childStates, Ntf("ThreadStarted", None))
          /\ UNCHANGED childNotificationQueue
      BY <2>1 DEF NewThread
    <3>2. childStates \in [Tid -> {"none", "Running", "Stopping", "ProcessingNotification"}]
      BY <1>0 DEF TypeOK
    <3> QED
      BY <1>0, <1>1, <1>2, <1>3, <3>1, <3>2, SetupInv DEF TypeOK
  <2>2. CASE ~notificationSystemReady
    <3>1. /\ childStates' = [childStates EXCEPT ![t] = "Running"]
          /\ childNotificationQueue' = Pushed(t, Ntf("ThreadStarted", None))
          /\ UNCHANGED <<childRegs, regs>>
          /\ childStates[t] = "none"
      BY <2>2 DEF NewThread
    <3>2. \A u \in Tid : childStates'[u] = "ProcessingNotification"
                            <=> childStates[u] = "ProcessingNotification"
      BY <1>0, <3>1 DEF TypeOK
    <3>3. SavedInv'
      BY <1>0, <1>2, <3>1, <3>2, SameFrames
    <3> QED
      BY <1>0, <1>3, <3>1, <3>3, PushedType DEF TypeOK
  <2> QED
    BY <2>1, <2>2
<1>5. TypeOK'
  BY <1>0, <1>2, <1>4 DEF TypeOK, NewThread
<1>6. QuietBeforeStartup'
  BY <1>0 DEF TypeOK, QuietBeforeStartup, NewThread
<1> QED
  BY <1>4, <1>5, <1>6 DEF IInv

LEMMA NotStoppedFirstInv ==
  ASSUME IInv, NEW t \in Tid, NotStoppedFirst(t)
  PROVE  IInv'
<1>0. TypeOK /\ QuietBeforeStartup /\ SavedInv
  BY DEF IInv
<1>1. \A u \in Tid : /\ childStates'[u] = "ProcessingNotification"
                         <=> childStates[u] = "ProcessingNotification"
                     /\ Live(u)' <=> Live(u)
  BY <1>0 DEF NotStoppedFirst, TypeOK, Live
<1>2. SavedInv'
  BY <1>0, <1>1, SameFrames DEF NotStoppedFirst
<1>3. TypeOK'
  BY <1>0 DEF NotStoppedFirst, TypeOK
<1>4. QuietBeforeStartup'
  BY <1>0, <1>1 DEF NotStoppedFirst, QuietBeforeStartup
<1> QED
  BY <1>2, <1>3, <1>4 DEF IInv

\* Continuing from a system call stop.
LEMMA ResumeSyscallType ==
  ASSUME TypeOK, NEW t \in Tid, ResumeSyscall(t), proc[t] \in {"sysenter", "sysleave"}
  PROVE  /\ proc' \in [Tid -> Procs]
         /\ sig' \in [Tid -> BOOLEAN]
         /\ \A u \in Tid : Live(u)' <=> Live(u)
<1>1. CASE proc[t] = "sysenter"
  BY <1>1 DEF ResumeSyscall, TypeOK, Procs, Stops, Live
<1>2. CASE proc[t] # "sysenter"
  BY <1>2, ResumeType DEF ResumeSyscall, TypeOK, Live
<1> QED
  BY <1>1, <1>2

LEMMA SyscallEnterInv ==
  ASSUME IInv, NEW t \in Tid, SyscallEnter(t)
  PROVE  IInv'
<1>0. TypeOK /\ QuietBeforeStartup /\ SavedInv
  BY DEF IInv
<1>1. /\ proc' \in [Tid -> Procs]
      /\ sig' \in [Tid -> BOOLEAN]
      /\ \A u \in Tid : Live(u)' <=> Live(u)
  BY <1>0, ResumeSyscallType DEF SyscallEnter, InterceptExit
<1>2. /\ regs' \in [Tid -> Regs]
      /\ \A u \in Tid : regs'[u].frame = regs[u].frame
      /\ childExiting' \in [Tid -> {0, 1, 2}]
      /\ QuietBeforeStartup'
  <2>1. CASE regs[t].sys = "exit" /\ childExiting[t] = 0
    <3>1. regs[t] \in Regs
      BY <1>0 DEF TypeOK
    <3>2. notificationSystemReady
      BY <1>0, <2>1 DEF QuietBeforeStartup
    <3>3. [regs[t] EXCEPT !.sys = "other"] \in Regs
          /\ [regs[t] EXCEPT !.sys = "other"].frame = regs[t].frame
      BY <3>1, RegsSys
    <3>4. regs' = [regs EXCEPT ![t] = [regs[t] EXCEPT !.sys = "other"]]
          /\ childExiting' = [childExiting EXCEPT ![t] = 2]
      BY <2>1 DEF SyscallEnter, InterceptExit
    <3>5. regs' \in [Tid -> Regs] /\ \A u \in Tid : regs'[u].frame = regs[u].frame
      BY <1>0, <3>3, <3>4 DEF TypeOK
    <3>6. childExiting' \in [Tid -> {0, 1, 2}]
      BY <1>0, <3>4 DEF TypeOK
    <3>7. QuietBeforeStartup'
      BY <3>2 DEF SyscallEnter, InterceptExit, QuietBeforeStartup
    <3> QED
      BY <3>5, <3>6, <3>7
  <2>2. CASE ~(regs[t].sys = "exit" /\ childExiting[t] = 0)
    BY <1>0, <2>2 DEF SyscallEnter, InterceptExit, TypeOK, QuietBeforeStartup
  <2> QED
    BY <2>1, <2>2
<1>3. SavedInv'
  BY <1>0, <1>1, <1>2, SameFrames DEF SyscallEnter, InterceptExit
<1>4. TypeOK'
  BY <1>0, <1>1, <1>2 DEF SyscallEnter, InterceptExit, TypeOK
<1> QED
  BY <1>2, <1>3, <1>4 DEF IInv

LEMMA SyscallLeaveInv ==
  ASSUME IInv, NEW t \in Tid, SyscallLeave(t)
  PROVE  IInv'
<1>0. TypeOK /\ QuietBeforeStartup /\ SavedInv
  BY DEF IInv
<1>1. /\ proc' \in [Tid -> Procs]
      /\ sig' \in [Tid -> BOOLEAN]
      /\ \A u \in Tid : Live(u)' <=> Live(u)
  BY <1>0, ResumeSyscallType DEF SyscallLeave, AnnounceExit
<1>2. CASE childExiting[t] = 2
  <2> DEFINE Q == Pushed(t, Ntf("ThreadExiting", None))
  <2>1. Q \in [Tid -> Seq(Notification)] /\ Q[t] # <<>>
    BY <1>0, PushedType, NtfType DEF ChildNotification
  <2>2. /\ SetupFromQueue(t, childStates, Q)
        /\ childExiting' = [childExiting EXCEPT ![t] = 1]
        /\ Live(t)
        /\ childStates \in [Tid -> {"none", "Running", "Stopping", "ProcessingNotification"}]
        /\ notificationSystemReady
    BY <1>0, <1>2 DEF SyscallLeave, AnnounceExit, Live, TypeOK, QuietBeforeStartup
  <2> HIDE DEF Q
  <2>3. /\ childStates' \in [Tid -> {"none", "Running", "Stopping", "ProcessingNotification"}]
        /\ childRegs' \in [Tid -> Regs \cup {NoRegs}]
        /\ regs' \in [Tid -> Regs]
        /\ childNotificationQueue' \in [Tid -> Seq(Notification)]
        /\ SavedInv'
    BY <1>0, <1>1, <2>1, <2>2, SetupFromQueueInv
  <2>4. TypeOK'
    BY <1>0, <1>1, <2>2, <2>3 DEF TypeOK, SyscallLeave, AnnounceExit
  <2>5. QuietBeforeStartup'
    BY <2>2 DEF QuietBeforeStartup, SyscallLeave, AnnounceExit
  <2> QED
    BY <2>3, <2>4, <2>5 DEF IInv
<1>3. CASE childExiting[t] # 2
  <2>1. UNCHANGED <<childStates, childRegs, childNotificationQueue, childExiting, regs>>
    BY <1>3 DEF SyscallLeave, AnnounceExit
  <2>2. SavedInv'
    BY <1>0, <1>1, <2>1, SameFrames
  <2>3. TypeOK'
    BY <1>0, <1>1, <2>1 DEF TypeOK, SyscallLeave, AnnounceExit
  <2>4. QuietBeforeStartup'
    BY <1>0, <2>1 DEF QuietBeforeStartup, SyscallLeave, AnnounceExit
  <2> QED
    BY <2>2, <2>3, <2>4 DEF IInv
<1> QED
  BY <1>2, <1>3

\* Forgetting a thread that is no longer live.
LEMMA ForgetInv ==
  ASSUME TypeOK, SavedInv, QuietBeforeStartup,
         NEW t \in Tid, HandleChildThreadExited(t), ~Live(t)',
         \A u \in Tid : /\ u # t => (Live(u)' <=> Live(u))
                        /\ u # t => regs'[u] = regs[u]
                        /\ regs'[u].sys = "exit" => regs[u].sys = "exit",
         UNCHANGED <<childExiting, notificationSystemReady>>
  PROVE  /\ childStates' \in [Tid -> {"none", "Running", "Stopping", "ProcessingNotification"}]
         /\ childRegs' \in [Tid -> Regs \cup {NoRegs}]
         /\ childNotificationQueue' \in [Tid -> Seq(Notification)]
         /\ SavedInv' /\ QuietBeforeStartup'
<1>1. Pushed(mainChild, Ntf("ThreadExited", t)) \in [Tid -> Seq(Notification)]
  BY PushedType, NtfType DEF ChildNotification
<1>2. childNotificationQueue' \in [Tid -> Seq(Notification)]
  BY <1>1 DEF HandleChildThreadExited
<1>3. /\ childStates' \in [Tid -> {"none", "Running", "Stopping", "ProcessingNotification"}]
      /\ childStates'[t] = "none"
      /\ \A u \in Tid \ {t} : childStates'[u] = "ProcessingNotification"
                                  <=> childStates[u] = "ProcessingNotification"
  BY StatesAfterQueueType DEF HandleChildThreadExited
<1>4. /\ childRegs' \in [Tid -> Regs \cup {NoRegs}]
      /\ childRegs'[t] = NoRegs
      /\ \A u \in Tid \ {t} : childRegs'[u] = childRegs[u]
  BY DEF HandleChildThreadExited, TypeOK
<1>5. SavedInv'
  <2> SUFFICES ASSUME NEW u \in Tid
               PROVE  (IF childStates[u] = "ProcessingNotification"
                       THEN /\ Live(u)
                            /\ regs[u].frame # User
                            /\ childRegs[u] \in Regs
                            /\ childRegs[u].frame = User
                       ELSE /\ Live(u) => regs[u].frame = User
                            /\ childRegs[u] = NoRegs)'
    BY DEF SavedInv
  <2>1. CASE u = t
    <3>1. ~Live(u)' /\ childStates'[u] # "ProcessingNotification" /\ childRegs'[u] = NoRegs
      BY <1>3, <1>4, <2>1
    <3> QED
      BY <3>1
  <2>2. CASE u # t
    <3>1. /\ Live(u)' <=> Live(u)
          /\ regs'[u] = regs[u]
          /\ childRegs'[u] = childRegs[u]
          /\ childStates'[u] = "ProcessingNotification" <=> childStates[u] = "ProcessingNotification"
      BY <1>3, <1>4, <2>2
    <3> QED
      BY <3>1 DEF SavedInv
  <2> QED
    BY <2>1, <2>2
<1>6. QuietBeforeStartup'
  BY <1>3 DEF QuietBeforeStartup
<1> QED
  BY <1>2, <1>3, <1>4, <1>5, <1>6

LEMMA ExitEventInv ==
  ASSUME IInv, NEW t \in Tid, ExitEvent(t)
  PROVE  IInv'
<1>0. TypeOK /\ QuietBeforeStartup /\ SavedInv
  BY DEF IInv
<1>1. /\ HandleChildThreadExited(t)
      /\ ~Live(t)'
      /\ \A u \in Tid : u # t => (Live(u)' <=> Live(u))
      /\ UNCHANGED <<childInSyscall, childExiting, notificationSystemReady, exitStatus,
                     regs, used, threadMap, sends>>
  BY <1>0 DEF ExitEvent, Live, TypeOK
<1>2. /\ childStates' \in [Tid -> {"none", "Running", "Stopping", "ProcessingNotification"}]
      /\ childRegs' \in [Tid -> Regs \cup {NoRegs}]
      /\ childNotificationQueue' \in [Tid -> Seq(Notification)]
      /\ SavedInv' /\ QuietBeforeStartup'
  BY <1>0, <1>1, ForgetInv
<1>3. proc' \in [Tid -> Procs] /\ sig' \in [Tid -> BOOLEAN]
  BY <1>0, SignalsAfterQueueType DEF ExitEvent, TypeOK, Procs, Stops
<1>4. TypeOK'
  BY <1>0, <1>1, <1>2, <1>3 DEF TypeOK
<1> QED
  BY <1>2, <1>4 DEF IInv

LEMMA ExitedInv ==
  ASSUME IInv, NEW t \in Tid, Exited(t)
  PROVE  IInv'
<1>0. TypeOK /\ QuietBeforeStartup /\ SavedInv
  BY DEF IInv
<1>1. InCode(User) \in Regs /\ InCode(User).sys = "none"
  BY InCodeType, UserIsNoNotification
<1>2. regs' = [regs EXCEPT ![t] = InCode(User)]
  BY DEF Exited
<1>3. regs' \in [Tid -> Regs]
  BY <1>0, <1>1, <1>2 DEF TypeOK
<1>4. \A u \in Tid : u # t => regs'[u] = regs[u]
  BY <1>0, <1>2 DEF TypeOK
<1>5. \A u \in Tid : regs'[u].sys = "exit" => regs[u].sys = "exit"
  <2> TAKE u \in Tid
  <2>1. CASE u = t
    BY <1>0, <1>1, <1>2, <2>1 DEF TypeOK
  <2>2. CASE u # t
    BY <1>4, <2>2
  <2> QED
    BY <2>1, <2>2
<1>6. /\ proc' \in [Tid -> Procs]
      /\ ~Live(t) /\ ~Live(t)'
      /\ \A u \in Tid : Live(u)' <=> Live(u)
  BY <1>0 DEF Exited, TypeOK, Live, Procs
<1>7. UNCHANGED <<childInSyscall, childExiting, notificationSystemReady, exitStatus,
                  used, threadMap, sends>>
  BY DEF Exited
<1>8. /\ childStates' \in [Tid -> {"none", "Running", "Stopping", "ProcessingNotification"}]
      /\ childRegs' \in [Tid -> Regs \cup {NoRegs}]
      /\ childNotificationQueue' \in [Tid -> Seq(Notification)]
      /\ sig' \in [Tid -> BOOLEAN]
      /\ SavedInv' /\ QuietBeforeStartup'
  <2>1. CASE childStates[t] # "none"
    <3>1. HandleChildThreadExited(t) /\ sig' = SignalsAfterQueue(t, mainChild)
      BY <2>1 DEF Exited
    <3>2. sig' \in [Tid -> BOOLEAN]
      BY <1>0, <3>1, SignalsAfterQueueType
    <3> QED
      BY <1>0, <1>4, <1>5, <1>6, <1>7, <3>1, <3>2, ForgetInv
  <2>2. CASE childStates[t] = "none"
    <3>1. UNCHANGED <<childStates, childRegs, childNotificationQueue, sig>>
      BY <2>2 DEF Exited
    <3>2. SavedInv'
      BY <1>0, <1>4, <1>6, <2>2, <3>1 DEF SavedInv
    <3>3. QuietBeforeStartup'
      BY <1>0, <1>5, <1>7, <3>1 DEF QuietBeforeStartup
    <3> QED
      BY <1>0, <3>1, <3>2, <3>3 DEF TypeOK
  <2> QED
    BY <2>1, <2>2
<1>9. TypeOK'
  BY <1>0, <1>3, <1>6, <1>7, <1>8 DEF TypeOK
<1> QED
  BY <1>8, <1>9 DEF IInv

LEMMA TraceLoopInv ==
  ASSUME IInv, NEW t \in Tid, TraceLoop(t)
  PROVE  IInv'
<1>1. CASE HandleTrapOccured(t)
  BY <1>1, HandleTrapOccuredInv
<1>2. CASE NewThread(t)
  BY <1>2, NewThreadInv
<1>3. CASE ForwardSignal(t)
  BY <1>3, ResumeInv DEF ForwardSignal, Live
<1>4. CASE NotStoppedFirst(t)
  BY <1>4, NotStoppedFirstInv
<1>5. CASE SyscallEnter(t)
  BY <1>5, SyscallEnterInv
<1>6. CASE SyscallLeave(t)
  BY <1>6, SyscallLeaveInv
<1>7. CASE CloneEvent(t)
  BY <1>7, ResumeInv DEF CloneEvent, Live
<1>8. CASE ExitEvent(t)
  BY <1>8, ExitEventInv
<1>9. CASE Exited(t)
  BY <1>9, ExitedInv
<1>10. CASE MainExitEvent
  BY <1>10 DEF MainExitEvent, IInv, TypeOK, QuietBeforeStartup, SavedInv, Live
<1> QED
  BY <1>1, <1>2, <1>3, <1>4, <1>5, <1>6, <1>7, <1>8, <1>9, <1>10 DEF TraceLoop

----------------------------------------------------------------------------
(* The kernel and the threads.                                             *)

\* A step of one live thread that keeps it in its program or in its handler.
LEMMA OneThreadInv ==
  ASSUME IInv, NEW t \in Tid, Live(t),
         NEW p \in Procs \ {"absent", "exited"}, NEW q \in Regs,
         proc' = [proc EXCEPT ![t] = p],
         regs' = [regs EXCEPT ![t] = q],
         q.frame = User <=> regs[t].frame = User,
         q.sys = "exit" => notificationSystemReady,
         sig' \in [Tid -> BOOLEAN],
         threadMap' \subseteq Tid, sends' \in 0 .. MaxSends,
         UNCHANGED <<parentVars, used>>
  PROVE  IInv'
<1>0. TypeOK /\ QuietBeforeStartup /\ SavedInv
  BY DEF IInv
<1>1. proc' \in [Tid -> Procs] /\ regs' \in [Tid -> Regs]
  BY <1>0 DEF TypeOK
<1>2. \A u \in Tid : Live(u)' <=> Live(u)
  BY <1>0 DEF TypeOK, Live
<1>3. \A u \in Tid : regs'[u].frame = User <=> regs[u].frame = User
  <2> TAKE u \in Tid
  <2>1. CASE u = t
    BY <1>0, <2>1 DEF TypeOK
  <2>2. CASE u # t
    BY <1>0, <2>2 DEF TypeOK
  <2> QED
    BY <2>1, <2>2
<1>4. SavedInv'
  BY <1>0, <1>2, <1>3, SameFrames DEF parentVars
<1>5. TypeOK'
  BY <1>0, <1>1 DEF TypeOK, parentVars
<1>6. QuietBeforeStartup'
  BY <1>0 DEF QuietBeforeStartup, parentVars, TypeOK
<1> QED
  BY <1>4, <1>5, <1>6 DEF IInv

LEMMA DeliverSignalInv ==
  ASSUME IInv, NEW t \in Tid, DeliverSignal(t)
  PROVE  IInv'
<1>0. TypeOK /\ QuietBeforeStartup /\ SavedInv
  BY DEF IInv
<1>1. \A u \in Tid : Live(u)' <=> Live(u)
  BY <1>0 DEF DeliverSignal, TypeOK, Live
<1>2. SavedInv'
  BY <1>0, <1>1, SameFrames DEF DeliverSignal, parentVars
<1>3. TypeOK'
  BY <1>0 DEF DeliverSignal, TypeOK, parentVars, Procs, Stops
<1>4. QuietBeforeStartup'
  BY <1>0 DEF DeliverSignal, QuietBeforeStartup, parentVars
<1> QED
  BY <1>2, <1>3, <1>4 DEF IInv

LEMMA FinishSyscallInv ==
  ASSUME IInv, NEW t \in Tid, FinishSyscall(t)
  PROVE  IInv'
<1> DEFINE p == IF regs[t].sys = "exit" THEN "eventexit" ELSE "sysleave"
           q == [regs[t] EXCEPT !.sys = "none"]
<1>0. TypeOK
  BY DEF IInv
<1>1. regs[t] \in Regs
  BY <1>0 DEF TypeOK
<1>2. q \in Regs /\ q.frame = regs[t].frame /\ q.sys = "none"
  BY <1>1, RegsSys
<1>3. p \in Procs \ {"absent", "exited"}
  BY DEF Procs, Stops
<1>4. /\ proc' = [proc EXCEPT ![t] = p]
      /\ regs' = [regs EXCEPT ![t] = q]
      /\ UNCHANGED <<parentVars, sig, used, threadMap, sends>>
      /\ Live(t)
  BY DEF FinishSyscall, Live
<1> HIDE DEF p, q
<1>5. sig' \in [Tid -> BOOLEAN] /\ threadMap' \subseteq Tid /\ sends' \in 0 .. MaxSends
  BY <1>0, <1>4 DEF TypeOK
<1> QED
  BY <1>2, <1>3, <1>4, <1>5, OneThreadInv

\* A thread that executes int3.
LEMMA Int3Inv ==
  ASSUME IInv, NEW t \in Tid, InProgram(t),
         NEW c \in ParentNotification, NEW d \in Tid \cup {None},
         Int3(t, c, d),
         threadMap' \subseteq Tid, sends' \in 0 .. MaxSends,
         UNCHANGED <<parentVars, used>>
  PROVE  IInv'
<1> DEFINE q == [regs[t] EXCEPT !.ip = "notify", !.cx = c, !.dx = d]
<1>0. TypeOK /\ QuietBeforeStartup
  BY DEF IInv
<1>1. regs[t] \in Regs
  BY <1>0 DEF TypeOK
<1>2. q \in Regs /\ q.frame = regs[t].frame /\ q.sys = regs[t].sys
  <2>1. PICK r \in Regs : r = regs[t]
    BY <1>1
  <2>2. PICK n : n = [r EXCEPT !.ip = "notify", !.cx = c, !.dx = d]
    OBVIOUS
  <2>3. n \in Regs
    BY <2>2, RegsInt3
  <2>4. n.frame = r.frame /\ n.sys = r.sys
    BY <2>2, RegsInt3
  <2>5. q = n
    BY <2>1, <2>2
  <2> HIDE DEF q
  <2> QED
    BY <2>1, <2>3, <2>4, <2>5
<1>3. "trap" \in Procs \ {"absent", "exited"}
  BY DEF Procs, Stops
<1>4. /\ proc' = [proc EXCEPT ![t] = "trap"]
      /\ regs' = [regs EXCEPT ![t] = q]
      /\ sig' \in [Tid -> BOOLEAN]
      /\ Live(t)
  BY <1>0 DEF Int3, InProgram, Live, TypeOK
<1> HIDE DEF q
<1>5. q.sys = "exit" => notificationSystemReady
  BY <1>0, <1>2 DEF QuietBeforeStartup
<1> QED
  BY <1>2, <1>3, <1>4, <1>5, OneThreadInv

\* A thread that continues at another place of its program or handler.
LEMMA MoveInv ==
  ASSUME IInv, NEW t \in Tid, proc[t] = "running",
         NEW f \in Frame, f = User <=> regs[t].frame = User,
         regs' = [regs EXCEPT ![t] = InCode(f)],
         threadMap' \subseteq Tid,
         UNCHANGED <<parentVars, proc, sig, used, sends>>
  PROVE  IInv'
<1>0. TypeOK
  BY DEF IInv
<1>1. InCode(f) \in Regs /\ InCode(f).frame = f /\ InCode(f).sys = "none"
  BY InCodeType
<1>2. "running" \in Procs \ {"absent", "exited"}
  BY DEF Procs
<1>3. proc' = [proc EXCEPT ![t] = "running"] /\ Live(t)
  BY <1>0 DEF TypeOK, Live
<1>4. sig' \in [Tid -> BOOLEAN] /\ sends' \in 0 .. MaxSends
  BY <1>0 DEF TypeOK
<1> QED
  BY <1>1, <1>2, <1>3, <1>4, OneThreadInv

\* A thread that enters the system call s.
LEMMA EnterSyscallInv ==
  ASSUME IInv, NEW t \in Tid, InProgram(t), NEW s \in {"exit", "other"},
         s = "exit" => notificationSystemReady,
         proc' = [proc EXCEPT ![t] = "sysenter"],
         regs' = [regs EXCEPT ![t].sys = s],
         UNCHANGED <<parentVars, sig, used, threadMap, sends>>
  PROVE  IInv'
<1> DEFINE q == [regs[t] EXCEPT !.sys = s]
<1>0. TypeOK
  BY DEF IInv
<1>1. regs[t] \in Regs
  BY <1>0 DEF TypeOK
<1>2. q \in Regs /\ q.frame = regs[t].frame /\ q.sys = s
  <2>1. PICK r \in Regs : r = regs[t]
    BY <1>1
  <2>2. PICK n : n = [r EXCEPT !.sys = s]
    OBVIOUS
  <2>3. s \in {"none", "exit", "other"}
    OBVIOUS
  <2>4. n \in Regs /\ n.frame = r.frame /\ n.sys = s
    BY <2>2, <2>3, RegsSys
  <2>5. q = n
    BY <2>1, <2>2
  <2> HIDE DEF q
  <2> QED
    BY <2>1, <2>4, <2>5
<1>3. "sysenter" \in Procs \ {"absent", "exited"}
  BY DEF Procs, Stops
<1>4. /\ regs' = [regs EXCEPT ![t] = q]
      /\ Live(t)
      /\ sig' \in [Tid -> BOOLEAN] /\ threadMap' \subseteq Tid /\ sends' \in 0 .. MaxSends
  BY <1>0 DEF InProgram, Live, TypeOK
<1> HIDE DEF q
<1> QED
  BY <1>2, <1>3, <1>4, OneThreadInv

LEMMA CloneInv ==
  ASSUME IInv, NEW t \in Tid, NEW u \in Tid, Clone(t, u)
  PROVE  IInv'
<1>0. TypeOK /\ QuietBeforeStartup /\ SavedInv
  BY DEF IInv
<1>1. InCode(User) \in Regs /\ InCode(User).frame = User /\ InCode(User).sys = "none"
  BY InCodeType, UserIsNoNotification
<1>2. /\ proc[t] = "running" /\ proc[u] = "absent" /\ t # u
      /\ proc' = [proc EXCEPT ![t] = "eventclone", ![u] = "sigstop"]
      /\ sig' = [sig EXCEPT ![u] = FALSE]
      /\ regs' = [regs EXCEPT ![u] = InCode(User)]
      /\ used' = used \cup {u}
      /\ UNCHANGED <<parentVars, threadMap, sends>>
  BY DEF Clone, InProgram
<1>3. TypeOK'
  BY <1>0, <1>1, <1>2 DEF TypeOK, parentVars, Procs, Stops
<1>4. SavedInv'
  <2> SUFFICES ASSUME NEW v \in Tid
               PROVE  (IF childStates[v] = "ProcessingNotification"
                       THEN /\ Live(v)
                            /\ regs[v].frame # User
                            /\ childRegs[v] \in Regs
                            /\ childRegs[v].frame = User
                       ELSE /\ Live(v) => regs[v].frame = User
                            /\ childRegs[v] = NoRegs)'
    BY DEF SavedInv
  <2>1. childStates'[v] = childStates[v] /\ childRegs'[v] = childRegs[v]
    BY <1>2 DEF parentVars
  <2>2. CASE v = u
    <3>1. ~Live(u) /\ regs'[u].frame = User
      BY <1>0, <1>1, <1>2 DEF Live, TypeOK
    <3>2. childStates[u] # "ProcessingNotification" /\ childRegs[u] = NoRegs
      BY <1>0, <3>1 DEF SavedInv
    <3> QED
      BY <2>1, <2>2, <3>1, <3>2
  <2>3. CASE v # u
    <3>1. Live(v)' <=> Live(v)
      BY <1>0, <1>2, <2>3 DEF Live, TypeOK
    <3>2. regs'[v] = regs[v]
      BY <1>0, <1>2, <2>3 DEF TypeOK
    <3> QED
      BY <1>0, <2>1, <3>1, <3>2 DEF SavedInv
  <2> QED
    BY <2>2, <2>3
<1>5. QuietBeforeStartup'
  BY <1>0, <1>1, <1>2 DEF QuietBeforeStartup, parentVars, TypeOK
<1> QED
  BY <1>3, <1>4, <1>5 DEF IInv

LEMMA ExitGroupInv ==
  ASSUME IInv, ExitGroup
  PROVE  IInv'
<1>0. TypeOK /\ QuietBeforeStartup /\ SavedInv
  BY DEF IInv
<1>1. \A u \in Tid : Live(u)' <=> Live(u)
  BY <1>0 DEF ExitGroup, TypeOK, Live
<1>2. SavedInv'
  BY <1>0, <1>1, SameFrames DEF ExitGroup, parentVars
<1>3. TypeOK'
  BY <1>0 DEF ExitGroup, TypeOK, parentVars, Procs, Stops
<1>4. QuietBeforeStartup'
  BY <1>0 DEF ExitGroup, QuietBeforeStartup, parentVars
<1> QED
  BY <1>2, <1>3, <1>4 DEF IInv

LEMMA ThreadStepInv ==
  ASSUME IInv, NEW t \in Tid, ThreadStep(t)
  PROVE  IInv'
<1>0. TypeOK
  BY DEF IInv
<1>1. CASE DeliverSignal(t)
  BY <1>1, DeliverSignalInv
<1>2. CASE FinishSyscall(t)
  BY <1>2, FinishSyscallInv
<1>3. CASE ReturnFromInt3(t)
  <2>1. regs[t].frame \in Frame
    <3>1. regs[t] \in Regs
      BY <1>0 DEF TypeOK
    <3> QED
      BY <3>1, RegsFields
  <2> QED
    BY <1>0, <1>3, <2>1, MoveInv DEF ReturnFromInt3, TypeOK
<1>4. CASE RegisterThread(t)
  <2>1. Dispatch \in Frame /\ Dispatch # User /\ regs[t].frame # User
    BY <1>4, UserIsNoNotification DEF RegisterThread, User
  <2>2. /\ proc[t] = "running" /\ threadMap' \subseteq Tid
        /\ regs' = [regs EXCEPT ![t] = InCode(Dispatch)]
        /\ UNCHANGED <<parentVars, proc, sig, used, sends>>
    BY <1>0, <1>4 DEF RegisterThread, InProgram, TypeOK
  <2> QED
    BY <2>1, <2>2, MoveInv
<1>5. CASE FinishHandler(t)
  <2>1. /\ InProgram(t) /\ Int3(t, "ProcessingDone", None)
        /\ threadMap' \subseteq Tid /\ sends' \in 0 .. MaxSends
        /\ UNCHANGED <<parentVars, used>>
    BY <1>0, <1>5 DEF FinishHandler, TypeOK
  <2> QED
    BY <2>1, Int3Inv DEF ParentNotification
<1>6. CASE ThreadExit(t)
  BY <1>6, EnterSyscallInv DEF ThreadExit
<1>7. CASE OtherSyscall(t)
  BY <1>7, EnterSyscallInv DEF OtherSyscall
<1>8. CASE t = mainChild /\ Startup
  <2>1. threadMap' \subseteq Tid /\ sends' \in 0 .. MaxSends
    BY <1>0, <1>8 DEF Startup, TypeOK
  <2> QED
    BY <1>8, <2>1, Int3Inv DEF Startup, ParentNotification
<1>9. CASE t = mainChild /\ ExitGroup
  BY <1>9, ExitGroupInv
<1>10. ASSUME NEW u \in Tid, QueueAction(t, u)
       PROVE  IInv'
  <2>1. threadMap' \subseteq Tid /\ sends' \in 0 .. MaxSends
    BY <1>0, <1>10 DEF QueueAction, TypeOK
  <2> QED
    BY <1>10, <2>1, Int3Inv DEF QueueAction, ParentNotification
<1>11. ASSUME NEW u \in Tid, Clone(t, u)
       PROVE  IInv'
  BY <1>11, CloneInv
<1> QED
  BY <1>1, <1>2, <1>3, <1>4, <1>5, <1>6, <1>7, <1>8, <1>9, <1>10, <1>11 DEF ThreadStep

----------------------------------------------------------------------------
(* The theorems.                                                           *)

LEMMA InitInv == Init => IInv
<1> SUFFICES ASSUME Init
             PROVE  IInv
  OBVIOUS
<1>1. InCode(User) \in Regs /\ InCode(User).frame = User /\ InCode(User).sys = "none"
  BY InCodeType, UserIsNoNotification
<1>2. /\ childNotificationQueue \in [Tid -> Seq(Notification)]
      /\ regs \in [Tid -> Regs]
      /\ \A t \in Tid : regs[t] = InCode(User)
  BY <1>1 DEF Init
<1>3. TypeOK
  <2>1. /\ childStates \in [Tid -> {"none", "Running", "Stopping", "ProcessingNotification"}]
        /\ proc \in [Tid -> Procs]
        /\ sends \in 0 .. MaxSends
    BY DEF Init, Procs
  <2>2. /\ childRegs \in [Tid -> Regs \cup {NoRegs}]
        /\ childInSyscall \in [Tid -> BOOLEAN]
        /\ childExiting \in [Tid -> {0, 1, 2}]
        /\ sig \in [Tid -> BOOLEAN]
    BY DEF Init
  <2> QED
    BY <1>2, <2>1, <2>2 DEF Init, TypeOK
<1>4. QuietBeforeStartup
  <2>1. \A t \in Tid : regs[t].sys # "exit"
    BY <1>1, <1>2
  <2>2. \A t \in Tid : childStates[t] # "ProcessingNotification"
    BY DEF Init
  <2>3. \A t \in Tid : childExiting[t] = 0
    BY DEF Init
  <2>4. \A t \in Tid : childExiting[t] # 2
    <3> TAKE t \in Tid
    <3>1. childExiting[t] = 0 /\ 0 # 2
      BY <2>3
    <3> QED
      BY <3>1, Zenon
  <2> QED
    BY <2>1, <2>2, <2>4, Zenon DEF QuietBeforeStartup
<1>5. SavedInv
  BY <1>1 DEF Init, SavedInv
<1> QED
  BY <1>3, <1>4, <1>5 DEF IInv

LEMMA NextInv == IInv /\ [Next]_vars => IInv'
<1> SUFFICES ASSUME IInv, [Next]_vars
             PROVE  IInv'
  OBVIOUS
<1>1. ASSUME NEW t \in Tid, TraceLoop(t)
      PROVE  IInv'
  BY <1>1, TraceLoopInv
<1>2. ASSUME NEW t \in Tid, ThreadStep(t)
      PROVE  IInv'
  BY <1>2, ThreadStepInv
<1>3. CASE UNCHANGED vars
  BY <1>3 DEF vars, parentVars, IInv, TypeOK, QuietBeforeStartup, SavedInv, Live
<1> QED
  BY <1>1, <1>2, <1>3 DEF Next, Terminated

LEMMA SpecInv == Spec => []IInv
BY InitInv, NextInv, PTL DEF Spec

\* Every variable of the protocol always has its type.
THEOREM TypeCorrect == Spec => []TypeOK
<1>1. IInv => TypeOK
  BY DEF IInv
<1> QED
  BY <1>1, SpecInv, PTL

\* The parent always knows whether a thread executes its program or a handler,
\* and keeps the registers of the program exactly while a handler runs: the
\* program of a thread is never overwritten and never resumed in a handler's
\* place, for any number of threads, sends, clones, exits and reused ids.
THEOREM InterruptedProgramIsSaved == Spec => []InterruptedProgramSaved
<1>1. IInv => InterruptedProgramSaved
  BY DEF IInv, SavedInv, InterruptedProgramSaved
<1> QED
  BY <1>1, SpecInv, PTL
============================================================================
