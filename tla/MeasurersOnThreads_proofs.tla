---------------------- MODULE MeasurersOnThreads_proofs ----------------------
(***************************************************************************)
(* Theorems about MeasurersOnThreads, for any number of threads.           *)
(***************************************************************************)
EXTENDS MeasurersOnThreads, SequenceTheorems, TLAPS

Working(i) == step[i] # "done"

----------------------------------------------------------------------------
(* The inductive invariant.                                                *)

\* Who is doing what: a thread installs its own measurer in its handler, the
\* thread of the kernel those of others while it installs, and it waits only for
\* what it is doing.
Phases ==
  /\ \A t \in Thread : Working(t) => target[t] = <<t, "started">> /\ pc[t] = "handler"
  /\ Working(KernelThread) => /\ target[KernelThread] \in Thread \X {"existing"}
                              /\ kernel \in {"install", "aborted"}
  /\ kernel \in {"install", "running"} => createRule
  /\ kernel \in {"warm", "running"} => found = {}
  /\ queued # None =>
       \/ kernel = "stop" /\ copied[queued] # <<>>
       \/ /\ kernel = "install" /\ queued = target[KernelThread]
          /\ step[KernelThread] \in {"initialize", "start"}
  /\ \A t \in Thread : pc[t] \in {"registered", "handler", "run"} => t \in threadMap

\* A measurer of t is being installed, and not started yet.
InHand(t) ==
  \/ step[t] \in {"clone", "initialize", "start"}
  \/ /\ target[KernelThread] = <<t, "existing">>
     /\ step[KernelThread] \in {"clone", "initialize", "addStart", "start"}

\* Every thread that dispatched its Started event is measured, or will be.
Covered ==
  kernel \in {"install", "running"} =>
    \A t \in Thread \ attached :
      pc[t] \in {"handler", "run"} => t \in found \/ InHand(t) \/ Measured(t)

IInv == TypeOK /\ Phases /\ Covered

\* The thread of the kernel is none of the others.
LEMMA Threads == /\ \A t \in Thread : t # KernelThread
                 /\ KernelThread \in Installer /\ \A t \in Thread : t \in Installer
                 /\ \A t \in Thread : \A by \in By : <<t, by>> \in Measurer
                 /\ \A m \in Measurer : m \in {On(m)} \X By /\ On(m) \in Thread
  BY ThreadAssumption DEF Installer, Measurer, By, On

\* What follows each step of an installation is a step of it.
LEMMA NextStepType ==
  ASSUME TypeOK, NEW i \in Installer
  PROVE  NextStep(i) \in Step
  BY DEF TypeOK, NextStep, Step

\* The initial states satisfy the invariant.
LEMMA InitInv == Init => IInv
  <1> SUFFICES ASSUME Init PROVE IInv
      OBVIOUS
  <1>1. TypeOK
    <2>1. <<>> \in Seq(Action) /\ "done" \in Step
        BY DEF Step
    <2> QED
        BY <2>1 DEF Init, TypeOK
  <1>2. Phases
      BY Threads DEF Init, Phases, Working
  <1>3. Covered
      BY DEF Init, Covered
  <1> QED
      BY <1>1, <1>2, <1>3 DEF IInv

----------------------------------------------------------------------------
(* Each step keeps it.                                                     *)

\* Calling a measurer keeps its type.
LEMMA CallType ==
  ASSUME TypeOK, NEW m \in Measurer, NEW do \in DOMAIN After, Call(m, do)
  PROVE  measurer' \in [Measurer -> [state : {"new", "ready", "started", "stopped", "read", "disposed"},
                                     odd : BOOLEAN]]
  <1>1. [state |-> After[do], odd |-> ~ measurer[m].odd]
          \in [state : {"new", "ready", "started", "stopped", "read", "disposed"}, odd : BOOLEAN]
      BY DEF After
  <1> QED
      BY <1>1 DEF TypeOK, Call

\* Going on to the next step keeps the type of the installation.
LEMMA ProceedType ==
  ASSUME TypeOK, NEW i \in Installer, Proceed(i)
  PROVE  target' \in [Installer -> Measurer \cup {None}] /\ step' \in [Installer -> Step]
  BY NextStepType DEF TypeOK, Proceed

\* A measurer that is being installed is a thread's own, or one for KernelThread.
LEMMA Target ==
  ASSUME Phases, NEW i \in Installer, Working(i)
  PROVE  /\ target[i] \in Measurer /\ On(target[i]) \in Thread
         /\ i # KernelThread => i \in Thread /\ i = On(target[i]) /\ target[i] = <<i, "started">>
         /\ i = KernelThread => target[i] = <<On(target[i]), "existing">>
  <1>1. CASE i \in Thread
    <2>1. target[i] = <<i, "started">> /\ i # KernelThread
        BY <1>1, Threads DEF Phases
    <2> QED
        BY <1>1, <2>1, Threads DEF On, By
  <1>2. CASE i = KernelThread
    <2>1. PICK t \in Thread : target[i] = <<t, "existing">>
        BY <1>2 DEF Phases
    <2> QED
        BY <1>2, <2>1, Threads DEF On, By
  <1> QED
      BY <1>1, <1>2 DEF Installer

\* A call of a measurer of one thread leaves the others measured.
LEMMA CallOther ==
  ASSUME TypeOK, NEW m \in Measurer, NEW do, Call(m, do), startPredicate' = startPredicate,
         NEW t \in Thread, On(m) # t, Measured(t)
  PROVE  Measured(t)'
  <1>1. \A by \in By : measurer'[<<t, by>>] = measurer[<<t, by>>]
      BY DEF Call, TypeOK, On
  <1> QED
      BY <1>1 DEF Measured, MeasuredBy

\* A step of an installation, whoever takes it, leaves every thread covered: the
\* measurer stays in hand until it is started, or ready if it is to wait.
LEMMA ProceedCovered ==
  ASSUME IInv, NEW i \in Installer, Working(i), Proceed(i),
         UNCHANGED <<kernel, startPredicate, pc, attached, found>>,
         \/ step[i] \in {"clone", "initialize", "start"} /\ Call(target[i], step[i])
         \/ step[i] \in {"addStart", "addStop", "addRead", "addDispose"} /\ measurer' = measurer
  PROVE  Covered'
  <1> USE DEF IInv
  <1> SUFFICES ASSUME kernel \in {"install", "running"}, NEW t \in Thread, t \notin attached,
                      pc[t] \in {"handler", "run"}, t \notin found
               PROVE  InHand(t)' \/ Measured(t)'
      BY DEF Covered
  <1>1. InHand(t) \/ Measured(t)
      BY DEF Covered
  <1>2. /\ step' = [step EXCEPT ![i] = NextStep(i)] /\ target' = target
        /\ t \in Installer /\ KernelThread \in Installer /\ t # KernelThread
        /\ step \in [Installer -> Step]
      BY Threads DEF Proceed, TypeOK
  <1>3. CASE On(target[i]) # t
    <2>1. i # t /\ (i = KernelThread => target[KernelThread] # <<t, "existing">>)
        BY <1>2, <1>3, Target DEF On
    <2>2. InHand(t) => InHand(t)'
        BY <1>2, <2>1 DEF InHand
    <2>3. Measured(t) => Measured(t)'
      <3>1. CASE measurer' = measurer
          BY <3>1 DEF Measured, MeasuredBy
      <3>2. CASE Call(target[i], step[i])
          BY <1>3, <3>2, CallOther, Target
      <3> QED
          BY <3>1, <3>2
    <2> QED
        BY <1>1, <2>2, <2>3
  <1>4. CASE On(target[i]) = t
    <2>1. /\ i # KernelThread => i = t /\ target[i] = <<t, "started">>
          /\ i = KernelThread => target[i] = <<t, "existing">>
          /\ target[i] \in Measurer
        BY <1>4, Target
    <2>2. CASE step[i] \in {"addStart", "addStop", "addRead", "addDispose"} /\ measurer' = measurer
      <3>1. Measured(t) => Measured(t)'
          BY <2>2 DEF Measured, MeasuredBy
      <3>2. InHand(t) => InHand(t)'
          BY <1>2, <2>1, <2>2 DEF InHand, NextStep
      <3> QED
          BY <1>1, <3>1, <3>2
    <2>3. CASE step[i] = "clone"
        BY <1>2, <2>1, <2>3 DEF InHand, NextStep
    <2>4. CASE step[i] = "initialize" /\ Call(target[i], step[i])
      <3>1. measurer'[target[i]].state = "ready"
          BY <2>1, <2>4 DEF Call, TypeOK, After
      <3>2. CASE startPredicate = None \/ i = KernelThread
          BY <1>2, <2>1, <2>4, <3>2 DEF InHand, NextStep
      <3>3. CASE startPredicate # None /\ i # KernelThread
          BY <2>1, <3>1, <3>3 DEF Measured, MeasuredBy, By
      <3> QED
          BY <3>2, <3>3
    <2>5. CASE step[i] = "start" /\ Call(target[i], step[i])
      <3>1. measurer'[target[i]].state = "started"
          BY <2>1, <2>5 DEF Call, TypeOK, After
      <3> QED
          BY <2>1, <3>1 DEF Measured, MeasuredBy, By
    <2> QED
        BY <2>2, <2>3, <2>4, <2>5
  <1> QED
      BY <1>3, <1>4

\* The steps of an installation that need no other thread.
LEMMA PrepareInv ==
  ASSUME IInv, NEW i \in Installer, Prepare(i) \/ (i \in Thread /\ ExecuteDirect(i))
  PROVE  IInv'
  <1> USE DEF IInv
  <1>1. \/ Clone(i) \/ AddStartRule(i) \/ (i \in Thread /\ ExecuteDirect(i))
        \/ \E do \in Action : step[i] \in {"addStop", "addRead", "addDispose"} /\ AddRule(i, step[i], do)
      BY DEF Prepare, AddRule, Action
  <1>2. /\ Working(i) /\ Proceed(i) /\ UNCHANGED <<startPredicate, threads, kernel, found, createRule, copied, queued>>
      BY <1>1 DEF Clone, AddStartRule, AddRule, ExecuteDirect, Working
  <1>3. \/ step[i] \in {"clone", "initialize", "start"} /\ Call(target[i], step[i])
        \/ step[i] \in {"addStart", "addStop", "addRead", "addDispose"} /\ measurer' = measurer
      BY <1>1 DEF Clone, AddStartRule, AddRule, ExecuteDirect
  <1>4. i = KernelThread => step[i] \notin {"initialize", "start"}
      BY <1>1, Threads DEF Clone, AddStartRule, ExecuteDirect
  <1>5. TypeOK'
    <2>1. measurer' \in [Measurer -> [state : {"new", "ready", "started", "stopped", "read", "disposed"},
                                      odd : BOOLEAN]]
      <3>1. CASE measurer' = measurer
          BY <3>1 DEF TypeOK
      <3>2. CASE step[i] \in {"clone", "initialize", "start"} /\ Call(target[i], step[i])
          BY <1>2, <3>2, CallType, Target DEF After
      <3> QED
          BY <1>3, <3>1, <3>2
    <2>2. target' \in [Installer -> Measurer \cup {None}] /\ step' \in [Installer -> Step]
        BY <1>2, ProceedType
    <2>3. rules' \in [Measurer -> Seq(Action)]
      <3>1. CASE UNCHANGED rules
          BY <3>1 DEF TypeOK
      <3>2. ASSUME NEW do \in Action, AddRule(i, step[i], do)
            PROVE  rules' \in [Measurer -> Seq(Action)]
        <4>1. Append(rules[target[i]], do) \in Seq(Action)
            BY <1>2, Target DEF TypeOK
        <4> QED
            BY <3>2, <4>1 DEF AddRule, TypeOK
      <3> QED
          BY <1>1, <3>1, <3>2 DEF Clone, AddStartRule, ExecuteDirect
    <2> QED
        BY <1>2, <2>1, <2>2, <2>3 DEF TypeOK, threads
  <1>6. Phases'
      BY <1>2, <1>4, Threads DEF Phases, Working, TypeOK, threads, Proceed
  <1>7. Covered'
      BY <1>2, <1>3, ProceedCovered DEF threads
  <1> QED
      BY <1>5, <1>6, <1>7

\* An action is queued for a thread, or the process exits.
LEMMA StartExecuteInv ==
  ASSUME IInv, NEW m \in Measurer, StartExecute(m)
  PROVE  IInv'
  <1> USE DEF IInv
  <1>1. TypeOK'
      BY DEF StartExecute, TypeOK, threads
  <1>2. Phases'
      BY NoneAssumption DEF StartExecute, Phases, Working, TypeOK, threads, Running
  <1>3. Covered'
      BY DEF StartExecute, Covered, InHand, Measured, MeasuredBy, threads
  <1> QED
      BY <1>1, <1>2, <1>3

\* A thread executes the queued action.
LEMMA ProcessActionsInv ==
  ASSUME IInv, NEW t \in Thread, ProcessActions(t)
  PROVE  IInv'
  <1> USE DEF IInv
  <1>1. /\ queued \in Measurer /\ queued # None /\ queued' = None /\ pc' = pc
        /\ UNCHANGED <<startPredicate, kernel, threadMap, attached, createRule, rules, found>>
      BY NoneAssumption, Threads DEF ProcessActions, Goto, TypeOK
  <1>2. CASE kernel = "stop"
    <2>1. /\ Call(queued, Head(copied[queued])) /\ copied' = [copied EXCEPT ![queued] = Tail(@)]
          /\ UNCHANGED <<target, step>> /\ copied[queued] # <<>>
        BY <1>1, <1>2 DEF ProcessActions, Phases
    <2>2. copied[queued] \in Seq(Action)
        BY <1>1 DEF TypeOK
    <2>3. Head(copied[queued]) \in Action /\ Tail(copied[queued]) \in Seq(Action)
        BY <2>1, <2>2
    <2>4. Head(copied[queued]) \in DOMAIN After
        BY <2>3 DEF Action, After
    <2>5. measurer' \in [Measurer -> [state : {"new", "ready", "started", "stopped", "read", "disposed"},
                                      odd : BOOLEAN]]
        BY <1>1, <2>1, <2>4, CallType
    <2>6. TypeOK'
        BY <1>1, <2>1, <2>3, <2>5 DEF TypeOK
    <2>7. Phases' /\ Covered'
        BY <1>1, <1>2, <2>1 DEF Phases, Working, Covered
    <2> QED
        BY <2>6, <2>7
  <1>3. CASE kernel # "stop"
    <2>1. /\ kernel = "install" /\ queued = target[KernelThread]
          /\ step[KernelThread] \in {"initialize", "start"}
        BY <1>1, <1>3 DEF Phases
    <2>2. Call(queued, step[KernelThread]) /\ Proceed(KernelThread) /\ UNCHANGED copied
        BY <1>3 DEF ProcessActions
    <2>3. measurer' \in [Measurer -> [state : {"new", "ready", "started", "stopped", "read", "disposed"},
                                      odd : BOOLEAN]]
        BY <1>1, <2>1, <2>2, CallType DEF After
    <2>4. target' \in [Installer -> Measurer \cup {None}] /\ step' \in [Installer -> Step]
        BY <2>2, ProceedType, Threads
    <2>5. TypeOK'
        BY <1>1, <2>2, <2>3, <2>4 DEF TypeOK
    <2>6. Phases'
        BY <1>1, <2>1, <2>2, Threads DEF Phases, Working, Proceed, TypeOK
    <2>7. Covered'
        BY <1>1, <2>1, <2>2, ProceedCovered, Threads DEF Working
    <2> QED
        BY <2>5, <2>6, <2>7
  <1> QED
      BY <1>2, <1>3

\* The steps of the thread of the kernel that concern no measurer.
LEMMA KernelInv ==
  ASSUME IInv,
         \/ GetChildThreadsAndAddRule \/ (\E t \in Thread : Install(t) \/ SkipWorkload(t))
         \/ StartKernel \/ StopKernel \/ EndDispatch
  PROVE  IInv'
  <1> USE DEF IInv
  <1>1. CASE GetChildThreadsAndAddRule
    <2>1. TypeOK'
        BY <1>1 DEF GetChildThreadsAndAddRule, TypeOK, threads
    <2>2. Phases'
        BY <1>1 DEF GetChildThreadsAndAddRule, Phases, Working, threads
    <2>3. Covered'
        BY <1>1 DEF GetChildThreadsAndAddRule, Phases, Covered, threads
    <2> QED
        BY <2>1, <2>2, <2>3
  <1>2. ASSUME NEW t \in Thread, Install(t)
        PROVE  IInv'
    <2>1. <<t, "existing">> \in Measurer /\ "clone" \in Step /\ KernelThread \in Installer
        BY Threads DEF By, Step
    <2>2. TypeOK'
      <3>1. target' \in [Installer -> Measurer \cup {None}] /\ step' \in [Installer -> Step]
        <4>1. target \in [Installer -> Measurer \cup {None}] /\ step \in [Installer -> Step]
            BY DEF TypeOK
        <4>2. \/ /\ target' = [target EXCEPT ![KernelThread] = <<t, "existing">>]
                 /\ step' = [step EXCEPT ![KernelThread] = "clone"]
              \/ UNCHANGED <<target, step>>
            BY <1>2 DEF Install
        <4> QED
            BY <2>1, <4>1, <4>2
      <3>2. kernel' \in {"install", "aborted"} /\ found' \subseteq Thread
          BY <1>2 DEF Install, TypeOK
      <3> QED
          BY <1>2, <3>1, <3>2 DEF Install, TypeOK, threads
    <2>3. Phases'
        BY <1>2, <2>1, Threads DEF Install, Phases, Working, threads, TypeOK
    <2>4. Covered'
      <3> SUFFICES ASSUME kernel' = "install", NEW u \in Thread, u \notin attached, u # t,
                          pc[u] \in {"handler", "run"}, u \notin found
                   PROVE  InHand(u)' \/ Measured(u)'
          BY <1>2, <2>1 DEF Install, Covered, threads, InHand, TypeOK
      <3>1. InHand(u) \/ Measured(u)
          BY <1>2 DEF Install, Covered
      <3>2. Measured(u) => Measured(u)'
          BY <1>2 DEF Install, Measured, MeasuredBy
      <3>3. InHand(u) => InHand(u)'
          BY <1>2, Threads DEF Install, InHand, TypeOK
      <3> QED
          BY <3>1, <3>2, <3>3
    <2> QED
        BY <2>2, <2>3, <2>4
  <1>3. ASSUME NEW t \in Thread, SkipWorkload(t)
        PROVE  IInv'
    <2>1. TypeOK'
        BY <1>3 DEF SkipWorkload, TypeOK, threads
    <2>2. Phases'
        BY <1>3 DEF SkipWorkload, Phases, Working, threads
    <2>3. Covered'
        BY <1>3 DEF SkipWorkload, Covered, threads, InHand, Measured, MeasuredBy
    <2> QED
        BY <2>1, <2>2, <2>3
  <1>4. CASE StartKernel
    <2>1. TypeOK'
        BY <1>4 DEF StartKernel, TypeOK, threads
    <2>2. Phases'
        BY <1>4 DEF StartKernel, Phases, Working, threads
    <2>3. Covered'
        BY <1>4 DEF StartKernel, Covered, threads, InHand, Measured, MeasuredBy
    <2> QED
        BY <2>1, <2>2, <2>3
  <1>5. CASE StopKernel
    <2>1. TypeOK'
        BY <1>5 DEF StopKernel, TypeOK, threads
    <2>2. Phases' /\ Covered'
        BY <1>5 DEF StopKernel, Phases, Working, threads, Covered
    <2> QED
        BY <2>1, <2>2
  <1>6. CASE EndDispatch
    <2>1. TypeOK'
        BY <1>6 DEF EndDispatch, TypeOK, threads
    <2>2. Phases' /\ Covered'
        BY <1>6 DEF EndDispatch, Phases, Working, threads, Covered
    <2> QED
        BY <2>1, <2>2
  <1> QED
      BY <1>1, <1>2, <1>3, <1>4, <1>5, <1>6

\* The steps of the other threads that concern no measurer.
LEMMA ThreadInv ==
  ASSUME IInv, NEW t \in Thread,
         Register(t) \/ DispatchStarted(t) \/ ReturnToProgram(t) \/ Attach(t) \/ Exit(t) \/ Forget(t)
  PROVE  IInv'
  <1> USE DEF IInv
  <1>1. CASE Register(t)
    <2>1. TypeOK'
        BY <1>1 DEF Register, Goto, TypeOK
    <2>2. Phases'
        BY <1>1 DEF Register, Goto, Phases, Working, TypeOK
    <2>3. Covered'
      <3> SUFFICES ASSUME kernel \in {"install", "running"}, NEW u \in Thread, u \notin attached,
                          pc'[u] \in {"handler", "run"}
                   PROVE  u \in found' \/ InHand(u) \/ Measured(u)
          BY <1>1 DEF Register, Covered, InHand, Measured, MeasuredBy
      <3>1. u # t /\ pc[u] \in {"handler", "run"}
          BY <1>1 DEF Register, Goto, TypeOK
      <3>2. u \in threadMap
          BY <3>1 DEF Phases
      <3>3. u \in found => u \in found'
          BY <1>1, <3>2 DEF Register
      <3> QED
          BY <3>1, <3>3 DEF Covered
    <2> QED
        BY <2>1, <2>2, <2>3
  <1>2. CASE DispatchStarted(t)
    <2>1. /\ <<t, "started">> \in Measurer /\ "clone" \in Step /\ t \in Installer /\ t # KernelThread
          /\ step[t] = "done"
        BY <1>2, Threads DEF By, Step, DispatchStarted, Goto, Phases, Working
    <2>2. TypeOK'
        BY <1>2, <2>1 DEF DispatchStarted, Goto, TypeOK
    <2>3. Phases'
        BY <1>2, <2>1, Threads DEF DispatchStarted, Goto, Phases, Working, TypeOK
    <2>4. Covered'
      <3> SUFFICES ASSUME kernel \in {"install", "running"}, NEW u \in Thread, u \notin attached,
                          pc'[u] \in {"handler", "run"}
                   PROVE  u \in found \/ InHand(u)' \/ Measured(u)
          BY <1>2 DEF DispatchStarted, Covered, Measured, MeasuredBy
      <3>1. CASE u = t
        <4>1. createRule
            BY DEF Phases
        <4> QED
            BY <1>2, <2>1, <3>1, <4>1 DEF DispatchStarted, InHand, TypeOK
      <3>2. CASE u # t
        <4>1. pc[u] \in {"handler", "run"}
            BY <1>2, <3>2 DEF DispatchStarted, Goto, TypeOK
        <4>2. step'[u] = step[u] /\ step'[KernelThread] = step[KernelThread]
              /\ target'[KernelThread] = target[KernelThread]
            BY <1>2, <2>1, <3>2, Threads DEF DispatchStarted, TypeOK
        <4>3. InHand(u) => InHand(u)'
            BY <4>2 DEF InHand
        <4> QED
            BY <4>1, <4>3 DEF Covered
      <3> QED
          BY <3>1, <3>2
    <2> QED
        BY <2>2, <2>3, <2>4
  <1>3. CASE ReturnToProgram(t) \/ Attach(t) \/ Exit(t) \/ Forget(t)
    <2>1. TypeOK'
        BY <1>3 DEF ReturnToProgram, Attach, Exit, Forget, Goto, TypeOK, threads
    <2>2. Phases'
        BY <1>3 DEF ReturnToProgram, Attach, Exit, Forget, Goto, Phases, Working, TypeOK, threads
    <2>3. Covered'
      <3>1. UNCHANGED <<kernel, found, step, target, measurer, startPredicate>> /\ attached \subseteq attached'
          BY <1>3 DEF ReturnToProgram, Attach, Exit, Forget
      <3>2. \A u \in Thread : pc'[u] \in {"handler", "run"} => pc[u] \in {"handler", "run"}
          BY <1>3 DEF ReturnToProgram, Attach, Exit, Forget, Goto, TypeOK
      <3>3. \A u \in Thread : (InHand(u)' <=> InHand(u)) /\ (Measured(u)' <=> Measured(u))
          BY <3>1 DEF InHand, Measured, MeasuredBy
      <3> QED
          BY <3>1, <3>2, <3>3 DEF Covered
    <2> QED
        BY <2>1, <2>2, <2>3
  <1> QED
      BY <1>1, <1>2, <1>3

\* Every step keeps the invariant.
LEMMA NextInv == IInv /\ [Next]_vars => IInv'
  <1> SUFFICES ASSUME IInv, [Next]_vars PROVE IInv'
      OBVIOUS
  <1>1. CASE KernelStep
      BY <1>1, KernelInv, PrepareInv, StartExecuteInv, Threads DEF KernelStep
  <1>2. ASSUME NEW t \in Thread, Register(t) \/ Handler(t) \/ Attach(t) \/ Exit(t) \/ Forget(t)
        PROVE  IInv'
      BY <1>2, ThreadInv, PrepareInv, ProcessActionsInv, Threads DEF Handler
  <1>3. CASE UNCHANGED vars
    <2>1. TypeOK' /\ Phases'
        BY <1>3 DEF IInv, TypeOK, Phases, Working, vars, threads
    <2>2. Covered'
        BY <1>3 DEF IInv, Covered, InHand, Measured, MeasuredBy, vars, threads
    <2> QED
        BY <2>1, <2>2 DEF IInv
  <1> QED
      BY <1>1, <1>2, <1>3 DEF Next

----------------------------------------------------------------------------
(* The theorems.                                                           *)

\* Every variable has its type.
THEOREM TypeCorrect == Spec => []TypeOK
  <1>1. IInv => TypeOK
      BY DEF IInv
  <1> QED
      BY <1>1, InitInv, NextInv, PTL DEF Spec

\* No thread that runs with the kernel is missed, whenever it started: the rule is
\* added while the thread map is locked, so a thread that is not found in the map
\* dispatches its Started event after that.
THEOREM NoThreadMissed == Spec => []NoneMissed
  <1>1. IInv => NoneMissed
    <2> SUFFICES ASSUME IInv, kernel = "running", NEW t \in Thread \ attached, pc[t] = "run"
                 PROVE  Measured(t)
        BY DEF NoneMissed
    <2>1. found = {} /\ ~ Working(t) /\ ~ Working(KernelThread)
        BY DEF IInv, Phases
    <2>2. ~ InHand(t)
        BY <2>1 DEF InHand, Working
    <2> QED
        BY <2>1, <2>2 DEF IInv, Covered
  <1> QED
      BY <1>1, InitInv, NextInv, PTL DEF Spec

----------------------------------------------------------------------------
(* The life cycle of a measurer that is to start at once.                  *)

InstallerOf(m) == IF m[2] = "started" THEN On(m) ELSE KernelThread

\* The step its installation is at.
At(m) == IF target[InstallerOf(m)] = m THEN step[InstallerOf(m)] ELSE "done"

\* Its installation is still to come.
Untouched(m) ==
  \/ m[2] = "started" /\ pc[On(m)] \in {"unborn", "registered"}
  \/ m[2] = "existing" /\ (kernel = "warm" \/ On(m) \in found \/ pc[On(m)] = "unborn")

Before == [clone |-> "disposed", initialize |-> "new", start |-> "ready", stop |-> "started",
           read |-> "stopped", dispose |-> "read"]

\* The rules added one after the other, and what is left of them.
Rules1 == <<"stop">>
Rules2 == Append(Rules1, "read")
Rules3 == Append(Rules2, "dispose")
Rest1 == <<"read">>
Rest2 == Append(Rest1, "dispose")
Rest3 == <<"dispose">>

\* The state a measurer is in tells how far its installation and its rules are.
Orderly(m) ==
  /\ Untouched(m) => At(m) = "done" /\ measurer[m].state = "disposed" /\ rules[m] = <<>>
  /\ At(m) # "addStart"
  /\ At(m) \in {"clone", "initialize", "start"} =>
       measurer[m].state = Before[At(m)] /\ rules[m] = <<>>
  /\ At(m) = "addStop" => measurer[m].state = "started" /\ rules[m] = <<>>
  /\ At(m) = "addRead" => rules[m] = Rules1
  /\ At(m) = "addDispose" => rules[m] = Rules2
  /\ rules[m] \in {<<>>, Rules1, Rules2, Rules3}
  /\ rules[m] # <<>> /\ kernel \in {"warm", "install", "running"} => measurer[m].state = "started"
  /\ kernel = "stop" /\ copied[m] # <<>> =>
       /\ copied[m] \in {Rules1, Rules2, Rules3, Rest1, Rest2, Rest3}
       /\ rules[m] # <<>> /\ measurer[m].state = Before[Head(copied[m])]

Born == \A t \in found \cup threadMap : pc[t] # "unborn"

LInv == IInv /\ Born /\ (startPredicate = None => \A m \in Measurer : Orderly(m))

\* What a step may do to measurers.
LifeCyclesKept == \A m \in Measurer : [LifeCycle(m)!Next]_<<measurer[m].state, measurer[m].odd>>

\* A call is one of the life cycle if it comes at the right time.
LEMMA CallKeeps ==
  ASSUME TypeOK, NEW m \in Measurer, NEW do \in DOMAIN After, Call(m, do),
         measurer[m].state = Before[do]
  PROVE  LifeCyclesKept
  <1>1. \A x \in Measurer : x # m => measurer'[x] = measurer[x]
      BY DEF Call, TypeOK
  <1>2. measurer'[m].state = After[do] /\ measurer'[m].odd = ~ measurer[m].odd
      BY DEF Call, TypeOK
  <1>3. LifeCycle(m)!Next
      BY <1>2 DEF LifeCycle!Next, LifeCycle!Call, LifeCycle!Clone, LifeCycle!Initialize, LifeCycle!Start,
         LifeCycle!Stop, LifeCycle!Read, LifeCycle!Dispose, After, Before
  <1> QED
      BY <1>1, <1>3 DEF LifeCyclesKept

LEMMA RuleAppended ==
  ASSUME NEW s \in Seq(Action), s # <<>>, NEW do
  PROVE  Head(Append(s, do)) = Head(s) /\ Tail(Append(s, do)) = Append(Tail(s), do)
  BY HeadTailAppend

\* Adding and executing the rules one by one.
LEMMA RuleSequences ==
  /\ Append(<<>>, "stop") = Rules1 /\ Append(Rules1, "read") = Rules2 /\ Append(Rules2, "dispose") = Rules3
  /\ Head(Rules1) = "stop" /\ Head(Rules2) = "stop" /\ Head(Rules3) = "stop"
  /\ Head(Rest1) = "read" /\ Head(Rest2) = "read" /\ Head(Rest3) = "dispose"
  /\ Tail(Rules1) = <<>> /\ Tail(Rules2) = Rest1 /\ Tail(Rules3) = Rest2
  /\ Tail(Rest1) = <<>> /\ Tail(Rest2) = Rest3 /\ Tail(Rest3) = <<>>
  /\ Rules1 # <<>> /\ Rules2 # <<>> /\ Rules3 # <<>> /\ Rest1 # <<>> /\ Rest2 # <<>> /\ Rest3 # <<>>
  <1>1. /\ <<>> \in Seq(Action) /\ Rules1 \in Seq(Action) /\ Rest1 \in Seq(Action)
        /\ Rules1 # <<>> /\ Rest1 # <<>> /\ Rest3 # <<>>
        /\ Head(Rules1) = "stop" /\ Head(Rest1) = "read" /\ Head(Rest3) = "dispose"
        /\ Tail(Rules1) = <<>> /\ Tail(Rest1) = <<>> /\ Tail(Rest3) = <<>>
      BY DEF Rules1, Rest1, Rest3, Action
  <1>2. /\ Append(<<>>, "stop") = Rules1 /\ Append(<<>>, "read") = Rest1
        /\ Append(<<>>, "dispose") = Rest3
      BY DEF Rules1, Rest1, Rest3
  <1>3. Rules2 \in Seq(Action) /\ Rules2 # <<>>
      BY <1>1, AppendProperties DEF Rules2, Action
  <1>4. Rules3 # <<>> /\ Rest2 # <<>>
    <2>1. "dispose" \in Action
        BY DEF Action
    <2>2. Rules3 # <<>>
        BY <1>3, <2>1, AppendProperties DEF Rules3
    <2>3. Rest2 # <<>>
        BY <1>1, <2>1, AppendProperties DEF Rest2
    <2> QED
        BY <2>2, <2>3
  <1>5. Head(Rules2) = "stop" /\ Tail(Rules2) = Rest1
      BY <1>1, <1>2, RuleAppended DEF Rules2
  <1>6. Head(Rules3) = "stop" /\ Tail(Rules3) = Rest2
      BY <1>3, <1>5, RuleAppended DEF Rules3, Rest2
  <1>7. Head(Rest2) = "read" /\ Tail(Rest2) = Rest3
    <2>1. Head(Rest2) = Head(Rest1) /\ Tail(Rest2) = Append(Tail(Rest1), "dispose")
        BY <1>1, RuleAppended DEF Rest2
    <2> QED
        BY <1>1, <1>2, <2>1
  <1> QED
      BY <1>1, <1>2, <1>3, <1>4, <1>5, <1>6, <1>7 DEF Rules2, Rules3

\* Each measurer has one installer.
LEMMA Installers ==
  /\ \A m \in Measurer : InstallerOf(m) \in Installer
  /\ \A t \in Thread : InstallerOf(<<t, "started">>) = t /\ InstallerOf(<<t, "existing">>) = KernelThread
  BY Threads DEF InstallerOf, On, By

\* The steps of an installation, whoever takes them.
LEMMA ProceedOrderly ==
  ASSUME LInv, startPredicate = None, NEW i \in Installer, Working(i), Proceed(i),
         UNCHANGED <<kernel, threads, found, copied>>,
         \/ /\ step[i] \in {"clone", "initialize", "start"} /\ Call(target[i], step[i])
            /\ rules' = rules
         \/ /\ measurer' = measurer
            /\ step[i] \in {"addStop", "addRead", "addDispose"}
            /\ rules' = [rules EXCEPT ![target[i]] =
                           Append(@, IF step[i] = "addStop" THEN "stop"
                                     ELSE IF step[i] = "addRead" THEN "read" ELSE "dispose")]
  PROVE  (\A m \in Measurer : Orderly(m)') /\ LifeCyclesKept
  <1>0. PICK own \in Measurer : own = target[i]
      BY Target DEF LInv, IInv
  <1>1. own = target[i] /\ InstallerOf(own) = i /\ At(own) = step[i]
    <2>1. InstallerOf(own) = i
      <3>1. CASE i = KernelThread
        <4>1. PICK t \in Thread : own = <<t, "existing">>
            BY <1>0, <3>1, Target DEF LInv, IInv
        <4> QED
            BY <3>1, <4>1, Installers
      <3>2. CASE i # KernelThread
        <4>1. i \in Thread /\ own = <<i, "started">>
            BY <1>0, <3>2, Target DEF LInv, IInv
        <4> QED
            BY <4>1, Installers
      <3> QED
          BY <3>1, <3>2
    <2> QED
        BY <1>0, <2>1 DEF At
  <1>2. target' = target /\ step' = [step EXCEPT ![i] = NextStep(i)]
        /\ step \in [Installer -> Step] /\ rules \in [Measurer -> Seq(Action)]
      BY DEF Proceed, LInv, IInv, TypeOK
  <1>3. At(own)' = NextStep(i)
      BY <1>1, <1>2 DEF At, InstallerOf
  <1>4. \A m \in Measurer : Untouched(m)' = Untouched(m)
      BY DEF Untouched, threads
  <1>5. Orderly(own) /\ ~ Untouched(own)
      BY <1>1 DEF LInv, Orderly, Working
  <1>6. CASE step[i] \in {"clone", "initialize", "start"} /\ Call(target[i], step[i]) /\ rules' = rules
    <2>1. measurer[own].state = Before[step[i]] /\ rules[own] = <<>>
        BY <1>1, <1>5, <1>6 DEF Orderly
    <2>2. LifeCyclesKept
        BY <1>1, <1>6, <2>1, CallKeeps DEF LInv, IInv, After
    <2>3. measurer'[own].state = After[step[i]] /\ \A m \in Measurer : m # own => measurer'[m] = measurer[m]
        BY <1>1, <1>6 DEF Call, LInv, IInv, TypeOK
    <2>4. Orderly(own)'
      <3>1. NextStep(i) \in {"initialize", "start", "addStop"}
            /\ (NextStep(i) \in {"initialize", "start"} => After[step[i]] = Before[NextStep(i)])
            /\ (NextStep(i) = "addStop" => After[step[i]] = "started")
          BY <1>6 DEF NextStep, After, Before
      <3> QED
          BY <1>3, <1>4, <1>5, <1>6, <1>1, <2>1, <2>3, <3>1 DEF Orderly
    <2>5. ASSUME NEW m \in Measurer, m # own
          PROVE  Orderly(m)'
      <3>1. At(m)' = At(m)
          BY <1>1, <1>2, <2>5, Installers DEF At, InstallerOf
      <3> QED
          BY <1>4, <1>6, <2>3, <2>5, <3>1 DEF Orderly, LInv
    <2> QED
        BY <2>2, <2>4, <2>5
  <1>7. CASE step[i] \in {"addStop", "addRead", "addDispose"} /\ measurer' = measurer
    <2>1. LifeCyclesKept
        BY <1>7 DEF LifeCyclesKept
    <2>2. rules' = [rules EXCEPT ![own] = Append(@, IF step[i] = "addStop" THEN "stop"
                                     ELSE IF step[i] = "addRead" THEN "read" ELSE "dispose")]
        BY <1>1, <1>7
    <2>3. Orderly(own)'
      <3>1. CASE step[i] = "addStop"
        <4>1. rules[own] = <<>> /\ measurer[own].state = "started" /\ NextStep(i) = "addRead"
            BY <1>1, <1>5, <3>1 DEF Orderly, NextStep
        <4>2. rules'[own] = Rules1
            BY <1>1, <1>2, <2>2, <3>1, <4>1, RuleSequences
        <4> QED
            BY <1>1, <1>3, <1>4, <1>5, <1>7, <4>1, <4>2, RuleSequences DEF Orderly
      <3>2. CASE step[i] = "addRead"
        <4>1. rules[own] = Rules1 /\ NextStep(i) = "addDispose"
            BY <1>1, <1>5, <3>2 DEF Orderly, NextStep
        <4>2. rules'[own] = Rules2
            BY <1>1, <1>2, <2>2, <3>2, <4>1, RuleSequences
        <4> QED
            BY <1>1, <1>3, <1>4, <1>5, <1>7, <4>1, <4>2, RuleSequences DEF Orderly
      <3>3. CASE step[i] = "addDispose"
        <4>1. rules[own] = Rules2 /\ NextStep(i) = "done"
            BY <1>1, <1>5, <3>3 DEF Orderly, NextStep
        <4>2. rules'[own] = Rules3
            BY <1>1, <1>2, <2>2, <3>3, <4>1, RuleSequences
        <4> QED
            BY <1>1, <1>3, <1>4, <1>5, <1>7, <4>1, <4>2, RuleSequences DEF Orderly
      <3> QED
          BY <1>7, <3>1, <3>2, <3>3
    <2>4. ASSUME NEW m \in Measurer, m # own
          PROVE  Orderly(m)'
      <3>1. At(m)' = At(m)
          BY <1>1, <1>2, <2>4, Installers DEF At, InstallerOf
      <3>2. rules'[m] = rules[m]
          BY <1>1, <1>2, <2>2, <2>4
      <3> QED
          BY <1>4, <1>7, <2>4, <3>1, <3>2 DEF Orderly, LInv
    <2> QED
        BY <2>1, <2>3, <2>4
  <1> QED
      BY <1>6, <1>7

\* The invariant for measurers that are to start at once, without IInv.
Orderliness == Born /\ (startPredicate = None => \A m \in Measurer : Orderly(m))

\* What a step may do, if measurers are to start at once.
Kept == startPredicate = None => LifeCyclesKept

\* The steps of an installation, in the invariant's terms.
LEMMA PrepareOrderly ==
  ASSUME LInv, NEW i \in Installer, Prepare(i) \/ (i \in Thread /\ ExecuteDirect(i))
  PROVE  Orderliness' /\ Kept
  <1>1. /\ Working(i) /\ Proceed(i) /\ UNCHANGED <<startPredicate, kernel, threads, found, copied>>
      BY DEF Prepare, Clone, AddStartRule, AddRule, ExecuteDirect, Working
  <1>2. Born'
      BY <1>1 DEF LInv, Born, threads
  <1>3. ASSUME startPredicate = None
        PROVE  (\A m \in Measurer : Orderly(m)') /\ LifeCyclesKept
    <2>1. step[i] # "addStart"
      <3>1. target[i] \in Measurer /\ (InstallerOf(target[i]) = i => At(target[i]) = step[i])
          BY <1>1, Target DEF LInv, IInv, At
      <3>2. InstallerOf(target[i]) = i
        <4>1. CASE i = KernelThread
          <5>1. PICK t \in Thread : target[i] = <<t, "existing">>
              BY <1>1, <4>1, Target DEF LInv, IInv
          <5> QED
              BY <4>1, <5>1, Installers
        <4>2. CASE i # KernelThread
          <5>1. i \in Thread /\ target[i] = <<i, "started">>
              BY <1>1, <4>2, Target DEF LInv, IInv
          <5> QED
              BY <5>1, Installers
        <4> QED
            BY <4>1, <4>2
      <3> QED
          BY <1>3, <3>1, <3>2 DEF LInv, Orderly
    <2>2. \/ /\ step[i] \in {"clone", "initialize", "start"} /\ Call(target[i], step[i])
             /\ rules' = rules
          \/ /\ measurer' = measurer
             /\ step[i] \in {"addStop", "addRead", "addDispose"}
             /\ rules' = [rules EXCEPT ![target[i]] =
                            Append(@, IF step[i] = "addStop" THEN "stop"
                                      ELSE IF step[i] = "addRead" THEN "read" ELSE "dispose")]
        BY <2>1 DEF Prepare, Clone, AddStartRule, AddRule, ExecuteDirect
    <2> QED
        BY <1>1, <1>3, <2>2, ProceedOrderly
  <1> QED
      BY <1>1, <1>2, <1>3 DEF Orderliness, Kept

\* Executing a queued action.
LEMMA ProcessActionsOrderly ==
  ASSUME LInv, NEW t \in Thread, ProcessActions(t)
  PROVE  Orderliness' /\ Kept
  <1>1. /\ queued \in Measurer /\ queued # None /\ pc' = pc
        /\ UNCHANGED <<startPredicate, kernel, threads, createRule, rules, found>>
      BY NoneAssumption, Threads DEF ProcessActions, Goto, LInv, IInv, TypeOK, threads
  <1>2. Born'
      BY <1>1 DEF LInv, Born, threads
  <1>3. ASSUME startPredicate = None, kernel = "stop"
        PROVE  (\A m \in Measurer : Orderly(m)') /\ LifeCyclesKept
    <2>1. PICK own \in Measurer : own = queued
        BY <1>1
    <2>2. /\ Call(own, Head(copied[own])) /\ copied' = [copied EXCEPT ![own] = Tail(@)]
          /\ UNCHANGED <<target, step>> /\ copied[own] # <<>>
        BY <1>1, <1>3, <2>1 DEF ProcessActions, LInv, IInv, Phases
    <2>3. Orderly(own)
        BY <1>3 DEF LInv
    <2>4. /\ copied[own] \in {Rules1, Rules2, Rules3, Rest1, Rest2, Rest3} /\ rules[own] # <<>>
          /\ measurer[own].state = Before[Head(copied[own])]
        BY <1>3, <2>2, <2>3 DEF Orderly
    <2>5. Head(copied[own]) \in {"stop", "read", "dispose"}
        BY <2>4, RuleSequences
    <2>6. LifeCyclesKept
        BY <2>2, <2>4, <2>5, CallKeeps DEF LInv, IInv, After
    <2>7. measurer'[own].state = After[Head(copied[own])]
          /\ \A m \in Measurer : m # own => measurer'[m] = measurer[m] /\ copied'[m] = copied[m]
        BY <2>2 DEF Call, LInv, IInv, TypeOK
    <2>8. copied'[own] = Tail(copied[own])
        BY <2>2 DEF LInv, IInv, TypeOK
    <2>9. \A m \in Measurer : At(m)' = At(m) /\ Untouched(m)' = Untouched(m)
        BY <1>1, <2>2 DEF At, InstallerOf, Untouched, threads
    <2>10. Orderly(own)'
      <3>1. copied'[own] # <<>> => /\ copied'[own] \in {Rest1, Rest2, Rest3}
                                   /\ Before[Head(copied'[own])] = After[Head(copied[own])]
        <4>1. Before["read"] = After["stop"] /\ Before["dispose"] = After["read"]
            BY DEF Before, After
        <4>2. CASE copied[own] \in {Rules1, Rest1, Rest3}
            BY <2>8, <4>2, RuleSequences
        <4>3. CASE copied[own] \in {Rules2, Rules3}
            BY <2>8, <4>1, <4>3, RuleSequences
        <4>4. CASE copied[own] = Rest2
            BY <2>8, <4>1, <4>4, RuleSequences
        <4> QED
            BY <2>4, <4>2, <4>3, <4>4
      <3> QED
          BY <1>1, <1>3, <2>3, <2>4, <2>7, <2>9, <3>1 DEF Orderly
    <2>11. ASSUME NEW m \in Measurer, m # own
           PROVE  Orderly(m)'
      <3>1. Orderly(m)
          BY <1>3 DEF LInv
      <3> QED
          BY <1>1, <2>7, <2>9, <2>11, <3>1 DEF Orderly
    <2> QED
        BY <2>6, <2>10, <2>11
  <1>4. ASSUME startPredicate = None, kernel # "stop"
        PROVE  (\A m \in Measurer : Orderly(m)') /\ LifeCyclesKept
    <2>1. /\ queued = target[KernelThread] /\ step[KernelThread] \in {"initialize", "start"}
        BY <1>1, <1>4 DEF LInv, IInv, Phases
    <2>2. Call(queued, step[KernelThread]) /\ Proceed(KernelThread) /\ UNCHANGED copied
        BY <1>4 DEF ProcessActions
    <2> QED
        BY <1>1, <1>4, <2>1, <2>2, ProceedOrderly, Threads DEF Working
  <1> QED
      BY <1>1, <1>2, <1>3, <1>4 DEF Orderliness, Kept

\* Queueing one.
LEMMA StartExecuteOrderly ==
  ASSUME LInv, NEW m \in Measurer, StartExecute(m)
  PROVE  Orderliness' /\ Kept
  <1>1. /\ UNCHANGED <<startPredicate, threads, rules, found, target, step, copied, measurer>>
        /\ kernel' \in {kernel, "aborted"}
      BY DEF StartExecute
  <1>2. \A x \in Measurer : At(x)' = At(x) /\ (Untouched(x)' => Untouched(x))
      BY <1>1 DEF At, InstallerOf, Untouched, threads
  <1>3. startPredicate = None => \A x \in Measurer : Orderly(x)'
      BY <1>1, <1>2 DEF Orderly, LInv
  <1> QED
      BY <1>1, <1>3 DEF Orderliness, Kept, LifeCyclesKept, Born, LInv, threads

\* The steps of the thread of the kernel that concern no measurer.
LEMMA KernelOrderly ==
  ASSUME LInv,
         \/ GetChildThreadsAndAddRule \/ (\E t \in Thread : Install(t) \/ SkipWorkload(t))
         \/ StartKernel \/ StopKernel \/ EndDispatch
  PROVE  Orderliness' /\ Kept
  <1>1. UNCHANGED <<startPredicate, threads, rules, measurer>>
      BY DEF GetChildThreadsAndAddRule, Install, SkipWorkload, StartKernel, StopKernel, EndDispatch, threads
  <1>2. Kept
      BY <1>1 DEF Kept, LifeCyclesKept
  <1>3. Born'
      BY <1>1 DEF GetChildThreadsAndAddRule, Install, SkipWorkload, StartKernel, StopKernel, EndDispatch,
         threads, Born, LInv
  <1>4. ASSUME startPredicate = None, NEW m \in Measurer
        PROVE  Orderly(m)'
    <2>1. Orderly(m)
        BY <1>4 DEF LInv
    <2>2. CASE GetChildThreadsAndAddRule
      <3>1. At(m)' = At(m) /\ (Untouched(m)' => Untouched(m))
          BY <1>1, <2>2, Threads DEF GetChildThreadsAndAddRule, At, InstallerOf, Untouched, threads
      <3> QED
          BY <1>1, <2>1, <2>2, <3>1 DEF GetChildThreadsAndAddRule, Orderly
    <2>3. ASSUME NEW t \in Thread, Install(t)
          PROVE  Orderly(m)'
      <3>1. Untouched(m)' => Untouched(m)
          BY <1>1, <2>3 DEF Install, Untouched, threads
      <3>2. CASE kernel' = "aborted"
        <4>1. At(m)' = At(m)
            BY <2>3, <3>2 DEF Install, At, InstallerOf
        <4> QED
            BY <1>1, <2>1, <2>3, <3>1, <3>2, <4>1 DEF Install, Orderly
      <3>3. CASE m = <<t, "existing">> /\ kernel' # "aborted"
        <4>1. Untouched(m) /\ ~ Untouched(m)'
            BY <1>1, <2>3, <3>3 DEF Install, Untouched, On, Born, LInv, threads
        <4>2. At(m)' = "clone"
            BY <2>3, <3>3, Threads, Installers DEF Install, At, InstallerOf, LInv, IInv, TypeOK
        <4> QED
            BY <1>1, <2>1, <2>3, <4>1, <4>2 DEF Install, Orderly, Before
      <3>4. CASE m # <<t, "existing">> /\ kernel' # "aborted"
        <4>1. At(m)' = At(m)
            BY <2>3, <3>4, Threads, Installers DEF Install, At, InstallerOf, LInv, IInv, TypeOK
        <4> QED
            BY <1>1, <2>1, <2>3, <3>1, <4>1 DEF Install, Orderly
      <3> QED
          BY <3>2, <3>3, <3>4
    <2>4. ASSUME NEW t \in Thread, SkipWorkload(t)
          PROVE  Orderly(m)'
      <3>1. At(m)' = At(m) /\ (Untouched(m)' => Untouched(m))
          BY <1>1, <2>4 DEF SkipWorkload, At, InstallerOf, Untouched, threads
      <3> QED
          BY <1>1, <2>1, <2>4, <3>1 DEF SkipWorkload, Orderly
    <2>5. CASE StartKernel
      <3>1. At(m)' = At(m) /\ (Untouched(m)' => Untouched(m))
          BY <1>1, <2>5 DEF StartKernel, At, InstallerOf, Untouched, threads
      <3> QED
          BY <1>1, <2>1, <2>5, <3>1 DEF StartKernel, Orderly
    <2>6. CASE StopKernel
      <3>1. At(m)' = At(m) /\ (Untouched(m)' => Untouched(m))
          BY <1>1, <2>6 DEF StopKernel, At, InstallerOf, Untouched, threads
      <3>2. rules[m] # <<>> => measurer[m].state = Before[Head(rules[m])]
        <4>1. Before["stop"] = "started"
            BY DEF Before
        <4> QED
            BY <2>1, <2>6, <4>1, RuleSequences DEF StopKernel, Orderly
      <3> QED
          BY <1>1, <2>1, <2>6, <3>1, <3>2 DEF StopKernel, Orderly
    <2>7. CASE EndDispatch
      <3>1. At(m)' = At(m) /\ (Untouched(m)' => Untouched(m))
          BY <1>1, <2>7 DEF EndDispatch, At, InstallerOf, Untouched, threads
      <3> QED
          BY <1>1, <2>1, <2>7, <3>1 DEF EndDispatch, Orderly
    <2> QED
        BY <2>2, <2>3, <2>4, <2>5, <2>6, <2>7
  <1> QED
      BY <1>1, <1>2, <1>3, <1>4 DEF Orderliness

\* Those of the other threads.
LEMMA ThreadOrderly ==
  ASSUME LInv, NEW t \in Thread,
         Register(t) \/ DispatchStarted(t) \/ ReturnToProgram(t) \/ Attach(t) \/ Exit(t) \/ Forget(t)
  PROVE  Orderliness' /\ Kept
  <1>1. UNCHANGED <<startPredicate, kernel, rules, copied, measurer>>
      BY DEF Register, DispatchStarted, ReturnToProgram, Attach, Exit, Forget
  <1>2. Kept
      BY <1>1 DEF Kept, LifeCyclesKept
  <1>3. Born'
      BY DEF Register, DispatchStarted, ReturnToProgram, Attach, Exit, Forget, Goto, Born, LInv, IInv, TypeOK
  <1>4. ASSUME startPredicate = None, NEW m \in Measurer
        PROVE  Orderly(m)'
    <2>1. Orderly(m)
        BY <1>4 DEF LInv
    <2>2. On(m) \in Thread /\ m[2] \in By
        BY DEF Measurer, On
    <2>3. CASE ~ DispatchStarted(t) \/ ~ createRule
      <3>1. At(m)' = At(m)
          BY <2>3 DEF Register, DispatchStarted, ReturnToProgram, Attach, Exit, Forget, At, InstallerOf
      <3>2. Untouched(m)' => Untouched(m)
          BY <1>1, <2>2, <2>3 DEF Register, DispatchStarted, ReturnToProgram, Attach, Exit, Forget, Goto,
             Untouched, LInv, IInv, TypeOK
      <3> QED
          BY <1>1, <2>1, <3>1, <3>2 DEF Orderly
    <2>4. CASE DispatchStarted(t) /\ createRule
      <3>1. /\ target' = [target EXCEPT ![t] = <<t, "started">>] /\ step' = [step EXCEPT ![t] = "clone"]
            /\ pc[t] = "registered" /\ pc' = [pc EXCEPT ![t] = "handler"] /\ UNCHANGED found
            /\ step[t] = "done" /\ t \in Installer
          BY <2>4, Threads DEF DispatchStarted, Goto, LInv, IInv, Phases, Working
      <3>2. Untouched(m)' => Untouched(m)
          BY <1>1, <2>2, <3>1 DEF Untouched, LInv, IInv, TypeOK
      <3>3. CASE m = <<t, "started">>
        <4>1. Untouched(m) /\ ~ Untouched(m)'
            BY <3>1, <3>3 DEF Untouched, On, LInv, IInv, TypeOK
        <4>2. At(m)' = "clone"
            BY <3>1, <3>3, Installers DEF At, InstallerOf, LInv, IInv, TypeOK
        <4> QED
            BY <1>1, <2>1, <4>1, <4>2 DEF Orderly, Before
      <3>4. CASE m # <<t, "started">>
        <4>1. At(m)' = At(m)
            BY <3>1, <3>4, Threads, Installers DEF At, InstallerOf, LInv, IInv, TypeOK
        <4> QED
            BY <1>1, <2>1, <3>2, <4>1 DEF Orderly
      <3> QED
          BY <3>3, <3>4
    <2> QED
        BY <2>3, <2>4
  <1> QED
      BY <1>1, <1>2, <1>3, <1>4 DEF Orderliness

\* Every step keeps the invariant and the life cycles.
LEMMA NextOrderly == LInv /\ [Next]_vars => LInv' /\ Kept
  <1> SUFFICES ASSUME LInv, [Next]_vars PROVE Orderliness' /\ Kept
      BY NextInv DEF LInv, Orderliness
  <1>1. CASE KernelStep
      BY <1>1, KernelOrderly, PrepareOrderly, StartExecuteOrderly, Threads DEF KernelStep
  <1>2. ASSUME NEW t \in Thread, Register(t) \/ Handler(t) \/ Attach(t) \/ Exit(t) \/ Forget(t)
        PROVE  Orderliness' /\ Kept
      BY <1>2, ThreadOrderly, PrepareOrderly, ProcessActionsOrderly, Threads DEF Handler
  <1>3. CASE UNCHANGED vars
    <2>1. \A m \in Measurer : Orderly(m)' = Orderly(m)
        BY <1>3 DEF Orderly, At, InstallerOf, Untouched, vars, threads
    <2> QED
        BY <1>3, <2>1 DEF LInv, Orderliness, Born, Kept, LifeCyclesKept, vars, threads
  <1> QED
      BY <1>1, <1>2, <1>3 DEF Next

\* A measurer that is to start at once is initialized, started, stopped, read and
\* disposed in turn, once each, by whatever threads that happens.
THEOREM LifeCyclesAreKept == Spec => KeepsLifeCycles
  <1>1. Init => LInv
    <2> SUFFICES ASSUME Init PROVE LInv
        OBVIOUS
    <2>1. Born
        BY DEF Init, Born
    <2>2. \A m \in Measurer : At(m) = "done" /\ measurer[m].state = "disposed" /\ rules[m] = <<>>
        BY Installers, NoneAssumption DEF Init, At
    <2>3. \A m \in Measurer : Orderly(m)
        BY <2>2 DEF Orderly, Init
    <2> QED
        BY <2>1, <2>3, InitInv DEF LInv
  <1>2. LInv /\ [Next]_vars =>
          [startPredicate = None =>
             \A m \in Measurer : [LifeCycle(m)!Next]_<<measurer[m].state, measurer[m].odd>>]_measurer
      BY NextOrderly DEF Kept, LifeCyclesKept
  <1> QED
      BY <1>1, <1>2, NextOrderly, PTL DEF Spec, KeepsLifeCycles
============================================================================
