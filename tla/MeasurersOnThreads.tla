------------------------- MODULE MeasurersOnThreads -------------------------
(***************************************************************************)
(* CreateMeasurerOnThreadAction measures a kernel that runs in several     *)
(* threads. A rule executes it when the kernel of a workload starts: in    *)
(* the thread of the workload it installs a measurer on every thread there *)
(* is, and adds a rule by which every thread that starts later installs    *)
(* one on itself. The rules added with a measurer stop, read and dispose   *)
(* it when the kernel stops. Meanwhile threads start and end. How an       *)
(* action comes to be executed in another thread is the subject of         *)
(* ActionExecution; here it is queued and, once the thread is in no        *)
(* handler, executed.                                                      *)
(***************************************************************************)
EXTENDS Naturals, Sequences

CONSTANTS
  Thread,     \* the threads of the child, except the one that runs the kernel
  OtherWorkload,   \* those of them that run another workload
  KernelThread, None

ASSUME ThreadAssumption == OtherWorkload \subseteq Thread /\ KernelThread \notin Thread
By == {"existing", "started"}                   \* by the action, or when the thread started
Measurer == Thread \X By
On(m) == m[1]                                   \* the thread it measures

ASSUME NoneAssumption == None \notin Measurer

Installer == Thread \cup {KernelThread}
Action == {"stop", "read", "dispose"}   \* what KernelStop causes

VARIABLES
  startPredicate,   \* None, or an event: the one that causes the installation
  pc,               \* where each thread is
  kernel,           \* where the thread of the kernel is
  threadMap,        \* ChildThread::threadMap, which KernelThread is always in
  attached,         \* the workloads that know their thread
  createRule,       \* whether the rule for threads that start was added
  rules,            \* the rules for KernelStop added with each measurer, in order; how those
                    \* of different measurers are ordered is left open
  found,            \* the threads the action has still to install a measurer on
  target, step,     \* the measurer an installer works on, and what it does next
  copied,           \* those of them still to be executed
  queued,           \* the measurer an action is queued for, which KernelThread waits for
  measurer          \* the state of each measurer, and the parity of its calls

threads == <<pc, threadMap, attached>>
vars == <<startPredicate, threads, kernel, createRule, rules, found, target, step, copied, queued,
          measurer>>

Init ==
  /\ startPredicate \in {None, "KernelStart"}
  /\ pc = [t \in Thread |-> "unborn"]
  /\ kernel = "warm" /\ threadMap = {} /\ attached = {}
  /\ createRule = FALSE /\ rules = [m \in Measurer |-> <<>>] /\ found = {}
  /\ copied = [m \in Measurer |-> <<>>] /\ queued = None
  /\ target = [i \in Installer |-> None] /\ step = [i \in Installer |-> "done"]
  /\ measurer = [m \in Measurer |-> [state |-> "disposed", odd |-> FALSE]]

Running == kernel # "aborted"
Goto(t, from, to) == Running /\ pc[t] = from /\ pc' = [pc EXCEPT ![t] = to]

----------------------------------------------------------------------------
(* What an installer does, and which part of it in the measured thread.    *)

After == [clone |-> "new", initialize |-> "ready", start |-> "started", stop |-> "stopped",
          read |-> "read", dispose |-> "disposed"]

\* Mutant: the rule that disposes the measurer comes before the one that reads it.
NextStepSwapped(i) ==
  CASE step[i] = "clone" -> "initialize"
    [] step[i] = "initialize" -> IF startPredicate = None THEN "start" ELSE "addStart"
    [] step[i] = "addStart" -> IF i = KernelThread THEN "start" ELSE "addStop"
    [] step[i] = "start" -> "addStop"
    [] step[i] = "addStop" -> "addDispose"
    [] step[i] = "addDispose" -> "addRead"
    [] OTHER -> "done"

\* With a start predicate the measurer is started only if the current event
\* matches it: KernelStart does, the Started event of a thread does not.
NextStep(i) ==
  CASE step[i] = "clone" -> "initialize"
    [] step[i] = "initialize" -> IF startPredicate = None THEN "start" ELSE "addStart"
    [] step[i] = "addStart" -> IF i = KernelThread THEN "start" ELSE "addStop"
    [] step[i] = "start" -> "addStop"
    [] step[i] = "addStop" -> "addRead"
    [] step[i] = "addRead" -> "addDispose"
    [] OTHER -> "done"

Proceed(i) == step' = [step EXCEPT ![i] = NextStep(i)] /\ UNCHANGED target
Call(m, do) == measurer' = [measurer EXCEPT ![m] = [state |-> After[do], odd |-> ~ @.odd]]

\* The measurer set is cloned by the installer.
Clone(i) ==
  /\ Running /\ step[i] = "clone"
  /\ Call(target[i], "clone") /\ Proceed(i)
  /\ UNCHANGED <<startPredicate, threads, kernel, createRule, rules, found, copied, queued>>

\* Locator::addRule().
AddRule(i, from, do) ==
  /\ Running /\ step[i] = from
  /\ rules' = [rules EXCEPT ![target[i]] = Append(@, do)] /\ Proceed(i)
  /\ UNCHANGED <<startPredicate, threads, kernel, createRule, found, copied, queued, measurer>>

\* The KernelStart this rule is for was dispatched to a copy of the rules without
\* it, and there will be no other one.
AddStartRule(i) ==
  /\ Running /\ step[i] = "addStart" /\ Proceed(i)
  /\ UNCHANGED <<startPredicate, threads, kernel, createRule, rules, found, copied, queued,
                 measurer>>

Prepare(i) ==
  \/ Clone(i) \/ AddStartRule(i) \/ AddRule(i, "addStop", "stop")
  \/ AddRule(i, "addRead", "read") \/ AddRule(i, "addDispose", "dispose")

\* A thread that installs its own measurer need not switch threads.
ExecuteDirect(t) ==
  /\ Running /\ step[t] \in {"initialize", "start"}
  /\ Call(target[t], step[t]) /\ Proceed(t)
  /\ UNCHANGED <<startPredicate, threads, kernel, createRule, rules, found, copied, queued>>

\* ActionBase::startExecute(), for a step of the installation or the action of a
\* rule: getChildThread() throws for a thread that is not in the map, and the
\* process exits.
StartExecute(m) ==
  /\ Running /\ queued = None
  /\ IF kernel = "stop" THEN copied[m] # <<>>
     ELSE /\ m = target[KernelThread]
          /\ step[KernelThread] \in {"initialize", "start"}
  /\ IF On(m) \in threadMap THEN queued' = m /\ UNCHANGED kernel
     ELSE kernel' = "aborted" /\ UNCHANGED queued
  /\ UNCHANGED <<startPredicate, threads, createRule, rules, found, target, step, copied, measurer>>

\* The thread executes the action, and KernelThread goes on.
ProcessActions(t) ==
  /\ Goto(t, "run", "run") /\ queued \in {t} \X By
  /\ IF kernel = "stop"
     THEN Call(queued, Head(copied[queued])) /\ copied' = [copied EXCEPT ![queued] = Tail(@)]
          /\ UNCHANGED <<target, step>>
     ELSE Call(queued, step[KernelThread]) /\ Proceed(KernelThread) /\ UNCHANGED copied
  /\ queued' = None
  /\ UNCHANGED <<startPredicate, kernel, threadMap, attached, createRule, rules, found>>

----------------------------------------------------------------------------
(* The thread of the kernel.                                               *)

\* Mutant: the rule is not added.
CollectThreads ==
  /\ kernel = "warm" /\ kernel' = "install"
  /\ found' = threadMap
  /\ UNCHANGED <<startPredicate, threads, createRule, rules, target, step, copied, queued,
                 measurer>>

\* KernelStart: getChildThreadsAndAddRule().
GetChildThreadsAndAddRule ==
  /\ kernel = "warm" /\ kernel' = "install"
  /\ found' = threadMap /\ createRule' = TRUE
  /\ UNCHANGED <<startPredicate, pc, threadMap, attached, rules, target, step, copied, queued,
                 measurer>>

\* The thread is no workload's: its measurer is installed. The ChildThread of one
\* that was removed from the map meanwhile is gone: reading its pid may kill the
\* process, or give an id that is in no map, which the installation stops at.
Install(t) ==
  /\ kernel = "install" /\ step[KernelThread] = "done" /\ t \in found \ attached
  /\ found' = found \ {t}
  /\ \/ /\ target' = [target EXCEPT ![KernelThread] = <<t, "existing">>]
        /\ step' = [step EXCEPT ![KernelThread] = "clone"]
        /\ UNCHANGED kernel
     \/ t \notin threadMap /\ kernel' = "aborted" /\ UNCHANGED <<target, step>>
  /\ UNCHANGED <<startPredicate, threads, createRule, rules, copied, queued, measurer>>

SkipWorkload(t) ==
  /\ kernel = "install" /\ step[KernelThread] = "done" /\ t \in found \cap attached
  /\ found' = found \ {t}
  /\ UNCHANGED <<startPredicate, threads, kernel, createRule, rules, target, step, copied, queued,
                 measurer>>

StartKernel ==
  /\ kernel = "install" /\ step[KernelThread] = "done" /\ found = {}
  /\ kernel' = "running"
  /\ UNCHANGED <<startPredicate, threads, createRule, rules, found, target, step, copied, queued,
                 measurer>>

\* Mutant: the rules are those there were when the kernel started.
StopKernelOldRules ==
  /\ kernel = "running" /\ kernel' = "stop"
  /\ copied' = [m \in Measurer |-> <<>>]
  /\ UNCHANGED <<startPredicate, threads, createRule, rules, found, target, step, queued, measurer>>

\* KernelStop is dispatched to a copy of the rules.
StopKernel ==
  /\ kernel = "running" /\ kernel' = "stop"
  /\ copied' = rules
  /\ UNCHANGED <<startPredicate, threads, createRule, rules, found, target, step, queued, measurer>>

EndDispatch ==
  /\ kernel = "stop" /\ queued = None /\ \A m \in Measurer : copied[m] = <<>>
  /\ kernel' = "stopped"
  /\ UNCHANGED <<startPredicate, threads, createRule, rules, found, target, step, copied, queued,
                 measurer>>

KernelStep ==
  \/ Prepare(KernelThread) \/ \E m \in Measurer : StartExecute(m)
  \/ GetChildThreadsAndAddRule \/ (\E t \in Thread : Install(t) \/ SkipWorkload(t))
  \/ StartKernel \/ StopKernel \/ EndDispatch

----------------------------------------------------------------------------
(* The other threads.                                                      *)

\* ThreadStarted: the thread is registered. Its object may lie where a deleted
\* one was, which the action still points to.
Register(t) ==
  /\ Goto(t, "unborn", "registered")
  /\ threadMap' = threadMap \cup {t}
  /\ \/ UNCHANGED found
     \/ \E gone \in found \ threadMap : found' = (found \ {gone}) \cup {t}
  /\ UNCHANGED <<startPredicate, kernel, attached, createRule, rules, target, step, copied, queued,
                 measurer>>

\* Started is dispatched to a copy of the rules.
DispatchStarted(t) ==
  /\ Goto(t, "registered", "handler")
  /\ IF createRule THEN /\ target' = [target EXCEPT ![t] = <<t, "started">>]
                        /\ step' = [step EXCEPT ![t] = "clone"]
     ELSE UNCHANGED <<target, step>>
  /\ UNCHANGED <<startPredicate, kernel, threadMap, attached, createRule, rules, found, copied,
                 queued, measurer>>

\* ProcessingDone.
ReturnToProgram(t) ==
  /\ step[t] = "done" /\ Goto(t, "handler", "run")
  /\ UNCHANGED <<startPredicate, kernel, threadMap, attached, createRule, rules, found, target,
                 step, copied, queued, measurer>>

\* Workload::startInThread().
Attach(t) ==
  /\ t \in OtherWorkload \ attached /\ Goto(t, "run", "run")
  /\ attached' = attached \cup {t}
  /\ UNCHANGED <<startPredicate, kernel, threadMap, createRule, rules, found, target, step, copied,
                 queued, measurer>>

\* ThreadExiting: no rule matches.
Exit(t) ==
  /\ Goto(t, "run", "exited")
  /\ UNCHANGED <<startPredicate, kernel, threadMap, attached, createRule, rules, found, target,
                 step, copied, queued, measurer>>

\* ThreadExited, handled by any thread.
Forget(t) ==
  /\ Running /\ pc[t] = "exited" /\ t \in threadMap
  /\ threadMap' = threadMap \ {t}
  /\ UNCHANGED <<startPredicate, pc, kernel, attached, createRule, rules, found, target, step,
                 copied, queued, measurer>>

Handler(t) ==
  \/ DispatchStarted(t) \/ Prepare(t) \/ ExecuteDirect(t) \/ ReturnToProgram(t)
  \/ ProcessActions(t)

Next ==
  \/ KernelStep
  \/ \E t \in Thread : Register(t) \/ Handler(t) \/ Attach(t) \/ Exit(t) \/ Forget(t)

Spec == Init /\ [][Next]_vars

\* Handlers come to their end if they can, and the kernel returns.
FairSpec == Spec /\ WF_vars(KernelStep) /\ \A t \in Thread : WF_vars(Handler(t))

----------------------------------------------------------------------------
(* Properties.                                                             *)

Step == {"clone", "initialize", "start", "addStart", "addStop", "addRead", "addDispose", "done"}

TypeOK ==
  /\ startPredicate \in {None, "KernelStart"}
  /\ pc \in [Thread -> {"unborn", "registered", "handler", "run", "exited"}]
  /\ kernel \in {"warm", "install", "running", "stop", "stopped", "aborted"}
  /\ threadMap \subseteq Thread /\ attached \subseteq OtherWorkload
  /\ createRule \in BOOLEAN /\ rules \in [Measurer -> Seq(Action)] /\ found \subseteq Thread
  /\ target \in [Installer -> Measurer \cup {None}] /\ step \in [Installer -> Step]
  /\ copied \in [Measurer -> Seq(Action)] /\ queued \in Measurer \cup {None}
  /\ measurer \in [Measurer -> [state : {"new", "ready", "started", "stopped", "read", "disposed"},
                                odd : BOOLEAN]]

\* While the kernel runs, every thread that runs with it and is no workload's has
\* a measurer, and one that is started unless a predicate says when; it does not
\* matter when the thread started and what the installation was doing then.
MeasuredBy(t, by) ==
  \/ measurer[<<t, by>>].state = "started"
  \/ startPredicate # None /\ measurer[<<t, by>>].state = "ready"
Measured(t) == \E by \in By : MeasuredBy(t, by)
NoneMissed ==
  kernel = "running" => \A t \in Thread \ attached : pc[t] = "run" => Measured(t)

\* A measurer that is to start at once is used the way it is meant to be used,
\* whichever threads install and stop it.
LifeCycle(m) == INSTANCE MeasurerLifeCycle WITH state <- measurer[m].state, odd <- measurer[m].odd
KeepsLifeCycles ==
  [][startPredicate = None =>
       \A m \in Measurer : [LifeCycle(m)!Next]_<<measurer[m].state, measurer[m].odd>>]_measurer

\* The counters that are completely installed when the kernel stops are closed,
\* unless a thread ends.
CountersClosed ==
  \A m \in Measurer :
    kernel = "running" /\ "dispose" \in {rules[m][i] : i \in DOMAIN rules[m]}
      ~> \/ measurer[m].state = "disposed" \/ kernel = "aborted"
         \/ \E t \in Thread : pc[t] = "exited"

\* No thread is measured twice: its events would be counted twice.
OneMeasurer == \A t \in Thread : \E by \in By : measurer[<<t, by>>].state # "started"
============================================================================
