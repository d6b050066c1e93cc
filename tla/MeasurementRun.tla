--------------------------- MODULE MeasurementRun ---------------------------
(***************************************************************************)
(* ChildProcess::innerMain() performs the runs of a measurement: the main  *)
(* thread clones the measurement, starts one thread for each workload and  *)
(* joins them (Workload::startInThread). Every thread dispatches events;   *)
(* the rules that match are executed in the thread that dispatches, since  *)
(* none of them names a thread (ActionExecution models those that do).     *)
(***************************************************************************)
EXTENDS Naturals, Sequences, FiniteSets, FiniteSetsExt

CONSTANTS
  Workload,
  None,
  Measurements,   \* the rules of a measurement, and the workloads whose kernel runs until it is
                  \* stopped: a DiskIoKernel, which reads keepRunning again after each read()
  RunCount,       \* MeasurementCommand::runCount
  MayFail         \* whether a thread may throw an exception

Main == "mainThread"
Thread == Workload \cup {Main}
Set == {"mainMeasurer", "additional", "validation"}
Overall == <<Main, "overall">>
Measurer == (Workload \X Set) \cup {Overall}

Event == {"RunStart", "RunStop", "Start", "KernelStart", "KernelStop", "Stop"}
Rule == [event : Event,
         of : Workload \cup {None},
         action : {"stopKernel", "waitForWorkload", "waitForPressureBarrier"},
         target : Workload \cup {None}]

\* An event that is dispatched, the places threads go on from after one, and the rules to come.
Raised ==
  [event : Event,
   then : {"startOverall", "collect", "startValidation", "startAdditional", "stopValidation", "addOutput"},
   todo : SUBSET Nat]

ASSUME ThreadAssumption == Main \notin Workload /\ None \notin Workload /\ IsFiniteSet(Workload)
ASSUME NoneAssumption == None \notin {0, 1} /\ None \notin Raised
ASSUME MeasurementAssumption == Measurements \subseteq [rules : Seq(Rule), endless : SUBSET Workload]

\* The rules the driver writes: DistributionControllerBase lets kernels wait for
\* its barrier when they start; ExpTime1MeasurementController stops a load, which
\* runs until it is stopped, at the end of the workload that is measured.
ASSUME PressureAssumption ==
  \A x \in Measurements : \A i \in DOMAIN x.rules :
    x.rules[i].action = "waitForPressureBarrier" =>
      x.rules[i].event = "KernelStart" /\ x.rules[i].of \in Workload
ASSUME LoadAssumption ==
  \A x \in Measurements : \A i, j \in DOMAIN x.rules :
    x.rules[i].action = "stopKernel" /\ x.rules[i].event = "Stop" =>
      /\ x.rules[i].of \in Workload /\ x.rules[i].target \in x.endless
      /\ x.rules[j].action = "stopKernel" /\ x.rules[j].target = x.rules[i].target =>
           x.rules[j].event = "Stop" /\ x.rules[j].of = x.rules[i].of

ASSUME BoundAssumption == RunCount \in Nat /\ MayFail \in BOOLEAN

VARIABLES
  measurement,     \* what is measured
  pc,              \* where each thread is
  raised,          \* the event a thread dispatches, the rules to come, and where it goes on
  measurer,        \* the state of a measurer, whether it was called an odd number of times,
                   \* and what it has seen since it was started
  kernel,          \* the state of the kernel of a workload
  keepRunning,     \* KernelBase::keepRunning
  opened,          \* the waitForWorkload rules whose barrier is open
  pressure, pressureOpen,   \* the PressureBarrier
  runOutput,       \* Locator::runOutput
  outputs,         \* outputCollection
  exitStatus

clones == <<measurer, kernel, keepRunning, opened, pressure, pressureOpen>>
vars == <<measurement, pc, raised, clones, runOutput, outputs, exitStatus>>

Rules == measurement.rules
PressureRules == {i \in DOMAIN Rules : Rules[i].action = "waitForPressureBarrier"}
Threshold == Cardinality(PressureRules)

Init ==
  /\ measurement \in Measurements
  /\ pc = [t \in Thread |-> IF t = Main THEN "nextRun" ELSE "exited"]
  /\ raised = [t \in Thread |-> None]
  /\ measurer = [x \in Measurer |-> [state |-> "disposed", odd |-> FALSE, seen |-> {}]]
  /\ kernel = [w \in Workload |-> "disposed"]
  /\ keepRunning = [w \in Workload |-> TRUE]
  /\ opened = {} /\ pressure = 0 /\ pressureOpen = FALSE
  /\ runOutput = <<>> /\ outputs = <<>>
  /\ exitStatus = None

At(t, l) == pc[t] = l /\ exitStatus = None
Goto(t, l) == pc' = [pc EXCEPT ![t] = l]

----------------------------------------------------------------------------
(* Measurers and kernels. A measurer sees what its thread does.            *)

Called(x, s) == [measurer[x] EXCEPT !.state = s, !.odd = ~ @]
Enter(X, s) == measurer' = [x \in Measurer |-> IF x \in X THEN Called(x, s) ELSE measurer[x]]
Afresh(X, s) ==
  measurer' = [x \in Measurer |-> IF x \in X THEN [Called(x, s) EXCEPT !.seen = {}] ELSE measurer[x]]
SeenBy(t, what) ==
  measurer' = [x \in Measurer |->
                 IF measurer[x].state = "started" /\ (x = Overall \/ x[1] = t)
                 THEN [measurer[x] EXCEPT !.seen = @ \cup {<<t, what>>}] ELSE measurer[x]]

MeasurerSet(w) == {w} \X Set
Seen(x) == measurer[x].seen

Start(w, from, set, to) ==
  /\ At(w, from) /\ Goto(w, to) /\ Afresh({<<w, set>>}, "started")
  /\ UNCHANGED <<measurement, raised, kernel, keepRunning, opened, pressure, pressureOpen,
                 runOutput, outputs, exitStatus>>

Stop(w, from, set, to) ==
  /\ At(w, from) /\ Goto(w, to) /\ Enter({<<w, set>>}, "stopped")
  /\ UNCHANGED <<measurement, raised, kernel, keepRunning, opened, pressure, pressureOpen,
                 runOutput, outputs, exitStatus>>

Kernel(w, from, state, what, to) ==
  /\ At(w, from) /\ Goto(w, to)
  /\ kernel' = [kernel EXCEPT ![w] = state]
  /\ SeenBy(w, what)
  /\ UNCHANGED <<measurement, raised, keepRunning, opened, pressure, pressureOpen,
                 runOutput, outputs, exitStatus>>

----------------------------------------------------------------------------
(* Locator::dispatchEvent() and the actions of the rules.                  *)

Matches(i, event, t) == Rules[i].event = event /\ Rules[i].of \in {None, t}

Raise(t, from, event, to) ==
  /\ At(t, from) /\ Goto(t, "rules")
  /\ raised' = [raised EXCEPT ![t] =
                  [event |-> event, then |-> to,
                   todo |-> {i \in DOMAIN Rules : Matches(i, event, t)}]]
  /\ UNCHANGED <<measurement, clones, runOutput, outputs, exitStatus>>

Current(t) == Min(raised[t].todo)
RuleAt(t, action) == /\ At(t, "rules") /\ raised[t].todo # {}
                     /\ Rules[Current(t)].action = action
RuleDone(t) == raised' = [raised EXCEPT ![t].todo = @ \ {Current(t)}]

StopKernel(t) ==
  /\ RuleAt(t, "stopKernel")
  /\ keepRunning' = [keepRunning EXCEPT ![Rules[Current(t)].target] = FALSE]
  /\ RuleDone(t) /\ SeenBy(t, "event")
  /\ UNCHANGED <<measurement, pc, kernel, opened, pressure, pressureOpen, runOutput, outputs, exitStatus>>

\* Barrier::waitIfClosed(); for its wakeups see ActionExecution.
WaitForWorkload(t) ==
  /\ RuleAt(t, "waitForWorkload") /\ Current(t) \in opened
  /\ RuleDone(t) /\ SeenBy(t, "event")
  /\ UNCHANGED <<measurement, pc, kernel, keepRunning, opened, pressure, pressureOpen,
                 runOutput, outputs, exitStatus>>

\* Mutant: the barrier waits for more pressure than there will be.
AddPressureAbove(t) ==
  /\ RuleAt(t, "waitForPressureBarrier")
  /\ pressure' = pressure + 1
  /\ Goto(t, IF ~ pressureOpen /\ pressure' > Threshold THEN "open" ELSE "spin")
  /\ SeenBy(t, "event")
  /\ UNCHANGED <<measurement, raised, kernel, keepRunning, opened, pressureOpen,
                 runOutput, outputs, exitStatus>>

\* Mutant: the last thread but one opens the barrier.
AddPressureBelow(t) ==
  /\ RuleAt(t, "waitForPressureBarrier")
  /\ pressure' = pressure + 1
  /\ Goto(t, IF ~ pressureOpen /\ pressure' + 1 >= Threshold THEN "open" ELSE "spin")
  /\ SeenBy(t, "event")
  /\ UNCHANGED <<measurement, raised, kernel, keepRunning, opened, pressureOpen,
                 runOutput, outputs, exitStatus>>

\* PressureBarrier::wait(), what it does while it holds the spin lock ...
AddPressure(t) ==
  /\ RuleAt(t, "waitForPressureBarrier")
  /\ pressure' = pressure + 1
  /\ Goto(t, IF ~ pressureOpen /\ pressure' >= Threshold THEN "open" ELSE "spin")
  /\ SeenBy(t, "event")
  /\ UNCHANGED <<measurement, raised, kernel, keepRunning, opened, pressureOpen,
                 runOutput, outputs, exitStatus>>

\* ... and after it released it.
OpenPressureBarrier(t) ==
  /\ At(t, "open") /\ Goto(t, "spin")
  /\ pressureOpen' = TRUE
  /\ UNCHANGED <<measurement, raised, measurer, kernel, keepRunning, opened, pressure,
                 runOutput, outputs, exitStatus>>

PassPressureBarrier(t) ==
  /\ At(t, "spin") /\ pressureOpen /\ Goto(t, "rules")
  /\ RuleDone(t)
  /\ UNCHANGED <<measurement, clones, runOutput, outputs, exitStatus>>

\* The rules are done: the listeners are called. The only ones are the
\* waitForWorkload actions, which listen for the KernelStop of their workload.
NotifyListeners(t) ==
  /\ At(t, "rules") /\ raised[t].todo = {}
  /\ opened' = opened \cup {i \in DOMAIN Rules : /\ Rules[i].action = "waitForWorkload"
                                                 /\ Rules[i].target = t
                                                 /\ raised[t].event = "KernelStop"}
  /\ Goto(t, raised[t].then)
  /\ raised' = [raised EXCEPT ![t] = None]
  /\ SeenBy(t, "event")
  /\ UNCHANGED <<measurement, kernel, keepRunning, pressure, pressureOpen,
                 runOutput, outputs, exitStatus>>

Dispatch(t) ==
  StopKernel(t) \/ WaitForWorkload(t) \/ AddPressure(t) \/ OpenPressureBarrier(t)
    \/ PassPressureBarrier(t) \/ NotifyListeners(t)

----------------------------------------------------------------------------
(* Workload::startInThread().                                              *)

Initialize(w) ==
  \/ Kernel(w, "initKernel", "ready", "init", "initMeasurers")
  \/ /\ At(w, "initMeasurers") /\ Goto(w, "raiseStart")
     /\ Enter(MeasurerSet(w), "ready")
     /\ UNCHANGED <<measurement, raised, kernel, keepRunning, opened, pressure, pressureOpen,
                    runOutput, outputs, exitStatus>>

\* Mutant: the additional measurers are not stopped after they were warmed up.
WarmUpUnstopped(w) ==
  \/ Start(w, "warmAdditional", "additional", "warmMain")
  \/ Start(w, "warmMain", "mainMeasurer", "stopWarmMain")
  \/ Stop(w, "stopWarmMain", "mainMeasurer", "warmCaches")
  \/ Kernel(w, "warmCaches", "ready", "warm", "raiseKernelStart")

WarmUp(w) ==
  \/ Start(w, "warmAdditional", "additional", "stopWarmAdditional")
  \/ Stop(w, "stopWarmAdditional", "additional", "warmMain")
  \/ Start(w, "warmMain", "mainMeasurer", "stopWarmMain")
  \/ Stop(w, "stopWarmMain", "mainMeasurer", "warmCaches")
  \/ Kernel(w, "warmCaches", "ready", "warm", "raiseKernelStart")

EndKernel(w) ==
  /\ w \in measurement.endless => ~ keepRunning[w]
  /\ Kernel(w, "running", "ran", "kernel", "stopMain")

Run(w) ==
  \/ Start(w, "startAdditional", "additional", "startMain")
  \/ Start(w, "startMain", "mainMeasurer", "runKernel")
  \/ Kernel(w, "runKernel", "running", "kernel", "running")
  \/ EndKernel(w)
  \/ Stop(w, "stopMain", "mainMeasurer", "stopAdditional")
  \/ Stop(w, "stopAdditional", "additional", "raiseKernelStop")

AddOutput(w) ==
  /\ At(w, "addOutput") /\ Goto(w, "disposeKernel")
  /\ Enter(MeasurerSet(w), "read")
  /\ runOutput' = Append(runOutput, [of |-> w, seen |-> [s \in Set |-> Seen(<<w, s>>)]])
  /\ UNCHANGED <<measurement, raised, kernel, keepRunning, opened, pressure, pressureOpen,
                 outputs, exitStatus>>

Dispose(w) ==
  \/ Kernel(w, "disposeKernel", "disposed", "dispose", "disposeMeasurers")
  \/ /\ At(w, "disposeMeasurers") /\ Goto(w, "exited")
     /\ Enter(MeasurerSet(w), "disposed")
     /\ UNCHANGED <<measurement, raised, kernel, keepRunning, opened, pressure, pressureOpen,
                    runOutput, outputs, exitStatus>>

StartInThread(w) ==
  \/ Initialize(w)
  \/ Raise(w, "raiseStart", "Start", "startValidation")
  \/ Start(w, "startValidation", "validation", "warmAdditional")
  \/ WarmUp(w)
  \/ Raise(w, "raiseKernelStart", "KernelStart", "startAdditional")
  \/ Run(w)
  \/ Raise(w, "raiseKernelStop", "KernelStop", "stopValidation")
  \/ Stop(w, "stopValidation", "validation", "raiseStop")
  \/ Raise(w, "raiseStop", "Stop", "addOutput")
  \/ AddOutput(w)
  \/ Dispose(w)

----------------------------------------------------------------------------
(* ChildProcess::innerMain().                                              *)

\* Mutant: the kernels are not cloned anew.
SetMeasurementSameKernels ==
  /\ At(Main, "nextRun") /\ Len(outputs) < RunCount
  /\ pc' = [t \in Thread |-> IF t = Main THEN "initialize" ELSE "unborn"]
  /\ Afresh(Measurer, "new")
  /\ kernel' = [w \in Workload |-> "new"]
  /\ opened' = {} /\ pressure' = 0 /\ pressureOpen' = FALSE
  /\ runOutput' = <<>>
  /\ UNCHANGED <<measurement, raised, keepRunning, outputs, exitStatus>>

\* Mutant: nor is the pressure barrier.
SetMeasurementSameBarrier ==
  /\ At(Main, "nextRun") /\ Len(outputs) < RunCount
  /\ pc' = [t \in Thread |-> IF t = Main THEN "initialize" ELSE "unborn"]
  /\ Afresh(Measurer, "new")
  /\ kernel' = [w \in Workload |-> "new"]
  /\ keepRunning' = [w \in Workload |-> TRUE]
  /\ opened' = {}
  /\ runOutput' = <<>>
  /\ UNCHANGED <<measurement, raised, pressure, pressureOpen, outputs, exitStatus>>

\* The measurement is cloned for each run, and put in the Locator, without listeners.
SetMeasurement ==
  /\ At(Main, "nextRun") /\ Len(outputs) < RunCount
  /\ pc' = [t \in Thread |-> IF t = Main THEN "initialize" ELSE "unborn"]
  /\ Afresh(Measurer, "new")
  /\ kernel' = [w \in Workload |-> "new"]
  /\ keepRunning' = [w \in Workload |-> TRUE]
  /\ opened' = {} /\ pressure' = 0 /\ pressureOpen' = FALSE
  /\ runOutput' = <<>>
  /\ UNCHANGED <<measurement, raised, outputs, exitStatus>>

\* The overall measurers and the rules, which create their barriers.
InitializeRun ==
  /\ At(Main, "initialize") /\ Goto(Main, "raiseRunStart")
  /\ Enter({Overall}, "ready")
  /\ UNCHANGED <<measurement, raised, kernel, keepRunning, opened, pressure, pressureOpen,
                 runOutput, outputs, exitStatus>>

StartOverall ==
  /\ At(Main, "startOverall") /\ Goto(Main, "startWorkloads")
  /\ Afresh({Overall}, "started")
  /\ UNCHANGED <<measurement, raised, kernel, keepRunning, opened, pressure, pressureOpen,
                 runOutput, outputs, exitStatus>>

\* The first workload that was not started: Workload is a vector in the code,
\* and the order of its elements is left open here.
StartWorkload(w) ==
  /\ At(Main, "startWorkloads") /\ pc[w] = "unborn"
  /\ Goto(w, "initKernel")
  /\ UNCHANGED <<measurement, raised, clones, runOutput, outputs, exitStatus>>

\* Mutant: one thread that exited is enough.
JoinOne ==
  /\ At(Main, "startWorkloads") /\ \A w \in Workload : pc[w] # "unborn"
  /\ \E w \in Workload : pc[w] = "exited"
  /\ Goto(Main, "raiseRunStop")
  /\ Enter({Overall}, "stopped")
  /\ UNCHANGED <<measurement, raised, kernel, keepRunning, opened, pressure, pressureOpen,
                 runOutput, outputs, exitStatus>>

\* All threads are joined, and the overall measurers stopped.
Join ==
  /\ At(Main, "startWorkloads") /\ \A w \in Workload : pc[w] = "exited"
  /\ Goto(Main, "raiseRunStop")
  /\ Enter({Overall}, "stopped")
  /\ UNCHANGED <<measurement, raised, kernel, keepRunning, opened, pressure, pressureOpen,
                 runOutput, outputs, exitStatus>>

Collect ==
  /\ At(Main, "collect") /\ Goto(Main, "nextRun")
  /\ Enter({Overall}, "read")
  /\ LET overall == [of |-> None, seen |-> [s \in {"overall"} |-> Seen(Overall)]]
     IN  outputs' = Append(outputs, Append(runOutput, overall))
  /\ runOutput' = <<>>
  /\ UNCHANGED <<measurement, raised, kernel, keepRunning, opened, pressure, pressureOpen, exitStatus>>

\* The output file is written.
Finish ==
  /\ At(Main, "nextRun") /\ Len(outputs) >= RunCount
  /\ exitStatus' = 0
  /\ UNCHANGED <<measurement, pc, raised, clones, runOutput, outputs>>

InnerMain ==
  \/ SetMeasurement
  \/ InitializeRun
  \/ Raise(Main, "raiseRunStart", "RunStart", "startOverall")
  \/ StartOverall
  \/ \E w \in Workload : StartWorkload(w)
  \/ Join
  \/ Raise(Main, "raiseRunStop", "RunStop", "collect")
  \/ Collect
  \/ Finish

----------------------------------------------------------------------------

\* threadStartHelper() and main() catch what is thrown, and exit the process.
Fails(t) ==
  /\ MayFail /\ exitStatus = None /\ pc[t] \notin {"unborn", "exited"}
  /\ exitStatus' = 1
  /\ UNCHANGED <<measurement, pc, raised, clones, runOutput, outputs>>

ThreadStep(t) == Dispatch(t) \/ (t = Main /\ InnerMain) \/ (t \in Workload /\ StartInThread(t))

Terminated == exitStatus # None /\ UNCHANGED vars

Next == (\E t \in Thread : ThreadStep(t) \/ Fails(t)) \/ Terminated

Spec == Init /\ [][Next]_vars

\* The scheduler runs every thread that can go on, and kernels that are not
\* endless return.
FairSpec == Spec /\ \A t \in Thread : WF_vars(ThreadStep(t))

----------------------------------------------------------------------------
(* Properties.                                                             *)

\* Every variable has its type; the pressure never exceeds the threshold.
TypeOK ==
  /\ measurement \in Measurements
  /\ \A t \in Thread : raised[t] = None <=> pc[t] \notin {"rules", "open", "spin"}
  /\ \A x \in Measurer :
       /\ measurer[x].state \in {"new", "ready", "started", "stopped", "read", "disposed"}
       /\ measurer[x].seen \subseteq Thread \X {"init", "event", "warm", "kernel", "dispose"}
  /\ kernel \in [Workload -> {"new", "ready", "running", "ran", "disposed"}]
  /\ keepRunning \in [Workload -> BOOLEAN]
  /\ opened \subseteq DOMAIN Rules
  /\ pressure \in 0 .. Threshold /\ pressureOpen \in BOOLEAN
  /\ Len(outputs) <= RunCount
  /\ exitStatus \in {None, 0, 1}

\* A result that is written holds every run, and each run one output for every
\* workload and one for the overall measurers. The main and the additional
\* measurers saw the kernel and nothing else, not the warm-up and no event; the
\* validation measurers and the overall ones saw at least what they validate.
OutputsComplete ==
  /\ exitStatus = 0 => Len(outputs) = RunCount
  /\ \A i \in DOMAIN outputs :
       LET run == outputs[i]
           Of(o) == {run[j] : j \in {k \in DOMAIN run : run[k].of = o}}
       IN  /\ Len(run) = Cardinality(Workload) + 1
           /\ \A w \in Workload : \E o \in Of(w) :
                /\ o.seen["mainMeasurer"] = {<<w, "kernel">>}
                /\ o.seen["additional"] = {<<w, "kernel">>}
                /\ {<<w, "warm">>, <<w, "kernel">>} \subseteq o.seen["validation"]
           /\ \E o \in Of(None) : \A w \in Workload : <<w, "kernel">> \in o.seen["overall"]

\* Kernels that wait for a pressure barrier run once the caches of all of them
\* are prepared: none is measured while another one is still warming up.
StartTogether ==
  \A i, j \in PressureRules :
    kernel[Rules[i].of] = "running" => <<Rules[j].of, "warm">> \in Seen(<<Rules[j].of, "validation">>)

\* A kernel that loads the system while another one is measured does not end
\* before that one, in any run.
LoadOutlastsKernel ==
  \A i \in DOMAIN Rules :
    LET r == Rules[i]
    IN  r.action = "stopKernel" /\ r.event = "Stop" /\ kernel[r.of] = "running" =>
          kernel[r.target] \notin {"ran", "disposed"}

\* Every measurer is used the way it is meant to be used.
LifeCycle(x) == INSTANCE MeasurerLifeCycle WITH state <- measurer[x].state, odd <- measurer[x].odd
KeepsLifeCycles ==
  /\ \A x \in Measurer : LifeCycle(x)!Init
  /\ [][\A x \in Measurer : [LifeCycle(x)!Next]_<<measurer[x].state, measurer[x].odd>>]_measurer

\* The runs come to an end.
RunsEnd == <>(exitStatus # None)

\* A thread that waits for a workload goes on once that workload has started.
WaitsForStart ==
  \A t \in Thread, w \in Workload :
    (/\ RuleAt(t, "waitForWorkload") /\ Rules[Current(t)].target = w
     /\ kernel[w] = "running")
      ~> (exitStatus # None \/ ~ RuleAt(t, "waitForWorkload"))
============================================================================
