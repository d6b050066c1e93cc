# TLA+ models of the Roofline Measuring Tool

The repository holds a tool that measures the performance of computational kernels (their run time,
operation count and transferred bytes) and draws roofline plots. A Java program, the *measurement
driver*, describes a measurement as a graph of shared entities, builds a C++ program, the *measuring
core*, for it, runs it, and reads the results back. The measuring core is two processes: a *parent* that
traces the *child* with ptrace, and the child, whose threads run the kernels. This directory holds
TLA+ modules that model the parts of this system in which the order of events decides whether a
result is right, TLC configurations that check them on small instances, and TLAPS proofs of their safety
properties.

## 1. Inventory

Paths are relative to `src/`; `MC` stands for `tool/measuringCore/src`, `MD` for
`tool/measurementDriver/src/ch/ethz/ruediste/roofline/measurementDriver`.

| Component | State | Operations | Hard behaviour |
|---|---|---|---|
| Parent process, `MC/parent` | per thread: state, saved registers, notification queue, system call parity, exit sequence; `notificationSystemReady` | one handler per report of `waitpid()` | traps, signals, clones and exits of all threads in any order; signals that merge; an exit between two steps of the protocol |
| Child entry points, `MC/ChildThread.cpp`, `MC/ChildProcess.cpp`, `MC/childMain.cpp` | `threadMap`, per thread the action queue | `processNotification`, `queueAction`, `processActions`, `notifyParent`, `getChildThread*` | runs inside an arbitrary interrupted thread, whatever lock that thread holds |
| Actions and barriers, `MC/sharedEntities/ActionBase.cpp`, `MC/Barrier.cpp`, `.../actions` | the barrier of a synchronous execution, the thread count of a `PressureBarrier`, the queue of actions | `execute`, `startExecute`, `executeDirect`, `open`, `wait` | synchronous execution in another thread, two of them at the same time, a caller interrupted with a mutex in its hands, an exit of the executing thread |
| Locator and rules, `MC/baseClasses/Locator.cpp` | current measurement, rules, listeners, collected outputs | `dispatchEvent`, `addRule`, `setMeasurement`, `addMeasurerSetOutput` | events dispatched by all threads, rules added while threads start |
| Measurement run, `MC/ChildProcess.cpp`, `MC/sharedEntities/Workload.cpp`, `MeasurerSet` | the life cycle of kernel and measurers | `innerMain`, `startInThread`, `initialize` .. `dispose` | workloads in parallel, measurers that must nest |
| Serialization, `MC/baseClasses/*Serializ*`, `tool/sharedEntityGenerator/templates` | stream, table of objects seen | `Serialize`, `DeSerialize` | shared and cyclic references, the two languages must agree |
| Measurement controller, `MD/appControllers/MeasurementAppController.java` | counter of runs, commands, built core | `measure`, `performMeasurement`, `buildMeasuringCore` | results cached per core; a build that fails in between |
| Hash repository, `MD/infrastructure/repositories/MeasurementHashRepository.java` | measurement to core, equal cores | `setHaveEqualCores`, `setCoreHash`, `areCoresEqual`, `getCoreHash` | union of equivalence classes kept in maps that must agree, and lost when the driver ends |
| Result cache, `MD/infrastructure/services/CacheService.java`, `MD/dom/repositories/MeasurementResultRepository.java` | one file per key | `store`, `load` | an interrupted store |
| Core builder, `MD/dom/services/MeasuringCoreService.java` | generated source files, the set of build inputs | `prepareMeasuringCoreBuilding`, `compile`, `runMeasuringCore` | files rewritten only if they change |
| `UpdatingFileOutputStream`, `MD/util` | position, file, whether it writes | `write`, `close` | compare and write through one stream |
| `RuntimeMonitor`, `MD/util` | stack of categories, their timers | `enter`, `leave` | exceptions that skip a `leave` |
| `Configuration`, `MD/configuration` | map of values, stack of old values | `set`, `push`, `pop` | only what is overwritten is saved |
| `OptimizationService`, `ParameterSpace`, `MD/dom` | cache of optima | `optimize`, `getNeighbors` | a search that stops early |
| `QuantityMeasuringService`, plots, front end, `systemConfigurator` | see `PROJECT.json` | | sequential |

How they interact: the driver and the core exchange two files (`config`, `output`) and an exit status.
Inside the core, the child tells the parent something with an `int3` instruction and two registers; the
parent tells a thread of the child something by stopping it with SIGTRAP, saving its registers and
redirecting it to `ChildThread::processNotification`, which ends in another `int3`. Threads of the child
share the thread map, the `Locator` and the barriers under mutexes. Actions are executed in other
threads through this notification protocol, so it is the core of the system: a lost wakeup means a
measurement that hangs, a wrong register means a kernel that computes nonsense.

What has to be right, component by component:

* parent: a thread is never returned to anything but the code it was interrupted in; no notification is
  lost, reordered, or handled twice; system call entry and exit are never confused; a thread that ends
  announces it; the bookkeeping of threads that are gone is dropped.
* child entry points: a notification always meets the `ChildThread` object it needs.
* actions: a synchronous `execute` returns after the action ran in the target thread, and does return;
  an interrupted thread gets back to where it was.
* locator: an event meets all rules that were there when it was dispatched; a measurer created for
  existing and future threads exists once per thread.
* measurement run: measurers nest, and outputs belong to the run they were taken in.
* serialization: a graph read by either language is the graph that was written.
* driver: a result is only reused for a measurement whose core is the same as the one that produced it;
  files are only written to for a change; what is returned as the optimum is the best point.

## 2. Plan

1. `NotificationService` (abstract) and `ParentProcess`, with proofs. **Done**; all safety
   properties and the refinement are proved, in `ParentProcess_proofs` and `ParentProcessService_proofs`.
2. Execution of actions in the child: `SynchronousExecution` (abstract) and `ActionExecution`.
   **Done**, all safety properties and the refinement proved.
3. The driver: `CoreClasses` (abstract), `MeasurementHashRepository` and `MeasurementAppController` over
   it. **Done**, all safety properties proved, the refinement of `CoreClasses` included.
4. The measurement run: `MeasurerLifeCycle` (abstract) and `MeasurementRun` with the locator, the rules
   and the two spinning or blocking barriers. **Done**, all safety properties proved.
5. `MeasurersOnThreads`: a measurer for every thread, those that exist and those that will, while
   threads start and end. **Done**, with proofs.
6. The parts one thread executes from beginning to end: `Serialization`, `UpdatingFileOutputStream`,
   `RuntimeMonitor`, `Configuration` and `OptimizationService`. **Done**; what the second to the fifth
   promise is proved, in `DriverUtilities_proofs`.
7. Left: what the properties of `ParentProcess` become when thread ids are used again;
   `MeasureActionExecutionAction`.

Modules that are proved about use no recursive operators; constants have named assumptions; a step of
the program is one action.

## 3. Modules

| Module | Models | State and actions |
|---|---|---|
| `NotificationService` | what the parent promises a thread (abstract) | inbox, current notification; several threads may step at once |
| `ParentProcess` | `MC/parent/ParentProcess.cpp`, the child code the protocol consists of, and the ptrace behaviour of the kernel it relies on (external) | the maps of the class carry their names (`childStates`, `childRegs`, `childNotificationQueue`, `childInSyscall`, `childExiting`); one action per report of `waitpid()`, each the whole iteration of `traceLoop()` with every handler it calls; `sig`, `proc`, `regs` are the kernel's |
| `SynchronousExecution` | what `ActionBase::execute()` promises its caller (abstract) | phase of each call |
| `ActionExecution` | `ActionBase.cpp`, `Barrier.cpp`, `SynchronizedQueue.h`, `ChildThread.cpp`, `Workload::start` and `queueAction` | a stack of frames for each thread; a frame is a call, its `op` the next point at which another thread, or a handler on top of it, may intervene: taking or releasing a mutex (that of a barrier included), sleeping at a barrier, notifying, running |
| `CoreClasses` | what may be learned about cores (abstract) | classes of measurements, and their hash |
| `MeasurementHashRepository` | the Java class of that name | its three maps and the hash of each `Core`; a `Core` object is named by the measurement it was made for |
| `MeasurementAppController` | `MeasurementAppController.java` with what `MeasuringCoreService`, `HashService` and `CacheService` do to files | the disk (`files`, `executable`, `cache`), the repository (INSTANCE), the call in progress; a step ends where the code can fail or the driver be killed |
| `MeasurerLifeCycle` | how a measurer may be used (abstract) | state of one measurer, and the parity of its calls, so that a call that does not change the state is still seen |
| `MeasurementRun` | `innerMain`, `Workload::startInThread`, `MeasurerSet`, `Locator`, rules and their actions | `pc` of each thread, the event it dispatches with the rules still to execute; state of each measurer and what it has seen since it was started |
| `MeasurersOnThreads` | `CreateMeasurerOnThreadAction.cpp` and what it calls in `ChildThread`, `Locator` and `ActionBase`, with the threads of a parallel kernel | `pc` of the thread that installs and stops the measurers, of each other thread the handler it is in; per thread a measurer with its life cycle, and the rules installed |
| `Serialization` | both writers and readers, `clone()` and `addAll()` as the templates generate them | `heap`: fields of each entity; setters as actions, everything else operators over it |
| `UpdatingFileOutputStream`, `RuntimeMonitor`, `Configuration` | the Java classes of those names | their fields, and a history of what should come out |
| `OptimizationService` | `OptimizationService.java`, `ParameterSpace.java` | the space, what each point measures, the cached optimum, the setting of `optimize.fast`; a search is one action |
| `DriverUtilities` | these four parts of the driver together | an instance of each |
| `MCSequential` | these four, `MeasurementHashRepository` and `Serialization`, side by side | `part` says which one a behaviour is of |
| `MCMeasurementAppController` | two drivers side by side, one of which has builds that fail | `driver` says which one a behaviour is of |
| `*_proofs` | theorems about the module of that name; `ParentProcessService_proofs` extends `ParentProcess_proofs` | |

`ParentProcess` and `ActionExecution` meet at the notification service: the first implements it, the
second uses an `inbox` per thread that behaves as the service says. `MeasurementRun` assumes rules whose
actions name no thread, which `ActionBase::execute()` runs in place; those that name one are the subject
of `ActionExecution`, and those that install measurers of `MeasurersOnThreads`, which takes the queue of a
thread as `ActionExecution` models it. `MeasurementRun` and `MeasurersOnThreads` implement the same
`MeasurerLifeCycle`. The controller uses the hash repository through INSTANCE, and two of its
properties say that it keeps the repository's contract.

What is abstracted. *Registers* are the place of the instruction pointer and what the protocol passes in
them. A *core* is what shows of the generated files in the executable, and is its own hash. An *output* is
the core that put it out and whether the present driver ran it. What a *measurer* counts is the set of
things it saw: `OutputsComplete` thus tells a counter that ran over the kernel only from one that ran over
the warm-up or an event too. Measurements, calls and workloads are model values. A *thread object* that is
deleted may have its memory taken by that of another thread. A *serialized graph* is a sequence of lines,
each a sequence of characters, as the readers tell lines and escapes apart; an entity has one string, one
reference and one list of references. A *point* of a parameter space measures the same whenever it is
measured (results are cached); the shuffle of the points may give any order.

## 4. Runs

| Run | Question | Instance |
|---|---|---|
| `parent_process` | Does the protocol keep its invariants and implement `NotificationService`? | main thread and two others, two sends, each id used once; the two threads are symmetric |
| `parent_process_live` | Is every notification handled, and does the interrupted program go on? | main thread and one other, two sends |
| `action_execution` | Does every `execute()` return after its action ran in the right thread, unless threads wait in a circle or the call comes too late? | three threads, four nested calls by thread and by workload |
| `core_knowledge` | Is what the controller learns true, do outputs belong to their core, does it keep the contract of the repository, does a store that is not interrupted only add to the stored outputs of the present core? Does knowledge only grow when preparation, compilation or runs fail? | three measurements of two cores, up to two runs each, failing runs and stores, restarts, the core checked; beside it a driver whose files have something that does not show in the core, and whose builds fail, the core not checked |
| `compile_fails` | Are measurements declared equal really equal: **not after a failed compilation** | failing compilations |
| `measurement_run` | Do measurers see what they should, do kernels start together, does the load outlast the measured kernel, do runs end? | three workloads, two runs, three sets of rules, threads that throw |
| `waits_for_start` | Does a thread waiting for a workload go on once that started: **no** | the rules of `ExpTime1MeasurementController` |
| `measurers_on_threads` | Does every thread get a measurer, used as it should be and closed? | a thread of the kernel and one of another workload; measurers with and without a predicate for their start |
| `one_measurer_per_thread` | Does a thread get one measurer only: **no** | same |
| `sequential` | Do the maps of the hash repository agree, is what they say true, do classes only grow? Are graphs (by the core) and trees (by the driver) read as they were written, files updated to what is written, times charged right, configurations restored, optima as good as what was tried? | six measurements of two cores, every order of calls; three entities with up to four values set; files of up to three bytes; four ticks and a stack of three; two keys, two values, three pushes; rings of eight and tori of six and four points with three quantities |
| `driver_reads_graphs` | Does the driver read every graph that is written: **not if an entity is referred to twice** | as in `sequential` |
| `full_search_is_best` | Is what the search returns the best point, at least if `optimize.fast` is not set: **not if a fast search was stored** | as in `sequential` |

*Bounds.* Two threads besides the main thread are what the parent's maps can confuse: every handler reads
the entries of one thread, or of the one it names. Two sends are enough for a second notification to meet
each phase of the first. The four calls of `NestedTo` contain a call of a thread into one that is waiting
itself, a call back into the caller, and a call to a workload that has not started or has ended. Six
measurements allow chains of merges between classes that have a hash and classes that do not. Two runs are
the least in which one may disturb the next; three workloads the least in which two threads can pass a
pressure barrier one lacks. `MaxRuns` of 2 lets a stored result be too short for the next call. Of the
threads a measurer may be installed on, one belongs to the kernel and one to another workload: the code
treats all others as one of these, and installs on one thread after the other. In `core_knowledge` the
driver whose builds fail begins with what is stored for one measurement only, as knowledge does not depend
on it. Three entities make a circle with a shared entity outside; the strings contain what escape sequences
are made of. The bytes are two negative ones, of which -1 looks like the end of the file, and two others;
three positions let a difference come first, in the middle, or past the end. From five points of the ring
of eight the best point may be missed, which the two tori cannot show.

*Deadlock* is checked except in `ActionExecution`, where all programs may end and where a thread that
ended leaves its callers waiting; in `MeasurersOnThreads` and `MCSequential`, which end when the
measurement, the file or the bound does; and in `waits_for_start`, whose deadlock is the point.

*What `ExecuteReturns` leaves out.* Calls return, unless the process was aborted, an outstanding call came
after its thread had looked at its queue for the last time (`TooLate`), or threads wait for each other in a
circle (`CircularWait`): for a mutex another one holds, or the same one below its handler, or for an action
in a thread that is in a handler or has yet to attach. Such circles exist, see the findings without a run.
The property says that these are all the ways in which a call can be lost: it fails as soon as an action is
dropped, announced to no one, or left with a workload.

*Fairness.* In `ParentProcess`, `waitpid()` reports every stopped thread in the end, and the kernel
delivers a pending signal and interrupts a blocking call for it; a handler goes on when it can (strong
fairness where other threads' stops interrupt it). The program itself may block or loop forever: it has
no fairness. In `ActionExecution` every thread that can go on does, as the scheduler of the kernel
provides; a notification that the parent has reaches its thread, which `parent_process_live` shows. That no
thread waits for a mutex for ever while others take and release it needs no strong fairness: a thread takes a
mutex a bounded number of times, as its program and its actions are finite. In
`MeasurementRun` the same holds for the threads, and a kernel returns unless it runs until it is stopped.
In `MeasurersOnThreads` the handlers
of all threads and the thread that installs the measurers go on, and the kernel returns. The controller,
the repository and the parts of `MCSequential` are sequential; only safety is asked of them.

## 5. Findings

Each is shown by a run that TLC ends with a counterexample.

* `driver_reads_graphs`: the Java reader never recognises the `=> ` of a shared reference
  (`javaSerializationServiceTemplate.vm:224`), since it looks for the blank inside a token.
  `report/report.tex:1956-1957` says that the serializer can handle general object graphs. `RoundTrip` says
  that the core reads all of them, and the driver the trees.
* `full_search_is_best`: the fast search, the default, starts at five points and goes two steps at most
  (`OptimizationService.java:119`), so that it may not come by the best one; and the cache of optima does not
  depend on `optimize.fast` (line 95), so that a full search returns what a fast one stored. The comments at
  lines 49-50 and 67-68 promise the lowest or highest result. `NothingTriedIsBetter` says what is returned in
  any case: a point as good as all that were tried.
* `compile_fails`: after a failed compilation the files on disk are those of the measurement that failed,
  but `currentlyCompiledMeasurementHash` still names the one before
  (`MeasurementAppController.java:232`); the next attempt sees no change and declares the two equal.
* `waits_for_start`: `WaitForWorkloadAction` opens its barrier at `KernelStop`, where the comment two
  lines above says start (`MC/sharedEntities/actions/WaitForWorkloadAction.cpp:34-36`); with the rules of
  `ExpTime1MeasurementController`, load and measured workload wait for each other.
* `one_measurer_per_thread`: a thread that registers before the rule for new threads is added, and raises
  `Started` after it, is in the collection and matches the rule
  (`CreateMeasurerOnThreadAction.cpp:121`, `ChildThread.cpp:58-64`): it gets two measurers, whose counts
  are added up. The comment at `CreateMeasurerOnThreadAction.cpp:113-114` says the call avoids this race.

Seen while modelling, without a run of their own:

* The handler takes the mutex of the thread map (`MC/ChildThread.cpp:83`), which the code it interrupted may
  hold; the mutex is not recursive, and the thread stops for ever.
* `Barrier::waitImp()` holds the mutex of the barrier from `MC/Barrier.cpp:50` until it sleeps, and again when
  it wakes; `open()` needs it (line 35). A caller interrupted there whose handler executes an action in the
  thread that is about to open the barrier waits for it, and it for the caller.
* `ActionBase::execute()` waits inside handlers too (`MC/sharedEntities/ActionBase.cpp:53`), where its thread
  cannot be interrupted: two handlers that execute actions in each other's threads never end. These three are
  the circles `CircularWait` of `ActionExecution` stands for; `report/report.tex:2462-2463` says that the
  thread executes some event handling code and then returns to where it was interrupted.
* `Barrier::waitImp()` (`MC/Barrier.cpp:52`) waits under `if`, not `while`: a spurious wakeup passes it.
* The handler catches exceptions (`MC/ChildThread.cpp:76`) without a `ProcessingDone`, so that it returns to
  an address on a stack that is not its own; the exception of `getChildThread()` leaves the mutex locked.
* A merged core stays in `coreHashToCore` (`MeasurementHashRepository.java:97`); the next measurement with
  that hash joins a core without members.
* The Java reader does not go on to the next line after the count of a list, so that a list of strings loses
  its place.
* `addAll()` follows circles without end and null without a check (`cppTemplate.vm:200`).
* `UpdatingFileOutputStream.java:46` compares signed with unsigned bytes: any byte above 127 counts as a
  change, where the comment at line 6 says that it only writes when changes are detected. The contents are
  right anyway, and nothing else is written to without a change (`FileIsUpdated`), unless a byte 255, which no
  UTF-8 text has, meets the end of the file.
* Two measurements that differ only in the optimization of a kernel of the same name change the same file
  back and forth, so each is built anew.
* `push()` and `pop()` of the measurement controllers are not in `finally`
  (`SystemInfoService.java:210-217`): an exception leaves the pushed values in force. The command then
  ends, so nothing is measured with them.

* A notification queued for a thread that exited creates a state and a queue that nobody erases
  (`ParentProcess.cpp:439-445`), where `report/report.tex:2478` says they are erased.
* With `ReuseTids = TRUE`, TLC finds violations of `ExitingAnnounced` (`childExiting` keeps the entry of
  the old thread, so the new one exits unannounced) and of `ChildThreadExists` (`ThreadExited` of the old
  thread deletes the object of the new one), and of `NoLostWakeup`. The runs therefore use each id once; `TypeOK` and
  `InterruptedProgramSaved` are proved with reuse too.
* Without the core check, the loaded outputs of an older core are stored again under the hash of the
  current one (`MeasurementAppController.java:130`); `HashTellsCore` is checked with `CheckCore` TRUE.
* `MeasurementAppController.java:89` asks `hasMeasurementBeenSeen()`, which is also true for a
  measurement that was only built.
* `keepRunning` is a plain `bool` (`KernelBase.h:17`) read in a loop without calls
  (`ArithmeticKernel.cpp:276`) and written by another thread: a compiler may read it once. The endless
  kernels of `MeasurementRun` are those of `DiskIoKernel`, whose loop calls `read()`.
* The overall measurer set is read but never disposed (`ChildProcess.cpp:200`).

## 6. Proofs

All modules use the same argument: an invariant that holds initially, is kept by every step (one lemma
per action), and implies the property; the theorem follows by PTL. What is proved holds for every value of
the constants that meets their assumptions.

`ParentProcess_proofs` proves `TypeCorrect` (`[]TypeOK`) and `InterruptedProgramIsSaved`
(`[]InterruptedProgramSaved`) for any set of threads containing the main one, any number of sends, and with
or without reuse of ids, from the four assumptions on the constants. The property is not inductive: it says
nothing of threads that are not alive, whose registers would be restored if their id were used again, and
nothing of the time before `Startup`. `IInv` therefore adds `SavedInv`, which also speaks of ids that are
not alive, and `QuietBeforeStartup`: until the startup notification was seen no thread is in a handler and
none exits.

`ParentProcessService_proofs` proves the rest of this module. `WakeupsAreNotLost`, `HandlersAreNotDisturbed`
and `SyscallStopsAreInStep` rest on `WInv`, which together with `IInv` is inductive: of each thread it says
that nobody knows it before it was cloned (`KnownOK`), where a receiver may be in its handler
(`ReceiverOK`), that no one is redirected before `Startup` (`StartOK`), that the parent's toggle agrees with
the stop the kernel reports next (`StopsOK`), that a queued notification has its SIGTRAP ahead
(`WakeupOK`), and that a SIGTRAP never is ahead of a thread in a handler (`UndisturbedOK`).
`ExitsAreAnnounced`, `ChildThreadsExist` and `ServiceIsImplemented` (the refinement of
`NotificationService`) add `ExitInv`, whose parts need each other:

* `MessagesOK`: what is queued or handled is plausible: only threads that ended are reported as ended,
  and `ProcessActions` goes only to threads that are registered;
* `AnnouncedOK`: `ThreadExiting` is queued at most once, when the thread is about to end, and the program
  of the thread does not run after it;
* `PlaceOK` and `SavedOK`: where a thread may be that exits or has finished a handler, and that its saved
  registers are never those of such a thread;
* `RegisteredOK` and `NewOK`: a thread that runs is registered, or handles `ThreadStarted`, or has it first
  in its queue; a thread the parent has not seen yet is about to run its program.

A step of the parent changes each thread in one of a few ways: it rests, goes on, is redirected to a
handler, is restored, ends, or is created. Each way is one lemma, which shows that it keeps `ExitOK` and is
a step of the abstract service or a stutter; the actions of `Next` are then sorted into these ways. The
theorems assume `~ReuseTids`: the step that breaks without it is `Clone`, which must find nothing left of an
earlier thread with its id, and there TLC indeed finds counterexamples. `NothingAssumption` only says that
`None` is no notification.

`ActionExecution_proofs` proves `RestrictionKept` (`RightThread`), `HelperOutlivesUse` (`HelperExists`),
`QueuedActionsAnnounced` (`ActionAnnounced`), `TypeCorrect` and `ExecutionRefinement`
(`ImplementsExecution`), for any threads, workloads and calls, nested in any way. The assumptions on the
constants say that the names are distinct (`DistinctAssumption`) and that each call is made at one place
in the code of a thread or of another call (`OnceAssumption`, `MadeAssumption`). None of the properties is
inductive; `CallInv` (theorem `CallsInvariant`) is: the helper of a call is in at most one place, a frame,
the queue of a thread or that of a workload (`OnePlace`); its action runs once and on top of it
(`RunsOnce`); as long as there is a helper, the caller waits (`Awaited`), for the call it made last
(`WaitOK`); calls that were made before it have returned and those to come are fresh (`OwnerOK`,
`BegunOK`). `EndedOK` adds that a call whose action has run is waited for until it returns. The refinement
goes by what a step does to the phases of the calls: nothing, or one call is made, begins, ends or returns.
The proof showed that the conditions that told the phases apart overlapped; they are now disjoint.

`MeasurementRun_proofs` proves `TypeCorrect`, `ResultsComplete` (`OutputsComplete`), `KernelsStartTogether`
(`StartTogether`), `LoadOutlasts` (`LoadOutlastsKernel`) and `MeasurersUsedRight` (`KeepsLifeCycles`) for
any workloads, number of runs and sets of rules. Two of the assumptions on the constants restrict the rules
to those the controllers of the driver make: those that wait for the pressure barrier are for the start of
the kernel of a workload (`PressureAssumption`, `DistributionControllerBase`), and a load, which is stopped
when a measured workload stops, runs until then and is stopped by nothing else (`LoadAssumption`,
`ExpTime1MeasurementController`). `MCMeasurementRun` checks them of its rules. The invariant `RunInv` has
six parts: where the threads are relative to each other (`ControlOK`), in which state that puts each
measurer (`StatesOK`) and what the measurer has seen (`AllSeenOK`), which outputs there are (`OutputsOK`),
that the pressure barrier has counted those that arrived and no others (`PressureOK`), and what the loading
kernel waits for (`LoadOK`). The model keeps the rules still to be executed for an event as a set of which
the least is next, so that `ControlOK` can say of each rule whether it was passed without any induction
over a sequence.

`MeasurementHashRepository_proofs` proves `TypeCorrect`, `RepositoryMapsAgree`, `RepositoryIsRight` and
`RepositoryImplementsClasses`. `KnowledgeIsTrue` needs `MapsAgree`, since a merge moves the members a core
lists and not those whose map entry names it; `Unborn`, by which a core nobody has made lists no one and
has no hash; and `Registered`, by which a core found under a hash has that hash. The assumption is the
contract of the callers: they only declare equal what is equal and set the right hash once, which
`KeepsContract` states of the controller. The refinement maps a measurement to the set of those that share
its core; every step is a move of the members of one core to another (`MoveStep`), which is a union of
classes, or a stutter.

`MeasurementAppController_proofs` builds on it. Types and `KnowledgeGrows` hold whatever fails.
`EqualCoresAreEqual` and `KeepsContract` need that no preparation and no compilation fails
(`NoBuildFails`): `compile_fails` shows why. `OutputsOfOwnCore`, `HashTellsCore` and `OutputsKept` need the
core check as well (`AlwaysChecks`). `OutputsKept` does not say that nothing is lost: a store that is
interrupted loses the result, because the file is rewritten in place, and a driver that may not use results
replaces them; any other step leaves the outputs of the present core or puts new ones in front of all of
them. The invariants are layers: what is compiled is what `currentlyCompiledMeasurementHash` names, and the
repository is right about it (`Sound`, `Right`), the outputs in hand are of the core in hand (`OutputsOK`),
and so are the stored ones (`StoredOK`).

`MeasurersOnThreads_proofs` proves `TypeCorrect`, `NoThreadMissed` and `LifeCyclesAreKept` for any set of
threads and workloads. `Phases` says which measurers exist in each phase of the installation; `Covered`
that a thread with no measurer yet is still to be visited, has its measurer queued, or has its
`Started` event before it; `Born` and `Orderly` that a measurer is in the state its next use expects (of
measurers that start at once, the only ones `KeepsLifeCycles` speaks of).

`DriverUtilities_proofs` proves four classes of the driver right. `PopRestoresPushed`: the invariant
(`Undone`) is local to one level of the stack: the values it saved, put over what the level above pushed,
or over the present values for the last one, are what was pushed with it. `FilesAreUpdated`
(`FileIsUpdated`): the file up to the position is what was written, what is behind it is untouched unless
the stream knows (`WrittenOK`), and if it says that it writes there is a reason that stays (`Changed`: a
byte that differs from the old file or is behind its end, or one that is not ASCII). It assumes that bytes
are signed (`Byte \subseteq -128 .. 127`) and that no file is not a file. `AllTimeIsCharged`
(`TimeIsAccounted`) is inductive with the types alone. `NoTriedPointIsBetter` (`NothingTriedIsBetter`)
holds for any axes and values (`Space \subseteq Seq(Seq(V))`) and any integers measured at the points. A
step of the fast search goes where nothing around it is better (`StepIsNoWorse`), for which there must be a
best neighbor (`BestIsFound`: the points are finite, `PointsAreFinite`, and strict inclusion of finite sets
is well founded, which the library proves, so that no induction is needed); what is better is transitive,
so two steps are no worse (`ClimbIsNoWorse`), and the starting points from which nothing better was reached
are among those with nothing better around (`FastIsGood`). In a space of at most five points these are all.

Model-checked only:

* all liveness (`QueueDrained`, `ProgramContinues`, `ExitedForgotten`, `ExecuteReturns`, `RunsEnd`,
  `CountersClosed`), which rests on fairness the prover does not reach;
* `RoundTrip` and `RunsOnCopy` of `Serialization`, whose operators are recursive over the graph of entities
  and over strings: that reading undoes writing for every graph is an induction over data.

Every other invariant, action property and refinement the runs check is a theorem.

## 7. Not modelled

`PROJECT.json` lists each component with its reason. Of the 202 000 lines of the implementation, 193 000
are generated FFT code (`kernels/AlenFFTfftw`, `kernels/FFTSpiral`): straight-line arithmetic without
state, of which there is nothing to model. Of the hand-written code:

* kernels, measurers, system information and the quantities computed from outputs are arithmetic, partly
  with real numbers, or read counters of hardware and kernel;
* plots, the code generator, measurement scripts and the command line produce text or call services in a
  straight line;
* configurators and system initializers are called around the runs and touch nothing the models hold;
* `MeasureActionExecutionAction`, which measures around another action within one thread, is left, as are
  numbers and inheritance in the serialization, and what a handler does after it caught an exception,
  which is undefined.
