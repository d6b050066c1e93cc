------------------------ MODULE MeasurementRun_proofs ------------------------
(***************************************************************************)
(* Theorems about MeasurementRun, for any workloads and any number of runs. *)
(***************************************************************************)
EXTENDS MeasurementRun, FiniteSetTheorems, SequenceTheorems, WellFoundedInduction, TLAPS

----------------------------------------------------------------------------
(* Where the threads are.                                                  *)

Dispatching == {"rules", "open", "spin"}

\* Where a thread is, or goes on once the event it raised has been dispatched.
Place(t) == IF pc[t] \in Dispatching THEN raised[t].then ELSE pc[t]

\* The places of a workload, in the order of Workload::startInThread().
Unprepared == {"unborn", "initKernel", "initMeasurers"}
Prepared == {"raiseStart", "startValidation"}
Warming == {"warmAdditional", "stopWarmAdditional", "warmMain", "stopWarmMain", "warmCaches"}
Starting == {"raiseKernelStart", "startAdditional", "startMain", "runKernel"}
Ran == {"running", "stopMain", "stopAdditional", "raiseKernelStop", "stopValidation", "raiseStop", "addOutput"}
Disposing == {"disposeKernel", "disposeMeasurers"}
WorkloadPlace == Unprepared \cup Prepared \cup Warming \cup Starting \cup Ran \cup Disposing \cup {"exited"}

BeforeWorkloads == {"initialize", "raiseRunStart", "startOverall"}
AfterWorkloads == {"raiseRunStop", "collect", "nextRun"}
MainPlace == BeforeWorkloads \cup AfterWorkloads \cup {"startWorkloads"}

Pc == WorkloadPlace \cup MainPlace \cup Dispatching

\* Where a thread goes on after each event.
After ==
  {<<"Start", "startValidation">>, <<"KernelStart", "startAdditional">>,
   <<"KernelStop", "stopValidation">>, <<"Stop", "addOutput">>,
   <<"RunStart", "startOverall">>, <<"RunStop", "collect">>}

\* What the thread t dispatches.
DispatchOK(t) ==
  /\ raised[t] \in Raised
  /\ <<raised[t].event, raised[t].then>> \in After
  /\ \A i \in raised[t].todo : i \in DOMAIN Rules /\ Matches(i, raised[t].event, t)
  /\ pc[t] \in {"open", "spin"} =>
       raised[t].todo # {} /\ Rules[Current(t)].action = "waitForPressureBarrier"

\* The workloads run between the start of the run and its end.
ControlOK ==
  /\ measurement \in Measurements
  /\ pc \in [Thread -> Pc] /\ raised \in [Thread -> Raised \cup {None}]
  /\ \A t \in Thread : IF pc[t] \in Dispatching THEN DispatchOK(t) ELSE raised[t] = None
  /\ Place(Main) \in MainPlace /\ \A w \in Workload : Place(w) \in WorkloadPlace
  /\ Place(Main) \in BeforeWorkloads => \A w \in Workload : pc[w] = "unborn"
  /\ Place(Main) \in AfterWorkloads => \A w \in Workload : pc[w] = "exited"

InRun == Place(Main) # "nextRun"

----------------------------------------------------------------------------
(* The states of measurers and kernels.                                    *)

\* Where the measurers of a set are started, and were not started yet.
Started(s) ==
  CASE s = "mainMeasurer" -> {"stopWarmMain", "runKernel", "running", "stopMain"}
    [] s = "additional" -> {"stopWarmAdditional", "startMain", "runKernel", "running", "stopMain",
                            "stopAdditional"}
    [] s = "validation" -> Warming \cup Starting \cup (Ran \ {"raiseStop", "addOutput"})
Unstarted(s) ==
  CASE s = "mainMeasurer" -> Prepared \cup {"warmAdditional", "stopWarmAdditional", "warmMain"}
    [] s = "additional" -> Prepared \cup {"warmAdditional"}
    [] s = "validation" -> Prepared

State(s, p) ==
  IF p \in Unprepared THEN "new"
  ELSE IF p \in Unstarted(s) THEN "ready"
  ELSE IF p \in Started(s) THEN "started"
  ELSE IF p \in Disposing THEN "read"
  ELSE IF p = "exited" THEN "disposed" ELSE "stopped"

OverallStates(p) ==
  IF p = "initialize" THEN {"new"}
  ELSE IF p \in {"raiseRunStart", "startOverall"} THEN {"ready"}
  ELSE IF p = "startWorkloads" THEN {"started"}
  ELSE IF p = "nextRun" THEN {"disposed", "read"} ELSE {"stopped"}

KernelState(p) ==
  IF p \in {"unborn", "initKernel"} THEN "new"
  ELSE IF p = "running" THEN "running"
  ELSE IF p \in (Ran \cup {"disposeKernel"}) THEN "ran"
  ELSE IF p \in {"disposeMeasurers", "exited"} THEN "disposed" ELSE "ready"

What == {"init", "event", "warm", "kernel", "dispose"}
MeasurerRec ==
  [state : {"new", "ready", "started", "stopped", "read", "disposed"}, odd : BOOLEAN,
   seen : SUBSET (Thread \X What)]

StatesOK ==
  /\ measurer \in [Measurer -> MeasurerRec]
  /\ \A w \in Workload, s \in Set : measurer[<<w, s>>].state = State(s, Place(w))
  /\ measurer[Overall].state \in OverallStates(Place(Main))
  /\ kernel = [w \in Workload |-> KernelState(Place(w))]

----------------------------------------------------------------------------
(* What the measurers have seen.                                           *)

WarmedUp == {"raiseKernelStart", "startAdditional", "startMain", "runKernel"} \cup Ran \cup Disposing \cup {"exited"}
HasRun == Ran \cup Disposing \cup {"exited"}

SeenOK(w) ==
  /\ Place(w) \in {"startMain", "runKernel"} => Seen(<<w, "additional">>) = {}
  /\ Place(w) = "runKernel" => Seen(<<w, "mainMeasurer">>) = {}
  /\ Place(w) \in Ran => /\ Seen(<<w, "mainMeasurer">>) = {<<w, "kernel">>}
                         /\ Seen(<<w, "additional">>) = {<<w, "kernel">>}
  /\ InRun /\ Place(w) \in WarmedUp => <<w, "warm">> \in Seen(<<w, "validation">>)
  /\ InRun /\ Place(w) \in HasRun => /\ <<w, "kernel">> \in Seen(<<w, "validation">>)
                                     /\ <<w, "kernel">> \in Seen(Overall)

AllSeenOK == \A w \in Workload : SeenOK(w)

----------------------------------------------------------------------------
(* The outputs.                                                            *)

Output == [of : Workload \cup {None},
           seen : [Set -> SUBSET (Thread \X What)] \cup [{"overall"} -> SUBSET (Thread \X What)]]

\* An output of the measurers of w, of the overall measurers, and of a run.
OutputOf(o, w) ==
  /\ o.of = w
  /\ o.seen["mainMeasurer"] = {<<w, "kernel">>}
  /\ o.seen["additional"] = {<<w, "kernel">>}
  /\ {<<w, "warm">>, <<w, "kernel">>} \subseteq o.seen["validation"]
OverallOutput(o) == o.of = None /\ \A w \in Workload : <<w, "kernel">> \in o.seen["overall"]
RunComplete(run) ==
  /\ Len(run) = Cardinality(Workload) + 1
  /\ \A w \in Workload : \E j \in DOMAIN run : OutputOf(run[j], w)
  /\ \E j \in DOMAIN run : OverallOutput(run[j])

Done == {w \in Workload : Place(w) \in Disposing \cup {"exited"}}

OutputsOK ==
  /\ outputs \in Seq(Seq(Output)) /\ runOutput \in Seq(Output)
  /\ Len(outputs) <= RunCount /\ exitStatus \in {None, 0, 1}
  /\ exitStatus = 0 => Len(outputs) = RunCount
  /\ \A i \in DOMAIN outputs : RunComplete(outputs[i])
  /\ InRun => /\ Len(outputs) < RunCount
              /\ Len(runOutput) = Cardinality(Done)
              /\ \A w \in Done : \E j \in DOMAIN runOutput : OutputOf(runOutput[j], w)

----------------------------------------------------------------------------
(* The pressure barrier and the kernels that are stopped.                  *)

\* The workload of the rule has passed the barrier, or is at it.
Passed(i) ==
  LET w == Rules[i].of
  IN \/ Place(w) \in ({"startMain", "runKernel"} \cup HasRun)
     \/ Place(w) = "startAdditional" /\ (pc[w] \in Dispatching => i \notin raised[w].todo)
AtBarrier(i) == pc[Rules[i].of] \in {"open", "spin"} /\ Current(Rules[i].of) = i
Arrived == {i \in PressureRules : Passed(i) \/ AtBarrier(i)}

PressureOK ==
  /\ pressure \in 0 .. Threshold /\ pressureOpen \in BOOLEAN
  /\ InRun =>
       /\ pressure = Cardinality(Arrived)
       /\ (pressureOpen \/ \E t \in Thread : pc[t] = "open") => pressure >= Threshold
       /\ \A i \in PressureRules : Passed(i) => pressureOpen

\* A load that has been stopped, and an endless kernel that has ended.
Stops(i, w) == Rules[i].action = "stopKernel" /\ Rules[i].event = "Stop" /\ Rules[i].target = w
LoadOK ==
  /\ keepRunning \in [Workload -> BOOLEAN] /\ opened \subseteq DOMAIN Rules
  /\ InRun =>
       /\ \A w \in measurement.endless : Place(w) \in (HasRun \ {"running"}) => ~ keepRunning[w]
       /\ \A w \in Workload, i \in DOMAIN Rules : Stops(i, w) /\ ~ keepRunning[w] =>
            Place(Rules[i].of) \in ({"addOutput"} \cup Disposing \cup {"exited"})

RunInv == ControlOK /\ StatesOK /\ AllSeenOK /\ OutputsOK /\ PressureOK /\ LoadOK

----------------------------------------------------------------------------
(* Control.                                                                *)

\* The least of a set of numbers is one of them.
LEMMA LeastIsIn ==
  ASSUME NEW S \in SUBSET Nat, S # {}
  PROVE  Min(S) \in S
  <1>1. PICK x \in S : \A y \in S : ~ (<<y, x>> \in OpToRel(<, Nat))
      BY NatLessThanWellFounded, WFMin, Zenon
  <1>2. \A y \in S : x <= y
    <2> SUFFICES ASSUME NEW y \in S
                 PROVE  x <= y
        OBVIOUS
    <2>1. ~ (y < x)
        BY <1>1 DEF OpToRel
    <2> QED
        BY <2>1
  <1> QED
      BY <1>2 DEF Min

\* The rules of the measurement.
LEMMA RulesType ==
  ASSUME measurement \in Measurements
  PROVE  /\ Rules \in Seq(Rule) /\ DOMAIN Rules \in SUBSET Nat /\ IsFiniteSet(DOMAIN Rules)
         /\ \A i \in DOMAIN Rules : Rules[i] \in Rule
         /\ measurement.endless \subseteq Workload
         /\ IsFiniteSet(PressureRules) /\ Threshold \in Nat
  <1>1. Rules \in Seq(Rule) /\ measurement.endless \subseteq Workload
      BY MeasurementAssumption DEF Rules
  <1>2. DOMAIN Rules = 1 .. Len(Rules) /\ Len(Rules) \in Nat /\ \A i \in DOMAIN Rules : Rules[i] \in Rule
      BY <1>1
  <1>3. IsFiniteSet(DOMAIN Rules)
      BY <1>2, FS_Interval
  <1>4. IsFiniteSet(PressureRules)
      BY <1>3, FS_Subset DEF PressureRules
  <1>5. Threshold \in Nat
      BY <1>4, FS_CardinalityType DEF Threshold
  <1> QED
      BY <1>1, <1>2, <1>3, <1>4, <1>5

\* None is not an event that is dispatched.
LEMMA NoneRaised ==
  None \notin Raised /\ Main \in Thread /\ (\A w \in Workload : w \in Thread /\ w # Main)
  BY NoneAssumption, ThreadAssumption DEF Thread

\* Where a thread goes on is not where it dispatches.
LEMMA PlacesDisjoint ==
  \A p \in WorkloadPlace \cup MainPlace : p \notin Dispatching /\ p \in Pc
  BY DEF Pc, Dispatching, Unprepared, Prepared, Warming, Starting, Ran,
     Disposing, WorkloadPlace, BeforeWorkloads, AfterWorkloads, MainPlace

\* A thread that runs a workload has been started and was not joined.
LEMMA Busy ==
  ASSUME ControlOK, NEW w \in Workload, pc[w] \notin {"unborn", "exited"}
  PROVE  Place(Main) = "startWorkloads"
  BY DEF ControlOK, MainPlace

----------------------------------------------------------------------------
(* Moves.                                                                  *)

\* All threads but t stay where they are.
OthersStay(t) ==
  /\ measurement' = measurement
  /\ pc' \in [Thread -> Pc] /\ raised' \in [Thread -> Raised \cup {None}]
  /\ \A u \in Thread : u # t => pc'[u] = pc[u] /\ raised'[u] = raised[u]

\* What t does after a step.
AfterwardsOK(t) ==
  IF pc'[t] \in Dispatching THEN DispatchOK(t)' ELSE raised'[t] = None

\* A thread goes from one place to the next one, and may raise an event on its way.
Moves(t, from, to) ==
  /\ OthersStay(t) /\ AfterwardsOK(t)
  /\ pc[t] = from /\ Place(t) = from /\ Place(t)' = to
  /\ pc'[t] \in Dispatching =>
       /\ pc'[t] = "rules"
       /\ raised'[t].todo = {i \in DOMAIN Rules : Matches(i, raised'[t].event, t)}

\* A thread dispatches its event.
Stays(t) ==
  OthersStay(t) /\ AfterwardsOK(t) /\ pc[t] \in Dispatching /\ Place(t)' = Place(t)

\* The others are where they were.
LEMMA OthersPlace ==
  ASSUME NEW t \in Thread, OthersStay(t)
  PROVE  \A u \in Thread : u # t => Place(u)' = Place(u)
  BY DEF OthersStay, Place

\* Where threads go without an event.
LEMMA GotoMoves ==
  ASSUME ControlOK, NEW t \in Thread, NEW from \in WorkloadPlace \cup MainPlace,
         NEW to \in WorkloadPlace \cup MainPlace,
         pc[t] = from, Goto(t, to), raised' = raised, measurement' = measurement
  PROVE  Moves(t, from, to)
  <1>1. pc \in [Thread -> Pc] /\ raised \in [Thread -> Raised \cup {None}]
        /\ from \notin Dispatching /\ to \notin Dispatching /\ to \in Pc /\ raised[t] = None
      BY PlacesDisjoint DEF ControlOK
  <1>2. pc'[t] = to /\ pc' \in [Thread -> Pc] /\ \A u \in Thread : u # t => pc'[u] = pc[u]
      BY <1>1 DEF Goto
  <1>3. Place(t) = from /\ Place(t)' = to
      BY <1>1, <1>2 DEF Place
  <1> QED
      BY <1>1, <1>2, <1>3 DEF Moves, OthersStay, AfterwardsOK

\* Where they go with one.
LEMMA RaiseMoves ==
  ASSUME ControlOK, NEW t \in Thread, NEW from \in WorkloadPlace \cup MainPlace, NEW event, NEW to,
         <<event, to>> \in After, Raise(t, from, event, to)
  PROVE  Moves(t, from, to) /\ raised'[t].event = event /\ pc'[t] = "rules"
  <1>1. pc \in [Thread -> Pc] /\ raised \in [Thread -> Raised \cup {None}]
        /\ from \notin Dispatching /\ "rules" \in Pc /\ "rules" \in Dispatching
      BY PlacesDisjoint DEF ControlOK, Pc, Dispatching
  <1>2. pc[t] = from /\ measurement' = measurement
        /\ pc'[t] = "rules" /\ pc' \in [Thread -> Pc] /\ \A u \in Thread : u # t => pc'[u] = pc[u]
      BY <1>1 DEF Raise, At, Goto
  <1> DEFINE todo == {i \in DOMAIN Rules : Matches(i, event, t)}
             R == [event |-> event, then |-> to, todo |-> todo]
  <1>3. todo \in SUBSET Nat
      BY RulesType DEF ControlOK
  <1>4. R \in Raised
      BY <1>3 DEF Raised, After, Event
  <1>5. R.event = event /\ R.then = to /\ R.todo = todo
      OBVIOUS
  <1> HIDE DEF R
  <1>6. raised'[t] = R /\ raised' \in [Thread -> Raised \cup {None}]
        /\ \A u \in Thread : u # t => raised'[u] = raised[u]
    <2>1. raised' = [raised EXCEPT ![t] = R]
        BY DEF Raise, R
    <2> QED
        BY <1>1, <1>4, <2>1
  <1>7. Place(t) = from /\ Place(t)' = to
      BY <1>1, <1>2, <1>5, <1>6 DEF Place
  <1>8. Rules' = Rules
      BY <1>2 DEF Rules
  <1>9. DispatchOK(t)'
    <2>1. raised'[t].todo = todo /\ raised'[t].event = event /\ raised'[t].then = to
        BY <1>5, <1>6
    <2>2. \A i \in todo : i \in DOMAIN Rules' /\ Matches(i, event, t)'
        BY <1>8 DEF Matches
    <2>3. pc'[t] \notin {"open", "spin"}
        BY <1>2
    <2> QED
        BY <1>4, <1>6, <2>1, <2>2, <2>3 DEF DispatchOK
  <1> QED
      BY <1>1, <1>2, <1>5, <1>6, <1>7, <1>9 DEF Moves, OthersStay, AfterwardsOK

\* The control of the run after a step of a workload.
LEMMA WorkloadControl ==
  ASSUME ControlOK, NEW w \in Workload, OthersStay(w), AfterwardsOK(w), Place(w)' \in WorkloadPlace,
         Place(Main) = "startWorkloads"
  PROVE  ControlOK' /\ Place(Main)' = Place(Main) /\ InRun /\ InRun'
  <1>1. \A u \in Thread : u # w => Place(u)' = Place(u)
      BY OthersPlace, NoneRaised
  <1>2. Place(Main)' = "startWorkloads"
      BY <1>1, NoneRaised
  <1>3. measurement' \in Measurements /\ pc' \in [Thread -> Pc] /\ raised' \in [Thread -> Raised \cup {None}]
      BY DEF OthersStay, ControlOK
  <1>4. ASSUME NEW u \in Thread
        PROVE  IF pc'[u] \in Dispatching THEN DispatchOK(u)' ELSE raised'[u] = None
    <2>1. CASE u = w
        BY <2>1 DEF AfterwardsOK
    <2>2. CASE u # w
      <3>1. pc'[u] = pc[u] /\ raised'[u] = raised[u] /\ Rules' = Rules
          BY <2>2 DEF OthersStay, Rules
      <3>2. DispatchOK(u) => DispatchOK(u)'
          BY <3>1 DEF DispatchOK, Matches, Current
      <3> QED
          BY <3>1, <3>2 DEF ControlOK
    <2> QED
        BY <2>1, <2>2
  <1>5. \A v \in Workload : Place(v)' \in WorkloadPlace
      BY <1>1, NoneRaised DEF ControlOK
  <1>6. "startWorkloads" \notin BeforeWorkloads /\ "startWorkloads" \notin AfterWorkloads
        /\ "startWorkloads" \in MainPlace /\ "startWorkloads" # "nextRun"
      BY DEF BeforeWorkloads, AfterWorkloads, MainPlace
  <1> QED
      BY <1>2, <1>3, <1>4, <1>5, <1>6 DEF ControlOK, InRun

\* The control of the run after a step of the main thread that starts no run.
LEMMA MainControl ==
  ASSUME ControlOK, OthersStay(Main), AfterwardsOK(Main), Place(Main)' \in MainPlace,
         Place(Main)' \in BeforeWorkloads => Place(Main) \in BeforeWorkloads,
         Place(Main)' \in AfterWorkloads =>
           Place(Main) \in AfterWorkloads \/ \A w \in Workload : pc[w] = "exited"
  PROVE  ControlOK' /\ (\A w \in Workload : Place(w)' = Place(w) /\ pc'[w] = pc[w] /\ raised'[w] = raised[w])
  <1>1. \A u \in Thread : u # Main => Place(u)' = Place(u) /\ pc'[u] = pc[u] /\ raised'[u] = raised[u]
      BY OthersPlace, NoneRaised DEF OthersStay
  <1>2. measurement' \in Measurements /\ pc' \in [Thread -> Pc] /\ raised' \in [Thread -> Raised \cup {None}]
      BY DEF OthersStay, ControlOK
  <1>3. ASSUME NEW u \in Thread
        PROVE  IF pc'[u] \in Dispatching THEN DispatchOK(u)' ELSE raised'[u] = None
    <2>1. CASE u = Main
        BY <2>1 DEF AfterwardsOK
    <2>2. CASE u # Main
      <3>1. pc'[u] = pc[u] /\ raised'[u] = raised[u] /\ Rules' = Rules
          BY <2>2 DEF OthersStay, Rules
      <3>2. DispatchOK(u) => DispatchOK(u)'
          BY <3>1 DEF DispatchOK, Matches, Current
      <3> QED
          BY <3>1, <3>2 DEF ControlOK
    <2> QED
        BY <2>1, <2>2
  <1>4. \A w \in Workload : w \in Thread /\ w # Main
      BY NoneRaised
  <1> QED
      BY <1>1, <1>2, <1>3, <1>4 DEF ControlOK

\* What the steps of a dispatch do to the control.
LEMMA DispatchStays ==
  ASSUME ControlOK, NEW t \in Thread, Dispatch(t)
  PROVE  Stays(t)
  <1>1. pc \in [Thread -> Pc] /\ raised \in [Thread -> Raised \cup {None}]
        /\ {"rules", "open", "spin"} \subseteq Pc /\ Dispatching = {"rules", "open", "spin"}
      BY DEF ControlOK, Pc, Dispatching
  <1>2. pc[t] \in Dispatching /\ measurement' = measurement
      BY <1>1 DEF Dispatch, StopKernel, WaitForWorkload, AddPressure, OpenPressureBarrier,
         PassPressureBarrier, NotifyListeners, RuleAt, At
  <1>3. DispatchOK(t) /\ Rules' = Rules
      BY <1>2 DEF ControlOK, Rules
  <1>4. ASSUME RuleDone(t)
        PROVE  /\ raised' \in [Thread -> Raised \cup {None}]
               /\ \A u \in Thread : u # t => raised'[u] = raised[u]
               /\ raised'[t] \in Raised /\ raised'[t].event = raised[t].event
               /\ raised'[t].then = raised[t].then /\ raised'[t].todo = raised[t].todo \ {Current(t)}
    <2> DEFINE R == [raised[t] EXCEPT !.todo = raised[t].todo \ {Current(t)}]
    <2>1. raised' = [raised EXCEPT ![t] = R]
        BY <1>4 DEF RuleDone
    <2>2. R \in Raised /\ R.event = raised[t].event /\ R.then = raised[t].then
          /\ R.todo = raised[t].todo \ {Current(t)}
        BY <1>3 DEF DispatchOK, Raised
    <2> HIDE DEF R
    <2> QED
        BY <1>1, <2>1, <2>2
  <1>5. CASE pc' = pc /\ RuleDone(t) /\ pc[t] = "rules"
    <2>1. Place(t)' = Place(t)
        BY <1>4, <1>5 DEF Place, Dispatching
    <2>2. DispatchOK(t)'
        BY <1>3, <1>4, <1>5 DEF DispatchOK, Matches
    <2> QED
        BY <1>1, <1>2, <1>4, <1>5, <2>1, <2>2 DEF Stays, OthersStay, AfterwardsOK
  <1>6. CASE AddPressure(t)
    <2>1. raised' = raised /\ pc'[t] \in {"open", "spin"} /\ pc' \in [Thread -> Pc]
          /\ \A u \in Thread : u # t => pc'[u] = pc[u]
        BY <1>1, <1>6 DEF AddPressure, Goto
    <2>2. raised[t].todo # {} /\ Rules[Current(t)].action = "waitForPressureBarrier"
        BY <1>6 DEF AddPressure, RuleAt
    <2>3. DispatchOK(t)' /\ Place(t)' = Place(t)
        BY <1>1, <1>2, <1>3, <2>1, <2>2 DEF DispatchOK, Place, Matches, Current
    <2> QED
        BY <1>1, <1>2, <2>1, <2>3 DEF Stays, OthersStay, AfterwardsOK
  <1>7. CASE OpenPressureBarrier(t)
    <2>1. raised' = raised /\ pc'[t] = "spin" /\ pc' \in [Thread -> Pc] /\ pc[t] = "open"
          /\ \A u \in Thread : u # t => pc'[u] = pc[u]
        BY <1>1, <1>7 DEF OpenPressureBarrier, At, Goto
    <2>2. DispatchOK(t)' /\ Place(t)' = Place(t)
        BY <1>1, <1>2, <1>3, <2>1 DEF DispatchOK, Place, Matches, Current
    <2> QED
        BY <1>1, <1>2, <2>1, <2>2 DEF Stays, OthersStay, AfterwardsOK
  <1>8. CASE PassPressureBarrier(t)
    <2>1. RuleDone(t) /\ pc'[t] = "rules" /\ pc' \in [Thread -> Pc]
          /\ \A u \in Thread : u # t => pc'[u] = pc[u]
        BY <1>1, <1>8 DEF PassPressureBarrier, Goto
    <2>2. DispatchOK(t)' /\ Place(t)' = Place(t)
        BY <1>1, <1>2, <1>3, <1>4, <2>1 DEF DispatchOK, Place, Matches
    <2> QED
        BY <1>1, <1>2, <1>4, <2>1, <2>2 DEF Stays, OthersStay, AfterwardsOK
  <1>9. CASE NotifyListeners(t)
    <2>1. raised[t].then \in WorkloadPlace \cup MainPlace
        BY <1>3 DEF DispatchOK, Raised, WorkloadPlace, MainPlace, Prepared, Starting, Ran, BeforeWorkloads,
           AfterWorkloads
    <2>2. pc'[t] = raised[t].then /\ pc' \in [Thread -> Pc] /\ raised'[t] = None
          /\ raised' \in [Thread -> Raised \cup {None}]
          /\ \A u \in Thread : u # t => pc'[u] = pc[u] /\ raised'[u] = raised[u]
        BY <1>1, <1>9, <2>1, PlacesDisjoint DEF NotifyListeners, Goto
    <2>3. pc'[t] \notin Dispatching /\ Place(t)' = Place(t)
        BY <1>2, <2>1, <2>2, PlacesDisjoint DEF Place
    <2> QED
        BY <1>1, <1>2, <2>2, <2>3 DEF Stays, OthersStay, AfterwardsOK
  <1> QED
      BY <1>5, <1>6, <1>7, <1>8, <1>9 DEF Dispatch, StopKernel, WaitForWorkload, RuleAt, At

----------------------------------------------------------------------------
(* Measurers.                                                              *)

\* What the measurers of a set are in after a call, and what the others are in.
LEMMA EnterEffect ==
  ASSUME measurer \in [Measurer -> MeasurerRec], NEW X \in SUBSET Measurer,
         NEW s \in {"new", "ready", "started", "stopped", "read", "disposed"}, Enter(X, s)
  PROVE  /\ measurer' \in [Measurer -> MeasurerRec]
         /\ \A x \in X : /\ measurer'[x].state = s /\ measurer'[x].seen = measurer[x].seen
                         /\ measurer'[x].odd = ~ measurer[x].odd
         /\ \A x \in Measurer \ X : measurer'[x] = measurer[x]
  <1>1. ASSUME NEW x \in Measurer
        PROVE  /\ Called(x, s) \in MeasurerRec /\ Called(x, s).state = s
               /\ Called(x, s).seen = measurer[x].seen /\ Called(x, s).odd = ~ measurer[x].odd
    <2>1. measurer[x] \in MeasurerRec
        OBVIOUS
    <2> QED
        BY <2>1 DEF Called, MeasurerRec
  <1> QED
      BY <1>1 DEF Enter

\* The same for a call after which they see anew.
LEMMA AfreshEffect ==
  ASSUME measurer \in [Measurer -> MeasurerRec], NEW X \in SUBSET Measurer,
         NEW s \in {"new", "ready", "started", "stopped", "read", "disposed"}, Afresh(X, s)
  PROVE  /\ measurer' \in [Measurer -> MeasurerRec]
         /\ \A x \in X : /\ measurer'[x].state = s /\ measurer'[x].seen = {}
                         /\ measurer'[x].odd = ~ measurer[x].odd
         /\ \A x \in Measurer \ X : measurer'[x] = measurer[x]
  <1> DEFINE C(x) == [Called(x, s) EXCEPT !.seen = {}]
  <1>1. ASSUME NEW x \in Measurer
        PROVE  C(x) \in MeasurerRec /\ C(x).state = s /\ C(x).seen = {} /\ C(x).odd = ~ measurer[x].odd
    <2>1. measurer[x] \in MeasurerRec
        OBVIOUS
    <2> QED
        BY <2>1 DEF Called, MeasurerRec
  <1>2. measurer' = [x \in Measurer |-> IF x \in X THEN C(x) ELSE measurer[x]]
      BY DEF Afresh
  <1> HIDE DEF C
  <1> QED
      BY <1>1, <1>2

\* What the measurers that watch the thread t have seen after it did something.
Watches(x, t) == measurer[x].state = "started" /\ (x = Overall \/ x[1] = t)
LEMMA SeenEffect ==
  ASSUME measurer \in [Measurer -> MeasurerRec], NEW t \in Thread, NEW what \in What, SeenBy(t, what)
  PROVE  /\ measurer' \in [Measurer -> MeasurerRec]
         /\ \A x \in Measurer :
              /\ measurer'[x].state = measurer[x].state /\ measurer'[x].odd = measurer[x].odd
              /\ Watches(x, t) => measurer'[x].seen = measurer[x].seen \cup {<<t, what>>}
              /\ ~ Watches(x, t) => measurer'[x].seen = measurer[x].seen
  <1> DEFINE C(x) == [measurer[x] EXCEPT !.seen = measurer[x].seen \cup {<<t, what>>}]
  <1>1. ASSUME NEW x \in Measurer
        PROVE  /\ C(x) \in MeasurerRec /\ C(x).state = measurer[x].state /\ C(x).odd = measurer[x].odd
               /\ C(x).seen = measurer[x].seen \cup {<<t, what>>}
    <2>1. measurer[x] \in MeasurerRec
        OBVIOUS
    <2>2. measurer[x].seen \cup {<<t, what>>} \in SUBSET (Thread \X What)
        BY <2>1 DEF MeasurerRec
    <2> QED
        BY <2>1, <2>2 DEF MeasurerRec
  <1>2. measurer' = [x \in Measurer |-> IF Watches(x, t) THEN C(x) ELSE measurer[x]]
      BY DEF SeenBy, Watches
  <1> HIDE DEF C, Watches
  <1> QED
      BY <1>1, <1>2

\* The measurers of a workload, and those of all workloads.
LEMMA Measurers ==
  /\ \A w \in Workload, s \in Set : /\ <<w, s>> \in Measurer /\ <<w, s>> # Overall /\ <<w, s>>[1] = w
                                    /\ <<w, s>>[2] = s
  /\ Overall \in Measurer /\ Overall[1] = Main
  /\ \A x \in Measurer : x = Overall \/ \E w \in Workload, s \in Set : x = <<w, s>>
  /\ \A w \in Workload, v \in Workload, s \in Set, r \in Set : <<w, s>> = <<v, r>> => w = v /\ s = r
  <1>1. \A w \in Workload : w # Main
      BY NoneRaised
  <1> QED
      BY <1>1 DEF Measurer, Overall

----------------------------------------------------------------------------
(* The way of a workload.                                                  *)

\* The places of Workload::startInThread(), one after the other.
Follows(p, q) ==
  \/ p = "unborn" /\ q = "initKernel"
  \/ p = "initKernel" /\ q = "initMeasurers"
  \/ p = "initMeasurers" /\ q = "raiseStart"
  \/ p = "raiseStart" /\ q = "startValidation"
  \/ p = "startValidation" /\ q = "warmAdditional"
  \/ p = "warmAdditional" /\ q = "stopWarmAdditional"
  \/ p = "stopWarmAdditional" /\ q = "warmMain"
  \/ p = "warmMain" /\ q = "stopWarmMain"
  \/ p = "stopWarmMain" /\ q = "warmCaches"
  \/ p = "warmCaches" /\ q = "raiseKernelStart"
  \/ p = "raiseKernelStart" /\ q = "startAdditional"
  \/ p = "startAdditional" /\ q = "startMain"
  \/ p = "startMain" /\ q = "runKernel"
  \/ p = "runKernel" /\ q = "running"
  \/ p = "running" /\ q = "stopMain"
  \/ p = "stopMain" /\ q = "stopAdditional"
  \/ p = "stopAdditional" /\ q = "raiseKernelStop"
  \/ p = "raiseKernelStop" /\ q = "stopValidation"
  \/ p = "stopValidation" /\ q = "raiseStop"
  \/ p = "raiseStop" /\ q = "addOutput"
  \/ p = "addOutput" /\ q = "disposeKernel"
  \/ p = "disposeKernel" /\ q = "disposeMeasurers"
  \/ p = "disposeMeasurers" /\ q = "exited"

LEMMA FollowsPlaces ==
  ASSUME NEW p, NEW q, Follows(p, q)
  PROVE  p \in WorkloadPlace /\ q \in WorkloadPlace /\ p # "exited" /\ q # "unborn"
  BY DEF Follows, Unprepared, Prepared, Warming, Starting, Ran, Disposing, WorkloadPlace

\* A step of a workload leaves the other workloads alone.
LEMMA OtherWorkloads ==
  ASSUME NEW t \in Thread, OthersStay(t)
  PROVE  \A v \in Workload : v # t => Place(v)' = Place(v) /\ pc'[v] = pc[v] /\ raised'[v] = raised[v]
  BY OthersPlace, NoneRaised DEF OthersStay

\* It comes to the pressure barrier when it has raised the event for it.
LEMMA MovesPressure ==
  ASSUME ControlOK, PressureOK, NEW w \in Workload, NEW p, NEW q, Moves(w, p, q), Follows(p, q),
         InRun, p = "raiseKernelStart" => pc'[w] = "rules" /\ raised'[w].event = "KernelStart",
         pressure' = pressure, pressureOpen' = pressureOpen
  PROVE  PressureOK'
  <1>1. Rules' = Rules /\ PressureRules' = PressureRules /\ Threshold' = Threshold
      BY DEF Moves, OthersStay, Rules, PressureRules, Threshold
  <1>2. ASSUME NEW i \in PressureRules
        PROVE  (Passed(i)' <=> Passed(i)) /\ (AtBarrier(i)' <=> AtBarrier(i))
    <2>1. Rules[i].of \in Workload /\ Rules[i].event = "KernelStart" /\ i \in DOMAIN Rules
        BY PressureAssumption DEF PressureRules, Rules, ControlOK
    <2>2. CASE Rules[i].of # w
      <3>1. PICK v \in Workload : v = Rules[i].of
          BY <2>1
      <3>2. Place(v)' = Place(v) /\ pc'[v] = pc[v] /\ raised'[v] = raised[v]
          BY <2>2, <3>1, NoneRaised, OtherWorkloads DEF Moves
      <3> QED
          BY <1>1, <3>1, <3>2 DEF Passed, AtBarrier, Current, Dispatching
    <2>3. CASE Rules[i].of = w
      <3>1. Rules'[i].of = w /\ pc[w] = p /\ Place(w) = p /\ Place(w)' = q
            /\ pc'[w] \notin {"open", "spin"} /\ p \notin Dispatching
          BY <1>1, <2>3, FollowsPlaces, PlacesDisjoint DEF Moves, Dispatching
      <3>2. ~ AtBarrier(i) /\ ~ AtBarrier(i)'
          BY <2>3, <3>1 DEF AtBarrier, Dispatching
      <3>3. CASE p = "raiseKernelStart"
        <4>1. Place(w)' = "startAdditional" /\ pc'[w] \in Dispatching /\ i \in raised'[w].todo
            BY <2>1, <2>3, <3>1, <3>3 DEF Follows, Moves, Dispatching, Matches
        <4>2. ~ Passed(i)'
            BY <3>1, <4>1 DEF Passed, HasRun, Ran, Disposing
        <4>3. ~ Passed(i)
            BY <2>3, <3>1, <3>3 DEF Passed, HasRun, Ran, Disposing
        <4> QED
            BY <3>2, <4>2, <4>3
      <3>4. CASE p = "startAdditional"
        <4>1. Passed(i) /\ Passed(i)'
            BY <2>3, <3>1, <3>4 DEF Passed, Follows
        <4> QED
            BY <3>2, <4>1
      <3>5. CASE p \notin {"raiseKernelStart", "startAdditional"}
        <4>1. Place(w) # "startAdditional" /\ Place(w)' # "startAdditional"
              /\ (p \in {"startMain", "runKernel"} \cup HasRun <=> q \in {"startMain", "runKernel"} \cup HasRun)
            BY <3>1, <3>5 DEF Follows, HasRun, Ran, Disposing
        <4>2. Passed(i)' <=> Passed(i)
            BY <2>3, <3>1, <4>1 DEF Passed
        <4> QED
            BY <3>2, <4>2
      <3> QED
          BY <3>3, <3>4, <3>5
    <2> QED
        BY <2>2, <2>3
  <1>3. Arrived' = Arrived
      BY <1>1, <1>2 DEF Arrived
  <1>4. \A t \in Thread : pc'[t] = "open" => pc[t] = "open"
    <2>1. pc'[w] # "open"
        BY DEF Moves, Dispatching
    <2> QED
        BY <2>1 DEF Moves, OthersStay
  <1> QED
      BY <1>1, <1>2, <1>3, <1>4 DEF PressureOK

\* An endless kernel that has been stopped ends.
LEMMA MovesLoad ==
  ASSUME ControlOK, LoadOK, NEW w \in Workload, NEW p, NEW q, Moves(w, p, q), Follows(p, q),
         InRun, p = "running" /\ w \in measurement.endless => ~ keepRunning[w],
         keepRunning' = keepRunning, opened' = opened
  PROVE  LoadOK'
  <1>1. Rules' = Rules /\ measurement' = measurement
      BY DEF Moves, OthersStay, Rules
  <1>2. keepRunning' \in [Workload -> BOOLEAN] /\ opened' \subseteq DOMAIN Rules'
      BY <1>1 DEF LoadOK
  <1>3. ASSUME NEW v \in measurement.endless, Place(v)' \in HasRun \ {"running"}
        PROVE  ~ keepRunning[v]
    <2>1. v \in Workload
        BY RulesType DEF ControlOK
    <2>2. CASE v = w
      <3>1. p \in HasRun
          BY <1>3, <2>2 DEF Moves, Follows, HasRun, Ran, Disposing
      <3> QED
          BY <2>2, <3>1 DEF Moves, LoadOK
    <2>3. CASE v # w
        BY <1>3, <2>1, <2>3, OtherWorkloads, NoneRaised DEF Moves, LoadOK
    <2> QED
        BY <2>2, <2>3
  <1>4. ASSUME NEW v \in Workload, NEW i \in DOMAIN Rules, Stops(i, v), ~ keepRunning[v]
        PROVE  Place(Rules[i].of)' \in {"addOutput"} \cup Disposing \cup {"exited"}
    <2>1. Rules[i].of \in Workload /\ Place(Rules[i].of) \in {"addOutput"} \cup Disposing \cup {"exited"}
      <3>1. Rules[i].of \in Workload
          BY <1>4, LoadAssumption DEF Stops, ControlOK, Rules
      <3> QED
          BY <1>4, <3>1 DEF LoadOK
    <2>2. CASE Rules[i].of = w
      <3>1. p \in {"addOutput"} \cup Disposing \cup {"exited"}
          BY <2>1, <2>2 DEF Moves
      <3>2. q \in {"addOutput"} \cup Disposing \cup {"exited"}
          BY <3>1 DEF Follows, Disposing
      <3>3. Rules'[i].of = w /\ Place(w)' = q
          BY <1>1, <2>2 DEF Moves
      <3> QED
          BY <3>2, <3>3
    <2>3. CASE Rules[i].of # w
      <3>1. PICK u \in Workload : u = Rules[i].of
          BY <2>1
      <3>2. Place(u)' = Place(u) /\ Rules'[i].of = u
          BY <1>1, <2>3, <3>1, OtherWorkloads, NoneRaised DEF Moves
      <3> QED
          BY <2>1, <3>1, <3>2
    <2> QED
        BY <2>2, <2>3
  <1> QED
      BY <1>1, <1>2, <1>3, <1>4 DEF LoadOK, Stops

\* Nothing is output but by AddOutput.
LEMMA MovesOutputs ==
  ASSUME OutputsOK, NEW w \in Workload, NEW p, NEW q, Moves(w, p, q), Follows(p, q), p # "addOutput",
         InRun, UNCHANGED <<runOutput, outputs, exitStatus>>
  PROVE  OutputsOK'
  <1>1. \A v \in Workload : Place(v)' \in Disposing \cup {"exited"} <=> Place(v) \in Disposing \cup {"exited"}
    <2>1. q \in Disposing \cup {"exited"} <=> p \in Disposing \cup {"exited"}
        BY DEF Follows, Disposing
    <2> QED
        BY <2>1, OtherWorkloads, NoneRaised DEF Moves
  <1>2. Done' = Done
      BY <1>1 DEF Done
  <1>3. runOutput' = runOutput /\ outputs' = outputs /\ exitStatus' = exitStatus
      OBVIOUS
  <1>4. \A i \in DOMAIN outputs' : RunComplete(outputs'[i])
      BY <1>3 DEF OutputsOK
  <1>5. /\ Len(outputs') < RunCount /\ Len(runOutput') = Cardinality(Done')
        /\ \A v \in Done' : \E j \in DOMAIN runOutput' : OutputOf(runOutput'[j], v)
      BY <1>2, <1>3 DEF OutputsOK
  <1> QED
      BY <1>3, <1>4, <1>5 DEF OutputsOK

----------------------------------------------------------------------------
(* The life cycles of the measurers.                                       *)

\* What a step may do to measurers.
LifeCyclesKept ==
  \A x \in Measurer : [LifeCycle(x)!Next]_<<measurer[x].state, measurer[x].odd>>

\* A call that comes at the right time.
OrderlyCall(x) ==
  /\ measurer'[x].odd = ~ measurer[x].odd
  /\ \/ measurer[x].state \in {"disposed", "read"} /\ measurer'[x].state = "new"
     \/ measurer[x].state = "new" /\ measurer'[x].state = "ready"
     \/ measurer[x].state \in {"ready", "stopped"} /\ measurer'[x].state = "started"
     \/ measurer[x].state = "started" /\ measurer'[x].state = "stopped"
     \/ measurer[x].state = "stopped" /\ measurer'[x].state = "read"
     \/ measurer[x].state = "read" /\ measurer'[x].state = "disposed"
Uncalled(x) == measurer'[x].state = measurer[x].state /\ measurer'[x].odd = measurer[x].odd

LEMMA OrderlyCalls ==
  ASSUME \A x \in Measurer : OrderlyCall(x) \/ Uncalled(x)
  PROVE  LifeCyclesKept
  <1> SUFFICES ASSUME NEW x \in Measurer
               PROVE  [LifeCycle(x)!Next]_<<measurer[x].state, measurer[x].odd>>
      BY DEF LifeCyclesKept
  <1>1. CASE OrderlyCall(x)
    <2>1. LifeCycle(x)!Next
        BY <1>1 DEF OrderlyCall, LifeCycle!Next, LifeCycle!Call, LifeCycle!Clone, LifeCycle!Initialize,
           LifeCycle!Start, LifeCycle!Stop, LifeCycle!Read, LifeCycle!Dispose
    <2> QED
        BY <2>1
  <1>2. CASE Uncalled(x)
      BY <1>2 DEF Uncalled
  <1> QED
      BY <1>1, <1>2

----------------------------------------------------------------------------
(* What the steps of a workload do to measurers and kernels.               *)

\* The measurers of the workload are in the state of the place it moves to.
LEMMA MovesStates ==
  ASSUME StatesOK, NEW w \in Workload, NEW p, NEW q, Moves(w, p, q), measurer' \in [Measurer -> MeasurerRec],
         \A s \in Set : measurer'[<<w, s>>].state = State(s, q),
         \A v \in Workload, s \in Set : v # w => measurer'[<<v, s>>].state = measurer[<<v, s>>].state,
         measurer'[Overall].state = measurer[Overall].state,
         kernel' = [v \in Workload |-> IF v = w THEN KernelState(q) ELSE kernel[v]]
  PROVE  StatesOK'
  <1>1. Place(w)' = q /\ (\A v \in Workload : v # w => Place(v)' = Place(v))
        /\ Place(Main)' = Place(Main)
      BY OthersPlace, NoneRaised DEF Moves
  <1>2. \A v \in Workload, s \in Set : measurer'[<<v, s>>].state = State(s, Place(v)')
      BY <1>1 DEF StatesOK
  <1>3. kernel' = [v \in Workload |-> KernelState(Place(v)')]
      BY <1>1 DEF StatesOK
  <1>4. measurer'[Overall].state \in OverallStates(Place(Main)')
      BY <1>1 DEF StatesOK
  <1> QED
      BY <1>2, <1>3, <1>4 DEF StatesOK

\* What the measurers of a workload have seen is right where it moves to.
LEMMA MovesSeen ==
  ASSUME AllSeenOK, InRun, NEW w \in Workload, NEW p, NEW q, Moves(w, p, q),
         \A v \in Workload, s \in Set : v # w => Seen(<<v, s>>)' = Seen(<<v, s>>),
         Seen(Overall) \subseteq Seen(Overall)', SeenOK(w)'
  PROVE  AllSeenOK'
  <1> SUFFICES ASSUME NEW v \in Workload, v # w
               PROVE  SeenOK(v)'
      BY DEF AllSeenOK
  <1>1. Place(v)' = Place(v)
      BY OthersPlace, NoneRaised DEF Moves
  <1>2. SeenOK(v) /\ \A s \in Set : Seen(<<v, s>>)' = Seen(<<v, s>>)
      BY DEF AllSeenOK
  <1>3. /\ Seen(<<v, "mainMeasurer">>)' = Seen(<<v, "mainMeasurer">>)
        /\ Seen(<<v, "additional">>)' = Seen(<<v, "additional">>)
        /\ Seen(<<v, "validation">>)' = Seen(<<v, "validation">>)
      BY <1>2 DEF Set
  <1> HIDE DEF Seen
  <1> QED
      BY <1>1, <1>2, <1>3 DEF SeenOK

StartsAt(p, s, q) ==
  \/ p = "startValidation" /\ s = "validation" /\ q = "warmAdditional"
  \/ p = "warmAdditional" /\ s = "additional" /\ q = "stopWarmAdditional"
  \/ p = "warmMain" /\ s = "mainMeasurer" /\ q = "stopWarmMain"
  \/ p = "startAdditional" /\ s = "additional" /\ q = "startMain"
  \/ p = "startMain" /\ s = "mainMeasurer" /\ q = "runKernel"

\* The measurers that are started are ready or stopped, and see anew.
LEMMA StartKeeps ==
  ASSUME StatesOK, AllSeenOK, InRun, InRun', NEW w \in Workload, NEW p, NEW s \in Set, NEW q,
         Moves(w, p, q), StartsAt(p, s, q), Afresh({<<w, s>>}, "started"), kernel' = kernel
  PROVE  StatesOK' /\ AllSeenOK' /\ LifeCyclesKept
  <1>1. <<w, s>> \in Measurer
      BY Measurers
  <1>2. /\ measurer' \in [Measurer -> MeasurerRec]
        /\ measurer'[<<w, s>>].state = "started" /\ Seen(<<w, s>>)' = {}
        /\ measurer'[<<w, s>>].odd = ~ measurer[<<w, s>>].odd
        /\ \A x \in Measurer : x # <<w, s>> => measurer'[x] = measurer[x]
      BY <1>1, AfreshEffect DEF StatesOK, Seen
  <1>3. \A r \in Set : r # s => measurer'[<<w, r>>] = measurer[<<w, r>>]
      BY <1>2, Measurers
  <1>4. \A v \in Workload, r \in Set : v # w => measurer'[<<v, r>>] = measurer[<<v, r>>]
      BY <1>2, Measurers
  <1>5. measurer'[Overall] = measurer[Overall]
      BY <1>2, Measurers
  <1>6. \A r \in Set : measurer[<<w, r>>].state = State(r, p)
      BY DEF StatesOK, Moves
  <1>7. State(s, q) = "started" /\ State(s, p) \in {"ready", "stopped"}
        /\ \A r \in Set : r # s => State(r, q) = State(r, p)
      BY DEF StartsAt, State, Set, Unprepared, Unstarted, Started, Prepared, Disposing, Warming, Starting, Ran
  <1>8. KernelState(q) = KernelState(p)
      BY DEF StartsAt, KernelState, Ran
  <1>9. StatesOK'
    <2>1. kernel' = [v \in Workload |-> IF v = w THEN KernelState(q) ELSE kernel[v]]
        BY <1>8 DEF StatesOK, Moves
    <2>2. \A r \in Set : measurer'[<<w, r>>].state = State(r, q)
        BY <1>2, <1>3, <1>6, <1>7
    <2> QED
        BY <1>2, <1>4, <1>5, <2>1, <2>2, MovesStates
  <1>10. SeenOK(w)'
    <2>1. SeenOK(w) /\ Place(w) = p /\ Place(w)' = q
        BY DEF AllSeenOK, Moves
    <2>2. \A r \in Set : r # s => Seen(<<w, r>>)' = Seen(<<w, r>>)
        BY <1>3 DEF Seen
    <2>3. q \notin Ran /\ q \notin HasRun
          /\ (q = "runKernel" => s = "mainMeasurer" /\ p = "startMain")
          /\ (q = "startMain" => s = "additional")
          /\ (q \in WarmedUp => s # "validation" /\ p \in WarmedUp)
        BY DEF StartsAt, Ran, HasRun, Disposing, WarmedUp
    <2>4. q = "startMain" => Seen(<<w, "additional">>)' = {}
        BY <1>2, <2>3
    <2>5. q = "runKernel" => Seen(<<w, "additional">>)' = {} /\ Seen(<<w, "mainMeasurer">>)' = {}
        BY <1>2, <2>1, <2>2, <2>3 DEF SeenOK, Set
    <2>6. q \in WarmedUp => <<w, "warm">> \in Seen(<<w, "validation">>)'
        BY <2>1, <2>2, <2>3 DEF SeenOK, Set
    <2> QED
        BY <2>1, <2>3, <2>4, <2>5, <2>6 DEF SeenOK
  <1>11. AllSeenOK'
    <2>1. \A v \in Workload, r \in Set : v # w => Seen(<<v, r>>)' = Seen(<<v, r>>)
        BY <1>4 DEF Seen
    <2>2. Seen(Overall) \subseteq Seen(Overall)'
        BY <1>5 DEF Seen
    <2> QED
        BY <1>10, <2>1, <2>2, MovesSeen
  <1>12. LifeCyclesKept
    <2>1. OrderlyCall(<<w, s>>)
        BY <1>2, <1>6, <1>7 DEF OrderlyCall
    <2>2. \A x \in Measurer : OrderlyCall(x) \/ Uncalled(x)
        BY <1>2, <2>1 DEF Uncalled
    <2> QED
        BY <2>2, OrderlyCalls
  <1> QED
      BY <1>9, <1>11, <1>12

StopsAt(p, s, q) ==
  \/ p = "stopWarmAdditional" /\ s = "additional" /\ q = "warmMain"
  \/ p = "stopWarmMain" /\ s = "mainMeasurer" /\ q = "warmCaches"
  \/ p = "stopMain" /\ s = "mainMeasurer" /\ q = "stopAdditional"
  \/ p = "stopAdditional" /\ s = "additional" /\ q = "raiseKernelStop"
  \/ p = "stopValidation" /\ s = "validation" /\ q = "raiseStop"

\* The measurers that are stopped are started, and what they have seen is kept.
LEMMA StopKeeps ==
  ASSUME StatesOK, AllSeenOK, InRun, InRun', NEW w \in Workload, NEW p, NEW s \in Set, NEW q,
         Moves(w, p, q), StopsAt(p, s, q), Enter({<<w, s>>}, "stopped"), kernel' = kernel
  PROVE  StatesOK' /\ AllSeenOK' /\ LifeCyclesKept
  <1>1. <<w, s>> \in Measurer
      BY Measurers
  <1>2. /\ measurer' \in [Measurer -> MeasurerRec]
        /\ measurer'[<<w, s>>].state = "stopped"
        /\ measurer'[<<w, s>>].odd = ~ measurer[<<w, s>>].odd
        /\ \A x \in Measurer : x # <<w, s>> => measurer'[x] = measurer[x]
        /\ \A x \in Measurer : Seen(x)' = Seen(x)
      BY <1>1, EnterEffect DEF StatesOK, Seen
  <1>3. \A r \in Set : r # s => measurer'[<<w, r>>] = measurer[<<w, r>>]
      BY <1>2, Measurers
  <1>4. \A v \in Workload, r \in Set : v # w => measurer'[<<v, r>>] = measurer[<<v, r>>]
      BY <1>2, Measurers
  <1>5. measurer'[Overall] = measurer[Overall]
      BY <1>2, Measurers
  <1>6. \A r \in Set : measurer[<<w, r>>].state = State(r, p)
      BY DEF StatesOK, Moves
  <1>7. State(s, q) = "stopped" /\ State(s, p) = "started"
        /\ \A r \in Set : r # s => State(r, q) = State(r, p)
      BY DEF StopsAt, State, Set, Unprepared, Unstarted, Started, Prepared, Disposing, Warming, Starting, Ran
  <1>8. KernelState(q) = KernelState(p)
      BY DEF StopsAt, KernelState, Ran
  <1>9. StatesOK'
    <2>1. kernel' = [v \in Workload |-> IF v = w THEN KernelState(q) ELSE kernel[v]]
        BY <1>8 DEF StatesOK, Moves
    <2>2. \A r \in Set : measurer'[<<w, r>>].state = State(r, q)
        BY <1>2, <1>3, <1>6, <1>7
    <2> QED
        BY <1>2, <1>4, <1>5, <2>1, <2>2, MovesStates
  <1>10. SeenOK(w)'
    <2>1. SeenOK(w) /\ Place(w) = p /\ Place(w)' = q
        BY DEF AllSeenOK, Moves
    <2>2. /\ Seen(<<w, "mainMeasurer">>)' = Seen(<<w, "mainMeasurer">>)
          /\ Seen(<<w, "additional">>)' = Seen(<<w, "additional">>)
          /\ Seen(<<w, "validation">>)' = Seen(<<w, "validation">>)
          /\ Seen(Overall)' = Seen(Overall)
        BY <1>2, Measurers DEF Set
    <2>3. q \notin {"startMain", "runKernel"} /\ (q \in Ran => p \in Ran)
          /\ (q \in HasRun => p \in HasRun) /\ (q \in WarmedUp => p \in WarmedUp)
        BY DEF StopsAt, Ran, HasRun, Disposing, WarmedUp
    <2> HIDE DEF Seen
    <2> QED
        BY <2>1, <2>2, <2>3 DEF SeenOK
  <1>11. AllSeenOK'
    <2>1. \A v \in Workload, r \in Set : v # w => Seen(<<v, r>>)' = Seen(<<v, r>>)
        BY <1>4 DEF Seen
    <2>2. Seen(Overall) \subseteq Seen(Overall)'
        BY <1>5 DEF Seen
    <2> QED
        BY <1>10, <2>1, <2>2, MovesSeen
  <1>12. LifeCyclesKept
    <2>1. OrderlyCall(<<w, s>>)
        BY <1>2, <1>6, <1>7 DEF OrderlyCall
    <2>2. \A x \in Measurer : OrderlyCall(x) \/ Uncalled(x)
        BY <1>2, <2>1 DEF Uncalled
    <2> QED
        BY <2>2, OrderlyCalls
  <1> QED
      BY <1>9, <1>11, <1>12

KernelAt(p, state, what, q) ==
  \/ p = "initKernel" /\ state = "ready" /\ what = "init" /\ q = "initMeasurers"
  \/ p = "warmCaches" /\ state = "ready" /\ what = "warm" /\ q = "raiseKernelStart"
  \/ p = "runKernel" /\ state = "running" /\ what = "kernel" /\ q = "running"
  \/ p = "running" /\ state = "ran" /\ what = "kernel" /\ q = "stopMain"
  \/ p = "disposeKernel" /\ state = "disposed" /\ what = "dispose" /\ q = "disposeMeasurers"

\* What the kernel does is seen by the measurers that are started.
LEMMA KernelKeeps ==
  ASSUME StatesOK, AllSeenOK, InRun, InRun', Place(Main) = "startWorkloads",
         NEW w \in Workload, NEW p, NEW state, NEW what, NEW q,
         Moves(w, p, q), KernelAt(p, state, what, q), SeenBy(w, what),
         kernel' = [kernel EXCEPT ![w] = state]
  PROVE  StatesOK' /\ AllSeenOK' /\ LifeCyclesKept
  <1>1. w \in Thread /\ what \in What
      BY NoneRaised DEF KernelAt, What
  <1>2. /\ measurer' \in [Measurer -> MeasurerRec]
        /\ \A x \in Measurer :
             /\ measurer'[x].state = measurer[x].state /\ measurer'[x].odd = measurer[x].odd
             /\ Watches(x, w) => Seen(x)' = Seen(x) \cup {<<w, what>>}
             /\ ~ Watches(x, w) => Seen(x)' = Seen(x)
      BY <1>1, SeenEffect DEF StatesOK, Seen
  <1>3. \A r \in Set : measurer[<<w, r>>].state = State(r, p)
      BY DEF StatesOK, Moves
  <1>4. \A r \in Set : State(r, q) = State(r, p)
      BY DEF KernelAt, State, Set, Unprepared, Unstarted, Started, Prepared, Disposing, Warming, Starting, Ran
  <1>5. KernelState(q) = state
      BY DEF KernelAt, KernelState, Ran
  <1>6. measurer[Overall].state = "started"
      BY DEF StatesOK, OverallStates
  <1>7. StatesOK'
    <2>1. kernel' = [v \in Workload |-> IF v = w THEN KernelState(q) ELSE kernel[v]]
        BY <1>5 DEF StatesOK
    <2>2. \A r \in Set : measurer'[<<w, r>>].state = State(r, q)
        BY <1>2, <1>3, <1>4, Measurers
    <2>3. /\ \A v \in Workload, r \in Set : v # w => measurer'[<<v, r>>].state = measurer[<<v, r>>].state
          /\ measurer'[Overall].state = measurer[Overall].state
        BY <1>2, Measurers
    <2> QED
        BY <1>2, <2>1, <2>2, <2>3, MovesStates
  <1>8. \A v \in Workload, r \in Set : v # w => Seen(<<v, r>>)' = Seen(<<v, r>>)
    <2> SUFFICES ASSUME NEW v \in Workload, NEW r \in Set, v # w
                 PROVE  Seen(<<v, r>>)' = Seen(<<v, r>>)
        OBVIOUS
    <2>1. <<v, r>> \in Measurer /\ <<v, r>> # Overall /\ <<v, r>>[1] = v
        BY Measurers
    <2>2. ~ Watches(<<v, r>>, w)
        BY <2>1 DEF Watches
    <2> QED
        BY <1>2, <2>1, <2>2
  <1>9. Seen(Overall)' = Seen(Overall) \cup {<<w, what>>}
      BY <1>2, <1>6, Measurers DEF Watches
  <1>10. \A r \in Set : /\ State(r, p) = "started" => Seen(<<w, r>>)' = Seen(<<w, r>>) \cup {<<w, what>>}
                        /\ State(r, p) # "started" => Seen(<<w, r>>)' = Seen(<<w, r>>)
    <2> SUFFICES ASSUME NEW r \in Set
                 PROVE  /\ State(r, p) = "started" => Seen(<<w, r>>)' = Seen(<<w, r>>) \cup {<<w, what>>}
                        /\ State(r, p) # "started" => Seen(<<w, r>>)' = Seen(<<w, r>>)
        OBVIOUS
    <2>1. <<w, r>> \in Measurer /\ <<w, r>>[1] = w /\ measurer[<<w, r>>].state = State(r, p)
        BY <1>3, Measurers
    <2>2. Watches(<<w, r>>, w) <=> State(r, p) = "started"
        BY <2>1 DEF Watches
    <2> QED
        BY <1>2, <2>1, <2>2
  <1>11. SeenOK(w)'
    <2>1. SeenOK(w) /\ Place(w) = p /\ Place(w)' = q
        BY DEF AllSeenOK, Moves
    <2>2. "mainMeasurer" \in Set /\ "additional" \in Set /\ "validation" \in Set
        BY DEF Set
    <2>3. CASE p \in {"initKernel", "warmCaches"}
      <3>1. q \notin {"startMain", "runKernel"} /\ q \notin Ran /\ q \notin HasRun
            /\ (q \in WarmedUp => p = "warmCaches" /\ what = "warm")
          BY <2>3 DEF KernelAt, Ran, HasRun, Disposing, WarmedUp
      <3>2. p = "warmCaches" => State("validation", p) = "started"
          BY DEF State, Unprepared, Unstarted, Started, Prepared, Warming
      <3>3. q \in WarmedUp => <<w, "warm">> \in Seen(<<w, "validation">>)'
          BY <1>10, <2>2, <3>1, <3>2
      <3> QED
          BY <2>1, <3>1, <3>3 DEF SeenOK
    <2>4. CASE p \in {"runKernel", "running"}
      <3>1. q \notin {"startMain", "runKernel"} /\ what = "kernel" /\ p \in WarmedUp
          BY <2>4 DEF KernelAt, WarmedUp, Ran
      <3>2. /\ State("mainMeasurer", p) = "started" /\ State("additional", p) = "started"
            /\ State("validation", p) = "started"
          BY <2>4 DEF State, Unprepared, Unstarted, Started, Prepared, Warming, Starting, Ran
      <3>3. /\ Seen(<<w, "mainMeasurer">>)' = Seen(<<w, "mainMeasurer">>) \cup {<<w, "kernel">>}
            /\ Seen(<<w, "additional">>)' = Seen(<<w, "additional">>) \cup {<<w, "kernel">>}
            /\ Seen(<<w, "validation">>)' = Seen(<<w, "validation">>) \cup {<<w, "kernel">>}
            /\ Seen(Overall)' = Seen(Overall) \cup {<<w, "kernel">>}
          BY <1>9, <1>10, <2>2, <3>1, <3>2
      <3>4. Seen(<<w, "mainMeasurer">>) \in {{}, {<<w, "kernel">>}} /\ Seen(<<w, "additional">>) \in {{}, {<<w, "kernel">>}}
            /\ <<w, "warm">> \in Seen(<<w, "validation">>)
          BY <2>1, <2>4, <3>1 DEF SeenOK, Ran
      <3> HIDE DEF Seen
      <3> QED
          BY <2>1, <3>1, <3>3, <3>4 DEF SeenOK
    <2>5. CASE p = "disposeKernel"
      <3>1. q \notin {"startMain", "runKernel"} /\ q \notin Ran /\ p \in HasRun /\ p \in WarmedUp
          BY <2>5 DEF KernelAt, WarmedUp, Ran, HasRun, Disposing
      <3>2. Seen(<<w, "validation">>) \subseteq Seen(<<w, "validation">>)' /\ Seen(Overall) \subseteq Seen(Overall)'
          BY <1>9, <1>10, <2>2
      <3> HIDE DEF Seen
      <3> QED
          BY <2>1, <3>1, <3>2 DEF SeenOK
    <2> QED
        BY <2>3, <2>4, <2>5 DEF KernelAt
  <1>12. AllSeenOK'
      BY <1>8, <1>9, <1>11, MovesSeen
  <1>13. LifeCyclesKept
      BY <1>2, OrderlyCalls DEF Uncalled
  <1> QED
      BY <1>7, <1>12, <1>13

CallsAt(p, from, to, q) ==
  \/ p = "initMeasurers" /\ from = "new" /\ to = "ready" /\ q = "raiseStart"
  \/ p = "addOutput" /\ from = "stopped" /\ to = "read" /\ q = "disposeKernel"
  \/ p = "disposeMeasurers" /\ from = "read" /\ to = "disposed" /\ q = "exited"

\* The measurers of a workload are initialized, read and disposed.
LEMMA CallsKeep ==
  ASSUME StatesOK, AllSeenOK, InRun, InRun', NEW w \in Workload, NEW p, NEW from, NEW to, NEW q,
         Moves(w, p, q), CallsAt(p, from, to, q), Enter(MeasurerSet(w), to), kernel' = kernel
  PROVE  StatesOK' /\ AllSeenOK' /\ LifeCyclesKept
  <1>1. MeasurerSet(w) \in SUBSET Measurer /\ (\A r \in Set : <<w, r>> \in MeasurerSet(w))
        /\ (\A x \in MeasurerSet(w) : \E r \in Set : x = <<w, r>>)
      BY Measurers DEF MeasurerSet
  <1>2. /\ measurer' \in [Measurer -> MeasurerRec]
        /\ \A x \in MeasurerSet(w) : measurer'[x].state = to /\ measurer'[x].odd = ~ measurer[x].odd
        /\ \A x \in Measurer \ MeasurerSet(w) : measurer'[x] = measurer[x]
        /\ \A x \in Measurer : Seen(x)' = Seen(x)
    <2>1. to \in {"new", "ready", "started", "stopped", "read", "disposed"}
        BY DEF CallsAt
    <2> QED
        BY <1>1, <2>1, EnterEffect DEF StatesOK, Seen
  <1>3. \A v \in Workload, r \in Set : v # w => measurer'[<<v, r>>] = measurer[<<v, r>>]
    <2> SUFFICES ASSUME NEW v \in Workload, NEW r \in Set, v # w
                 PROVE  measurer'[<<v, r>>] = measurer[<<v, r>>]
        OBVIOUS
    <2>1. <<v, r>> \in Measurer /\ <<v, r>> \notin MeasurerSet(w)
        BY <1>1, Measurers
    <2> QED
        BY <1>2, <2>1
  <1>4. measurer'[Overall] = measurer[Overall]
    <2>1. Overall \in Measurer /\ Overall \notin MeasurerSet(w)
        BY <1>1, Measurers
    <2> QED
        BY <1>2, <2>1
  <1>5. \A r \in Set : measurer[<<w, r>>].state = State(r, p)
      BY DEF StatesOK, Moves
  <1>6. \A r \in Set : State(r, q) = to /\ State(r, p) = from
      BY DEF CallsAt, State, Set, Unprepared, Unstarted, Started, Prepared, Disposing, Warming, Starting, Ran
  <1>7. KernelState(q) = KernelState(p)
      BY DEF CallsAt, KernelState, Ran
  <1>8. StatesOK'
    <2>1. kernel' = [v \in Workload |-> IF v = w THEN KernelState(q) ELSE kernel[v]]
        BY <1>7 DEF StatesOK, Moves
    <2>2. \A r \in Set : measurer'[<<w, r>>].state = State(r, q)
        BY <1>1, <1>2, <1>6
    <2> QED
        BY <1>2, <1>3, <1>4, <2>1, <2>2, MovesStates
  <1>9. SeenOK(w)'
    <2>1. SeenOK(w) /\ Place(w) = p /\ Place(w)' = q
        BY DEF AllSeenOK, Moves
    <2>2. Seen(<<w, "validation">>)' = Seen(<<w, "validation">>) /\ Seen(Overall)' = Seen(Overall)
        BY <1>2, Measurers DEF Set
    <2>3. q \notin {"startMain", "runKernel"} /\ q \notin Ran
          /\ (q \in HasRun => p \in HasRun) /\ (q \in WarmedUp => p \in WarmedUp)
        BY DEF CallsAt, Ran, HasRun, Disposing, WarmedUp
    <2> HIDE DEF Seen
    <2> QED
        BY <2>1, <2>2, <2>3 DEF SeenOK
  <1>10. AllSeenOK'
    <2>1. \A v \in Workload, r \in Set : v # w => Seen(<<v, r>>)' = Seen(<<v, r>>)
        BY <1>3 DEF Seen
    <2>2. Seen(Overall) \subseteq Seen(Overall)'
        BY <1>4 DEF Seen
    <2> QED
        BY <1>9, <2>1, <2>2, MovesSeen
  <1>11. LifeCyclesKept
    <2>1. \A x \in MeasurerSet(w) : measurer[x].state = from
        BY <1>1, <1>5, <1>6
    <2>2. \A x \in MeasurerSet(w) : OrderlyCall(x)
        BY <1>2, <2>1 DEF OrderlyCall, CallsAt
    <2>3. \A x \in Measurer : OrderlyCall(x) \/ Uncalled(x)
        BY <1>2, <2>2 DEF Uncalled
    <2> QED
        BY <2>3, OrderlyCalls
  <1> QED
      BY <1>8, <1>10, <1>11

RaisesAt(p, event, q) ==
  \/ p = "raiseStart" /\ event = "Start" /\ q = "startValidation"
  \/ p = "raiseKernelStart" /\ event = "KernelStart" /\ q = "startAdditional"
  \/ p = "raiseKernelStop" /\ event = "KernelStop" /\ q = "stopValidation"
  \/ p = "raiseStop" /\ event = "Stop" /\ q = "addOutput"

\* Nothing happens to measurers when an event is raised and when a thread is started.
LEMMA RaiseKeeps ==
  ASSUME StatesOK, AllSeenOK, InRun, InRun', NEW w \in Workload, NEW p, NEW q, Moves(w, p, q),
         (p = "unborn" /\ q = "initKernel") \/ \E event \in Event : RaisesAt(p, event, q),
         measurer' = measurer, kernel' = kernel
  PROVE  StatesOK' /\ AllSeenOK' /\ LifeCyclesKept
  <1>1. \A r \in Set : measurer[<<w, r>>].state = State(r, p)
      BY DEF StatesOK, Moves
  <1>2. \A r \in Set : State(r, q) = State(r, p)
      BY DEF RaisesAt, State, Set, Unprepared, Unstarted, Started, Prepared, Disposing, Warming, Starting, Ran
  <1>3. KernelState(q) = KernelState(p)
      BY DEF RaisesAt, KernelState, Ran
  <1>4. StatesOK'
    <2>1. kernel' = [v \in Workload |-> IF v = w THEN KernelState(q) ELSE kernel[v]]
        BY <1>3 DEF StatesOK, Moves
    <2>2. \A r \in Set : measurer'[<<w, r>>].state = State(r, q)
        BY <1>1, <1>2
    <2> QED
        BY <2>1, <2>2, MovesStates DEF StatesOK
  <1>5. SeenOK(w)'
    <2>1. SeenOK(w) /\ Place(w) = p /\ Place(w)' = q
        BY DEF AllSeenOK, Moves
    <2>2. \A x : Seen(x)' = Seen(x)
        BY DEF Seen
    <2>3. q \notin {"startMain", "runKernel"} /\ (q \in Ran => p \in Ran)
          /\ (q \in HasRun => p \in HasRun) /\ (q \in WarmedUp => p \in WarmedUp)
        BY DEF RaisesAt, Ran, HasRun, Disposing, WarmedUp
    <2> HIDE DEF Seen
    <2> QED
        BY <2>1, <2>2, <2>3 DEF SeenOK
  <1>6. AllSeenOK'
      BY <1>5, MovesSeen DEF Seen
  <1>7. LifeCyclesKept
      BY OrderlyCalls DEF Uncalled
  <1> QED
      BY <1>4, <1>6, <1>7

----------------------------------------------------------------------------
(* The steps of a workload.                                                *)

\* A step of a workload that changes neither a barrier nor a kernel that is to run on.
LEMMA MoveKeeps ==
  ASSUME RunInv, NEW w \in Workload, NEW p, NEW q, Moves(w, p, q), Follows(p, q),
         Place(Main) = "startWorkloads",
         p = "raiseKernelStart" => pc'[w] = "rules" /\ raised'[w].event = "KernelStart",
         p = "running" /\ w \in measurement.endless => ~ keepRunning[w],
         UNCHANGED <<keepRunning, opened, pressure, pressureOpen>>
  PROVE  ControlOK' /\ PressureOK' /\ LoadOK' /\ InRun /\ InRun'
  <1>1. ControlOK' /\ InRun /\ InRun'
      BY FollowsPlaces, WorkloadControl DEF RunInv, Moves
  <1>2. PressureOK'
      BY <1>1, MovesPressure DEF RunInv
  <1>3. LoadOK'
      BY <1>1, MovesLoad DEF RunInv
  <1> QED
      BY <1>1, <1>2, <1>3

\* The output of a workload is complete.
LEMMA AddOutputOutputs ==
  ASSUME ControlOK, AllSeenOK, StatesOK, OutputsOK, InRun, NEW w \in Workload,
         Moves(w, "addOutput", "disposeKernel"),
         runOutput' = Append(runOutput, [of |-> w, seen |-> [s \in Set |-> Seen(<<w, s>>)]]),
         UNCHANGED <<outputs, exitStatus>>
  PROVE  OutputsOK'
  <1> DEFINE seen == [s \in Set |-> Seen(<<w, s>>)]
             o == [of |-> w, seen |-> seen]
  <1>1. o.of = w /\ o.seen = seen
      OBVIOUS
  <1>2. seen \in [Set -> SUBSET (Thread \X What)]
      BY Measurers DEF StatesOK, MeasurerRec, Seen
  <1>3. o \in Output
      BY <1>2 DEF Output
  <1>4. OutputOf(o, w)
    <2>1. SeenOK(w) /\ Place(w) = "addOutput" /\ InRun
        BY DEF AllSeenOK, Moves
    <2>2. /\ Seen(<<w, "mainMeasurer">>) = {<<w, "kernel">>} /\ Seen(<<w, "additional">>) = {<<w, "kernel">>}
          /\ {<<w, "warm">>, <<w, "kernel">>} \subseteq Seen(<<w, "validation">>)
        BY <2>1 DEF SeenOK, Ran, WarmedUp, HasRun
    <2>3. /\ seen["mainMeasurer"] = Seen(<<w, "mainMeasurer">>)
          /\ seen["additional"] = Seen(<<w, "additional">>)
          /\ seen["validation"] = Seen(<<w, "validation">>)
        BY DEF Set
    <2> HIDE DEF seen, o
    <2> QED
        BY <1>1, <2>2, <2>3 DEF OutputOf
  <1>5. Done' = Done \cup {w} /\ w \notin Done /\ IsFiniteSet(Done)
    <2>1. \A v \in Workload : v # w => Place(v)' = Place(v)
        BY OtherWorkloads, NoneRaised DEF Moves
    <2>2. Place(w) = "addOutput" /\ Place(w)' = "disposeKernel"
        BY DEF Moves
    <2>3. IsFiniteSet(Done)
        BY ThreadAssumption, FS_Subset DEF Done
    <2> QED
        BY <2>1, <2>2, <2>3 DEF Done, Disposing
  <1>6. Cardinality(Done') = Cardinality(Done) + 1
      BY <1>5, FS_AddElement
  <1> HIDE DEF o, seen
  <1>7. runOutput' = Append(runOutput, o) /\ runOutput \in Seq(Output)
      BY DEF o, seen, OutputsOK
  <1>8. /\ runOutput' \in Seq(Output) /\ Len(runOutput') = Len(runOutput) + 1
        /\ runOutput'[Len(runOutput) + 1] = o
        /\ \A j \in 1 .. Len(runOutput) : runOutput'[j] = runOutput[j]
      BY <1>3, <1>7, AppendProperties
  <1>9. DOMAIN runOutput = 1 .. Len(runOutput) /\ DOMAIN runOutput' = 1 .. (Len(runOutput) + 1)
        /\ Len(runOutput) \in Nat
      BY <1>7, <1>8
  <1>10. ASSUME NEW v \in Done'
         PROVE  \E j \in DOMAIN runOutput' : OutputOf(runOutput'[j], v)
    <2>1. CASE v = w
      <3>1. Len(runOutput) + 1 \in DOMAIN runOutput'
          BY <1>9
      <3> QED
          BY <1>4, <1>8, <2>1, <3>1
    <2>2. CASE v # w
      <3>1. v \in Done
          BY <1>5, <1>10, <2>2
      <3>2. PICK j \in DOMAIN runOutput : OutputOf(runOutput[j], v)
          BY <3>1 DEF OutputsOK
      <3>3. j \in DOMAIN runOutput' /\ runOutput'[j] = runOutput[j]
          BY <1>8, <1>9, <3>2
      <3> QED
          BY <3>2, <3>3
    <2> QED
        BY <2>1, <2>2
  <1>11. outputs' = outputs /\ exitStatus' = exitStatus
      OBVIOUS
  <1>12. \A i \in DOMAIN outputs' : RunComplete(outputs'[i])
      BY <1>11 DEF OutputsOK
  <1>13. Len(runOutput') = Cardinality(Done') /\ Len(outputs') < RunCount
      BY <1>6, <1>8, <1>11 DEF OutputsOK
  <1> QED
      BY <1>8, <1>10, <1>11, <1>12, <1>13 DEF OutputsOK

\* A step of Workload::startInThread().
LEMMA WorkloadStep ==
  ASSUME RunInv, NEW w \in Workload, StartInThread(w)
  PROVE  RunInv' /\ LifeCyclesKept
  <1>1. w \in Thread /\ ControlOK /\ StatesOK /\ AllSeenOK /\ OutputsOK /\ PressureOK /\ LoadOK
      BY NoneRaised DEF RunInv
  <1>2. ASSUME NEW p, NEW s \in Set, NEW q, Start(w, p, s, q), StartsAt(p, s, q)
        PROVE  RunInv' /\ LifeCyclesKept
    <2>1. Follows(p, q) /\ p \notin {"raiseKernelStart", "running", "addOutput", "unborn", "exited"}
        BY <1>2 DEF StartsAt, Follows
    <2>2. Moves(w, p, q)
        BY <1>1, <1>2, <2>1, FollowsPlaces, GotoMoves DEF Start, At
    <2>3. Place(Main) = "startWorkloads"
        BY <1>1, <2>1, <2>2, Busy DEF Moves
    <2>4. ControlOK' /\ PressureOK' /\ LoadOK' /\ InRun /\ InRun'
        BY <1>2, <2>1, <2>2, <2>3, MoveKeeps DEF Start
    <2>5. OutputsOK'
        BY <1>1, <1>2, <2>1, <2>2, <2>4, MovesOutputs DEF Start
    <2>6. StatesOK' /\ AllSeenOK' /\ LifeCyclesKept
        BY <1>1, <1>2, <2>2, <2>4, StartKeeps DEF Start
    <2> QED
        BY <2>4, <2>5, <2>6 DEF RunInv
  <1>3. ASSUME NEW p, NEW s \in Set, NEW q, Stop(w, p, s, q), StopsAt(p, s, q)
        PROVE  RunInv' /\ LifeCyclesKept
    <2>1. Follows(p, q) /\ p \notin {"raiseKernelStart", "running", "addOutput", "unborn", "exited"}
        BY <1>3 DEF StopsAt, Follows
    <2>2. Moves(w, p, q)
        BY <1>1, <1>3, <2>1, FollowsPlaces, GotoMoves DEF Stop, At
    <2>3. Place(Main) = "startWorkloads"
        BY <1>1, <2>1, <2>2, Busy DEF Moves
    <2>4. ControlOK' /\ PressureOK' /\ LoadOK' /\ InRun /\ InRun'
        BY <1>3, <2>1, <2>2, <2>3, MoveKeeps DEF Stop
    <2>5. OutputsOK'
        BY <1>1, <1>3, <2>1, <2>2, <2>4, MovesOutputs DEF Stop
    <2>6. StatesOK' /\ AllSeenOK' /\ LifeCyclesKept
        BY <1>1, <1>3, <2>2, <2>4, StopKeeps DEF Stop
    <2> QED
        BY <2>4, <2>5, <2>6 DEF RunInv
  <1>4. ASSUME NEW p, NEW state, NEW what, NEW q, Kernel(w, p, state, what, q), KernelAt(p, state, what, q),
               p = "running" /\ w \in measurement.endless => ~ keepRunning[w]
        PROVE  RunInv' /\ LifeCyclesKept
    <2>1. Follows(p, q) /\ p \notin {"raiseKernelStart", "addOutput", "unborn", "exited"}
        BY <1>4 DEF KernelAt, Follows
    <2>2. Moves(w, p, q)
        BY <1>1, <1>4, <2>1, FollowsPlaces, GotoMoves DEF Kernel, At
    <2>3. Place(Main) = "startWorkloads"
        BY <1>1, <2>1, <2>2, Busy DEF Moves
    <2>4. ControlOK' /\ PressureOK' /\ LoadOK' /\ InRun /\ InRun'
        BY <1>4, <2>1, <2>2, <2>3, MoveKeeps DEF Kernel
    <2>5. OutputsOK'
        BY <1>1, <1>4, <2>1, <2>2, <2>4, MovesOutputs DEF Kernel
    <2>6. StatesOK' /\ AllSeenOK' /\ LifeCyclesKept
        BY <1>1, <1>4, <2>2, <2>3, <2>4, KernelKeeps DEF Kernel
    <2> QED
        BY <2>4, <2>5, <2>6 DEF RunInv
  <1>5. ASSUME NEW p, NEW event, NEW q, Raise(w, p, event, q), RaisesAt(p, event, q)
        PROVE  RunInv' /\ LifeCyclesKept
    <2>1. Follows(p, q) /\ p \notin {"running", "addOutput", "unborn", "exited"} /\ event \in Event
          /\ <<event, q>> \in After /\ (p = "raiseKernelStart" => event = "KernelStart")
        BY <1>5 DEF RaisesAt, Follows, Event, After
    <2>2. Moves(w, p, q) /\ raised'[w].event = event /\ pc'[w] = "rules"
        BY <1>1, <1>5, <2>1, FollowsPlaces, RaiseMoves
    <2>3. Place(Main) = "startWorkloads"
        BY <1>1, <2>1, <2>2, Busy DEF Moves
    <2>4. ControlOK' /\ PressureOK' /\ LoadOK' /\ InRun /\ InRun'
        BY <1>5, <2>1, <2>2, <2>3, MoveKeeps DEF Raise, clones
    <2>5. OutputsOK'
        BY <1>1, <1>5, <2>1, <2>2, <2>4, MovesOutputs DEF Raise
    <2>6. StatesOK' /\ AllSeenOK' /\ LifeCyclesKept
        BY <1>1, <1>5, <2>1, <2>2, <2>4, RaiseKeeps DEF Raise, clones
    <2> QED
        BY <2>4, <2>5, <2>6 DEF RunInv
  <1>6. ASSUME NEW p, NEW from, NEW to, NEW q, At(w, p), Goto(w, q), CallsAt(p, from, to, q),
               Enter(MeasurerSet(w), to), p # "addOutput",
               UNCHANGED <<measurement, raised, kernel, keepRunning, opened, pressure, pressureOpen,
                           runOutput, outputs, exitStatus>>
        PROVE  RunInv' /\ LifeCyclesKept
    <2>1. Follows(p, q) /\ p \notin {"raiseKernelStart", "running", "unborn", "exited"}
        BY <1>6 DEF CallsAt, Follows
    <2>2. Moves(w, p, q)
        BY <1>1, <1>6, <2>1, FollowsPlaces, GotoMoves DEF At
    <2>3. Place(Main) = "startWorkloads"
        BY <1>1, <2>1, <2>2, Busy DEF Moves
    <2>4. ControlOK' /\ PressureOK' /\ LoadOK' /\ InRun /\ InRun'
        BY <1>6, <2>1, <2>2, <2>3, MoveKeeps
    <2>5. OutputsOK'
        BY <1>1, <1>6, <2>1, <2>2, <2>4, MovesOutputs
    <2>6. StatesOK' /\ AllSeenOK' /\ LifeCyclesKept
        BY <1>1, <1>6, <2>2, <2>4, CallsKeep
    <2> QED
        BY <2>4, <2>5, <2>6 DEF RunInv
  <1>7. CASE AddOutput(w)
    <2>1. Follows("addOutput", "disposeKernel") /\ CallsAt("addOutput", "stopped", "read", "disposeKernel")
        BY DEF CallsAt, Follows
    <2>2. Moves(w, "addOutput", "disposeKernel")
        BY <1>1, <1>7, <2>1, FollowsPlaces, GotoMoves DEF AddOutput, At
    <2>3. Place(Main) = "startWorkloads"
        BY <1>1, <2>2, Busy DEF Moves
    <2>4. ControlOK' /\ PressureOK' /\ LoadOK' /\ InRun /\ InRun'
        BY <1>7, <2>1, <2>2, <2>3, MoveKeeps DEF AddOutput
    <2>5. OutputsOK'
        BY <1>1, <1>7, <2>2, <2>4, AddOutputOutputs DEF AddOutput
    <2>6. StatesOK' /\ AllSeenOK' /\ LifeCyclesKept
        BY <1>1, <1>7, <2>1, <2>2, <2>4, CallsKeep DEF AddOutput
    <2> QED
        BY <2>4, <2>5, <2>6 DEF RunInv
  <1>8. CASE Initialize(w)
    <2>1. CASE Kernel(w, "initKernel", "ready", "init", "initMeasurers")
        BY <1>4, <2>1 DEF KernelAt
    <2>2. CASE ~ Kernel(w, "initKernel", "ready", "init", "initMeasurers")
      <3>1. CallsAt("initMeasurers", "new", "ready", "raiseStart")
          BY DEF CallsAt
      <3> QED
          BY <1>6, <1>8, <2>2, <3>1 DEF Initialize
    <2> QED
        BY <2>1, <2>2
  <1>9. CASE Dispose(w)
    <2>1. CASE Kernel(w, "disposeKernel", "disposed", "dispose", "disposeMeasurers")
        BY <1>4, <2>1 DEF KernelAt
    <2>2. CASE ~ Kernel(w, "disposeKernel", "disposed", "dispose", "disposeMeasurers")
      <3>1. CallsAt("disposeMeasurers", "read", "disposed", "exited")
          BY DEF CallsAt
      <3> QED
          BY <1>6, <1>9, <2>2, <3>1 DEF Dispose
    <2> QED
        BY <2>1, <2>2
  <1>10. CASE WarmUp(w)
    <2>1. CASE Start(w, "warmAdditional", "additional", "stopWarmAdditional")
        BY <1>2, <2>1 DEF StartsAt, Set
    <2>2. CASE Stop(w, "stopWarmAdditional", "additional", "warmMain")
        BY <1>3, <2>2 DEF StopsAt, Set
    <2>3. CASE Start(w, "warmMain", "mainMeasurer", "stopWarmMain")
        BY <1>2, <2>3 DEF StartsAt, Set
    <2>4. CASE Stop(w, "stopWarmMain", "mainMeasurer", "warmCaches")
        BY <1>3, <2>4 DEF StopsAt, Set
    <2>5. CASE Kernel(w, "warmCaches", "ready", "warm", "raiseKernelStart")
        BY <1>4, <2>5 DEF KernelAt
    <2> QED
        BY <1>10, <2>1, <2>2, <2>3, <2>4, <2>5 DEF WarmUp
  <1>11. CASE Run(w)
    <2>1. CASE Start(w, "startAdditional", "additional", "startMain")
        BY <1>2, <2>1 DEF StartsAt, Set
    <2>2. CASE Start(w, "startMain", "mainMeasurer", "runKernel")
        BY <1>2, <2>2 DEF StartsAt, Set
    <2>3. CASE Kernel(w, "runKernel", "running", "kernel", "running")
        BY <1>4, <2>3 DEF KernelAt
    <2>4. CASE EndKernel(w)
        BY <1>4, <2>4 DEF KernelAt, EndKernel
    <2>5. CASE Stop(w, "stopMain", "mainMeasurer", "stopAdditional")
        BY <1>3, <2>5 DEF StopsAt, Set
    <2>6. CASE Stop(w, "stopAdditional", "additional", "raiseKernelStop")
        BY <1>3, <2>6 DEF StopsAt, Set
    <2> QED
        BY <1>11, <2>1, <2>2, <2>3, <2>4, <2>5, <2>6 DEF Run
  <1>12. CASE \/ Raise(w, "raiseStart", "Start", "startValidation")
              \/ Raise(w, "raiseKernelStart", "KernelStart", "startAdditional")
              \/ Raise(w, "raiseKernelStop", "KernelStop", "stopValidation")
              \/ Raise(w, "raiseStop", "Stop", "addOutput")
      BY <1>5, <1>12 DEF RaisesAt
  <1>13. CASE Start(w, "startValidation", "validation", "warmAdditional")
      BY <1>2, <1>13 DEF StartsAt, Set
  <1>14. CASE Stop(w, "stopValidation", "validation", "raiseStop")
      BY <1>3, <1>14 DEF StopsAt, Set
  <1> QED
      BY <1>7, <1>8, <1>9, <1>10, <1>11, <1>12, <1>13, <1>14 DEF StartInThread

\* A thread for a workload is started.
LEMMA StartWorkloadStep ==
  ASSUME RunInv, NEW w \in Workload, StartWorkload(w)
  PROVE  RunInv' /\ LifeCyclesKept
  <1>1. w \in Thread /\ ControlOK /\ StatesOK /\ AllSeenOK /\ OutputsOK
      BY NoneRaised DEF RunInv
  <1>2. Follows("unborn", "initKernel")
      BY DEF Follows
  <1>3. Moves(w, "unborn", "initKernel")
      BY <1>1, <1>2, FollowsPlaces, GotoMoves DEF StartWorkload
  <1>4. Place(Main) = "startWorkloads"
      BY DEF StartWorkload, At, Place, Dispatching
  <1>5. ControlOK' /\ PressureOK' /\ LoadOK' /\ InRun /\ InRun'
      BY <1>2, <1>3, <1>4, MoveKeeps DEF StartWorkload, clones
  <1>6. OutputsOK'
      BY <1>1, <1>2, <1>3, <1>5, MovesOutputs DEF StartWorkload
  <1>7. StatesOK' /\ AllSeenOK' /\ LifeCyclesKept
      BY <1>1, <1>3, <1>5, RaiseKeeps DEF StartWorkload, clones
  <1> QED
      BY <1>5, <1>6, <1>7 DEF RunInv

----------------------------------------------------------------------------
(* The dispatch of an event.                                               *)

\* The rule that is executed is one of the event; a pressure barrier is waited
\* for by the workload of its rule, before its kernel starts.
LEMMA CurrentRule ==
  ASSUME ControlOK, NEW t \in Thread, pc[t] \in Dispatching, raised[t].todo # {},
         NEW c, c = Current(t)
  PROVE  /\ c \in raised[t].todo /\ c \in DOMAIN Rules /\ Matches(c, raised[t].event, t)
         /\ Rules[c].action = "waitForPressureBarrier" =>
              t \in Workload /\ Rules[c].of = t /\ Place(t) = "startAdditional" /\ c \in PressureRules
  <1>1. DispatchOK(t)
      BY DEF ControlOK
  <1>2. c \in raised[t].todo
    <2>1. raised[t].todo \in SUBSET Nat
        BY <1>1 DEF DispatchOK, Raised
    <2> QED
        BY <2>1, LeastIsIn DEF Current
  <1>3. c \in DOMAIN Rules /\ Matches(c, raised[t].event, t)
      BY <1>1, <1>2 DEF DispatchOK
  <1>4. ASSUME Rules[c].action = "waitForPressureBarrier"
        PROVE  t \in Workload /\ Rules[c].of = t /\ Place(t) = "startAdditional" /\ c \in PressureRules
    <2>1. Rules[c].event = "KernelStart" /\ Rules[c].of \in Workload
        BY <1>3, <1>4, PressureAssumption DEF Rules, ControlOK
    <2>2. Rules[c].of = t /\ raised[t].event = "KernelStart"
        BY <1>3, <2>1, ThreadAssumption DEF Matches
    <2>3. raised[t].then = "startAdditional"
        BY <1>1, <2>2 DEF DispatchOK, After
    <2> QED
        BY <1>3, <1>4, <2>1, <2>2, <2>3 DEF Place, PressureRules
  <1> QED
      BY <1>2, <1>3, <1>4

\* The rules that wait for the pressure barrier.
LEMMA PressureRuleOf ==
  ASSUME ControlOK, NEW i \in PressureRules
  PROVE  i \in DOMAIN Rules /\ Rules[i].of \in Workload /\ Rules[i].event = "KernelStart"
         /\ Rules[i].action = "waitForPressureBarrier"
  BY PressureAssumption DEF PressureRules, Rules, ControlOK

\* Others stay in front of the barrier or behind it.
LEMMA OthersPressure ==
  ASSUME ControlOK, NEW t \in Thread, OthersStay(t), NEW i \in PressureRules, Rules[i].of # t
  PROVE  (Passed(i)' <=> Passed(i)) /\ (AtBarrier(i)' <=> AtBarrier(i))
  <1>1. Rules' = Rules
      BY DEF OthersStay, Rules
  <1>2. PICK v \in Workload : v = Rules[i].of
      BY PressureRuleOf
  <1>3. Place(v)' = Place(v) /\ pc'[v] = pc[v] /\ raised'[v] = raised[v]
      BY <1>2, OtherWorkloads
  <1> QED
      BY <1>1, <1>2, <1>3 DEF Passed, AtBarrier, Current, Dispatching

\* A step after which as many threads have arrived as before.
LEMMA SamePressure ==
  ASSUME ControlOK, PressureOK, NEW t \in Thread, OthersStay(t), InRun, pc'[t] = "open" => pc[t] = "open",
         \A i \in PressureRules : Rules[i].of = t =>
           (Passed(i)' <=> Passed(i)) /\ (AtBarrier(i)' <=> AtBarrier(i)),
         pressure' = pressure, pressureOpen' = pressureOpen
  PROVE  PressureOK'
  <1>1. Rules' = Rules /\ PressureRules' = PressureRules /\ Threshold' = Threshold
      BY DEF OthersStay, Rules, PressureRules, Threshold
  <1>2. \A i \in PressureRules : (Passed(i)' <=> Passed(i)) /\ (AtBarrier(i)' <=> AtBarrier(i))
      BY OthersPressure
  <1>3. Arrived' = Arrived
      BY <1>1, <1>2 DEF Arrived
  <1>4. \A u \in Thread : pc'[u] = "open" => pc[u] = "open"
      BY DEF OthersStay
  <1> QED
      BY <1>1, <1>2, <1>3, <1>4 DEF PressureOK

\* Each dispatched rule leaves the pressure barrier right.
LEMMA DispatchPressure ==
  ASSUME ControlOK, PressureOK, NEW t \in Thread, Stays(t), InRun, Dispatch(t)
  PROVE  PressureOK'
  <1>0. OthersStay(t) /\ pc[t] \in Dispatching /\ Place(t)' = Place(t) /\ DispatchOK(t)
        /\ pc \in [Thread -> Pc] /\ raised \in [Thread -> Raised \cup {None}]
      BY DEF Stays, ControlOK
  <1>1. Rules' = Rules /\ PressureRules' = PressureRules /\ Threshold' = Threshold
      BY <1>0 DEF OthersStay, Rules, PressureRules, Threshold
  <1>2. PICK c : c = Current(t)
      OBVIOUS
  <1>3. ASSUME RuleDone(t)
        PROVE  raised'[t].todo = raised[t].todo \ {c}
      BY <1>0, <1>2, <1>3 DEF RuleDone, DispatchOK, Raised
  <1>4. CASE StopKernel(t) \/ WaitForWorkload(t)
    <2>1. pc' = pc /\ pc[t] = "rules" /\ RuleDone(t) /\ pressure' = pressure /\ pressureOpen' = pressureOpen
          /\ raised[t].todo # {} /\ Rules[c].action # "waitForPressureBarrier"
        BY <1>2, <1>4 DEF StopKernel, WaitForWorkload, RuleAt, At
    <2>2. ASSUME NEW i \in PressureRules, Rules[i].of = t
          PROVE  (Passed(i)' <=> Passed(i)) /\ (AtBarrier(i)' <=> AtBarrier(i))
      <3>1. i # c
          BY <2>1, <2>2, PressureRuleOf
      <3>2. i \in raised'[t].todo <=> i \in raised[t].todo
          BY <1>3, <2>1, <3>1
      <3>3. ~ AtBarrier(i) /\ ~ AtBarrier(i)'
          BY <1>1, <2>1, <2>2 DEF AtBarrier
      <3>4. Passed(i)' <=> Passed(i)
          BY <1>0, <1>1, <2>1, <2>2, <3>2 DEF Passed
      <3> QED
          BY <3>3, <3>4
    <2> QED
        BY <1>0, <2>1, <2>2, SamePressure
  <1>5. CASE OpenPressureBarrier(t)
    <2>1. pc[t] = "open" /\ pc'[t] = "spin" /\ raised' = raised /\ pressure' = pressure /\ pressureOpen' = TRUE
        BY <1>0, <1>5 DEF OpenPressureBarrier, At, Goto
    <2>2. ASSUME NEW i \in PressureRules
          PROVE  (Passed(i)' <=> Passed(i)) /\ (AtBarrier(i)' <=> AtBarrier(i))
      <3>1. CASE Rules[i].of = t
          BY <1>0, <1>1, <2>1, <3>1 DEF Passed, AtBarrier, Dispatching, Current
      <3> QED
          BY <1>0, <3>1, OthersPressure
    <2>3. Arrived' = Arrived
        BY <1>1, <2>2 DEF Arrived
    <2> QED
        BY <1>1, <2>1, <2>3 DEF PressureOK
  <1>6. CASE PassPressureBarrier(t)
    <2>1. pc[t] = "spin" /\ pc'[t] = "rules" /\ RuleDone(t) /\ pressure' = pressure
          /\ pressureOpen' = pressureOpen /\ pressureOpen
        BY <1>0, <1>6 DEF PassPressureBarrier, At, Goto, clones
    <2>2. /\ raised[t].todo # {} /\ Rules[c].action = "waitForPressureBarrier"
        BY <1>0, <1>2, <2>1 DEF DispatchOK
    <2>3. c \in raised[t].todo /\ t \in Workload /\ Rules[c].of = t /\ Place(t) = "startAdditional"
          /\ c \in PressureRules
        BY <1>0, <1>2, <2>2, CurrentRule
    <2>4. ASSUME NEW i \in PressureRules
          PROVE  Passed(i)' \/ AtBarrier(i)' <=> Passed(i) \/ AtBarrier(i)
      <3>1. CASE Rules[i].of # t
          BY <1>0, <3>1, OthersPressure
      <3>2. CASE i = c
        <4>1. AtBarrier(i)
            BY <1>2, <2>1, <2>3, <3>2 DEF AtBarrier
        <4>2. Passed(i)'
            BY <1>0, <1>1, <1>3, <2>1, <2>3, <3>2 DEF Passed
        <4> QED
            BY <4>1, <4>2
      <3>3. CASE Rules[i].of = t /\ i # c
        <4>1. ~ AtBarrier(i) /\ ~ AtBarrier(i)'
            BY <1>1, <1>2, <2>1, <3>3 DEF AtBarrier
        <4>2. i \in raised'[t].todo <=> i \in raised[t].todo
            BY <1>3, <2>1, <3>3
        <4>3. Passed(i)' <=> Passed(i)
            BY <1>0, <1>1, <2>1, <3>3, <4>2 DEF Passed, Dispatching
        <4> QED
            BY <4>1, <4>3
      <3> QED
          BY <3>1, <3>2, <3>3
    <2>5. Arrived' = Arrived
        BY <1>1, <2>4 DEF Arrived
    <2>6. \A u \in Thread : pc'[u] = "open" => pc[u] = "open"
        BY <1>0, <2>1 DEF OthersStay
    <2> QED
        BY <1>1, <2>1, <2>5, <2>6 DEF PressureOK
  <1>7. CASE NotifyListeners(t)
    <2>1. raised[t].todo = {} /\ pc[t] = "rules" /\ pressure' = pressure /\ pressureOpen' = pressureOpen
        BY <1>7 DEF NotifyListeners, At
    <2>2. pc'[t] \notin Dispatching
      <3>1. raised[t].then \notin Dispatching /\ pc'[t] = raised[t].then
          BY <1>0, <1>7 DEF NotifyListeners, Goto, DispatchOK, After, Dispatching
      <3> QED
          BY <3>1
    <2>3. ASSUME NEW i \in PressureRules, Rules[i].of = t
          PROVE  (Passed(i)' <=> Passed(i)) /\ (AtBarrier(i)' <=> AtBarrier(i))
      <3>1. ~ AtBarrier(i) /\ ~ AtBarrier(i)'
          BY <1>1, <2>1, <2>2, <2>3 DEF AtBarrier, Dispatching
      <3>2. Passed(i)' <=> Passed(i)
          BY <1>0, <1>1, <2>1, <2>2, <2>3 DEF Passed
      <3> QED
          BY <3>1, <3>2
    <2> QED
        BY <1>0, <2>1, <2>2, <2>3, SamePressure DEF Dispatching
  <1>8. CASE AddPressure(t)
    <2>1. pc[t] = "rules" /\ pc'[t] \in {"open", "spin"} /\ raised' = raised /\ pressure' = pressure + 1
          /\ pressureOpen' = pressureOpen /\ (pc'[t] = "open" => pressure' >= Threshold)
          /\ raised[t].todo # {} /\ Rules[c].action = "waitForPressureBarrier"
        BY <1>0, <1>2, <1>8 DEF AddPressure, RuleAt, At, Goto
    <2>2. c \in raised[t].todo /\ t \in Workload /\ Rules[c].of = t /\ Place(t) = "startAdditional"
          /\ c \in PressureRules
        BY <1>0, <1>2, <2>1, CurrentRule
    <2>3. ~ Passed(c) /\ ~ AtBarrier(c) /\ AtBarrier(c)'
      <3>1. Place(t) \notin {"startMain", "runKernel"} \cup HasRun
          BY <2>2 DEF HasRun, Ran, Disposing
      <3> QED
          BY <1>1, <1>2, <2>1, <2>2, <3>1 DEF Passed, AtBarrier, Dispatching, Current
    <2>4. ASSUME NEW i \in PressureRules, i # c
          PROVE  (Passed(i)' <=> Passed(i)) /\ (AtBarrier(i)' <=> AtBarrier(i))
      <3>1. CASE Rules[i].of = t
        <4>1. ~ AtBarrier(i) /\ ~ AtBarrier(i)'
            BY <1>1, <1>2, <2>1, <2>4, <3>1 DEF AtBarrier, Current
        <4>2. Passed(i)' <=> Passed(i)
            BY <1>0, <1>1, <2>1, <3>1 DEF Passed, Dispatching
        <4> QED
            BY <4>1, <4>2
      <3> QED
          BY <1>0, <3>1, OthersPressure
    <2>5. Arrived' = Arrived \cup {c} /\ c \notin Arrived
        BY <1>1, <2>2, <2>3, <2>4 DEF Arrived
    <2>6. IsFiniteSet(PressureRules) /\ Threshold \in Nat
        BY RulesType DEF ControlOK
    <2>7. IsFiniteSet(Arrived)
        BY <2>6, FS_Subset DEF Arrived
    <2>8. Cardinality(Arrived') = Cardinality(Arrived) + 1
        BY <2>5, <2>7, FS_AddElement
    <2>9. Cardinality(Arrived') <= Threshold
      <3>1. Arrived' \subseteq PressureRules
          BY <1>1 DEF Arrived
      <3> QED
          BY <2>6, <3>1, FS_Subset DEF Threshold
    <2>10. pressure = Cardinality(Arrived) /\ pressure \in Nat /\ pressure' = Cardinality(Arrived')
        BY <2>1, <2>6, <2>8 DEF PressureOK
    <2>11. ~ Passed(c)'
      <3>1. pc'[t] \in Dispatching /\ c \in raised'[t].todo /\ Place(t)' = "startAdditional"
          BY <1>0, <2>1, <2>2 DEF Dispatching
      <3> QED
          BY <1>1, <2>2, <3>1 DEF Passed, HasRun, Ran, Disposing
    <2>12. \A i \in PressureRules' : Passed(i)' => pressureOpen'
        BY <1>1, <2>1, <2>4, <2>11 DEF PressureOK
    <2>13. pressureOpen' \/ (\E u \in Thread : pc'[u] = "open") => pressure' >= Threshold
      <3>1. CASE pressureOpen \/ \E u \in Thread : pc[u] = "open"
          BY <2>1, <2>6, <2>10, <3>1 DEF PressureOK
      <3>2. CASE ~ (pressureOpen \/ \E u \in Thread : pc[u] = "open")
          BY <1>0, <2>1, <3>2 DEF OthersStay
      <3> QED
          BY <3>1, <3>2
    <2>14. pressure' \in 0 .. Threshold
        BY <2>1, <2>6, <2>9, <2>10
    <2>15. pressureOpen' \in BOOLEAN
        BY <2>1 DEF PressureOK
    <2> QED
        BY <1>1, <2>10, <2>12, <2>13, <2>14, <2>15 DEF PressureOK
  <1> QED
      BY <1>4, <1>5, <1>6, <1>7, <1>8 DEF Dispatch

\* A load is stopped by the rules of the workload that it loads, when that one stops.
LEMMA DispatchLoad ==
  ASSUME ControlOK, LoadOK, NEW t \in Thread, Stays(t), InRun, Dispatch(t)
  PROVE  LoadOK'
  <1>1. Rules' = Rules /\ measurement' = measurement /\ measurement \in Measurements
      BY DEF Stays, OthersStay, Rules, ControlOK
  <1>2. \A w \in Workload : Place(w)' = Place(w)
      BY OtherWorkloads DEF Stays
  <1>3. opened' \subseteq DOMAIN Rules
      BY <1>1 DEF LoadOK, Dispatch, StopKernel, WaitForWorkload, AddPressure, OpenPressureBarrier,
         PassPressureBarrier, NotifyListeners, clones
  <1>4. CASE StopKernel(t)
    <2>1. PICK c : c = Current(t)
        OBVIOUS
    <2>2. pc[t] \in Dispatching /\ raised[t].todo # {} /\ Rules[c].action = "stopKernel"
          /\ keepRunning' = [keepRunning EXCEPT ![Rules[c].target] = FALSE]
        BY <1>4, <2>1 DEF StopKernel, RuleAt, At, Dispatching
    <2>3. c \in DOMAIN Rules /\ Matches(c, raised[t].event, t)
        BY <2>1, <2>2, CurrentRule
    <2>4. keepRunning' \in [Workload -> BOOLEAN] /\ keepRunning \in [Workload -> BOOLEAN]
          /\ \A w \in Workload : ~ keepRunning'[w] => ~ keepRunning[w] \/ w = Rules[c].target
        BY <2>2 DEF LoadOK
    <2>5. \A w \in Workload : ~ keepRunning[w] => ~ keepRunning'[w]
        BY <2>2 DEF LoadOK
    <2>6. ASSUME NEW w \in measurement.endless, Place(w)' \in HasRun \ {"running"}
          PROVE  ~ keepRunning'[w]
      <3>1. w \in Workload
          BY <1>1, RulesType
      <3> QED
          BY <1>2, <2>5, <2>6, <3>1 DEF LoadOK
    <2>7. ASSUME NEW w \in Workload, NEW i \in DOMAIN Rules, Stops(i, w), ~ keepRunning'[w]
          PROVE  Place(Rules[i].of)' \in {"addOutput"} \cup Disposing \cup {"exited"}
      <3>1. Rules[i].of \in Workload
          BY <1>1, <2>7, LoadAssumption DEF Stops, Rules
      <3>2. PICK v \in Workload : v = Rules[i].of
          BY <3>1
      <3>3. Place(v) \in {"addOutput"} \cup Disposing \cup {"exited"}
        <4>1. CASE ~ keepRunning[w]
            BY <2>7, <3>2, <4>1 DEF LoadOK
        <4>2. CASE w = Rules[c].target
          <5>1. Rules[c].event = "Stop" /\ Rules[c].of = v
              BY <1>1, <2>2, <2>3, <2>7, <3>2, <4>2, LoadAssumption DEF Stops, Rules
          <5>2. raised[t].event = "Stop" /\ v = t
              BY <2>3, <5>1, ThreadAssumption DEF Matches
          <5>3. raised[t].then = "addOutput"
              BY <2>2, <5>2 DEF ControlOK, DispatchOK, After
          <5> QED
              BY <2>2, <5>2, <5>3 DEF Place
        <4> QED
            BY <2>4, <2>7, <4>1, <4>2
      <3>4. Rules'[i].of = v /\ Place(v)' = Place(v)
          BY <1>1, <1>2, <3>2
      <3> QED
          BY <3>3, <3>4
    <2> QED
        BY <1>1, <1>3, <2>4, <2>6, <2>7 DEF LoadOK, Stops
  <1>5. CASE ~ StopKernel(t)
    <2>1. keepRunning' = keepRunning
        BY <1>5 DEF Dispatch, WaitForWorkload, AddPressure, OpenPressureBarrier,
           PassPressureBarrier, NotifyListeners, clones
    <2>2. \A w \in measurement.endless : Place(w)' \in HasRun \ {"running"} => ~ keepRunning[w]
        BY <1>1, <1>2, RulesType DEF LoadOK
    <2>3. ASSUME NEW w \in Workload, NEW i \in DOMAIN Rules, Stops(i, w), ~ keepRunning[w]
          PROVE  Place(Rules[i].of)' \in {"addOutput"} \cup Disposing \cup {"exited"}
      <3>1. PICK v \in Workload : v = Rules[i].of
          BY <1>1, <2>3, LoadAssumption DEF Stops, Rules
      <3>2. Rules'[i].of = v /\ Place(v)' = Place(v)
          BY <1>1, <1>2, <3>1
      <3> QED
          BY <2>3, <3>1, <3>2 DEF LoadOK
    <2> QED
        BY <1>1, <1>3, <2>1, <2>2, <2>3 DEF LoadOK, Stops
  <1> QED
      BY <1>4, <1>5

\* An event is seen by validation and overall measurers: the others are not
\* started when one is dispatched.
LEMMA DispatchSeen ==
  ASSUME ControlOK, StatesOK, AllSeenOK, NEW t \in Thread, Stays(t), InRun, InRun',
         measurer' = measurer \/ SeenBy(t, "event")
  PROVE  AllSeenOK'
  <1>1. CASE measurer' = measurer
    <2>1. (\A x : Seen(x)' = Seen(x)) /\ \A w \in Workload : Place(w)' = Place(w)
        BY <1>1, OtherWorkloads DEF Seen, Stays
    <2> SUFFICES ASSUME NEW w \in Workload
                 PROVE  SeenOK(w)'
        BY DEF AllSeenOK
    <2>2. SeenOK(w)
        BY DEF AllSeenOK
    <2> HIDE DEF Seen
    <2> QED
        BY <2>1, <2>2 DEF SeenOK
  <1>2. CASE SeenBy(t, "event")
    <2>1. \A x \in Measurer : /\ Seen(x) \subseteq Seen(x)'
                              /\ ~ Watches(x, t) => Seen(x)' = Seen(x)
        BY <1>2, SeenEffect DEF StatesOK, Seen, What
    <2> SUFFICES ASSUME NEW w \in Workload
                 PROVE  SeenOK(w)'
        BY DEF AllSeenOK
    <2>2. SeenOK(w) /\ Place(w)' = Place(w)
        BY OtherWorkloads DEF AllSeenOK, Stays
    <2>3. <<w, "mainMeasurer">> \in Measurer /\ <<w, "additional">> \in Measurer
          /\ <<w, "validation">> \in Measurer /\ Overall \in Measurer
        BY Measurers DEF Set
    <2>4. ~ Watches(<<w, "mainMeasurer">>, t) /\ ~ Watches(<<w, "additional">>, t)
      <3>1. CASE w # t
          BY <3>1, Measurers DEF Watches, Set
      <3>2. CASE w = t
        <4>1. Place(w) \in {"startValidation", "startAdditional", "stopValidation", "addOutput"}
          <5>1. Place(w) = raised[w].then /\ DispatchOK(w) /\ Place(w) \in WorkloadPlace
              BY <3>2 DEF Stays, ControlOK, Place
          <5> QED
              BY <5>1 DEF DispatchOK, After, WorkloadPlace, Unprepared, Prepared, Warming, Starting, Ran,
                 Disposing
        <4>2. State("mainMeasurer", Place(w)) # "started" /\ State("additional", Place(w)) # "started"
            BY <4>1 DEF State, Unprepared, Unstarted, Started, Prepared, Disposing
        <4>3. measurer[<<w, "mainMeasurer">>].state # "started" /\ measurer[<<w, "additional">>].state # "started"
            BY <4>2 DEF StatesOK, Set
        <4> QED
            BY <4>3 DEF Watches
      <3> QED
          BY <3>1, <3>2
    <2>5. /\ Seen(<<w, "mainMeasurer">>)' = Seen(<<w, "mainMeasurer">>)
          /\ Seen(<<w, "additional">>)' = Seen(<<w, "additional">>)
          /\ Seen(<<w, "validation">>) \subseteq Seen(<<w, "validation">>)'
          /\ Seen(Overall) \subseteq Seen(Overall)'
        BY <2>1, <2>3, <2>4
    <2> HIDE DEF Seen
    <2> QED
        BY <2>2, <2>5 DEF SeenOK
  <1> QED
      BY <1>1, <1>2

\* Nothing is output when the places of the workloads stay.
LEMMA SameOutputs ==
  ASSUME OutputsOK, \A w \in Workload : Place(w)' = Place(w), InRun' => InRun,
         UNCHANGED <<runOutput, outputs, exitStatus>>
  PROVE  OutputsOK'
  <1>1. Done' = Done
      BY DEF Done
  <1>2. runOutput' = runOutput /\ outputs' = outputs /\ exitStatus' = exitStatus
      OBVIOUS
  <1>3. \A i \in DOMAIN outputs' : RunComplete(outputs'[i])
      BY <1>2 DEF OutputsOK
  <1>4. ASSUME InRun'
        PROVE  /\ Len(outputs') < RunCount /\ Len(runOutput') = Cardinality(Done')
               /\ \A v \in Done' : \E j \in DOMAIN runOutput' : OutputOf(runOutput'[j], v)
      BY <1>1, <1>2, <1>4 DEF OutputsOK
  <1> QED
      BY <1>2, <1>3, <1>4 DEF OutputsOK

\* A step of Locator::dispatchEvent().
LEMMA DispatchStep ==
  ASSUME RunInv, NEW t \in Thread, Dispatch(t)
  PROVE  RunInv' /\ LifeCyclesKept
  <1>1. ControlOK /\ StatesOK /\ AllSeenOK /\ OutputsOK /\ PressureOK /\ LoadOK
      BY DEF RunInv
  <1>2. Stays(t)
      BY <1>1, DispatchStays
  <1>3. OthersStay(t) /\ AfterwardsOK(t) /\ pc[t] \in Dispatching /\ \A u \in Thread : Place(u)' = Place(u)
      BY <1>2, OthersPlace DEF Stays
  <1>4. ControlOK' /\ InRun /\ InRun'
    <2>1. CASE t \in Workload
      <3>1. Place(Main) = "startWorkloads"
          BY <1>1, <1>3, <2>1, Busy DEF Dispatching
      <3>2. Place(t)' \in WorkloadPlace
          BY <1>1, <1>3, <2>1 DEF ControlOK
      <3> QED
          BY <1>1, <1>3, <2>1, <3>1, <3>2, WorkloadControl
    <2>2. CASE t = Main
      <3>1. Place(Main)' = Place(Main) /\ Place(Main) \in MainPlace
          BY <1>1, <1>3, <2>2, NoneRaised DEF ControlOK
      <3>2. ControlOK'
          BY <1>1, <1>3, <2>2, <3>1, MainControl
      <3>3. InRun
        <4>1. DispatchOK(Main) /\ Place(Main) = raised[Main].then
            BY <1>1, <1>3, <2>2 DEF ControlOK, Place
        <4> QED
            BY <4>1 DEF DispatchOK, After, InRun
      <3> QED
          BY <3>1, <3>2, <3>3 DEF InRun
    <2> QED
        BY <2>1, <2>2 DEF Thread
  <1>5. PressureOK' /\ LoadOK'
      BY <1>1, <1>2, <1>4, DispatchPressure, DispatchLoad
  <1>6. OutputsOK'
    <2>1. UNCHANGED <<runOutput, outputs, exitStatus>>
        BY DEF Dispatch, StopKernel, WaitForWorkload, AddPressure, OpenPressureBarrier, PassPressureBarrier,
           NotifyListeners
    <2> QED
        BY <1>1, <1>3, <1>4, <2>1, NoneRaised, SameOutputs
  <1>7. kernel' = kernel /\ (measurer' = measurer \/ SeenBy(t, "event"))
      BY DEF Dispatch, StopKernel, WaitForWorkload, AddPressure, OpenPressureBarrier, PassPressureBarrier,
         NotifyListeners, clones
  <1>8. measurer' \in [Measurer -> MeasurerRec] /\ \A x \in Measurer : Uncalled(x)
      BY <1>1, <1>7, SeenEffect DEF StatesOK, Uncalled, What
  <1>9. StatesOK'
    <2>1. \A w \in Workload, s \in Set : measurer'[<<w, s>>].state = State(s, Place(w)')
      <3> SUFFICES ASSUME NEW w \in Workload, NEW s \in Set
                   PROVE  measurer'[<<w, s>>].state = State(s, Place(w)')
          OBVIOUS
      <3>1. measurer[<<w, s>>].state = State(s, Place(w))
          BY <1>1 DEF StatesOK
      <3>2. measurer'[<<w, s>>].state = measurer[<<w, s>>].state
          BY <1>8, Measurers DEF Uncalled
      <3>3. Place(w)' = Place(w)
          BY <1>3, NoneRaised
      <3> QED
          BY <3>1, <3>2, <3>3
    <2>2. measurer'[Overall].state \in OverallStates(Place(Main)')
      <3>1. measurer[Overall].state \in OverallStates(Place(Main))
          BY <1>1 DEF StatesOK
      <3>2. measurer'[Overall].state = measurer[Overall].state
          BY <1>8, Measurers DEF Uncalled
      <3>3. Place(Main)' = Place(Main)
          BY <1>3, NoneRaised
      <3> QED
          BY <3>1, <3>2, <3>3
    <2>3. kernel' = [w \in Workload |-> KernelState(Place(w)')]
        BY <1>1, <1>3, <1>7, NoneRaised DEF StatesOK
    <2> QED
        BY <1>8, <2>1, <2>2, <2>3 DEF StatesOK
  <1>10. AllSeenOK'
      BY <1>1, <1>2, <1>4, <1>7, DispatchSeen
  <1>11. LifeCyclesKept
      BY <1>8, OrderlyCalls
  <1> QED
      BY <1>4, <1>5, <1>6, <1>9, <1>10, <1>11 DEF RunInv

----------------------------------------------------------------------------
(* The steps of the main thread.                                           *)

MainFollows(p, q) ==
  \/ p = "initialize" /\ q = "raiseRunStart"
  \/ p = "raiseRunStart" /\ q = "startOverall"
  \/ p = "startOverall" /\ q = "startWorkloads"
  \/ p = "startWorkloads" /\ q = "raiseRunStop"
  \/ p = "raiseRunStop" /\ q = "collect"
  \/ p = "collect" /\ q = "nextRun"

LEMMA MainFollowsPlaces ==
  ASSUME NEW p, NEW q, MainFollows(p, q)
  PROVE  p \in MainPlace /\ q \in MainPlace /\ p # "nextRun"
  BY DEF MainFollows, MainPlace, BeforeWorkloads, AfterWorkloads

\* A step of the main thread in a run leaves the workloads alone.
LEMMA MainKeeps ==
  ASSUME RunInv, NEW p, NEW q, Moves(Main, p, q), MainFollows(p, q),
         p = "startWorkloads" => \A w \in Workload : pc[w] = "exited",
         UNCHANGED <<keepRunning, opened, pressure, pressureOpen>>
  PROVE  /\ ControlOK' /\ PressureOK' /\ LoadOK' /\ InRun
         /\ \A w \in Workload : Place(w)' = Place(w)
  <1>1. ControlOK /\ PressureOK /\ LoadOK /\ Place(Main) = p /\ Place(Main)' = q /\ OthersStay(Main)
        /\ AfterwardsOK(Main)
      BY DEF RunInv, Moves
  <1>2. InRun
      BY <1>1, MainFollowsPlaces DEF InRun
  <1>3. ControlOK' /\ \A w \in Workload : Place(w)' = Place(w)
    <2>1. /\ q \in MainPlace
          /\ q \in BeforeWorkloads => p \in BeforeWorkloads
          /\ q \in AfterWorkloads => p \in AfterWorkloads \/ p = "startWorkloads"
        BY DEF MainFollows, MainPlace, BeforeWorkloads, AfterWorkloads
    <2> QED
        BY <1>1, <2>1, MainControl
  <1>4. PressureOK'
    <2>1. pc'[Main] # "open"
        BY DEF Moves, Dispatching
    <2>2. \A i \in PressureRules : Rules[i].of # Main
        BY <1>1, PressureRuleOf, ThreadAssumption
    <2> QED
        BY <1>1, <1>2, <2>1, <2>2, NoneRaised, SamePressure
  <1>5. LoadOK'
    <2>1. Rules' = Rules /\ measurement' = measurement /\ measurement \in Measurements
        BY <1>1 DEF OthersStay, Rules, ControlOK
    <2>2. \A w \in measurement.endless : Place(w)' \in HasRun \ {"running"} => ~ keepRunning[w]
        BY <1>1, <1>2, <1>3, <2>1, RulesType DEF LoadOK
    <2>3. ASSUME NEW w \in Workload, NEW i \in DOMAIN Rules, Stops(i, w), ~ keepRunning[w]
          PROVE  Place(Rules[i].of)' \in {"addOutput"} \cup Disposing \cup {"exited"}
      <3>1. PICK v \in Workload : v = Rules[i].of
          BY <2>1, <2>3, LoadAssumption DEF Stops, Rules
      <3>2. Rules'[i].of = v /\ Place(v)' = Place(v)
          BY <1>3, <2>1, <3>1
      <3> QED
          BY <1>1, <1>2, <2>3, <3>1, <3>2 DEF LoadOK
    <2> QED
        BY <1>1, <2>1, <2>2, <2>3 DEF LoadOK, Stops
  <1> QED
      BY <1>2, <1>3, <1>4, <1>5

\* The main thread calls its overall measurers, or none.
LEMMA OverallKeeps ==
  ASSUME ControlOK, StatesOK, AllSeenOK, InRun, NEW p, NEW q, Moves(Main, p, q), kernel' = kernel,
         \A w \in Workload : Place(w)' = Place(w),
         measurer' \in [Measurer -> MeasurerRec],
         \A x \in Measurer : x # Overall => measurer'[x] = measurer[x],
         measurer'[Overall].state \in OverallStates(q),
         OrderlyCall(Overall) \/ Uncalled(Overall),
         Seen(Overall)' = Seen(Overall) \/ p \in BeforeWorkloads
  PROVE  StatesOK' /\ AllSeenOK' /\ LifeCyclesKept
  <1>1. \A w \in Workload, s \in Set : measurer'[<<w, s>>] = measurer[<<w, s>>]
    <2>1. \A w \in Workload, s \in Set : <<w, s>> \in Measurer /\ <<w, s>> # Overall
        BY Measurers
    <2> QED
        BY <2>1
  <1>2. StatesOK'
    <2>1. \A w \in Workload, s \in Set : measurer'[<<w, s>>].state = State(s, Place(w)')
        BY <1>1 DEF StatesOK
    <2>2. kernel' = [w \in Workload |-> KernelState(Place(w)')]
        BY DEF StatesOK
    <2> QED
        BY <2>1, <2>2 DEF StatesOK, Moves
  <1>3. ASSUME NEW w \in Workload
        PROVE  SeenOK(w)'
    <2>1. CASE Seen(Overall)' = Seen(Overall)
      <3>1. \A s \in Set : Seen(<<w, s>>)' = Seen(<<w, s>>)
          BY <1>1 DEF Seen
      <3>2. /\ Seen(<<w, "mainMeasurer">>)' = Seen(<<w, "mainMeasurer">>)
            /\ Seen(<<w, "additional">>)' = Seen(<<w, "additional">>)
            /\ Seen(<<w, "validation">>)' = Seen(<<w, "validation">>)
          BY <3>1 DEF Set
      <3>3. SeenOK(w)
          BY DEF AllSeenOK
      <3> HIDE DEF Seen
      <3> QED
          BY <2>1, <3>2, <3>3 DEF SeenOK
    <2>2. CASE p \in BeforeWorkloads
      <3>1. Place(w)' = "unborn"
          BY <2>2 DEF ControlOK, Moves, Place, Dispatching
      <3> QED
          BY <3>1 DEF SeenOK, Ran, HasRun, WarmedUp, Disposing
    <2> QED
        BY <2>1, <2>2
  <1>4. LifeCyclesKept
    <2>1. \A x \in Measurer : OrderlyCall(x) \/ Uncalled(x)
        BY DEF Uncalled
    <2> QED
        BY <2>1, OrderlyCalls
  <1> QED
      BY <1>2, <1>3, <1>4 DEF AllSeenOK

\* The measurement is cloned.
LEMMA SetMeasurementStep ==
  ASSUME RunInv, SetMeasurement
  PROVE  RunInv' /\ LifeCyclesKept
  <1>1. /\ pc[Main] = "nextRun" /\ Len(outputs) < RunCount
        /\ pc' = [t \in Thread |-> IF t = Main THEN "initialize" ELSE "unborn"]
        /\ Afresh(Measurer, "new") /\ kernel' = [w \in Workload |-> "new"]
        /\ keepRunning' = [w \in Workload |-> TRUE]
        /\ opened' = {} /\ pressure' = 0 /\ pressureOpen' = FALSE
        /\ runOutput' = <<>>
        /\ measurement' = measurement /\ raised' = raised /\ outputs' = outputs /\ exitStatus' = exitStatus
      BY DEF SetMeasurement, At
  <1>2. ControlOK /\ StatesOK /\ OutputsOK
      BY DEF RunInv
  <1>3. Place(Main) = "nextRun" /\ \A w \in Workload : pc[w] = "exited" /\ Place(w) = "exited"
      BY <1>1, <1>2 DEF ControlOK, Place, Dispatching, AfterWorkloads
  <1>4. pc'[Main] = "initialize" /\ Place(Main)' = "initialize"
        /\ \A w \in Workload : pc'[w] = "unborn" /\ Place(w)' = "unborn"
      BY <1>1, NoneRaised DEF Place, Dispatching
  <1>5. ControlOK'
    <2>1. \A t \in Thread : raised[t] = None /\ pc'[t] \in {"initialize", "unborn"}
      <3>1. \A t \in Thread : pc[t] \in {"nextRun", "exited"}
          BY <1>1, <1>3 DEF Thread
      <3> QED
          BY <1>1, <1>2, <3>1 DEF ControlOK, Dispatching
    <2>2. "initialize" \in Pc /\ "unborn" \in Pc /\ "initialize" \in MainPlace /\ "unborn" \in WorkloadPlace
          /\ "initialize" \notin AfterWorkloads
        BY DEF Pc, MainPlace, BeforeWorkloads, AfterWorkloads, WorkloadPlace, Unprepared
    <2>3. pc' \in [Thread -> Pc] /\ raised' \in [Thread -> Raised \cup {None}] /\ measurement' \in Measurements
        BY <1>1, <1>2, <2>2 DEF ControlOK
    <2>4. \A t \in Thread : pc'[t] \notin Dispatching /\ raised'[t] = None
        BY <1>1, <2>1 DEF Dispatching
    <2> QED
        BY <1>4, <2>2, <2>3, <2>4 DEF ControlOK
  <1>6. InRun'
      BY <1>4 DEF InRun
  <1>7. /\ measurer' \in [Measurer -> MeasurerRec]
        /\ \A x \in Measurer : measurer'[x].state = "new" /\ measurer'[x].odd = ~ measurer[x].odd
      BY <1>1, <1>2, AfreshEffect DEF StatesOK
  <1>8. StatesOK'
    <2>1. \A s \in Set : State(s, "unborn") = "new"
        BY DEF State, Unprepared
    <2>2. KernelState("unborn") = "new" /\ OverallStates("initialize") = {"new"}
        BY DEF KernelState, OverallStates
    <2>3. \A w \in Workload, s \in Set : measurer'[<<w, s>>].state = State(s, Place(w)')
        BY <1>4, <1>7, <2>1, Measurers
    <2>4. kernel' = [w \in Workload |-> KernelState(Place(w)')]
        BY <1>1, <1>4, <2>2
    <2>5. measurer'[Overall].state \in OverallStates(Place(Main)')
        BY <1>4, <1>7, <2>2, Measurers
    <2> QED
        BY <1>7, <2>3, <2>4, <2>5 DEF StatesOK
  <1>9. AllSeenOK'
      BY <1>4 DEF AllSeenOK, SeenOK, Ran, HasRun, WarmedUp, Disposing
  <1>10. OutputsOK'
    <2>1. Done' = {}
        BY <1>4 DEF Done, Disposing
    <2>2. Cardinality(Done') = 0
        BY <2>1, FS_EmptySet
    <2>3. runOutput' \in Seq(Output) /\ Len(runOutput') = 0
        BY <1>1
    <2>4. \A i \in DOMAIN outputs' : RunComplete(outputs'[i])
        BY <1>1, <1>2 DEF OutputsOK
    <2> QED
        BY <1>1, <1>2, <2>1, <2>2, <2>3, <2>4 DEF OutputsOK
  <1>11. PressureOK'
    <2>1. Rules' = Rules /\ PressureRules' = PressureRules /\ Threshold' = Threshold
        BY <1>1 DEF Rules, PressureRules, Threshold
    <2>2. \A i \in PressureRules : ~ Passed(i)' /\ ~ AtBarrier(i)'
      <3> SUFFICES ASSUME NEW i \in PressureRules
                   PROVE  ~ Passed(i)' /\ ~ AtBarrier(i)'
          OBVIOUS
      <3>1. PICK v \in Workload : v = Rules[i].of
          BY <1>2, PressureRuleOf
      <3>2. pc'[v] = "unborn" /\ Place(v)' = "unborn"
          BY <1>4
      <3> QED
          BY <2>1, <3>1, <3>2 DEF Passed, AtBarrier, HasRun, Ran, Disposing
    <2>3. Arrived' = {}
        BY <2>1, <2>2 DEF Arrived
    <2>4. Cardinality(Arrived') = 0 /\ Threshold \in Nat
        BY <1>2, <2>3, FS_EmptySet, RulesType DEF ControlOK
    <2>5. \A t \in Thread : pc'[t] # "open"
        BY <1>1
    <2>6. pressure' \in 0 .. Threshold' /\ pressureOpen' \in BOOLEAN /\ pressure' = Cardinality(Arrived')
      <3>1. pressure' = 0 /\ pressureOpen' = FALSE
          BY <1>1
      <3>2. 0 \in 0 .. Threshold
          BY <2>4
      <3> QED
          BY <2>1, <2>4, <3>1, <3>2
    <2>7. ~ (pressureOpen' \/ \E t \in Thread : pc'[t] = "open")
        BY <1>1, <2>5
    <2>8. \A i \in PressureRules' : ~ Passed(i)'
        BY <2>1, <2>2
    <2> QED
        BY <2>6, <2>7, <2>8 DEF PressureOK
  <1>12. LoadOK'
    <2>1. keepRunning' \in [Workload -> BOOLEAN] /\ opened' \subseteq DOMAIN Rules'
        BY <1>1
    <2>2. \A w \in measurement'.endless : Place(w)' \notin HasRun \ {"running"}
        BY <1>1, <1>2, <1>4, RulesType DEF ControlOK, HasRun, Ran, Disposing
    <2> QED
        BY <1>1, <2>1, <2>2 DEF LoadOK
  <1>13. LifeCyclesKept
    <2>1. \A s \in Set : State(s, "exited") = "disposed"
        BY DEF State, Unprepared, Unstarted, Started, Prepared, Warming, Starting, Ran, Disposing, Set
    <2>2. \A x \in Measurer : measurer[x].state \in {"disposed", "read"}
      <3>1. \A w \in Workload, s \in Set : measurer[<<w, s>>].state = "disposed"
          BY <1>2, <1>3, <2>1 DEF StatesOK
      <3>2. measurer[Overall].state \in {"disposed", "read"}
          BY <1>2, <1>3 DEF StatesOK, OverallStates
      <3> QED
          BY <3>1, <3>2, Measurers
    <2>3. \A x \in Measurer : OrderlyCall(x)
        BY <1>7, <2>2 DEF OrderlyCall
    <2> QED
        BY <2>3, OrderlyCalls
  <1> QED
      BY <1>5, <1>8, <1>9, <1>10, <1>11, <1>12, <1>13 DEF RunInv

\* The output of the overall measurers completes the run.
LEMMA CollectOutputs ==
  ASSUME ControlOK, StatesOK, AllSeenOK, OutputsOK, InRun, Place(Main) = "collect",
         Place(Main)' = "nextRun",
         outputs' = Append(outputs, Append(runOutput,
                      [of |-> None, seen |-> [s \in {"overall"} |-> Seen(Overall)]])),
         runOutput' = <<>>, exitStatus' = exitStatus, exitStatus = None
  PROVE  OutputsOK'
  <1> DEFINE seen == [s \in {"overall"} |-> Seen(Overall)]
             o == [of |-> None, seen |-> seen]
             run == Append(runOutput, o)
  <1>1. \A w \in Workload : Place(w) = "exited"
      BY DEF ControlOK, AfterWorkloads, Place, Dispatching
  <1>2. Done = Workload
      BY <1>1 DEF Done
  <1>3. o.of = None /\ o.seen["overall"] = Seen(Overall) /\ o \in Output
    <2>1. seen \in [{"overall"} -> SUBSET (Thread \X What)]
        BY Measurers DEF StatesOK, MeasurerRec, Seen
    <2> QED
        BY <2>1 DEF Output
  <1>4. OverallOutput(o)
    <2>1. \A w \in Workload : <<w, "kernel">> \in Seen(Overall)
        BY <1>1 DEF AllSeenOK, SeenOK, HasRun
    <2> QED
        BY <1>3, <2>1 DEF OverallOutput
  <1> HIDE DEF o, seen
  <1>5. runOutput \in Seq(Output) /\ outputs \in Seq(Seq(Output)) /\ Len(runOutput) = Cardinality(Workload)
        /\ Len(outputs) < RunCount
      BY <1>2 DEF OutputsOK
  <1>6. /\ run \in Seq(Output) /\ Len(run) = Len(runOutput) + 1
        /\ run[Len(runOutput) + 1] = o
        /\ \A j \in 1 .. Len(runOutput) : run[j] = runOutput[j]
      BY <1>3, <1>5, AppendProperties
  <1> HIDE DEF run
  <1>7. DOMAIN runOutput = 1 .. Len(runOutput) /\ DOMAIN run = 1 .. (Len(runOutput) + 1)
        /\ Len(runOutput) \in Nat
      BY <1>5, <1>6
  <1>8. RunComplete(run)
    <2>1. Len(run) = Cardinality(Workload) + 1
        BY <1>5, <1>6
    <2>2. ASSUME NEW w \in Workload
          PROVE  \E j \in DOMAIN run : OutputOf(run[j], w)
      <3>1. PICK j \in DOMAIN runOutput : OutputOf(runOutput[j], w)
          BY <1>2 DEF OutputsOK
      <3>2. j \in DOMAIN run /\ run[j] = runOutput[j]
          BY <1>6, <1>7, <3>1
      <3> QED
          BY <3>1, <3>2
    <2>3. \E j \in DOMAIN run : OverallOutput(run[j])
      <3>1. Len(runOutput) + 1 \in DOMAIN run
          BY <1>7
      <3> QED
          BY <1>4, <1>6, <3>1
    <2> QED
        BY <2>1, <2>2, <2>3 DEF RunComplete
  <1>9. outputs' = Append(outputs, run)
      BY DEF run, o, seen
  <1>10. /\ outputs' \in Seq(Seq(Output)) /\ Len(outputs') = Len(outputs) + 1
         /\ outputs'[Len(outputs) + 1] = run
         /\ \A i \in 1 .. Len(outputs) : outputs'[i] = outputs[i]
      BY <1>5, <1>6, <1>9, AppendProperties
  <1>11. DOMAIN outputs = 1 .. Len(outputs) /\ DOMAIN outputs' = 1 .. (Len(outputs) + 1) /\ Len(outputs) \in Nat
      BY <1>5, <1>10
  <1>12. ASSUME NEW i \in DOMAIN outputs'
         PROVE  RunComplete(outputs'[i])
    <2>1. CASE i \in DOMAIN outputs
      <3>1. outputs'[i] = outputs[i]
          BY <1>10, <1>11, <2>1
      <3> QED
          BY <2>1, <3>1 DEF OutputsOK
    <2>2. CASE i \notin DOMAIN outputs
      <3>1. i = Len(outputs) + 1
          BY <1>11, <1>12, <2>2
      <3> QED
          BY <1>8, <1>10, <3>1
    <2> QED
        BY <2>1, <2>2
  <1>13. Len(outputs') <= RunCount
      BY <1>5, <1>10, <1>11, BoundAssumption
  <1>14. ~ InRun'
      BY DEF InRun
  <1>15. exitStatus' = None /\ None # 0
      BY NoneAssumption
  <1>16. runOutput' \in Seq(Output)
      OBVIOUS
  <1> QED
      BY <1>10, <1>12, <1>13, <1>14, <1>15, <1>16 DEF OutputsOK

\* Nothing happens but that the process may exit.
LEMMA StatusKeeps ==
  ASSUME RunInv, UNCHANGED <<measurement, pc, raised, clones, runOutput, outputs>>,
         exitStatus' \in {None, 0, 1}, exitStatus' = 0 => Len(outputs) = RunCount
  PROVE  RunInv' /\ LifeCyclesKept
  <1>1. ControlOK /\ StatesOK /\ AllSeenOK /\ OutputsOK /\ PressureOK /\ LoadOK
      BY DEF RunInv
  <1>2. /\ measurement' = measurement /\ pc' = pc /\ raised' = raised /\ measurer' = measurer
        /\ kernel' = kernel /\ keepRunning' = keepRunning /\ opened' = opened /\ pressure' = pressure
        /\ pressureOpen' = pressureOpen /\ runOutput' = runOutput /\ outputs' = outputs
      BY DEF clones
  <1>3. (\A t : Place(t)' = Place(t)) /\ Rules' = Rules /\ (InRun' <=> InRun) /\ \A x : Seen(x)' = Seen(x)
      BY <1>2 DEF Place, Rules, InRun, Seen
  <1>4. ControlOK'
      BY <1>1, <1>2, <1>3 DEF ControlOK, DispatchOK, Matches, Current
  <1>5. StatesOK'
      BY <1>1, <1>2, <1>3 DEF StatesOK
  <1>6. AllSeenOK'
    <2> SUFFICES ASSUME NEW w \in Workload
                 PROVE  SeenOK(w)'
        BY DEF AllSeenOK
    <2>1. SeenOK(w)
        BY <1>1 DEF AllSeenOK
    <2> HIDE DEF Seen
    <2> QED
        BY <1>3, <2>1 DEF SeenOK
  <1>7. OutputsOK'
    <2>1. Done' = Done
        BY <1>3 DEF Done
    <2>2. \A i \in DOMAIN outputs' : RunComplete(outputs'[i])
        BY <1>1, <1>2 DEF OutputsOK
    <2>3. ASSUME InRun'
          PROVE  /\ Len(outputs') < RunCount /\ Len(runOutput') = Cardinality(Done')
                 /\ \A v \in Done' : \E j \in DOMAIN runOutput' : OutputOf(runOutput'[j], v)
        BY <1>1, <1>2, <1>3, <2>1, <2>3 DEF OutputsOK
    <2> QED
        BY <1>1, <1>2, <2>2, <2>3 DEF OutputsOK
  <1>8. PressureOK'
    <2>1. PressureRules' = PressureRules /\ Threshold' = Threshold
        BY <1>3 DEF PressureRules, Threshold
    <2>2. \A i \in PressureRules : (Passed(i)' <=> Passed(i)) /\ (AtBarrier(i)' <=> AtBarrier(i))
        BY <1>2, <1>3 DEF Passed, AtBarrier, Current
    <2>3. Arrived' = Arrived
        BY <2>1, <2>2 DEF Arrived
    <2> QED
        BY <1>1, <1>2, <1>3, <2>1, <2>2, <2>3 DEF PressureOK
  <1>9. LoadOK'
      BY <1>1, <1>2, <1>3 DEF LoadOK, Stops
  <1>10. LifeCyclesKept
      BY <1>2, OrderlyCalls DEF Uncalled
  <1> QED
      BY <1>4, <1>5, <1>6, <1>7, <1>8, <1>9, <1>10 DEF RunInv

\* The steps of ChildProcess::innerMain().
LEMMA InnerMainStep ==
  ASSUME RunInv, InnerMain
  PROVE  RunInv' /\ LifeCyclesKept
  <1>1. ControlOK /\ StatesOK /\ AllSeenOK /\ OutputsOK /\ PressureOK /\ LoadOK
        /\ measurer \in [Measurer -> MeasurerRec]
      BY DEF RunInv, StatesOK
  <1>2. CASE InitializeRun
    <2>1. MainFollows("initialize", "raiseRunStart")
        BY DEF MainFollows
    <2>2. Moves(Main, "initialize", "raiseRunStart")
        BY <1>1, <1>2, <2>1, MainFollowsPlaces, NoneRaised, GotoMoves DEF InitializeRun, At
    <2>3. /\ ControlOK' /\ PressureOK' /\ LoadOK' /\ InRun
          /\ \A w \in Workload : Place(w)' = Place(w)
        BY <1>2, <2>1, <2>2, MainKeeps DEF InitializeRun
    <2>4. /\ measurer' \in [Measurer -> MeasurerRec] /\ measurer'[Overall].state = "ready"
          /\ measurer'[Overall].odd = ~ measurer[Overall].odd /\ Seen(Overall)' = Seen(Overall)
          /\ \A x \in Measurer : x # Overall => measurer'[x] = measurer[x]
        BY <1>1, <1>2, EnterEffect, Measurers DEF InitializeRun, Seen
    <2>5. measurer[Overall].state = "new" /\ "ready" \in OverallStates("raiseRunStart")
        BY <1>1, <2>2 DEF StatesOK, OverallStates, Moves
    <2>6. OrderlyCall(Overall)
        BY <2>4, <2>5 DEF OrderlyCall
    <2>7. StatesOK' /\ AllSeenOK' /\ LifeCyclesKept
        BY <1>1, <1>2, <2>2, <2>3, <2>4, <2>5, <2>6, OverallKeeps DEF InitializeRun
    <2>8. OutputsOK'
        BY <1>1, <1>2, <2>3, SameOutputs DEF InitializeRun
    <2> QED
        BY <2>3, <2>7, <2>8 DEF RunInv
  <1>3. CASE StartOverall
    <2>1. MainFollows("startOverall", "startWorkloads")
        BY DEF MainFollows
    <2>2. Moves(Main, "startOverall", "startWorkloads")
        BY <1>1, <1>3, <2>1, MainFollowsPlaces, NoneRaised, GotoMoves DEF StartOverall, At
    <2>3. /\ ControlOK' /\ PressureOK' /\ LoadOK' /\ InRun
          /\ \A w \in Workload : Place(w)' = Place(w)
        BY <1>3, <2>1, <2>2, MainKeeps DEF StartOverall
    <2>4. /\ measurer' \in [Measurer -> MeasurerRec] /\ measurer'[Overall].state = "started"
          /\ measurer'[Overall].odd = ~ measurer[Overall].odd
          /\ \A x \in Measurer : x # Overall => measurer'[x] = measurer[x]
        BY <1>1, <1>3, AfreshEffect, Measurers DEF StartOverall
    <2>5. measurer[Overall].state = "ready" /\ "started" \in OverallStates("startWorkloads")
          /\ "startOverall" \in BeforeWorkloads
        BY <1>1, <2>2 DEF StatesOK, OverallStates, Moves, BeforeWorkloads
    <2>6. OrderlyCall(Overall)
        BY <2>4, <2>5 DEF OrderlyCall
    <2>7. StatesOK' /\ AllSeenOK' /\ LifeCyclesKept
        BY <1>1, <1>3, <2>2, <2>3, <2>4, <2>5, <2>6, OverallKeeps DEF StartOverall
    <2>8. OutputsOK'
        BY <1>1, <1>3, <2>3, SameOutputs DEF StartOverall
    <2> QED
        BY <2>3, <2>7, <2>8 DEF RunInv
  <1>4. CASE Join
    <2>1. MainFollows("startWorkloads", "raiseRunStop")
        BY DEF MainFollows
    <2>2. Moves(Main, "startWorkloads", "raiseRunStop")
        BY <1>1, <1>4, <2>1, MainFollowsPlaces, NoneRaised, GotoMoves DEF Join, At
    <2>3. /\ ControlOK' /\ PressureOK' /\ LoadOK' /\ InRun
          /\ \A w \in Workload : Place(w)' = Place(w)
        BY <1>4, <2>1, <2>2, MainKeeps DEF Join
    <2>4. /\ measurer' \in [Measurer -> MeasurerRec] /\ measurer'[Overall].state = "stopped"
          /\ measurer'[Overall].odd = ~ measurer[Overall].odd /\ Seen(Overall)' = Seen(Overall)
          /\ \A x \in Measurer : x # Overall => measurer'[x] = measurer[x]
        BY <1>1, <1>4, EnterEffect, Measurers DEF Join, Seen
    <2>5. measurer[Overall].state = "started" /\ "stopped" \in OverallStates("raiseRunStop")
        BY <1>1, <2>2 DEF StatesOK, OverallStates, Moves
    <2>6. OrderlyCall(Overall)
        BY <2>4, <2>5 DEF OrderlyCall
    <2>7. StatesOK' /\ AllSeenOK' /\ LifeCyclesKept
        BY <1>1, <1>4, <2>2, <2>3, <2>4, <2>5, <2>6, OverallKeeps DEF Join
    <2>8. OutputsOK'
        BY <1>1, <1>4, <2>3, SameOutputs DEF Join
    <2> QED
        BY <2>3, <2>7, <2>8 DEF RunInv
  <1>5. CASE Collect
    <2>1. MainFollows("collect", "nextRun")
        BY DEF MainFollows
    <2>2. Moves(Main, "collect", "nextRun")
        BY <1>1, <1>5, <2>1, MainFollowsPlaces, NoneRaised, GotoMoves DEF Collect, At
    <2>3. /\ ControlOK' /\ PressureOK' /\ LoadOK' /\ InRun
          /\ \A w \in Workload : Place(w)' = Place(w)
        BY <1>5, <2>1, <2>2, MainKeeps DEF Collect
    <2>4. /\ measurer' \in [Measurer -> MeasurerRec] /\ measurer'[Overall].state = "read"
          /\ measurer'[Overall].odd = ~ measurer[Overall].odd /\ Seen(Overall)' = Seen(Overall)
          /\ \A x \in Measurer : x # Overall => measurer'[x] = measurer[x]
        BY <1>1, <1>5, EnterEffect, Measurers DEF Collect, Seen
    <2>5. measurer[Overall].state = "stopped" /\ "read" \in OverallStates("nextRun")
        BY <1>1, <2>2 DEF StatesOK, OverallStates, Moves
    <2>6. OrderlyCall(Overall)
        BY <2>4, <2>5 DEF OrderlyCall
    <2>7. StatesOK' /\ AllSeenOK' /\ LifeCyclesKept
        BY <1>1, <1>5, <2>2, <2>3, <2>4, <2>5, <2>6, OverallKeeps DEF Collect
    <2>8. OutputsOK'
        BY <1>1, <1>5, <2>2, <2>3, CollectOutputs DEF Collect, At, Moves
    <2> QED
        BY <2>3, <2>7, <2>8 DEF RunInv
  <1>6. ASSUME NEW p, NEW event, NEW q, Raise(Main, p, event, q),
               \/ p = "raiseRunStart" /\ event = "RunStart" /\ q = "startOverall"
               \/ p = "raiseRunStop" /\ event = "RunStop" /\ q = "collect"
        PROVE  RunInv' /\ LifeCyclesKept
    <2>1. MainFollows(p, q) /\ p # "startWorkloads" /\ <<event, q>> \in After
        BY <1>6 DEF MainFollows, After
    <2>2. Moves(Main, p, q)
        BY <1>1, <1>6, <2>1, MainFollowsPlaces, NoneRaised, RaiseMoves
    <2>3. /\ ControlOK' /\ PressureOK' /\ LoadOK' /\ InRun
          /\ \A w \in Workload : Place(w)' = Place(w)
        BY <1>6, <2>1, <2>2, MainKeeps DEF Raise, clones
    <2>4. measurer' = measurer /\ kernel' = kernel
        BY <1>6 DEF Raise, clones
    <2>5. measurer'[Overall].state \in OverallStates(q)
        BY <1>1, <1>6, <2>2, <2>4 DEF StatesOK, OverallStates, Moves
    <2>6. Uncalled(Overall) /\ Seen(Overall)' = Seen(Overall)
        BY <2>4 DEF Uncalled, Seen
    <2>7. StatesOK' /\ AllSeenOK' /\ LifeCyclesKept
        BY <1>1, <2>2, <2>3, <2>4, <2>5, <2>6, OverallKeeps
    <2>8. OutputsOK'
        BY <1>1, <1>6, <2>3, SameOutputs DEF Raise
    <2> QED
        BY <2>3, <2>7, <2>8 DEF RunInv
  <1>7. CASE Finish
    <2>1. Len(outputs) = RunCount
        BY <1>1, <1>7, BoundAssumption DEF Finish, OutputsOK
    <2> QED
        BY <1>7, <2>1, StatusKeeps DEF Finish
  <1>8. CASE SetMeasurement
      BY <1>8, SetMeasurementStep
  <1>9. CASE \E w \in Workload : StartWorkload(w)
      BY <1>9, StartWorkloadStep
  <1> QED
      BY <1>2, <1>3, <1>4, <1>5, <1>6, <1>7, <1>8, <1>9 DEF InnerMain

----------------------------------------------------------------------------
(* The invariant.                                                          *)

\* It holds in the initial states ...
LEMMA InitRunInv ==
  ASSUME Init
  PROVE  RunInv /\ \A x \in Measurer : LifeCycle(x)!Init
  <1>1. /\ measurement \in Measurements
        /\ pc = [t \in Thread |-> IF t = Main THEN "nextRun" ELSE "exited"]
        /\ raised = [t \in Thread |-> None]
        /\ measurer = [x \in Measurer |-> [state |-> "disposed", odd |-> FALSE, seen |-> {}]]
        /\ kernel = [w \in Workload |-> "disposed"]
        /\ keepRunning = [w \in Workload |-> TRUE]
        /\ opened = {} /\ pressure = 0 /\ pressureOpen = FALSE
        /\ runOutput = <<>> /\ outputs = <<>>
        /\ exitStatus = None
      BY DEF Init
  <1>2. pc[Main] = "nextRun" /\ Place(Main) = "nextRun"
        /\ \A w \in Workload : pc[w] = "exited" /\ Place(w) = "exited"
      BY <1>1, NoneRaised DEF Place, Dispatching
  <1>3. ~ InRun
      BY <1>2 DEF InRun
  <1>4. ControlOK
    <2>1. "nextRun" \in Pc /\ "exited" \in Pc /\ "nextRun" \in MainPlace /\ "exited" \in WorkloadPlace
          /\ "nextRun" \notin BeforeWorkloads
        BY DEF Pc, MainPlace, BeforeWorkloads, AfterWorkloads, WorkloadPlace
    <2>2. pc \in [Thread -> Pc] /\ raised \in [Thread -> Raised \cup {None}]
          /\ \A t \in Thread : pc[t] \notin Dispatching /\ raised[t] = None
        BY <1>1, <2>1 DEF Dispatching
    <2> QED
        BY <1>1, <1>2, <2>1, <2>2 DEF ControlOK
  <1>5. \A x \in Measurer : measurer[x].state = "disposed" /\ measurer[x].odd = FALSE
      BY <1>1
  <1>6. StatesOK
    <2>1. (\A s \in Set : State(s, "exited") = "disposed") /\ KernelState("exited") = "disposed"
          /\ "disposed" \in OverallStates("nextRun")
        BY DEF State, Unprepared, Unstarted, Started, Prepared, Warming, Starting, Ran, Disposing, Set,
           KernelState, OverallStates
    <2>2. measurer \in [Measurer -> MeasurerRec]
        BY <1>1 DEF MeasurerRec
    <2>3. \A w \in Workload, s \in Set : measurer[<<w, s>>].state = State(s, Place(w))
        BY <1>2, <1>5, <2>1, Measurers
    <2>4. kernel = [w \in Workload |-> KernelState(Place(w))]
        BY <1>1, <1>2, <2>1
    <2>5. measurer[Overall].state \in OverallStates(Place(Main))
        BY <1>2, <1>5, <2>1, Measurers
    <2> QED
        BY <2>2, <2>3, <2>4, <2>5 DEF StatesOK
  <1>7. AllSeenOK
      BY <1>2, <1>3 DEF AllSeenOK, SeenOK, Ran
  <1>8. OutputsOK
    <2>1. outputs \in Seq(Seq(Output)) /\ runOutput \in Seq(Output) /\ Len(outputs) = 0 /\ DOMAIN outputs = {}
        BY <1>1
    <2>2. exitStatus = None /\ None # 0
        BY <1>1, NoneAssumption
    <2> QED
        BY <1>3, <2>1, <2>2, BoundAssumption DEF OutputsOK
  <1>9. PressureOK
    <2>1. Threshold \in Nat
        BY <1>1, RulesType
    <2>2. 0 \in 0 .. Threshold
        BY <2>1
    <2>3. pressure = 0 /\ pressureOpen = FALSE
        BY <1>1
    <2> QED
        BY <1>3, <2>2, <2>3 DEF PressureOK
  <1>10. LoadOK
      BY <1>1, <1>3 DEF LoadOK
  <1>11. \A x \in Measurer : LifeCycle(x)!Init
      BY <1>5 DEF LifeCycle!Init
  <1> QED
      BY <1>4, <1>6, <1>7, <1>8, <1>9, <1>10, <1>11 DEF RunInv

\* ... and after every step.
LEMMA NextRunInv ==
  ASSUME RunInv, [Next]_vars
  PROVE  RunInv' /\ LifeCyclesKept
  <1>1. ASSUME NEW t \in Thread, ThreadStep(t)
        PROVE  RunInv' /\ LifeCyclesKept
      BY <1>1, DispatchStep, InnerMainStep, WorkloadStep DEF ThreadStep
  <1>2. ASSUME NEW t \in Thread, Fails(t)
        PROVE  RunInv' /\ LifeCyclesKept
      BY <1>2, StatusKeeps DEF Fails
  <1>3. CASE UNCHANGED vars
    <2>1. exitStatus \in {None, 0, 1} /\ (exitStatus = 0 => Len(outputs) = RunCount) /\ exitStatus' = exitStatus
        BY <1>3 DEF RunInv, OutputsOK, vars
    <2> QED
        BY <1>3, <2>1, StatusKeeps DEF vars
  <1> QED
      BY <1>1, <1>2, <1>3 DEF Next, Terminated

\* Where the threads of a measurement are, what its measurers are in and have
\* seen, what is output, and what its barriers and kernels wait for.
THEOREM RunInvariant == Spec => []RunInv
  <1>1. Init => RunInv
      BY InitRunInv
  <1>2. RunInv /\ [Next]_vars => RunInv'
      BY NextRunInv
  <1> QED
      BY <1>1, <1>2, PTL DEF Spec

\* Every variable has its type, and the pressure never exceeds the threshold.
THEOREM TypeCorrect == Spec => []TypeOK
  <1>1. RunInv => TypeOK
    <2> SUFFICES ASSUME RunInv
                 PROVE  TypeOK
        OBVIOUS
    <2>1. ControlOK /\ StatesOK /\ OutputsOK /\ PressureOK /\ LoadOK
        BY DEF RunInv
    <2>2. \A t \in Thread : raised[t] = None <=> pc[t] \notin {"rules", "open", "spin"}
        BY <2>1, NoneRaised DEF ControlOK, DispatchOK, Dispatching
    <2>3. \A x \in Measurer :
            /\ measurer[x].state \in {"new", "ready", "started", "stopped", "read", "disposed"}
            /\ measurer[x].seen \subseteq Thread \X {"init", "event", "warm", "kernel", "dispose"}
        BY <2>1 DEF StatesOK, MeasurerRec, What
    <2>4. kernel \in [Workload -> {"new", "ready", "running", "ran", "disposed"}]
        BY <2>1 DEF StatesOK, KernelState
    <2> QED
        BY <2>1, <2>2, <2>3, <2>4 DEF TypeOK, ControlOK, OutputsOK, PressureOK, LoadOK
  <1> QED
      BY <1>1, RunInvariant, PTL

\* A result that is written holds every run, with an output for each workload,
\* whose main and additional measurers saw its kernel and nothing else, and one
\* for the overall measurers, which saw all kernels.
THEOREM ResultsComplete == Spec => []OutputsComplete
  <1>1. RunInv => OutputsComplete
    <2> SUFFICES ASSUME RunInv
                 PROVE  OutputsComplete
        OBVIOUS
    <2>1. OutputsOK
        BY DEF RunInv
    <2> SUFFICES ASSUME NEW i \in DOMAIN outputs
                 PROVE  LET run == outputs[i]
                            Of(o) == {run[j] : j \in {k \in DOMAIN run : run[k].of = o}}
                        IN  /\ Len(run) = Cardinality(Workload) + 1
                            /\ \A w \in Workload : \E o \in Of(w) :
                                 /\ o.seen["mainMeasurer"] = {<<w, "kernel">>}
                                 /\ o.seen["additional"] = {<<w, "kernel">>}
                                 /\ {<<w, "warm">>, <<w, "kernel">>} \subseteq o.seen["validation"]
                            /\ \E o \in Of(None) : \A w \in Workload : <<w, "kernel">> \in o.seen["overall"]
        BY <2>1 DEF OutputsComplete, OutputsOK
    <2> DEFINE run == outputs[i]
               Of(o) == {run[j] : j \in {k \in DOMAIN run : run[k].of = o}}
    <2>2. RunComplete(run)
        BY <2>1 DEF OutputsOK
    <2> HIDE DEF run
    <2>3. ASSUME NEW w \in Workload
          PROVE  \E o \in Of(w) :
                   /\ o.seen["mainMeasurer"] = {<<w, "kernel">>}
                   /\ o.seen["additional"] = {<<w, "kernel">>}
                   /\ {<<w, "warm">>, <<w, "kernel">>} \subseteq o.seen["validation"]
      <3>1. PICK j \in DOMAIN run : OutputOf(run[j], w)
          BY <2>2 DEF RunComplete
      <3>2. run[j] \in Of(w)
          BY <3>1 DEF OutputOf
      <3> QED
          BY <3>1, <3>2 DEF OutputOf
    <2>4. \E o \in Of(None) : \A w \in Workload : <<w, "kernel">> \in o.seen["overall"]
      <3>1. PICK j \in DOMAIN run : OverallOutput(run[j])
          BY <2>2 DEF RunComplete
      <3>2. run[j] \in Of(None)
          BY <3>1 DEF OverallOutput
      <3> QED
          BY <3>1, <3>2 DEF OverallOutput
    <2>5. Len(run) = Cardinality(Workload) + 1
        BY <2>2 DEF RunComplete
    <2> QED
        BY <2>3, <2>4, <2>5 DEF run
  <1> QED
      BY <1>1, RunInvariant, PTL

\* No kernel that waits for the pressure barrier runs while another one that does
\* still prepares its caches.
THEOREM KernelsStartTogether == Spec => []StartTogether
  <1>1. RunInv => StartTogether
    <2> SUFFICES ASSUME RunInv, NEW i \in PressureRules, NEW j \in PressureRules,
                        kernel[Rules[i].of] = "running"
                 PROVE  <<Rules[j].of, "warm">> \in Seen(<<Rules[j].of, "validation">>)
        BY DEF StartTogether
    <2>1. ControlOK /\ StatesOK /\ AllSeenOK /\ PressureOK
        BY DEF RunInv
    <2>2. PICK w \in Workload : w = Rules[i].of
        BY <2>1, PressureRuleOf
    <2>3. PICK v \in Workload : v = Rules[j].of
        BY <2>1, PressureRuleOf
    <2>4. Place(w) = "running"
        BY <2>1, <2>2 DEF StatesOK, KernelState
    <2>5. InRun
        BY <2>1, <2>4 DEF InRun, ControlOK, AfterWorkloads, Place, Dispatching
    <2>6. pressureOpen
      <3>1. Passed(i)
          BY <2>2, <2>4 DEF Passed, HasRun, Ran
      <3> QED
          BY <2>1, <2>5, <3>1 DEF PressureOK
    <2>7. Arrived = PressureRules
      <3>1. IsFiniteSet(PressureRules) /\ Threshold \in Nat
          BY <2>1, RulesType DEF ControlOK
      <3>2. Arrived \subseteq PressureRules
          BY DEF Arrived
      <3>3. pressure = Cardinality(Arrived) /\ pressure >= Threshold
          BY <2>1, <2>5, <2>6 DEF PressureOK
      <3>4. Cardinality(Arrived) >= Cardinality(PressureRules)
          BY <3>3 DEF Threshold
      <3>5. Cardinality(Arrived) <= Cardinality(PressureRules)
            /\ (Cardinality(Arrived) = Cardinality(PressureRules) => Arrived = PressureRules)
          BY <3>1, <3>2, FS_Subset
      <3>6. Cardinality(Arrived) \in Nat /\ Cardinality(PressureRules) \in Nat
          BY <3>1, <3>2, FS_Subset, FS_CardinalityType
      <3> QED
          BY <3>4, <3>5, <3>6
    <2>8. Place(v) \in WarmedUp
      <3>1. CASE Passed(j)
          BY <2>3, <3>1 DEF Passed, WarmedUp, HasRun
      <3>2. CASE AtBarrier(j)
        <4>1. pc[v] \in {"open", "spin"} /\ v \in Thread
            BY <2>3, <3>2, NoneRaised DEF AtBarrier
        <4>2. DispatchOK(v)
            BY <2>1, <4>1 DEF ControlOK, Dispatching
        <4>3. raised[v].todo # {} /\ Rules[Current(v)].action = "waitForPressureBarrier"
            BY <4>1, <4>2 DEF DispatchOK
        <4>4. Place(v) = "startAdditional"
            BY <2>1, <4>1, <4>3, CurrentRule DEF Dispatching
        <4> QED
            BY <4>4 DEF WarmedUp
      <3> QED
          BY <2>7, <3>1, <3>2 DEF Arrived
    <2> QED
        BY <2>1, <2>3, <2>5, <2>8 DEF AllSeenOK, SeenOK
  <1> QED
      BY <1>1, RunInvariant, PTL

\* The kernel that loads the system runs as long as the one that is measured.
THEOREM LoadOutlasts == Spec => []LoadOutlastsKernel
  <1>1. RunInv => LoadOutlastsKernel
    <2> SUFFICES ASSUME RunInv, NEW i \in DOMAIN Rules, Rules[i].action = "stopKernel",
                        Rules[i].event = "Stop", kernel[Rules[i].of] = "running",
                        kernel[Rules[i].target] \in {"ran", "disposed"}
                 PROVE  FALSE
        BY DEF LoadOutlastsKernel
    <2>1. ControlOK /\ StatesOK /\ LoadOK /\ measurement \in Measurements
        BY DEF RunInv, ControlOK
    <2>2. Rules[i].of \in Workload /\ Rules[i].target \in measurement.endless
        BY <2>1, LoadAssumption DEF Rules
    <2>3. PICK w \in Workload : w = Rules[i].of
        BY <2>2
    <2>4. PICK v \in Workload : v = Rules[i].target /\ v \in measurement.endless
        BY <2>1, <2>2, RulesType
    <2>5. Place(w) = "running"
        BY <2>1, <2>3 DEF StatesOK, KernelState
    <2>6. InRun
        BY <2>1, <2>5 DEF InRun, ControlOK, AfterWorkloads, Place, Dispatching
    <2>7. Place(v) \in HasRun \ {"running"}
      <3>1. KernelState(Place(v)) \in {"ran", "disposed"}
          BY <2>1, <2>4 DEF StatesOK
      <3> QED
          BY <3>1 DEF KernelState, HasRun, Disposing
    <2>8. ~ keepRunning[v] /\ Stops(i, v)
        BY <2>1, <2>4, <2>6, <2>7 DEF LoadOK, Stops
    <2>9. Place(w) \in {"addOutput"} \cup Disposing \cup {"exited"}
        BY <2>1, <2>3, <2>6, <2>8 DEF LoadOK
    <2> QED
        BY <2>5, <2>9 DEF Disposing
  <1> QED
      BY <1>1, RunInvariant, PTL

\* Every measurer of every run is used the way it is meant to be used.
THEOREM MeasurersUsedRight == Spec => KeepsLifeCycles
  <1>1. RunInv /\ [Next]_vars =>
          [\A x \in Measurer : [LifeCycle(x)!Next]_<<measurer[x].state, measurer[x].odd>>]_measurer
      BY NextRunInv DEF LifeCyclesKept
  <1>2. Init => \A x \in Measurer : LifeCycle(x)!Init
      BY InitRunInv
  <1> QED
      BY <1>1, <1>2, RunInvariant, PTL DEF Spec, KeepsLifeCycles
=============================================================================
