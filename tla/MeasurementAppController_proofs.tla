------------------ MODULE MeasurementAppController_proofs ------------------
(***************************************************************************)
(* Proofs about MeasurementAppController, for any measurements, files and  *)
(* numbers of runs. Whatever fails, what the driver knows of cores only    *)
(* grows. If neither writing the files nor the compiler fails, what it     *)
(* knows is true; with checkCore so are the results it returns and stores. *)
(***************************************************************************)
EXTENDS MeasurementAppController, TLAPS

\* What is proved of the repository, for the cores of the controller.
R == INSTANCE MeasurementHashRepository_proofs

LEMMA RepositoryOfMeasurements == R!MeasurementAssumption /\ R!HashAssumption
  BY FilesAssumption, NamesAssumption
  DEF R!MeasurementAssumption, R!HashAssumption, Hash, TrueCore, Core

\* The calls are those the lemmas are about.
LEMMA EqualCall ==
  ASSUME NEW a, NEW b, Repository!setHaveEqualCores(a, b)
  PROVE  R!EqualStep(a, b)
  BY DEF Repository!setHaveEqualCores, R!EqualStep, Repository!vars, R!vars, Repository!Move, R!Move,
         Repository!mergeSecondCoreIntoFirstCore, R!mergeSecondCoreIntoFirstCore,
         Repository!HashesDiffer, R!HashesDiffer

LEMMA HashCall ==
  ASSUME NEW m, NEW h, Repository!setCoreHash(m, h)
  PROVE  R!setCoreHash(m, h)
  BY DEF Repository!setCoreHash, R!setCoreHash, Repository!Move, R!Move

LEMMA RepositorySame ==
  /\ \A m : Repository!getCoreHash(m) = R!getCoreHash(m)
  /\ \A a, b : Repository!areCoresEqual(a, b) <=> R!areCoresEqual(a, b)
  /\ Repository!KnowledgeIsTrue <=> R!KnowledgeIsTrue
  BY DEF Repository!getCoreHash, R!getCoreHash, Repository!areCoresEqual, R!areCoresEqual,
         Repository!KnowledgeIsTrue, R!KnowledgeIsTrue

LEMMA RepositoryUnchanged ==
  ASSUME UNCHANGED repository
  PROVE  /\ R!Structure => R!Structure'
         /\ R!KnowledgeIsTrue => R!KnowledgeIsTrue'
         /\ R!IInv => R!IInv'
<1>1. UNCHANGED R!vars
  BY DEF R!vars, repository
<1> QED
  BY <1>1, R!StutterInv, RepositoryOfMeasurements DEF R!IInv

LEMMA RepositoryInit == Repository!Init => R!IInv
<1>1. Repository!Init => R!Init
  BY DEF Repository!Init, R!Init, Repository!Core, R!Core
<1> QED
  BY <1>1, R!InitInv, RepositoryOfMeasurements

LEMMA RepositoryReset == Repository!Reset => R!IInv'
<1>1. Repository!Reset => R!Reset
  BY DEF Repository!Reset, R!Reset, Repository!Core, R!Core
<1> QED
  BY <1>1, R!ResetInv, RepositoryOfMeasurements

LEMMA KnownHash ==
  ASSUME R!Structure, NEW m \in Measurement
  PROVE  R!getCoreHash(m) \in Hash \cup {None}
  BY DEF R!Structure, R!TypeOK, R!getCoreHash, R!Core

----------------------------------------------------------------------------
(* Whatever fails.                                                         *)

Compiling == {"compileToCheck", "compileToRun", "compileToLabel"}

\* What the call that goes on has found out so far.
CallOK ==
  /\ pc = "idle" <=> measurement = None
  /\ pc # "idle" => numberOfRuns > 0
  /\ pc \in {"check", "compileToCheck"} => cache[measurement] # None
  /\ pc \in {"run", "compileToRun"} => Len(runOutputs) < numberOfRuns
  /\ pc \in {"label", "compileToLabel"} => Len(runOutputs) \in 1 .. MaxRuns

Sound == TypeOK /\ CallOK /\ R!Structure

\* The outputs of a run are put before those there are.
LEMMA RunOutputs ==
  ASSUME NEW S, NEW s \in Seq(S), NEW e \in S, NEW k \in Nat
  PROVE  /\ [i \in 1 .. k |-> e] \o s \in Seq(S)
         /\ Len([i \in 1 .. k |-> e] \o s) = k + Len(s)
         /\ \A n \in DOMAIN ([i \in 1 .. k |-> e] \o s) :
              \/ ([i \in 1 .. k |-> e] \o s)[n] = e
              \/ \E j \in DOMAIN s : ([i \in 1 .. k |-> e] \o s)[n] = s[j]
<1> DEFINE t == [i \in 1 .. k |-> e]
<1>1. t \in Seq(S) /\ Len(t) = k /\ \A i \in 1 .. k : t[i] = e
  OBVIOUS
<1> HIDE DEF t
<1>2. t \o s \in Seq(S) /\ Len(t \o s) = k + Len(s)
  BY <1>1
<1>3. ASSUME NEW i \in 1 .. (k + Len(s))
      PROVE  (t \o s)[i] = e \/ \E j \in 1 .. Len(s) : (t \o s)[i] = s[j]
  <2>1. CASE i <= k
    BY <1>1, <2>1
  <2>2. CASE i > k
    <3>1. (t \o s)[i] = s[i - k] /\ i - k \in 1 .. Len(s)
      BY <1>1, <2>2
    <3> QED
      BY <3>1
  <2>3. i <= k \/ i > k
    BY <1>2
  <2> QED
    BY <2>1, <2>2, <2>3
<1>4. DOMAIN (t \o s) = 1 .. (k + Len(s)) /\ DOMAIN s = 1 .. Len(s)
  BY <1>2
<1> QED
  BY <1>2, <1>3, <1>4 DEF t

\* A result that is stored has its type, and so has one that is stored already.
LEMMA StoredResult ==
  ASSUME NEW h \in Hash, NEW s \in Seq(Output), Len(s) \in 1 .. MaxRuns
  PROVE  [coreHash |-> h, runOutputs |-> s] \in Result
<1>1. s \in [1 .. Len(s) -> Output]
  OBVIOUS
<1>2. s \in UNION {[1 .. n -> Output] : n \in 1 .. MaxRuns}
  BY <1>1
<1> QED
  BY <1>2 DEF Result

LEMMA LoadedResult ==
  ASSUME NEW r \in Result
  PROVE  r.coreHash \in Hash /\ r.runOutputs \in Seq(Output)
<1>1. PICK n \in 1 .. MaxRuns : r.runOutputs \in [1 .. n -> Output]
  BY DEF Result
<1>2. n \in Nat
  BY <1>1, ConfigAssumption
<1> QED
  BY <1>1, <1>2 DEF Result

LEMMA OldResult ==
  ASSUME NEW r \in Result
  PROVE  /\ NotFresh(r) \in Result
         /\ NotFresh(r).coreHash = r.coreHash
         /\ DOMAIN NotFresh(r).runOutputs = DOMAIN r.runOutputs
         /\ \A i \in DOMAIN r.runOutputs : NotFresh(r).runOutputs[i].core = r.runOutputs[i].core
<1>1. PICK n \in 1 .. MaxRuns : r.runOutputs \in [1 .. n -> Output]
  BY DEF Result
<1> DEFINE s == [i \in DOMAIN r.runOutputs |-> [r.runOutputs[i] EXCEPT !.fresh = FALSE]]
<1>2. r # None
  BY NamesAssumption
<1>3. NotFresh(r) = [r EXCEPT !.runOutputs = s]
  BY <1>2 DEF NotFresh
<1>4. s \in [1 .. n -> Output] /\ DOMAIN s = DOMAIN r.runOutputs
      /\ \A i \in DOMAIN r.runOutputs : s[i].core = r.runOutputs[i].core
  BY <1>1 DEF Output
<1> HIDE DEF s
<1>5. s \in UNION {[1 .. k -> Output] : k \in 1 .. MaxRuns}
  BY <1>4
<1>6. NotFresh(r) = [coreHash |-> r.coreHash, runOutputs |-> s]
  BY <1>3 DEF Result
<1> QED
  BY <1>4, <1>5, <1>6 DEF Result

LEMMA CoreIsHash ==
  ASSUME NEW fs \in [File -> Value]
  PROVE  Core(fs) \in Hash
  BY FilesAssumption DEF Core, Hash

LEMMA SoundInit == Init => Sound
<1> SUFFICES ASSUME Init PROVE Sound
  OBVIOUS
<1>1. \A h \in Hash : Stored(h) \in Result
  <2> SUFFICES ASSUME NEW h \in Hash PROVE Stored(h) \in Result
    OBVIOUS
  <2> DEFINE s == <<[core |-> h, fresh |-> FALSE]>>
  <2>1. s \in Seq(Output) /\ Len(s) \in 1 .. MaxRuns
    BY ConfigAssumption DEF Output
  <2> HIDE DEF s
  <2>2. [coreHash |-> h, runOutputs |-> s] \in Result
    BY <2>1, StoredResult
  <2> QED
    BY <2>2 DEF Stored, s
<1>2. files \in [File -> Value] /\ executable \in Hash \cup {None}
  BY FilesAssumption, CoreIsHash DEF Init, Hash
<1>3. cache \in [Measurement -> Result \cup {None}]
  BY <1>1 DEF Init
<1>4. TypeOK
  BY <1>2, <1>3, ConfigAssumption DEF Init, TypeOK
<1>5. CallOK
  BY DEF Init, CallOK
<1>6. R!Structure
  BY RepositoryInit DEF Init, R!IInv
<1> QED
  BY <1>4, <1>5, <1>6 DEF Sound

\* The repository is called for measurements, and for one without a hash.
LEMMA NothingChangedCall ==
  ASSUME Sound, NothingChanged, ~ UNCHANGED repository
  PROVE  /\ currentlyCompiled \in Measurement /\ measurement \in Measurement
         /\ currentlyCompiled # measurement
         /\ R!EqualStep(currentlyCompiled, measurement)
         /\ files = Content[measurement]
  BY EqualCall DEF NothingChanged, Sound, TypeOK, CallOK, NeedsCore, MustCompile, Built

LEMMA HashCoreCall ==
  ASSUME Sound, HashCore, ~ UNCHANGED repository
  PROVE  /\ measurement \in Measurement /\ executable \in Hash
         /\ R!getCoreHash(measurement) = None /\ R!setCoreHash(measurement, executable)
         /\ currentlyCompiled \in Measurement /\ Built
  BY HashCall, RepositorySame DEF HashCore, Sound, TypeOK, CallOK, Known, Built

\* It is in order after every step.
LEMMA StructureNext == Sound /\ [Next]_vars => R!Structure'
<1> SUFFICES ASSUME Sound, [Next]_vars PROVE R!Structure'
  OBVIOUS
<1>1. CASE UNCHANGED repository
  BY <1>1, RepositoryUnchanged DEF Sound
<1>2. CASE NothingChanged /\ ~ UNCHANGED repository
  BY <1>2, NothingChangedCall, R!EqualStructure, RepositoryOfMeasurements DEF Sound
<1>3. CASE HashCore /\ ~ UNCHANGED repository
  BY <1>3, HashCoreCall, R!HashStructure, RepositoryOfMeasurements DEF Sound
<1>4. CASE Restart
  BY <1>4, RepositoryReset DEF Restart, R!IInv
<1> QED
  BY <1>1, <1>2, <1>3, <1>4
  DEF Next, vars, Measure, LookUp, Check, MoreRequired, Prepare, PrepareFails, Compile, CompileFails,
      Run, RunFails, Store, StoreFails, Return

\* The call has found out what its place says, and the variables keep their types.
LEMMA CallNext == Sound /\ [Next]_vars => TypeOK' /\ CallOK'
<1> SUFFICES ASSUME Sound, [Next]_vars PROVE TypeOK' /\ CallOK'
  OBVIOUS
<1> USE DEF Sound, TypeOK, CallOK, Goto, Idle, disk, config, call
<1>1. ASSUME NEW m \in Measurement, NEW n \in 1 .. MaxRuns, Measure(m, n)
      PROVE  TypeOK' /\ CallOK'
  BY <1>1, NamesAssumption, ConfigAssumption DEF Measure
<1>2. CASE LookUp
  BY <1>2, LoadedResult DEF LookUp
<1>3. CASE Check
  BY <1>3, LoadedResult DEF Check
<1>4. CASE MoreRequired
  BY <1>4 DEF MoreRequired
<1>5. CASE Prepare
  BY <1>5, FilesAssumption DEF Prepare, NeedsCore
<1>6. CASE NothingChanged
  <2>1. files' \in [File -> Value] /\ measurement \in Measurement
    BY <1>6, FilesAssumption DEF NothingChanged, NeedsCore
  <2>2. CASE Repository!setHaveEqualCoresFails(currentlyCompiled, measurement)
    BY <1>6, <2>1, <2>2, ConfigAssumption DEF NothingChanged
  <2>3. CASE ~ Repository!setHaveEqualCoresFails(currentlyCompiled, measurement)
    <3>1. currentlyCompiled' = measurement /\ UNCHANGED <<executable, cache, config, call>>
      BY <1>6, <2>3 DEF NothingChanged
    <3> QED
      BY <2>1, <3>1
  <2> QED
    BY <2>2, <2>3
<1>7. CASE PrepareFails
  <2>1. files' \in [File -> Value] /\ measurement \in Measurement
    BY <1>7, FilesAssumption DEF PrepareFails, NeedsCore
  <2> QED
    BY <1>7, <2>1, ConfigAssumption DEF PrepareFails
<1>8. CASE Compile
  BY <1>8, CoreIsHash DEF Compile
<1>9. CASE CompileFails
  BY <1>9, ConfigAssumption DEF CompileFails
<1>10. CASE HashCore
  <2>1. CASE executable = None
    BY <1>10, <2>1, ConfigAssumption DEF HashCore
  <2>2. CASE executable # None
    <3>1. UNCHANGED <<disk, config, call, currentlyCompiled>>
      BY <1>10, <2>2 DEF HashCore
    <3> QED
      BY <3>1
  <2> QED
    BY <2>1, <2>2
<1>11. CASE Run
  <2> DEFINE e == [core |-> executable, fresh |-> TRUE]
             k == numberOfRuns - Len(runOutputs)
             s == [i \in 1 .. k |-> e] \o runOutputs
  <2>1. k \in Nat /\ Len(runOutputs) \in Nat /\ e \in Output
    BY <1>11 DEF Run, Output
  <2>2. k + Len(runOutputs) = numberOfRuns /\ numberOfRuns \in 1 .. MaxRuns
    BY <1>11, <2>1, ConfigAssumption DEF Run
  <2> HIDE DEF e, k
  <2>3. s \in Seq(Output) /\ Len(s) = k + Len(runOutputs)
    BY <2>1, RunOutputs
  <2> HIDE DEF s
  <2>4. runOutputs' = s
    BY <1>11 DEF Run, s, e, k
  <2> QED
    BY <1>11, <2>2, <2>3, <2>4 DEF Run
<1>12. CASE RunFails
  BY <1>12, ConfigAssumption DEF RunFails
<1>13. CASE Store
  <2>1. Known \in Hash /\ [coreHash |-> Known, runOutputs |-> runOutputs] \in Result
    BY <1>13, StoredResult, KnownHash, RepositorySame DEF Store, Known
  <2> QED
    BY <1>13, <2>1 DEF Store
<1>14. CASE StoreFails
  BY <1>14, ConfigAssumption DEF StoreFails
<1>15. CASE Return
  BY <1>15, ConfigAssumption DEF Return
<1>16. CASE Restart
  <2>1. \A r \in Result \cup {None} : NotFresh(r) \in Result \cup {None}
    BY OldResult DEF NotFresh
  <2>2. cache' \in [Measurement -> Result \cup {None}]
    BY <1>16, <2>1 DEF Restart
  <2> QED
    BY <1>16, <2>2, ConfigAssumption DEF Restart
<1>17. CASE UNCHANGED vars
  BY <1>17 DEF vars
<1> QED
  BY <1>1, <1>2, <1>3, <1>4, <1>5, <1>6, <1>7, <1>8, <1>9, <1>10, <1>11, <1>12, <1>13, <1>14, <1>15,
     <1>16, <1>17 DEF Next

LEMMA SoundInvariant == Spec => []Sound
  BY SoundInit, StructureNext, CallNext, PTL DEF Spec, Sound

\* Every variable keeps its type, whatever fails.
THEOREM TypeCorrect == Spec => []TypeOK
<1>1. Sound => TypeOK
  BY DEF Sound
<1> QED
  BY <1>1, SoundInvariant, PTL

\* The repository that the controller calls grows, as the one that is proved.
LEMMA EqualGrows ==
  ASSUME R!Structure, NEW a \in Measurement, NEW b \in Measurement, R!EqualStep(a, b),
         ~ UNCHANGED R!vars
  PROVE  Repository!Classes!Next
<1>1. Repository!Classes!Equal(a, b)
  BY R!EqualImplements, RepositoryOfMeasurements
  DEF R!Classes!Equal, Repository!Classes!Equal, R!Classes!Become, Repository!Classes!Become,
      R!getCoreHash, Repository!getCoreHash
<1> QED
  BY <1>1 DEF Repository!Classes!Next

LEMMA HashGrows ==
  ASSUME R!Structure, NEW m \in Measurement, NEW h \in Hash, R!getCoreHash(m) = None,
         R!setCoreHash(m, h)
  PROVE  Repository!Classes!Next
<1>1. Repository!Classes!Labelled(m, h)
  BY R!HashImplements, RepositoryOfMeasurements
  DEF R!Classes!Labelled, Repository!Classes!Labelled, R!Classes!Become, Repository!Classes!Become,
      R!getCoreHash, Repository!getCoreHash
<1> QED
  BY <1>1 DEF Repository!Classes!Next

\* What the driver knows of cores only grows, until it is restarted, whatever
\* fails and in whatever order measurements are made: setHaveEqualCores() and
\* setCoreHash() never lose what an earlier call of measure() found out.
THEOREM KnowledgeOnlyGrows == Spec => KnowledgeGrows
<1>1. ASSUME Sound, [Next]_vars
      PROVE  [Repository!Classes!Next \/ Restart]_repository
  <2>1. CASE NothingChanged /\ ~ UNCHANGED repository
    BY <1>1, <2>1, NothingChangedCall, EqualGrows DEF Sound, R!vars, repository
  <2>2. CASE HashCore /\ ~ UNCHANGED repository
    BY <1>1, <2>2, HashCoreCall, HashGrows DEF Sound
  <2> QED
    BY <1>1, <2>1, <2>2
    DEF Next, vars, Measure, LookUp, Check, MoreRequired, Prepare, PrepareFails, Compile,
        CompileFails, Run, RunFails, Store, StoreFails, Return
<1> QED
  BY <1>1, SoundInvariant, PTL DEF Spec, KnowledgeGrows

----------------------------------------------------------------------------
(* If writing the files and compiling do not fail.                         *)

NoBuildFails == MayFail \subseteq {"run", "store"}

\* The files and the executable are those of the measurement compiled last,
\* except between Prepare and Compile.
BuildOK ==
  /\ currentlyCompiled # None => executable = TrueCore[currentlyCompiled]
  /\ currentlyCompiled # None /\ pc \notin Compiling => files = Content[currentlyCompiled]
  /\ pc \in Compiling => files = Content[measurement]

Right == Sound /\ BuildOK /\ R!KnowledgeIsTrue

LEMMA EqualContent ==
  ASSUME NEW a \in Measurement, NEW b \in Measurement, Content[a] = Content[b]
  PROVE  TrueCore[a] = TrueCore[b]
  BY DEF TrueCore

\* The core that is built for a measurement is its core.
LEMMA BuiltIsRight ==
  ASSUME Right, Built, NEW m \in Measurement, m = measurement
  PROVE  executable = TrueCore[m]
<1>1. currentlyCompiled \in Measurement /\ currentlyCompiled # None
  BY DEF Built, Right, Sound, TypeOK
<1>2. TrueCore[currentlyCompiled] = TrueCore[m]
  BY <1>1, RepositorySame DEF Built, Right, R!KnowledgeIsTrue
<1> QED
  BY <1>1, <1>2 DEF Right, BuildOK

LEMMA RightInit == Init => Right
  BY SoundInit, RepositoryInit DEF Init, Right, BuildOK, Compiling, R!IInv

\* What the controller tells the repository is true.
LEMMA TrueNext ==
  ASSUME Right, [Next]_vars
  PROVE  R!KnowledgeIsTrue'
<1>1. R!IInv
  BY DEF Right, Sound, R!IInv
<1>2. CASE UNCHANGED repository
  BY <1>2, RepositoryUnchanged DEF Right
<1>3. CASE NothingChanged /\ ~ UNCHANGED repository
  <2>1. pc \notin Compiling
    BY <1>3 DEF NothingChanged, NeedsCore, Compiling
  <2>2. TrueCore[currentlyCompiled] = TrueCore[measurement]
    BY <1>3, <2>1, NothingChangedCall, NamesAssumption, EqualContent DEF Right, BuildOK
  <2> QED
    BY <1>1, <1>3, <2>2, NothingChangedCall, R!EqualInv, RepositoryOfMeasurements DEF Right, R!IInv
<1>4. CASE HashCore /\ ~ UNCHANGED repository
  <2>1. executable = TrueCore[measurement]
    BY <1>4, HashCoreCall, BuiltIsRight DEF Right
  <2> QED
    BY <1>1, <1>4, <2>1, HashCoreCall, R!HashInv, RepositoryOfMeasurements DEF Right, R!IInv
<1>5. CASE Restart
  BY <1>5, RepositoryReset DEF Restart, R!IInv
<1> QED
  BY <1>2, <1>3, <1>4, <1>5
  DEF Next, vars, Measure, LookUp, Check, MoreRequired, Prepare, PrepareFails, Compile, CompileFails,
      Run, RunFails, Store, StoreFails, Return

LEMMA BuildNext ==
  ASSUME NoBuildFails, Right, [Next]_vars
  PROVE  BuildOK'
<1> USE DEF BuildOK, Goto, Idle, disk, config, call, Compiling
<1>1. BuildOK /\ TypeOK /\ CallOK
  BY DEF Right, Sound
<1>2. CASE /\ UNCHANGED <<files, executable, currentlyCompiled>>
           /\ pc \notin Compiling /\ pc' \notin Compiling
  BY <1>1, <1>2
<1>3. CASE Prepare
  BY <1>1, <1>3 DEF Prepare, NeedsCore
<1>4. CASE NothingChanged
  <2>1. /\ pc \notin Compiling /\ pc' \notin Compiling /\ UNCHANGED executable
        /\ currentlyCompiled \in Measurement /\ measurement \in Measurement
        /\ files = Content[measurement] /\ files' = files
        /\ currentlyCompiled' \in {currentlyCompiled, measurement}
    BY <1>1, <1>4 DEF NothingChanged, NeedsCore, MustCompile, TypeOK, CallOK
  <2>2. currentlyCompiled # None
    BY <1>4 DEF NothingChanged, MustCompile
  <2>3. files = Content[currentlyCompiled] /\ executable = TrueCore[currentlyCompiled]
    BY <1>1, <2>1, <2>2
  <2>4. TrueCore[currentlyCompiled] = TrueCore[measurement]
    BY <2>1, <2>3, EqualContent
  <2> QED
    BY <2>1, <2>3, <2>4
<1>5. CASE Compile
  <2>1. measurement \in Measurement /\ files = Content[measurement]
    BY <1>1, <1>5 DEF Compile, TypeOK, CallOK
  <2>2. TrueCore[measurement] = Core(files)
    BY <2>1 DEF TrueCore
  <2> QED
    BY <1>5, <2>1, <2>2 DEF Compile
<1>6. CASE Restart
  BY <1>6 DEF Restart
<1>7. CASE HashCore
  BY <1>1, <1>7 DEF HashCore
<1>8. CASE UNCHANGED vars
  BY <1>1, <1>8 DEF vars
<1>9. ~ PrepareFails /\ ~ CompileFails
  BY DEF NoBuildFails, PrepareFails, CompileFails
<1> QED
  BY <1>2, <1>3, <1>4, <1>5, <1>6, <1>7, <1>8, <1>9
  DEF Next, Measure, LookUp, Check, MoreRequired, Run, RunFails, Store, StoreFails, Return

LEMMA RightNext ==
  ASSUME NoBuildFails, Right, [Next]_vars
  PROVE  Right'
  BY StructureNext, CallNext, TrueNext, BuildNext DEF Right, Sound

LEMMA RightInvariant == ASSUME NoBuildFails PROVE Spec => []Right
<1>1. Right /\ [Next]_vars => Right'
  BY RightNext
<1> QED
  BY <1>1, RightInit, PTL DEF Spec

\* Measurements that the driver takes to have equal cores have them, and known
\* hashes are right: what happens to the generated files, the executable and
\* the repository in one measure() is never mistaken in a later one.
THEOREM EqualCoresAreKnownRightly == ASSUME NoBuildFails PROVE Spec => []EqualCoresAreEqual
<1>1. Right => EqualCoresAreEqual
  BY RepositorySame DEF Right, EqualCoresAreEqual
<1> QED
  BY <1>1, RightInvariant, PTL

\* The repository is used the way it was built for: it is told nothing that is
\* false, and no hash that it knows.
THEOREM ContractIsKept == ASSUME NoBuildFails PROVE Spec => KeepsContract
<1>1. ASSUME Right, [Next]_vars
      PROVE  [Repository!Next \/ Restart]_repository
  <2>1. CASE NothingChanged /\ ~ UNCHANGED repository
    <3>1. /\ currentlyCompiled \in Measurement /\ measurement \in Measurement
          /\ currentlyCompiled # measurement /\ files = Content[measurement]
          /\ Repository!setHaveEqualCores(currentlyCompiled, measurement)
      BY <1>1, <2>1, NothingChangedCall DEF Right, NothingChanged
    <3>2. files = Content[currentlyCompiled]
      BY <1>1, <2>1, <3>1, NamesAssumption
      DEF Right, BuildOK, NothingChanged, NeedsCore, Compiling
    <3>3. TrueCore[currentlyCompiled] = TrueCore[measurement]
      BY <3>1, <3>2, EqualContent
    <3> QED
      BY <3>1, <3>3 DEF Repository!Next
  <2>2. CASE HashCore /\ ~ UNCHANGED repository
    <3>1. /\ measurement \in Measurement /\ Repository!getCoreHash(measurement) = None
          /\ Repository!setCoreHash(measurement, executable) /\ Built
      BY <1>1, <2>2, HashCoreCall DEF Right, HashCore, Known
    <3>2. executable = TrueCore[measurement]
      BY <1>1, <3>1, BuiltIsRight
    <3> QED
      BY <3>1, <3>2 DEF Repository!Next
  <2> QED
    BY <1>1, <2>1, <2>2
    DEF Next, vars, Measure, LookUp, Check, MoreRequired, Prepare, PrepareFails, Compile,
        CompileFails, Run, RunFails, Store, StoreFails, Return
<1> QED
  BY <1>1, RightInvariant, PTL DEF Spec, KeepsContract

----------------------------------------------------------------------------
(* If moreover the cores of stored results are always checked.             *)

AlwaysChecks == CheckCore \subseteq {TRUE}

\* Nothing was loaded or measured yet when the core is checked.
OutputsOK ==
  /\ checkCore = TRUE
  /\ pc \in {"idle", "lookUp", "check", "compileToCheck"} => runOutputs = <<>>
  /\ measurement # None => \A i \in DOMAIN runOutputs : runOutputs[i].core = TrueCore[measurement]
  /\ HashTellsCore

LEMMA OutputsInit == ASSUME AlwaysChecks PROVE Init => OutputsOK
<1> SUFFICES ASSUME Init PROVE OutputsOK
  OBVIOUS
<1>1. ASSUME NEW m \in Measurement, cache[m] # None,
             NEW i \in DOMAIN cache[m].runOutputs
      PROVE  cache[m].runOutputs[i].core = cache[m].coreHash
  <2>1. PICK h : cache[m] = Stored(h)
    BY <1>1 DEF Init
  <2> QED
    BY <1>1, <2>1 DEF Stored
<1> QED
  BY <1>1 DEF Init, OutputsOK, HashTellsCore, AlwaysChecks

\* The hash of its core that a measurement has is right.
LEMMA KnownIsRight ==
  ASSUME Right, Known # None, NEW m \in Measurement, m = measurement
  PROVE  Known = TrueCore[m]
  BY RepositorySame DEF Right, R!KnowledgeIsTrue, Known

LEMMA OutputsNext ==
  ASSUME NoBuildFails, AlwaysChecks, Right, OutputsOK, [Next]_vars
  PROVE  OutputsOK'
<1> USE DEF OutputsOK, HashTellsCore, Goto, Idle, disk, config, call
<1>1. /\ TypeOK /\ CallOK
      /\ measurement # None => measurement \in Measurement
  BY DEF Right, Sound, TypeOK
<1>2. CASE UNCHANGED <<cache, checkCore, measurement, runOutputs>>
           /\ (pc' \in {"idle", "lookUp", "check", "compileToCheck"} =>
                 pc \in {"idle", "lookUp", "check", "compileToCheck"})
  BY <1>2
<1>3. CASE UNCHANGED <<cache, checkCore>> /\ Idle
  BY <1>3
<1>4. ASSUME NEW m \in Measurement, NEW n \in 1 .. MaxRuns, Measure(m, n)
      PROVE  OutputsOK'
  BY <1>4 DEF Measure
<1>5. CASE LookUp
  BY <1>5 DEF LookUp
<1>6. CASE Check
  <2>1. measurement \in Measurement /\ cache[measurement] # None /\ UNCHANGED <<cache, checkCore, measurement>>
    BY <1>1, <1>6, NamesAssumption DEF Check, CallOK
  <2>2. Known = TrueCore[measurement]
    BY <1>6, <2>1, KnownIsRight DEF Check
  <2>3. \A i \in DOMAIN cache[measurement].runOutputs :
          cache[measurement].runOutputs[i].core = cache[measurement].coreHash
    BY <2>1
  <2>4. \A i \in DOMAIN runOutputs' : runOutputs'[i].core = TrueCore[measurement]
    BY <1>6, <2>2, <2>3 DEF Check
  <2> QED
    BY <1>6, <2>1, <2>4 DEF Check
<1>7. CASE NothingChanged
  BY <1>2, <1>3, <1>7 DEF NothingChanged
<1>8. CASE HashCore
  BY <1>2, <1>3, <1>8 DEF HashCore
<1>9. CASE Run
  <2> DEFINE e == [core |-> executable, fresh |-> TRUE]
             k == numberOfRuns - Len(runOutputs)
             s == [i \in 1 .. k |-> e] \o runOutputs
  <2>1. k \in Nat /\ e \in Output /\ e.core = executable /\ measurement \in Measurement
    BY <1>1, <1>9, NamesAssumption DEF Run, Output, TypeOK, CallOK
  <2>2. executable = TrueCore[measurement]
    BY <1>9, <2>1, BuiltIsRight DEF Run
  <2>3. runOutputs' = s /\ UNCHANGED <<cache, checkCore, measurement>> /\ pc' = "label"
    BY <1>9 DEF Run
  <2> HIDE DEF e, k
  <2>4. runOutputs \in Seq(Output)
    BY <1>1 DEF TypeOK
  <2>5. \A i \in DOMAIN s : s[i] = e \/ \E j \in DOMAIN runOutputs : s[i] = runOutputs[j]
    BY <2>1, <2>4, RunOutputs
  <2> HIDE DEF s
  <2>6. \A i \in DOMAIN s : s[i].core = TrueCore[measurement]
    BY <2>1, <2>2, <2>5, NamesAssumption
  <2> QED
    BY <2>3, <2>6
<1>10. CASE Store
  <2>1. measurement \in Measurement /\ Known = TrueCore[measurement]
    BY <1>1, <1>10, KnownIsRight, NamesAssumption DEF Store, CallOK
  <2>2. cache' = [cache EXCEPT ![measurement] = [coreHash |-> Known, runOutputs |-> runOutputs]]
    BY <1>10 DEF Store
  <2>3. ASSUME NEW m \in Measurement, cache'[m] # None, NEW i \in DOMAIN cache'[m].runOutputs
        PROVE  cache'[m].runOutputs[i].core = cache'[m].coreHash
    <3>1. CASE m = measurement
      <4>1. cache'[m] = [coreHash |-> Known, runOutputs |-> runOutputs]
        BY <1>1, <2>1, <2>2, <3>1 DEF TypeOK
      <4> QED
        BY <2>1, <2>3, <3>1, <4>1, NamesAssumption
    <3>2. CASE m # measurement
      <4>1. cache'[m] = cache[m]
        BY <1>1, <2>2, <3>2 DEF TypeOK
      <4> QED
        BY <2>3, <4>1
    <3> QED
      BY <3>1, <3>2
  <2> QED
    BY <1>10, <2>3 DEF Store
<1>11. CASE StoreFails
  <2>1. cache' = [cache EXCEPT ![measurement] = None] /\ Idle /\ UNCHANGED checkCore
    BY <1>11 DEF StoreFails
  <2>2. \A m \in Measurement : cache'[m] \in {None, cache[m]}
    BY <1>1, <2>1 DEF TypeOK
  <2> QED
    BY <2>1, <2>2
<1>12. CASE Restart
  <2>1. \A m \in Measurement : cache'[m] \in {None, NotFresh(cache[m])}
    BY <1>12 DEF Restart
  <2>2. ASSUME NEW m \in Measurement, cache'[m] # None, NEW i \in DOMAIN cache'[m].runOutputs
        PROVE  cache'[m].runOutputs[i].core = cache'[m].coreHash
    <3>1. cache'[m] = NotFresh(cache[m]) /\ cache[m] # None /\ cache[m] \in Result
      BY <1>1, <2>1, <2>2 DEF TypeOK, NotFresh
    <3> QED
      BY <2>2, <3>1, OldResult
  <2>3. checkCore' = TRUE /\ Idle
    BY <1>12 DEF Restart, AlwaysChecks
  <2> QED
    BY <2>2, <2>3
<1>13. CASE UNCHANGED vars
  BY <1>2, <1>13 DEF vars
<1>14. CASE MoreRequired
  BY <1>2, <1>14 DEF MoreRequired
<1>16. CASE Prepare
  <2>1. pc \in {"check", "run", "label"} /\ UNCHANGED <<cache, checkCore, measurement, runOutputs>>
    BY <1>16 DEF Prepare, NeedsCore
  <2>2. pc' = "compileToCheck" => pc = "check"
    BY <1>16, <2>1 DEF Prepare
  <2>3. pc' \in {"compileToCheck", "compileToRun", "compileToLabel"}
    BY <1>16, <2>1 DEF Prepare
  <2> QED
    BY <1>2, <2>1, <2>2, <2>3
<1>17. CASE Compile
  <2>1. /\ pc \in {"compileToCheck", "compileToRun", "compileToLabel"}
        /\ UNCHANGED <<cache, checkCore, measurement, runOutputs>>
    BY <1>17 DEF Compile
  <2>2. pc' = "check" => pc = "compileToCheck"
    BY <1>17, <2>1 DEF Compile
  <2>3. pc' \in {"check", "run", "label"}
    BY <1>17, <2>1 DEF Compile
  <2> QED
    BY <1>2, <2>1, <2>2, <2>3
<1>15. CASE PrepareFails \/ CompileFails \/ RunFails \/ Return
  BY <1>3, <1>15 DEF PrepareFails, CompileFails, RunFails, Return
<1> QED
  BY <1>4, <1>5, <1>6, <1>7, <1>8, <1>9, <1>10, <1>11, <1>12, <1>13, <1>14, <1>15,
     <1>16, <1>17 DEF Next

LEMMA OutputsInvariant == ASSUME NoBuildFails, AlwaysChecks PROVE Spec => []OutputsOK
<1>1. Right /\ OutputsOK /\ [Next]_vars => OutputsOK'
  BY OutputsNext
<1> QED
  BY <1>1, RightInvariant, OutputsInit, PTL DEF Spec

\* Whatever was left by earlier drivers, and however often this one is killed,
\* what measure() returns was put out by the core of the present sources.
THEOREM OutputsAreOfOwnCore ==
  ASSUME NoBuildFails, AlwaysChecks PROVE Spec => []OutputsOfOwnCore
<1>1. OutputsOK => OutputsOfOwnCore
  BY DEF OutputsOK, OutputsOfOwnCore
<1> QED
  BY <1>1, OutputsInvariant, PTL

\* The hash stored with outputs is that of the core that put them out.
THEOREM StoredHashTellsCore ==
  ASSUME NoBuildFails, AlwaysChecks PROVE Spec => []HashTellsCore
<1>1. OutputsOK => HashTellsCore
  BY DEF OutputsOK
<1> QED
  BY <1>1, OutputsInvariant, PTL

\* The outputs that are stored for the present core, if results may be used.
StoredOK ==
  useCachedResults /\ measurement # None /\ cache[measurement] # None
  /\ cache[measurement].coreHash = TrueCore[measurement] =>
    /\ pc \in {"more", "run", "compileToRun"} => runOutputs = cache[measurement].runOutputs
    /\ pc \in {"label", "compileToLabel"} => Adds(cache[measurement].runOutputs, runOutputs)

\* The outputs of a run come before those that were loaded.
LEMMA RunAdds ==
  ASSUME NEW S, NEW s \in Seq(S), NEW e \in S, NEW k \in Nat \ {0}
  PROVE  Adds(s, [i \in 1 .. k |-> e] \o s)
<1> DEFINE t == [i \in 1 .. k |-> e]
           n == t \o s
           r == SubSeq(n, k + 1, Len(n))
<1>1. t \in Seq(S) /\ Len(t) = k /\ Len(s) \in Nat
  OBVIOUS
<1> HIDE DEF t
<1>2. n \in Seq(S) /\ Len(n) = k + Len(s) /\ \A i \in 1 .. Len(s) : n[k + i] = s[i]
  BY <1>1
<1> HIDE DEF n
<1>3. r \in Seq(S) /\ Len(r) = Len(s) /\ \A i \in 1 .. Len(s) : r[i] = n[k + i]
  BY <1>1, <1>2
<1> HIDE DEF r
<1>4. r = s
  BY <1>2, <1>3
<1>5. k \in 1 .. Len(n)
  BY <1>1, <1>2
<1> QED
  BY <1>4, <1>5 DEF Adds, r, n, t

LEMMA StoredNext ==
  ASSUME NoBuildFails, AlwaysChecks, Right, OutputsOK, StoredOK, [Next]_vars
  PROVE  StoredOK'
<1> USE DEF StoredOK, Goto, Idle, disk, config, call
<1>1. TypeOK /\ CallOK /\ checkCore = TRUE
  BY DEF Right, Sound, OutputsOK
<1> DEFINE Same == UNCHANGED <<useCachedResults, measurement, cache, runOutputs>>
<1>2. CASE Same /\ (pc' \in {"more", "run", "compileToRun"} => pc \in {"more", "run", "compileToRun"})
           /\ (pc' \in {"label", "compileToLabel"} => pc \in {"label", "compileToLabel"})
  BY <1>2
<1>3. CASE Idle
  BY <1>3
<1>4. ASSUME NEW m \in Measurement, NEW n \in 1 .. MaxRuns, Measure(m, n)
      PROVE  StoredOK'
  BY <1>4 DEF Measure
<1>5. CASE LookUp
  BY <1>1, <1>5 DEF LookUp
<1>6. CASE Check
  <2>1. measurement \in Measurement /\ Known = TrueCore[measurement]
    BY <1>1, <1>6, KnownIsRight, NamesAssumption DEF Check, CallOK, TypeOK
  <2> QED
    BY <1>6, <2>1 DEF Check
<1>7. CASE NothingChanged
  BY <1>2, <1>3, <1>7 DEF NothingChanged
<1>8. CASE HashCore
  BY <1>2, <1>3, <1>8 DEF HashCore
<1>9. CASE Run
  <2> DEFINE e == [core |-> executable, fresh |-> TRUE]
             k == numberOfRuns - Len(runOutputs)
  <2>1. k \in Nat \ {0} /\ e \in Output /\ runOutputs \in Seq(Output)
    BY <1>1, <1>9 DEF Run, Output, TypeOK, CallOK
  <2>2. /\ runOutputs' = [i \in 1 .. k |-> e] \o runOutputs
        /\ UNCHANGED <<cache, useCachedResults, measurement>> /\ pc' = "label" /\ pc = "run"
    BY <1>9 DEF Run
  <2> HIDE DEF e, k
  <2>3. Adds(runOutputs, [i \in 1 .. k |-> e] \o runOutputs)
    BY <2>1, RunAdds
  <2>4. PICK old : old = runOutputs
    OBVIOUS
  <2>5. Adds(old, runOutputs')
    BY <2>2, <2>3, <2>4
  <2> QED
    BY <2>2, <2>4, <2>5
<1>10. CASE Store
  BY <1>10 DEF Store
<1>11. CASE Restart \/ StoreFails
  BY <1>3, <1>11 DEF Restart, StoreFails
<1>12. CASE MoreRequired
  <2>1. pc = "more" /\ pc' \in {"run", "return"} /\ Same
    BY <1>12 DEF MoreRequired
  <2> QED
    BY <2>1
<1>13. CASE Prepare
  <2>1. pc \in {"check", "run", "label"} /\ Same
    BY <1>13 DEF Prepare, NeedsCore
  <2>2. /\ pc = "check" => pc' = "compileToCheck"
        /\ pc = "run" => pc' = "compileToRun"
        /\ pc = "label" => pc' = "compileToLabel"
    BY <1>13 DEF Prepare
  <2> QED
    BY <1>2, <2>1, <2>2
<1>14. CASE Compile
  <2>1. pc \in {"compileToCheck", "compileToRun", "compileToLabel"} /\ Same
    BY <1>14 DEF Compile
  <2>2. /\ pc = "compileToCheck" => pc' = "check"
        /\ pc = "compileToRun" => pc' = "run"
        /\ pc = "compileToLabel" => pc' = "label"
    BY <1>14 DEF Compile
  <2> QED
    BY <1>2, <2>1, <2>2
<1>15. CASE PrepareFails \/ CompileFails \/ RunFails \/ Return
  BY <1>3, <1>15 DEF PrepareFails, CompileFails, RunFails, Return
<1>16. CASE UNCHANGED vars
  BY <1>2, <1>16 DEF vars
<1> QED
  BY <1>4, <1>5, <1>6, <1>7, <1>8, <1>9, <1>10, <1>11, <1>12, <1>13, <1>14, <1>15, <1>16 DEF Next

\* Stored outputs of the present core change only where their measurement is
\* stored: unless that is interrupted or results may not be used, what is stored
\* adds to them, since measure() loads them before it runs the core.
THEOREM StoredOutputsAreKept ==
  ASSUME NoBuildFails, AlwaysChecks PROVE Spec => OutputsKept
<1> DEFINE Kept(m) ==
      \/ cache'[m] \in {cache[m], NotFresh(cache[m])}
      \/ /\ pc = "label" /\ m = measurement
         /\ \/ cache'[m] = None \/ ~ useCachedResults
            \/ Adds(cache[m].runOutputs, cache'[m].runOutputs)
<1>1. Right /\ OutputsOK /\ StoredOK /\ [Next]_vars => StoredOK'
  BY StoredNext
<1>2. Init => StoredOK
  BY DEF Init, StoredOK
<1>3. ASSUME Right, OutputsOK, StoredOK, [Next]_vars,
             NEW m \in Measurement, cache[m] # None, cache[m].coreHash = TrueCore[m]
      PROVE  Kept(m)
  <2>1. TypeOK /\ CallOK
    BY <1>3 DEF Right, Sound
  <2>2. CASE UNCHANGED cache
    BY <2>2
  <2>3. CASE Store
    <3>1. cache' = [cache EXCEPT ![measurement] = [coreHash |-> Known, runOutputs |-> runOutputs]]
          /\ pc = "label" /\ measurement # None
      BY <2>1, <2>3 DEF Store, CallOK
    <3>2. CASE m = measurement
      <4>1. cache'[m].runOutputs = runOutputs
        BY <2>1, <3>1, <3>2 DEF TypeOK
      <4> QED
        BY <1>3, <3>1, <3>2, <4>1 DEF StoredOK
    <3>3. CASE m # measurement
      BY <2>1, <3>1, <3>3 DEF TypeOK
    <3> QED
      BY <3>2, <3>3
  <2>4. CASE StoreFails
    <3>1. cache' = [cache EXCEPT ![measurement] = None] /\ pc = "label"
      BY <2>4 DEF StoreFails
    <3> QED
      BY <1>3, <2>1, <3>1 DEF TypeOK
  <2>5. CASE Restart
    <3>1. \/ cache'[m] = NotFresh(cache[m])
          \/ cache'[m] = None /\ pc = "label" /\ m = measurement
      BY <2>5 DEF Restart
    <3> QED
      BY <1>3, <3>1
  <2> QED
    BY <1>3, <2>2, <2>3, <2>4, <2>5
    DEF Next, vars, disk, Measure, LookUp, Check, MoreRequired, Prepare, NothingChanged, PrepareFails,
        Compile, CompileFails, HashCore, Run, RunFails, Return
<1>4. ASSUME Right, OutputsOK, StoredOK, [Next]_vars
      PROVE  [\A m \in Measurement : cache[m] # None /\ cache[m].coreHash = TrueCore[m] => Kept(m)]_vars
  BY <1>3, <1>4
<1> QED
  BY <1>1, <1>2, <1>4, RightInvariant, OutputsInvariant, PTL DEF Spec, OutputsKept
============================================================================
