---------------------- MODULE MeasurementAppController ----------------------
(***************************************************************************)
(* MeasurementAppController.measure(): results come from the cache if they *)
(* were taken with the core the measurement has now, and else from running *)
(* that core, which is built if another one is in the build directory.     *)
(*                                                                         *)
(* The generated files, the executable and the cache outlive the driver;   *)
(* what it knows of cores (MeasurementHashRepository) and of the compiled  *)
(* measurement does not. The sources do not change while a driver runs,    *)
(* but may have changed before: hashes of older cores may be found.        *)
(***************************************************************************)
EXTENDS Naturals, Sequences, FiniteSets

CONSTANTS
  Measurement,    \* the hashes of measurements
  None,
  File, Value,    \* the generated files, and what can be in them
  Content,        \* what they have to contain for each measurement
  Relevant,       \* the files whose content shows in the executable
  OldCore,        \* the core of the sources before they were last edited
  MaxRuns,        \* bounds numberOfRuns
  CheckCore,      \* the values checkCore may be configured to
  MayFail         \* the steps that may fail

\* An executable, which is as good as its hash: what of the files shows in it.
Core(files) == [f \in Relevant |-> files[f]]
TrueCore == [m \in Measurement |-> Core(Content[m])]
Hash == [Relevant -> Value] \cup {OldCore}

\* An output of one run: the core that ran, and whether this driver ran it.
Output == [core : Hash, fresh : BOOLEAN]
Result == [coreHash : Hash, runOutputs : UNION {[1 .. n -> Output] : n \in 1 .. MaxRuns}]

ASSUME FilesAssumption == Relevant \subseteq File /\ Content \in [Measurement -> [File -> Value]]
ASSUME NamesAssumption == None \notin Measurement \cup Hash \cup Result /\ OldCore \notin [Relevant -> Value]
ASSUME ConfigAssumption == /\ MaxRuns \in Nat \ {0} /\ CheckCore \subseteq BOOLEAN
                           /\ MayFail \subseteq {"prepare", "compile", "run", "store"}

VARIABLES
  files,               \* the generated files
  executable,          \* the core in the build directory
  cache,               \* MeasurementResultRepository
  useCachedResults, checkCore,   \* the configuration
  coreToMeasurement, measurementToCore, coreHashToCore, coreHash,
  currentlyCompiled,   \* currentlyCompiledMeasurementHash
  pc, measurement, numberOfRuns, runOutputs   \* the call of measure()

repository == <<coreToMeasurement, measurementToCore, coreHashToCore, coreHash>>
disk == <<files, executable, cache>>
call == <<pc, measurement, numberOfRuns, runOutputs>>
config == <<useCachedResults, checkCore>>
vars == <<disk, config, repository, currentlyCompiled, call>>

Repository == INSTANCE MeasurementHashRepository

\* What earlier runs of the driver may have left.
Stored(h) == [coreHash |-> h, runOutputs |-> <<[core |-> h, fresh |-> FALSE]>>]

Init ==
  /\ files \in {Content[m] : m \in Measurement}
  /\ executable \in {None, OldCore, Core(files)}
  /\ cache \in {c \in [Measurement -> {None} \cup {Stored(h) : h \in Hash}] :
                  \A m \in Measurement : c[m] \in {None, Stored(OldCore), Stored(TrueCore[m])}}
  /\ useCachedResults \in BOOLEAN /\ checkCore \in CheckCore
  /\ Repository!Init
  /\ currentlyCompiled = None
  /\ pc = "idle" /\ measurement = None /\ numberOfRuns = 0 /\ runOutputs = <<>>

Goto(l) == pc' = l /\ UNCHANGED <<measurement, numberOfRuns, runOutputs>>
Idle == pc' = "idle" /\ measurement' = None /\ numberOfRuns' = 0 /\ runOutputs' = <<>>

----------------------------------------------------------------------------
(* The cached results.                                                     *)

Measure(m, n) ==
  /\ pc = "idle"
  /\ pc' = "lookUp" /\ measurement' = m /\ numberOfRuns' = n /\ UNCHANGED runOutputs
  /\ UNCHANGED <<disk, config, repository, currentlyCompiled>>

\* Mutant: checkCore is not looked at.
LookUpTrusting ==
  /\ pc = "lookUp"
  /\ IF (useCachedResults \/ Repository!hasMeasurementBeenSeen(measurement)) /\ cache[measurement] # None
     THEN /\ runOutputs' = cache[measurement].runOutputs
          /\ pc' = "more" /\ UNCHANGED <<measurement, numberOfRuns>>
     ELSE Goto("more")
  /\ UNCHANGED <<disk, config, repository, currentlyCompiled>>

\* Stored results are taken, perhaps after a check of the core, if results
\* may be used or the measurement has been seen by this driver.
LookUp ==
  /\ pc = "lookUp"
  /\ IF (useCachedResults \/ Repository!hasMeasurementBeenSeen(measurement)) /\ cache[measurement] # None
     THEN IF checkCore THEN Goto("check")
          ELSE /\ runOutputs' = cache[measurement].runOutputs
               /\ pc' = "more" /\ UNCHANGED <<measurement, numberOfRuns>>
     ELSE Goto("more")
  /\ UNCHANGED <<disk, config, repository, currentlyCompiled>>

Known == Repository!getCoreHash(measurement)

Check ==
  /\ pc = "check" /\ Known # None
  /\ runOutputs' = IF Known = cache[measurement].coreHash THEN cache[measurement].runOutputs ELSE <<>>
  /\ pc' = "more" /\ UNCHANGED <<measurement, numberOfRuns>>
  /\ UNCHANGED <<disk, config, repository, currentlyCompiled>>

MoreRequired ==
  /\ pc = "more"
  /\ Goto(IF numberOfRuns > Len(runOutputs) THEN "run" ELSE "return")
  /\ UNCHANGED <<disk, config, repository, currentlyCompiled>>

----------------------------------------------------------------------------
(* buildMeasuringCore() and getCoreHash().                                 *)

\* Mutant: any compiled core will do.
BuiltAnything == currentlyCompiled # None

\* No building is required.
Built ==
  /\ currentlyCompiled # None
  /\ currentlyCompiled = measurement \/ Repository!areCoresEqual(currentlyCompiled, measurement)

NeedsCore == pc = "run" \/ (pc \in {"check", "label"} /\ Known = None)

\* Mutant: a change of the files is not noticed.
MustCompileFirst == currentlyCompiled = None

MustCompile == currentlyCompiled = None \/ files # Content[measurement]

\* The files change and the core will be compiled ...
Prepare ==
  /\ NeedsCore /\ ~ Built /\ MustCompile
  /\ files' = Content[measurement]
  /\ Goto(CASE pc = "check" -> "compileToCheck" [] pc = "run" -> "compileToRun"
            [] pc = "label" -> "compileToLabel")
  /\ UNCHANGED <<executable, cache, config, repository, currentlyCompiled>>

\* ... or they do not, and the core is that of the measurement compiled before.
NothingChanged ==
  /\ NeedsCore /\ ~ Built /\ ~ MustCompile
  /\ files' = Content[measurement]
  /\ IF Repository!setHaveEqualCoresFails(currentlyCompiled, measurement)
     THEN Idle /\ UNCHANGED <<repository, currentlyCompiled>>
     ELSE /\ Repository!setHaveEqualCores(currentlyCompiled, measurement)
          /\ currentlyCompiled' = measurement
          /\ UNCHANGED call
  /\ UNCHANGED <<executable, cache, config>>

\* An exception while the files are written: some of them are.
PrepareFails ==
  /\ "prepare" \in MayFail
  /\ NeedsCore /\ ~ Built
  /\ \E W \in SUBSET File :
       files' = [f \in File |-> IF f \in W THEN Content[measurement][f] ELSE files[f]]
  /\ Idle
  /\ UNCHANGED <<executable, cache, config, repository, currentlyCompiled>>

Compile ==
  /\ pc \in {"compileToCheck", "compileToRun", "compileToLabel"}
  /\ executable' = Core(files)
  /\ currentlyCompiled' = measurement
  /\ Goto(CASE pc = "compileToCheck" -> "check" [] pc = "compileToRun" -> "run"
            [] pc = "compileToLabel" -> "label")
  /\ UNCHANGED <<files, cache, config, repository>>

\* The exit status of make is not zero: the old executable is still there, or none.
CompileFails ==
  /\ "compile" \in MayFail
  /\ pc \in {"compileToCheck", "compileToRun", "compileToLabel"}
  /\ executable' \in {executable, None}
  /\ Idle
  /\ UNCHANGED <<files, cache, config, repository, currentlyCompiled>>

\* The hash of the core is still unknown and is computed from the executable.
HashCore ==
  /\ pc \in {"check", "label"} /\ Known = None /\ Built
  /\ IF executable = None THEN Idle /\ UNCHANGED repository
     ELSE Repository!setCoreHash(measurement, executable) /\ UNCHANGED call
  /\ UNCHANGED <<disk, config, currentlyCompiled>>

----------------------------------------------------------------------------
(* Running the core, and storing what it puts out.                         *)

\* The new outputs come first.
Run ==
  /\ pc = "run" /\ Built /\ executable # None
  /\ runOutputs' = [i \in 1 .. (numberOfRuns - Len(runOutputs)) |->
                      [core |-> executable, fresh |-> TRUE]] \o runOutputs
  /\ pc' = "label" /\ UNCHANGED <<measurement, numberOfRuns>>
  /\ UNCHANGED <<disk, config, repository, currentlyCompiled>>

RunFails ==
  /\ pc = "run" /\ Built
  /\ executable = None \/ "run" \in MayFail
  /\ Idle
  /\ UNCHANGED <<disk, config, repository, currentlyCompiled>>

\* Mutant: the new outputs alone are stored.
StoreNew ==
  /\ pc = "label" /\ Known # None
  /\ cache' = [cache EXCEPT ![measurement] =
                 [coreHash |-> Known, runOutputs |-> SelectSeq(runOutputs, LAMBDA o : o.fresh)]]
  /\ Goto("return")
  /\ UNCHANGED <<files, executable, config, repository, currentlyCompiled>>

\* Mutant: the hash of the stored result is not updated.
StoreOldHash ==
  /\ pc = "label" /\ Known # None
  /\ cache' = [cache EXCEPT ![measurement] =
                 [coreHash |-> IF @ = None THEN Known ELSE @.coreHash, runOutputs |-> runOutputs]]
  /\ Goto("return")
  /\ UNCHANGED <<files, executable, config, repository, currentlyCompiled>>

Store ==
  /\ pc = "label" /\ Known # None
  /\ cache' = [cache EXCEPT ![measurement] = [coreHash |-> Known, runOutputs |-> runOutputs]]
  /\ Goto("return")
  /\ UNCHANGED <<files, executable, config, repository, currentlyCompiled>>

\* The file was truncated, or written in part: it will not be loaded.
StoreFails ==
  /\ "store" \in MayFail
  /\ pc = "label" /\ Known # None
  /\ cache' = [cache EXCEPT ![measurement] = None]
  /\ Idle
  /\ UNCHANGED <<files, executable, config, repository, currentlyCompiled>>

Return ==
  /\ pc = "return"
  /\ Idle
  /\ UNCHANGED <<disk, config, repository, currentlyCompiled>>

\* The driver ends, or is killed, anywhere, also while it writes to the cache,
\* and is started again with some configuration.
NotFresh(r) ==
  IF r = None THEN None
  ELSE [r EXCEPT !.runOutputs = [i \in DOMAIN @ |-> [@[i] EXCEPT !.fresh = FALSE]]]

Restart ==
  /\ cache' \in {[m \in Measurement |->
                    IF torn /\ m = measurement THEN None ELSE NotFresh(cache[m])] :
                 torn \in {FALSE, pc = "label"}}
  /\ useCachedResults' \in BOOLEAN /\ checkCore' \in CheckCore
  /\ Repository!Reset
  /\ currentlyCompiled' = None
  /\ Idle
  /\ UNCHANGED <<files, executable>>

----------------------------------------------------------------------------

Next ==
  \/ \E m \in Measurement, n \in 1 .. MaxRuns : Measure(m, n)
  \/ LookUp \/ Check \/ MoreRequired
  \/ Prepare \/ NothingChanged \/ PrepareFails \/ Compile \/ CompileFails \/ HashCore
  \/ Run \/ RunFails \/ Store \/ StoreFails \/ Return
  \/ Restart

Spec == Init /\ [][Next]_vars

----------------------------------------------------------------------------
(* Properties.                                                             *)

\* Every variable has its type.
TypeOK ==
  /\ files \in [File -> Value]
  /\ executable \in Hash \cup {None}
  /\ cache \in [Measurement -> Result \cup {None}]
  /\ useCachedResults \in BOOLEAN /\ checkCore \in CheckCore
  /\ currentlyCompiled \in Measurement \cup {None}
  /\ measurement \in Measurement \cup {None}
  /\ numberOfRuns \in 0 .. MaxRuns
  /\ runOutputs \in Seq(Output)
  /\ pc \in {"idle", "lookUp", "check", "more", "run", "label", "return",
             "compileToCheck", "compileToRun", "compileToLabel"}

\* What the controller tells the repository is always true, and it never sets
\* a hash that is known: the repository is used the way it was built for.
KeepsContract == [][Repository!Next \/ Restart]_repository

\* Whatever fails: measurements once known to have equal cores stay so, and a
\* hash once known stays, until the driver is restarted (module CoreClasses).
KnowledgeGrows == [][Repository!Classes!Next \/ Restart]_repository

\* Measurements that are taken to have equal cores have them, and known hashes
\* are right.
EqualCoresAreEqual == Repository!KnowledgeIsTrue

\* With checkCore, the outputs of a measurement were all put out by its core,
\* the one the present sources give, whether they were loaded or measured.
OutputsOfOwnCore ==
  checkCore /\ measurement # None =>
    \A i \in DOMAIN runOutputs : runOutputs[i].core = TrueCore[measurement]

\* The core hash of a stored result tells the core its outputs were taken with.
HashTellsCore ==
  \A m \in Measurement : cache[m] # None =>
    \A i \in DOMAIN cache[m].runOutputs : cache[m].runOutputs[i].core = cache[m].coreHash

\* The old outputs are all there, in their order, behind new ones.
Adds(old, new) == \E k \in 1 .. Len(new) : SubSeq(new, k + 1, Len(new)) = old

\* Stored outputs of the present core change only where the result of their own
\* measurement is stored. A driver that may not use results replaces them, and
\* storing loses them if it is interrupted, because the file is rewritten in
\* place; in any other case what is stored adds to them.
OutputsKept ==
  [][\A m \in Measurement : cache[m] # None /\ cache[m].coreHash = TrueCore[m] =>
       \/ cache'[m] \in {cache[m], NotFresh(cache[m])}
       \/ /\ pc = "label" /\ m = measurement
          /\ \/ cache'[m] = None \/ ~ useCachedResults
             \/ Adds(cache[m].runOutputs, cache'[m].runOutputs)]_vars
============================================================================
