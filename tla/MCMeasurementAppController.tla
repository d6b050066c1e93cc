--------------------- MODULE MCMeasurementAppController ---------------------
(* Two drivers, in behaviours of their own: one that is configured by the  *)
(* constants of the module, and one that does not check the core and whose *)
(* preparations and compilations may fail.                                 *)
EXTENDS MeasurementAppController, TLC

CONSTANTS
  m1, m2, m3, m4, x, y,
  Drivers           \* the drivers of a run

VARIABLES
  driver,
  filesOfOther, executableOfOther, cacheOfOther, useCachedResultsOfOther, checkCoreOfOther,
  coreToMeasurementOfOther, measurementToCoreOfOther, coreHashToCoreOfOther, coreHashOfOther,
  currentlyCompiledOfOther, pcOfOther, measurementOfOther, numberOfRunsOfOther, runOutputsOfOther

other == <<filesOfOther, executableOfOther, cacheOfOther, useCachedResultsOfOther, checkCoreOfOther,
           coreToMeasurementOfOther, measurementToCoreOfOther, coreHashToCoreOfOther, coreHashOfOther,
           currentlyCompiledOfOther, pcOfOther, measurementOfOther, numberOfRunsOfOther, runOutputsOfOther>>

\* m1 and m2 need the same files, m3 others that make the same core.
ContentOf(m) ==
  ("macros" :> (IF m = m4 THEN y ELSE x)) @@ ("comments" :> (IF m = m3 THEN y ELSE x))
MCContent == [m \in Measurement |-> ContentOf(m)]

Failing == INSTANCE MeasurementAppController WITH
  Measurement <- {m1, m3, m4}, Content <- [m \in {m1, m3, m4} |-> ContentOf(m)],
  MaxRuns <- 1, CheckCore <- {FALSE}, MayFail <- {"prepare", "compile", "run"},
  files <- filesOfOther, executable <- executableOfOther, cache <- cacheOfOther,
  useCachedResults <- useCachedResultsOfOther, checkCore <- checkCoreOfOther,
  coreToMeasurement <- coreToMeasurementOfOther, measurementToCore <- measurementToCoreOfOther,
  coreHashToCore <- coreHashToCoreOfOther, coreHash <- coreHashOfOther,
  currentlyCompiled <- currentlyCompiledOfOther, pc <- pcOfOther, measurement <- measurementOfOther,
  numberOfRuns <- numberOfRunsOfOther, runOutputs <- runOutputsOfOther

MCInit ==
  /\ driver \in Drivers
  /\ Init /\ Failing!Init
  /\ \/ driver = "this"
     \/ files = MCContent[m1] /\ executable = None /\ useCachedResults /\ \A m \in Measurement : cache[m] = None
  /\ \/ driver = "failing"
     \/ filesOfOther = ContentOf(m1) /\ executableOfOther = None /\ useCachedResultsOfOther
        /\ cacheOfOther[m1] = None
  /\ \A m \in {m3, m4} : cacheOfOther[m] = None

MCNext ==
  \/ driver = "this" /\ Next /\ UNCHANGED <<driver, other>>
  \/ driver = "failing" /\ Failing!Next /\ UNCHANGED <<driver, vars>>

MCSpec == MCInit /\ [][MCNext]_<<driver, vars, other>>

\* What the driver whose builds fail knows of the cores only grows until it is
\* restarted: KnowledgeGrows of MeasurementAppController.
GrowsThoughBuildsFail == Failing!KnowledgeGrows
============================================================================
