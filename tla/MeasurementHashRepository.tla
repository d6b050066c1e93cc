--------------------- MODULE MeasurementHashRepository ---------------------
(***************************************************************************)
(* The repository in which the driver keeps track of measurements that     *)
(* have equal measuring cores, and of the hashes of these cores.           *)
(*                                                                         *)
(* A Core object is created for a measurement that has none and is never   *)
(* taken from it without another being given, so that a measurement gives  *)
(* rise to one Core at most: the Core is named after it.                   *)
(***************************************************************************)
EXTENDS FiniteSets, Naturals

CONSTANTS
  Measurement,   \* the hashes of measurements
  Hash,          \* the hashes of cores
  None,          \* the null reference
  TrueCore       \* the hash of the core each measurement really has

ASSUME MeasurementAssumption == None \notin Measurement
ASSUME HashAssumption == None \notin Hash /\ TrueCore \in [Measurement -> Hash]

Core == Measurement

VARIABLES
  coreToMeasurement,   \* the measurements of each core, {} if it was removed
  measurementToCore,
  coreHashToCore,
  coreHash             \* Core.coreHash

vars == <<coreToMeasurement, measurementToCore, coreHashToCore, coreHash>>

Init ==
  /\ coreToMeasurement = [c \in Core |-> {}]
  /\ measurementToCore = [m \in Measurement |-> None]
  /\ coreHashToCore = [h \in Hash |-> None]
  /\ coreHash = [c \in Core |-> None]

\* A new driver has a new repository.
Reset ==
  /\ coreToMeasurement' = [c \in Core |-> {}]
  /\ measurementToCore' = [m \in Measurement |-> None]
  /\ coreHashToCore' = [h \in Hash |-> None]
  /\ coreHash' = [c \in Core |-> None]

areCoresEqual(a, b) ==
  /\ None \notin {measurementToCore[a], measurementToCore[b]}
  /\ measurementToCore[a] = measurementToCore[b]

hasMeasurementBeenSeen(m) == measurementToCore[m] # None

getCoreHash(m) == IF measurementToCore[m] = None THEN None ELSE coreHash[measurementToCore[m]]

----------------------------------------------------------------------------
\* The measurements ms, whose core was c or who had none, get the core d.
Move(ms, c, d) ==
  /\ coreToMeasurement' = [coreToMeasurement EXCEPT ![c] = {}, ![d] = @ \cup ms]
  /\ measurementToCore' = [m \in Measurement |-> IF m \in ms THEN d ELSE measurementToCore[m]]

\* Mutant: the hashes are not compared.
HashesNeverDiffer(c, d) == FALSE

\* Cores that have to be merged must not have different hashes: an Error is
\* thrown before anything changes.
HashesDiffer(c, d) == None \notin {coreHash[c], coreHash[d]} /\ coreHash[c] # coreHash[d]

\* Mutant: the hash of the core that is merged is lost.
mergeLosesHash(d, c) ==
  /\ ~ HashesDiffer(c, d)
  /\ Move(coreToMeasurement[c], c, d)
  /\ UNCHANGED <<coreHash, coreHashToCore>>

\* Mutant: only the measurement the core is named after moves.
mergeMovesOne(d, c) ==
  /\ ~ HashesDiffer(c, d)
  /\ coreHash' = [coreHash EXCEPT ![d] = IF coreHash[c] # None THEN coreHash[c] ELSE @]
  /\ Move(coreToMeasurement[c] \cap {c}, c, d)
  /\ UNCHANGED coreHashToCore

\* Merge the core c into the core d. What coreHashToCore says of c stays.
mergeSecondCoreIntoFirstCore(d, c) ==
  /\ ~ HashesDiffer(c, d)
  /\ coreHash' = [coreHash EXCEPT ![d] = IF coreHash[c] # None THEN coreHash[c] ELSE @]
  /\ Move(coreToMeasurement[c], c, d)
  /\ UNCHANGED coreHashToCore

\* Mutant: the Core of measurements that had none is the same each time.
setHaveEqualCoresShared(a, b) ==
  LET coreA == measurementToCore[a]
      coreB == measurementToCore[b]
      one   == CHOOSE c \in Core : TRUE
  IN \/ coreA = None /\ coreB = None /\ Move(coreToMeasurement[one] \cup {a, b}, one, one)
                                    /\ UNCHANGED <<coreHash, coreHashToCore>>
     \/ coreA = None /\ coreB # None /\ Move({a}, a, coreB) /\ UNCHANGED <<coreHash, coreHashToCore>>
     \/ coreA # None /\ coreB = None /\ Move({b}, b, coreA) /\ UNCHANGED <<coreHash, coreHashToCore>>
     \/ None \notin {coreA, coreB} /\ coreA # coreB /\ mergeSecondCoreIntoFirstCore(coreA, coreB)

\* The two measurements are told to have equal cores.
setHaveEqualCores(a, b) ==
  LET coreA == measurementToCore[a]
      coreB == measurementToCore[b]
  IN \/ coreA # None /\ coreA = coreB /\ UNCHANGED vars
     \/ coreA = None /\ coreB = None /\ Move({a, b}, a, a) /\ UNCHANGED <<coreHash, coreHashToCore>>
     \/ coreA = None /\ coreB # None /\ Move({a}, a, coreB) /\ UNCHANGED <<coreHash, coreHashToCore>>
     \/ coreA # None /\ coreB = None /\ Move({b}, b, coreA) /\ UNCHANGED <<coreHash, coreHashToCore>>
     \/ /\ None \notin {coreA, coreB} /\ coreA # coreB
        /\ IF Cardinality(coreToMeasurement[coreA]) > Cardinality(coreToMeasurement[coreB])
           THEN mergeSecondCoreIntoFirstCore(coreA, coreB)
           ELSE mergeSecondCoreIntoFirstCore(coreB, coreA)

\* It throws the Error instead.
setHaveEqualCoresFails(a, b) ==
  /\ None \notin {measurementToCore[a], measurementToCore[b]}
  /\ measurementToCore[a] # measurementToCore[b]
  /\ HashesDiffer(measurementToCore[a], measurementToCore[b])

\* The core of a measurement has the hash h: it is merged into the core that
\* is registered for h, if there is one.
setCoreHash(m, h) ==
  LET c == IF measurementToCore[m] = None THEN m ELSE measurementToCore[m]
      d == coreHashToCore[h]
      ms == coreToMeasurement[c] \cup {m}
  IN IF d = None
     THEN /\ Move(ms, c, c)
          /\ coreHash' = [coreHash EXCEPT ![c] = h]
          /\ coreHashToCore' = [coreHashToCore EXCEPT ![h] = c]
     ELSE Move(ms, c, d) /\ UNCHANGED <<coreHash, coreHashToCore>>

\* The calls the application controller makes, when it knows what it says.
Next ==
  \/ \E a, b \in Measurement :
       a # b /\ TrueCore[a] = TrueCore[b] /\ setHaveEqualCores(a, b)
  \/ \E m \in Measurement : getCoreHash(m) = None /\ setCoreHash(m, TrueCore[m])

Spec == Init /\ [][Next]_vars

----------------------------------------------------------------------------
\* Every variable has its type.
TypeOK ==
  /\ coreToMeasurement \in [Core -> SUBSET Measurement]
  /\ measurementToCore \in [Measurement -> Core \cup {None}]
  /\ coreHashToCore \in [Hash -> Core \cup {None}]
  /\ coreHash \in [Core -> Hash \cup {None}]

\* The two maps say the same, whatever was merged into what.
MapsAgree ==
  \A m \in Measurement, c \in Core : m \in coreToMeasurement[c] <=> measurementToCore[m] = c

\* Measurements in one core really have equal cores, and the hash of a core is
\* the hash they have, also when it came from a core that was merged.
KnowledgeIsTrue ==
  /\ \A a, b \in Measurement : areCoresEqual(a, b) => TrueCore[a] = TrueCore[b]
  /\ \A m \in Measurement : getCoreHash(m) \in {None, TrueCore[m]}

\* The repository keeps classes that only grow (module CoreClasses).
Classes == INSTANCE CoreClasses WITH
  class <- [m \in Measurement |->
              IF measurementToCore[m] = None THEN {} ELSE coreToMeasurement[measurementToCore[m]]],
  hash  <- [m \in Measurement |-> getCoreHash(m)]

ImplementsClasses == Classes!Spec
============================================================================
