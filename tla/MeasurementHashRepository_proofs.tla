------------------ MODULE MeasurementHashRepository_proofs ------------------
(***************************************************************************)
(* Proofs about MeasurementHashRepository, for any set of measurements and *)
(* any true cores: the maps agree, what the repository knows is true, and  *)
(* it keeps classes that only grow. The lemmas about one step are also     *)
(* used for the controller (MeasurementAppController_proofs).              *)
(***************************************************************************)
EXTENDS MeasurementHashRepository, TLAPS

\* A measurement without a core has not given rise to one.
Unborn ==
  \A m \in Measurement : measurementToCore[m] = None =>
    /\ coreToMeasurement[m] = {}
    /\ coreHash[m] = None
    /\ \A h \in Hash : coreHashToCore[h] # m

\* The core registered for a hash has it.
Registered == \A h \in Hash : coreHashToCore[h] # None => coreHash[coreHashToCore[h]] = h

\* What holds of the maps whatever the callers say: a merge relies on it, and a
\* core that was merged may still be registered for its hash, which it keeps.
Structure == TypeOK /\ MapsAgree /\ Unborn /\ Registered

\* The inductive invariant.
IInv == Structure /\ KnowledgeIsTrue

\* What setHaveEqualCores() may do, without saying which of two cores is merged
\* into the other.
EqualStep(a, b) ==
  \/ UNCHANGED vars
  \/ /\ measurementToCore[a] = None /\ measurementToCore[b] = None
     /\ Move({a, b}, a, a) /\ UNCHANGED <<coreHash, coreHashToCore>>
  \/ /\ measurementToCore[a] = None /\ measurementToCore[b] # None
     /\ Move({a}, a, measurementToCore[b]) /\ UNCHANGED <<coreHash, coreHashToCore>>
  \/ /\ measurementToCore[a] # None /\ measurementToCore[b] = None
     /\ Move({b}, b, measurementToCore[a]) /\ UNCHANGED <<coreHash, coreHashToCore>>
  \/ /\ measurementToCore[a] # None /\ measurementToCore[b] # None
     /\ measurementToCore[a] # measurementToCore[b]
     /\ \/ mergeSecondCoreIntoFirstCore(measurementToCore[a], measurementToCore[b])
        \/ mergeSecondCoreIntoFirstCore(measurementToCore[b], measurementToCore[a])

LEMMA EqualStepMade ==
  ASSUME NEW a, NEW b, setHaveEqualCores(a, b)
  PROVE  EqualStep(a, b)
  BY DEF setHaveEqualCores, EqualStep

\* Nothing is known at first, and after a restart.
LEMMA InitInv == Init => IInv
  BY MeasurementAssumption, HashAssumption
  DEF Init, IInv, Structure, TypeOK, MapsAgree, Unborn, Registered, KnowledgeIsTrue,
      areCoresEqual, getCoreHash, Core

LEMMA ResetInv == Reset => IInv'
  BY MeasurementAssumption, HashAssumption
  DEF Reset, IInv, Structure, TypeOK, MapsAgree, Unborn, Registered, KnowledgeIsTrue,
      areCoresEqual, getCoreHash, Core

LEMMA StutterInv ==
  ASSUME UNCHANGED vars
  PROVE  (Structure => Structure') /\ (KnowledgeIsTrue => KnowledgeIsTrue')
  BY DEF Structure, TypeOK, MapsAgree, Unborn, Registered, KnowledgeIsTrue,
         areCoresEqual, getCoreHash, vars

----------------------------------------------------------------------------
(* The measurements ms, all those of the core c and perhaps some without a *)
(* core, move to the core d.                                               *)

\* The hypotheses under which the code moves measurements.
MayMove(ms, c, d) ==
  /\ c \in Core /\ d \in Core /\ ms \subseteq Measurement
  /\ coreToMeasurement[c] \subseteq ms
  /\ \A m \in ms : measurementToCore[m] \in {c, None}
  /\ Move(ms, c, d)

\* The two maps stay inverse to each other.
LEMMA MoveKeepsMaps ==
  ASSUME TypeOK, MapsAgree, NEW c \in Core, NEW d \in Core, NEW ms \in SUBSET Measurement,
         MayMove(ms, c, d)
  PROVE  /\ MapsAgree'
         /\ coreToMeasurement' \in [Core -> SUBSET Measurement]
         /\ measurementToCore' \in [Measurement -> Core \cup {None}]
         /\ \A m \in ms : measurementToCore'[m] = d
         /\ \A m \in Measurement \ ms : measurementToCore'[m] = measurementToCore[m]
         /\ \A e \in Core \ {c, d} : coreToMeasurement'[e] = coreToMeasurement[e]
         /\ coreToMeasurement'[d] = coreToMeasurement[d] \cup ms
<1>1. coreToMeasurement' = [e \in Core |->
                              IF e = d THEN (IF d = c THEN {} ELSE coreToMeasurement[d]) \cup ms
                              ELSE IF e = c THEN {} ELSE coreToMeasurement[e]]
  BY DEF MayMove, Move, TypeOK
<1>2. measurementToCore' = [m \in Measurement |-> IF m \in ms THEN d ELSE measurementToCore[m]]
  BY DEF MayMove, Move
<1>3. coreToMeasurement' \in [Core -> SUBSET Measurement]
  BY <1>1 DEF TypeOK
<1>4. measurementToCore' \in [Measurement -> Core \cup {None}]
  BY <1>2 DEF TypeOK
<1>5. MapsAgree'
  <2> SUFFICES ASSUME NEW m \in Measurement, NEW e \in Core
               PROVE  m \in coreToMeasurement'[e] <=> measurementToCore'[m] = e
    BY DEF MapsAgree
  <2>1. m \in coreToMeasurement[e] <=> measurementToCore[m] = e
    BY DEF MapsAgree
  <2>2. None \notin Core
    BY MeasurementAssumption DEF Core
  <2>3. CASE m \in ms
    <3>1. measurementToCore'[m] = d
      BY <1>2, <2>3
    <3>2. m \in coreToMeasurement'[d]
      BY <1>1, <2>3
    <3>3. e # d => m \notin coreToMeasurement'[e]
      BY <1>1, <2>1, <2>2, <2>3 DEF MayMove
    <3> QED
      BY <3>1, <3>2, <3>3
  <2>4. CASE m \notin ms
    <3>1. measurementToCore'[m] = measurementToCore[m]
      BY <1>2, <2>4
    <3>2. e = c => measurementToCore[m] # e
      BY <2>1, <2>4 DEF MayMove
    <3>3. m \in coreToMeasurement'[e] <=> (e # c /\ m \in coreToMeasurement[e])
      BY <1>1, <2>4
    <3> QED
      BY <2>1, <3>1, <3>2, <3>3
  <2> QED
    BY <2>3, <2>4
<1>6. coreToMeasurement'[d] = coreToMeasurement[d] \cup ms
  BY <1>1 DEF MayMove
<1> QED
  BY <1>1, <1>2, <1>3, <1>4, <1>5, <1>6

\* A core does not come to be registered for a hash, or get one, but the core d.
Rehash(d) ==
  /\ coreHash' \in [Core -> Hash \cup {None}]
  /\ \A e \in Core \ {d} : coreHash'[e] = coreHash[e]
  /\ coreHash[d] # None => coreHash'[d] = coreHash[d]
  /\ coreHashToCore' \in [Hash -> Core \cup {None}]
  /\ \A h \in Hash : \/ coreHashToCore'[h] = coreHashToCore[h]
                     \/ coreHashToCore'[h] = d /\ coreHash'[d] = h

\* Every change the repository makes is of this form.
MoveStep(ms, c, d) ==
  /\ MayMove(ms, c, d)
  /\ c \in ms \/ measurementToCore[c] # None
  /\ d \in ms \/ measurementToCore[d] # None
  /\ Rehash(d)

\* It leaves the maps in order.
LEMMA MoveStructure ==
  ASSUME Structure, NEW c \in Core, NEW d \in Core, NEW ms \in SUBSET Measurement,
         MoveStep(ms, c, d)
  PROVE  Structure'
<1>1. /\ MapsAgree'
      /\ coreToMeasurement' \in [Core -> SUBSET Measurement]
      /\ measurementToCore' \in [Measurement -> Core \cup {None}]
      /\ \A m \in ms : measurementToCore'[m] = d
      /\ \A m \in Measurement \ ms : measurementToCore'[m] = measurementToCore[m]
      /\ \A e \in Core \ {c, d} : coreToMeasurement'[e] = coreToMeasurement[e]
  BY MoveKeepsMaps DEF MoveStep, Structure
<1>2. TypeOK'
  BY <1>1 DEF TypeOK, MoveStep, Rehash
<1>3. Unborn'
  <2> SUFFICES ASSUME NEW m \in Measurement, measurementToCore'[m] = None
               PROVE  /\ coreToMeasurement'[m] = {} /\ coreHash'[m] = None
                      /\ \A h \in Hash : coreHashToCore'[h] # m
    BY DEF Unborn
  <2>1. m \notin ms /\ measurementToCore[m] = None
    BY <1>1, MeasurementAssumption DEF Core
  <2>2. m \notin {c, d} /\ m \in Core
    BY <2>1 DEF MoveStep, Core
  <2> QED
    BY <1>1, <2>1, <2>2 DEF Structure, Unborn, MoveStep, Rehash
<1>4. Registered'
  BY MeasurementAssumption, HashAssumption
  DEF Structure, Registered, TypeOK, MoveStep, Rehash, Core
<1> QED
  BY <1>1, <1>2, <1>3, <1>4 DEF Structure

\* The measurements known to have the core m has.
Class(m) == IF measurementToCore[m] = None THEN {} ELSE coreToMeasurement[measurementToCore[m]]

\* The moved measurements and those that were in the core become one class.
LEMMA MoveClasses ==
  ASSUME Structure, NEW c \in Core, NEW d \in Core, NEW ms \in SUBSET Measurement,
         MoveStep(ms, c, d), NEW m \in Measurement
  PROVE  /\ Class(m)' = IF m \in coreToMeasurement[d] \cup ms
                        THEN coreToMeasurement[d] \cup ms ELSE Class(m)
         /\ getCoreHash(m)' = IF m \in coreToMeasurement[d] \cup ms
                              THEN coreHash'[d] ELSE getCoreHash(m)
         /\ m \in coreToMeasurement[d] \cup ms <=> measurementToCore'[m] = d
         /\ m \notin coreToMeasurement[d] \cup ms => measurementToCore'[m] = measurementToCore[m]
<1>1. /\ \A n \in ms : measurementToCore'[n] = d
      /\ \A n \in Measurement \ ms : measurementToCore'[n] = measurementToCore[n]
      /\ \A e \in Core \ {c, d} : coreToMeasurement'[e] = coreToMeasurement[e]
      /\ coreToMeasurement'[d] = coreToMeasurement[d] \cup ms
  BY MoveKeepsMaps DEF MoveStep, Structure
<1>2. d # None /\ None \notin Core
  BY MeasurementAssumption DEF Core
<1>3. m \in coreToMeasurement[d] <=> measurementToCore[m] = d
  BY DEF Structure, MapsAgree
<1>4. CASE m \in coreToMeasurement[d] \cup ms
  <2>1. measurementToCore'[m] = d
    BY <1>1, <1>3, <1>4
  <2> QED
    BY <1>1, <1>2, <1>4, <2>1 DEF Class, getCoreHash
<1>5. CASE m \notin coreToMeasurement[d] \cup ms
  <2>1. measurementToCore'[m] = measurementToCore[m] /\ measurementToCore[m] # d
    BY <1>1, <1>3, <1>5
  <2>2. measurementToCore[m] # c
    BY <1>5 DEF Structure, MapsAgree, MoveStep, MayMove
  <2>3. measurementToCore[m] \in Core \cup {None}
    BY DEF Structure, TypeOK
  <2>4. measurementToCore[m] # None =>
          /\ coreToMeasurement'[measurementToCore[m]] = coreToMeasurement[measurementToCore[m]]
          /\ coreHash'[measurementToCore[m]] = coreHash[measurementToCore[m]]
    BY <1>1, <2>1, <2>2, <2>3 DEF MoveStep, Rehash
  <2> QED
    BY <1>5, <2>1, <2>4 DEF Class, getCoreHash
<1> QED
  BY <1>4, <1>5

\* What is known stays true if the class that is made has one core.
LEMMA MoveKnowledge ==
  ASSUME IInv, NEW c \in Core, NEW d \in Core, NEW ms \in SUBSET Measurement,
         MoveStep(ms, c, d),
         NEW t, \A m \in coreToMeasurement[d] \cup ms : TrueCore[m] = t, coreHash'[d] \in {None, t}
  PROVE  KnowledgeIsTrue'
<1>0. \A m \in Measurement :
        /\ m \in coreToMeasurement[d] \cup ms <=> measurementToCore'[m] = d
        /\ m \notin coreToMeasurement[d] \cup ms => measurementToCore'[m] = measurementToCore[m]
  BY MoveClasses DEF IInv
<1>1. ASSUME NEW m \in Measurement, NEW n \in Measurement, areCoresEqual(m, n)'
      PROVE  TrueCore[m] = TrueCore[n]
  <2>1. measurementToCore'[m] = measurementToCore'[n] /\ measurementToCore'[m] # None
    BY <1>1 DEF areCoresEqual
  <2>2. CASE measurementToCore'[m] = d
    <3>1. m \in coreToMeasurement[d] \cup ms /\ n \in coreToMeasurement[d] \cup ms
      BY <1>0, <2>1, <2>2
    <3> QED
      BY <3>1
  <2>3. CASE measurementToCore'[m] # d
    <3>1. /\ measurementToCore'[m] = measurementToCore[m]
          /\ measurementToCore'[n] = measurementToCore[n]
      BY <1>0, <2>1, <2>3
    <3> QED
      BY <2>1, <3>1 DEF IInv, KnowledgeIsTrue, areCoresEqual
  <2> QED
    BY <2>2, <2>3
<1>2. ASSUME NEW m \in Measurement
      PROVE  getCoreHash(m)' \in {None, TrueCore[m]}
  <2>1. CASE m \in coreToMeasurement[d] \cup ms
    BY <2>1, MoveClasses DEF IInv
  <2>2. CASE m \notin coreToMeasurement[d] \cup ms
    <3>1. getCoreHash(m)' = getCoreHash(m)
      BY <2>2, MoveClasses DEF IInv
    <3> QED
      BY <3>1 DEF IInv, KnowledgeIsTrue
  <2> QED
    BY <2>1, <2>2
<1> QED
  BY <1>1, <1>2 DEF KnowledgeIsTrue

----------------------------------------------------------------------------
(* The calls make such a change.                                           *)

\* Merging the core c, which has a measurement, into d, which has one too.
LEMMA MergeMoves ==
  ASSUME Structure, NEW c \in Core, NEW d \in Core, c # d,
         NEW m \in Measurement, measurementToCore[m] = c,
         NEW n \in Measurement, measurementToCore[n] = d,
         mergeSecondCoreIntoFirstCore(d, c)
  PROVE  /\ MoveStep(coreToMeasurement[c], c, d)
         /\ coreHash'[d] = IF coreHash[c] # None THEN coreHash[c] ELSE coreHash[d]
         /\ coreHash[c] # None /\ coreHash[d] # None => coreHash[c] = coreHash[d]
<1>1. m \in coreToMeasurement[c] /\ n \in coreToMeasurement[d] /\ None \notin Core
  BY MeasurementAssumption DEF Structure, MapsAgree, Core
<1>2. measurementToCore[c] # None /\ measurementToCore[d] # None
  BY <1>1 DEF Structure, Unborn, Core
<1>3. coreToMeasurement[c] \subseteq Measurement
  BY DEF Structure, TypeOK
<1>4. \A o \in coreToMeasurement[c] : measurementToCore[o] = c
  BY <1>3 DEF Structure, MapsAgree
<1>5. MayMove(coreToMeasurement[c], c, d)
  BY <1>3, <1>4 DEF MayMove, mergeSecondCoreIntoFirstCore
<1>6. coreHash \in [Core -> Hash \cup {None}] /\ coreHashToCore \in [Hash -> Core \cup {None}]
  BY DEF Structure, TypeOK
<1>7. /\ coreHash' = [coreHash EXCEPT ![d] = IF coreHash[c] # None THEN coreHash[c] ELSE @]
      /\ coreHash[c] # None /\ coreHash[d] # None => coreHash[c] = coreHash[d]
      /\ coreHashToCore' = coreHashToCore
  BY DEF mergeSecondCoreIntoFirstCore, HashesDiffer
<1>8. coreHash'[d] = IF coreHash[c] # None THEN coreHash[c] ELSE coreHash[d]
  BY <1>6, <1>7
<1>9. Rehash(d)
  BY <1>6, <1>7, <1>8 DEF Rehash
<1> QED
  BY <1>2, <1>5, <1>7, <1>8, <1>9 DEF MoveStep

\* Giving measurements without a core a new one, or that of others.
LEMMA JoinMoves ==
  ASSUME Structure, NEW ms \in SUBSET Measurement, NEW a \in ms, NEW d \in Core,
         \A m \in ms : measurementToCore[m] = None,
         d = a \/ \E m \in Measurement : measurementToCore[m] = d,
         Move(ms, a, d), UNCHANGED <<coreHash, coreHashToCore>>
  PROVE  MoveStep(ms, a, d)
<1>1. coreToMeasurement[a] = {} /\ a \in Core
  BY DEF Structure, Unborn, Core
<1>2. d \in ms \/ measurementToCore[d] # None
  BY MeasurementAssumption DEF Structure, Unborn, MapsAgree, Core
<1> QED
  BY <1>1, <1>2 DEF MoveStep, MayMove, Rehash, Structure, TypeOK

\* setHaveEqualCores() makes one class of the two.
LEMMA EqualMoves ==
  ASSUME Structure, NEW a \in Measurement, NEW b \in Measurement, EqualStep(a, b),
         ~ UNCHANGED vars
  PROVE  \E c \in Core, d \in Core, ms \in SUBSET Measurement :
           /\ MoveStep(ms, c, d)
           /\ coreToMeasurement[d] \cup ms = Class(a) \cup Class(b) \cup {a, b}
           /\ coreHash'[d] = IF getCoreHash(a) # None THEN getCoreHash(a) ELSE getCoreHash(b)
           /\ None \notin {getCoreHash(a), getCoreHash(b)} => getCoreHash(a) = getCoreHash(b)
<1> DEFINE A == measurementToCore[a]
           B == measurementToCore[b]
<1>0. /\ A \in Core \cup {None} /\ B \in Core \cup {None} /\ a \in Core /\ b \in Core
      /\ A # None => a \in coreToMeasurement[A]
      /\ B # None => b \in coreToMeasurement[B]
      /\ A = None => coreToMeasurement[a] = {} /\ coreHash[a] = None
      /\ B = None => coreToMeasurement[b] = {} /\ coreHash[b] = None
      /\ \A e \in Core : coreToMeasurement[e] \subseteq Measurement
  BY DEF Structure, TypeOK, Unborn, MapsAgree, Core
<1>1. CASE A = None /\ B = None /\ Move({a, b}, a, a) /\ UNCHANGED <<coreHash, coreHashToCore>>
  <2>1. MoveStep({a, b}, a, a)
    BY <1>0, <1>1, JoinMoves
  <2>2. coreToMeasurement[a] \cup {a, b} = Class(a) \cup Class(b) \cup {a, b}
    BY <1>0, <1>1 DEF Class
  <2>3. coreHash'[a] = None /\ getCoreHash(a) = None /\ getCoreHash(b) = None
    BY <1>0, <1>1 DEF getCoreHash
  <2>4. {a, b} \in SUBSET Measurement
    OBVIOUS
  <2> HIDE DEF A, B
  <2> QED
    BY <1>0, <2>1, <2>2, <2>3, <2>4
<1>2. CASE A = None /\ B # None /\ Move({a}, a, B) /\ UNCHANGED <<coreHash, coreHashToCore>>
  <2>1. MoveStep({a}, a, B)
    BY <1>0, <1>2, JoinMoves
  <2>2. coreToMeasurement[B] \cup {a} = Class(a) \cup Class(b) \cup {a, b}
    BY <1>0, <1>2 DEF Class
  <2>3. coreHash'[B] = getCoreHash(b) /\ getCoreHash(a) = None
    BY <1>0, <1>2 DEF getCoreHash
  <2>4. {a} \in SUBSET Measurement /\ B \in Core
    BY <1>0, <1>2
  <2> HIDE DEF A, B
  <2> QED
    BY <1>0, <2>1, <2>2, <2>3, <2>4
<1>3. CASE A # None /\ B = None /\ Move({b}, b, A) /\ UNCHANGED <<coreHash, coreHashToCore>>
  <2>1. MoveStep({b}, b, A)
    BY <1>0, <1>3, JoinMoves
  <2>2. coreToMeasurement[A] \cup {b} = Class(a) \cup Class(b) \cup {a, b}
    BY <1>0, <1>3 DEF Class
  <2>3. coreHash'[A] = getCoreHash(a) /\ getCoreHash(b) = None
    BY <1>0, <1>3 DEF getCoreHash
  <2>4. {b} \in SUBSET Measurement /\ A \in Core
    BY <1>0, <1>3
  <2> HIDE DEF A, B
  <2> QED
    BY <1>0, <2>1, <2>2, <2>3, <2>4
<1>4. ASSUME A # None, B # None, A # B,
             NEW c \in {A, B}, NEW d \in {A, B}, c # d, mergeSecondCoreIntoFirstCore(d, c)
      PROVE  \E e \in Core, f \in Core, ms \in SUBSET Measurement :
               /\ MoveStep(ms, e, f)
               /\ coreToMeasurement[f] \cup ms = Class(a) \cup Class(b) \cup {a, b}
               /\ coreHash'[f] = IF getCoreHash(a) # None THEN getCoreHash(a) ELSE getCoreHash(b)
               /\ None \notin {getCoreHash(a), getCoreHash(b)} => getCoreHash(a) = getCoreHash(b)
  <2>1. c \in Core /\ d \in Core /\ coreToMeasurement[c] \in SUBSET Measurement
    BY <1>0, <1>4
  <2>2. /\ MoveStep(coreToMeasurement[c], c, d)
        /\ coreHash'[d] = IF coreHash[c] # None THEN coreHash[c] ELSE coreHash[d]
        /\ coreHash[c] # None /\ coreHash[d] # None => coreHash[c] = coreHash[d]
    BY <1>4, <2>1, MergeMoves
  <2>3. coreToMeasurement[d] \cup coreToMeasurement[c] = Class(a) \cup Class(b) \cup {a, b}
    BY <1>0, <1>4 DEF Class
  <2>4. getCoreHash(a) = coreHash[A] /\ getCoreHash(b) = coreHash[B]
    BY <1>4 DEF getCoreHash
  <2>5. /\ coreHash'[d] = IF getCoreHash(a) # None THEN getCoreHash(a) ELSE getCoreHash(b)
        /\ None \notin {getCoreHash(a), getCoreHash(b)} => getCoreHash(a) = getCoreHash(b)
    BY <1>4, <2>2, <2>4
  <2> HIDE DEF A, B
  <2> QED
    BY <2>1, <2>2, <2>3, <2>5
<1> QED
  BY <1>1, <1>2, <1>3, <1>4 DEF EqualStep

\* setCoreHash(), for a core without a hash, labels the class of m, and joins it
\* with a class that has the hash if there is one.
LEMMA HashMoves ==
  ASSUME Structure, NEW m \in Measurement, NEW h \in Hash, getCoreHash(m) = None,
         setCoreHash(m, h)
  PROVE  \E c \in Core, d \in Core, ms \in SUBSET Measurement,
            Y \in {{}} \cup {Class(n) : n \in {n \in Measurement : getCoreHash(n) = h}} :
           /\ MoveStep(ms, c, d)
           /\ coreToMeasurement[d] \cup ms = Class(m) \cup {m} \cup Y
           /\ coreHash'[d] = h
<1> DEFINE c == IF measurementToCore[m] = None THEN m ELSE measurementToCore[m]
           d == coreHashToCore[h]
           ms == coreToMeasurement[c] \cup {m}
           Ys == {{}} \cup {Class(n) : n \in {n \in Measurement : getCoreHash(n) = h}}
<1>1. c \in Core /\ d \in Core \cup {None} /\ ms \in SUBSET Measurement /\ None \notin Core
      /\ None \notin Hash
  BY MeasurementAssumption, HashAssumption DEF Structure, TypeOK, Core
<1>2. coreHash[c] = None /\ coreToMeasurement[c] = Class(m)
  BY DEF Structure, Unborn, getCoreHash, Class
<1>3. \A n \in ms : measurementToCore[n] \in {c, None}
  BY <1>1 DEF Structure, TypeOK, MapsAgree
<1>4. c \in ms \/ measurementToCore[c] # None
  <2>1. CASE measurementToCore[m] = None
    BY <2>1
  <2>2. CASE measurementToCore[m] # None
    <3>1. m \in coreToMeasurement[c]
      BY <1>1, <2>2 DEF Structure, MapsAgree
    <3> QED
      BY <1>1, <3>1 DEF Structure, Unborn, Core
  <2> QED
    BY <2>1, <2>2
<1>5. coreHash \in [Core -> Hash \cup {None}] /\ coreHashToCore \in [Hash -> Core \cup {None}]
  BY DEF Structure, TypeOK
<1>6. CASE d = None
  <2>1. /\ Move(ms, c, c)
        /\ coreHash' = [coreHash EXCEPT ![c] = h]
        /\ coreHashToCore' = [coreHashToCore EXCEPT ![h] = c]
    BY <1>6 DEF setCoreHash
  <2> HIDE DEF c
  <2>2. Rehash(c)
    BY <1>1, <1>2, <1>5, <2>1 DEF Rehash
  <2>3. MoveStep(ms, c, c)
    BY <1>1, <1>3, <1>4, <2>1, <2>2 DEF MoveStep, MayMove
  <2>4. coreToMeasurement[c] \cup ms = Class(m) \cup {m} \cup {} /\ coreHash'[c] = h
    BY <1>1, <1>2, <1>5, <2>1
  <2> HIDE DEF ms
  <2> QED
    BY <1>1, <2>3, <2>4
<1>7. CASE d # None
  <2>1. Move(ms, c, d) /\ UNCHANGED <<coreHash, coreHashToCore>>
    BY <1>7 DEF setCoreHash
  <2>2. d \in Core /\ coreHash[d] = h /\ measurementToCore[d] # None
    BY <1>1, <1>7 DEF Structure, Registered, Unborn, Core
  <2> HIDE DEF c, d
  <2>3. MoveStep(ms, c, d)
    BY <1>1, <1>3, <1>4, <1>5, <2>1, <2>2 DEF MoveStep, MayMove, Rehash
  <2>4. coreToMeasurement[d] \in Ys
    <3>1. CASE coreToMeasurement[d] = {}
      BY <3>1
    <3>2. ASSUME NEW n \in coreToMeasurement[d]
          PROVE  coreToMeasurement[d] \in Ys
      <4>1. n \in Measurement /\ measurementToCore[n] = d
        BY <2>2 DEF Structure, TypeOK, MapsAgree
      <4>2. getCoreHash(n) = h /\ Class(n) = coreToMeasurement[d]
        BY <1>1, <2>2, <4>1 DEF getCoreHash, Class
      <4> QED
        BY <4>1, <4>2
    <3> QED
      BY <3>1, <3>2
  <2>5. coreToMeasurement[d] \cup ms = Class(m) \cup {m} \cup coreToMeasurement[d]
    BY <1>2
  <2>6. coreHash'[d] = h
    BY <2>1, <2>2
  <2> HIDE DEF ms, Ys
  <2>7. \E Y \in Ys : coreToMeasurement[d] \cup ms = Class(m) \cup {m} \cup Y
    BY <2>4, <2>5
  <2> QED
    BY <1>1, <2>2, <2>3, <2>6, <2>7 DEF Ys
<1> QED
  BY <1>6, <1>7

----------------------------------------------------------------------------
(* What the calls preserve.                                                *)

\* The maps stay in order whatever the callers say of the cores.
LEMMA EqualStructure ==
  ASSUME Structure, NEW a \in Measurement, NEW b \in Measurement, EqualStep(a, b)
  PROVE  Structure'
  BY StutterInv, EqualMoves, MoveStructure

LEMMA HashStructure ==
  ASSUME Structure, NEW m \in Measurement, NEW h \in Hash, getCoreHash(m) = None,
         setCoreHash(m, h)
  PROVE  Structure'
  BY HashMoves, MoveStructure

\* A class is of one core, and the hash known of it is its hash.
LEMMA ClassIsTrue ==
  ASSUME IInv, NEW m \in Measurement, NEW n \in Class(m)
  PROVE  TrueCore[n] = TrueCore[m]
<1>1. measurementToCore[m] \in Core /\ measurementToCore[m] # None /\ n \in Measurement
  BY DEF Class, IInv, Structure, TypeOK
<1>2. measurementToCore[n] = measurementToCore[m]
  BY <1>1 DEF Class, IInv, Structure, MapsAgree
<1> QED
  BY <1>1, <1>2 DEF IInv, KnowledgeIsTrue, areCoresEqual

\* What is known stays true if the callers tell the truth.
LEMMA EqualInv ==
  ASSUME IInv, NEW a \in Measurement, NEW b \in Measurement, TrueCore[a] = TrueCore[b],
         EqualStep(a, b)
  PROVE  IInv'
<1>1. CASE UNCHANGED vars
  BY <1>1, StutterInv DEF IInv
<1>2. CASE ~ UNCHANGED vars
  <2>1. PICK c \in Core, d \in Core, ms \in SUBSET Measurement :
           /\ MoveStep(ms, c, d)
           /\ coreToMeasurement[d] \cup ms = Class(a) \cup Class(b) \cup {a, b}
           /\ coreHash'[d] = IF getCoreHash(a) # None THEN getCoreHash(a) ELSE getCoreHash(b)
    BY <1>2, EqualMoves DEF IInv
  <2>2. \A m \in coreToMeasurement[d] \cup ms : TrueCore[m] = TrueCore[a]
    BY <2>1, ClassIsTrue
  <2>3. coreHash'[d] \in {None, TrueCore[a]}
    BY <2>1 DEF IInv, KnowledgeIsTrue
  <2>4. KnowledgeIsTrue'
    BY <2>1, <2>2, <2>3, MoveKnowledge
  <2> QED
    BY <2>4, EqualStructure DEF IInv
<1> QED
  BY <1>1, <1>2

LEMMA HashInv ==
  ASSUME IInv, NEW m \in Measurement, getCoreHash(m) = None, setCoreHash(m, TrueCore[m])
  PROVE  IInv'
<1>1. TrueCore[m] \in Hash
  BY HashAssumption
<1>2. PICK c \in Core, d \in Core, ms \in SUBSET Measurement,
           Y \in {{}} \cup {Class(n) : n \in {n \in Measurement : getCoreHash(n) = TrueCore[m]}} :
         /\ MoveStep(ms, c, d)
         /\ coreToMeasurement[d] \cup ms = Class(m) \cup {m} \cup Y
         /\ coreHash'[d] = TrueCore[m]
  BY <1>1, HashMoves DEF IInv
<1>3. \A n \in Measurement : getCoreHash(n) = TrueCore[m] => TrueCore[n] = TrueCore[m]
  BY <1>1, HashAssumption DEF IInv, KnowledgeIsTrue
<1>4. \A n \in Y : TrueCore[n] = TrueCore[m]
  BY <1>3, ClassIsTrue
<1>5. \A n \in coreToMeasurement[d] \cup ms : TrueCore[n] = TrueCore[m]
  BY <1>2, <1>4, ClassIsTrue
<1>6. KnowledgeIsTrue'
  BY <1>2, <1>5, MoveKnowledge
<1>7. Structure'
  BY <1>1, HashStructure DEF IInv
<1> QED
  BY <1>6, <1>7 DEF IInv

LEMMA NextInv == IInv /\ [Next]_vars => IInv'
<1> SUFFICES ASSUME IInv, [Next]_vars PROVE IInv'
  OBVIOUS
<1>1. ASSUME NEW a \in Measurement, NEW b \in Measurement,
             TrueCore[a] = TrueCore[b], setHaveEqualCores(a, b)
      PROVE  IInv'
  BY <1>1, EqualStepMade, EqualInv
<1>2. ASSUME NEW m \in Measurement, getCoreHash(m) = None, setCoreHash(m, TrueCore[m])
      PROVE  IInv'
  BY <1>2, HashInv
<1>3. CASE UNCHANGED vars
  BY <1>3, StutterInv DEF IInv
<1> QED
  BY <1>1, <1>2, <1>3 DEF Next

LEMMA Invariant == Spec => []IInv
  BY InitInv, NextInv, PTL DEF Spec

\* Every variable keeps its type.
THEOREM TypeCorrect == Spec => []TypeOK
<1>1. IInv => TypeOK
  BY DEF IInv, Structure
<1> QED
  BY <1>1, Invariant, PTL

\* The two maps of the repository agree, whatever was merged into what.
THEOREM RepositoryMapsAgree == Spec => []MapsAgree
<1>1. IInv => MapsAgree
  BY DEF IInv, Structure
<1> QED
  BY <1>1, Invariant, PTL

\* The repository never says a false thing about the cores of measurements.
THEOREM RepositoryIsRight == Spec => []KnowledgeIsTrue
<1>1. IInv => KnowledgeIsTrue
  BY DEF IInv
<1> QED
  BY <1>1, Invariant, PTL

----------------------------------------------------------------------------
(* The repository implements classes that only grow.                       *)

LEMMA ClassesInit == Init => Classes!Init
  BY DEF Init, Classes!Init, getCoreHash

\* A change of the repository makes one class with one hash.
LEMMA MoveBecomes ==
  ASSUME Structure, NEW c \in Core, NEW d \in Core, NEW ms \in SUBSET Measurement,
         MoveStep(ms, c, d),
         NEW X, X = coreToMeasurement[d] \cup ms, NEW h, h = coreHash'[d]
  PROVE  Classes!Become(X, h)
<1>1. \A m \in Measurement :
        /\ Class(m)' = IF m \in X THEN X ELSE Class(m)
        /\ getCoreHash(m)' = IF m \in X THEN h ELSE getCoreHash(m)
  BY MoveClasses
<1>2. [m \in Measurement |-> Class(m)'] = [m \in Measurement |-> IF m \in X THEN X ELSE Class(m)]
  BY <1>1
<1>3. [m \in Measurement |-> getCoreHash(m)']
        = [m \in Measurement |-> IF m \in X THEN h ELSE getCoreHash(m)]
  BY <1>1
<1> QED
  BY <1>2, <1>3 DEF Classes!Become, Class

LEMMA EqualImplements ==
  ASSUME Structure, NEW a \in Measurement, NEW b \in Measurement, EqualStep(a, b),
         ~ UNCHANGED vars
  PROVE  Classes!Equal(a, b)
<1>1. PICK c \in Core, d \in Core, ms \in SUBSET Measurement :
         /\ MoveStep(ms, c, d)
         /\ coreToMeasurement[d] \cup ms = Class(a) \cup Class(b) \cup {a, b}
         /\ coreHash'[d] = IF getCoreHash(a) # None THEN getCoreHash(a) ELSE getCoreHash(b)
         /\ None \notin {getCoreHash(a), getCoreHash(b)} => getCoreHash(a) = getCoreHash(b)
  BY EqualMoves
<1>2. PICK X, h : /\ X = Class(a) \cup Class(b) \cup {a, b}
                  /\ h = IF getCoreHash(a) # None THEN getCoreHash(a) ELSE getCoreHash(b)
  OBVIOUS
<1>3. MoveStep(ms, c, d) /\ X = coreToMeasurement[d] \cup ms /\ h = coreHash'[d]
  BY <1>1, <1>2
<1>4. Classes!Become(X, h)
  BY <1>3, MoveBecomes
<1>5. X = [m \in Measurement |-> Class(m)][a] \cup [m \in Measurement |-> Class(m)][b] \cup {a, b}
  BY <1>2
<1>6. h = IF [m \in Measurement |-> getCoreHash(m)][a] # None
          THEN [m \in Measurement |-> getCoreHash(m)][a]
          ELSE [m \in Measurement |-> getCoreHash(m)][b]
  BY <1>2
<1>7. None \notin {getCoreHash(a), getCoreHash(b)} => getCoreHash(a) = getCoreHash(b)
  BY <1>1
<1> QED
  BY <1>4, <1>5, <1>6, <1>7 DEF Classes!Equal, Classes!Become, Class

LEMMA HashImplements ==
  ASSUME Structure, NEW m \in Measurement, NEW h \in Hash, getCoreHash(m) = None,
         setCoreHash(m, h)
  PROVE  Classes!Labelled(m, h)
<1>1. PICK c \in Core, d \in Core, ms \in SUBSET Measurement,
           Y \in {{}} \cup {Class(n) : n \in {n \in Measurement : getCoreHash(n) = h}} :
         /\ MoveStep(ms, c, d)
         /\ coreToMeasurement[d] \cup ms = Class(m) \cup {m} \cup Y
         /\ coreHash'[d] = h
  BY HashMoves
<1> DEFINE X == Class(m) \cup {m} \cup Y
<1>2. X = coreToMeasurement[d] \cup ms /\ h = coreHash'[d]
  BY <1>1
<1> HIDE DEF X
<1>3. Classes!Become(X, h)
  BY <1>1, <1>2, MoveBecomes
<1>4. [n \in Measurement |-> getCoreHash(n)][m] = getCoreHash(m)
      /\ [n \in Measurement |-> Class(n)][m] = Class(m)
  OBVIOUS
<1>5. Y \in {{}} \cup {[o \in Measurement |-> Class(o)][n] :
                       n \in {n \in Measurement : [o \in Measurement |-> getCoreHash(o)][n] = h}}
  OBVIOUS
<1> QED
  BY <1>3, <1>4, <1>5 DEF Classes!Labelled, Class, X

\* What the repository does is what CoreClasses says the driver may learn: a
\* merge never loses a measurement of a class, and never the hash of one.
THEOREM RepositoryImplementsClasses == Spec => ImplementsClasses
<1>1. ASSUME IInv, [Next]_vars
      PROVE  [Classes!Next]_(Classes!vars)
  <2>1. CASE UNCHANGED vars
    BY <2>1 DEF vars, Classes!vars, getCoreHash
  <2>2. ASSUME NEW a \in Measurement, NEW b \in Measurement, setHaveEqualCores(a, b),
               ~ UNCHANGED vars
        PROVE  Classes!Next
    BY <1>1, <2>2, EqualStepMade, EqualImplements DEF IInv, Classes!Next
  <2>3. ASSUME NEW m \in Measurement, getCoreHash(m) = None, setCoreHash(m, TrueCore[m])
        PROVE  Classes!Next
    BY <1>1, <2>3, HashImplements, HashAssumption DEF IInv, Classes!Next
  <2> QED
    BY <1>1, <2>1, <2>2, <2>3 DEF Next
<1> QED
  BY <1>1, Invariant, ClassesInit, PTL DEF Spec, ImplementsClasses, Classes!Spec
============================================================================
