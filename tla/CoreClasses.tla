---------------------------- MODULE CoreClasses ----------------------------
(***************************************************************************)
(* What the driver may learn about the measuring cores of measurements:    *)
(* classes of measurements with equal cores, which only ever grow, and the *)
(* hash of the core of a class, which once known stays.                    *)
(***************************************************************************)
CONSTANTS Measurement, Hash, None

VARIABLES
  class,   \* the class of each measurement, empty if nothing is known of it
  hash     \* the hash of its core, or None

vars == <<class, hash>>

Init ==
  /\ class = [m \in Measurement |-> {}]
  /\ hash = [m \in Measurement |-> None]

Become(X, h) ==
  /\ class' = [m \in Measurement |-> IF m \in X THEN X ELSE class[m]]
  /\ hash' = [m \in Measurement |-> IF m \in X THEN h ELSE hash[m]]

\* The cores of two measurements are equal: their classes become one.
Equal(a, b) ==
  /\ None \notin {hash[a], hash[b]} => hash[a] = hash[b]
  /\ Become(class[a] \cup class[b] \cup {a, b}, IF hash[a] # None THEN hash[a] ELSE hash[b])

\* The hash of a core: the class gets it, and may join one that has it.
Labelled(m, h) ==
  /\ hash[m] = None
  /\ \E Y \in {{}} \cup {class[n] : n \in {n \in Measurement : hash[n] = h}} :
       Become(class[m] \cup {m} \cup Y, h)

Next ==
  \/ \E a, b \in Measurement : Equal(a, b)
  \/ \E m \in Measurement, h \in Hash : Labelled(m, h)

Spec == Init /\ [][Next]_vars
============================================================================
