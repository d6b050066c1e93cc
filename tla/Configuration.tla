---------------------------- MODULE Configuration ----------------------------
(***************************************************************************)
(* The configuration of the driver. Measurement controllers push(), change *)
(* keys for their own measurements, and pop(). Only what is overwritten is *)
(* saved, and only the first time after a push.                            *)
(***************************************************************************)
EXTENDS Naturals, Sequences, SequencesExt

CONSTANTS
  Key, Value,
  Unset,              \* the object that stands for "there was no value"
  MaxPushes           \* bounds the stack

VARIABLES
  data,               \* Unset for a key that is not in the map
  oldValuesStack,     \* maps from the keys saved to their old values, the last pushed one last
  pushed              \* what the configuration was at each push(); no part of the code

vars == <<data, oldValuesStack, pushed>>

Init ==
  /\ data = [key \in Key |-> Unset]
  /\ oldValuesStack = <<>> /\ pushed = <<>>

\* Mutant: the old value is always saved.
SavedAgain(oldValues, key) ==
  [k \in DOMAIN oldValues \cup {key} |-> IF k # key THEN oldValues[k] ELSE data[k]]

\* An old value that was saved before is kept.
Saved(oldValues, key) ==
  [k \in DOMAIN oldValues \cup {key} |-> IF k \in DOMAIN oldValues THEN oldValues[k] ELSE data[k]]

SetUntyped(key, value) ==
  /\ data' = [data EXCEPT ![key] = value]
  /\ oldValuesStack' = IF oldValuesStack = <<>> THEN <<>>
                       ELSE [oldValuesStack EXCEPT ![Len(oldValuesStack)] = Saved(@, key)]
  /\ UNCHANGED pushed

Push ==
  /\ Len(oldValuesStack) < MaxPushes
  /\ oldValuesStack' = Append(oldValuesStack, [k \in {} |-> Unset])
  /\ pushed' = Append(pushed, data)
  /\ UNCHANGED data

\* With an empty stack pop() throws.
Pop ==
  /\ oldValuesStack # <<>>
  /\ LET oldValues == Last(oldValuesStack)
     IN  data' = [k \in Key |-> IF k \in DOMAIN oldValues THEN oldValues[k] ELSE data[k]]
  /\ oldValuesStack' = Front(oldValuesStack)
  /\ pushed' = Front(pushed)

Next ==
  \/ \E key \in Key, value \in Value : SetUntyped(key, value)
  \/ Push
  \/ Pop

Spec == Init /\ [][Next]_vars

----------------------------------------------------------------------------

\* A pop() gives every key the value it had at the push() it belongs to, also
\* that of none, however often it was set, and pushed, set and popped, in between.
PopRestores == [][Len(oldValuesStack') < Len(oldValuesStack) => data' = Last(pushed)]_vars
=============================================================================
