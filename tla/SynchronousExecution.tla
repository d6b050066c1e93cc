----------------------- MODULE SynchronousExecution -----------------------
(***************************************************************************)
(* What ActionBase::execute() promises its caller, whatever thread the     *)
(* action runs in: the caller makes one call at a time and goes on when    *)
(* the action has run, which it does once and completely, with every call  *)
(* that the action makes itself.                                           *)
(***************************************************************************)
CONSTANTS
  Call,    \* the calls of execute()
  Caller   \* the call or thread whose code makes each of them

VARIABLE phase

Init == phase = [c \in Call |-> "idle"]

Outstanding(d) == phase[d] \notin {"idle", "returned"}

\* The caller reaches the call; the action may start in the same step.
Invoke(c) ==
  /\ phase[c] = "idle"
  /\ Caller[c] \in Call => phase[Caller[c]] = "running"
  /\ \A d \in Call \ {c} : Caller[d] = Caller[c] => ~Outstanding(d)
  /\ \E p \in {"called", "running"} : phase' = [phase EXCEPT ![c] = p]

Run(c) == phase[c] = "called" /\ phase' = [phase EXCEPT ![c] = "running"]

Finish(c) ==
  /\ phase[c] = "running"
  /\ \A d \in Call : Caller[d] = c => phase[d] = "returned"
  /\ phase' = [phase EXCEPT ![c] = "ran"]

Return(c) == phase[c] = "ran" /\ phase' = [phase EXCEPT ![c] = "returned"]

Next == \E c \in Call : Invoke(c) \/ Run(c) \/ Finish(c) \/ Return(c)

Spec == Init /\ [][Next]_phase
============================================================================
