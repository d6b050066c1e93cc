------------------------- MODULE MeasurerLifeCycle -------------------------
(***************************************************************************)
(* What a measurer may rely on: it is initialized before it is started,    *)
(* started and stopped in turn, read once and only when it is stopped, and *)
(* not used after it was disposed. Each run works on a clone of its own.   *)
(* A performance counter that is used in another way fails or, worse,      *)
(* counts something else.                                                  *)
(***************************************************************************)
VARIABLES
  state,
  odd     \* whether it was called an odd number of times

Init == state = "disposed" /\ odd = FALSE

Call(from, to) == state \in from /\ state' = to /\ odd' = ~ odd

Clone == Call({"disposed", "read"}, "new")
Initialize == Call({"new"}, "ready")
Start == Call({"ready", "stopped"}, "started")
Stop == Call({"started"}, "stopped")
Read == Call({"stopped"}, "read")
Dispose == Call({"read"}, "disposed")

Next == Clone \/ Initialize \/ Start \/ Stop \/ Read \/ Dispose

Spec == Init /\ [][Next]_<<state, odd>>
============================================================================
