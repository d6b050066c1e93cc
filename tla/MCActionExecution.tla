------------------------- MODULE MCActionExecution -------------------------
(* Scenarios of ActionExecution for TLC.                                   *)
EXTENDS ActionExecution, TLC

CONSTANTS m, w, u, c1, c2, c3, c4

\* The main thread executes c1 in the thread of workload w, which executes c2
\* in thread u; the action of c2 executes c3 in w, and u executes c4 in w.
NestedTo == c1 :> w @@ c2 :> u @@ c3 :> w @@ c4 :> w
NestedProgram == m :> <<c1>> @@ w :> <<c2>> @@ u :> <<c4>>
NestedCalls == c1 :> <<>> @@ c2 :> <<c3>> @@ c3 :> <<>> @@ c4 :> <<>>
============================================================================
