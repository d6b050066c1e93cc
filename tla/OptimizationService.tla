------------------------- MODULE OptimizationService -------------------------
(***************************************************************************)
(* The search for the parameters with which a kernel performs best: all    *)
(* points of the parameter space are measured or, if it must be fast, five *)
(* points and what can be reached from them. The result is cached; the key *)
(* tells the comparison, but not how the search was done. A measurement    *)
(* gives the same result whenever it is repeated.                          *)
(***************************************************************************)
EXTENDS Integers, Sequences, FiniteSets, SequencesExt

CONSTANTS
  Space,              \* the parameter spaces, which give each axis its distinct values in order
  Quantity,           \* what may be measured
  None                \* no optimum is stored

VARIABLES
  space,
  measured,           \* what is measured at each point
  comparison,
  optimum,            \* the optimization cache, for this key; what optimize() returned last
  fast                \* optimize.fast, as it was when optimize() was called last

vars == <<space, measured, comparison, optimum, fast>>

StartPoints == 5

AllPoints == {p \in [DOMAIN space -> UNION {Range(space[axis]) : axis \in DOMAIN space}] :
                \A axis \in DOMAIN space : p[axis] \in Range(space[axis])}

BetterThan(p, q) ==
  IF comparison = "lessThan" THEN measured[p] < measured[q] ELSE measured[p] > measured[q]

\* Which of several equal points is found depends on the order of the axes.
Best(points) == {p \in points : \A q \in points : ~BetterThan(q, p)}

\* The next and the previous value of an axis; the last is followed by the first.
Moved(p, axis, by) ==
  LET values == space[axis]
      i == CHOOSE j \in DOMAIN values : values[j] = p[axis]
  IN  [p EXCEPT ![axis] = values[((i - 1 + by) % Len(values)) + 1]]

GetNeighbors(p) == {Moved(p, axis, by) : axis \in DOMAIN space, by \in {-1, 1}}

Init ==
  /\ space \in Space /\ comparison \in {"lessThan", "moreThan"}
  /\ measured \in [AllPoints -> Quantity]
  /\ optimum = None /\ fast = TRUE

\* Mutant: the search moves to the best neighbor, better or not.
StepAnyway(p) == Best(GetNeighbors(p))

\* The search goes to the best neighbor if that is better, and ends otherwise.
Step(p) == LET best == Best(GetNeighbors(p))
           IN  IF \E q \in best : BetterThan(q, p) THEN best ELSE {p}

\* maxSteps is 2: where two steps may lead.
Climb(p) == UNION {Step(q) : q \in Step(p)}

OptimizeFull == Best(AllPoints)

Starts == IF Cardinality(AllPoints) < StartPoints THEN Cardinality(AllPoints) ELSE StartPoints

\* The points are shuffled and any five may be the first: a point that is
\* reached is found if nothing better is reached from it and four others.
OptimizeFast ==
  {p \in UNION {Climb(s) : s \in AllPoints} :
     Cardinality({s \in AllPoints : \E q \in Climb(s) : ~BetterThan(q, p)}) >= Starts}

\* A stored optimum is returned unless reoptimizing, however it was found. If
\* the measurement of a point throws, nothing is stored.
Optimize(reoptimize) ==
  /\ fast' \in BOOLEAN
  /\ IF optimum = None \/ reoptimize
     THEN optimum' \in IF fast' THEN OptimizeFast ELSE OptimizeFull
     ELSE UNCHANGED optimum
  /\ UNCHANGED <<space, measured, comparison>>

Next == \E reoptimize \in BOOLEAN : Optimize(reoptimize)

Spec == Init /\ [][Next]_vars

----------------------------------------------------------------------------

\* Whichever search found it and however its climbs went, what is returned is a
\* point of the space, and no better point was passed by: there are five points
\* (all, if there are less) such that it is as good as they and all around them.
NothingTriedIsBetter ==
  optimum # None =>
    /\ optimum \in AllPoints
    /\ Cardinality({s \in AllPoints :
         \A p \in GetNeighbors(s) \cup {s} : ~BetterThan(p, optimum)}) >= Starts

=============================================================================
