-------------------------- MODULE MCParentProcess --------------------------
(* Instances of ParentProcess for TLC.                                     *)
EXTENDS ParentProcess, TLC

\* The threads other than the main thread are interchangeable.
Symmetry == Permutations(Tid \ {mainChild})
============================================================================
