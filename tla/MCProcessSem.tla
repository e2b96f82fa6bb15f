---------------------------- MODULE MCProcessSem ----------------------------
(* Instances of ProcessSem for TLC. *)
EXTENDS ProcessSem, TLC

CONSTANTS p1, p2, p3

TwoProcs == {p1, p2}
ThreeProcs == {p1, p2, p3}
OpenOnce == {p1}
\* The processes that inherit the set are interchangeable.
Symmetry == Permutations({p2, p3})
OneSem == {0}
TwoSems == {0, 1}
=============================================================================
