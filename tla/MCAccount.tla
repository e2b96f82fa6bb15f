----------------------------- MODULE MCAccount ------------------------------
(* Instances of Account for TLC. *)
EXTENDS Account, TLC

CONSTANTS t1, t2, t3

TwoThreads == {t1, t2}
ThreeThreads == {t1, t2, t3}
Amounts == {-1, 1, 2}
Symmetry == Permutations({t1, t2, t3})
=============================================================================
