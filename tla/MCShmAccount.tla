---------------------------- MODULE MCShmAccount ----------------------------
(* Instances of ShmAccount for TLC. *)
EXTENDS ShmAccount, TLC

CONSTANTS p1, p2, p3

TwoProcs == {p1, p2}
ThreeProcs == {p1, p2, p3}
Amounts == {-1, 1, 2}
Symmetry == Permutations({p1, p2, p3})
=============================================================================
