------------------------------- MODULE MCDict -------------------------------
(* Instances of Dict for TLC. *)
EXTENDS Dict, TLC

CONSTANTS c1, c2, n1, p1, w1, x

TwoClients == {c1, c2}
OneName == {n1}
OnePasswd == {p1}
Words == {w1, x}
DictWords == {w1}
Symmetry == Permutations(TwoClients)
=============================================================================
