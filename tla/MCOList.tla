------------------------------ MODULE MCOList -------------------------------
(* Instances of OList for TLC. *)
EXTENDS OList

CONSTANTS a1, a2, a3, a4, x, y

MCAddr == {a1, a2, a3, a4}
MCValue == {x, y}
=============================================================================
