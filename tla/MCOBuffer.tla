----------------------------- MODULE MCOBuffer ------------------------------
(* Instances of OBuffer for TLC. *)
EXTENDS OBuffer

CONSTANTS h, t, x

MCByte == {h, t, x}
MCHead == <<h>>
MCTail == <<t>>

\* A negative size gives the default one; 0 and 2 are taken as they are.
AnySize == {-1, 0, 2}
Positive == {2, 3}

Careful == {"frames", "bytes"}
Careless == {"careless"}
=============================================================================
