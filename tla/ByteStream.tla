----------------------------- MODULE ByteStream -----------------------------
(***************************************************************************)
(* What a buffered stream promises: bytes arrive in the order in which     *)
(* they were sent, none is lost, and the end is told only when all have    *)
(* arrived.  From the file to the caller if the stream is read, from the   *)
(* caller to the file if it is written.                                    *)
(*                                                                         *)
(* Break says where the promise ends: after it everything may happen.      *)
(***************************************************************************)
EXTENDS Sequences, SequencesExt

CONSTANT Byte

VARIABLES sent, arrived, ended, broken

vars == <<sent, arrived, ended, broken>>

Init == sent \in Seq(Byte) /\ arrived = <<>> /\ ended = FALSE /\ broken = FALSE

Send ==
    /\ ~ended
    /\ sent' \in {Append(sent, b) : b \in Byte}
    /\ UNCHANGED <<arrived, ended, broken>>

\* One or more bytes arrive, perhaps together with one that is sent.
Deliver ==
    /\ sent' \in {sent} \cup {Append(sent, b) : b \in Byte}
    /\ IsPrefix(arrived, arrived') /\ IsPrefix(arrived', sent)
    /\ UNCHANGED <<ended, broken>>

End ==
    /\ ended' = TRUE
    /\ arrived' = sent
    /\ UNCHANGED <<sent, broken>>

Break == broken' = TRUE

Next == Send \/ Deliver \/ End \/ Break

Spec == Init /\ [][Next]_vars
=============================================================================
