------------------------------ MODULE MCMStdio ------------------------------
(* An instance of MStdio for TLC. *)
EXTENDS MStdio

CONSTANTS a, b, nl, ff

Bytes == {a, b, nl, ff}

\* Empty, shorter than the buffer, as long, longer, and with the byte 0xFF.
Contents == {<<>>, <<a>>, <<b, nl>>, <<a, b, nl, a, b>>, <<a, ff, b>>}
Texts == {<<nl>>, <<a, nl, b>>, <<b, a, nl>>}
=============================================================================
