---------------------------- MODULE MCOMainLoop -----------------------------
(* Instances of OMainLoop for TLC. *)
EXTENDS OMainLoop, TLC

CONSTANTS c1, c2

TwoOrNull == {c1, c2, NULL}
OneCallback == {c1}

\* No definition and no property names a particular callback.
Symmetry == Permutations({c1, c2})

MasksIn == {{"IN"}}
MasksInOut == {{"IN"}, {"OUT"}}
AllTypes == {"RUN_AT", "RUN_AFTER", "RUN_EVERY"}
AfterOnly == {"RUN_AFTER"}
AtOnly == {"RUN_AT"}
EventsIn == {"IN"}
EventsInHup == {"IN", "HUP"}
=============================================================================
