--------------------------- MODULE MCReviewConsole ---------------------------
(***************************************************************************)
(* Small instances of ReviewConsole.                                       *)
(***************************************************************************)
EXTENDS ReviewConsole, TLC

CONSTANTS s1, s2, v1, v2, v3    \* sessions, review ids

mcSymmetry == Permutations({s1, s2}) \cup Permutations({v1, v2, v3})
=============================================================================
