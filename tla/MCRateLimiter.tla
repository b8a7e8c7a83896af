---------------------------- MODULE MCRateLimiter ----------------------------
(***************************************************************************)
(* Small instances of RateLimiter.                                         *)
(***************************************************************************)
EXTENDS RateLimiter, TLC

CONSTANTS t1, t2, t3    \* threads

mcSymmetry == Permutations({t1, t2, t3})
=============================================================================
