------------------------- MODULE MCTransitionEndpoint -------------------------
(***************************************************************************)
(* Small instances of TransitionEndpoint.                                  *)
(***************************************************************************)
EXTENDS TransitionEndpoint, TLC

CONSTANTS t1, t2, t3,   \* threads
          r1,           \* a review
          k1, k2        \* idempotency keys
=============================================================================
