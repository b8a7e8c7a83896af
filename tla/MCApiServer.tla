----------------------------- MODULE MCApiServer -----------------------------
(***************************************************************************)
(* Small instances of ApiServer.                                           *)
(***************************************************************************)
EXTENDS ApiServer

CONSTANTS r1, r2, id1       \* requests, and the correlation id both carry
=============================================================================
