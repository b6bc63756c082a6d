---------------------------- MODULE MCReception ----------------------------
(* An instance of Reception for TLC: two requests, the transfer of one of  *)
(* them followed into the history.                                         *)
EXTENDS Reception

CONSTANTS r1, r2, t1
=============================================================================
