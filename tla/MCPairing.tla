----------------------------- MODULE MCPairing -----------------------------
(* Instances of Pairing for TLC.                                           *)
EXTENDS Pairing, TLC

CONSTANTS r1, r2, r3, r4, r5

RunSymmetry == Permutations(Run)
=============================================================================
