-------------------------- MODULE MCPairedDevices --------------------------
(* Instances of PairedDevices for TLC.                                     *)
EXTENDS PairedDevices, TLC

CONSTANTS h1, h2, c1, c2

Symmetry == Permutations(Host) \cup Permutations(Command)
=============================================================================
