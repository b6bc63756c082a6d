------------------------------ MODULE MCSender ------------------------------
(* Instances of Sender for TLC.                                            *)
EXTENDS Sender, TLC

CONSTANTS f1, f2, e1

(* A file of three blocks, an empty file and a file of one block, sent in  *)
(* chunks of two blocks.                                                   *)
ThreeFiles == <<f1, e1, f2>>
ThreeSizes == f1 :> 3 @@ e1 :> 0 @@ f2 :> 1
=============================================================================
