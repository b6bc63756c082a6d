----------------------------- MODULE MCTransfer -----------------------------
(* Instances of Transfer for TLC.                                          *)
EXTENDS Transfer, TLC

CONSTANTS s1, s2, s3, f1, e1, k1, k2, d1, d2, i1, i2, i3, i4

(* One file of two blocks, alone or followed by an empty file.             *)
OneFile == <<f1>>
TwoFiles == <<f1, e1>>
FileSize == [f \in File |-> IF f = f1 THEN 2 ELSE 0]
FileKey == [f \in File |-> IF f = f1 THEN k1 ELSE k2]
OfferOne == [s \in Session |-> {f1}]
OfferTwo == [s \in Session |-> {f1, e1}]

OneAttempt == <<s1>>
TwoAttempts == <<s1, s2>>
ThreeAttempts == <<s1, s2, s3>>

InodeSymmetry == Permutations(Inode)
=============================================================================
