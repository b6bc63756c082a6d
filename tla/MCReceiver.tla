----------------------------- MODULE MCReceiver -----------------------------
(* Instances of Receiver for TLC.                                          *)
EXTENDS Receiver, TLC

CONSTANTS s1, s2, f1, e1, k1, k2, d1, d2, i1, i2, i3, i4

(* Two sessions that offer the same file: one .part name.                  *)
SharedKeyOf == f1 :> k1
SharedSize == f1 :> 2
SharedOffers == s1 :> {f1} @@ s2 :> {f1}

(* One session that offers a file of two blocks and an empty one.          *)
BatchKeyOf == f1 :> k1 @@ e1 :> k2
BatchSize == f1 :> 2 @@ e1 :> 0
BatchOffers == s1 :> {f1, e1}

InodeSymmetry == Permutations(Inode)

(* Two sessions that offer the same file are interchangeable as well.      *)
SharedSymmetry == Permutations(Inode) \cup Permutations(Session)
=============================================================================
