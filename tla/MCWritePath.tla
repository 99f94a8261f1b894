----------------------------- MODULE MCWritePath -----------------------------
(* WritePath on a small instance; the constants are given by the .cfg files. *)
EXTENDS WritePath, TLC

\* Senders are interchangeable.
SenderSymmetry == Permutations(Senders)
=============================================================================
