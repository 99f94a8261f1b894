---------------------------- MODULE MCSocketClient ----------------------------
(* Instances of SocketClient for TLC. *)
EXTENDS SocketClient, TLC

CONSTANTS h1, h2

ConnectionSymmetry == Permutations(Connections)
=============================================================================
