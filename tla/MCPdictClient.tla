----------------------------- MODULE MCPdictClient -----------------------------
(* Instances of PdictClient for TLC. *)
EXTENDS PdictClient, TLC

CallerSymmetry == Permutations(Callers)
BothSymmetry == Permutations(Callers) \cup Permutations(Owners)
=============================================================================
