---------------------------- MODULE MCRoundStore ----------------------------
(* Instances of RoundStore for TLC. *)
EXTENDS RoundStore, TLC

RequestSymmetry == Permutations(Requests)
=============================================================================
