----------------------------- MODULE MCLiveClient -----------------------------
(* Instances of LiveClient for TLC. *)
EXTENDS LiveClient, TLC

PlayerSymmetry == Permutations(Players)
=============================================================================
