------------------------------- MODULE MCFeeds -------------------------------
(* Instances of Feeds for TLC. *)
EXTENDS Feeds, TLC

SlotSymmetry == Permutations(Slots)
=============================================================================
