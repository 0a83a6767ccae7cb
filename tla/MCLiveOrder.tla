---------------------------- MODULE MCLiveOrder ----------------------------
(* LiveOrder for TLC. *)
EXTENDS LiveOrder, TLC

Symmetry == Permutations(EventIds) \cup Permutations(Trades)
=============================================================================
