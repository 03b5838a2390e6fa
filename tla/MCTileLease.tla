---------------------------- MODULE MCTileLease ----------------------------
(* TileLease for TLC; the .cfg files give the sets and the bounds. *)
EXTENDS TileLease, TLC
Symmetry == Permutations(Handlers) \cup Permutations(Workers) \cup Permutations(Plottable)
=============================================================================
