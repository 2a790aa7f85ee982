---------------------------- MODULE MCAccountBot ----------------------------
(* AccountBot for TLC. *)
EXTENDS AccountBot, TLC

Symmetry == Permutations(Msg) \cup Permutations(Task)
=============================================================================
