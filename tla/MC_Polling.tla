----------------------------- MODULE MC_Polling -----------------------------
(* Small instances of Polling for TLC. *)
EXTENDS Polling, TLC

Symmetry == Permutations(Keys) \union Permutations(Polls) \union Permutations(Workers)
=============================================================================
