----------------------------- MODULE MC_Delivery -----------------------------
(* Small instances of Delivery for TLC. *)
EXTENDS Delivery, TLC

Symmetry == Permutations(Deliveries) \union Permutations(Retriers)
=============================================================================
