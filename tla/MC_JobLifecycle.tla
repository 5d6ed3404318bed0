--------------------------- MODULE MC_JobLifecycle ---------------------------
(* Small instances of JobLifecycle for TLC. *)
EXTENDS JobLifecycle, TLC

Symmetry == Permutations(Keys) \union Permutations(Clients)
=============================================================================
