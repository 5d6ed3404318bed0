---------------------------- MODULE MC_Pipeline ----------------------------
(* Small instances of Pipeline for TLC. *)
EXTENDS Pipeline, TLC

=============================================================================
