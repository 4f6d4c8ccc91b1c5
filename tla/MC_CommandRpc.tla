-------------------------- MODULE MC_CommandRpc --------------------------
(***************************************************************************)
(* CommandRpc for TLC.  Workers and calls are interchangeable, so the      *)
(* safety run uses both as symmetry sets; the liveness run uses none.      *)
(***************************************************************************)
EXTENDS CommandRpc, TLC

Interchangeable == Permutations(Workers) \cup Permutations(Requests)
=============================================================================
