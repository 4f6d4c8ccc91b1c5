------------------------- MODULE MC_HaWriteBridge -------------------------
(***************************************************************************)
(* HaWriteBridge for TLC: up to four writes, told apart by nothing.        *)
(***************************************************************************)
EXTENDS HaWriteBridge, TLC

CONSTANTS a, b, c, d

Interchangeable == Permutations(Writes)
=============================================================================
