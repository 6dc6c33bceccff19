--------------------------- MODULE MCChangeMemory ---------------------------
(***************************************************************************)
(* Instances of ChangeMemory for TLC.  Memories and ticks are model values *)
(* that no definition tells apart, so the safety runs identify states up   *)
(* to a permutation of either.                                             *)
(***************************************************************************)
EXTENDS ChangeMemory, TLC

Interchangeable == Permutations(Memories) \cup Permutations(Ticks)
=============================================================================
