-------------------------- MODULE MCResetMemories --------------------------
(***************************************************************************)
(* Instances of ResetMemories for TLC.                                     *)
(***************************************************************************)
EXTENDS ResetMemories, TLC

Interchangeable == Permutations(Memories) \cup Permutations(Ticks)
=============================================================================
