-------------------------- MODULE MCHistoryScreen --------------------------
(***************************************************************************)
(* Instances of HistoryScreen for TLC.                                     *)
(***************************************************************************)
EXTENDS HistoryScreen, TLC

Interchangeable == Permutations(Memories)
=============================================================================
