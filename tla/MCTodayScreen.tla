--------------------------- MODULE MCTodayScreen ---------------------------
(***************************************************************************)
(* Instances of TodayScreen for TLC.                                       *)
(***************************************************************************)
EXTENDS TodayScreen, TLC

Interchangeable == Permutations(Memories)
=============================================================================
