---------------------------- MODULE MCCaptioning ----------------------------
(***************************************************************************)
(* Instances of Captioning for TLC.                                        *)
(***************************************************************************)
EXTENDS Captioning, TLC

Interchangeable == Permutations(Photos) \cup Permutations(Pages)
=============================================================================
