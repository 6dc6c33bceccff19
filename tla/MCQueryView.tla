---------------------------- MODULE MCQueryView ----------------------------
(***************************************************************************)
(* Instances of QueryView for TLC.                                         *)
(***************************************************************************)
EXTENDS QueryView
=============================================================================
