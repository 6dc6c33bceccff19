---------------------------- MODULE MCQueryGets ----------------------------
(***************************************************************************)
(* Instances of QueryGets for TLC.                                         *)
(***************************************************************************)
EXTENDS QueryGets
=============================================================================
