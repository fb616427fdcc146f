---------------------------- MODULE MCMakiTimers ----------------------------
(* An instance of MakiTimers for TLC.                                              *)
EXTENDS MakiTimers

CONSTANTS player, sub1, t1
=============================================================================
