--------------------------- MODULE MCTargetTweens ---------------------------
(* Instances of TargetTweens for TLC.                                            *)
EXTENDS TargetTweens

CONSTANTS player, sub1
=============================================================================
