--------------------------- MODULE MCScriptRoots ---------------------------
(* An instance of ScriptRoots for TLC.                                             *)
EXTENDS ScriptRoots

CONSTANTS player, sub1
=============================================================================
