--------------------------- MODULE MCScriptEvents ---------------------------
(* Two windows, with a script each, the second one's referenced twice, or with    *)
(* three scripts.  The host pauses in both ways: as the pump reads it, and as     *)
(* SkinRuntime.h says.                                                           *)
EXTENDS ScriptEvents, Integers, TLC

CONSTANTS r1, r2, s1, s2, s3, i1, i2, n1, v0, v1

TwoWindows == (r1 :> <<s1>>) @@ (r2 :> <<s2, s2>>)
ThreeScripts == (r1 :> <<s1>>) @@ (r2 :> <<s2, s3>>)
BothPauses == {0, 3, -1}
OneSetting == {<<i1, n1>>}
DefaultV0 == [k \in OneSetting |-> v0]

(* No guard and no property but OwnParam asks which script is current.            *)
ButCurrent == <<live, table, frames, configVars, pumpVars>>
=============================================================================
