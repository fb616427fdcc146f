-------------------------- MODULE MCSharedControls --------------------------
(* A repeat button of three states with the lamp and the wide button beside it,   *)
(* and a stepper with a light, a toggle that writes 0 and a button without        *)
(* cfgvals.                                                                      *)
EXTENDS SharedControls, TLC

CONSTANTS button, lamp, wide, light, dark, plain, more, less, repeat, fade

Keys == [w \in Control \cup Stepper |-> IF w \in {light, dark, plain, more, less} THEN fade ELSE repeat]
Lit == (lamp :> 1) @@ (light :> 0) @@ (dark :> 0)
On == (lamp :> 2) @@ (light :> 1) @@ (dark :> 0)
Values == (button :> <<0, 1, -1>>) @@ (wide :> <<-1, 2, 0>>) @@ (plain :> <<>>)
Counts == [w \in States |-> IF w = plain THEN 2 ELSE 3]
Steps == (more :> [delta |-> 1, low |-> 0, high |-> 3])
         @@ (less :> [delta |-> -1, low |-> 0, high |-> 3])
=============================================================================
