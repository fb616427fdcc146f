-------------------------- MODULE MCPointerRouting --------------------------
(* A window of 8 by 8 with a slider, a list that reaches into the lower margin    *)
(* and a button in the upper right corner.                                        *)
EXTENDS PointerRouting

CONSTANTS volume, playlist, close

Rect(l, t, width, height) == [x |-> l, y |-> t, w |-> width, h |-> height]
Places == [w \in Widget |-> CASE w = volume -> Rect(3, 3, 3, 1)
                              [] w = playlist -> Rect(3, 5, 2, 3)
                              [] w = close -> Rect(7, 0, 1, 1)]
Toplevel == Rect(2, 2, 8, 8)
Spots == {<<5, 5>>, <<5, 8>>, <<5, 9>>, <<9, 2>>, <<2, 6>>, <<9, 9>>}
Screens == 1 .. 9
Turns == {-1, 3}
LeastWidth == [s \in Surface |-> IF s = "player" THEN 7 ELSE 6]
LeastHeight == [s \in Surface |-> IF s = "player" THEN 6 ELSE 7]
=============================================================================
