-------------------------- MODULE MCThemedBitmaps --------------------------
(* A skin with a theme of its own, whose panel has a strip cut out, and a closed  *)
(* skin without one that tags nothing and declares the icon a plugin registers.   *)
EXTENDS ThemedBitmaps, TLC

CONSTANTS panel, strip, icon, backgrounds, body, led, themed, closed,
          night, classic, custom, dark, bright

Roles == [i \in Id |-> IF i = panel THEN backgrounds ELSE led]
Tint(x, y) == [g \in Group |-> CASE g = backgrounds -> x [] g = led -> y [] OTHER -> Plain]
Styles == [t \in Synthetic |-> [g \in Group |-> IF g = led THEN bright ELSE dark]]
Documents ==
    (themed :> [group   |-> (panel :> backgrounds) @@ (strip :> NoGroup) @@ (icon :> Undeclared),
                broken  |-> {},
                sets    |-> [t \in Theme |-> IF t = night
                                THEN [tint |-> Tint(dark, bright), all |-> Plain] ELSE NoSet],
                default |-> night,
                cutouts |-> (panel :> {strip}) @@ (strip :> {}) @@ (icon :> {})])
 @@ (closed :> [group   |-> (panel :> NoGroup) @@ (strip :> Undeclared) @@ (icon :> NoGroup),
                broken  |-> {icon},
                sets    |-> [t \in Theme |-> NoSet],
                default |-> NoTheme,
                cutouts |-> (panel :> {icon}) @@ (strip :> {}) @@ (icon :> {})])
Bitmaps == [f \in Font |-> strip]
=============================================================================
