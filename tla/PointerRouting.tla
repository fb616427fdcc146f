--------------------------- MODULE PointerRouting ---------------------------
(* The pointer on a surface (the mouse and hover handlers of SkinQuickItem.cpp   *)
(* and SkinView.cpp, Slider.cpp): which widget has the press, which is hovered,  *)
(* and the window moves and resizes that a press on bare chrome begins.          *)
(* A widget is taken with the load of the skin whose tree it belongs to.         *)
EXTENDS Integers

CONSTANTS Slider, Holder, Button,
          Place,        \* widget -> its rectangle, in layout units
          Half,         \* half the length of a slider's thumb
          WindowRect,   \* where the window is at first
          Spot,         \* points of the screen the pointer is moved to
          Screen,       \* bound: window positions and sizes
          EM, CM,       \* edge and corner margins
          MINW, MINH,   \* surface -> least size of a manual resize
          Notch,        \* 120
          Turn,         \* wheel deltas
          MaxLoads,     \* bound: loads of a skin
          Nobody, Unset

Widget == Slider \cup Holder \cup Button
Surface == {"player", "view"}
Side == {"left", "right", "top", "bottom"}
Rectangle == [x : Screen, y : Screen, w : Screen, h : Screen]

Travel(s) == IF Place[s].w > 2 * Half THEN Place[s].w - 2 * Half ELSE 1

ASSUME PointerAssumption ==
    /\ Slider \cap (Holder \cup Button) = {}
    /\ Holder \cap Button = {}
    /\ Place \in [Widget -> [x : Nat, y : Nat, w : Nat \ {0}, h : Nat \ {0}]]
    /\ Half \in Nat /\ EM \in Nat /\ CM \in Nat
    /\ Notch \in Nat \ {0}
    /\ Screen \subseteq Int /\ Turn \subseteq Int
    /\ Spot \subseteq Int \X Int
    /\ WindowRect \in Rectangle
    /\ MINW \in [Surface -> Nat] /\ MINH \in [Surface -> Nat]
    /\ MaxLoads \in Nat
    /\ Unset \notin Int
    /\ Nobody \notin Widget \X Nat

VARIABLES surface,      \* which of the two this is
          mouse,        \* the pointer, in global coordinates
          held,         \* the buttons down, as far as Qt tells the surface
          geom,         \* the toplevel's geometry
          loads,        \* loads of a skin: the number of its tree
          activeWidget, \* m_activeWidget
          hover,        \* m_hoverWidget
          lit,          \* m_hover of the widgets of the tree
          sliding,      \* m_dragging of its sliders
          localPos,     \* their m_localPos
          host,         \* the positions the host has
          dragging,     \* m_dragging of the surface
          edges,        \* m_resizeEdges
          grip,         \* the global cursor and the geometry at the press of one
                        \* or the other; kept no longer than they are read
          accum,        \* m_wheelAccumY
          owed          \* history: turned over a list and not scrolled yet

controls == <<lit, sliding, localPos>>
manual == <<dragging, edges, grip>>
wheel == <<accum, owed>>
pointerVars == <<surface, mouse, held, geom, loads, activeWidget, hover, controls, host, manual, wheel>>

PointerInit ==
    /\ surface \in Surface
    /\ mouse \in Spot
    /\ held = {}
    /\ geom = WindowRect
    /\ loads = 1
    /\ activeWidget = Nobody
    /\ hover = Nobody
    /\ lit = {}
    /\ sliding = {}
    /\ localPos = [s \in Slider |-> Unset]
    /\ host = [s \in Slider |-> 0]
    /\ dragging = FALSE
    /\ edges = {}
    /\ grip = Unset
    /\ accum = 0
    /\ owed = 0

-----------------------------------------------------------------------------
(* Where the pointer is.                                                         *)
Local(p) == <<p[1] - geom.x, p[2] - geom.y>>
Inside(q, r) == q[1] \in r.x .. r.x + r.w - 1 /\ q[2] \in r.y .. r.y + r.h - 1
OnSurface(p) == Inside(p, geom)

(* The widget a handler finds: it takes the event's position for layout units.   *)
Hit(p) == {w \in Widget : Inside(Local(p), Place[w])}

CapturesMouse(w) == w \in Slider \cup Holder

resizeEdgesAt(p) ==
    LET q    == Local(p)
        L(m) == q[1] <= m           R(m) == q[1] >= geom.w - m
        T(m) == q[2] <= m           B(m) == q[2] >= geom.h - m
    IN  CASE R(CM) /\ B(CM) -> {"right", "bottom"}
          [] L(CM) /\ B(CM) /\ ~R(CM) -> {"left", "bottom"}
          [] R(CM) /\ T(CM) /\ ~B(CM) -> {"right", "top"}
          [] L(CM) /\ T(CM) /\ ~R(CM) /\ ~B(CM) -> {"left", "top"}
          [] OTHER -> {e \in Side : \/ e = "left" /\ L(EM)
                                    \/ e = "right" /\ R(EM) /\ ~L(EM)
                                    \/ e = "top" /\ T(EM)
                                    \/ e = "bottom" /\ B(EM) /\ ~T(EM)}

pointToPos(s, p) ==
    LET along == Local(p)[1] - Place[s].x - Half
    IN  IF along < 0 THEN 0 ELSE IF along > Travel(s) THEN Travel(s) ELSE along

readPosition(s) == IF s \in sliding /\ localPos[s] # Unset THEN localPos[s] ELSE host[s]

writePosition(s, v) ==
    /\ localPos' = [localPos EXCEPT ![s] = v]
    /\ host' = [host EXCEPT ![s] = v]

-----------------------------------------------------------------------------
(* A left press on a slider or a list, which then has the press.  A list's menu  *)
(* is a loop inside the press that gets the release.                             *)
Capture(w, menu) ==
    /\ CapturesMouse(w)
    /\ surface = "view" => resizeEdgesAt(mouse) = {}
    /\ activeWidget' = <<w, loads>>
    /\ menu => w \in Holder
    /\ held' = IF menu THEN {} ELSE held \cup {"left"}
    /\ IF w \in Slider
       THEN /\ sliding' = sliding \cup {w}
            /\ writePosition(w, pointToPos(w, mouse))
       ELSE UNCHANGED <<sliding, localPos, host>>
    /\ UNCHANGED <<lit, dragging, edges, grip>>

(* Otherwise a script or an action may take the click (dispatchClickAt), and it  *)
(* too may have a menu.                                                          *)
dispatchClickAt(menu) ==
    /\ Hit(mouse) # {}
    /\ held' = IF menu THEN {} ELSE held \cup {"left"}
    /\ UNCHANGED <<activeWidget, controls, host, dragging, edges, grip>>

(* Otherwise the window is resized or moved, by the compositor, which then has   *)
(* the release, or by hand.                                                      *)
BeginManual(native) ==
    /\ held' = IF native THEN {} ELSE held \cup {"left"}
    /\ IF native
       THEN UNCHANGED <<dragging, edges, grip>>
       ELSE /\ edges' = IF resizeEdgesAt(mouse) # {} THEN resizeEdgesAt(mouse) ELSE edges
            /\ dragging' = IF resizeEdgesAt(mouse) # {} THEN dragging ELSE TRUE
            /\ grip' = [at |-> mouse, geom |-> geom]
    /\ UNCHANGED <<activeWidget, controls, host>>

mousePressEvent ==
    /\ "left" \notin held
    /\ OnSurface(mouse)
    /\ \/ \E w \in Hit(mouse), menu \in BOOLEAN : Capture(w, menu)
       \/ /\ \A w \in Hit(mouse) :
                CapturesMouse(w) => surface = "view" /\ resizeEdgesAt(mouse) # {}
          /\ \/ \E menu \in BOOLEAN : dispatchClickAt(menu)
             \/ \E native \in BOOLEAN : BeginManual(native)
    /\ UNCHANGED <<surface, mouse, geom, loads, hover, wheel>>

(* Presses of other buttons are left to the base class.                          *)
OtherPress ==
    /\ "right" \notin held
    /\ OnSurface(mouse)
    /\ held' = held \cup {"right"}
    /\ UNCHANGED <<surface, mouse, geom, loads, activeWidget, hover, controls, host, manual, wheel>>

-----------------------------------------------------------------------------
(* A slider that does not slide is lit by a move; a list has no state of this    *)
(* module.                                                                       *)
onMouseMove(w, p) ==
    /\ IF w \in sliding
       THEN writePosition(w, pointToPos(w, p)) /\ UNCHANGED lit
       ELSE /\ lit' = lit \cup ({w} \ Holder)
            /\ UNCHANGED <<localPos, host>>
    /\ UNCHANGED sliding

Larger(a, b) == IF a < b THEN b ELSE a

(* Mutant: the origin follows the pointer, whatever the least size.              *)
originFollows(g, d) ==
    [x |-> IF "left" \in edges THEN g.x + d[1] ELSE g.x,
     y |-> IF "top" \in edges THEN g.y + d[2] ELSE g.y,
     w |-> Larger(MINW[surface], g.w + (IF "right" \in edges THEN d[1]
                                        ELSE IF "left" \in edges THEN -d[1] ELSE 0)),
     h |-> Larger(MINH[surface], g.h + (IF "bottom" \in edges THEN d[2]
                                        ELSE IF "top" \in edges THEN -d[2] ELSE 0))]

Resized(g, d) ==
    LET w == CASE "right" \in edges -> Larger(MINW[surface], g.w + d[1])
               [] "left" \in edges -> Larger(MINW[surface], g.w - d[1])
               [] OTHER -> g.w
        h == CASE "bottom" \in edges -> Larger(MINH[surface], g.h + d[2])
               [] "top" \in edges -> Larger(MINH[surface], g.h - d[2])
               [] OTHER -> g.h
    IN  [x |-> IF "left" \in edges THEN g.x + g.w - w ELSE g.x,
         y |-> IF "top" \in edges THEN g.y + g.h - h ELSE g.y, w |-> w, h |-> h]

Moved(g, d) == [g EXCEPT !.x = @ + d[1], !.y = @ + d[2]]

(* Moves reach the surface while a button it was told of is down.                *)
mouseMoveEvent(p) ==
    LET d == <<p[1] - grip.at[1], p[2] - grip.at[2]>>   \* read only under a grip
    IN  /\ held # {}
        /\ surface = "player" => "left" \in held
        /\ mouse' = p
        /\ IF activeWidget # Nobody
           THEN /\ activeWidget[2] = loads
                /\ onMouseMove(activeWidget[1], p)
                /\ UNCHANGED geom
           ELSE /\ geom' = IF edges # {} THEN Resized(grip.geom, d)
                           ELSE IF dragging THEN Moved(grip.geom, d) ELSE geom
                /\ geom' \in Rectangle
                /\ UNCHANGED <<controls, host>>
        /\ UNCHANGED <<surface, held, loads, activeWidget, hover, manual, wheel>>

(* Mutant: the slider is not told.                                               *)
forgetCapture == activeWidget' = Nobody /\ UNCHANGED sliding

EndCapture ==
    /\ activeWidget' = Nobody
    /\ IF activeWidget = Nobody
       THEN UNCHANGED sliding
       ELSE /\ activeWidget[2] = loads
            /\ sliding' = sliding \ {activeWidget[1]}

(* The release of any button.                                                    *)
mouseReleaseEvent(b) ==
    /\ b \in held
    /\ held' = held \ {b}
    /\ IF surface = "player" /\ "left" \notin held
       THEN UNCHANGED <<activeWidget, sliding, dragging, edges, grip>>
       ELSE /\ EndCapture
            /\ dragging' = FALSE
            /\ edges' = {}
            /\ grip' = Unset
    /\ UNCHANGED <<surface, mouse, geom, loads, hover, lit, localPos, host, wheel>>

-----------------------------------------------------------------------------
(* Hover is the player's alone.                                                  *)
hoverMoveEvent(p) ==
    /\ surface = "player"
    /\ held = {}
    /\ OnSurface(p)
    /\ mouse' = p
    /\ IF resizeEdgesAt(p) # {}
       THEN UNCHANGED <<hover, controls, host>>
       ELSE LET now  == IF Hit(p) = {} THEN Nobody ELSE <<CHOOSE w \in Hit(p) : TRUE, loads>>
                left == {hover} \ {Nobody, now}
                dark == lit \ {l[1] : l \in left}
            IN  /\ \A l \in left : l[2] = loads
                /\ hover' = now
                /\ \/ /\ now = Nobody
                      /\ lit' = dark
                      /\ UNCHANGED <<sliding, localPos, host>>
                   \/ /\ now # Nobody
                      /\ lit' = dark \cup ({now[1]} \ (Holder \cup sliding))
                      /\ localPos' = [s \in Slider |-> IF s = now[1] /\ s \in sliding
                                                      THEN pointToPos(s, p) ELSE localPos[s]]
                      /\ UNCHANGED <<sliding, host>>
    /\ UNCHANGED <<surface, held, geom, loads, activeWidget, manual, wheel>>

(* Mutant: the widget that was hovered is forgotten before it is told.           *)
leaveUntold(p) ==
    /\ surface = "player"
    /\ held = {}
    /\ ~OnSurface(p)
    /\ mouse' = p
    /\ hover' = Nobody
    /\ UNCHANGED <<surface, held, geom, loads, activeWidget, controls, host, manual, wheel>>

hoverLeaveEvent(p) ==
    /\ surface = "player"
    /\ held = {}
    /\ ~OnSurface(p)
    /\ mouse' = p
    /\ hover' = Nobody
    /\ hover # Nobody => hover[2] = loads
    /\ lit' = IF hover = Nobody THEN lit ELSE lit \ {hover[1]}
    /\ UNCHANGED <<surface, held, geom, loads, activeWidget, sliding, localPos, host, manual, wheel>>

(* Without a button down the view hears of no moves.                             *)
MoveUnseen(p) ==
    /\ surface = "view"
    /\ held = {}
    /\ mouse' = p
    /\ UNCHANGED <<surface, held, geom, loads, activeWidget, hover, controls, host, manual, wheel>>

Truncated(n) == IF n >= 0 THEN n \div Notch ELSE -((-n) \div Notch)

(* Mutant: a step takes the remainder with it.                                   *)
dropRemainder(d) ==
    LET steps == Truncated(accum + d)
    IN  /\ accum' = IF steps # 0 THEN 0 ELSE accum + d
        /\ owed' = owed + d - Notch * steps

accumulate(d) ==
    LET steps == Truncated(accum + d)
    IN  /\ accum' = accum + d - Notch * steps
        /\ owed' = owed + d - Notch * steps

wheelEvent(d) ==
    /\ surface = "player"
    /\ OnSurface(mouse)
    /\ IF \E w \in Hit(mouse) : CapturesMouse(w)
       THEN accumulate(d)
       ELSE accum' = 0 /\ owed' = 0
    /\ UNCHANGED <<surface, mouse, held, geom, loads, activeWidget, hover, controls, host, manual>>

-----------------------------------------------------------------------------
(* Playback moves a slider's value, and a skin is loaded: its widgets are new,   *)
(* and neither load nor anything else looks at the two pointers.  A handler that  *)
(* would call a widget of the tree before is undefined and does not happen here.  *)
HostMoves(s) ==
    /\ \E v \in 0 .. Travel(s) : host' = [host EXCEPT ![s] = v]
    /\ UNCHANGED <<surface, mouse, held, geom, loads, activeWidget, hover, controls, manual, wheel>>

load ==
    /\ loads < MaxLoads
    /\ loads' = loads + 1
    /\ lit' = {}
    /\ sliding' = {}
    /\ localPos' = [s \in Slider |-> Unset]
    /\ UNCHANGED <<surface, mouse, held, geom, activeWidget, hover, host, manual, wheel>>

PointerNext ==
    \/ mousePressEvent \/ OtherPress
    \/ \E p \in Spot : \/ mouseMoveEvent(p)
                       \/ hoverMoveEvent(p) \/ hoverLeaveEvent(p) \/ MoveUnseen(p)
    \/ \E b \in {"left", "right"} : mouseReleaseEvent(b)
    \/ \E d \in Turn : wheelEvent(d)
    \/ \E s \in Slider : HostMoves(s)
    \/ load

PointerSpec == PointerInit /\ [][PointerNext]_pointerVars
-----------------------------------------------------------------------------
(* A thumb leaves its host's value only while the left button is down on it, in  *)
(* whatever order buttons and menus come ("This is what keeps the seek thumb     *)
(* ADVANCING with playback instead of freezing at the last dragged spot",        *)
(* Slider.cpp:38-43).                                                            *)
ThumbsTellTheHost ==
    \A s \in Slider : readPosition(s) # host[s] => "left" \in held /\ activeWidget = <<s, loads>>

(* A lit widget is the one the surface will tell of the pointer's leaving: none  *)
(* stays lit behind the pointer's back.                                          *)
LitWillBeCleared ==
    \A w \in lit : hover = <<w, loads>>

(* A manual resize leaves the sides that were not gripped where they were, and   *)
(* takes the gripped ones with the pointer, up to the least size; a manual move  *)
(* is rigid.                                                                     *)
FollowsTheGrip ==
    LET dx == mouse[1] - grip.at[1]
        dy == mouse[2] - grip.at[2]
        g  == grip.geom
    IN  activeWidget = Nobody =>
        /\ edges # {} =>
             /\ geom.x = g.x + dx \/ "left" \notin edges \/ geom.w = MINW[surface]
             /\ geom.x = g.x \/ "left" \in edges
             /\ geom.x + geom.w = g.x + g.w + dx \/ "right" \notin edges \/ geom.w = MINW[surface]
             /\ geom.x + geom.w = g.x + g.w \/ "right" \in edges
             /\ geom.y = g.y + dy \/ "top" \notin edges \/ geom.h = MINH[surface]
             /\ geom.y = g.y \/ "top" \in edges
             /\ geom.y + geom.h = g.y + g.h + dy \/ "bottom" \notin edges \/ geom.h = MINH[surface]
             /\ geom.y + geom.h = g.y + g.h \/ "bottom" \in edges
        /\ dragging => geom = Moved(g, <<dx, dy>>)

(* However finely a wheel turns over a list, what it turned is scrolled but for  *)
(* less than a notch ("keep the remainder so a slow fine-grained wheel still     *)
(* scrolls", SkinQuickItem.cpp:819-821).                                         *)
WheelOwesLessThanANotch == owed \in -(Notch - 1) .. Notch - 1 /\ owed = accum
=============================================================================
