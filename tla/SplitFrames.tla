---------------------------- MODULE SplitFrames ----------------------------
(* A Wasabi:Frame and its two panes along the axis it splits (Layout.cpp,        *)
(* Widget.cpp): the attributes the Expander and setPosition() give the panes,    *)
(* and the rectangles they resolve to.  The panes are told apart by who has the  *)
(* divider's size (fixed) and who the remainder.                                 *)
EXTENDS Integers

CONSTANTS Extent,       \* the sizes a frame gives its panes to be resolved in
          Position      \* what scripts pass to setPosition

ASSUME FrameAssumption == Extent \subseteq Nat \ {0} /\ Position \subseteq Int

Pane == {"fixed", "rem"}

VARIABLES frame,        \* _frame_fromfar, _frame_minrem, _frame_divpos
          pane,         \* the attributes of the panes, along the axis
          extent,       \* the size of the frame (if it has none: of the widget above), and ...
          rect,         \* ... the rectangles the panes had when last resolved
          dirty         \* g_geometryDirty

frameVars == <<frame, pane, extent, rect, dirty>>

Frame == [far : BOOLEAN, min : Nat, divpos : Nat]

Attrs == [pos : Int, size : Int, relatPos : BOOLEAN, relatSize : BOOLEAN,
          min : Nat, cap : Nat, capFar : BOOLEAN]

Rect == [pos : Int, size : Nat]

-----------------------------------------------------------------------------
(* The attributes of a pane: the fixed one has the divider's size, at the far    *)
(* edge if the frame counts from there, and is capped to leave the minimum; the  *)
(* other has the parent's less that.  0 stands for an attribute that is absent.  *)
Split(f, p) ==
    IF p = "fixed"
    THEN [pos |-> IF f.far THEN -f.divpos ELSE 0, size |-> f.divpos,
          relatPos |-> f.far, relatSize |-> FALSE,
          min |-> 0, cap |-> f.min, capFar |-> f.far /\ f.min > 0]
    ELSE [pos |-> IF f.far THEN 0 ELSE f.divpos, size |-> -f.divpos,
          relatPos |-> FALSE, relatSize |-> TRUE,
          min |-> f.min, cap |-> 0, capFar |-> FALSE]

(* Mutant: the cap does not move the pane.                                       *)
ResolveInPlace(a, e) ==
    LET own   == IF a.relatSize \/ a.size < 0 THEN e + a.size ELSE a.size
        least == IF own < a.min THEN a.min ELSE own
        size  == IF a.cap > 0 /\ least > e - a.cap THEN e - a.cap ELSE least
    IN  [pos |-> IF a.relatPos THEN e + a.pos ELSE a.pos, size |-> IF size < 0 THEN 0 ELSE size]

(* resolveRectFromAttrs in a parent of size e.                                   *)
Resolve(a, e) ==
    LET own    == IF a.relatSize \/ a.size < 0 THEN e + a.size ELSE a.size
        least  == IF own < a.min THEN a.min ELSE own
        capped == a.cap > 0 /\ least > e - a.cap
        size   == IF capped THEN e - a.cap ELSE least
    IN  [pos  |-> IF capped /\ a.capFar THEN e - size ELSE IF a.relatPos THEN e + a.pos ELSE a.pos,
         size |-> IF size < 0 THEN 0 ELSE size]

Resolved(e, as) == [p \in Pane |-> Resolve(as[p], e)]

(* The Expander: both panes are split at the size the frame declares (one that   *)
(* declares none has no divider), and a pane whose groupdef says relatw (or      *)
(* relath) has that as well.                                                     *)
Planted(f, relative) ==
    [p \in Pane |-> [Split(f, p) EXCEPT !.relatSize = @ \/ p \in relative]]

FrameInit ==
    /\ frame \in Frame /\ frame.divpos > 0
    /\ \E relative \in SUBSET Pane : pane = Planted(frame, relative)
    /\ extent \in Extent
    /\ rect = Resolved(extent, pane)
    /\ dirty = FALSE

(* Frame.setPosition(n): a negative one is 0, and every flag is set anew.  The   *)
(* whole tree is resolved again.                                                 *)
SetPosition(n) ==
    /\ frame' = [frame EXCEPT !.divpos = IF n < 0 THEN 0 ELSE n]
    /\ pane' = [p \in Pane |-> Split(frame', p)]
    /\ rect' = Resolved(extent, pane')
    /\ dirty' = (dirty \/ n # frame.divpos)
    /\ UNCHANGED extent

(* The window is resized, or another frame gives this one another size.          *)
Resize(e) ==
    /\ extent' = e
    /\ rect' = Resolved(e, pane)
    /\ UNCHANGED <<frame, pane, dirty>>

(* The cascade of onResize handlers takes the flag down before each round.       *)
Settle ==
    /\ dirty' = FALSE
    /\ UNCHANGED <<frame, pane, extent, rect>>

FrameNext ==
    \/ \E n \in Position : SetPosition(n)
    \/ \E e \in Extent : Resize(e)
    \/ Settle

FrameSpec == FrameInit /\ [][FrameNext]_frameVars
-----------------------------------------------------------------------------
(* Each pane has the flags of the split and none of its groupdef's.              *)
Own == pane = Planted(frame, {})

(* The groupdef of the fixed pane has widened it by the size of the frame.       *)
Widened == pane["fixed"].relatSize

(* The frame has room for the minimum of the remainder, and the divider leaves   *)
(* it: from the near edge by itself, from the far edge because the cap moves the *)
(* fixed pane.  A widened pane is always capped.                                 *)
Roomy ==
    /\ frame.min <= extent
    /\ IF Widened
       THEN /\ frame.min > 0
            /\ \/ frame.divpos + frame.min = extent
               \/ frame.far /\ frame.divpos + frame.min > extent
       ELSE frame.divpos + frame.min <= extent \/ (frame.far /\ frame.min > 0)

(* The panes abut, neither overlaps or leaves a gap, and they fill the frame.    *)
Tiled ==
    LET first  == IF frame.far THEN rect["rem"] ELSE rect["fixed"]
        second == IF frame.far THEN rect["fixed"] ELSE rect["rem"]
    IN  /\ first.pos = 0
        /\ second.pos = first.size
        /\ second.pos + second.size = extent

(* At every size of the frame and wherever a script moved the divider, the       *)
(* remainder keeps its minimum, and the fixed pane is cut "so both fit"          *)
(* (Widget.cpp:141-148): their sizes make up the frame.  But they tile it only   *)
(* where there is room: a divider that reaches into the minimum from the near    *)
(* edge cuts the fixed pane and leaves the remainder where it was, a gap before  *)
(* it and as much of it outside of the frame.                                    *)
PanesTile ==
    /\ rect["rem"].size >= frame.min
    /\ ~Widened /\ frame.min \in 1..extent => rect["fixed"].size + rect["rem"].size = extent
    /\ Tiled <=> Roomy

(* The cascade of onResize handlers is told of each move of a divider that moves *)
(* a pane.                                                                       *)
MovesAreFlagged == [][Own /\ Own' /\ extent' = extent /\ rect' # rect => dirty']_frameVars
=============================================================================
