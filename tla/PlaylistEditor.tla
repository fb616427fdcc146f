--------------------------- MODULE PlaylistEditor ---------------------------
(* The playlist editor view (PleditHostRenderer.cpp): the host's playlist, from  *)
(* m_scroll on, and a scroll bar with steppers, a track and a thumb.  What lies   *)
(* under the pointer is taken as the part the last paint put there; a row as its  *)
(* line, from 0.  The image that draw_pe rasters and the paint caches is left out  *)
(* (README, "Not modelled").                                                     *)
EXTENDS HostMedia

CONSTANTS
    VisRows      \* lines the list area holds

VARIABLES
    scroll,      \* m_scroll
    barRows,     \* m_sbRows, the rows the last paint made the bar for
    dragging,    \* m_dragging
    peClick      \* m_lastClickRow while its 350 ms last, or -1

peVars == <<scroll, barRows, dragging, peClick>>

ASSUME EditorAssumption == VisRows \in Nat \ {0}

PeInit ==
    /\ scroll = 0
    /\ barRows = 0
    /\ dragging = FALSE
    /\ peClick = -1

-----------------------------------------------------------------------------
maxScroll == IF barRows > VisRows THEN barRows - VisRows ELSE 0

setScroll(s) == scroll' = IF s < 0 THEN 0 ELSE IF s > maxScroll THEN maxScroll ELSE s

(* paint; the list area is higher than the 16 pixels a scroll bar needs.         *)
PePaint ==
    /\ barRows' = rowCount
    /\ UNCHANGED <<scroll, dragging, peClick>>

(* onLeftButtonDown on the bar.                                                  *)
ClickBar ==
    /\ \/ setScroll(scroll - 1) /\ UNCHANGED dragging
       \/ setScroll(scroll + 1) /\ UNCHANGED dragging
       \/ setScroll(scroll - VisRows) /\ UNCHANGED dragging
       \/ setScroll(scroll + VisRows) /\ UNCHANGED dragging
       \/ dragging' = TRUE /\ UNCHANGED scroll
    /\ UNCHANGED <<hostVars, barRows, peClick>>

(* Mutant: the row is not checked against the playlist.                          *)
ClickAnyRow(line) ==
    LET row == scroll + line
    IN  /\ row < MaxRows
        /\ playlistRow(row)
        /\ peClick' = IF peClick = row THEN -1 ELSE row
        /\ UNCHANGED <<scroll, barRows, dragging>>

(* onLeftButtonDown on a line: a first click makes the row current, a second one *)
(* within the time plays it, which makes it current too.                         *)
ClickRow(line) ==
    LET row == scroll + line
    IN  /\ row < rowCount
        /\ playlistRow(row)
        /\ peClick' = IF peClick = row THEN -1 ELSE row
        /\ UNCHANGED <<scroll, barRows, dragging>>

(* onMouseMove: the thumb's travel is mapped on 0 .. maxScroll.                  *)
DragThumb ==
    /\ dragging
    /\ \E s \in 0 .. maxScroll : setScroll(s)
    /\ UNCHANGED <<hostVars, barRows, dragging, peClick>>

ReleaseThumb ==
    /\ dragging
    /\ dragging' = FALSE
    /\ UNCHANGED <<hostVars, scroll, barRows, peClick>>

Wheel(steps) ==
    /\ setScroll(scroll - steps)
    /\ UNCHANGED <<hostVars, barRows, dragging, peClick>>

PeClickExpires ==
    /\ peClick # -1
    /\ peClick' = -1
    /\ UNCHANGED <<hostVars, scroll, barRows, dragging>>

PeInput ==
    \/ ClickBar
    \/ \E line \in 0 .. VisRows - 1 : ClickRow(line)
    \/ DragThumb
    \/ ReleaseThumb
    \/ \E steps \in {-1, 1} : Wheel(steps)

-----------------------------------------------------------------------------
PeTypeOK ==
    /\ scroll \in 0 .. MaxRows
    /\ barRows \in 0 .. MaxRows
    /\ dragging \in BOOLEAN
    /\ peClick \in -1 .. MaxRows - 1
=============================================================================
