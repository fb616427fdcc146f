---------------------------- MODULE HostedLists ----------------------------
(* A window holder (WindowHolder.cpp) that shows the media library or the        *)
(* playlist editor, by the renderer that the registry (WindowHolderRegistry.cpp) *)
(* has a factory for at its first paint, or by the engine's own rows.  The two   *)
(* renderers share the host: the library view fills the playlist, the editor     *)
(* shows it, and both are changed behind their backs.                            *)
EXTENDS MediaBrowser, PlaylistEditor

CONSTANTS
    None,        \* no renderer
    Registered   \* the components an embedder may register a factory for

VARIABLES
    hold,        \* heldGuid(attrs), in canonical form
    plugins,     \* whether media library plugins are installed
    factories,   \* the registry's factories
    renderer,    \* m_renderer
    tried,       \* m_rendererTried
    topRow,      \* m_topRow of the engine's own rows
    fbClick      \* m_lastClickRow of the engine's own rows, while it lasts

holderVars == <<hold, plugins, factories, renderer, tried, topRow, fbClick>>
vars == <<hostVars, navVars, mlVars, peVars, holderVars>>

ASSUME HoldersAssumption ==
    Registered \subseteq {"pl", "ml"} /\ None \notin {"pl", "ml"}

(* Bound: with plugins there is nothing in the library and nobody touches the    *)
(* host; the library is only looked at where it is shown.                        *)
Init ==
    /\ HostInit
    /\ NavInit
    /\ MlInit
    /\ PeInit
    /\ hold \in {"pl", "ml"}
    /\ plugins \in BOOLEAN
    /\ plugins => hold = "ml" /\ library = {}
    /\ hold = "pl" => library = {}
    /\ factories \in SUBSET Registered
    /\ renderer = None
    /\ tried = FALSE
    /\ topRow = 0
    /\ fbClick = -1

-----------------------------------------------------------------------------
Lists == <<mlVars, peVars>>

(* The library window is made and the plugins are started by the renderer's      *)
(* constructor, at the first paint: their messages come before the tree is       *)
(* copied.                                                                       *)
Boot ==
    /\ plugins /\ hold = "ml" /\ "ml" \in factories
    /\ ~tried
    /\ PluginInit
    /\ UNCHANGED <<hostVars, Lists, holderVars>>

(* Bound: nothing paints by the registry after the first paint.                  *)
registerHolderRenderer(g) ==
    /\ ~tried
    /\ factories' = factories \cup {g}
    /\ UNCHANGED <<hostVars, navVars, Lists, hold, plugins, renderer, tried, topRow, fbClick>>

unregisterHolderRenderer(g) ==
    /\ ~tried
    /\ factories' = factories \ {g}
    /\ UNCHANGED <<hostVars, navVars, Lists, hold, plugins, renderer, tried, topRow, fbClick>>

(* paint, the first time: the factory is looked up once.                         *)
Create ==
    /\ ~tried
    /\ tried' = TRUE
    /\ renderer' = IF hold \in factories THEN hold ELSE None
    /\ IF renderer' = "ml" THEN MlCreate ELSE UNCHANGED mlVars
    /\ IF renderer' = "pl" THEN PePaint ELSE UNCHANGED peVars
    /\ UNCHANGED <<hostVars, navVars, hold, plugins, factories, topRow, fbClick>>

(* The engine's own playlist rows: paintRowsCommon clamps the top row.           *)
PaintRows ==
    LET maxTop == IF rowCount > VisRows THEN rowCount - VisRows ELSE 0
    IN  topRow' = IF topRow > maxTop THEN maxTop ELSE topRow

Paint ==
    /\ tried
    /\ IF renderer = "ml" THEN MlPaint ELSE UNCHANGED mlVars
    /\ IF renderer = "pl" THEN PePaint ELSE UNCHANGED peVars
    /\ IF renderer = None /\ hold = "pl" THEN PaintRows ELSE UNCHANGED topRow
    /\ UNCHANGED <<hostVars, navVars, hold, plugins, factories, renderer, tried, fbClick>>

(* The renderer gets the click, or the engine's own rows do.                     *)
RendererInput ==
    /\ \/ renderer = "ml" /\ (MlInput \/ MlMenu \/ TrackClickExpires) /\ UNCHANGED peVars
       \/ renderer = "pl" /\ (PeInput \/ PeClickExpires) /\ UNCHANGED mlVars
    /\ UNCHANGED <<navVars, holderVars>>

OwnRows == tried /\ renderer = None /\ hold = "pl"

ClickOwnRow(line) ==
    LET row == topRow + line
    IN  /\ OwnRows
        /\ row < rowCount
        /\ playlistRow(row)
        /\ fbClick' = IF fbClick = row THEN -1 ELSE row
        /\ UNCHANGED <<navVars, Lists, hold, plugins, factories, renderer, tried, topRow>>

(* Bound: the wheel, which knows no end below, stops at MaxRows.                 *)
WheelOwnRows(steps) ==
    /\ OwnRows
    /\ topRow - steps <= MaxRows
    /\ topRow' = IF topRow - steps < 0 THEN 0 ELSE topRow - steps
    /\ UNCHANGED <<hostVars, navVars, Lists, hold, plugins, factories, renderer, tried, fbClick>>

OwnClickExpires ==
    /\ fbClick # -1
    /\ fbClick' = -1
    /\ UNCHANGED <<hostVars, navVars, Lists, hold, plugins, factories, renderer, tried, topRow>>

(* The host is changed from elsewhere.                                           *)
HostChanges ==
    /\ ~plugins
    /\ \/ hold = "ml" /\ Rescan
       \/ AddRow
       \/ RemoveRow
    /\ UNCHANGED <<navVars, mlVars, scroll, barRows, dragging, peClick, holderVars>>

Next ==
    \/ Boot
    \/ \E g \in Registered : registerHolderRenderer(g) \/ unregisterHolderRenderer(g)
    \/ Create
    \/ Paint
    \/ RendererInput
    \/ \E line \in 0 .. VisRows - 1 : ClickOwnRow(line)
    \/ \E steps \in {-1, 1} : WheelOwnRows(steps)
    \/ OwnClickExpires
    \/ HostChanges

Spec == Init /\ [][Next]_vars

-----------------------------------------------------------------------------
HoldersTypeOK ==
    /\ HostTypeOK /\ NavTypeOK /\ MlTypeOK /\ PeTypeOK
    /\ factories \subseteq Registered
    /\ renderer \in {None, "pl", "ml"}
    /\ topRow \in 0 .. MaxRows
    /\ fbClick \in -1 .. MaxRows - 1

(* The current row is always a row of the playlist, whoever moved it last: the   *)
(* editor, the engine's rows or the library, over a playlist that shrinks        *)
(* between their paints and their clicks (the checks of onLeftButtonDown); and   *)
(* every other position a view holds is in its range.                            *)
CurrentIsARow == HoldersTypeOK /\ current < rowCount
=============================================================================
