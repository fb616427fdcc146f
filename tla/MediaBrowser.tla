---------------------------- MODULE MediaBrowser ----------------------------
(* The media library view (MlHostWidget.cpp): the navigation tree on the left,   *)
(* the chain of filter panes, each narrowing the ones after it, and the list of  *)
(* the tracks that pass them all.  The lists are MultiColumnListWidgets           *)
(* (MultiColumnList.cpp), whose sort marker and columns are left out: they       *)
(* change what a row looks like, never which row it is.  So are the counts.      *)
(*                                                                               *)
(* Clicks on the tree are not here: the tree tests the area that only hitTest    *)
(* and the layout give a widget, and it is in neither's reach, so no click is    *)
(* its own.  The view stays the browser it is built as, and what is expanded     *)
(* stays what it was (README, "Findings").                                       *)
EXTENDS HostMedia, NavTree

CONSTANTS
    Presets,     \* the supported presets: a sequence of sequences of fields
    Fallback,    \* buildPluginTree: a sequence of [label, provider, kids, open]
    All,         \* the empty filter
    NoMenu, NoTrack

VARIABLES
    tree,        \* the renderer's m_tree
    preset,      \* m_presetIdx
    panes,       \* m_panes
    tracks,      \* m_trackRows, and the rows of m_tracks shown for them
    trackSel,    \* m_tracks.selection()
    trackClick,  \* m_lastTrackClickRow while its 400 ms last, or -1
    loaded,      \* m_dataLoaded
    menu,        \* the QMenu or dialog that is open
    misplayed    \* history: a track was started that is not the one asked for

Fields == UNION {ToSet(Presets[p]) : p \in DOMAIN Presets}

(* There is a preset to begin with, and the library is finite.                    *)
ASSUME MediaAssumption ==
    /\ Presets \in Seq(Seq(Fields)) /\ Presets # <<>>
    /\ IsFiniteSet(Track)

mlVars == <<tree, preset, panes, tracks, trackSel, trackClick, loaded, menu, misplayed>>

-----------------------------------------------------------------------------
(* The tree.                                                                     *)

(* A node of the fallback tree, and the nodes a provider returns.                *)
FallbackNode(n) ==
    [item |-> NoItem, label |-> Fallback[n].label, provider |-> Fallback[n].provider]
KidsOf(node) ==
    IF node.item # NoItem THEN Nodes(node.item, FALSE)
    ELSE LET f == CHOOSE n \in DOMAIN Fallback : Fallback[n].label = node.label
         IN  [k \in DOMAIN Fallback[f].kids |->
                [item |-> NoItem, label |-> Fallback[f].kids[k], provider |-> FALSE]]

(* Plugin roots first, then the fallback roots no plugin root has the name of.   *)
MergedRoots ==
    LET named == {PluginRoots[n].label : n \in DOMAIN PluginRoots}
        rest == SelectSeq([n \in DOMAIN Fallback |-> FallbackNode(n)],
                          LAMBDA node : node.label \notin named)
    IN  PluginRoots \o rest

FlattenVisible(roots, open) ==
    FlattenSeq([n \in DOMAIN roots |->
      <<roots[n]>> \o (IF roots[n].provider /\ roots[n] \in open
                       THEN KidsOf(roots[n]) ELSE <<>>)])

(* setRoots: what is expanded by default, nothing painted.                       *)
SetRoots(roots) ==
    [roots |-> roots,
     open |-> {n \in ToSet(roots) : n.item = NoItem /\
                 \E f \in DOMAIN Fallback :
                   Fallback[f].open /\ Fallback[f].label = n.label},
     shown |-> <<>>]

PaintedTree == [tree EXCEPT !.shown = FlattenVisible(tree.roots, tree.open)]

-----------------------------------------------------------------------------
(* The panes.                                                                    *)

NewPane(field) ==
    [field |-> field, values |-> <<>>, selected |-> All, lastSel |-> 0,
     sel |-> -1, seen |-> FALSE]

applyPreset(p) == [i \in DOMAIN Presets[p] |-> NewPane(Presets[p][i])]

(* paneEquals: the selections of the first n panes.                              *)
Equals(ps, n) ==
    {[field |-> ps[i].field, value |-> ps[i].selected] :
       i \in {j \in DOMAIN ps : j <= n /\ ps[j].selected # All}}

(* Mutant: a refreshed pane keeps its filter.                                    *)
RefreshKeepingFilter(ps, first) ==
    [i \in DOMAIN ps |->
       IF i < first THEN ps[i]
       ELSE [ps[i] EXCEPT !.values = mlFilterValues(ps[i].field, Equals(ps, first - 1)),
                          !.lastSel = 0, !.sel = 0]]

(* refreshPanesFrom: every pane from first on is cleared and asked for again,    *)
(* under the filters of the panes before it, of which those from first on are    *)
(* clear by then.                                                                *)
RefreshPanesFrom(ps, first) ==
    [i \in DOMAIN ps |->
       IF i < first THEN ps[i]
       ELSE [ps[i] EXCEPT !.selected = All,
                          !.values = mlFilterValues(ps[i].field, Equals(ps, first - 1)),
                          !.lastSel = 0, !.sel = 0]]

(* refreshTracks; clearRows takes the selection away.                            *)
RefreshTracks(ps) ==
    /\ tracks' = mlTracksQuery(Equals(ps, Len(ps)))
    /\ trackSel' = -1

(* reloadAll.                                                                    *)
ReloadAll(ps) ==
    /\ panes' = RefreshPanesFrom(ps, 1)
    /\ RefreshTracks(panes')

(* The row of a pane: row 0 is "All".                                            *)
ValueAt(pane, row) == IF row = 0 THEN All ELSE pane.values[row]

-----------------------------------------------------------------------------
(* The constructor, once, and paint.                                             *)

MlNone == [roots |-> <<>>, open |-> {}, shown |-> <<>>]

MlInit ==
    /\ tree = MlNone
    /\ preset = 1
    /\ panes = <<>>
    /\ tracks = <<>>
    /\ trackSel = -1
    /\ trackClick = -1
    /\ loaded = FALSE
    /\ menu = NoMenu
    /\ misplayed = FALSE

Seen(ps) == [i \in DOMAIN ps |-> [ps[i] EXCEPT !.seen = TRUE]]

(* MlHostRenderer's first paint, right after its constructor copied the tree's   *)
(* roots: the data is loaded then, once.                                         *)
MlCreate ==
    /\ LET ps == RefreshPanesFrom(applyPreset(1), 1)
       IN  panes' = Seen(ps) /\ RefreshTracks(ps)
    /\ LET t == SetRoots(MergedRoots)
       IN  tree' = [t EXCEPT !.shown = FlattenVisible(t.roots, t.open)]
    /\ loaded' = TRUE
    /\ UNCHANGED <<preset, trackClick, menu, misplayed>>

(* Mutant: every paint loads the data.                                           *)
PaintAndReload ==
    /\ ReloadAll(Seen(panes))
    /\ tree' = PaintedTree
    /\ UNCHANGED <<preset, trackClick, loaded, menu, misplayed>>

MlPaint ==
    /\ tree' = PaintedTree
    /\ panes' = Seen(panes)
    /\ UNCHANGED <<preset, tracks, trackSel, trackClick, loaded, menu, misplayed>>

-----------------------------------------------------------------------------
(* onLeftButtonDown, by what is under the pointer.                               *)
NoMenuOpen == menu = NoMenu
TrackAt(row) == IF row < Len(tracks) THEN tracks[row + 1] ELSE NoTrack
StartRow == IF trackSel < 0 THEN 0 ELSE trackSel

Open(kind, row, saw) ==
    /\ menu' = [kind |-> kind, row |-> row, saw |-> saw]
    /\ UNCHANGED <<hostVars, tree, preset, panes, tracks, trackSel, trackClick, loaded, misplayed>>

ClickFiltersButton == NoMenuOpen /\ Open("filters", 0, NoTrack)
ClickPaneOptions == NoMenuOpen /\ Open("panes", 0, NoTrack)
(* The row is captured before the menu's event loop.                             *)
ClickPlayArrow == NoMenuOpen /\ Open("play", StartRow, TrackAt(StartRow))

ClickClearSearch ==
    /\ NoMenuOpen
    /\ ReloadAll(panes)
    /\ UNCHANGED <<hostVars, tree, preset, trackClick, loaded, menu, misplayed>>

(* A row of a pane that has been painted; a click that changes nothing ends      *)
(* there.                                                                        *)
ClickPane(i, row) ==
    /\ NoMenuOpen
    /\ panes[i].seen
    /\ row <= Len(panes[i].values) /\ row # panes[i].lastSel
    /\ panes' = RefreshPanesFrom(
                  [panes EXCEPT ![i].sel = row, ![i].lastSel = row,
                                ![i].selected = ValueAt(panes[i], row)],
                  i + 1)
    /\ RefreshTracks(panes')
    /\ UNCHANGED <<hostVars, tree, preset, trackClick, loaded, menu, misplayed>>

(* playRow of a row, the tracks being those of the list now.                     *)
playRow(row, saw, enqueueOnly) ==
    IF tracks = <<>> THEN UNCHANGED <<hostVars, misplayed>>
    ELSE /\ mlPlayTracks(tracks, row, enqueueOnly)
         /\ misplayed' = (misplayed \/ (~enqueueOnly /\ TrackAt(row) # saw))

ClickPlay ==
    /\ NoMenuOpen
    /\ playRow(StartRow, TrackAt(StartRow), FALSE)
    /\ UNCHANGED <<tree, preset, panes, tracks, trackSel, trackClick, loaded, menu>>

(* A row of the track list, or its header or blank, which keep the selection: a  *)
(* second click within the time plays the selected row.                          *)
ClickTracks(row) ==
    /\ NoMenuOpen
    /\ row \in {trackSel} \cup (0 .. Len(tracks) - 1)
    /\ trackSel' = row
    /\ IF row >= 0 /\ row = trackClick
       THEN trackClick' = -1 /\ playRow(row, TrackAt(row), FALSE)
       ELSE trackClick' = row /\ UNCHANGED <<hostVars, misplayed>>
    /\ UNCHANGED <<tree, preset, panes, tracks, loaded, menu>>

(* 400 ms pass.                                                                  *)
TrackClickExpires ==
    /\ trackClick # -1
    /\ trackClick' = -1
    /\ UNCHANGED <<hostVars, tree, preset, panes, tracks, trackSel, loaded, menu, misplayed>>

-----------------------------------------------------------------------------
(* The menus return.                                                             *)
Picked(kind) == menu # NoMenu /\ menu.kind = kind /\ menu' = NoMenu

PickNothing ==
    /\ menu # NoMenu
    /\ menu' = NoMenu
    /\ UNCHANGED <<hostVars, tree, preset, panes, tracks, trackSel, trackClick, loaded, misplayed>>

(* openFiltersMenu: another preset.                                              *)
PickPreset(p) ==
    /\ Picked("filters")
    /\ p # preset
    /\ preset' = p
    /\ ReloadAll(applyPreset(p))
    /\ UNCHANGED <<hostVars, tree, trackClick, loaded, misplayed>>

(* openPaneOptionsMenu: the columns of pane i, or of the tracks (i past the      *)
(* panes); the lists are filled again.                                           *)
PickColumns(i) ==
    /\ Picked("panes")
    /\ i \in 1 .. Len(panes) + 1
    /\ panes' = RefreshPanesFrom(panes, i)
    /\ RefreshTracks(panes')
    /\ UNCHANGED <<hostVars, tree, preset, trackClick, loaded, misplayed>>

PickPlay(enqueueOnly) ==
    /\ Picked("play")
    /\ playRow(menu.row, menu.saw, enqueueOnly)
    /\ UNCHANGED <<tree, preset, panes, tracks, trackSel, trackClick, loaded>>

MlInput ==
    \/ ClickFiltersButton
    \/ ClickPaneOptions
    \/ ClickPlayArrow
    \/ ClickClearSearch
    \/ \E i \in DOMAIN panes : \E row \in 0 .. Len(panes[i].values) : ClickPane(i, row)
    \/ ClickPlay
    \/ \E row \in -1 .. Len(tracks) - 1 : ClickTracks(row)

MlMenu ==
    \/ PickNothing
    \/ \E p \in DOMAIN Presets : PickPreset(p)
    \/ \E i \in 1 .. Len(panes) + 1 : PickColumns(i)
    \/ \E e \in BOOLEAN : PickPlay(e)

-----------------------------------------------------------------------------
MlTypeOK ==
    /\ preset \in DOMAIN Presets
    /\ Len(panes) \in {0, Len(Presets[preset])}
    /\ tracks \in Seq(Track)
    /\ trackSel \in -1 .. Cardinality(Track) - 1
    /\ trackClick \in -1 .. Cardinality(Track) - 1
    /\ loaded \in BOOLEAN
    /\ menu = NoMenu \/ menu.kind \in {"filters", "panes", "play"}

(* Panes and tracks always tell one story: the value a pane filters by is the    *)
(* row it highlights, every listed track passes every pane's filter, and the     *)
(* selected track is in the list (the refreshes of onLeftButtonDown and of the   *)
(* menus).                                                                       *)
ListingAgrees ==
    loaded =>
      /\ \A i \in DOMAIN panes :
           /\ panes[i].sel = panes[i].lastSel
           /\ panes[i].lastSel <= Len(panes[i].values)
           /\ panes[i].selected = ValueAt(panes[i], panes[i].lastSel)
           /\ \A t \in ToSet(tracks) :
                panes[i].selected \in {All, Tag[t][panes[i].field]}
      /\ trackSel < Len(tracks)

(* What starts playing is the track the user saw on the row, also when the menu  *)
(* stayed open while the library was scanned (playRow's startRow against         *)
(* m_trackRows).                                                                 *)
PlaysWhatIsShown == ~misplayed
=============================================================================
