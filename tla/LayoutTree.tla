----------------------------- MODULE LayoutTree -----------------------------
(* A layout: its skin is read, its tree is expanded, its scripts are loaded, and *)
(* they switch its pages and move the divider of its frame; all of it on the GUI *)
(* thread.                                                                       *)
EXTENDS GroupExpansion, SplitFrames

vars == <<parserVars, expansionVars, frameVars>>

HasFrame == \E n \in DOMAIN tree : tree[n].el.tag = "wasabi_frame"

(* The variables of the frame mean nothing before there is one.                  *)
Init ==
    /\ ParserInit
    /\ ExpansionInit
    /\ frame = [far |-> FALSE, min |-> 0, divpos |-> 0]
    /\ pane = Planted(frame, {})
    /\ extent = 0
    /\ rect = Resolved(extent, pane)
    /\ dirty = FALSE

(* A pane is an instance of a groupdef, and takes from it what the frame has not *)
(* said: whether its size is relative.                                           *)
GroupOf(el, p) == Lookup(doc, el.panes[IF (p = "fixed") = el.split.far THEN 2 ELSE 1])
Relative(el) == {p \in Pane : doc.def[GroupOf(el, p)].relative}

VisitsFrame == Visiting /\ Element.tag = "wasabi_frame"

MakeFrame ==
    /\ VisitsFrame
    /\ VisitPlain
    /\ frame' = Element.split
    /\ pane' = Planted(Element.split, Relative(Element))
    /\ extent' \in Extent
    /\ rect' = Resolved(extent', pane')
    /\ UNCHANGED <<parserVars, dirty>>

Parse == ParserStep /\ UNCHANGED <<expansionVars, frameVars>>

Expand ==
    /\ ExpandLayout \/ (~VisitsFrame /\ ExpanderStep)
    /\ UNCHANGED <<parserVars, frameVars>>

Script ==
    \/ (LoadScripts \/ Paging) /\ UNCHANGED <<parserVars, frameVars>>
    \/ HasFrame /\ Loaded /\ todo = <<>> /\ FrameNext /\ UNCHANGED <<parserVars, expansionVars>>

Paint == ResolvePage /\ UNCHANGED <<parserVars, frameVars>>

Next == Parse \/ MakeFrame \/ Expand \/ Script \/ Paint

Spec == Init /\ [][Next]_vars
=============================================================================
