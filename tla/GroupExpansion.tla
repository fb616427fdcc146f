--------------------------- MODULE GroupExpansion ---------------------------
(* The Expander of Layout.cpp: it makes the tree of a window out of the elements *)
(* of its skin, and inlines groupdefs on the way; then the binding of scripts to *)
(* instances (SkinRuntime.cpp) and the pages of a groupxfade.  The recursion of  *)
(* visit() is a stack here: an entry is a loop or a call that has not returned.  *)
EXTENDS SkinXml, FiniteSetsExt

CONSTANTS Lower,        \* a name as it is spelled -> its lower case
          ByName,       \* the lower case names, in their order
          ContainerId, LayoutId,  \* the window that is opened, in lower case
          GroupIds      \* what scripts set the groupid of a groupxfade to

ASSUME NamesAssumption ==
    /\ None \notin Nat
    /\ ByName \in Seq(DOMAIN Lower)
    /\ \A el \in Nested[Nesting] : el.panes \in Seq(DOMAIN Lower)

VARIABLES doc,          \* the tables made of the document, once there is one
          todo,         \* the stack of the Expander, its top first
          inflight,     \* m_inflightInstances
          sendparams,   \* m_sendparams
          tree,         \* number -> widget, in the order the tree is walked in
          bound         \* <<script, widget>>: the script has the widget for its group

expansionVars == <<doc, todo, inflight, sendparams, tree, bound>>

(* A function that is y at x.                                                    *)
Extended(f, x, y) == [z \in (DOMAIN f) \cup {x} |-> IF z = x THEN y ELSE f[z]]

Root == 0
NewNode == Max(DOMAIN tree) + 1
Children(n) == {m \in DOMAIN tree : tree[m].up = n}
Loaded == bound # None

-----------------------------------------------------------------------------
(* The elements under one, in the order of the document.                         *)
Under(el) ==
    LET under[path \in Seq(Nat)] ==
            LET els == ElementsAt(el.kids, path)
            IN  FlattenSeq([i \in DOMAIN els |-> <<els[i]>> \o under[Append(path, i)]])
    IN  under[<<>>]

(* The elements of a sequence that are in a set, in their order.                 *)
Among(els, set) == FlattenSeq([i \in DOMAIN els |-> IF els[i] \in set THEN <<els[i]>> ELSE <<>>])

Tagged(el, tag) == Among(Under(el), {e \in ToSet(Under(el)) : e.tag = tag})

(* collectGroupdefs: a groupdef goes by its lower case id, or by its xuitag if   *)
(* it has none; of two with one name, the later one counts.                      *)
DefKey(def) == IF def.id = None THEN def.of ELSE Lower[def.id]

collectGroupdefs(root) ==
    LET defs    == Tagged(root, "groupdef")
        of(key) == {i \in DOMAIN defs : DefKey(defs[i]) = key}
    IN  [key \in {DefKey(defs[i]) : i \in DOMAIN defs} \ {None} |-> defs[Max(of(key))]]

(* collectSendparams: what is sent to the widgets of an id in an instance (or in *)
(* any: None), later elements over earlier ones.  One that names no target, or   *)
(* has nothing to send, says nothing.                                            *)
collectSendparams(els, sent) ==
    FoldLeft(LAMBDA all, el : IF None \in {el.id, el.value} THEN all
                              ELSE Extended(all, <<el.iid, el.id>>, el.value), sent, els)

(* Those of a layout, over what groupdefs send into certain instances.           *)
LayoutSends(root, layout) ==
    LET defs   == Tagged(root, "groupdef")
        inDefs == FlattenSeq([i \in DOMAIN defs |-> Tagged(defs[i], "sendparams")])
    IN  collectSendparams(Tagged(layout, "sendparams"),
            collectSendparams(Among(inDefs, {el \in ToSet(inDefs) : el.iid # None}), <<>>))

(* findContainer, findLayout: the layout that was asked for, or else the first.  *)
Called(els, id) == Among(els, {el \in ToSet(els) : el.id # None /\ Lower[el.id] = id})

findContainer(root) == Called(Tagged(root, "container"), ContainerId)

findLayout(container) ==
    LET layouts == Among(container.kids, {el \in ToSet(container.kids) : el.tag = "layout"})
    IN  Called(layouts, LayoutId) \o layouts

(* The groupdef of a name; an element names one by its id if it is a <group>, by *)
(* its tag if it is another.                                                     *)
Lookup(d, name) ==
    IF name # None /\ Lower[name] \in DOMAIN d.def THEN Lower[name] ELSE None

DefOf(d, el) == IF el.tag \in {"group", "xui"} THEN Lookup(d, el.of) ELSE None

-----------------------------------------------------------------------------
(* What a widget is made with: makeResolved.  `scope` is the instance it is in,  *)
(* `via` the groups spliced into its parent it came with.                        *)
Node(el, def, up, scope, via, value) ==
    [el |-> el, def |-> def, up |-> up, scope |-> scope, via |-> via, value |-> value,
     groupid |-> el.page, page |-> None]

(* An entry: what is left to visit into a widget; isScaffolding: only some tags  *)
(* are visited.                                                                  *)
isScaffolding(el) == el.tag \in {"groupdef", "sendparams", "script", "scripts"}

Visit(els, into, scope, via) ==
    [op |-> "visit", els |-> Among(els, {el \in ToSet(els) : ~isScaffolding(el)}),
     into |-> into, scope |-> scope, via |-> via]

(* applySendparams: those of the instance beat those of the layout.              *)
Sent(sent, scope, el, value) ==
    IF el.id = None THEN value
    ELSE IF <<scope, el.id>> \in DOMAIN sent THEN sent[<<scope, el.id>>]
    ELSE IF <<None, el.id>> \in DOMAIN sent THEN sent[<<None, el.id>>]
    ELSE value

ExpansionInit ==
    /\ doc = <<>> /\ bound = None
    /\ todo = <<>> /\ inflight = {} /\ sendparams = <<>> /\ tree = <<>>

(* expandLayout: the first entry visits the elements of the layout.  A skin that *)
(* has no such container, or no layout in it, is not opened.                     *)
ExpandLayout ==
    LET containers == findContainer(Document)
        layout     == findLayout(containers[1])[1]
    IN  /\ Parsed /\ doc = <<>>
        /\ containers # <<>> /\ findLayout(containers[1]) # <<>>
        /\ doc' = [def |-> collectGroupdefs(Document), layout |-> layout,
                   sends |-> LayoutSends(Document, layout),
                   pageSends |-> collectSendparams(Tagged(Document, "sendparams"), <<>>)]
        /\ inflight' = {} /\ sendparams' = doc'.sends
        /\ todo' = <<Visit(layout.kids, Root, None, {})>>
        /\ tree' = Extended(<<>>, Root, Node(layout, None, None, None, {}, None))
        /\ UNCHANGED bound

-----------------------------------------------------------------------------
(* The top of the stack.                                                         *)
Top == todo[1]
Running(op) == todo # <<>> /\ Top.op = op
Element == Top.els[1]
Visiting == Running("visit") /\ Top.els # <<>>
Rest == <<[Top EXCEPT !.els = Tail(@)]>> \o Tail(todo)

(* Mutant: no call looks at the set.                                             *)
NotLooked(name) == FALSE

(* The guard of all three recursions.                                            *)
InFlight(name) == name \in inflight

(* A loop is through.                                                            *)
EndLoop ==
    /\ Running("visit") /\ Top.els = <<>>
    /\ todo' = Tail(todo)
    /\ UNCHANGED <<doc, inflight, sendparams, tree, bound>>

(* visit(), an element that names a groupdef: nothing if that is being inlined,  *)
(* or else a widget, the bodies it inherits, its own, and the one in `content`.  *)
VisitInstance ==
    LET el    == Element
        def   == DefOf(doc, el)
        gid   == doc.def[def].id
        scope == IF el.iid = None THEN Top.scope ELSE el.iid
        entry(op, d) == [op |-> op, def |-> d, into |-> NewNode, scope |-> scope, via |-> {}]
    IN  /\ Visiting
        /\ def # None
        /\ IF InFlight(gid)
           THEN /\ todo' = Rest
                /\ UNCHANGED <<inflight, tree>>
           ELSE /\ inflight' = inflight \cup {gid}
                /\ tree' = Extended(tree, NewNode, Node(el, def, Top.into, Top.scope, Top.via, el.value))
                /\ todo' = <<entry("inherit", def), entry("body", def), entry("content", def),
                             [op |-> "leave", key |-> gid]>> \o Rest
        /\ UNCHANGED <<doc, sendparams, bound>>

(* applyInherit: the groups above first, then the body of this one.              *)
ApplyInherit ==
    LET inh == doc.def[Top.def].inherit
        up  == Lookup(doc, inh)
        entry(op) == [Top EXCEPT !.op = op, !.def = up, !.via = @ \cup {inh}]
    IN  /\ Running("inherit")
        /\ IF up = None \/ InFlight(inh)
           THEN /\ todo' = Tail(todo)
                /\ UNCHANGED inflight
           ELSE /\ inflight' = inflight \cup {inh}
                /\ todo' = <<entry("inherit"), entry("body"), [op |-> "leave", key |-> inh]>>
                           \o Tail(todo)
        /\ UNCHANGED <<doc, sendparams, tree, bound>>

(* The attributes of a groupdef fill in what the widget has not got; after its   *)
(* own come the sendparams.  Then its children.                                  *)
EnterBody ==
    LET n     == Top.into
        value == IF tree[n].value = None THEN doc.def[Top.def].value ELSE tree[n].value
        own   == Top.via = {}
    IN  /\ Running("body")
        /\ tree' = [tree EXCEPT ![n].value =
                        IF own THEN Sent(sendparams, tree[n].scope, tree[n].el, value) ELSE value]
        /\ todo' = <<Visit(doc.def[Top.def].kids, n, Top.scope, Top.via)>> \o Tail(todo)
        /\ UNCHANGED <<doc, inflight, sendparams, bound>>

(* content= of a frame: the children of another groupdef, without a widget.      *)
InjectContent ==
    LET name == tree[Top.into].el.content
        def  == Lookup(doc, name)
    IN  /\ Running("content")
        /\ IF def = None \/ InFlight(name)
           THEN /\ todo' = Tail(todo)
                /\ UNCHANGED inflight
           ELSE /\ inflight' = inflight \cup {name}
                /\ todo' = <<Visit(doc.def[def].kids, Top.into, Top.scope, {name}),
                             [op |-> "leave", key |-> name]>> \o Tail(todo)
        /\ UNCHANGED <<doc, sendparams, tree, bound>>

(* Mutant: the name stays in flight.                                             *)
LeaveStuck ==
    /\ Running("leave")
    /\ todo' = Tail(todo)
    /\ UNCHANGED <<doc, inflight, sendparams, tree, bound>>

(* The groupdef is through: its siblings may inline it again.                    *)
LeaveGroup ==
    /\ Running("leave")
    /\ inflight' = inflight \ {Top.key}
    /\ todo' = Tail(todo)
    /\ UNCHANGED <<doc, sendparams, tree, bound>>

(* Elements that no file has: <group id="name"/> for each of some names.          *)
Groups(names) ==
    [i \in DOMAIN names |-> [Bare("group") EXCEPT !.id = names[i], !.of = names[i]]]

(* <Wasabi:Frame>: a group of the panes whose groupdefs there are.               *)
PaneElements(el) == Groups(Among(el.panes, {name \in ToSet(el.panes) : Lookup(doc, name) # None}))

(* <componentbucket>: a group for every groupdef made for it, by name.           *)
Entries(el) ==
    IF el.tag # "componentbucket" THEN <<>>
    ELSE Groups(Among(ByName, {k \in DOMAIN doc.def : doc.def[k].id # None /\ doc.def[k].wndtype}))

(* What is visited for an element that stands for itself: of a frame, its panes. *)
Held(el) == IF el.tag = "wasabi_frame" THEN PaneElements(el) ELSE el.kids \o Entries(el)

(* visit(), an element that stands for itself.                                   *)
VisitPlain ==
    LET el == Element IN
        /\ Visiting
        /\ DefOf(doc, el) = None
        /\ tree' = Extended(tree, NewNode, Node(el, None, Top.into, Top.scope, Top.via,
                                            Sent(sendparams, Top.scope, el, el.value)))
        /\ todo' = <<Visit(Held(el), NewNode, Top.scope, {})>> \o Rest
        /\ UNCHANGED <<doc, inflight, sendparams, bound>>

ExpanderStep ==
    \/ EndLoop \/ VisitInstance \/ ApplyInherit \/ EnterBody \/ InjectContent \/ LeaveGroup
    \/ VisitPlain

-----------------------------------------------------------------------------
(* Scripts are loaded once the tree is made.  findOwnerWidget: the first widget  *)
(* with the name for an id; or else for its tag, or its inherit_group; or else   *)
(* the first that was made of that groupdef.                                     *)
Named(name) == {n \in DOMAIN tree : tree[n].el.id = name}

MadeTag(n) == IF tree[n].def # None THEN "group"
          ELSE IF tree[n].el.tag = "xui" THEN Lower[tree[n].el.of] ELSE tree[n].el.tag

OfTag(name) == {n \in DOMAIN tree : MadeTag(n) = name}
Inheriting(name) == {n \in DOMAIN tree : tree[n].el.inherit = name}

MadeOf(name) ==
    {n \in DOMAIN tree :
        \/ tree[n].el.iid = name
        \/ /\ tree[n].def # None
           /\ \/ doc.def[tree[n].def].id = name
              \/ tree[n].el.content = name}

Bearing(name) ==
    IF Named(name) # {} THEN Named(name)
    ELSE IF OfTag(name) # {} THEN OfTag(name)
    ELSE IF Inheriting(name) # {} THEN Inheriting(name)
    ELSE MadeOf(name)

findOwnerWidget(name) == IF name = None \/ Bearing(name) = {} THEN None ELSE Min(Bearing(name))

(* The object a script gets is that of the first widget with its owner's id.     *)
Handle(n) == IF tree[n].el.id = None THEN n ELSE Min(Named(tree[n].el.id))

(* Mutant: a groupdef has one script, however often it was instantiated.         *)
OwnersOnce(name) == {name}

(* A groupdef that was instantiated more than once has a script for each id.     *)
Owners(name) ==
    LET insts == {n \in DOMAIN tree : tree[n].def # None /\ doc.def[tree[n].def].id = name
                                          /\ tree[n].el.id # None}
    IN  IF Cardinality(insts) > 1 THEN {tree[n].el.id : n \in insts} ELSE {name}

(* Of all scripts of the skin, a window has those whose owner is in its tree;    *)
(* those without an owner run in every window, for no group.                     *)
InWindow == {r \in ToSet(refs) : findOwnerWidget(r.owner) # None}

LoadScripts ==
    /\ doc # <<>> /\ todo = <<>> /\ ~Loaded
    /\ bound' = UNION {{<<r.file, Handle(findOwnerWidget(o))>> : o \in Owners(r.owner)} : r \in InWindow}
    /\ UNCHANGED <<doc, todo, inflight, sendparams, tree>>

-----------------------------------------------------------------------------
(* A groupxfade shows the groupdef its groupid names: a script sets it, and the  *)
(* next paint throws the page away and expands the new one, by an Expander that  *)
(* has the sendparams of the whole skin.                                         *)
Within(n, top) ==
    LET within[m \in DOMAIN tree] ==
            m # Root /\ (tree[m].up = top \/ within[tree[m].up])
    IN  within[n]

Stale == {n \in DOMAIN tree : tree[n].el.tag = "groupxfade" /\ tree[n].groupid \notin {None, tree[n].page}}

SetGroupId(n, name) ==
    /\ todo = <<>> /\ Loaded
    /\ tree[n].el.tag = "groupxfade"
    /\ tree' = [tree EXCEPT ![n].groupid = name]
    /\ UNCHANGED <<doc, todo, inflight, sendparams, bound>>

ResolvePage ==
    LET n    == Min(Stale)
        def  == Lookup(doc, tree[n].groupid)
        kept == {m \in DOMAIN tree : ~Within(m, n)}
    IN  /\ todo = <<>> /\ Loaded /\ Stale # {}
        /\ tree' = [m \in kept |-> IF m = n THEN [tree[n] EXCEPT !.page = tree[n].groupid]
                                   ELSE tree[m]]
        /\ inflight' = {} /\ sendparams' = doc.pageSends
        /\ todo' = IF def = None THEN <<>> ELSE <<Visit(doc.def[def].kids, n, None, {})>>
        /\ UNCHANGED <<doc, bound>>

Paging == \E n \in DOMAIN tree : \E name \in GroupIds : SetGroupId(n, name)

-----------------------------------------------------------------------------
(* No two calls on the stack inline one name, and a name is in flight exactly    *)
(* while its call is on the stack: so the recursion of visit() ends, whatever    *)
(* groupdefs a skin has and however it spells them, and the early return of one  *)
(* call never takes the guard of another away.                                   *)
OneCallPerName ==
    LET calls == {i \in DOMAIN todo : todo[i].op = "leave"}
    IN  /\ inflight = {todo[i].key : i \in calls}
        /\ Cardinality(calls) = Cardinality(inflight)

(* The page of a groupxfade is expanded afresh.                                  *)
Paged(n) == tree[n].page # None

(* The name of a groupdef, if there is one.                                      *)
Ids(def) == {doc.def[d].id : d \in {def} \ {None}}

(* The names a widget is inside of: of its own groupdef and of those it was      *)
(* spliced in with, all the way up to the layout or the page.                    *)
Open(n) ==
    LET open[m \in DOMAIN tree] ==
            IF m = Root \/ Paged(m) THEN {}
            ELSE Ids(tree[m].def) \cup tree[m].via \cup open[tree[m].up]
    IN  open[n]

(* What a body puts into a widget that is inside of the open names.              *)
Part(els, open) ==
    Among(els, {el \in ToSet(els) : ~isScaffolding(el) /\ Ids(DefOf(doc, el)) \cap open = {}})

(* What it inherits, the groups above first; `above` are those on the way there. *)
InheritedParts(of, open, above) ==
    LET inherits == {doc.def[e].inherit : e \in DOMAIN doc.def}
        parts[at \in (DOMAIN doc.def) \X (SUBSET inherits)] ==
            LET inh == doc.def[at[1]].inherit
                up  == Lookup(doc, inh)
                on  == at[2] \cup {inh}
            IN  IF up = None \/ inh \in open \cup at[2] THEN <<>>
                ELSE parts[<<up, on>>] \o Part(doc.def[up].kids, open \cup on)
    IN  parts[<<of, above>>]

ContentPart(el, open) ==
    LET def == Lookup(doc, el.content)
    IN  IF def = None \/ el.content \in open THEN <<>>
        ELSE Part(doc.def[def].kids, open \cup {el.content})

PagePart(n) ==
    LET def == Lookup(doc, tree[n].page) IN IF def = None THEN <<>> ELSE Part(doc.def[def].kids, {})

Unfolding(n) ==
    LET el  == tree[n].el
        def == tree[n].def
    IN  IF n = Root THEN Part(doc.layout.kids, {})
        ELSE IF def # None THEN InheritedParts(def, Open(n), {}) \o Part(doc.def[def].kids, Open(n))
                                \o ContentPart(el, Open(n))
        ELSE IF Paged(n) THEN PagePart(n)
        ELSE Part(Held(el), Open(n))

(* The instance with an instanceid that a widget is in.                          *)
Instance(n) ==
    LET instance[m \in DOMAIN tree] ==
            LET up == tree[m].up
            IN  IF m = Root \/ Paged(up) THEN None
                ELSE IF tree[up].def # None /\ tree[up].el.iid # None THEN tree[up].el.iid
                ELSE instance[up]
    IN  instance[n]

(* The pages a widget is in.                                                     *)
Pages(n) == {m \in DOMAIN tree : Paged(m) /\ Within(n, m)}

(* What the instance says of the widget, or else the layout; or, of one that is  *)
(* in a page, the skin.                                                          *)
HasSent(n) ==
    LET own   == <<Instance(n), tree[n].el.id>>
        every == <<None, tree[n].el.id>>
        said  == IF Pages(n) = {} THEN doc.sends ELSE doc.pageSends
    IN  tree[n].el.id # None =>
            /\ own \in DOMAIN said => tree[n].value = said[own]
            /\ every \in DOMAIN said /\ own \notin DOMAIN said => tree[n].value = said[every]

(* The number of a widget among its siblings, in the order they were made.        *)
Nth(m) == Cardinality({k \in Children(tree[m].up) : k <= m})

(* A finished tree is the skin unfolded: every widget has the children that its  *)
(* groupdef and what that inherits and contains declare, in order, none missing  *)
(* and none twice, but for those it would be inside of already; and it has what  *)
(* sendparams say of it in its instance.  The one set of names in flight, shared *)
(* by all calls, and the scope each call hands down must say so at each of them. *)
TreeIsTheUnfolding ==
    doc # <<>> /\ todo = <<>> =>
        \A n \in DOMAIN tree :
            LET els == Unfolding(n)
            IN  /\ Cardinality(Children(n)) = Len(els)
                /\ \A m \in Children(n) : tree[m].el = els[Nth(m)]
                /\ n # Root => HasSent(n)

-----------------------------------------------------------------------------
(* The widgets there were when the scripts were loaded: pages come later.        *)
Standing == {n \in DOMAIN tree : Pages(n) = {}}

(* The element a widget has its children from, and the scripts that element has  *)
(* for itself: not those in another scope within it.                             *)
Source(n) == IF tree[n].def = None THEN tree[n].el ELSE doc.def[tree[n].def]

ScriptsIn(text, scope) ==
    LET scripts[path \in Seq(Nat)] ==
            LET at == Descend(text, scope, path)
            IN  FlattenSeq([i \in DOMAIN at.els |->
                    scripts[Append(path, i)] \o Noted(at.els[i], at.scope)])
    IN  scripts[<<>>]

OwnScripts(el) == {r.file : r \in {s \in ToSet(ScriptsIn(el.kids, None)) : s.owner = None}}

Scripted == {el \in ToSet(Under(Document)) : IsScope(el) /\ OwnScripts(el) # {}}

(* What a widget is found by when an owner is looked for, but for its content;   *)
(* that content; and the widget whose object scripts get for it, the first of    *)
(* its id.                                                                       *)
NamesOf(n) == {tree[n].el.id, MadeTag(n), tree[n].el.inherit, tree[n].el.iid} \cup Ids(tree[n].def)
ContentOf(n) == IF tree[n].def = None THEN None ELSE tree[n].el.content
Injected(n) == {doc.def[def] : def \in {Lookup(doc, ContentOf(n))} \ {None}}
FirstOf(n) ==
    IF tree[n].el.id = None THEN n ELSE Min({m \in Standing : tree[m].el.id = tree[n].el.id})

(* No page takes the place of widgets that the scripts found.                    *)
PagesComeLater == \A n \in Standing : tree[n].el.tag = "groupxfade" => tree[n].el.kids = <<>>

(* What has the scope's name is made of it (of two layouts with one id, say, none *)
(* or both) and has an id; and what has the scope for its content does not stand *)
(* in for an instance of it.                                                     *)
Clear(scope) ==
    LET insts   == {n \in Standing : Source(n) = scope}
        holders == {n \in Standing : ContentOf(n) = scope.id}
    IN  /\ \A n \in Standing : scope.id \in NamesOf(n) => n \in insts
        /\ \A n \in insts : tree[n].el.id # None
        /\ \A n \in holders : scope \in Injected(n)
        /\ insts # {} /\ holders # {} => \E n \in insts : tree[n].el.id = scope.id

(* Each instance of a scope has the scope's scripts for its own ("give each      *)
(* instance its OWN script", Layout.cpp:312), whatever file they were read from  *)
(* and however often other ids of the tree occur: on itself, if no widget before *)
(* it has its id, and else on the first that has, which it shares them with.  And *)
(* a window runs a script only on what is called like its scope ("Scope to THIS  *)
(* window", SkinRuntime.cpp:294), an instance if nothing else bears the name.    *)
OwnScript ==
    Loaded /\ PagesComeLater =>
        /\ \A n \in Standing :
               IsScope(Source(n)) /\ tree[n].el.id # None /\ Clear(Source(n)) =>
                   \A script \in OwnScripts(Source(n)) : <<script, FirstOf(n)>> \in bound
        /\ \A b \in bound : \E scope \in Scripted, n \in Standing :
               /\ b[1] \in OwnScripts(scope) /\ b[2] = FirstOf(n)
               /\ scope.id \in NamesOf(n) \cup {ContentOf(n)}
               /\ Clear(scope) => Source(n) = scope \/ scope \in Injected(n)
=============================================================================
