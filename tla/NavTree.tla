------------------------------ MODULE NavTree ------------------------------
(* The media library's navigation tree: the item table of the one TreeViewWindow *)
(* (TreeViewWindow.cpp), which plugins fill by messages to the library window    *)
(* (MlLibraryWindow.cpp) from their init, and the rows a TreeListWidget shows of *)
(* it (TreeList.cpp).  Only init procs send messages: nothing calls a plugin     *)
(* after loadBuiltinMlPlugins.                                                   *)
EXTENDS Integers, Sequences, SequencesExt, FiniteSets

CONSTANTS
    Label,       \* the texts an item can have
    MaxItem      \* bound: items ever inserted

(* A handle is the id it decodes to: 0 for null, TVI_ROOT as a parent, and any   *)
(* handle with a foreign instance tag.                                           *)
Handle == 0 .. MaxItem
NoItem == 0

VARIABLES
    items,       \* m_items: id -> [parent, label, folder]
    scan,        \* the ids in the order QHash iterates them
    nextId,      \* m_nextId
    libSel,      \* m_tree.selection() of the library's own widget
    asked,       \* history: the item last selected, until the items change
    strays       \* history: the items inserted under a handle that named no item

navVars == <<items, scan, nextId, libSel, asked, strays>>

ASSUME NavAssumption == MaxItem \in Nat

NavTypeOK ==
    /\ DOMAIN items \subseteq 1 .. MaxItem
    /\ \A i \in DOMAIN items :
         items[i] \in [parent : Handle, label : Label, folder : BOOLEAN]
    /\ ToSet(scan) = DOMAIN items /\ Len(scan) = Cardinality(DOMAIN items)
    /\ nextId \in 1 .. MaxItem + 1
    /\ libSel \in Nat
    /\ asked \in Handle
    /\ strays \subseteq 1 .. MaxItem

NavInit ==
    /\ items = <<>>
    /\ scan = <<>>
    /\ nextId = 1
    /\ libSel = 0
    /\ asked = NoItem
    /\ strays = {}

-----------------------------------------------------------------------------
ChildrenOf(id) == {i \in DOMAIN items : items[i].parent = id}

(* rebuildRoots, by way of setRoots, puts the selection to row 0; the hash may   *)
(* iterate in any order after a change.                                          *)
Rebuild(table) ==
    /\ items' = table
    /\ scan' \in SetToSeqs(DOMAIN table)
    /\ libSel' = 0
    /\ asked' = NoItem

(* ML_IPC_NAVCTRL_INSERTITEM, TVM_INSERTITEMW: the parent is stored unchecked.   *)
InsertItem(parent, label, folder) ==
    /\ nextId <= MaxItem
    /\ Rebuild([i \in DOMAIN items \cup {nextId} |->
                  IF i = nextId
                  THEN [parent |-> parent, label |-> label, folder |-> folder]
                  ELSE items[i]])
    /\ nextId' = nextId + 1
    /\ strays' = IF parent \in DOMAIN items \cup {NoItem} THEN strays
                 ELSE strays \cup {nextId}

(* Mutant: only the item and its children go, one round of the cascade.          *)
OneRoundCascade(id) == {id} \cup ChildrenOf(id)

(* The fixpoint loop of TVM_DELETEITEM: rounds that add the children of what is  *)
(* to be removed.                                                                *)
Cascade(id) ==
    LET round[n \in 0 .. MaxItem] ==
          IF n = 0 THEN {id}
          ELSE round[n - 1] \cup UNION {ChildrenOf(i) : i \in round[n - 1]}
    IN  round[MaxItem]

DeleteItem(h) ==
    /\ h # NoItem
    /\ Rebuild([i \in DOMAIN items \ Cascade(h) |-> items[i]])
    /\ strays' = strays \ Cascade(h)
    /\ UNCHANGED nextId

DeleteAll ==
    /\ Rebuild(<<>>)
    /\ strays' = {}
    /\ UNCHANGED nextId

(* TVM_SELECTITEM: the row is the position in the hash.                          *)
SelectItem(h) ==
    /\ h \in DOMAIN items
    /\ \E row \in DOMAIN scan : scan[row] = h /\ libSel' = row - 1
    /\ asked' = h
    /\ UNCHANGED <<items, scan, nextId, strays>>

(* Mutant: TVM_GETNEXTITEM counts the rows in the order of the ids.              *)
SelectionById ==
    LET ids == SetToSortSeq(DOMAIN items, <)
    IN  IF libSel < Len(ids) THEN ids[libSel + 1] ELSE NoItem

(* ML_IPC_NAVCTRL_GETSELECTION, TVM_GETNEXTITEM: mapped back by the same scan.   *)
GetSelection ==
    IF libSel < Len(scan) THEN scan[libSel + 1] ELSE NoItem

(* A plugin knows the handles it was given, those of deleted items included.     *)
Given == 0 .. nextId - 1

PluginInit ==
    \/ \E p \in Given, l \in Label, f \in BOOLEAN : InsertItem(p, l, f)
    \/ \E h \in Given : DeleteItem(h)
    \/ DeleteAll
    \/ \E h \in Given : SelectItem(h)

-----------------------------------------------------------------------------
(* What a TreeListWidget is given.  A node with a childProvider shows the live   *)
(* children of its item; those have none of their own.                           *)
Node(id, deep) ==
    [item |-> id, label |-> items[id].label,
     provider |-> deep /\ (items[id].folder \/ ChildrenOf(id) # {})]
Nodes(parent, deep) ==
    LET ids == SetToSortSeq(ChildrenOf(parent), <)
    IN  [n \in DOMAIN ids |-> Node(ids[n], deep)]
PluginRoots == Nodes(NoItem, TRUE)

-----------------------------------------------------------------------------
(* Deleting an item leaves none of its descendants behind: an item whose parent  *)
(* is gone was inserted under a handle that named no item (TVM_DELETEITEM's      *)
(* cascade).                                                                     *)
NoOrphans ==
    \A i \in DOMAIN items :
      items[i].parent \in DOMAIN items \cup {NoItem} \/ i \in strays

(* A plugin that selects an item is told that item when it asks for the          *)
(* selection, for as long as nothing is inserted or deleted                      *)
(* (TVM_SELECTITEM, TVM_GETNEXTITEM).                                            *)
SelectionReported == asked # NoItem => GetSelection = asked
=============================================================================
