--------------------------- MODULE HostedListsProofs ---------------------------
(* Proofs about HostedLists, with the tree, the library view and the playlist    *)
(* editor it composes, for any library, playlist, presets and number of items.   *)
EXTENDS HostedLists, CollectionLemmas

(* The values a pane can offer.                                                *)
TagValues == {Tag[t][f] : t \in Track, f \in Fields}

(* What a pane holds.                                                          *)
PaneRecord ==
    [field : Fields, values : Seq(TagValues), selected : TagValues \cup {All},
     lastSel : Nat, sel : Int, seen : BOOLEAN]

(* The host's lists: the current row is a row of the playlist.                 *)
HostInv == HostTypeOK /\ current < rowCount

(* The tree: every item is on exactly one row, and the asked item is the       *)
(* selected one.                                                               *)
NavInv ==
    /\ NavTypeOK
    /\ scan \in SetToSeqs(DOMAIN items)
    /\ asked # NoItem => libSel < Len(scan) /\ scan[libSel + 1] = asked
    /\ NoOrphans

(* What a pane shows selected is what it filters by.                           *)
PaneAgrees(pane) ==
    /\ pane.sel = pane.lastSel
    /\ pane.lastSel <= Len(pane.values)
    /\ pane.selected = ValueAt(pane, pane.lastSel)

(* The library view: it has the preset's panes once it is loaded, every pane   *)
(* agrees with itself and every listed track with every pane.                  *)
MlInv ==
    /\ preset \in DOMAIN Presets
    /\ panes \in Seq(PaneRecord)
    /\ loaded \in BOOLEAN
    /\ IF loaded THEN Len(panes) = Len(Presets[preset])
       ELSE preset = 1 /\ panes = <<>> /\ menu = NoMenu
    /\ tracks \in Seq(Track) /\ Len(tracks) <= Cardinality(Track)
    /\ trackSel \in -1 .. Len(tracks) - 1
    /\ trackClick \in -1 .. Cardinality(Track) - 1
    /\ \A i \in 1..Len(panes) :
          /\ PaneAgrees(panes[i])
          /\ \A t \in ToSet(tracks) : panes[i].selected \in {All, Tag[t][panes[i].field]}
    /\ misplayed = FALSE

(* An open menu over a track still names the track the user saw on that row.   *)
MenuHolds ==
    \/ menu = NoMenu
    \/ /\ menu.kind \in {"filters", "panes", "play"}
       /\ menu.kind = "play" =>
            /\ menu.row \in Nat /\ menu.saw = TrackAt(menu.row)
            /\ tracks = <<>> \/ menu.row < Len(tracks)

(* The surface: it has tried to create its renderer at most once, and a        *)
(* library view it shows is a loaded one.                                      *)
HolderInv ==
    /\ hold \in {"pl", "ml"} /\ factories \subseteq Registered
    /\ renderer \in {None, "pl", "ml"}
    /\ renderer = "ml" => loaded
    /\ tried = FALSE => renderer = None /\ loaded = FALSE
    /\ topRow \in 0 .. MaxRows /\ fbClick \in -1 .. MaxRows - 1

-----------------------------------------------------------------------------
(* Deleting an item.                                                             *)

(* A round that adds nothing is the last one, and there are not more rounds than  *)
(* items: what TVM_DELETEITEM removes has all its descendants.                   *)
LEMMA CascadeClosed ==
    ASSUME DOMAIN items \subseteq 1 .. MaxItem, NEW h \in 1 .. MaxItem
    PROVE  \A i \in DOMAIN items : items[i].parent \in Cascade(h) => i \in Cascade(h)
<1> USE NavAssumption
<1> DEFINE U == 1 .. MaxItem
           step == [n \in Nat |-> [v \in SUBSET U |-> v \cup UNION {ChildrenOf(i) : i \in v}]]
           round == CHOOSE f : f = [n \in 0 .. MaxItem |->
                      IF n = 0 THEN {h}
                      ELSE f[n - 1] \cup UNION {ChildrenOf(i) : i \in f[n - 1]}]
<1>1. \A i : ChildrenOf(i) \subseteq U
  BY DEF ChildrenOf
<1>2. step \in [Nat -> [SUBSET U -> SUBSET U]] /\ {h} \in SUBSET U
  BY <1>1
<1>3. PICK g : RecursionUpTo(g, MaxItem, SUBSET U, {h}, step)
  <2> HIDE DEF step, U
  <2> QED BY <1>2, RecursionTo
<1>4. /\ g \in [0 .. MaxItem -> SUBSET U] /\ g[0] = {h}
      /\ \A n \in 1 .. MaxItem : g[n] = step[n - 1][g[n - 1]]
  <2> HIDE DEF step, U
  <2> QED BY <1>3 DEF RecursionUpTo
<1>5. ASSUME NEW n \in 1 .. MaxItem
      PROVE  g[n] = g[n - 1] \cup UNION {ChildrenOf(i) : i \in g[n - 1]}
  <2>1. n - 1 \in Nat /\ n - 1 \in 0 .. MaxItem
    OBVIOUS
  <2>2. g[n - 1] \in SUBSET U /\ g[n] = step[n - 1][g[n - 1]]
    <3> HIDE DEF step, U
    <3> QED BY <1>4, <2>1
  <2> HIDE DEF U
  <2>3. step[n - 1][g[n - 1]] = g[n - 1] \cup UNION {ChildrenOf(i) : i \in g[n - 1]}
    BY <2>1, <2>2
  <2> HIDE DEF step
  <2> QED BY <2>2, <2>3
<1> HIDE DEF step
<1>6. g = [n \in 0 .. MaxItem |->
             IF n = 0 THEN {h} ELSE g[n - 1] \cup UNION {ChildrenOf(i) : i \in g[n - 1]}]
  <2>1. \A n \in 0 .. MaxItem : n # 0 => n \in 1 .. MaxItem
    OBVIOUS
  <2> HIDE DEF U
  <2> QED BY <1>4, <1>5, <2>1
<1>7. round = [n \in 0 .. MaxItem |->
             IF n = 0 THEN {h} ELSE round[n - 1] \cup UNION {ChildrenOf(i) : i \in round[n - 1]}]
  BY <1>6, Zenon
<1>8. Cascade(h) = round[MaxItem]
  BY DEF Cascade
<1> HIDE DEF round
<1> DEFINE Next1(v) == v \cup UNION {ChildrenOf(i) : i \in v}
           Closed(v) == \A i \in DOMAIN items : items[i].parent \in v => i \in v
           Right(n) == /\ round[n] \subseteq U
                       /\ Closed(round[n]) \/ Cardinality(round[n]) >= n + 1
           S == {n \in Nat : n <= MaxItem => Right(n)}
<1>9. ASSUME NEW v \in SUBSET U
      PROVE  IsFiniteSet(v) /\ Cardinality(v) \in Nat /\ Cardinality(v) <= MaxItem
  <2>1. IsFiniteSet(U) /\ Cardinality(U) = MaxItem
    BY FS_Interval
  <2> HIDE DEF U
  <2> QED BY <2>1, <1>9, FS_Subset, FS_CardinalityType
<1>10. 0 \in S
  <2>1. round[0] = {h}
    BY <1>7
  <2>2. Cardinality({h}) = 1
    BY FS_Singleton
  <2> QED BY <2>1, <2>2
<1>11. ASSUME NEW n \in Nat, n \in S PROVE n + 1 \in S
  <2> SUFFICES ASSUME n + 1 <= MaxItem PROVE Right(n + 1)
    OBVIOUS
  <2> DEFINE v == round[n]
             w == round[n + 1]
  <2>1. w = Next1(v)
    <3>1. n + 1 \in 0 .. MaxItem /\ n + 1 # 0 /\ (n + 1) - 1 = n
      OBVIOUS
    <3> QED BY <1>7, <3>1
  <2>2. v \in SUBSET U /\ (Closed(v) \/ Cardinality(v) >= n + 1)
    BY <1>11
  <2> HIDE DEF v, w
  <2>3. w \in SUBSET U /\ v \subseteq w
    <3> HIDE DEF U
    <3> QED BY <1>1, <2>1, <2>2
  <2>4. CASE Closed(v)
    <3>1. w = v
      BY <2>1, <2>4 DEF ChildrenOf
    <3> QED BY <2>3, <2>4, <3>1 DEF w
  <2>5. CASE ~Closed(v)
    <3>1. PICK i \in DOMAIN items : items[i].parent \in v /\ i \notin v
      BY <2>5
    <3>2. i \in w
      BY <2>1, <3>1 DEF ChildrenOf
    <3>3. Cardinality(v \cup {i}) = Cardinality(v) + 1
      BY <1>9, <2>2, <3>1, FS_AddElement
    <3>4. Cardinality(v \cup {i}) <= Cardinality(w)
      <4>1. IsFiniteSet(w) /\ v \cup {i} \in SUBSET w
        BY <1>9, <2>3, <3>2
      <4> QED BY <4>1, FS_Subset
    <3>5. Cardinality(v) >= n + 1 /\ Cardinality(v) \in Nat /\ Cardinality(w) \in Nat
      BY <1>9, <2>2, <2>3, <2>5
    <3>6. Cardinality(w) >= n + 2
      BY <3>3, <3>4, <3>5
    <3> QED BY <2>3, <3>5, <3>6 DEF w
  <2> QED BY <2>4, <2>5
<1>12. Nat \subseteq S
  <2> HIDE DEF S
  <2> QED BY <1>10, <1>11, NatSet
<1>13. Right(MaxItem)
  <2> HIDE DEF Right
  <2> QED BY <1>12
<1>14. Closed(round[MaxItem])
  BY <1>9, <1>13
<1> QED BY <1>8, <1>14

-----------------------------------------------------------------------------
(* The tree's items.                                                             *)

(* After a change of the items the rows are those of the new table, and nothing   *)
(* is selected.                                                                  *)
LEMMA RebuildFacts ==
    ASSUME NEW table, Rebuild(table), DOMAIN table \subseteq 1 .. MaxItem
    PROVE  /\ items' = table /\ libSel' = 0 /\ asked' = NoItem
           /\ scan' \in SetToSeqs(DOMAIN items')
           /\ ToSet(scan') = DOMAIN items' /\ Len(scan') = Cardinality(DOMAIN items')
<1> USE NavAssumption
<1>1. IsFiniteSet(DOMAIN table)
  <2>1. IsFiniteSet(1 .. MaxItem)
    BY FS_Interval
  <2> QED BY <2>1, FS_Subset
<1>2. items' = table /\ scan' \in SetToSeqs(DOMAIN table) /\ libSel' = 0 /\ asked' = NoItem
  BY DEF Rebuild
<1> QED BY <1>1, <1>2, SetToSeqsFacts

(* A step of the library plugins keeps the tree's part.                        *)
LEMMA NavStep ==
    ASSUME NavInv, PluginInit \/ UNCHANGED navVars
    PROVE  NavInv'
<1> USE NavAssumption DEF NoItem
<1> DEFINE Item == [parent : Handle, label : Label, folder : BOOLEAN]
<1>0. /\ DOMAIN items \subseteq 1 .. MaxItem /\ \A i \in DOMAIN items : items[i] \in Item
      /\ nextId \in 1 .. MaxItem + 1 /\ strays \subseteq 1 .. MaxItem
      /\ \A i \in DOMAIN items : items[i].parent \in DOMAIN items \cup {0} \/ i \in strays
  BY DEF NavInv, NavTypeOK, NoOrphans
<1>1. ASSUME NEW p \in Given, NEW l \in Label, NEW f \in BOOLEAN, InsertItem(p, l, f)
      PROVE  NavInv'
  <2> DEFINE new == [parent |-> p, label |-> l, folder |-> f]
             table == [i \in DOMAIN items \cup {nextId} |-> IF i = nextId THEN new ELSE items[i]]
  <2>1. /\ nextId <= MaxItem /\ nextId' = nextId + 1 /\ Rebuild(table)
        /\ strays' = IF p \in DOMAIN items \cup {0} THEN strays ELSE strays \cup {nextId}
    BY <1>1 DEF InsertItem
  <2>2. new \in Item /\ new.parent = p
    BY <1>0, <1>1, <2>1 DEF Given, Handle
  <2>3. /\ DOMAIN table = DOMAIN items \cup {nextId} /\ nextId \in 1 .. MaxItem
        /\ table[nextId] = new /\ \A i \in DOMAIN items : i # nextId => table[i] = items[i]
    BY <1>0, <2>1
  <2> HIDE DEF table, new, Item
  <2>4. DOMAIN table \subseteq 1 .. MaxItem
    BY <1>0, <2>3
  <2>5. /\ items' = table /\ libSel' = 0 /\ asked' = 0
        /\ scan' \in SetToSeqs(DOMAIN items')
        /\ ToSet(scan') = DOMAIN items' /\ Len(scan') = Cardinality(DOMAIN items')
    BY <2>1, <2>4, RebuildFacts
  <2>6. \A i \in DOMAIN items' : items'[i] \in Item
    BY <1>0, <2>2, <2>3, <2>5
  <2>7. NavTypeOK'
    BY <1>0, <2>1, <2>3, <2>4, <2>5, <2>6 DEF NavTypeOK, Handle, Item
  <2>8. NoOrphans'
    BY <1>0, <2>1, <2>2, <2>3, <2>5 DEF NoOrphans
  <2> QED BY <2>5, <2>7, <2>8 DEF NavInv
<1>2. ASSUME NEW h \in Given, DeleteItem(h) PROVE NavInv'
  <2> DEFINE gone == Cascade(h)
             table == [i \in DOMAIN items \ gone |-> items[i]]
  <2>1. h # 0 /\ Rebuild(table) /\ strays' = strays \ gone /\ nextId' = nextId
    BY <1>2 DEF DeleteItem
  <2>2. h \in 1 .. MaxItem
    BY <1>0, <2>1 DEF Given
  <2>3. \A i \in DOMAIN items : items[i].parent \in gone => i \in gone
    BY <1>0, <2>2, CascadeClosed
  <2> HIDE DEF gone
  <2>4. DOMAIN table = DOMAIN items \ gone /\ \A i \in DOMAIN table : table[i] = items[i]
    OBVIOUS
  <2> HIDE DEF table, Item
  <2>5. /\ items' = table /\ libSel' = 0 /\ asked' = 0
        /\ scan' \in SetToSeqs(DOMAIN items')
        /\ ToSet(scan') = DOMAIN items' /\ Len(scan') = Cardinality(DOMAIN items')
    BY <1>0, <2>1, <2>4, RebuildFacts
  <2>8. \A i \in DOMAIN items' : i \in 1 .. MaxItem /\ items'[i] \in Item
    BY <1>0, <2>4, <2>5
  <2>9. /\ asked' \in Handle /\ libSel' \in Nat /\ nextId' \in 1 .. MaxItem + 1
        /\ strays' \subseteq 1 .. MaxItem
    <3>1. 0 \in Handle /\ 0 \in Nat
      BY DEF Handle
    <3>2. strays' \subseteq 1 .. MaxItem
      BY <1>0, <2>1
    <3> QED BY <1>0, <2>1, <2>5, <3>1, <3>2
  <2>6. NavTypeOK'
    BY <2>5, <2>8, <2>9 DEF NavTypeOK, Item
  <2>7. NoOrphans'
    BY <1>0, <2>1, <2>3, <2>4, <2>5 DEF NoOrphans
  <2> QED BY <2>5, <2>6, <2>7 DEF NavInv
<1>3. CASE DeleteAll
  <2>1. Rebuild(<<>>) /\ strays' = {} /\ nextId' = nextId /\ DOMAIN <<>> = {}
    BY <1>3 DEF DeleteAll
  <2>2. /\ items' = <<>> /\ libSel' = 0 /\ asked' = 0
        /\ scan' \in SetToSeqs(DOMAIN items')
        /\ ToSet(scan') = DOMAIN items' /\ Len(scan') = Cardinality(DOMAIN items')
    BY <2>1, RebuildFacts
  <2> QED BY <1>0, <2>1, <2>2 DEF NavInv, NavTypeOK, NoOrphans, Handle
<1>4. ASSUME NEW h \in Given, SelectItem(h) PROVE NavInv'
  <2>1. PICK row \in DOMAIN scan : scan[row] = h /\ libSel' = row - 1
    BY <1>4 DEF SelectItem
  <2>2. h \in DOMAIN items /\ asked' = h /\ UNCHANGED <<items, scan, nextId, strays>>
    BY <1>4 DEF SelectItem
  <2>3. IsFiniteSet(DOMAIN items)
    <3>1. IsFiniteSet(1 .. MaxItem)
      BY FS_Interval
    <3> QED BY <1>0, <3>1, FS_Subset
  <2>4. scan \in Seq(DOMAIN items)
    BY <2>3, SetToSeqsFacts DEF NavInv
  <2>5. row \in 1 .. Len(scan) /\ Len(scan) \in Nat
    BY <2>1, <2>4
  <2>6. libSel' \in Nat /\ libSel' < Len(scan') /\ libSel' + 1 = row
    BY <2>1, <2>2, <2>5
  <2>7. asked' \in Handle
    BY <1>0, <2>2 DEF Handle
  <2> QED BY <2>1, <2>2, <2>6, <2>7 DEF NavInv, NavTypeOK, NoOrphans
<1>5. CASE UNCHANGED navVars
  BY <1>5 DEF navVars, NavInv, NavTypeOK, NoOrphans, ChildrenOf
<1> QED BY <1>1, <1>2, <1>3, <1>4, <1>5 DEF PluginInit

-----------------------------------------------------------------------------
(* The host's answers.                                                           *)

(* A query of the host lists each matching track once.                         *)
LEMMA QueryFacts ==
    ASSUME library \subseteq Track, NEW eq
    PROVE  /\ mlTracksQuery(eq) \in Seq(Track)
           /\ Len(mlTracksQuery(eq)) <= Cardinality(Track) /\ Cardinality(Track) \in Nat
           /\ ToSet(mlTracksQuery(eq)) = Matching(eq)
<1> USE MediaAssumption
<1> DEFINE M == Matching(eq)
<1>1. M \subseteq Track
  BY DEF Matching
<1> HIDE DEF M
<1>2. IsFiniteSet(M) /\ Cardinality(M) <= Cardinality(Track) /\ Cardinality(Track) \in Nat
  BY <1>1, FS_Subset, FS_CardinalityType
<1>3. /\ SetToSeq(M) \in Seq(M) /\ Len(SetToSeq(M)) = Cardinality(M)
      /\ ToSet(SetToSeq(M)) = M
  BY <1>2, SetToSeqFacts
<1>4. SetToSeq(M) \in Seq(Track)
  BY <1>1, <1>3
<1> QED BY <1>2, <1>3, <1>4 DEF mlTracksQuery, M

(* The values of a field over the matching tracks are a list of values.        *)
LEMMA ValuesFacts ==
    ASSUME library \subseteq Track, NEW field \in Fields, NEW eq
    PROVE  mlFilterValues(field, eq) \in Seq(TagValues)
<1> USE MediaAssumption
<1> DEFINE M == Matching(eq)
           T == {Tag[t][field] : t \in M}
           f == [t \in M |-> Tag[t][field]]
<1>1. M \subseteq Track
  BY DEF Matching
<1>2. IsFiniteSet(M)
  BY <1>1, FS_Subset
<1>3. f \in Surjection(M, T)
  BY DEF Surjection
<1>4. IsFiniteSet(T)
  <2> HIDE DEF M, T, f
  <2> QED BY <1>2, <1>3, FS_Surjection
<1>5. T \subseteq TagValues
  <2> HIDE DEF M
  <2> QED BY <1>1 DEF TagValues
<1>6. mlFilterValues(field, eq) = SetToSeq(T)
  BY DEF mlFilterValues
<1> HIDE DEF T
<1>7. SetToSeq(T) \in Seq(T)
  BY <1>4, SetToSeqFacts
<1> QED BY <1>5, <1>6, <1>7

-----------------------------------------------------------------------------
(* The panes.                                                                    *)

(* What is known of a pane, by its fields.                                     *)
LEMMA PaneFacts ==
    ASSUME NEW p \in PaneRecord
    PROVE  /\ p.field \in Fields /\ p.values \in Seq(TagValues) /\ Len(p.values) \in Nat
           /\ p.selected \in TagValues \cup {All} /\ p.lastSel \in Nat
BY DEF PaneRecord

(* The pane after refreshPanes found its selected value gone.                  *)
Cleared(p, vs) == [p EXCEPT !.selected = All, !.values = vs, !.lastSel = 0, !.sel = 0]

(* A cleared pane is a pane, it shows All and it agrees with itself.           *)
LEMMA ClearedPane ==
    ASSUME NEW p \in PaneRecord, NEW vs \in Seq(TagValues)
    PROVE  /\ Cleared(p, vs) \in PaneRecord /\ PaneAgrees(Cleared(p, vs))
<1> DEFINE q == Cleared(p, vs)
<1>1. /\ DOMAIN p = {"field", "values", "selected", "lastSel", "sel", "seen"}
      /\ p.field \in Fields /\ p.seen \in BOOLEAN
  BY DEF PaneRecord
<1>2. /\ DOMAIN q = {"field", "values", "selected", "lastSel", "sel", "seen"}
      /\ q.field = p.field /\ q.values = vs /\ q.selected = All /\ q.lastSel = 0
      /\ q.sel = 0 /\ q.seen = p.seen
  BY <1>1 DEF Cleared
<1>4. q \in PaneRecord
  <2> DEFINE p1 == [p EXCEPT !.selected = All]
             p2 == [p1 EXCEPT !.values = vs]
             p3 == [p2 EXCEPT !.lastSel = 0]
  <2>1. p1 \in PaneRecord
    BY DEF PaneRecord
  <2>2. p2 \in PaneRecord
    <3> HIDE DEF p1
    <3> QED BY <2>1 DEF PaneRecord
  <2>3. p3 \in PaneRecord
    <3> HIDE DEF p2
    <3> QED BY <2>2 DEF PaneRecord
  <2>4. [p3 EXCEPT !.sel = 0] \in PaneRecord
    <3> HIDE DEF p3
    <3> QED BY <2>3 DEF PaneRecord
  <2> QED BY <2>4, Zenon DEF Cleared
<1>5. Len(vs) \in Nat
  OBVIOUS
<1> HIDE DEF q
<1>6. PaneAgrees(q)
  BY <1>2, <1>5 DEF PaneAgrees, ValueAt
<1> QED BY <1>4, <1>6 DEF q

(* A refresh clears the panes from the first on, and leaves the others.          *)
LEMMA RefreshFacts ==
    ASSUME library \subseteq Track, NEW ps \in Seq(PaneRecord), NEW first \in Nat
    PROVE  /\ RefreshPanesFrom(ps, first) \in Seq(PaneRecord)
           /\ Len(RefreshPanesFrom(ps, first)) = Len(ps)
           /\ \A i \in 1 .. Len(ps) :
                 /\ i < first => RefreshPanesFrom(ps, first)[i] = ps[i]
                 /\ i >= first => PaneAgrees(RefreshPanesFrom(ps, first)[i])
<1> DEFINE n == Len(ps)
           eq == Equals(ps, first - 1)
           new(i) == [ps[i] EXCEPT !.selected = All, !.values = mlFilterValues(ps[i].field, eq),
                                   !.lastSel = 0, !.sel = 0]
           out == RefreshPanesFrom(ps, first)
<1>1. n \in Nat /\ DOMAIN ps = 1 .. n /\ \A i \in 1 .. n : ps[i] \in PaneRecord
  <2> HIDE DEF PaneRecord
  <2> QED OBVIOUS
<1>2. out = [i \in 1 .. n |-> IF i < first THEN ps[i] ELSE new(i)]
  BY <1>1 DEF RefreshPanesFrom
<1> HIDE DEF out, n, eq
<1>3. ASSUME NEW i \in 1 .. n PROVE new(i) \in PaneRecord /\ PaneAgrees(new(i))
  <2>1. ps[i] \in PaneRecord /\ ps[i].field \in Fields
    BY <1>1, PaneFacts
  <2> DEFINE vs == mlFilterValues(ps[i].field, eq)
  <2>2. vs \in Seq(TagValues)
    BY <2>1, ValuesFacts
  <2> HIDE DEF vs
  <2>3. new(i) = Cleared(ps[i], vs)
    BY DEF vs, Cleared
  <2> HIDE DEF new
  <2> QED BY <2>1, <2>2, <2>3, ClearedPane
<1> HIDE DEF new
<1>4. out \in [1 .. n -> PaneRecord]
  BY <1>1, <1>2, <1>3
<1>5. out \in Seq(PaneRecord) /\ Len(out) = n
  <2>1. out \in Seq(PaneRecord)
    BY <1>1, <1>4, SeqDef
  <2> HIDE DEF PaneRecord
  <2> QED BY <1>1, <1>4, <2>1
<1>6. \A i \in 1 .. n : (i < first => out[i] = ps[i]) /\ (i >= first => out[i] = new(i))
  BY <1>1, <1>2
<1> QED BY <1>3, <1>5, <1>6 DEF out, n

(* The list shows only tracks that pass the panes it was asked for under.         *)
LEMMA TracksFacts ==
    ASSUME library \subseteq Track, NEW ps, ps \in Seq(PaneRecord), RefreshTracks(ps)
    PROVE  /\ tracks' \in Seq(Track) /\ Len(tracks') <= Cardinality(Track)
           /\ trackSel' = -1
           /\ \A i \in 1 .. Len(ps) : \A t \in ToSet(tracks') :
                 ps[i].selected \in {All, Tag[t][ps[i].field]}
<1> DEFINE n == Len(ps)
           eq == Equals(ps, n)
<1>1. tracks' = mlTracksQuery(eq) /\ trackSel' = -1
  BY DEF RefreshTracks
<1>2. n \in Nat /\ DOMAIN ps = 1 .. n
  <2> HIDE DEF PaneRecord
  <2> QED OBVIOUS
<1>3. ASSUME NEW i \in 1 .. n, NEW t \in Matching(eq)
      PROVE  ps[i].selected \in {All, Tag[t][ps[i].field]}
  <2> SUFFICES ASSUME ps[i].selected # All PROVE ps[i].selected = Tag[t][ps[i].field]
    OBVIOUS
  <2>1. [field |-> ps[i].field, value |-> ps[i].selected] \in eq
    BY <1>2 DEF Equals
  <2> HIDE DEF eq
  <2>2. \A e \in eq : Tag[t][e.field] = e.value
    BY DEF Matching
  <2> QED BY <2>1, <2>2
<1> HIDE DEF eq, n
<1>4. /\ mlTracksQuery(eq) \in Seq(Track) /\ Len(mlTracksQuery(eq)) <= Cardinality(Track)
      /\ ToSet(mlTracksQuery(eq)) = Matching(eq)
  BY QueryFacts
<1> QED BY <1>1, <1>3, <1>4 DEF n

(* A preset makes one pane for each of its fields.                             *)
LEMMA PresetFacts ==
    ASSUME NEW p \in DOMAIN Presets
    PROVE  /\ applyPreset(p) \in Seq(PaneRecord) /\ Len(applyPreset(p)) = Len(Presets[p])
<1> USE MediaAssumption
<1> DEFINE n == Len(Presets[p])
<1>1. Presets[p] \in Seq(Fields) /\ n \in Nat /\ DOMAIN Presets[p] = 1 .. n
  OBVIOUS
<1>2. \A i \in 1 .. n : Presets[p][i] \in Fields
  BY <1>1
<1>3. \A f \in Fields : NewPane(f) \in PaneRecord
  BY DEF NewPane, PaneRecord
<1> HIDE DEF n, Fields, PaneRecord
<1>4. applyPreset(p) \in [1 .. n -> PaneRecord]
  BY <1>1, <1>2, <1>3 DEF applyPreset
<1>5. applyPreset(p) \in Seq(PaneRecord)
  BY <1>1, <1>4, SeqDef
<1> QED BY <1>1, <1>4, <1>5 DEF n

(* A paint marks the panes and changes nothing else of them.                   *)
LEMMA SeenFacts ==
    ASSUME NEW ps \in Seq(PaneRecord)
    PROVE  /\ Seen(ps) \in Seq(PaneRecord) /\ Len(Seen(ps)) = Len(ps)
           /\ \A i \in 1 .. Len(ps) :
                 /\ Seen(ps)[i].field = ps[i].field /\ Seen(ps)[i].selected = ps[i].selected
                 /\ PaneAgrees(ps[i]) => PaneAgrees(Seen(ps)[i])
<1> DEFINE n == Len(ps)
<1>1. n \in Nat /\ DOMAIN ps = 1 .. n /\ \A i \in 1 .. n : ps[i] \in PaneRecord
  <2> HIDE DEF PaneRecord
  <2> QED OBVIOUS
<1>2. Seen(ps) = [i \in 1 .. n |-> [ps[i] EXCEPT !.seen = TRUE]]
  BY <1>1 DEF Seen
<1>3. ASSUME NEW i \in 1 .. n
      PROVE  /\ Seen(ps)[i] \in PaneRecord
             /\ Seen(ps)[i].field = ps[i].field /\ Seen(ps)[i].selected = ps[i].selected
             /\ Seen(ps)[i].sel = ps[i].sel /\ Seen(ps)[i].lastSel = ps[i].lastSel
             /\ Seen(ps)[i].values = ps[i].values
  <2>1. Seen(ps)[i] = [ps[i] EXCEPT !.seen = TRUE] /\ ps[i] \in PaneRecord
    BY <1>1, <1>2
  <2> QED BY <2>1 DEF PaneRecord
<1>4. \A i \in 1 .. n : PaneAgrees(ps[i]) => PaneAgrees(Seen(ps)[i])
  BY <1>3 DEF PaneAgrees, ValueAt
<1> HIDE DEF n
<1>5. Seen(ps) \in [1 .. n -> PaneRecord]
  BY <1>2, <1>3
<1>6. Seen(ps) \in Seq(PaneRecord)
  BY <1>1, <1>5, SeqDef
<1>7. Len(Seen(ps)) = n
  BY <1>1, <1>5
<1> QED BY <1>3, <1>4, <1>6, <1>7 DEF n

-----------------------------------------------------------------------------
(* The library view.                                                             *)

(* Panes that agree, with the tracks listed anew, keep the view's part.        *)
LEMMA Relisted ==
    ASSUME MlInv, library \subseteq Track, NEW ps \in Seq(PaneRecord), RefreshTracks(ps),
           panes' = ps \/ panes' = Seen(ps),
           preset' \in DOMAIN Presets, Len(ps) = Len(Presets[preset']),
           \A i \in 1 .. Len(ps) : PaneAgrees(ps[i]),
           loaded' = TRUE, UNCHANGED <<trackClick, misplayed>>
    PROVE  MlInv'
<1> HIDE DEF PaneRecord
<1>1. /\ tracks' \in Seq(Track) /\ Len(tracks') <= Cardinality(Track)
      /\ trackSel' = -1
      /\ \A i \in 1 .. Len(ps) : \A t \in ToSet(tracks') :
            ps[i].selected \in {All, Tag[t][ps[i].field]}
  BY TracksFacts
<1>2. Len(tracks') \in Nat
  BY <1>1
<1>3. trackSel' \in -1 .. Len(tracks') - 1
  BY <1>1, <1>2
<1>4. /\ panes' \in Seq(PaneRecord) /\ Len(panes') = Len(ps)
      /\ \A i \in 1 .. Len(ps) :
            /\ panes'[i].field = ps[i].field /\ panes'[i].selected = ps[i].selected
            /\ PaneAgrees(panes'[i])
  BY SeenFacts
<1>5. trackClick' \in -1 .. Cardinality(Track) - 1 /\ misplayed' = FALSE
  BY DEF MlInv
<1>6. \A i \in 1 .. Len(panes') :
         /\ PaneAgrees(panes[i])'
         /\ \A t \in ToSet(tracks') : panes'[i].selected \in {All, Tag[t][panes'[i].field]}
  BY <1>1, <1>4 DEF PaneAgrees, ValueAt
<1> QED BY <1>1, <1>3, <1>4, <1>5, <1>6 DEF MlInv

(* Playing a row of the list, which the user saw there.                          *)
LEMMA PlayRowFacts ==
    ASSUME HostInv, MlInv, NEW row \in Nat, tracks = <<>> \/ row < Len(tracks),
           NEW e \in BOOLEAN, playRow(row, TrackAt(row), e)
    PROVE  HostInv' /\ misplayed' = FALSE
<1> USE HostAssumption
<1>0. Len(tracks) \in Nat /\ misplayed = FALSE
  BY DEF MlInv
<1>1. CASE tracks = <<>>
  BY <1>0, <1>1 DEF playRow, hostVars, HostInv, HostTypeOK
<1>2. CASE tracks # <<>>
  <2>1. mlPlayTracks(tracks, row, e) /\ misplayed' = FALSE /\ row < Len(tracks)
    BY <1>0, <1>2 DEF playRow
  <2>2. /\ rowCount + Len(tracks) <= MaxRows /\ rowCount' = rowCount + Len(tracks)
        /\ current' = IF e THEN current ELSE rowCount + row
        /\ library' = library
    BY <2>1 DEF mlPlayTracks
  <2>3. rowCount' \in 0 .. MaxRows /\ current' \in -1 .. MaxRows - 1 /\ current' < rowCount'
    BY <1>0, <2>1, <2>2 DEF HostInv, HostTypeOK
  <2> QED BY <2>1, <2>2, <2>3 DEF HostInv, HostTypeOK
<1> QED BY <1>1, <1>2

(* A row of the listed tracks is a number below the number of tracks there     *)
(* are.                                                                        *)
LEMMA TrackClickStays ==
    ASSUME MlInv
    PROVE  /\ Len(tracks) \in Nat /\ Cardinality(Track) \in Nat
           /\ trackSel \in -1 .. Len(tracks) - 1 /\ StartRow \in Nat
           /\ tracks = <<>> \/ StartRow < Len(tracks)
           /\ \A row \in -1 .. Len(tracks) - 1 : row \in -1 .. Cardinality(Track) - 1
<1>1. /\ tracks \in Seq(Track) /\ Len(tracks) <= Cardinality(Track)
      /\ trackSel \in -1 .. Len(tracks) - 1
  BY DEF MlInv
<1>2. Cardinality(Track) \in Nat
  BY MediaAssumption, FS_CardinalityType
<1>3. Len(tracks) \in Nat /\ (tracks = <<>> \/ Len(tracks) > 0)
  BY <1>1
<1> QED BY <1>1, <1>2, <1>3 DEF StartRow

(* The invariants but for a step that leaves the lists alone.                    *)
LEMMA MlSame ==
    ASSUME MlInv,
           UNCHANGED <<preset, panes, tracks, loaded>>, misplayed' = FALSE,
           menu' = menu \/ loaded,
           trackSel' \in -1 .. Len(tracks) - 1, trackClick' \in -1 .. Cardinality(Track) - 1
    PROVE  MlInv'
BY DEF MlInv, PaneAgrees, ValueAt

(* The clicks, keys and menu choices of the library view.                      *)
LEMMA MlInputStep ==
    ASSUME HostInv, MlInv, MenuHolds, loaded, MlInput \/ MlMenu \/ TrackClickExpires
    PROVE  HostInv' /\ MlInv' /\ MenuHolds' /\ loaded'
<1> HIDE DEF PaneRecord
<1>0. /\ library \subseteq Track /\ panes \in Seq(PaneRecord) /\ preset \in DOMAIN Presets
      /\ Len(panes) = Len(Presets[preset]) /\ misplayed = FALSE
      /\ \A i \in 1 .. Len(panes) : PaneAgrees(panes[i])
      /\ trackClick \in -1 .. Cardinality(Track) - 1
  BY DEF HostInv, HostTypeOK, MlInv
<1>m. ASSUME UNCHANGED hostVars PROVE HostInv'
  BY <1>m DEF hostVars, HostInv, HostTypeOK
<1>n. menu' = NoMenu => MenuHolds'
  BY DEF MenuHolds
<1>c. /\ Len(tracks) \in Nat /\ Cardinality(Track) \in Nat
      /\ trackSel \in -1 .. Len(tracks) - 1 /\ StartRow \in Nat
      /\ tracks = <<>> \/ StartRow < Len(tracks)
      /\ \A row \in -1 .. Len(tracks) - 1 : row \in -1 .. Cardinality(Track) - 1
  BY TrackClickStays
<1>r. ASSUME NEW first \in Nat, panes' = RefreshPanesFrom(panes, first), RefreshTracks(panes'),
             \A i \in 1 .. Len(panes) : i >= first \/ PaneAgrees(panes[i]),
             UNCHANGED <<preset, trackClick, loaded, misplayed>>
      PROVE  MlInv'
  <2> DEFINE ps == RefreshPanesFrom(panes, first)
  <2>1. /\ ps \in Seq(PaneRecord) /\ Len(ps) = Len(panes)
        /\ \A i \in 1 .. Len(panes) :
              /\ i < first => ps[i] = panes[i]
              /\ i >= first => PaneAgrees(ps[i])
    BY <1>0, RefreshFacts
  <2>2. RefreshTracks(ps) /\ panes' = ps
    BY <1>r
  <2> HIDE DEF ps
  <2>3. \A i \in 1 .. Len(ps) : PaneAgrees(ps[i])
    BY <1>0, <2>1
  <2> QED BY <1>0, <1>r, <2>1, <2>2, <2>3, Relisted
<1>1. ASSUME NEW kind \in {"filters", "panes"}, Open(kind, 0, NoTrack)
      PROVE  HostInv' /\ MlInv' /\ MenuHolds' /\ loaded'
  <2>1. /\ UNCHANGED hostVars /\ UNCHANGED <<preset, panes, tracks, trackSel, trackClick, loaded, misplayed>>
        /\ menu'.kind = kind
    BY <1>1 DEF Open
  <2> QED BY <1>0, <1>1, <1>m, <1>c, <2>1, MlSame DEF MenuHolds
<1>2. CASE ClickPlayArrow
  <2>1. /\ UNCHANGED hostVars /\ UNCHANGED <<preset, panes, tracks, trackSel, trackClick, loaded, misplayed>>
        /\ menu'.kind = "play" /\ menu'.row = StartRow /\ menu'.saw = TrackAt(StartRow)
    BY <1>2 DEF ClickPlayArrow, Open
  <2>2. MenuHolds'
    BY <1>c, <2>1 DEF MenuHolds, TrackAt
  <2> QED BY <1>0, <1>m, <1>c, <2>1, <2>2, MlSame
<1>3. CASE ClickClearSearch
  <2>1. /\ menu' = NoMenu /\ UNCHANGED hostVars /\ UNCHANGED <<preset, trackClick, loaded, misplayed>>
        /\ panes' = RefreshPanesFrom(panes, 1) /\ RefreshTracks(panes')
    BY <1>3 DEF ClickClearSearch, NoMenuOpen, ReloadAll
  <2> QED BY <1>0, <1>m, <1>n, <1>r, <2>1
<1>4. ASSUME NEW i \in DOMAIN panes, NEW row \in 0 .. Len(panes[i].values), ClickPane(i, row)
      PROVE  HostInv' /\ MlInv' /\ MenuHolds' /\ loaded'
  <2> DEFINE p == panes[i]
             q == [p EXCEPT !.sel = row, !.lastSel = row, !.selected = ValueAt(p, row)]
             in == [panes EXCEPT ![i] = q]
             ps == RefreshPanesFrom(in, i + 1)
  <2>1. /\ menu' = NoMenu /\ UNCHANGED hostVars /\ UNCHANGED <<preset, trackClick, loaded, misplayed>>
        /\ panes' = RefreshPanesFrom(in, i + 1)
        /\ RefreshTracks(panes')
    BY <1>4 DEF ClickPane, NoMenuOpen
  <2>2. i \in 1 .. Len(panes) /\ i \in Nat /\ p \in PaneRecord
    BY <1>0
  <2>3. /\ p.values \in Seq(TagValues) /\ Len(p.values) \in Nat /\ row \in Nat
        /\ row <= Len(p.values)
    BY <1>4, <2>2, PaneFacts
  <2> HIDE DEF p
  <2>4. ValueAt(p, row) \in TagValues \cup {All}
    BY <2>3 DEF ValueAt
  <2>5. q \in PaneRecord
    <3> DEFINE p1 == [p EXCEPT !.sel = row]
               p2 == [p1 EXCEPT !.lastSel = row]
               p3 == [p2 EXCEPT !.selected = ValueAt(p, row)]
    <3>1. p1 \in PaneRecord
      BY <2>2, <2>3 DEF PaneRecord
    <3>2. p2 \in PaneRecord
      <4> HIDE DEF p1
      <4> QED BY <3>1, <2>3 DEF PaneRecord
    <3>3. p3 \in PaneRecord
      <4> HIDE DEF p2
      <4> QED BY <3>2, <2>4 DEF PaneRecord
    <3> QED BY <3>3, Zenon
  <2>6. PaneAgrees(q)
    <3>1. q.sel = row /\ q.lastSel = row /\ q.selected = ValueAt(p, row) /\ q.values = p.values
      BY <2>2 DEF PaneRecord
    <3> HIDE DEF q
    <3> QED BY <2>3, <3>1 DEF PaneAgrees, ValueAt
  <2> HIDE DEF q
  <2>7. in \in Seq(PaneRecord) /\ Len(in) = Len(panes)
        /\ in[i] = q /\ \A j \in 1 .. Len(panes) : j # i => in[j] = panes[j]
    BY <1>0, <2>2, <2>5, ExceptSeq
  <2> HIDE DEF in
  <2>8. /\ ps \in Seq(PaneRecord) /\ Len(ps) = Len(in)
        /\ \A j \in 1 .. Len(in) :
              /\ j < i + 1 => ps[j] = in[j]
              /\ j >= i + 1 => PaneAgrees(ps[j])
    BY <1>0, <2>2, <2>7, RefreshFacts
  <2>9. RefreshTracks(ps) /\ panes' = ps
    BY <2>1
  <2> HIDE DEF ps
  <2>10. \A j \in 1 .. Len(ps) : PaneAgrees(ps[j])
    BY <1>0, <2>2, <2>6, <2>7, <2>8
  <2>11. MlInv'
    BY <1>0, <2>1, <2>7, <2>8, <2>9, <2>10, Relisted
  <2> QED BY <1>m, <1>n, <2>1, <2>11
<1>5. CASE ClickPlay
  <2>1. /\ playRow(StartRow, TrackAt(StartRow), FALSE) /\ menu = NoMenu /\ menu' = menu
        /\ UNCHANGED <<preset, panes, tracks, trackSel, trackClick, loaded>>
    BY <1>5 DEF ClickPlay, NoMenuOpen
  <2>2. HostInv' /\ misplayed' = FALSE
    BY <1>c, <2>1, PlayRowFacts
  <2> QED BY <1>0, <1>c, <1>n, <2>1, <2>2, MlSame
<1>6. ASSUME NEW row \in -1 .. Len(tracks) - 1, ClickTracks(row)
      PROVE  HostInv' /\ MlInv' /\ MenuHolds' /\ loaded'
  <2>1. /\ menu = NoMenu /\ menu' = menu /\ trackSel' = row
        /\ row \in {trackSel} \cup (0 .. Len(tracks) - 1)
        /\ UNCHANGED <<preset, panes, tracks, loaded>>
    BY <1>6 DEF ClickTracks, NoMenuOpen
  <2>2. CASE row >= 0 /\ row = trackClick
    <3>1. trackClick' = -1 /\ playRow(row, TrackAt(row), FALSE)
      BY <1>6, <2>2 DEF ClickTracks
    <3>2. row \in Nat /\ row < Len(tracks)
      BY <1>6, <1>c, <2>2
    <3>3. HostInv' /\ misplayed' = FALSE
      BY <3>1, <3>2, PlayRowFacts
    <3>4. trackClick' \in -1 .. Cardinality(Track) - 1
      BY <1>c, <3>1
    <3> QED BY <1>c, <1>n, <2>1, <3>3, <3>4, MlSame
  <2>3. CASE ~(row >= 0 /\ row = trackClick)
    <3>1. trackClick' = row /\ UNCHANGED hostVars /\ misplayed' = misplayed
      BY <1>6, <2>3 DEF ClickTracks
    <3> QED BY <1>0, <1>6, <1>c, <1>m, <1>n, <2>1, <3>1, MlSame
  <2> QED BY <2>2, <2>3
<1>7. CASE TrackClickExpires
  <2>1. /\ trackClick' = -1 /\ UNCHANGED hostVars
        /\ UNCHANGED <<preset, panes, tracks, trackSel, loaded, menu, misplayed>>
    BY <1>7 DEF TrackClickExpires
  <2>2. trackClick' \in -1 .. Cardinality(Track) - 1
    BY <1>c, <2>1
  <2> QED BY <1>0, <1>c, <1>m, <2>1, <2>2, MlSame DEF MenuHolds, TrackAt
<1>8. CASE PickNothing
  <2>1. /\ menu' = NoMenu /\ UNCHANGED hostVars
        /\ UNCHANGED <<preset, panes, tracks, trackSel, trackClick, loaded, misplayed>>
    BY <1>8 DEF PickNothing
  <2> QED BY <1>0, <1>c, <1>m, <1>n, <2>1, MlSame
<1>9. ASSUME NEW p \in DOMAIN Presets, PickPreset(p)
      PROVE  HostInv' /\ MlInv' /\ MenuHolds' /\ loaded'
  <2> DEFINE in == applyPreset(p)
             ps == RefreshPanesFrom(in, 1)
  <2>1. /\ menu' = NoMenu /\ UNCHANGED hostVars /\ UNCHANGED <<trackClick, loaded, misplayed>>
        /\ preset' = p /\ panes' = RefreshPanesFrom(in, 1) /\ RefreshTracks(panes')
    BY <1>9 DEF PickPreset, Picked, ReloadAll
  <2>2. in \in Seq(PaneRecord) /\ Len(in) = Len(Presets[p])
    BY PresetFacts
  <2> HIDE DEF in
  <2>3. /\ ps \in Seq(PaneRecord) /\ Len(ps) = Len(in)
        /\ \A i \in 1 .. Len(in) : i >= 1 => PaneAgrees(ps[i])
    BY <1>0, <2>2, RefreshFacts
  <2>4. RefreshTracks(ps) /\ panes' = ps
    BY <2>1
  <2> HIDE DEF ps
  <2>5. \A i \in 1 .. Len(ps) : PaneAgrees(ps[i])
    BY <2>3
  <2>6. MlInv'
    BY <1>0, <2>1, <2>2, <2>3, <2>4, <2>5, Relisted
  <2> QED BY <1>m, <1>n, <2>1, <2>6
<1>10. ASSUME NEW i \in 1 .. Len(panes) + 1, PickColumns(i)
       PROVE  HostInv' /\ MlInv' /\ MenuHolds' /\ loaded'
  <2>1. /\ menu' = NoMenu /\ UNCHANGED hostVars /\ UNCHANGED <<preset, trackClick, loaded, misplayed>>
        /\ panes' = RefreshPanesFrom(panes, i) /\ RefreshTracks(panes')
    BY <1>10 DEF PickColumns, Picked
  <2>2. i \in Nat
    OBVIOUS
  <2> QED BY <1>0, <1>m, <1>n, <1>r, <2>1, <2>2
<1>11. ASSUME NEW e \in BOOLEAN, PickPlay(e)
       PROVE  HostInv' /\ MlInv' /\ MenuHolds' /\ loaded'
  <2>1. /\ playRow(menu.row, menu.saw, e) /\ menu # NoMenu /\ menu.kind = "play" /\ menu' = NoMenu
        /\ UNCHANGED <<preset, panes, tracks, trackSel, trackClick, loaded>>
    BY <1>11 DEF PickPlay, Picked
  <2>2. /\ menu.row \in Nat /\ menu.saw = TrackAt(menu.row)
        /\ tracks = <<>> \/ menu.row < Len(tracks)
    BY <2>1 DEF MenuHolds
  <2>3. HostInv' /\ misplayed' = FALSE
    BY <2>1, <2>2, PlayRowFacts
  <2> QED BY <1>0, <1>c, <1>n, <2>1, <2>3, MlSame
<1> QED BY <1>1, <1>2, <1>3, <1>4, <1>5, <1>6, <1>7, <1>8, <1>9, <1>10, <1>11
        DEF MlInput, MlMenu, ClickFiltersButton, ClickPaneOptions

(* The first paint of the library view, and the later ones.                      *)
LEMMA MlPaintStep ==
    ASSUME MlInv, MenuHolds, library \subseteq Track, (MlCreate /\ ~loaded) \/ MlPaint
    PROVE  MlInv' /\ MenuHolds' /\ (loaded => loaded') /\ (MlCreate => loaded')
<1> HIDE DEF PaneRecord
<1>1. CASE MlCreate /\ ~loaded
  <2> DEFINE in == applyPreset(1)
             ps == RefreshPanesFrom(in, 1)
  <2>1. /\ panes' = Seen(RefreshPanesFrom(in, 1)) /\ RefreshTracks(RefreshPanesFrom(in, 1))
        /\ loaded' = TRUE /\ UNCHANGED <<preset, trackClick, menu, misplayed>>
    BY <1>1 DEF MlCreate
  <2>2. preset = 1 /\ menu = NoMenu /\ 1 \in DOMAIN Presets
    BY <1>1 DEF MlInv
  <2>3. in \in Seq(PaneRecord) /\ Len(in) = Len(Presets[1])
    BY <2>2, PresetFacts
  <2> HIDE DEF in
  <2>4. /\ ps \in Seq(PaneRecord) /\ Len(ps) = Len(in)
        /\ \A i \in 1 .. Len(in) : i >= 1 => PaneAgrees(ps[i])
    BY <2>3, RefreshFacts
  <2>5. RefreshTracks(ps) /\ panes' = Seen(ps)
    BY <2>1
  <2> HIDE DEF ps
  <2>6. \A i \in 1 .. Len(ps) : PaneAgrees(ps[i])
    BY <2>4
  <2>7. MlInv'
    BY <2>1, <2>2, <2>3, <2>4, <2>5, <2>6, Relisted
  <2> QED BY <2>1, <2>2, <2>7 DEF MenuHolds
<1>2. CASE MlPaint
  <2>1. /\ panes' = Seen(panes)
        /\ UNCHANGED <<preset, tracks, trackSel, trackClick, loaded, menu, misplayed>>
    BY <1>2 DEF MlPaint
  <2>2. /\ panes' \in Seq(PaneRecord) /\ Len(panes') = Len(panes)
        /\ \A i \in 1 .. Len(panes) :
              /\ panes'[i].field = panes[i].field /\ panes'[i].selected = panes[i].selected
              /\ PaneAgrees(panes[i]) => PaneAgrees(panes'[i])
    BY <2>1, SeenFacts DEF MlInv
  <2>3. MenuHolds'
    BY <2>1 DEF MenuHolds, TrackAt
  <2>4. \A i \in 1 .. Len(panes') :
          /\ PaneAgrees(panes'[i])
          /\ \A t \in ToSet(tracks') : panes'[i].selected \in {All, Tag[t][panes'[i].field]}
    BY <2>1, <2>2 DEF MlInv
  <2>5. \A p : PaneAgrees(p)' <=> PaneAgrees(p)
    BY DEF PaneAgrees, ValueAt
  <2>6. ~loaded => panes' = <<>>
    <3>1. SUFFICES ASSUME panes = <<>> PROVE panes' = <<>>
      BY DEF MlInv
    <3>2. Len(panes') = 0
      BY <2>2, <3>1, EmptySeq
    <3> QED BY <2>2, <3>2, EmptySeq
  <2>7. MlInv'
    BY <2>1, <2>2, <2>4, <2>5, <2>6 DEF MlInv
  <2>8. MlCreate => loaded'
    BY DEF MlCreate
  <2> QED BY <2>1, <2>3, <2>7, <2>8
<1> QED BY <1>1, <1>2

-----------------------------------------------------------------------------
(* The playlist editor.                                                          *)

(* A scroll position stays within the playlist.                                *)
LEMMA ScrollFacts ==
    ASSUME PeTypeOK, NEW s \in Int, setScroll(s)
    PROVE  scroll' \in 0 .. MaxRows
<1> USE HostAssumption, EditorAssumption
<1>1. barRows \in 0 .. MaxRows
  BY DEF PeTypeOK
<1>2. maxScroll \in 0 .. MaxRows
  BY <1>1 DEF maxScroll
<1> QED BY <1>2 DEF setScroll

(* The clicks, wheel turns and drags of the playlist editor.                   *)
LEMMA EditorStep ==
    ASSUME HostInv, PeTypeOK, renderer' = renderer, renderer = "pl", PeInput \/ PeClickExpires
    PROVE  HostInv' /\ PeTypeOK'
<1> USE HostAssumption, EditorAssumption
<1>0. /\ scroll \in 0 .. MaxRows /\ barRows \in 0 .. MaxRows /\ dragging \in BOOLEAN
      /\ peClick \in -1 .. MaxRows - 1
      /\ rowCount \in 0 .. MaxRows /\ current \in -1 .. MaxRows - 1 /\ current < rowCount
      /\ library \subseteq Track
  BY DEF PeTypeOK, HostInv, HostTypeOK
<1>h. ASSUME UNCHANGED hostVars PROVE HostInv'
  BY <1>h DEF hostVars, HostInv, HostTypeOK
<1>1. ASSUME NEW s \in Int, setScroll(s), dragging' \in BOOLEAN, UNCHANGED <<hostVars, barRows, peClick>>
      PROVE  HostInv' /\ PeTypeOK'
  <2>1. scroll' \in 0 .. MaxRows
    BY <1>0, <1>1, ScrollFacts
  <2> QED BY <1>0, <1>1, <1>h, <2>1 DEF PeTypeOK
<1>2. CASE ClickBar
  <2>1. UNCHANGED <<hostVars, barRows, peClick>>
    BY <1>2 DEF ClickBar
  <2>2. CASE dragging' = TRUE /\ UNCHANGED scroll
    BY <1>0, <1>h, <2>1, <2>2 DEF hostVars, PeTypeOK
  <2>3. CASE ~(dragging' = TRUE /\ UNCHANGED scroll)
    <3>1. PICK s \in Int : setScroll(s) /\ dragging' = dragging
      BY <1>0, <1>2, <2>3 DEF ClickBar
    <3> QED BY <1>0, <1>1, <2>1, <3>1
  <2> QED BY <2>2, <2>3
<1>3. ASSUME NEW line \in 0 .. VisRows - 1, ClickRow(line) PROVE HostInv' /\ PeTypeOK'
  <2> DEFINE row == scroll + line
  <2>1. /\ row < rowCount /\ row \in Nat /\ current' = row /\ UNCHANGED <<library, rowCount>>
        /\ peClick' = IF peClick = row THEN -1 ELSE row
        /\ UNCHANGED <<scroll, barRows, dragging>>
    BY <1>0, <1>3 DEF ClickRow, playlistRow
  <2> HIDE DEF row
  <2>2. row \in -1 .. MaxRows - 1 /\ peClick' \in -1 .. MaxRows - 1
    BY <1>0, <2>1
  <2> QED BY <1>0, <2>1, <2>2 DEF HostInv, HostTypeOK, PeTypeOK
<1>4. CASE DragThumb
  <2>1. maxScroll \in Nat
    BY <1>0 DEF maxScroll
  <2>2. PICK s \in 0 .. maxScroll : setScroll(s)
    BY <1>4 DEF DragThumb
  <2> QED BY <1>0, <1>1, <1>4, <2>1, <2>2 DEF DragThumb
<1>5. CASE ReleaseThumb
  BY <1>0, <1>5, <1>h DEF ReleaseThumb, hostVars, PeTypeOK
<1>6. ASSUME NEW steps \in {-1, 1}, Wheel(steps) PROVE HostInv' /\ PeTypeOK'
  <2>1. setScroll(scroll - steps) /\ scroll - steps \in Int
        /\ UNCHANGED <<hostVars, barRows, dragging, peClick>>
    BY <1>0, <1>6 DEF Wheel
  <2> QED BY <1>0, <1>1, <2>1
<1>7. CASE PeClickExpires
  BY <1>0, <1>7, <1>h DEF PeClickExpires, hostVars, PeTypeOK
<1> QED BY <1>2, <1>3, <1>4, <1>5, <1>6, <1>7 DEF PeInput

(* A paint of the playlist editor makes its bar for the rows there are.        *)
LEMMA PePaintStep ==
    ASSUME HostInv, PeTypeOK, PePaint
    PROVE  PeTypeOK'
BY DEF PePaint, HostInv, HostTypeOK, PeTypeOK

-----------------------------------------------------------------------------
(* The holder.                                                                   *)

(* The invariant: its parts, by the state each is about.                       *)
HoldersIInv == HostInv /\ NavInv /\ MlInv /\ MenuHolds /\ HolderInv /\ PeTypeOK

(* The initial states satisfy the invariant.                                   *)
LEMMA HoldersInit == Init => HoldersIInv
<1> USE HostAssumption, NavAssumption, MediaAssumption, EditorAssumption, HoldersAssumption
<1> SUFFICES ASSUME Init PROVE HoldersIInv
  OBVIOUS
<1>1. HostInv
  BY DEF Init, HostInit, HostInv, HostTypeOK
<1>2. NavInv
  <2>1. /\ items = <<>> /\ scan = <<>> /\ nextId = 1 /\ libSel = 0 /\ asked = NoItem /\ strays = {}
    BY DEF Init, NavInit
  <2>2. IsFiniteSet({}) /\ Cardinality({}) = 0
    BY FS_EmptySet
  <2>3. DOMAIN <<>> = {} /\ ToSet(<<>>) = {} /\ Len(<<>>) = 0
    BY DEF ToSet
  <2>4. <<>> \in SetToSeqs({})
    BY <2>2, <2>3 DEF SetToSeqs
  <2>5. NavTypeOK
    BY <2>1, <2>2, <2>3 DEF NavTypeOK, Handle, NoItem
  <2> QED BY <2>1, <2>3, <2>4, <2>5 DEF NavInv, NoOrphans
<1>3. MlInv
  <2>1. /\ preset = 1 /\ panes = <<>> /\ tracks = <<>> /\ trackSel = -1 /\ trackClick = -1
        /\ loaded = FALSE /\ menu = NoMenu /\ misplayed = FALSE
    BY DEF Init, MlInit
  <2>2. Cardinality(Track) \in Nat
    BY FS_CardinalityType
  <2>3. 1 \in DOMAIN Presets
    OBVIOUS
  <2>4. <<>> \in Seq(PaneRecord) /\ <<>> \in Seq(Track) /\ Len(<<>>) = 0
    OBVIOUS
  <2>5. 1 .. Len(panes) = {}
    BY <2>1, <2>4
  <2>6. /\ tracks \in Seq(Track) /\ Len(tracks) <= Cardinality(Track)
        /\ trackSel \in -1 .. Len(tracks) - 1
        /\ trackClick \in -1 .. Cardinality(Track) - 1
    <3>1. Len(tracks) = 0 /\ trackSel = -1 /\ trackClick = -1
      BY <2>1, <2>4
    <3>2. tracks \in Seq(Track)
      BY <2>1, <2>4
    <3> HIDE HostAssumption, NavAssumption, MediaAssumption, EditorAssumption, HoldersAssumption
    <3> QED BY <2>2, <3>1, <3>2
  <2> QED BY <2>1, <2>3, <2>4, <2>5, <2>6 DEF MlInv
<1>4. MenuHolds
  BY DEF Init, MlInit, MenuHolds
<1>5. HolderInv
  BY DEF Init, MlInit, HolderInv
<1>6. PeTypeOK
  <2>1. scroll = 0 /\ barRows = 0 /\ dragging = FALSE /\ peClick = -1
    BY DEF Init, PeInit
  <2>2. MaxRows \in Nat
    OBVIOUS
  <2>3. 0 \in 0 .. MaxRows /\ -1 \in -1 .. MaxRows - 1
    BY <2>2
  <2>4. PeTypeOK
    <3> HIDE HostAssumption, NavAssumption, MediaAssumption, EditorAssumption, HoldersAssumption
    <3> QED BY <2>1, <2>3 DEF PeTypeOK
  <2> QED BY <2>4
<1> QED BY <1>1, <1>2, <1>3, <1>4, <1>5, <1>6 DEF HoldersIInv

(* Every step keeps the invariant.                                             *)
LEMMA HoldersStep == HoldersIInv /\ [Next]_vars => HoldersIInv'
<1> USE HostAssumption, EditorAssumption, HoldersAssumption
<1> SUFFICES ASSUME HostInv, NavInv, MlInv, MenuHolds, HolderInv, PeTypeOK, [Next]_vars
             PROVE  HostInv' /\ NavInv' /\ MlInv' /\ MenuHolds' /\ HolderInv' /\ PeTypeOK'
  BY DEF HoldersIInv
<1>h. UNCHANGED hostVars => HostInv'
  BY DEF hostVars, HostInv, HostTypeOK
<1>n. UNCHANGED navVars => NavInv'
  BY NavStep
<1>m. UNCHANGED mlVars => MlInv' /\ MenuHolds' /\ loaded' = loaded
  BY DEF mlVars, MlInv, MenuHolds, TrackAt, PaneAgrees, ValueAt
<1>e. UNCHANGED <<peVars, hostVars, renderer>> => PeTypeOK'
  BY DEF peVars, hostVars, PeTypeOK
<1>o. UNCHANGED holderVars /\ (loaded => loaded') /\ (loaded' = loaded \/ renderer = "ml")
         => HolderInv'
  <2>1. SUFFICES ASSUME UNCHANGED holderVars, loaded => loaded', loaded' = loaded \/ renderer = "ml"
                 PROVE HolderInv'
    OBVIOUS
  <2> QED BY <2>1 DEF holderVars, HolderInv
<1>t. library \subseteq Track /\ loaded \in BOOLEAN
  BY DEF HostInv, HostTypeOK, MlInv
<1>1. CASE Boot
  <2>1. PluginInit /\ UNCHANGED <<hostVars, Lists, holderVars>>
    BY <1>1 DEF Boot
  <2>2. UNCHANGED <<peVars, hostVars, renderer>> /\ UNCHANGED mlVars
    BY <2>1 DEF Lists, holderVars
  <2> QED BY <1>h, <1>m, <1>e, <1>o, <2>1, <2>2, NavStep
<1>2. ASSUME NEW g \in Registered, registerHolderRenderer(g) \/ unregisterHolderRenderer(g)
      PROVE  HostInv' /\ NavInv' /\ MlInv' /\ MenuHolds' /\ HolderInv' /\ PeTypeOK'
  <2>1. /\ UNCHANGED <<hostVars, navVars, Lists, hold, renderer, tried, topRow, fbClick>>
        /\ factories' \in {factories \cup {g}, factories \ {g}}
    BY <1>2 DEF registerHolderRenderer, unregisterHolderRenderer
  <2>2. UNCHANGED <<peVars, hostVars, renderer>> /\ UNCHANGED mlVars
    BY <2>1 DEF Lists
  <2>3. HolderInv'
    BY <1>m, <2>1, <2>2 DEF HolderInv
  <2> QED BY <1>h, <1>n, <1>m, <1>e, <2>1, <2>2, <2>3
<1>3. CASE Create
  <2>1. /\ ~tried /\ tried' = TRUE /\ renderer' = IF hold \in factories THEN hold ELSE None
        /\ IF renderer' = "ml" THEN MlCreate ELSE UNCHANGED mlVars
        /\ IF renderer' = "pl" THEN PePaint ELSE UNCHANGED peVars
        /\ UNCHANGED <<hostVars, navVars, hold, factories, topRow, fbClick>>
    BY <1>3 DEF Create
  <2>2. renderer' \in {None, "pl", "ml"} /\ tried = FALSE /\ renderer = None /\ ~loaded
    BY <2>1 DEF HolderInv
  <2>3. MlInv' /\ MenuHolds' /\ (renderer' = "ml" => loaded')
    BY <1>m, <1>t, <2>1, <2>2, MlPaintStep
  <2>4. PeTypeOK'
    <3>1. CASE renderer' = "pl"
      <4>1. PePaint
        BY <2>1, <3>1
      <4> QED BY <4>1, PePaintStep
    <3>2. CASE renderer' # "pl"
      BY <2>1, <3>2 DEF peVars, PeTypeOK
    <3> QED BY <3>1, <3>2
  <2>5. HolderInv'
    BY <2>1, <2>2, <2>3 DEF HolderInv
  <2> QED BY <1>h, <1>n, <2>1, <2>3, <2>4, <2>5
<1>4. CASE Paint
  <2>1. /\ tried
        /\ IF renderer = "ml" THEN MlPaint ELSE UNCHANGED mlVars
        /\ IF renderer = "pl" THEN PePaint ELSE UNCHANGED peVars
        /\ IF renderer = None /\ hold = "pl" THEN PaintRows ELSE UNCHANGED topRow
        /\ UNCHANGED <<hostVars, navVars, hold, factories, renderer, tried, fbClick>>
    BY <1>4 DEF Paint
  <2>2. MlInv' /\ MenuHolds' /\ (loaded => loaded')
    BY <1>m, <1>t, <2>1, MlPaintStep
  <2>3. PeTypeOK'
    BY <1>e, <2>1, PePaintStep
  <2>4. topRow' \in 0 .. MaxRows
    <3>1. rowCount \in 0 .. MaxRows /\ topRow \in 0 .. MaxRows
      BY DEF HostInv, HostTypeOK, HolderInv
    <3> QED BY <2>1, <3>1 DEF PaintRows
  <2>5. HolderInv'
    BY <2>1, <2>2, <2>4 DEF HolderInv
  <2> QED BY <1>h, <1>n, <2>1, <2>2, <2>3, <2>5
<1>5. CASE RendererInput
  <2>1. UNCHANGED <<navVars, holderVars>>
    BY <1>5 DEF RendererInput
  <2>2. renderer' = renderer
    BY <2>1 DEF holderVars
  <2>3. CASE renderer = "ml" /\ (MlInput \/ MlMenu \/ TrackClickExpires) /\ UNCHANGED peVars
    <3>1. loaded
      BY <2>3 DEF HolderInv
    <3>2. HostInv' /\ MlInv' /\ MenuHolds' /\ loaded'
      BY <2>3, <3>1, MlInputStep
    <3>3. PeTypeOK'
      BY <2>3 DEF peVars, PeTypeOK
    <3> QED BY <1>n, <1>o, <2>1, <2>3, <3>1, <3>2, <3>3
  <2>4. CASE renderer = "pl" /\ (PeInput \/ PeClickExpires) /\ UNCHANGED mlVars
    BY <1>n, <1>o, <1>m, <2>1, <2>2, <2>4, EditorStep
  <2> QED BY <1>5, <2>3, <2>4 DEF RendererInput
<1>6. ASSUME NEW line \in 0 .. VisRows - 1, ClickOwnRow(line)
      PROVE  HostInv' /\ NavInv' /\ MlInv' /\ MenuHolds' /\ HolderInv' /\ PeTypeOK'
  <2> DEFINE row == topRow + line
  <2>1. /\ renderer = None /\ row < rowCount /\ current' = row /\ UNCHANGED <<library, rowCount>>
        /\ fbClick' = IF fbClick = row THEN -1 ELSE row
        /\ UNCHANGED <<navVars, mlVars, peVars, hold, factories, renderer, tried, topRow>>
    BY <1>6 DEF ClickOwnRow, OwnRows, playlistRow, Lists
  <2>2. row \in Nat
    BY DEF HolderInv
  <2> HIDE DEF row
  <2>3. /\ row \in -1 .. MaxRows - 1 /\ fbClick' \in -1 .. MaxRows - 1
        /\ HostInv'
    BY <2>1, <2>2 DEF HostInv, HostTypeOK
  <2>4. HolderInv'
    BY <1>m, <2>1, <2>3 DEF HolderInv
  <2>6. PeTypeOK'
    BY <2>1 DEF peVars, PeTypeOK
  <2> QED BY <1>n, <1>m, <2>1, <2>3, <2>4, <2>6
<1>7. ASSUME NEW steps \in {-1, 1}, WheelOwnRows(steps)
      PROVE  HostInv' /\ NavInv' /\ MlInv' /\ MenuHolds' /\ HolderInv' /\ PeTypeOK'
  <2>1. /\ UNCHANGED <<hostVars, navVars, mlVars, peVars, hold, factories, renderer, tried, fbClick>>
        /\ topRow - steps <= MaxRows
        /\ topRow' = IF topRow - steps < 0 THEN 0 ELSE topRow - steps
    BY <1>7 DEF WheelOwnRows, Lists
  <2>2. topRow' \in 0 .. MaxRows
    BY <2>1 DEF HolderInv
  <2>3. HolderInv'
    BY <1>m, <2>1, <2>2 DEF HolderInv
  <2> QED BY <1>h, <1>n, <1>m, <1>e, <2>1, <2>3
<1>8. CASE OwnClickExpires
  <2>1. /\ UNCHANGED <<hostVars, navVars, mlVars, peVars, hold, factories, renderer, tried, topRow>>
        /\ fbClick' = -1
    BY <1>8 DEF OwnClickExpires, Lists
  <2>2. HolderInv'
    BY <1>m, <2>1 DEF HolderInv
  <2> QED BY <1>h, <1>n, <1>m, <1>e, <2>1, <2>2
<1>9. CASE HostChanges
  <2>1. /\ Rescan \/ AddRow \/ RemoveRow
        /\ UNCHANGED <<navVars, mlVars, scroll, barRows, dragging, peClick, holderVars>>
    BY <1>9 DEF HostChanges
  <2>2. HostInv'
    <3>1. CASE Rescan
      BY <3>1 DEF Rescan, HostInv, HostTypeOK
    <3>2. CASE AddRow
      BY <3>2 DEF AddRow, HostInv, HostTypeOK
    <3>3. CASE RemoveRow
      BY <3>3 DEF RemoveRow, HostInv, HostTypeOK
    <3> QED BY <2>1, <3>1, <3>2, <3>3
  <2>3. PeTypeOK'
    BY <2>1 DEF PeTypeOK
  <2> QED BY <1>n, <1>m, <1>o, <2>1, <2>2, <2>3
<1>10. CASE UNCHANGED vars
  <2>1. UNCHANGED <<hostVars, navVars, mlVars, peVars, holderVars>> /\ renderer' = renderer
    BY <1>10 DEF vars, holderVars
  <2> QED BY <1>h, <1>n, <1>m, <1>e, <1>o, <2>1
<1> QED BY <1>1, <1>2, <1>3, <1>4, <1>5, <1>6, <1>7, <1>8, <1>9, <1>10 DEF Next

(* The invariant holds in every reachable state.                               *)
LEMMA HoldersInductive == Spec => []HoldersIInv
BY HoldersInit, HoldersStep, PTL DEF Spec

-----------------------------------------------------------------------------
(* The theorems.                                                                 *)

(* The current row is a row of the playlist, whoever moved it last.               *)
THEOREM CurrentStaysARow == Spec => []CurrentIsARow
<1>1. HoldersIInv => CurrentIsARow
  <2> SUFFICES ASSUME HoldersIInv PROVE HoldersTypeOK /\ current < rowCount
    BY DEF CurrentIsARow
  <2>1. MlTypeOK
    <3>1. MlInv /\ MenuHolds
      BY DEF HoldersIInv
    <3>2. panes = <<>> => Len(panes) = 0
      OBVIOUS
    <3>3. trackSel \in -1 .. Cardinality(Track) - 1
      BY <3>1, TrackClickStays
    <3> QED BY <3>1, <3>2, <3>3 DEF MlTypeOK, MlInv, MenuHolds
  <2> QED BY <2>1 DEF HoldersIInv, HostInv, NavInv, PeTypeOK, HolderInv, HoldersTypeOK
<1> QED BY <1>1, HoldersInductive, PTL

(* Panes and tracks tell one story.                                              *)
THEOREM OneStory == Spec => []ListingAgrees
<1>1. HoldersIInv => ListingAgrees
  <2> SUFFICES ASSUME MlInv PROVE ListingAgrees
    BY DEF HoldersIInv
  <2>1. DOMAIN panes = 1 .. Len(panes) /\ Len(tracks) \in Nat
    <3> HIDE DEF PaneRecord
    <3> QED BY DEF MlInv
  <2> QED BY <2>1 DEF MlInv, PaneAgrees, ListingAgrees
<1> QED BY <1>1, HoldersInductive, PTL

(* What starts playing is the track the user saw on the row.                      *)
THEOREM PlaysWhatWasSeen == Spec => []PlaysWhatIsShown
<1>1. HoldersIInv => PlaysWhatIsShown
  BY DEF HoldersIInv, MlInv, PlaysWhatIsShown
<1> QED BY <1>1, HoldersInductive, PTL

(* Deleting an item leaves none of its descendants behind.                        *)
THEOREM DescendantsGo == Spec => []NoOrphans
<1>1. HoldersIInv => NoOrphans
  BY DEF HoldersIInv, NavInv
<1> QED BY <1>1, HoldersInductive, PTL

(* A plugin that selects an item is told that item.                              *)
THEOREM SelectionIsTold == Spec => []SelectionReported
<1>1. HoldersIInv => SelectionReported
  BY DEF HoldersIInv, NavInv, SelectionReported, GetSelection
<1> QED BY <1>1, HoldersInductive, PTL
=============================================================================
