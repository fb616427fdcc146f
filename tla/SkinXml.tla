------------------------------- MODULE SkinXml -------------------------------
(* The parser of SkinXml.cpp: one pass over the files of a skin, in which an     *)
(* <include> splices another file where it stands.  Its recursion (readFile,     *)
(* readChildrenInto) is a stack here: an entry is a file or an element that has  *)
(* not been read to its end.                                                     *)
EXTENDS Integers, Sequences, SequencesExt, FiniteSets

CONSTANTS Skins,        \* what is on the disk: the first file, and what is at each path
          Nesting,      \* how deep elements are nested in a file
          Nested,       \* n -> the elements that the files have at most n deep
          None

(* An element without attributes.  `of` is what it names: a groupdef, a tag or a *)
(* file; kids are the elements in it.  "error" stands where XML is not well      *)
(* formed.  A path is what absoluteFilePath makes of one, which leaves the dots  *)
(* in: one file may be at several.  panes are the names of the groups in a frame. *)
Bare(tag) ==
    [tag |-> tag, id |-> None, of |-> None, iid |-> None, inherit |-> None, content |-> None,
     value |-> None, page |-> None, relative |-> FALSE, wndtype |-> FALSE, panes |-> <<>>,
     split |-> None, kids |-> <<>>]

(* Files are finite, and so are the elements in them.                            *)
ASSUME SkinsAssumption ==
    /\ Nesting \in Nat /\ Nested[0] = {}
    /\ \A n \in 1 .. Nesting :
          /\ Nested[n - 1] \subseteq Nested[n]
          /\ \A el \in Nested[n] :
                DOMAIN el = DOMAIN Bare("error") /\ el.kids \in Seq(Nested[n - 1])
    /\ \A s \in Skins :
          /\ IsFiniteSet(DOMAIN s.at) /\ s.main \in DOMAIN s.at /\ None \notin DOMAIN s.at
          /\ \A path \in DOMAIN s.at : s.at[path] \in Seq(Nested[Nesting])

VARIABLES skin,         \* the files
          reading,      \* the stack of the parser, its top first and the root of the Document last
          fileStack,    \* the files that are being read
          scopeStack,   \* the ids of the scopes around the reader
          refs          \* doc->scripts: the scripts and their owners

parserVars == <<skin, reading, fileStack, scopeStack, refs>>

ElementEntry(el, rest) == [el |-> el, path |-> None, rest |-> rest]
FileEntry(path) == [el |-> None, path |-> path, rest |-> skin.at[path]]
IsFile(entry) == entry.path # None

(* parse(): the first file is there, or there is no skin.                        *)
ParserInit ==
    /\ skin \in Skins
    /\ reading = <<FileEntry(skin.main), ElementEntry(Bare("wasabixml"), <<>>)>>
    /\ fileStack = <<skin.main>>
    /\ scopeStack = <<>>
    /\ refs = <<>>

Parsed == Len(reading) = 1
Document == Last(reading).el

-----------------------------------------------------------------------------
Reader == reading[1]
AtTag == ~Parsed /\ Reader.rest # <<>>
AtEnd == ~Parsed /\ Reader.rest = <<>>
Tag == Reader.rest[1]
Past == [reading EXCEPT ![1].rest = Tail(@)]

(* canonicalTag: other names of one widget.                                      *)
canonicalTag(tag) ==
    CASE tag \in {"seekbar", "eqband"} -> "slider"
      [] tag \in {"wasabi_editbox", "wasabi_historyeditbox"} -> "edit"
      [] tag = "wasabi_titlebox" -> "text"
      [] tag = "wasabi_checkbox" -> "checkbox"
      [] tag = "wasabi_dropdownlist" -> "dropdownlist"
      [] tag = "wasabi_tabsheet" -> "tabsheet"
      [] tag = "wasabi_radiogroup" -> "radiogroup"
      [] OTHER -> tag

(* injectImplicitAttrs: the action of a dedicated slider, unless it has one.     *)
Implicit(el) ==
    IF el.value # None THEN el.value
    ELSE IF el.tag = "seekbar" THEN "seek"
    ELSE IF el.tag = "eqband" THEN "eq_band"
    ELSE None

Canonised(el) == [el EXCEPT !.tag = canonicalTag(@), !.value = Implicit(el)]

(* An element with the kids it is read with.                                     *)
Kept(el, kids) == [Canonised(el) EXCEPT !.kids = kids]

IsScope(el) == el.tag \in {"groupdef", "group", "container", "layout"} /\ el.id # None

(* A start tag: its children come next.                                          *)
ReadElement ==
    /\ AtTag /\ Tag.tag \notin {"include", "error"}
    /\ reading' = <<ElementEntry(Kept(Tag, <<>>), Tag.kids)>> \o Past
    /\ scopeStack' = IF IsScope(Tag) THEN Append(scopeStack, Tag.id) ELSE scopeStack
    /\ UNCHANGED <<skin, fileStack, refs>>

OnDisk(path) == path \in DOMAIN skin.at

(* An include is read unless it is being read, or is not there: that is a        *)
(* warning, and the parser goes on.                                              *)
ReadInclude ==
    LET path == Tag.of
        read == OnDisk(path) /\ ~Contains(fileStack, path)
    IN  /\ AtTag /\ Tag.tag = "include"
        /\ reading' = IF read THEN <<FileEntry(path)>> \o Past ELSE Past
        /\ fileStack' = IF read THEN Append(fileStack, path) ELSE fileStack
        /\ UNCHANGED <<skin, scopeStack, refs>>

(* What is not well formed ends its file, and every element open in it.          *)
ReadError ==
    LET file == SelectInSeq(reading, IsFile)
    IN  /\ AtTag /\ Tag.tag = "error"
        /\ reading' = [i \in DOMAIN reading |->
                           IF i <= file THEN [reading[i] EXCEPT !.rest = <<>>] ELSE reading[i]]
        /\ UNCHANGED <<skin, fileStack, scopeStack, refs>>

(* A script is noted with the scope around it.                                   *)
Noted(el, owner) ==
    IF el.tag = "script" /\ el.of # None THEN <<[file |-> el.of, owner |-> owner]>> ELSE <<>>

(* An element is complete: it goes to the one around it, which may be in another *)
(* file.                                                                         *)
EndElement ==
    LET el     == Reader.el
        parent == 1 + SelectInSeq(Tail(reading), LAMBDA entry : ~IsFile(entry))
        owner  == IF scopeStack = <<>> THEN None ELSE Last(scopeStack)
    IN  /\ AtEnd /\ ~IsFile(Reader)
        /\ reading' = Tail([reading EXCEPT ![parent].el.kids = Append(@, el)])
        /\ scopeStack' = IF IsScope(el) THEN Front(scopeStack) ELSE scopeStack
        /\ refs' = refs \o Noted(el, owner)
        /\ UNCHANGED <<skin, fileStack>>

(* Mutant: a file is never read twice.                                           *)
EndFileStuck ==
    /\ AtEnd /\ IsFile(Reader)
    /\ reading' = Tail(reading)
    /\ UNCHANGED <<skin, fileStack, scopeStack, refs>>

(* A file is through: others may include it again.                               *)
EndFile ==
    /\ AtEnd /\ IsFile(Reader)
    /\ reading' = Tail(reading)
    /\ fileStack' = Front(fileStack)
    /\ UNCHANGED <<skin, scopeStack, refs>>

ParserStep == ReadElement \/ ReadInclude \/ ReadError \/ EndElement \/ EndFile

-----------------------------------------------------------------------------
(* Elements are walked by their path: the numbers of the kids that lead to them, *)
(* with the nearest scope on the way.  Where a path leads nowhere, there is       *)
(* nothing.                                                                      *)
Into(at, i) ==
    LET el == IF i \in DOMAIN at.els THEN at.els[i] ELSE Bare("none")
    IN  [els |-> el.kids, scope |-> IF IsScope(el) THEN el.id ELSE at.scope]

Descend(text, scope, path) ==
    LET at[n \in 0 .. Len(path)] ==
            IF n = 0 THEN [els |-> text, scope |-> scope] ELSE Into(at[n - 1], path[n])
    IN  at[Len(path)]

ElementsAt(text, path) == Descend(text, None, path).els

-----------------------------------------------------------------------------
(* What a text comes to: the elements, the scripts in them with their owners, and *)
(* whether it breaks off before its end.                                         *)
Nothing == [els |-> <<>>, refs |-> <<>>, broken |-> FALSE]

(* What comes after a break is lost.                                             *)
Followed(a, b) ==
    IF a.broken THEN a
    ELSE [els |-> a.els \o b.els, refs |-> a.refs \o b.refs, broken |-> b.broken]

Joined(parts) ==
    LET from[n \in Nat] ==
            IF n \in DOMAIN parts THEN Followed(parts[n], from[n + 1]) ELSE Nothing
    IN  from[1]

(* A text somewhere in the skin s: the files it is in, one included by the other, *)
(* and the scope around it.                                                      *)
Text == Seq(Nested[Nesting])
Scope == {None} \cup {el.id : el \in Nested[Nesting]}
Passage(s) == [files : SUBSET DOMAIN s.at, text : Text, scope : Scope]

(* An error breaks a text off, and whatever it is nested in, but not the file that *)
(* includes it.  An include comes to the file it names, in the scope it stands    *)
(* in, unless it is inside that file already.  Any other element is kept with    *)
(* what its own text comes to.                                                   *)
PartOf(s, content, place, el) ==
    LET includes == el.of \in DOMAIN s.at \ place.files
        file     == content[[place EXCEPT !.files = @ \cup {el.of}, !.text = s.at[el.of]]]
        inside   == content[[place EXCEPT !.text = el.kids,
                                          !.scope = IF IsScope(el) THEN el.id ELSE @]]
    IN  CASE el.tag = "error" -> [Nothing EXCEPT !.broken = TRUE]
          [] el.tag = "include" -> IF includes THEN [file EXCEPT !.broken = FALSE] ELSE Nothing
          [] OTHER -> [inside EXCEPT !.els  = <<Kept(el, @)>>,
                                     !.refs = @ \o Noted(Canonised(el), place.scope)]

Content(s) ==
    LET content[place \in Passage(s)] ==
            Joined([i \in DOMAIN place.text |-> PartOf(s, content, place, place.text[i])])
    IN  content

Whole(s) == [files |-> {s.main}, text |-> s.at[s.main], scope |-> None]

(* The document is the files of the skin, each spliced wherever it is included   *)
(* (but inside itself), as far as it can be read; and a script belongs to the    *)
(* scope around it there, be that scope in another file.  A file that cannot be  *)
(* read to its end costs the others nothing.                                     *)
FilesAreSpliced ==
    LET whole == Content(skin)[Whole(skin)]
    IN  Parsed => Document.kids = whole.els /\ refs = whole.refs
=============================================================================
