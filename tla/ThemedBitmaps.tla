---------------------------- MODULE ThemedBitmaps ----------------------------
(* A surface's bitmaps and fonts under its colour themes (BitmapRegistry.cpp,    *)
(* GammasetRegistry.cpp, FontRegistry.cpp and the surfaces' load and             *)
(* setActiveGammaset): three caches of tinted pixels, which the calls that       *)
(* change what a tint is made of each clear in part.  An image is the record of  *)
(* what its pixels were computed from.                                           *)
EXTENDS Naturals, Sequences

CONSTANTS Id,           \* bitmap ids, of the skins and of plugins
          Group,        \* gammagroups
          Backgrounds,  \* the group that drawers are accented by,
          Body,         \* and the one that takes its place (syn.body)
          RoleOf,       \* id -> the group its use or its wording implies
          Drawers,      \* ids with "drawer" in them
          Skin,         \* documents
          Doc,          \* skin -> what its XML says, see Document
          Theme,        \* names of colour themes
          Synthetic,    \* those of injectSyntheticThemes
          Style,        \* synthetic theme -> group -> its transform
          Transform,
          Plain,        \* the identity transform
          Colour,       \* of accents
          Font,
          FontBitmap,   \* font -> file=
          FontFile,     \* fonts for which that is a file of the skin
          Picture,      \* decoded images of plugins
          File,         \* paths of plugins
          Unreadable,   \* those that do not decode
          Baked,        \* ids with a logo or a label baked in, to be picked out
          Label,        \* the groups to pick it out by
          Plugin,       \* ids that plugins register
          Custom,       \* the embedder's own themes,
          Recolour,     \* and their transforms
          MaxParts,     \* bound: setRegionGroup calls per bitmap and load
          NoSkin, NoGroup, Undeclared, NoSet, NoTheme, NoColour, NoFile,
          Unthemed,     \* what a plugin's or a loose font's image is made under
          Missing,      \* the null QImage
          NotCached

Gammaset == [tint : [Group -> Transform], all : Transform]

Document == [group    : [Id -> Group \cup {NoGroup, Undeclared}],
             broken   : SUBSET Id,                  \* ids whose file is not there
             sets     : [Theme -> Gammaset \cup {NoSet}],
             default  : Theme \cup {NoTheme},       \* what loadFromDocument activates
             cutouts  : [Id -> SUBSET Id]]          \* collectChromeCutouts

ASSUME ThemesAssumption ==
    /\ {Backgrounds, Body} \subseteq Group
    /\ RoleOf \in [Id -> Group]
    /\ Synthetic \subseteq Theme
    /\ Plain \in Transform
    /\ Style \in [Synthetic -> [Group -> Transform]]
    /\ Doc \in [Skin -> Document]
    /\ \A s \in Skin :
         /\ Doc[s].default # NoTheme => Doc[s].sets[Doc[s].default] # NoSet
         /\ \A t \in Synthetic : Doc[s].sets[t] = NoSet
    /\ Baked \cup Plugin \subseteq Id
    /\ Label \subseteq Group
    /\ Custom \subseteq Theme
    /\ Recolour \subseteq Transform
    /\ FontBitmap \in [Font -> Id]
    /\ NoSkin \notin Skin
    /\ {NoGroup, Undeclared} \cap Group = {}
    /\ NoGroup # Undeclared
    /\ NoSet \notin Gammaset
    /\ NoTheme \notin Theme
    /\ NoColour \notin Colour
    /\ NoFile \notin File
    /\ MaxParts \in Nat

VARIABLES skin,         \* the document that was loaded last
          group,        \* gammagroup of m_defs; Undeclared outside of m_defs
          soft,         \* m_satMaskedIds
          glow,         \* m_accentRegions
          parts,        \* m_regionGroups
          sets,         \* m_sets
          active,       \* m_active, by name
          injected,     \* m_injectedSynthetic
          decoded,      \* m_runtime
          paths,        \* m_runtimePaths
          latest,       \* history: what a plugin registered last for the id
          sub,          \* m_subCache
          masked,       \* m_maskedCache
          tables        \* m_charTableCache

defs == <<skin, group, soft>>
regions == <<glow, parts>>
themes == <<sets, active, injected>>
runtime == <<decoded, paths, latest>>
caches == <<sub, masked, tables>>
vars == <<defs, regions, themes, runtime, caches>>

NoImages == [i \in Id |-> NotCached]
NoTables == [f \in Font |-> NotCached]

Init ==
    /\ skin = NoSkin
    /\ group = [i \in Id |-> Undeclared]
    /\ soft = {}
    /\ glow = [i \in Id |-> NoColour]
    /\ parts = [i \in Id |-> <<>>]
    /\ sets = [t \in Theme |-> NoSet]
    /\ active = NoTheme
    /\ injected = FALSE
    /\ decoded = [i \in Id |-> Missing]
    /\ paths = [i \in Id |-> NoFile]
    /\ latest = [i \in Id |-> Missing]
    /\ sub = NoImages
    /\ masked = NoImages
    /\ tables = NoTables

Declared(i) == group[i] # Undeclared

-----------------------------------------------------------------------------
(* What an image is, without any cache.                                          *)
transformFor(g) ==
    IF active = NoTheme \/ g = NoGroup THEN Plain ELSE sets[active].tint[g]

globalTransform == IF active = NoTheme THEN Plain ELSE sets[active].all

Untinted(p) == [pic |-> p, under |-> Unthemed, tint |-> Plain, soft |-> FALSE,
                all |-> Plain, parts |-> <<>>, glow |-> NoColour]

Tinted(i) ==
    IF i \in Doc[skin].broken THEN Missing
    ELSE [pic |-> i, under |-> <<skin, active>>,
          tint |-> transformFor(group[i]), soft |-> i \in soft,
          all |-> globalTransform,
          parts |-> [k \in DOMAIN parts[i] |-> transformFor(parts[i][k])],
          glow |-> glow[i]]

Decode(p) == IF p = NoFile \/ p \in Unreadable THEN Missing ELSE Untinted(p)

(* A plugin's image, for an id that the skin does not declare.                   *)
Served(i) == IF decoded[i] # Missing THEN decoded[i] ELSE Decode(paths[i])

imageFor(i) ==
    IF ~Declared(i) THEN Served(i)
    ELSE IF sub[i] # NotCached THEN sub[i] ELSE Tinted(i)

(* What a call of imageFor for each of these leaves behind.                      *)
Read(ids) ==
    /\ sub' = [i \in Id |-> IF i \in ids /\ Declared(i) THEN imageFor(i) ELSE sub[i]]
    /\ decoded' = [i \in Id |-> IF i \in ids /\ ~Declared(i) THEN Served(i) ELSE decoded[i]]
    /\ UNCHANGED <<paths, latest>>

-----------------------------------------------------------------------------
(* The painters ask for an image, a chrome layer's image and a glyph.            *)
GetImage(i) ==
    /\ Read({i})
    /\ UNCHANGED <<defs, regions, themes, masked, tables>>

chromeImageFor(i) ==
    /\ skin # NoSkin
    /\ masked[i] = NotCached
    /\ LET cuts == Doc[skin].cutouts[i]
       IN  IF cuts = {} \/ imageFor(i) = Missing
           THEN /\ Read({i})
                /\ UNCHANGED masked
           ELSE /\ Read({i} \cup cuts)
                /\ masked' = [masked EXCEPT ![i] =
                     [base |-> imageFor(i), cuts |-> {imageFor(c) : c \in cuts} \ {Missing}]]
    /\ UNCHANGED <<defs, regions, themes, tables>>

glyph(f) ==
    /\ skin # NoSkin
    /\ tables[f] = NotCached
    /\ LET image == imageFor(FontBitmap[f])
           table == IF image = Missing /\ f \in FontFile THEN Untinted(f) ELSE image
       IN  tables' = IF table = Missing THEN tables ELSE [tables EXCEPT ![f] = table]
    /\ Read({FontBitmap[f]})
    /\ UNCHANGED <<defs, regions, themes, masked>>

-----------------------------------------------------------------------------
(* Mutant: the chrome keeps the tint of the last theme.                          *)
dropSubCacheOnly == sub' = NoImages /\ UNCHANGED masked

(* Binding the gammasets again is how tints are dropped.                         *)
setGammasetRegistry == sub' = NoImages /\ masked' = NoImages

(* loadFromDocument of the bitmaps and of the gammasets.                         *)
loadBitmaps(s) ==
    /\ group' = Doc[s].group
    /\ soft' = {}
    /\ glow' = [i \in Id |-> NoColour]
    /\ parts' = [i \in Id |-> <<>>]

(* Mutant: the once-per-load flag outlives the skin.                             *)
loadThemesOnly(s) ==
    /\ sets' = Doc[s].sets
    /\ active' = Doc[s].default
    /\ UNCHANGED injected

loadThemes(s) ==
    /\ sets' = Doc[s].sets
    /\ active' = Doc[s].default
    /\ injected' = FALSE

(* The surface's load drops every cache and reads some images itself, for widths *)
(* and cutouts; an expandLayout that fails ends it before it changes anything.   *)
load(s, used) ==
    /\ skin' = s
    /\ loadBitmaps(s)
    /\ loadThemes(s)
    /\ masked' = NoImages
    /\ tables' = NoTables
    /\ sub' = [i \in Id |-> IF i \in used /\ Declared(i)' THEN Tinted(i)' ELSE NotCached]
    /\ decoded' = [i \in Id |-> IF i \in used /\ ~Declared(i)' THEN Served(i) ELSE decoded[i]]
    /\ UNCHANGED <<paths, latest>>

setActiveGammaset(t) ==
    /\ active' = IF sets[t] = NoSet THEN NoTheme ELSE t
    /\ setGammasetRegistry
    /\ tables' = NoTables
    /\ UNCHANGED <<defs, regions, sets, injected, runtime>>

invalidateGlyphCache ==
    /\ tables' = NoTables
    /\ UNCHANGED <<defs, regions, themes, runtime, sub, masked>>

-----------------------------------------------------------------------------
(* The embedder recolours a skin.  Its synthetic themes are made "after the      *)
(* bitmaps are tagged" and only once per load; the groups it passes are          *)
(* usedGammagroups.  A theme that is active is not replaced (README, "Not        *)
(* modelled").                                                                   *)
assignRolesFromWidgetTree(accentDrawers) ==
    LET role   == [i \in Id |-> IF group[i] = NoGroup THEN RoleOf[i] ELSE group[i]]
        bodies == {i \in Id : accentDrawers /\ role[i] = Backgrounds}
    IN  /\ ~injected
        /\ group' = [i \in Id |-> IF i \in bodies THEN Body ELSE role[i]]
        /\ soft' = soft \cup (bodies \cap Drawers)
        /\ sub' = NoImages
        /\ UNCHANGED <<skin, regions, themes, runtime, masked, tables>>

usedGammagroups == {group[i] : i \in Id} \cap Group

Synthesized(t, names) ==
    [tint |-> [g \in Group |-> IF g \in names THEN Style[t][g] ELSE Plain], all |-> Plain]

injectSyntheticThemes ==
    /\ ~injected
    /\ usedGammagroups # {}
    /\ \A i \in Id : group[i] # NoGroup
    /\ sets' = [t \in Theme |-> IF t \in Synthetic THEN Synthesized(t, usedGammagroups) ELSE sets[t]]
    /\ injected' = TRUE
    /\ UNCHANGED <<defs, regions, active, runtime, caches>>

injectGlobalTheme(t, x) ==
    /\ t \notin Synthetic \cup {active}
    /\ sets' = [sets EXCEPT ![t] = [tint |-> [g \in Group |-> Plain], all |-> x]]
    /\ UNCHANGED <<defs, regions, active, injected, runtime, caches>>

Forget(ids) == [i \in Id |-> IF i \in ids THEN NotCached ELSE sub[i]]

setAccentRegion(i, c) ==
    /\ glow' = [glow EXCEPT ![i] = c]
    /\ sub' = Forget({i})
    /\ UNCHANGED <<defs, parts, themes, runtime, masked, tables>>

setRegionGroup(i, g) ==
    /\ Len(parts[i]) < MaxParts
    /\ parts' = [parts EXCEPT ![i] = Append(@, g)]
    /\ sub' = Forget({i})
    /\ UNCHANGED <<defs, glow, themes, runtime, masked, tables>>

(* Mutant: bitmaps with region groups alone keep their image.                    *)
clearByGlow ==
    /\ glow' = [i \in Id |-> NoColour]
    /\ parts' = [i \in Id |-> <<>>]
    /\ sub' = Forget({i \in Id : glow[i] # NoColour})
    /\ UNCHANGED <<defs, themes, runtime, masked, tables>>

clearAccentRegions ==
    /\ glow' = [i \in Id |-> NoColour]
    /\ parts' = [i \in Id |-> <<>>]
    /\ sub' = Forget({i \in Id : glow[i] # NoColour \/ parts[i] # <<>>})
    /\ UNCHANGED <<defs, themes, runtime, masked, tables>>

-----------------------------------------------------------------------------
(* Plugins register images by id, decoded or by path.                            *)
registerRuntimeImage(i, p) ==
    /\ decoded' = [decoded EXCEPT ![i] = Untinted(p)]
    /\ paths' = [paths EXCEPT ![i] = NoFile]
    /\ latest' = [latest EXCEPT ![i] = Untinted(p)]
    /\ sub' = Forget({i})
    /\ UNCHANGED <<defs, regions, themes, masked, tables>>

(* Mutant: the decoded image of an earlier registration stays in front.          *)
registerPathOnly(i, p) ==
    /\ paths' = [paths EXCEPT ![i] = p]
    /\ latest' = [latest EXCEPT ![i] = Decode(p)]
    /\ sub' = Forget({i})
    /\ UNCHANGED <<defs, regions, themes, decoded, masked, tables>>

registerRuntimePath(i, p) ==
    /\ paths' = [paths EXCEPT ![i] = p]
    /\ decoded' = [decoded EXCEPT ![i] = Missing]
    /\ latest' = [latest EXCEPT ![i] = Decode(p)]
    /\ sub' = Forget({i})
    /\ UNCHANGED <<defs, regions, themes, masked, tables>>

unregisterRuntimeBitmap(i) ==
    /\ decoded' = [decoded EXCEPT ![i] = Missing]
    /\ paths' = [paths EXCEPT ![i] = NoFile]
    /\ latest' = [latest EXCEPT ![i] = Missing]
    /\ sub' = Forget({i})
    /\ UNCHANGED <<defs, regions, themes, masked, tables>>

-----------------------------------------------------------------------------
Next ==
    \/ \E i \in Id : GetImage(i) \/ chromeImageFor(i)
    \/ \E f \in Font : glyph(f)
    \/ \E s \in Skin, used \in SUBSET Id : load(s, used)
    \/ \E t \in Theme : setActiveGammaset(t)
    \/ invalidateGlyphCache
    \/ \E accentDrawers \in BOOLEAN : assignRolesFromWidgetTree(accentDrawers)
    \/ injectSyntheticThemes
    \/ \E t \in Custom, x \in Recolour : injectGlobalTheme(t, x)
    \/ \E i \in Baked, c \in Colour : setAccentRegion(i, c)
    \/ \E i \in Baked, g \in Label : setRegionGroup(i, g)
    \/ clearAccentRegions
    \/ \E i \in Plugin, p \in Picture : registerRuntimeImage(i, p)
    \/ \E i \in Plugin, p \in File : registerRuntimePath(i, p)
    \/ \E i \in Plugin : unregisterRuntimeBitmap(i)

Spec == Init /\ [][Next]_vars

-----------------------------------------------------------------------------
(* Types; the active theme is always one that exists, and regions and tags are   *)
(* a loaded skin's.                                                              *)
ThemesTypeOK ==
    /\ skin \in Skin \cup {NoSkin}
    /\ group \in [Id -> Group \cup {NoGroup, Undeclared}]
    /\ skin = NoSkin => \A i \in Id : group[i] = Undeclared
    /\ soft \subseteq Id
    /\ glow \in [Id -> Colour \cup {NoColour}]
    /\ parts \in [Id -> Seq(Group)]
    /\ sets \in [Theme -> Gammaset \cup {NoSet}]
    /\ active \in Theme \cup {NoTheme}
    /\ active # NoTheme => sets[active] # NoSet
    /\ injected \in BOOLEAN

(* A tinted image in the cache is the one that would be computed now, whatever   *)
(* was tagged, injected, accented, cleared or switched since ("existing tinted   *)
(* images become stale", BitmapRegistry.cpp:54).                                 *)
TintsFresh ==
    \A i \in Id : sub[i] # NotCached => Declared(i) /\ sub[i] = Tinted(i)

UpToTheme(image) == image.under \in {Unthemed, <<skin, active>>}

(* Chrome with its cutouts baked in is never painted in the tint of a theme or a *)
(* skin that is gone.                                                            *)
ChromeThemed ==
    \A i \in Id : masked[i] # NotCached =>
        \A image \in masked[i].cuts \cup {masked[i].base} : UpToTheme(image)

(* Glyphs are cut from a table in the active theme ("without it, glyphs keep the *)
(* previous theme's tint", FontRegistry.h:54-56).                                *)
GlyphsThemed == \A f \in Font : tables[f] # NotCached => UpToTheme(tables[f])

(* Nothing on the screen keeps the tint of a theme or a skin that is gone.       *)
ThemeShown == ChromeThemed /\ GlyphsThemed

(* A plugin's id that no skin declares gives what was registered last, decoded   *)
(* or by path, across loads that declare it and loads that do not                *)
(* ("Re-registering an id replaces the previous entry", BitmapRegistry.h:134).   *)
RuntimeIsLatest == \A i \in Id : ~Declared(i) => imageFor(i) = latest[i]

(* Once they are made, the synthetic themes have a transform for every group a   *)
(* bitmap of the loaded skin has.                                                *)
SyntheticCovers ==
    injected => \A t \in Synthetic, g \in usedGammagroups :
        sets[t] # NoSet /\ sets[t].tint[g] = Style[t][g]
=============================================================================
