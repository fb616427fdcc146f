# A verification of qtWasabi

qtWasabi renders Winamp's Wasabi skins with Qt and runs the skins' own Maki scripts on the
original VM.  This directory holds TLA+ models of the parts of it whose correctness depends on the
order in which things happen, TLC configurations that check them on small instances, and proofs,
checked by TLAPS, of the properties that matter most.

Paths below are relative to the repository's root (`src/` there is the engine).

## 1. The system

| component | code | state it keeps | operations | who it talks to |
|---|---|---|---|---|
| Script roots | `src/SkinRuntimeBridge.cpp` (`switchActiveRoot`, `ScopedScriptRoot`, `dropScriptRoot`, widget registry) | the active root, the live globals, one snapshot per window, the widget to script object map | save / load / adopt / drop, register, find | every VM entry |
| SkinRuntime | `src/SkinRuntime.cpp` | loaded scripts, their blobs, the root key, the set of live runtimes | `loadScripts`, `reset`, destruction, dispatches | script roots, VM |
| Transport pump | `src/SkinRuntime.cpp:141-166` | last playback status | 100 ms poll, delivery to every runtime | host callback, SkinRuntime |
| Maki timers | `wq_timer_*` | QTimer, `started` flag and owning root per timer | arm, setDelay, start, stop, delete, tick | script roots, Qt event loop |
| Target tweens | `wq_gotoTarget`, `wq_widget_animate_target`, `animatedResizeLayoutTo` | stashed targets, animations in flight, pending flag, count | setTarget, gotoTarget, tick, finish | views, VM |
| Resize cascade | `dispatchInitialResize`, `firePerObjectResize` | geometry-dirty flag | fire to a fixpoint | VM, Layout |
| SkinView / SkinQuickItem | `src/SkinView.cpp`, `src/SkinQuickItem.cpp` | the widget tree, size, region, animation, the captured and the hovered widget, the grip | load, resize, press, move, release, hover, wheel, destruction | SkinRuntime, script roots, widgets |
| Popup menus | `wq_menu_bridge_exec` | the menu being built | exec: a nested event loop | everything that runs in that loop |
| Maki bridge, bindings, classes | `wasabi-port/*.cpp` | event tables, assigned variables, current script | dispatch, object creation | the VM (external) |
| Config service | `wasabi-port/maki-bindings.cpp:1559-1770` | attributes by item and by name, their values, the INI file | newAttribute, getAttribute, setData, getData | bridge (onDataChanged) |
| Synced controls | `src/CfgAttribStore.cpp`, `src/widgets/Button.cpp` | a value per key, subscribers, each control's state | make, free, set, click | each other, by the store |
| Bitmaps, themes, fonts | `src/BitmapRegistry.cpp`, `GammasetRegistry.cpp`, `FontRegistry.cpp` | definitions, roles, accents, themes, plugin images, three caches of pixels | load, setActiveGammaset, imageFor, tag, inject, register | surfaces, painters, host |
| Layout | `src/Layout.cpp`, `src/widgets/Widget.cpp` | the tree, the names being inlined, a frame's divider and its panes' attributes, resolved rectangles | expand, switch pages, split, resolve, setPosition | SkinRuntime (scripts per instance), views, scripts |
| Parser | `src/SkinXml.cpp` | the stacks of open files and scopes, the document, the scripts and their owners | parse | Layout, SkinRuntime |
| Widgets, painters | `src/widgets/*`, painters | attributes | hit-test, paint | views |
| kernel32 | `wasabi-compat/win32/kernel32.cpp` | threads, an APC queue each | CreateThread, QueueUserAPC, SleepEx, waits | the media library plugins |
| Handles, messages, GDI, services | `wasabi-compat/` | handle tables, window procedures, service registry | register / lookup / send / post | media library, playlist editor |
| Window holders | `src/widgets/WindowHolder.cpp`, `src/WindowHolderRegistry.cpp` | factories per component, the renderer chosen | register, first paint, forwarding | library, editor, host |
| Media library, playlist editor | `src/ml`, `src/pledit` | item table, filter panes, track list, scrolling, raster cache | messages, clicks, menus, painting | host, plugins |

What is hard in it, and what makes each part correct:

* **One VM, many windows, one set of globals.**  Everything a script resolves goes through process
  globals that are swapped per window.  All of it runs on the GUI thread, yet it interleaves: a
  popup menu spins an event loop *inside* a handler, and timers, resizes, loads and teardowns of
  other windows run there.  Correct means: a handler always sees its own window's globals, no
  window's globals ever hold another window's pointers, nothing is lost on the way, nothing of a
  destroyed window is ever reached, and the player's context is back when all handlers are done.
* **Asynchronous entries.**  Timers and animations are armed by a script and come back later, from
  another event loop, under another root, perhaps after their window is gone.
* **A protocol of flags.**  Who fires `onTargetReached` (the bridge or the embedder's tween) is
  decided by a flag that is swapped with the root and read after a callback that may do anything.
* **Events inside events.**  A handler's `setData` runs every listener before it returns, a popup
  inside a handler lets the transport pump in, a handler loads another window.  Every listener
  must end up with the newest value, and every script with the newest transport state.
* **Views of data that changes behind them.**  The library is scanned and the playlist edited while a
  list is on the screen or a menu is open over it: what is highlighted, filtered by and played
  must be what is shown.
* **Presses that end elsewhere.**  A press captures a widget or begins a move or resize, and its release
  may be another button's, or go to a menu or the compositor.  Whatever ends it must end all of it.
* **Many copies of one value.**  Controls in different trees share a config key, and are made and
  freed at any time.
* **Caches of computed pixels.**  A tint is made of a skin, a theme, tags, accents and region groups,
  each changed by a call of its own that drops a part of the caches: what is left must not be of the past.
* **A tree grown from names.**  Groupdefs inline, inherit and contain each other by name, in any spelling,
  and a script written once runs for each place its groupdef came to.  The expansion must end, give every
  place exactly what was declared, and every script the widget it was written for.
* **One split, written twice.**  A frame's panes get their attributes from the Expander and again from every
  `setPosition`, and are resolved one by one: together they must fill the frame where it has room.
* **Real threads** in kernel32: an APC must run exactly once, in order, and its worker must wake.

### Hazards

PROJECT.json lists 40 hazards at their lines, with the properties that would catch each going wrong or
the reason why none does.  Where a hazard is kept out of a model by an assumption, the
assumption is named there: `ConfigAssumption` (two items that declare the same attribute name share
one attribute, default and place in the store).

## 2. The modules

| module | models |
|---|---|
| `ScriptRoots` | the swap of the globals, the brackets, load, teardown, registry |
| `WindowContexts` | what the swap promises: one context per window, one current (abstract) |
| `MakiTimers` | timers over `ScriptRoots` (EXTENDS it) |
| `TargetTweens` | setTarget / gotoTarget over what `WindowContexts` promises |
| `KernelThreads` | threads, APC queues and alertable sleeps |
| `ScriptDispatch` | scripts loaded and unloaded, dispatches nested in one another, the current script |
| `ConfigAttributes` | the Config service over `ScriptDispatch` |
| `TransportPump` | the playback watcher over `ScriptDispatch` |
| `ScriptEvents` | composes the three, with popup loops and restarts of the process |
| `HostMedia` | the embedder's library and playlist (external) |
| `NavTree` | the library window's item table, as plugins fill it |
| `MediaBrowser` | the library view: panes, track list, menus, over `HostMedia` and `NavTree` |
| `PlaylistEditor` | the editor view over `HostMedia` |
| `HostedLists` | composes them in a window holder, with the registry and the engine's own rows |
| `SharedControls` | controls that share config keys, and the store |
| `ThemedBitmaps` | bitmaps, themes and fonts of a surface, and their caches |
| `PointerRouting` | the mouse, hover and wheel handlers of either surface, and sliders |
| `SkinXml` | the parser: files that include each other, scopes, the owners of scripts |
| `GroupExpansion` | the tables made of the document, the Expander, the binding of scripts to instances, groupxfade pages |
| `SplitFrames` | a `Wasabi:Frame`, its divider and its panes |
| `LayoutTree` | composes the three: a skin is read, a layout of it expanded, its scripts loaded |
| `MC*` | instances for TLC |
| `IsolationProofs` | theorems about `ScriptRoots` and `MakiTimers` |
| `LayoutTreeProofs` | theorems about `LayoutTree`: the parser, the Expander, the frames |
| `ScriptOwnersProofs` | over those, the theorem about the owners of scripts |
| `ServicesProofs` | theorems about `KernelThreads` and `ThemedBitmaps` |
| `ScriptEventsProofs`, `HostedListsProofs` | theorems about the module each is named for, and those it composes |
| `WidgetsProofs` | theorems about `SharedControls`, `PointerRouting` and `TargetTweens` |
| `CollectionLemmas` | lemmas about numbers, recursive functions, finite sets and sequences that these rest on |

### ScriptRoots

`live` is the set of swappable globals (`g_byId` and `g_activeRegistered` as one set of
registered widgets, the layout-root object, the callbacks, the bitmap registry), `roots` is
`g_roots`, `activeRoot` is `g_activeRoot`, `scriptObj` the keys of `g_scriptObjByWidget`.  `frames`
is the C++ stack as far as it matters: one frame per `ScopedScriptRoot` or handler, with the root
its destructor restores and what the frame does next.  `SaveActiveRoot`, `LoadActiveRoot`, `Adopts`
and `SwitchActiveRoot` are the functions of those names; that the containers are *moved* out of a
snapshot while the scalars stay in it is modelled.  A widget is a window, the load of that
window's tree it belongs to (the next load frees it), and whether its script object was made by
`loadScripts` or on demand; so "dangling" is expressible.

A callback or pointer is named by the window it belongs to.  Ids, geometry and scripts' own data
are abstracted away.

Taken from the environment: the player's view is loaded before any subwindow and goes away only at
rest; a window is not destroyed, reset or reloaded while one of its own handlers is on the stack;
input cannot reach the player while a popup is up (its timers can, bracketed); the player is loaded
with another skin only at rest.

Two things the code does are outside the bracketing discipline the rest relies on, and are switched
on by the constant `Departures`, so that what holds with them and what holds only without them is
kept apart: `"broadcast"`, the transport pump and the title change, which run handlers of every
runtime with no bracket; `"reload"`, `SkinView::load` on a view that is up, whose `resize()`
enters the VM before the scripts are reloaded.

### MakiTimers

A timer is a record of `g_makiTimers`, `g_timerStarted`, `g_timerRoot` and who made it.  `Timeout`
is the whole tick lambda: the started check, the zombie guard, the bracket, the handler.
`destroyAll` has no timer teardown; which timers the VM's `removeScript` destroys is the external
VM's business, so `UnloadTimers` lets it destroy any subset.  Timer objects are taken to be never
recycled at the same address.

### TargetTweens

The script roots appear as `WindowContexts` has them (a flag per window, one window current), which
is what the refinement check of `ScriptRoots` justifies.  Drawers are widgets driven by
`wq_widget_animate_target`, layouts are driven by the embedder's `animatedResizeLayoutTo`, bracketed
in SkinView and unbracketed in SkinQuickItem.  setTarget's stash is read by gotoTarget only and
taken away by it, so the two calls are one step.  The unbracketed ends come under their own root
unless `Departures` has `"animationEnd"`.

### KernelThreads

What the code does between locking and unlocking a queue's mutex is one step; callbacks run, and
waiters wake or time out, with the mutex free.  `calls` is the stack of `SleepEx` calls a thread is
in, since an APC may sleep alertably again.  A bounded `WaitForSingleObjectEx` is a loop of the
modelled sleeps that never joins; the unbounded one joins, and is made by the GUI thread.

### ScriptDispatch, ConfigAttributes, TransportPump, ScriptEvents

`frames` is the stack of `fire...` loops: each frame has what it has still to look at and the script
whose handler runs (`who`); a popup's event loop is a frame that runs nobody.  Loops over a runtime's
`loadedScripts` have the scripts left in `queue` (`FireQueued`); the fire functions of the bridge walk the VM's
event table by index up to the length it had at the start (`next`, `limit`, `FireEntry`), of the table as it is when
they come to an entry.  `table` has one entry for each script.  `FireNext`
looks the receiver's binding up when the loop comes to a script, as `vcpu_getAssignedVariable` does, so
a handler that binds, loads or unloads changes what the loop still finds.  `current` is `g_currentScript`, set
by every `FireNext` and by nothing else.  What a handler does is the composing module's choice:
`ScriptEvents!Handler` lets it declare, look up and set attributes; it may also open a popup, load and
unload other windows' scripts, or change the host's playback.

An attribute is named by the key that minted it.  `scoped` and `byName` are the two indexes of
`getOrCreateAttr`, `prefs` the INI file; `Restart` ends the process between any two steps and keeps
`prefs` alone (`wq_pref_save` syncs inside `setData`).  `missed` remembers attributes whose
`onDataChanged` the depth guard dropped, or whose walk a handler threw off by unloading a script behind
it (`Derailed`).  A script has one variable for attributes, so that assigning it
another one unbinds the first.  The host answers any `Status` at a tick, -1 among them; what the pump makes
of two statuses is `Edge`, as in the code.  The pump is not re-entered while one of its own handlers is
on the stack, since Qt does not deliver a timer inside its own slot.

### HostMedia, NavTree, MediaBrowser, PlaylistEditor, HostedLists

`HostMedia` is the embedder: queries by tags, a playlist of which only its length and current row
count, and changes of both by others.  `NavTree` has the item table with the order its hash is
iterated in (any), since `TVM_SELECTITEM` stores a position in it.  The browser's panes have
their field, values, the filter (`selected`) and the row (`lastSel`), the two kept apart as in the
code; `menu` is the `QMenu` that is open and what was captured for it before its loop.  A menu left
open blocks input to the view but not paints, scans and edits.  `misplayed` remembers that a row
started that is not the track the user saw on it.  The editor has no texts, and the cache of its image is not
modelled: its signature holds sizes, rows, the current row and the position, and whether it misses something is a question about
what it leaves out (section 4).  `HostedLists` chooses the renderer at the first paint.  Bounds: with plugins, the
library is empty and nobody touches the host; the library is only filled where it is shown.

### SharedControls

`store` is `m_values`, `subs` the number of subscriptions a living control has, `stale` the controls
that left one behind, `activated` and `state` what a control shows.  `Set` is `CfgAttribStore::set`
with all its callbacks, the writer's own included; `Create` is `makeResolved` followed, for the
controls of `Renewed`, by the second init call of `wireSteppersIn`.  `Vals` is a button's `cfgvals`, of any
length and none included, `NStates` its `nstates`, and a toggle may write any `cfgval`; `ToldApart` says whose values tell
their states apart, and only of those is agreement with the store claimed.

### ThemedBitmaps

An image is the record of what its pixels were computed from (`Tinted`): the skin and theme, the
transform of its group, the global one, those of its region groups, its accent.  `sub`, `masked` and
`tables` are the caches by id, of chrome with its cutouts, and of font tables; `Read` is what calls of
`imageFor` leave in the first, and that they promote a plugin's path to a decoded image.  A skin is
what its XML says (`Document`).  `under` labels an image with skin and theme, so that "of a theme that
is gone" can be said of a chrome image whose other parts are old.

Taken from the embedder: synthetic themes are injected after the bitmaps are tagged
(`GammasetRegistry.h:83-87`: with every group in use), tags are not assigned again after it, and
`injectGlobalTheme` is not called for the theme that is active.

### PointerRouting

`surface` says which of the two handlers' variants is modelled: the player's (`SkinQuickItem`, with
hover and an accumulated wheel) or a subwindow's (`SkinView`, whose resize margin wins over lists and
sliders).  `activeWidget` and `hover` are `m_activeWidget` and `m_hoverWidget`, with the load of the skin whose
tree the widget is of: a handler that would follow one into a tree that is gone is undefined behaviour
and does not happen in the model; `loads` counts the loads.  `held` is what Qt tells the surface of the buttons: a menu in the
press (`menu`) and a compositor that takes the move or resize over (`native`) keep the release.
`sliding`, `localPos` and `host` are a slider's `m_dragging` and `m_localPos` and what the host answers
for its action.  Positions are whole pixels of a small screen, a slider's value its pixels of travel.  `owed`
remembers what the wheel turned and no scroll step paid for.

### SkinXml, GroupExpansion, SplitFrames, LayoutTree

`SkinXml` reads a skin from the files on the disk.  An element is a record with the attributes the models
tell apart, its children in it; a path stands for what `absoluteFilePath` makes of it, dots and all.  `reading`
is the recursion of `readFile` and `readChildrenInto`; `fileStack` and `scopeStack` are the parser's own.  The tag
`"error"` stands where a file stops being well formed: there every loop over that file ends, the elements
open in it are kept as far as they came, and the file that included it goes on.  `FilesAreSpliced` compares the
document, and the owner of every script, with what splicing means: `Content`, a recursive function over passages, that is a
text with the files it is in and the scope around it.  Elements nest to some depth (`Nested[n]` are
those of at most n levels, `Nesting` the deepest of the skin, which any finite file has).  `ExpandLayout` then
makes the tables of `expandLayout` from the document: groupdefs by name, sendparams by scope, the layout.

The recursion of `Expander::visit` is a stack (`todo`): an entry is a loop over elements (`Visit`) or a call
that is still to be made or to return (`"inherit"`, `"body"`, `"content"`, `"leave"`), in the order the code
makes them.  `inflight` is `m_inflightInstances`, which holds names as they were written, while `Lookup`
ignores case.  `tree` numbers the widgets in the order they are made, which is the order of every later
walk.  A widget remembers the instance it is in (`scope`) and the groups spliced into its parent it came
with (`via`); one attribute (`value`) stands for all that groupdefs fill in and sendparams override.
`LoadScripts` is what `loadScripts` does with the parser's owners: the scripts of this window, `findOwnerWidget`, the scripts per instance, the handle
by id.  `SetGroupId` is a script's write, `ResolvePage` the next paint's re-expansion, with a fresh
in-flight set and without a scope, as in the code.

`TreeIsTheUnfolding` compares the finished tree with a recursive definition that knows no stack and no shared
set: `Unfolding` says from the skin and a widget's place alone what its children are.  It is stated for all
skins, however they spell names.  `findOwnerWidget` looks for an owner by id, then by tag, then by
`inherit_group`, then by what a widget was made of (`Bearing`).  `OwnScript` says of every scope whose name only its own instances
bear (`Clear`, per scope: other ids of the tree may repeat as they like) that each instance runs its scripts, on the first
widget of its id, which is itself unless an earlier one has its id (`FirstOf`); and of any window, that a script runs only on
what is called like its scope.  A groupxfade must have no kids before its page.  The runs contain trees that are not
`Clear`, in which ids repeat within a scope and across scopes, and strangers that bear a scope's name by id, tag
or `inherit_group`; section 4 says what happens there.

In `SplitFrames` an attribute of a pane that is absent is 0, `Split` is what `applyFrameDividerPos` writes,
`Planted` what `addPane` writes with the `relatw` of a pane's groupdef on top, `Resolve` is `resolveRectFromAttrs` along one axis.  `extent` is what the panes
are resolved in, which for a frame without a size is what the widget above was resolved in.

## 3. The runs

| run | instance | result | what it shows |
|---|---|---|---|
| `script_roots_departures` | 2 windows, 4 frames, 2 loads, both departures | holds | `NothingLost`, `NoDeadRoot`, `RestingRoot`, and `RefinesContexts`: the swap implements one context per window |
| `maki_timers` | 2 windows, 1 timer, 4 frames, 2 loads, no departures | holds | `Isolation`, `HandlersRunHome` (ticks and handlers), `NoDanglingWidget`, `OwnerIsHome`, and zombies are killed (`ZombiesReaped`) |
| `target_tweens` | 2 windows, 1 drawer, 2 sizes, depth 2 | holds | the counter is exact, the pending flag means a tween, every gotoTarget is answered |
| `kernel_threads` | 2 workers and the GUI thread, 3 APCs, sleeps nested twice | holds | APCs once and in order, no lost wakeup, delivery |
| `layout_tree` | 5880 skins of 3 groupdefs (one with two spellings), 8 with a frame, 8 odd ones (kids of a groupxfade, elements without ids, sendparams that say nothing), 196 in up to 3 files (one at two paths), 3 sizes, 6 positions | holds | files are spliced where they are included and scripts owned by the scope around them, no name is inlined inside itself, the tree is the skin unfolded, each instance has its script, the panes keep the minimum and tile their frame exactly where there is room |
| `hosted_lists` | 2 tracks, presets of 2 and 3 panes, 2 playlist rows of which 1 is visible, 3 tree items | holds | panes, track list and selection agree, what plays is what was shown, rows exist, the tree keeps no orphans and reports what was selected |
| `script_events` | 2 windows, 3 scripts, 3 nested frames, 1 attribute seen through 2 items, 2 values, depth 2, a host that answers 0, 3 and -1 | holds | listeners end with the value, every script with the edge of the last status, settings survive restarts |
| `shared_controls` | 3 toggles, one writing 0, 3 n-state buttons, one without cfgvals, 2 steppers, 2 keys | holds | controls of a key that tell their states apart agree with the store, a click advances exactly where the value reads back |
| `themed_bitmaps` | 2 skins, 3 bitmaps, 1 font, a native, a synthetic and a custom theme, 1 region group | holds | no tint outlives what it was made of, chrome and glyphs follow the theme, plugins' last image counts, synthetic themes cover the groups |
| `pointer_routing` | a window of 8 by 8 with a slider, a list and a button, 6 places of the pointer, 2 loads | holds | thumbs tell the host's value, nothing stays lit, moves and resizes follow their grip, the wheel loses nothing |
| `param_of_another_script` | as `script_events`, 2 scripts, one referenced twice, a host that answers 0 and 1 | violated | a comment of the dispatch loop against nested dispatches |
| `stale_subscriber` | as `shared_controls`, one button renewed | violated | a comment of `wireSteppersIn` against the subscriptions |

Why the bounds are enough.  Two windows are the player and a subwindow: a handler of one, the popup
loop inside it running, loading or closing the other (the proofs of section 5 are about any number).  Four frames allow a
popup in a handler in a popup in a handler; two loads per window allow a stale widget of the first
load beside a live one of the second.  One timer suffices since timers do not interact; two windows
since an owner is either home or not.  Two sizes give a tween and its reverse.  Three APCs for two threads and two
nested sleeps give a drain inside a drain with more to come.  Three dispatch frames are a handler
that sets, a listener that sets again and the listeners of that.  Three scripts in two windows give a
listener that is still to hear and one that has heard, and one behind a script that is unloaded under the walk; two
items give a lookup through the wrong one.  A VIEW leaves out which script is current, on which no step depends.  A
script referenced twice, which is loaded once and told twice of its load, is in `param_of_another_script` alone, and in the
theorems.  The host pauses in both ways; that it also plays (1) would more than double the
states, and is in `param_of_another_script` and in the theorem, which is for any statuses.
Two tracks that differ in one tag give filters that pass one, both or neither; one visible line of two
rows scrolls; three tree items make a grandchild.  A toggle and two n-state
buttons with different lists of values share one key, a toggle, one that writes 0, a button without `cfgvals` and two steppers
the other: a writer has listeners of its own and of the other kind, and values that none of its states has.  Of the two skins one has
a theme and a cutout, the other neither, and it declares the id that a plugin registers.  The pointer has places on the
slider, the list, the list inside the resize margin, the button inside it, and two that grip an edge or a corner.
Three files make circles of one, two and three and a file included twice, before and after it is in a circle or breaks
off.  Three groupdefs make an inherited body that contains the groupdef that inherits it; the layouts have a groupdef
twice in a row, twice by a tag with ids, as content, in a scope, and as a page; their kids have ids, which repeat with the instances, and
a stranger has the name of one for its `inherit_group`.  The frames are from either
edge, with a minimum and without, their panes with a groupdef's `relatw` and without; one size is
below the minimum, one just what a widened pane tiles in, one above, the positions off both ends, below and above the minimum.  Deadlock is not checked
where a session really ends (every window opened `MaxLoads` times, every APC queued).  Every bound is a
constant of the module (`MaxFrames`, `MaxLoads`, `MaxDepth`, `MaxCalls`, `MaxRows`, `MaxItem`, `MaxParts`, `Screen`), and none appears in the
proofs.  `Nesting` is no bound of this kind but what the skins enumerated have (4 levels, computed from them in
`MCLayoutTree`); the proofs are for any.

Fairness.  *User input is never fair*.  `FairTimerSpec`: the GUI thread finishes a load or teardown
it has begun (weak); a handler at a given depth returns if it can again and again (strong, since
events of nested loops may come in between: the code has no unbounded nesting); Qt delivers the
timeout of a QTimer that keeps running whenever the event loop keeps coming back (strong).
`TargetTweens`: the same, and the user eventually picks from a popup or dismisses it.
`KernelThreads`: a thread that can go on does (weak: nobody else can disable it for ever), and a
worker comes back to an alertable sleep or exits, which is what the workers this code was written
for do.

## 4. The findings

Two comments of the source are contradicted by what the code does; PROJECT.json quotes them.

* `param_of_another_script`: the current script is set per dispatch and not put back; after a nested
  dispatch `getParam()` and `getScriptGroup()` answer for the wrong script.
* `stale_subscriber`: a control with a sync key that `wireSteppersIn` initialises again subscribes
  twice, and one callback with a captured `this` survives it.

More that the models show or rest on, without a run of their own:

* With `"broadcast"` in the `Departures` of `MakiTimers`, `OwnerIsHome` fails: the pump runs the handlers of
  every runtime under whatever root is active, a timer armed there takes another window for its owner, and
  the comment of `wq_timer_arm` ("arms run under the owning root", `SkinRuntimeBridge.cpp:744-745`) is false.
* `chromeImageFor` is "Same as imageFor, but applies chrome cutouts" (`BitmapRegistry.h:110-112`), but tags,
  accents, region groups and plugins' images are dropped from the cache by id only (`BitmapRegistry.cpp:202`,
  193, 480-496); chrome with cutouts that was painted keeps its old pixels until the next theme or load.
* `SkinQuickItem::load` frees the tree (`SkinQuickItem.cpp:184`, `Layout.cpp:1266`) and leaves `m_hoverWidget`,
  the "widget currently under the mouse cursor" (`SkinQuickItem.h:278`), and `m_activeWidget` in it; the next
  event calls the freed widget.  A `GroupXFade` that switches its page does the same (`Layout.cpp:1111-1127`).
* A list that opens a menu in its press (`MlHostWidget.cpp:801`, 825, 937, 958) keeps the press when the menu
  took the release; the next press elsewhere begins a move or resize although `m_activeWidget` is not null, against
  `SkinQuickItem.h:284-285` ("While non-null, no window drag/resize is started"), which moves nothing until its release.
* With a render ratio other than 1 the player maps the pointer to layout units to decide whether it is inside
  (`SkinQuickItem.cpp:501-510`), but not to find the widget: presses, hover and wheel go to another widget than the one
  painted there.
* The registry has the same trouble as the timers: with `"broadcast"` in `Departures`, `NoDanglingWidget`
  fails (a handler entered by the pump registers a widget in another window's list), against the
  comment of `fireStaticTextChanged` (`SkinRuntimeBridge.cpp:369-370`).
* A drawer told, mid-slide, to stop where it is reports its target reached and slides on:
  `wq_widget_animate_target` returns (`SkinRuntimeBridge.cpp:1280-1303`) before it cancels what is in flight, against
  the comment of `widgetAnimMap` ("a fresh gotoTarget cancels the in-flight one", lines 1236-1240).  With three sizes
  `TargetTweens` reaches such a state (`SnapWidget` while the drawer runs).
* The pump takes 3 for "paused" (`SkinRuntime.cpp:143`) and the contract of `getStatus` says -1
  (`SkinRuntime.h:124-126`, `SkinRuntimeBridge.cpp:144-145`): with an embedder that follows it a pause is delivered as onStop, a
  resume as onPlay, although "events and polled status can never disagree" (`SkinRuntime.cpp:131-132`).  The run has such a host: `MeaningOf` is what scripts make of each status, and with
  `{"onPause"}` for -1 in it `ScriptsTold` fails.
* The walk of the event table goes by index to the length it had at the start (`maki-bridge.cpp:141-161`), over a table that
  closes up when a handler unloads a script: one that was loaded before the entry under way moves the rest up by its entries,
  and as many listeners of the event that were still to come are never called.  Without the `missed` of
  `ScriptEvents!Unload`, `ListenersAgree` fails in the run (three scripts; with two nothing is left to skip).
* A button without `cfgvals`: "state IS the value" (`Button.cpp:309-311`, `Button.h:147-148`).  It writes its state, but
  `valueToState` returns 0 for every value it does not find (`Button.cpp:302-306`): a click writes 1, the button hears it as
  state 0, and the next click writes 1 again, which is no change, and leaves it at 1.  `ClickAdvances` says exactly
  where a click advances.  In the same way a toggle with `cfgval="0"` turns itself off again as it is turned on.
* The editor's image is made anew when its signature has changed ("any field changing forces a re-raster",
  `PleditHostRenderer.cpp:318`); the rows' texts and durations and the colours it paints with (69-70, 81-109) are not
  in it: a title that becomes known, a colour theme, or a list replaced by one of the same length leaves the old image up.
* A snapping resize of a subwindow fires onTargetReached (`SkinView.cpp:124`) without raising the pending flag, and
  gotoTarget fires it once more; `SkinView.h:85-92` leaves open which is meant.
* "the FIXED pane is capped to parentExtent-min so both fit" (`Widget.cpp:143-144`): their sizes do make up the frame, and
  counted from the far edge they tile it.  Counted from the near edge the fixed pane shrinks and the remainder still begins at the divider
  (`Layout.cpp:836-841`, 2317): a gap, and as much hangs over.  `PanesTile` is an equivalence: `Roomy` says where they tile,
  and the run has frames where they do not.
* A pane whose groupdef says `relatw` is as large as its parent and the divider together until a script
  first moves the divider (`Layout.cpp:353-369` against 2299): `Widened`; it tiles only if it is capped.  A frame that declares no
  size takes a `setPosition`, which its panes do not follow (they have no `_frame_pane`).
* "Give each instance its OWN script" (`Layout.cpp:308-315`, `SkinRuntime.cpp:327-335`): two instances with one id share
  one script, bound to the first (`SkinRuntime.cpp:350-354` goes on by id), as do an instance and any earlier widget that
  happens to have its id; and an instance without an id may be passed over.  `OwnScript` says on which widget the script is
  (`FirstOf`); with the instance itself in its place it fails.  A script in a groupdef that is inherited, or shown in a page
  after the scripts were loaded, is never loaded: its groupdef has no widget.
* "Scope to THIS window: real Wasabi instantiates a container's own scripts" (`SkinRuntime.cpp:294-304`), but the scope
  is matched by its id alone, and most layouts are called "normal": a script in the layout "normal" of one container
  runs in the window of every other whose layout has that id, as it does in any with a widget whose tag or `inherit_group`
  is that name; and a script in a container but in none of its
  layouts runs in no window, for a container is in no tree.  Without the first condition of `Clear`
  `OwnScript` fails.  A groupdef declared twice runs the scripts of both declarations, and one with a xuitag and
  no id leaves its scripts to the scope around it.
* "or is malformed" (`SkinXml.h:64`): a root file that is not well formed is read up to there, and `parse` returns
  true.  "transparently unwrap" (`SkinXml.cpp:225-226`): every file gets a root of its own, so that a `<WasabiXML>` in it
  is never at the top (`SkinXml.cpp:258`) and stays as an element.  A circle of includes through a path with dots is
  noticed a round later, with the files in the document twice (`SkinXml.cpp:205` compares paths as text).
* The in-flight set compares names as written and `Lookup` does not (`Layout.cpp:39-51`): a cycle through two
  spellings ends a round later, with the bodies in the tree twice.  Groupdefs with a xuitag and no id share the
  name "", so one inside another is dropped (`Layout.cpp:240-244`).
* `inherit_group` is said to give "X's attrs as defaults" (`Layout.cpp:322`), but they are filled in before the
  groupdef's own and win over them.
* A page is expanded with the sendparams of every layout in the document (`Layout.cpp:1141-1142`), which
  `expandLayout` takes care not to do ("doesn't leak into ours", 1178-1180), and without the scope
  it is in; a page that contains its own groupxfade expands without end.
* A negative `setPosition` of a divider that is at 0 raises the geometry flag though nothing moves
  (`SkinRuntimeBridge.cpp:993-996`: "only when the position actually changes"): a handler that repeats it keeps the
  cascade going to its cut-off.
* With `"animationEnd"` in the `Departures` of `TargetTweens`, `PendingMeansTween` fails: the end of the
  player's tween (`SkinQuickItem.cpp:98-107`) is not bracketed as `SkinView.cpp:119-121` asks; inside a
  subwindow's popup loop it clears the subwindow's flag and leaves the player's up.
* No click on the library's navigation tree is ever the tree's: `MlHostWidget.cpp:831` tests
  `m_tree.lastCanvasRect`, which `Widget::cacheResolvedRects` (`Widget.cpp:192`) and `hitTest`
  (`Widget.cpp:330`) set for widgets of the tree they walk, and `m_tree` is a member outside of it; the
  code below it ("Nav tree: selecting a node switches the right-hand view") cannot run.  `MediaBrowser` therefore
  has no tree clicks, and the view never leaves `NavMode::Browser`.

## 5. The proofs

All theorems are of the form `Spec => []P` or `Spec => [][A]_v`, for arbitrary sets of windows, scripts,
threads, skins, tracks, sizes and APCs and any depth of nesting.  Each invariant a run checks is implied by an
inductive one, which is proved to hold at the start and to be kept by every action; what follows says which
that is and what it adds.

* `IsolationProofs`, about `ScriptRoots`: `TypeCorrect`: types, and that the snapshot of the active root holds no widgets
  (they were moved out), with any departures; `RunsHome`, `DeadRootsGone`, `ComesBackToRest`, for
  sessions in which every delivery is bracketed (`Departures = {}`; with a broadcast the first is false).
  None of these invariants is inductive: that the destructor of a bracket restores the right root
  depends on every frame below it.  The inductive invariant is `Discipline`: `Chained` (each frame
  below the innermost is a running handler, and each bracket restores the window of the frame
  below), `TeardownAlone` (a window that is torn down has no other frame), `ActiveFollows` (the
  active root is a function of the innermost frame's step) and `RootsOpen`.
  `ContextsImplemented`: `ScriptRoots` implements `WindowContexts` in every session,
  broadcasts and reloads included; each swap is one `Focus`, and all it needs is that nothing is ever
  saved for the null root.  With every delivery bracketed: `WindowsIsolated` (every snapshot *and* the
  live globals are owned by their window, `SnapshotsOwned` and `LiveOwned`, stale snapshots
  included), `NothingDangles` and `NobodyLoses`, from `Discipline` and `KeptAll`: a registered widget exists
  unless the innermost frame is just replacing its tree (`Tracked`), every script object is registered
  in its window's context, a window has its callbacks unless the innermost frame is loading it or
  tearing it down (`Kept`), and the null context is empty but while the player is configured
  (`NullEmpty`).
  With timers, for `TimerSpec`: `OwnersAreHome`, `TicksRunHome`, `TicksIsolated`, `TicksFindTheLiving`, with every
  delivery bracketed.  The two halves need each other: a timer is armed under its window's root because
  handlers run at home (`Discipline`), and handlers still run at home when it ticks because its owner is
  its window and a dead owner's tick is dropped (`TimersOwned`, `TickAtHome`).
* `WidgetsProofs`, about `TargetTweens`: `TweensTyped`; `WidgetsCounted` (the counter equals the number of running
  widget animations, by cardinality of the set that changes by one; with any departures);
  `PendingSafe`, for sessions in which animation ends come under their own root, from the invariant that
  every handler runs under the window of its frame.
* `ServicesProofs`, about `KernelThreads`: `ThreadsTyped`, `ApcsRunInOrder`, `NoWakeupLost` from one inductive invariant
  (their conjunction: the wakeup needs that only the innermost call can wait).

* `ScriptEventsProofs`: `EveryListenerHears`, `EveryScriptIsTold`, `SettingsSurvive`.  The first speaks of
  states in which no handler runs; what is true in between is `ListenersWait`: a script whose last reading is not
  the value of its attribute is still ahead of a dispatch of that attribute that will come to it, or the
  depth guard dropped its dispatch, or an unload threw the walk off (`missed`).  This is kept by a nested `setData` because the new walk
  has every entry of the table ahead, and by an unload of scripts that no walk has passed because the entries behind them move
  up in order, still below the limit.
  It needs `StackTyped` (a dispatch's queue holds only scripts of the table, each frame below the innermost has a
  handler running or is a popup's loop), `TablesAreLive` (the table is the scripts of the loaded
  windows, each once), `BindingsTyped` and `SettingsAreDeclared`
  (an attribute's value in memory is the store's, or the default).  `EveryScriptIsTold` adds `PumpGoesOn`: while a pump
  event is under way, a script that was not told the last edge is still in its queue, and at most one frame
  is a pump's; it needs nothing of the statuses but that each has one meaning (`MeaningOf`).
  `SettingsSurvive` is an action property: what a declared setting reads changes in a `SetData` of it and nowhere
  else, restarts included; it follows from memory and store agreeing before and after the step (`ReadsTheStore`).

* `HostedListsProofs`, with one invariant per part of the window (`HoldersIInv`): `CurrentStaysARow`,
  `OneStory`, `PlaysWhatWasSeen`, `DescendantsGo`, `SelectionIsTold`.  `DescendantsGo` is that the loop of `TVM_DELETEITEM`
  removes all descendants, although it is bounded by the number of items (`CascadeClosed`: a round that adds none is
  the last, and each other round adds one).  `PlaysWhatWasSeen` is about the user's eyes, and needs to know that the menu left open
  still names the row's track (`MenuHolds`) after every repaint.  `OneStory` needs that refreshing the panes
  from one on leaves the ones before it as they were, whose filters the new list still passes (`RefreshFacts`, `Relisted`).

* `LayoutTreeProofs`, about the Expander: `EachNameOnce`, for any skin: each name is inlined at most once on the stack, so the
  recursion of `visit` ends.  The invariant (`Guards`) says that the names in flight are exactly those of the calls
  that have not returned, and that these differ; every way of pushing calls keeps it, and the end of a
  call takes its name out, which is right because no other call has that name.

* `LayoutTreeProofs`, about the parser: `FilesSplice`, for any skin that satisfies `SkinsAssumption` (finitely many files,
  elements nested to a depth).  `Content` is well defined because a passage is measured by the files it may still
  include and then by the nesting left in its text (`Rank`, `ContentUnfolds`).  The invariant (`ReadsOn`) says of the reader
  in the middle of its work that what every entry of the stack has read, with what its text still comes to, closes into the
  entry below (`Chain`), that what arrives at the bottom is the content of the whole skin, and that `fileStack` and
  `scopeStack` are the files and scopes of the entries: each step moves a share of what is still to come to what has been
  read, and leaves the sum alone (one lemma per action).  An error drops what is to come of every element open in its file,
  which is what breaking off means for each of them, and of nothing below (`OwedError`).

* `LayoutTreeProofs`, about the Expander: `SkinUnfolds`, for any skin: every finished tree is the skin unfolded
  (`TreeIsTheUnfolding`), pages that scripts switched included.  The invariant (`TreeOk`) speaks of the tree that is not finished:
  of every widget, the children it has so far, with what the entries of the stack still owe it (`Owes`, `Debt`), are
  its `Unfolding` (`Grown`); and what an entry owes is right because the names in flight at it are the names open
  around the widget it visits into (`Sound`), which is where the one shared set and its early returns could go wrong.  A step
  either leaves every widget's debt as it is and moves some of it from one entry to others, or makes a widget, which
  pays one element of the debt of its parent and brings a debt of its own, or turns a page, which takes a
  subtree out and starts its groupxfade anew; there is one lemma for each.  `FilesSplice` comes into it because the
  tables hold elements of the document: these are of finite depth, so that what is defined by recursion over the elements
  under one, over the tree upwards, and over what a groupdef inherits is well defined (`RankedRecursion`).

* `ScriptOwnersProofs`: `ScriptsAreOwned`, for any skin: in a tree that is `Clear`, each instance of a scope has
  the scripts of that scope, and nothing runs but on what is called like its scope (`OwnScript`), from when scripts are loaded through every page that is
  turned later.  The scripts the parser noted are those found by walking the finished document, each with the scope around
  it (`DocumentScripts`, by induction over `Content` along `FilesSplice`); a script that has a scope for its owner is one of the
  scope's own and conversely (`OwnerScope`, `OwnerAround`, by induction over paths).  The invariant has two more parts: every
  widget that was there before any page is an element of the document, or a group made for a name (`Rooted`, with `TreeFits`
  over `SkinUnfolds`), so that no scope comes from elsewhere; and the bindings are right for the widgets that are in no
  page (`Owned`).  When scripts are loaded, what an owner's name finds is an instance of the scope or holds it as content
  (`OwnerIsInstance`), and every instance is found, by its own id if there are several
  (`InstanceIsOwner`), and stands for the first of its id: this takes every condition of `Clear`.  Afterwards steps of the Expander make widgets only in
  pages (`ExpanderKeepsTree`), and a page that is turned takes out only what was in one: that is where a groupxfade has
  to be empty before its first (`PagesComeLater`, `PageTurnOwned`).

* `WidgetsProofs`, about `SharedControls`: `ControlsTyped`, `Agreement` and `Advances`, for any controls, keys and values
  that satisfy `ControlsAssumption`.  Agreement with types is inductive: a `Set` leaves every living
  control of the key at the value by its callback or, when the value does not change, because the writer
  gave itself what the value already says, which is where its values must tell its states apart (`ToldApart`).  `Advances` has no such
  condition: it follows what the button hears of its own write.

* `ServicesProofs`, about `ThemedBitmaps`: `ThemesTyped`, `TintsStayFresh`, `ThemeIsShown` (chrome and glyphs),
  `LatestServed`, `Covered`, for any skins, themes and sequences of calls.  `TintsFresh` is inductive
  with types and the fact that synthetic themes do not exist before they are injected; that chrome and
  glyphs are of the current theme needs both it and that plugins' images are never tinted.

* `WidgetsProofs`, about `PointerRouting`, for any sliders, levels and sequences of pointer events: `ThumbsFollowTheHost`,
  with the invariant `SlidersHeld` (at most the slider that has the press is being dragged);
  `NobodyStaysLit`, with `PressedSlides` (a held slider has the pointer captured, so no move
  lights anybody else meanwhile); `WindowFollows`, with `InHand` (the left button is
  held while an edge is, at most one edge of each pair is held, and the window is untouched or where the last
  move put it).  `WheelScrollsEverything`: whatever the wheel turned and no step paid for is less than a notch, since
  a remainder is, of either sign and for any size of a notch (`LessThanANotch`).

* `LayoutTreeProofs`, about `SplitFrames`: `FramesTile`, for any sizes and positions: the rectangles are always those of the
  attributes (`FramesTypeOK`); `PanesResolve` says what each pane resolves to, and `RoomyTiles` compares the two, one case per
  edge, for a cap that bites or not, and for a pane that was widened or not.  `CascadeHears`: every setPosition that moves a pane raises the flag (`MovesAreFlagged`).

* `CollectionLemmas`: the provers here cannot take an operator as a parameter, so the library's induction theorems are of no use
  to them.  The lemmas make induction first-order: a set of numbers that has 0 and every successor
  has them all (from the least number of its complement), a recursive function on the numbers exists because every
  finite piece of it does (`PrimitiveRecursion`), and from these what `FlattenSeq`, `SetToSeq` and `SetToSeqs`
  compute, for every argument.  The tables of scripts, the scan of the tree, the host's queries and
  the panes' values rest on them.

Assumptions are the named `ASSUME`s of the modules (distinctness of the null values, bounds natural, what a
configuration of the constants means) and, where written, `Departures = {}` and finiteness of the set of windows.

Model-checked only: everything temporal under fairness (`ZombiesReaped`, `Answered`, `Delivered`), which is out of the
prover's reach.  The two
properties of the runs that are violated are refuted, not proved.  `Among` and `Extended` stand in `GroupExpansion` for
`SelectSeq` and `@@`, of which the provers know nothing.  Types of the modules above are part of the
theorems, and no run spends its time on types alone.

## 6. Not modelled

The Maki VM is external (a submodule) and appears as "a handler runs, does any of these things, and
returns".  Parsing, most of geometry, painting and hit testing are functions of their
input with no behaviour over time: with the Win32, GDI and class tables, which are stubs and method
tables, they are most of the repository's lines, and the reason why the mapped share of them stays
small.  PROJECT.json says for each component what is missing and why.  In the models themselves:

* Undefined behaviour is left out, not modelled as a result: unloading the scripts of a dispatch in
  flight, a window closing under its own handler or under a running tween, a call of a callback whose
  control was freed.
* `ConfigAttributes`: private and public ints and strings (a direct read or write of the store), two
  items with one attribute name, a lookup through another item before the declaration, the aliasing of
  items by guid and name.
* `SharedControls`: `autotoggle=0`, the
  `_tab_key` branch, which nothing sets; how a press gets to a button, which the surfaces never do.
* `MediaBrowser`: columns, sort markers, counts, search text, and the modes only tree clicks lead to.
* `ThemedBitmaps`: pixels, the cells of glyphs, TrueType fonts, the cache of whole files by path, and
  colours, which are resolved anew on every use.  Injecting the theme that is active again leaves its old
  tint in every cache: `TintsFresh` is false with it.
* `PointerRouting`: overlapping widgets and the order they are hit in, vertical sliders and sliders the host
  does not track, what a click does (`ScriptRoots`), the relayout during a resize, moves of the window by the
  compositor, and a mouse grab that is taken away.
* `SkinXml`: the names of a skin, aliases of attributes, files in directories (a path stands for one), warnings,
  and `resolveContainerId`, which finds a container for a component.
* `GroupExpansion`: `embed_xui`, hidden objects, XUI text parameters, `background=` layers, the menu bar's
  shifts and overlays, tags that are dropped
  as scaffolding, groupxfades below the layout; scripts without an owner, which run for no group; the body of an `inherit_group=` that an
  instance of a groupdef is written with.
* `SplitFrames`: the axis across the split, percentages, a `relatx` or `fitparent` that a pane's groupdef
  declares, the dividers' bitmaps, frames without a declared size.
* `KernelThreads`: events, critical sections, `TerminateThread`, exit codes, a second joiner (what its join would do is
  undefined, `kernel32.cpp:241`).
* `PlaylistEditor`: `draw_pe`, the rows' texts and the cache of the image.
* Over-approximations: `MakiTimers!Timeout` may come whenever its timer runs, however short the time;
  `ScriptRoots!EnterBroadcast` may nest in itself, which Qt's timer does not, though a title change may.

## 7. Plan

Done: all modules above, and proofs of every safety property of the runs that pass.  What would add most to the models:
the walks of the widget registry while handlers change it; windows that close under a running tween;
the settle loop over the rectangles of `SplitFrames`.
