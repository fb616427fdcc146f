---------------------------- MODULE ScriptRoots ----------------------------
(* The per-window script context of the engine (SkinRuntimeBridge.cpp).  One    *)
(* Maki VM serves every window; what a script resolves its ids, its layout       *)
(* root, its repaint callback and its bitmaps against is a set of process        *)
(* globals, "live" here, swapped with a snapshot per window ("roots") whenever   *)
(* the active script root changes.  The player is the resting root; a subwindow  *)
(* brackets its load, its events and its teardown with a ScopedScriptRoot, which *)
(* is a frame of "frames" here.                                                  *)
(*                                                                               *)
(* All of it runs on the GUI thread: a step belongs to the innermost frame,      *)
(* and an event of another window comes in only when no handler runs or when     *)
(* the innermost handler waits in the event loop of a popup menu.                *)
EXTENDS Naturals, Sequences, SequencesExt

CONSTANTS
    Window,       \* the windows, each named by its layout-tree root pointer
    Player,       \* the main window (not in Window: a session without one)
    Null,         \* nullptr: no active root, no callback, no layout root
    MaxFrames,    \* bound: handlers and brackets open at once
    MaxLoads,     \* bound: trees expanded for one window
    Departures    \* deliveries beyond the bracketing discipline, see below

ASSUME ConstantsAssumption ==
    /\ Null \notin Window
    /\ Player # Null
    /\ MaxFrames \in Nat
    /\ MaxLoads \in Nat
    /\ Departures \subseteq {"broadcast", "reload"}

VARIABLES
    activeRoot,   \* g_activeRoot
    live,         \* the swappable globals: g_byId, g_activeRegistered, ...
    roots,        \* g_roots: root key -> RootData snapshot
    scriptObj,    \* the keys of g_scriptObjByWidget
    open,         \* window -> it exists and was handed to loadScripts
    loads,        \* window -> trees expanded for it so far
    frames        \* the open brackets and handlers, innermost last

vars == <<activeRoot, live, roots, scriptObj, open, loads, frames>>

Subwindow == Window \ {Player}
Key == Window \cup {Null}

(* A widget is told apart by its window, by the expansion of the layout it       *)
(* belongs to (the next expansion frees it) and by whether loadScripts or a      *)
(* script's own lookup gave it a script object.                                  *)
Widget == [win : Window, load : Nat, onDemand : BOOLEAN]

(* A pointer or a callback is named by the window it belongs to.                 *)
RootData == [registered : SUBSET Widget,    \* byId and registered, moved
             layoutRoot : Key,
             repaint : Key,                 \* repaint and skinResize
             bitmaps : Key]

EmptyRoot == [registered |-> {}, layoutRoot |-> Null, repaint |-> Null,
              bitmaps |-> Null]

Step == {"configure", "activate", "scripts", "run", "loop",
         "detach", "teardown", "drop", "reset", "restore"}
Frame == [win : Window, prev : Key, scoped : BOOLEAN, step : Step]

Alive(v) == open[v.win] /\ v.load = loads[v.win]
OnStack(w) == \E i \in 1..Len(frames) : frames[i].win = w

Init ==
    /\ activeRoot = Null
    /\ live = EmptyRoot
    /\ roots = [k \in {} |-> EmptyRoot]
    /\ scriptObj = {}
    /\ open = [w \in Window |-> FALSE]
    /\ loads = [w \in Window |-> 0]
    /\ frames = <<>>

-----------------------------------------------------------------------------
(* The swap.                                                                     *)

Saved == [k \in DOMAIN roots \cup {activeRoot} |->
             IF k = activeRoot THEN live ELSE roots[k]]

(* Mutant: the root that is left is not saved.                                   *)
SaveActiveRootDropped == roots

SaveActiveRoot == IF activeRoot = Null THEN roots ELSE Saved

(* Mutant: the bitmap registry is not part of what is swapped.                   *)
LoadActiveRootSharedBitmaps(saved, key) ==
    LET data == IF key \in DOMAIN saved THEN saved[key] ELSE EmptyRoot IN
    /\ live' = [data EXCEPT !.bitmaps = live.bitmaps]
    /\ roots' = [k \in DOMAIN saved \cup {key} |->
                    IF k = key THEN [data EXCEPT !.registered = {}] ELSE saved[k]]
    /\ activeRoot' = key

(* The containers are moved out of the snapshot, the scalars copied, so the      *)
(* snapshot of the active root stays behind with what it last held.              *)
LoadActiveRoot(saved, key) ==
    LET data == IF key \in DOMAIN saved THEN saved[key] ELSE EmptyRoot IN
    /\ live' = data
    /\ roots' = [k \in DOMAIN saved \cup {key} |->
                    IF k = key THEN [data EXCEPT !.registered = {}] ELSE saved[k]]
    /\ activeRoot' = key

(* Mutant: a window that has a snapshot adopts the null context too.             *)
AdoptsAlways(key) == activeRoot = Null

Adopts(key) == activeRoot = Null /\ key \notin DOMAIN roots

SwitchActiveRoot(key) ==
    \/ /\ key = activeRoot
       /\ UNCHANGED <<activeRoot, live, roots>>
    \/ /\ key # activeRoot
       /\ Adopts(key)
       /\ activeRoot' = key
       /\ UNCHANGED <<live, roots>>
    \/ /\ key # activeRoot
       /\ ~Adopts(key)
       /\ LoadActiveRoot(SaveActiveRoot, key)

(* The context a window would find if it were made active.                       *)
Context(k) == IF k = activeRoot THEN live
              ELSE IF k \in DOMAIN roots THEN roots[k] ELSE EmptyRoot

(* Scripts are loaded for a window from registerWidgets to destroyAll; no event   *)
(* finds a handler outside that span.                                            *)
Loaded(w) == open[w] /\ Context(w).layoutRoot = w

-----------------------------------------------------------------------------
(* Frames.                                                                       *)

Top == Last(frames)
Room == Len(frames) < MaxFrames
Doing == IF frames = <<>> THEN "idle" ELSE Top.step
At(step) == Doing = step
EventLoop == Doing \in {"idle", "loop"}
HandlerRuns == At("run")

Call(w, prev, scoped, step) ==
    [win |-> w, prev |-> prev, scoped |-> scoped, step |-> step]
Push(f) == frames' = Append(frames, f)
GoTo(step) == frames' = [frames EXCEPT ![Len(frames)].step = step]

(* Mutant: the event enters the VM without making its window's root active.      *)
PushScopedUnswitched(w, step) ==
    /\ Push(Call(w, activeRoot, TRUE, step))
    /\ UNCHANGED <<activeRoot, live, roots>>

(* ScopedScriptRoot guard(w) ... : the destructor restores the root it found.    *)
PushScoped(w, step) ==
    /\ Push(Call(w, activeRoot, TRUE, step))
    /\ SwitchActiveRoot(w)

-----------------------------------------------------------------------------
(* Events.                                                                       *)

(* A click, a resize, a tween's end or a Maki timer's tick of window w, each     *)
(* bracketed where it enters the VM.                                             *)
EnterScoped(w) ==
    /\ EventLoop
    /\ Room
    /\ Loaded(w)
    /\ PushScoped(w, "run")
    /\ UNCHANGED <<scriptObj, open, loads>>

(* A click on the player comes in with no bracket: it is delivered at rest only, *)
(* since a popup menu holds the input.                                           *)
EnterPlayer ==
    /\ Player \in Window
    /\ Loaded(Player)
    /\ At("idle")
    /\ Room
    /\ Push(Call(Player, Null, FALSE, "run"))
    /\ UNCHANGED <<activeRoot, live, roots, scriptObj, open, loads>>

(* The transport pump runs System.onPlay... in the scripts of EVERY runtime, the *)
(* embedder System.onTitleChange, with no bracket and in any event loop.         *)
EnterBroadcast(w) ==
    /\ "broadcast" \in Departures
    /\ EventLoop
    /\ Room
    /\ Loaded(w)
    /\ Push(Call(w, Null, FALSE, "run"))
    /\ UNCHANGED <<activeRoot, live, roots, scriptObj, open, loads>>

-----------------------------------------------------------------------------
(* Opening and loading a window.                                                 *)

Expand(w) ==
    /\ loads[w] < MaxLoads
    /\ loads' = [loads EXCEPT ![w] = @ + 1]
    /\ open' = [open EXCEPT ![w] = TRUE]

(* SkinView::load: on the user's request, or when a handler shows the window.    *)
OpenSubwindow(w) ==
    /\ Doing \in {"idle", "loop", "run"}
    /\ Room
    /\ ~open[w]
    /\ Player \in Window => open[Player]
    /\ Expand(w)
    /\ PushScoped(w, "configure")
    /\ UNCHANGED scriptObj

(* load() of a view that is already up: the expansion frees the old tree, and    *)
(* resize() delivers a resizeEvent before the bracket that reloads the scripts.  *)
ReloadSubwindow(w) ==
    /\ "reload" \in Departures
    /\ EventLoop
    /\ Len(frames) + 1 < MaxFrames
    /\ open[w]
    /\ ~OnStack(w)
    /\ Expand(w)
    /\ frames' = Append(Append(frames, Call(w, activeRoot, TRUE, "configure")),
                        Call(w, w, TRUE, "run"))
    /\ SwitchActiveRoot(w)
    /\ UNCHANGED scriptObj

(* The embedder builds the player, or loads another skin into it.                *)
OpenPlayer ==
    /\ Player \in Window
    /\ At("idle")
    /\ Room
    /\ Expand(Player)
    /\ Push(Call(Player, Null, FALSE,
                 IF open[Player] THEN "activate" ELSE "configure"))
    /\ UNCHANGED <<activeRoot, live, roots, scriptObj>>

(* The repaint callback and the bitmap registry go to whichever root is active.  *)
Configure ==
    /\ At("configure")
    /\ live' = [live EXCEPT !.repaint = Top.win, !.bitmaps = Top.win]
    /\ GoTo("activate")
    /\ UNCHANGED <<activeRoot, roots, scriptObj, open, loads>>

(* loadScripts: setActiveScriptRoot(&root), which nothing restores.              *)
Activate ==
    /\ At("activate")
    /\ SwitchActiveRoot(Top.win)
    /\ GoTo("scripts")
    /\ UNCHANGED <<scriptObj, open, loads>>

ClearWidgetRegistry(data) ==
    [data EXCEPT !.registered = {}, !.layoutRoot = Null]

Eager(w) == [win |-> w, load |-> loads[w], onDemand |-> FALSE]

(* loadScripts: destroyAll, registerWidgets, the layout-root pseudo object.      *)
LoadScripts ==
    /\ At("scripts")
    /\ live' = [ClearWidgetRegistry(live) EXCEPT
                   !.registered = {Eager(Top.win)}, !.layoutRoot = Top.win]
    /\ scriptObj' = (scriptObj \ live.registered) \cup {Eager(Top.win)}
    /\ GoTo("run")
    /\ UNCHANGED <<activeRoot, roots, open, loads>>

-----------------------------------------------------------------------------
(* What a running handler does to the context.                                   *)

(* findObject, getParent, enumObject on a widget the handler can name: one of    *)
(* its own window's tree, or one the live registry answers with.  The first      *)
(* lookup gives the widget a script object and registers it under the ACTIVE     *)
(* root, whichever tree the widget belongs to.                                   *)
Nameable == {Top.win} \cup {v.win : v \in {u \in live.registered : Alive(u)}}

(* Mutant: the on-demand script object is not registered for the teardown.       *)
FindObjectUntracked(w) ==
    LET v == [win |-> w, load |-> loads[w], onDemand |-> TRUE] IN
    /\ HandlerRuns
    /\ w \in Nameable
    /\ scriptObj' = scriptObj \cup {v}
    /\ UNCHANGED <<activeRoot, live, roots, open, loads, frames>>

FindObject(w) ==
    LET v == [win |-> w, load |-> loads[w], onDemand |-> TRUE] IN
    /\ HandlerRuns
    /\ w \in Nameable
    /\ v \notin scriptObj
    /\ scriptObj' = scriptObj \cup {v}
    /\ live' = [live EXCEPT !.registered = @ \cup {v}]
    /\ UNCHANGED <<activeRoot, roots, open, loads, frames>>

(* A handler that resizes its own window gets its onResize cascade at once,      *)
(* bracketed inside the handler's own frame (resizeEvent, dispatchInitialResize). *)
ResizeSelf ==
    /\ HandlerRuns
    /\ Room
    /\ PushScoped(Top.win, "run")
    /\ UNCHANGED <<scriptObj, open, loads>>

(* PopupMenu.popAtMouse runs an event loop of its own until the user picks.      *)
PopupMenu ==
    /\ HandlerRuns
    /\ GoTo("loop")
    /\ UNCHANGED <<activeRoot, live, roots, scriptObj, open, loads>>

PopupDone ==
    /\ At("loop")
    /\ GoTo("run")
    /\ UNCHANGED <<activeRoot, live, roots, scriptObj, open, loads>>

(* Mutant: the destructor of the bracket restores nothing.                       *)
LeaveUnrestored ==
    /\ Doing \in {"run", "restore"}
    /\ frames' = Front(frames)
    /\ UNCHANGED <<activeRoot, live, roots, scriptObj, open, loads>>

Leave ==
    /\ Doing \in {"run", "restore"}
    /\ frames' = Front(frames)
    /\ IF Top.scoped THEN SwitchActiveRoot(Top.prev)
                     ELSE UNCHANGED <<activeRoot, live, roots>>
    /\ UNCHANGED <<scriptObj, open, loads>>

-----------------------------------------------------------------------------
(* Tearing a window down.                                                        *)

(* ~SkinView brackets the whole teardown.  A view is not deleted while one of    *)
(* its own handlers is on the stack.                                             *)
CloseSubwindow(w) ==
    /\ Doing \in {"idle", "loop", "run"}
    /\ Room
    /\ open[w]
    /\ ~OnStack(w)
    /\ PushScoped(w, "detach")
    /\ UNCHANGED <<scriptObj, open, loads>>

(* The player goes at rest; its runtime's own bracket closes before the drop.    *)
ClosePlayer ==
    /\ Player \in Window
    /\ open[Player]
    /\ At("idle")
    /\ Room
    /\ Push(Call(Player, Null, FALSE, "detach"))
    /\ UNCHANGED <<activeRoot, live, roots, scriptObj, open, loads>>

Detach ==
    /\ At("detach")
    /\ live' = [live EXCEPT !.repaint = Null]
    /\ GoTo("teardown")
    /\ UNCHANGED <<activeRoot, roots, scriptObj, open, loads>>

(* SkinRuntime::reset: destroyAll under the runtime's own root.                  *)
ResetRuntime(w) ==
    /\ EventLoop
    /\ Room
    /\ open[w]
    /\ ~OnStack(w)
    /\ PushScoped(w, "reset")
    /\ UNCHANGED <<scriptObj, open, loads>>

DestroyAll(next) ==
    /\ live' = ClearWidgetRegistry(live)
    /\ scriptObj' = scriptObj \ live.registered
    /\ GoTo(next)
    /\ UNCHANGED <<activeRoot, roots, open, loads>>

Teardown == At("teardown") /\ DestroyAll("drop")
Reset == At("reset") /\ DestroyAll("restore")

(* Mutant: the dropped root stays the active one.                                *)
DropScriptRootStillActive ==
    /\ At("drop")
    /\ roots' = [k \in DOMAIN roots \ {Top.win} |-> roots[k]]
    /\ open' = [open EXCEPT ![Top.win] = FALSE]
    /\ GoTo("restore")
    /\ UNCHANGED <<activeRoot, live, scriptObj, loads>>

(* dropScriptRoot: forget the snapshot; scrub the globals if the root is live.   *)
DropScriptRoot ==
    /\ At("drop")
    /\ roots' = [k \in DOMAIN roots \ {Top.win} |-> roots[k]]
    /\ IF activeRoot = Top.win
         THEN live' = EmptyRoot /\ activeRoot' = Null
         ELSE UNCHANGED <<live, activeRoot>>
    /\ open' = [open EXCEPT ![Top.win] = FALSE]
    /\ GoTo("restore")
    /\ UNCHANGED <<scriptObj, loads>>

-----------------------------------------------------------------------------
ForWindow(w) ==
    EnterScoped(w) \/ EnterBroadcast(w) \/ FindObject(w) \/ ResetRuntime(w)

ForSubwindow(w) ==
    OpenSubwindow(w) \/ ReloadSubwindow(w) \/ CloseSubwindow(w)

(* The steps that run destroyAll, and the others.                                *)
Unload == LoadScripts \/ Teardown \/ Reset

Other ==
    \/ \E w \in Window : ForWindow(w)
    \/ \E w \in Subwindow : ForSubwindow(w)
    \/ EnterPlayer \/ OpenPlayer \/ ClosePlayer
    \/ Configure \/ Activate
    \/ ResizeSelf \/ PopupMenu \/ PopupDone \/ Leave
    \/ Detach \/ DropScriptRoot

Next == Unload \/ Other

Spec == Init /\ [][Next]_vars

-----------------------------------------------------------------------------
(* Properties.                                                                   *)

TypeOK ==
    /\ activeRoot \in Key
    /\ live \in RootData
    /\ DOMAIN roots \subseteq Key
    /\ \A k \in DOMAIN roots : roots[k] \in RootData
    /\ \A k \in DOMAIN roots \cap {activeRoot, Null} : roots[k].registered = {}
    /\ scriptObj \subseteq Widget
    /\ open \in [Window -> BOOLEAN]
    /\ loads \in [Window -> Nat]
    /\ frames \in Seq(Frame)

(* A context holds nothing of another window.                                    *)
OwnedBy(k, data) ==
    /\ \A v \in data.registered : v.win = k
    /\ {data.layoutRoot, data.repaint, data.bitmaps} \subseteq {k, Null}

(* Isolation: no window's context, live or saved, ever holds a widget, a         *)
(* callback or a bitmap registry of another window (switchActiveRoot; "not       *)
(* another window's", loadScripts).  While the player is being configured its    *)
(* callbacks sit in the null context it then adopts.                             *)
Isolation ==
    \A k \in Key : \/ OwnedBy(k, Context(k))
                   \/ k = Null /\ At("activate") /\ OwnedBy(Player, live)

(* A handler runs with its own window's context live.                            *)
HandlersRunHome == HandlerRuns => activeRoot = Top.win

(* Whenever a handler runs, every registered widget, of every window, and every  *)
(* key of the widget -> script object map is a widget that still exists: the     *)
(* registry walks of fireStaticTextChanged and firePerObjectResize deref them.   *)
NoDanglingWidget ==
    HandlerRuns =>
        /\ \A k \in Key : \A v \in Context(k).registered : Alive(v)
        /\ \A v \in scriptObj : Alive(v)

(* A window that is up and is not being loaded or torn down keeps the callbacks  *)
(* it was configured with, wherever the active root has been in between.         *)
InTransit(w) == \E i \in 1..Len(frames) :
    /\ frames[i].win = w
    /\ frames[i].step \in {"configure", "activate", "detach", "teardown", "drop"}
NothingLost ==
    \A w \in Window : open[w] /\ ~InTransit(w) =>
        Context(w).repaint = w /\ Context(w).bitmaps = w

(* No root of a destroyed window is alive (scriptRootAlive) or will be made      *)
(* active by the end of a bracket.                                               *)
NoDeadRoot ==
    /\ \A k \in (DOMAIN roots \cup {activeRoot}) \ {Null} : open[k]
    /\ \A i \in 1..Len(frames) :
          frames[i].scoped /\ frames[i].prev # Null => open[frames[i].prev]

(* Once every bracket is closed the resting root is back: the player's, or none. *)
RestingRoot ==
    frames = <<>> =>
        activeRoot = IF Player \in Window /\ open[Player] THEN Player ELSE Null

(* The refinement mapping: the current context is the live globals, every other  *)
(* one the saved snapshot.                                                       *)
Contexts == INSTANCE WindowContexts WITH
    Empty <- EmptyRoot,
    cur <- activeRoot,
    known <- (DOMAIN roots \cup {activeRoot}) \ {Null},
    ctx <- [k \in Key |-> Context(k)]

(* Switching roots is an implementation of one context per window.               *)
RefinesContexts == Contexts!Spec
=============================================================================
