---------------------------- MODULE TargetTweens ----------------------------
(* setTarget / gotoTarget: a script gives one of its window's objects a new      *)
(* size, an animation takes it there, and the object's onTargetReached tells the *)
(* script (drawer slides, layouts that grow).  A drawer widget is driven by      *)
(* wq_widget_animate_target; the layout root by the embedder's resize callback,  *)
(* which is animatedResizeLayoutTo here, with g_animatedResizePending deciding   *)
(* who fires onTargetReached.                                                    *)
(*                                                                               *)
(* The script roots are taken as WindowContexts promises them: a flag per window *)
(* and one window current.                                                       *)
EXTENDS Naturals, Sequences, SequencesExt, FiniteSets

CONSTANTS
    Window,      \* the windows whose scripts are loaded
    Player,      \* the resting root, drawn by a SkinQuickItem
    Drawer,      \* the windows with a drawer widget
    Size,        \* the sizes (or offsets) an object can have
    Null,        \* no animation
    MaxDepth,    \* bound: handlers open at once
    Departures   \* {"animationEnd"}: an end that is not bracketed comes under any root

ASSUME TweenAssumption ==
    /\ Player \in Window
    /\ Drawer \subseteq Window
    /\ Size \subseteq Nat /\ Size # {}
    /\ Null \notin Size
    /\ MaxDepth \in Nat
    /\ Departures \subseteq {"animationEnd"}

VARIABLES
    cur,        \* g_activeRoot
    frames,     \* the handlers on the stack, innermost last
    size,       \* object -> m_nativeSize, or the widget's attribute
    tween,      \* object -> where its QVariantAnimation ends, or Null
    pending,    \* window -> g_animatedResizePending of its root
    active,     \* g_widgetAnimsActive
    answered    \* history: object -> onTargetReached fired since its last gotoTarget

vars == <<cur, frames, size, tween, pending, active, answered>>

Layout == [kind : {"layout"}, win : Window]
DrawerWidget == [kind : {"drawer"}, win : Drawer]
Object == Layout \cup DrawerWidget
Root(w) == [kind |-> "layout", win |-> w]

(* "snap": gotoTarget waits for the embedder's callback, which has fired         *)
(* onTargetReached itself; "loop": the handler waits in a popup's event loop.    *)
Frame == [win : Window, prev : Window, at : {"run", "snap", "loop"}]

Init ==
    /\ cur = Player
    /\ frames = <<>>
    /\ size \in [Object -> {CHOOSE s \in Size : TRUE}]
    /\ tween = [o \in Object |-> Null]
    /\ pending = [w \in Window |-> FALSE]
    /\ active = 0
    /\ answered = [o \in Object |-> TRUE]

-----------------------------------------------------------------------------
Top == Last(frames)
Room == Len(frames) < MaxDepth
At(step) == frames # <<>> /\ Top.at = step
EventLoop == frames = <<>> \/ At("loop")
Running(o) == tween[o] # Null
Frozen(step) == [frames EXCEPT ![Len(frames)].at = step]

(* Running a handler of window w under root r, over the given stack.             *)
Handler(stack, w, r) ==
    /\ frames' = Append(stack, [win |-> w, prev |-> cur, at |-> "run"])
    /\ cur' = r

(* Firing onTargetReached counts as an answer to the last gotoTarget.            *)
Fire(o) == answered' = [answered EXCEPT ![o] = TRUE]

(* The animation is (re)started: the answer comes at its end.                    *)
Animate(o, s) ==
    /\ tween' = [tween EXCEPT ![o] = s]
    /\ answered' = [answered EXCEPT ![o] = FALSE]

-----------------------------------------------------------------------------
(* Events: an input or a timer of a window, bracketed, or the player's at rest.  *)

Enter(w) ==
    /\ EventLoop
    /\ Room
    /\ Handler(frames, w, w)
    /\ UNCHANGED <<size, tween, pending, active, answered>>

PopupMenu ==
    /\ At("run")
    /\ frames' = Frozen("loop")
    /\ UNCHANGED <<cur, size, tween, pending, active, answered>>

PopupDone ==
    /\ At("loop")
    /\ frames' = Frozen("run")
    /\ UNCHANGED <<cur, size, tween, pending, active, answered>>

Return ==
    /\ At("run")
    /\ frames' = Front(frames)
    /\ cur' = Top.prev
    /\ UNCHANGED <<size, tween, pending, active, answered>>

-----------------------------------------------------------------------------
(* What a handler does with the objects of its window.                           *)

(* gotoTarget of an object to s, the target setTargetW, H, X or Y has stashed:   *)
(* nothing but gotoTarget reads the stash, which takes it away, so the calls are *)
(* one step.  Without a stashed target gotoTarget does nothing.                  *)
Own(o) == At("run") /\ o.win = Top.win

(* Only the active root's layout is the layout root.  (A handler running under a *)
(* root that is not its window's, which takes a departure, would slide its own   *)
(* layout like a widget: that is not followed.)                                  *)
IsRoot(o) == o = Root(cur)
IsDrawer(o) == o.kind = "drawer"

(* wq_widget_animate_target, nothing to do: onTargetReached at once.             *)
SnapWidget(o, s) ==
    /\ Room
    /\ IsDrawer(o)
    /\ s = size[o]
    /\ Own(o)
    /\ Fire(o)
    /\ Handler(frames, o.win, cur)
    /\ UNCHANGED <<size, tween, pending, active>>

(* Mutant: cancelling a tween leaves it counted.                                 *)
RestartedUncounted(o) == active + 1

(* The tween in flight is cancelled, and no longer counted.                      *)
Restarted(o) == IF Running(o) /\ active > 0 THEN active ELSE active + 1

AnimateWidget(o, s) ==
    /\ IsDrawer(o)
    /\ s # size[o]
    /\ Own(o)
    /\ Animate(o, s)
    /\ active' = Restarted(o)
    /\ UNCHANGED <<cur, frames, size, pending>>

(* animatedResizeLayoutTo with nowhere to go or no time to take: it resizes and  *)
(* fires onTargetReached itself, and gotoTarget resumes when the handlers return. *)
SnapLayout(o, s) ==
    /\ Room
    /\ IsRoot(o)
    /\ Own(o)
    /\ size' = [size EXCEPT ![o] = s]
    /\ Fire(o)
    /\ pending' = [pending EXCEPT ![cur] = FALSE]
    /\ Handler(Frozen("snap"), cur, cur)
    /\ UNCHANGED <<tween, active>>

(* ... and gotoTarget fires it unless a tween has been started meanwhile.        *)
SnapDone ==
    /\ At("snap")
    /\ IF pending[cur]
         THEN frames' = Frozen("run") /\ UNCHANGED <<cur, answered>>
         ELSE Fire(Root(cur)) /\ Handler(Frozen("run"), cur, cur)
    /\ UNCHANGED <<size, tween, pending, active>>

(* The tween is stopped and started again; gotoTarget sees the flag and leaves   *)
(* onTargetReached to the tween's end.                                           *)
AnimateLayout(o, s) ==
    /\ IsRoot(o)
    /\ s # size[o]
    /\ Own(o)
    /\ Animate(o, s)
    /\ pending' = [pending EXCEPT ![cur] = TRUE]
    /\ UNCHANGED <<cur, frames, size, active>>

-----------------------------------------------------------------------------
(* The animations.                                                               *)

(* The values an animation passes through.  A layout's last value comes before    *)
(* its animation ends, and handlers of the resize run in between; a drawer's      *)
(* comes with the end.                                                           *)
Passes(o) ==
    {s \in Size : \/ size[o] < s /\ s < tween[o]
                  \/ tween[o] < s /\ s < size[o]
                  \/ s = tween[o] /\ s # size[o] /\ ~IsDrawer(o)}

Tick(o) ==
    /\ EventLoop
    /\ Running(o)
    /\ \E s \in Passes(o) : size' = [size EXCEPT ![o] = s]
    /\ UNCHANGED <<cur, frames, tween, pending, active, answered>>

End(o) ==
    /\ EventLoop
    /\ Room
    /\ Running(o)
    /\ tween' = [tween EXCEPT ![o] = Null]
    /\ size' = [size EXCEPT ![o] = tween[o]]

(* The end of an animation that does not bracket itself: with an empty stack the *)
(* player is active; the loop of a popup may run it under another root.          *)
Unbracketed(o) == cur = o.win \/ "animationEnd" \in Departures

(* A widget's animation fires on the widget, under whatever root is active.      *)
EndWidget(o) ==
    /\ IsDrawer(o)
    /\ Unbracketed(o)
    /\ End(o)
    /\ active' = IF active > 0 THEN active - 1 ELSE 0
    /\ Fire(o)
    /\ Handler(frames, o.win, cur)
    /\ UNCHANGED pending

(* fireTargetReached under root r.                                               *)
EndUnder(o, r) ==
    /\ End(o)
    /\ pending' = [pending EXCEPT ![r] = FALSE]
    /\ Fire(Root(r))
    /\ Handler(frames, r, r)
    /\ UNCHANGED active

(* Mutant: a subwindow's tween ends without its bracket.                         *)
EndSubwindowUnbracketed(o) == o.kind = "layout" /\ o.win # Player /\ EndUnder(o, cur)

(* SkinView brackets the end of its tween.                                       *)
EndSubwindow(o) == o.kind = "layout" /\ o.win # Player /\ EndUnder(o, o.win)

(* SkinQuickItem does not.                                                       *)
EndPlayer(o) ==
    /\ o = Root(Player)
    /\ Unbracketed(o)
    /\ EndUnder(o, cur)

-----------------------------------------------------------------------------
GotoTarget(o, s) ==
    \/ SnapWidget(o, s) \/ AnimateWidget(o, s)
    \/ SnapLayout(o, s) \/ AnimateLayout(o, s)
EndTween(o) == EndWidget(o) \/ EndSubwindow(o) \/ EndPlayer(o)

Next ==
    \/ \E w \in Window : Enter(w)
    \/ PopupMenu \/ PopupDone \/ Return \/ SnapDone
    \/ \E o \in Object : \/ \E s \in Size : GotoTarget(o, s)
                         \/ Tick(o)
                         \/ EndTween(o)

Spec == Init /\ [][Next]_vars

(* Every handler and every gotoTarget returns, at whatever depth; the user picks *)
(* from a popup or dismisses it; an animation runs to its end as long as the     *)
(* event loop keeps coming back.                                                 *)
FairSpec ==
    /\ Spec
    /\ \A depth \in 1..MaxDepth : /\ SF_vars(Len(frames) = depth /\ Return)
                                 /\ SF_vars(Len(frames) = depth /\ (SnapDone \/ PopupDone))
    /\ \A o \in Object : SF_vars(EndTween(o))

-----------------------------------------------------------------------------
(* Properties.                                                                   *)

TypeOK ==
    /\ cur \in Window
    /\ frames \in Seq(Frame)
    /\ size \in [Object -> Size]
    /\ tween \in [Object -> Size \cup {Null}]
    /\ pending \in [Window -> BOOLEAN]
    /\ active \in Nat
    /\ answered \in [Object -> BOOLEAN]

(* widgetAnimationsActive() is the number of widgets on the move: embedders hold *)
(* their window fitting back while it is not 0, so it must not drift.            *)
Moving == {o \in DrawerWidget : Running(o)}
AnimsCounted == active = Cardinality(Moving)

(* g_animatedResizePending of a window is up only while its layout's tween runs: *)
(* once it is stuck, gotoTarget never fires onTargetReached again.               *)
PendingMeansTween == \A w \in Window : pending[w] => Running(Root(w))

(* A script that asks for a target hears onTargetReached of it.                  *)
Answered == \A o \in Object : ~answered[o] ~> answered[o]
=============================================================================
