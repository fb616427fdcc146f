-------------------------- MODULE IsolationProofs --------------------------
(* Proofs about ScriptRoots and the timers over it, for any set of windows, any  *)
(* nesting of brackets and any number of loads.  First the stack of brackets as  *)
(* a sequence, types with or without the departures, and the bracketing          *)
(* discipline with what it gives when every delivery is bracketed (Departures =  *)
(* {}): handlers run under their own root, no root of a destroyed window is      *)
(* active, the resting root comes back.  Then the windows' contexts: that        *)
(* swapping the globals implements one context per window; that no context holds *)
(* anything of another window; that none holds a widget of a tree that was       *)
(* freed, and none loses its callbacks; and, at the end, all of that with the    *)
(* timers of the scripts.                                                        *)
EXTENDS MakiTimers, SequenceTheorems, TLAPS

-----------------------------------------------------------------------------
(* Frames as sequences.                                                          *)

(* GoTo changes the step of the innermost frame and nothing else of the stack.   *)
LEMMA GoToStep ==
    ASSUME frames \in Seq(Frame), frames # <<>>,
           NEW s \in Step, GoTo(s)
    PROVE  /\ frames' \in Seq(Frame)
           /\ frames' # <<>>
           /\ Len(frames') = Len(frames)
           /\ Len(frames) \in Nat \ {0}
           /\ \A i \in 1..Len(frames) : i < Len(frames) => frames'[i] = frames[i]
           /\ frames'[Len(frames)] = [frames[Len(frames)] EXCEPT !.step = s]
           /\ Top' = [Top EXCEPT !.step = s]
           /\ Doing' = s
<1>1. Len(frames) \in Nat \ {0} /\ Len(frames) \in 1..Len(frames)
      /\ frames[Len(frames)] \in Frame
  OBVIOUS
<1>2. [frames[Len(frames)] EXCEPT !.step = s] \in Frame
  BY <1>1 DEF Frame
<1>3. frames' = [frames EXCEPT ![Len(frames)] = [frames[Len(frames)] EXCEPT !.step = s]]
  BY DEF GoTo
<1>4. frames' \in Seq(Frame) /\ Len(frames') = Len(frames)
  BY <1>1, <1>2, <1>3
<1>5. /\ frames' # <<>>
      /\ \A i \in 1..Len(frames) : i < Len(frames) => frames'[i] = frames[i]
      /\ frames'[Len(frames)] = [frames[Len(frames)] EXCEPT !.step = s]
  BY <1>1, <1>3, <1>4
<1>6. Top' = [Top EXCEPT !.step = s]
  BY <1>4, <1>5 DEF Top, Last
<1>7. Doing' = s
  BY <1>1, <1>5, <1>6 DEF Doing, Top, Last, Frame
<1> QED BY <1>1, <1>4, <1>5, <1>6, <1>7

(* Push adds one innermost frame.                                                *)
LEMMA PushFrame ==
    ASSUME frames \in Seq(Frame), NEW f \in Frame, Push(f)
    PROVE  /\ frames' \in Seq(Frame)
           /\ frames' # <<>>
           /\ Len(frames') = Len(frames) + 1
           /\ Len(frames) \in Nat
           /\ \A i \in 1..Len(frames) : frames'[i] = frames[i]
           /\ frames'[Len(frames) + 1] = f
           /\ Top' = f
           /\ Doing' = f.step
  BY DEF Push, Top, Last, Doing

(* Leaving removes the innermost frame.                                          *)
LEMMA PopFrame ==
    ASSUME frames \in Seq(Frame), frames # <<>>, frames' = Front(frames)
    PROVE  /\ frames' \in Seq(Frame)
           /\ Len(frames) \in Nat \ {0}
           /\ Len(frames') = Len(frames) - 1
           /\ \A i \in 1..Len(frames') : frames'[i] = frames[i]
           /\ Len(frames) = 1 => frames' = <<>>
           /\ Len(frames) > 1 => frames' # <<>>
<1>1. Len(frames) \in Nat \ {0}
  OBVIOUS
<1>2. frames' = SubSeq(frames, 1, Len(frames) - 1)
  BY DEF Front
<1>3. /\ frames' \in Seq(Frame)
      /\ Len(frames') = Len(frames) - 1
      /\ \A i \in 1..Len(frames') : frames'[i] = frames[i]
  <2>1. \A i \in 1..(Len(frames) - 1) : frames[i] \in Frame
    BY <1>1
  <2>2. 1 \in Int /\ Len(frames) - 1 \in Int
    BY <1>1
  <2>3. /\ SubSeq(frames, 1, Len(frames) - 1) \in Seq(Frame)
        /\ Len(SubSeq(frames, 1, Len(frames) - 1)) =
              IF 1 <= Len(frames) - 1 THEN (Len(frames) - 1) - 1 + 1 ELSE 0
        /\ \A i \in 1..((Len(frames) - 1) - 1 + 1) :
              SubSeq(frames, 1, Len(frames) - 1)[i] = frames[1 + i - 1]
    BY <2>1, <2>2, SubSeqProperties
  <2>4. Len(frames') = Len(frames) - 1
    <3>1. CASE Len(frames) = 1
      BY <1>2, <2>3, <3>1
    <3>2. CASE Len(frames) > 1
      <4>1. 1 <= Len(frames) - 1 /\ (Len(frames) - 1) - 1 + 1 = Len(frames) - 1
        BY <1>1, <3>2
      <4> QED BY <1>2, <2>3, <4>1
    <3>3. \A n \in Nat \ {0} : n = 1 \/ n > 1
      OBVIOUS
    <3>4. Len(frames) = 1 \/ Len(frames) > 1
      BY <1>1, <3>3, Zenon
    <3> QED BY <3>1, <3>2, <3>4
  <2>5. ASSUME NEW i \in 1..Len(frames') PROVE frames'[i] = frames[i]
    <3>1. i \in 1..((Len(frames) - 1) - 1 + 1) /\ 1 + i - 1 = i
      BY <1>1, <2>4
    <3> QED BY <1>2, <2>3, <3>1
  <2> QED BY <1>2, <2>3, <2>4, <2>5
<1>5. /\ Len(frames) = 1 => frames' = <<>>
      /\ Len(frames) > 1 => frames' # <<>>
  BY <1>1, <1>3
<1> QED BY <1>1, <1>3, <1>5

(* The innermost frame is one of the stack.                                      *)
LEMMA TopFrame ==
    ASSUME frames \in Seq(Frame), frames # <<>>
    PROVE  /\ Len(frames) \in Nat \ {0}
           /\ Len(frames) \in 1..Len(frames)
           /\ Top = frames[Len(frames)]
           /\ Top \in Frame
           /\ Top.win \in Window
           /\ Top.prev \in Key
           /\ Top.scoped \in BOOLEAN
           /\ Top.step \in Step
           /\ Doing = Top.step
<1>1. Len(frames) \in Nat \ {0} /\ Len(frames) \in 1..Len(frames)
  OBVIOUS
<1>2. Top = frames[Len(frames)]
  BY DEF Top, Last
<1>3. Top \in Frame
  BY <1>1, <1>2
<1>4. /\ Top.win \in Window /\ Top.prev \in Key
      /\ Top.scoped \in BOOLEAN /\ Top.step \in Step
  BY <1>3 DEF Frame
<1>5. Doing = Top.step
  BY DEF Doing
<1> QED BY <1>1, <1>2, <1>3, <1>4, <1>5

-----------------------------------------------------------------------------
(* Type correctness, of every session.                                           *)

(* The swap keeps the types, and empties the containers of the root it loads.    *)
LEMMA SwitchType ==
    ASSUME TypeOK, NEW key \in Key, SwitchActiveRoot(key)
    PROVE  /\ activeRoot' \in Key
           /\ live' \in RootData
           /\ DOMAIN roots' \subseteq Key
           /\ \A k \in DOMAIN roots' : roots'[k] \in RootData
           /\ \A k \in DOMAIN roots' \cap {activeRoot', Null} : roots'[k].registered = {}
<1>1. CASE key = activeRoot /\ UNCHANGED <<activeRoot, live, roots>>
  BY <1>1 DEF TypeOK
<1>2. CASE Adopts(key) /\ activeRoot' = key /\ UNCHANGED <<live, roots>>
  BY <1>2 DEF TypeOK, Adopts
<1>3. CASE key # activeRoot /\ LoadActiveRoot(SaveActiveRoot, key)
  <2> DEFINE saved == SaveActiveRoot
             data == IF key \in DOMAIN saved THEN saved[key] ELSE EmptyRoot
  <2>1. /\ DOMAIN saved \subseteq Key
        /\ \A k \in DOMAIN saved : saved[k] \in RootData
        /\ Null \in DOMAIN saved => saved[Null].registered = {}
    BY DEF TypeOK, SaveActiveRoot, Saved
  <2>2. EmptyRoot \in RootData
    BY DEF EmptyRoot, RootData, Key
  <2>3. data \in RootData
    BY <2>1, <2>2
  <2>4. [data EXCEPT !.registered = {}] \in RootData
        /\ [data EXCEPT !.registered = {}].registered = {}
    BY <2>3 DEF RootData
  <2> HIDE DEF saved, data
  <2>5. /\ live' = data
        /\ roots' = [k \in DOMAIN saved \cup {key} |->
                        IF k = key THEN [data EXCEPT !.registered = {}] ELSE saved[k]]
        /\ activeRoot' = key
    BY <1>3 DEF LoadActiveRoot, saved, data
  <2> QED BY <2>1, <2>3, <2>4, <2>5
<1> QED BY <1>1, <1>2, <1>3 DEF SwitchActiveRoot

(* Every step keeps the types.                                                   *)
LEMMA TypeStep == TypeOK /\ [Next]_vars => TypeOK'
<1> SUFFICES ASSUME TypeOK, [Next]_vars PROVE TypeOK'
  OBVIOUS
<1> USE DEF Key
<1>0. frames \in Seq(Frame) /\ live \in RootData /\ scriptObj \subseteq Widget
      /\ open \in [Window -> BOOLEAN] /\ loads \in [Window -> Nat]
      /\ activeRoot \in Key
  BY DEF TypeOK
<1>a. ASSUME NEW w \in Window, NEW p \in Key, NEW b \in BOOLEAN, NEW s \in Step
      PROVE  Call(w, p, b, s) \in Frame
  BY DEF Call, Frame
<1>b. ASSUME NEW w \in Window, NEW s \in Step, PushScoped(w, s),
             UNCHANGED <<scriptObj, open, loads>>
      PROVE  TypeOK'
  BY <1>0, <1>a, <1>b, PushFrame, SwitchType DEF PushScoped, TypeOK
<1>c. ASSUME NEW w \in Window, NEW s \in Step, Push(Call(w, Null, FALSE, s)),
             UNCHANGED <<activeRoot, live, roots, scriptObj, open, loads>>
      PROVE  TypeOK'
  BY <1>0, <1>a, <1>c, PushFrame DEF TypeOK
<1>d. ASSUME NEW w \in Window, Expand(w)
      PROVE  open' \in [Window -> BOOLEAN] /\ loads' \in [Window -> Nat]
  BY <1>0, <1>d DEF Expand
<1>1. ASSUME NEW w \in Window, EnterScoped(w) PROVE TypeOK'
  BY <1>1, <1>b DEF EnterScoped, Step
<1>2. ASSUME NEW w \in Window, EnterBroadcast(w) PROVE TypeOK'
  BY <1>2, <1>c DEF EnterBroadcast, Step
<1>3. ASSUME NEW w \in Window, FindObject(w) PROVE TypeOK'
  <2>1. [win |-> w, load |-> loads[w], onDemand |-> TRUE] \in Widget
    BY <1>0 DEF Widget
  <2> QED BY <1>0, <1>3, <2>1 DEF FindObject, TypeOK, RootData
<1>4. ASSUME NEW w \in Window, ResetRuntime(w) PROVE TypeOK'
  BY <1>4, <1>b DEF ResetRuntime, Step
<1>5. ASSUME NEW w \in Subwindow, OpenSubwindow(w) PROVE TypeOK'
  <2>1. w \in Window /\ "configure" \in Step
    BY DEF Subwindow, Step
  <2>2. Call(w, activeRoot, TRUE, "configure") \in Frame
    BY <1>0, <1>a, <2>1
  <2>3. frames' \in Seq(Frame)
    BY <1>0, <1>5, <2>2, PushFrame DEF OpenSubwindow, PushScoped
  <2> QED BY <1>0, <1>5, <1>d, <2>1, <2>3, SwitchType DEF OpenSubwindow, PushScoped, TypeOK
<1>6. ASSUME NEW w \in Subwindow, ReloadSubwindow(w) PROVE TypeOK'
  <2>1. w \in Window /\ {"configure", "run"} \subseteq Step
    BY DEF Subwindow, Step
  <2>2. /\ Call(w, activeRoot, TRUE, "configure") \in Frame
        /\ Call(w, w, TRUE, "run") \in Frame
    BY <1>0, <1>a, <2>1
  <2>3. \A f, g \in Frame : Append(Append(frames, f), g) \in Seq(Frame)
    BY <1>0
  <2>4. frames' \in Seq(Frame)
    BY <1>6, <2>2, <2>3, Zenon DEF ReloadSubwindow
  <2> QED BY <1>0, <1>6, <1>d, <2>1, <2>4, SwitchType DEF ReloadSubwindow, TypeOK
<1>7. ASSUME NEW w \in Subwindow, CloseSubwindow(w) PROVE TypeOK'
  BY <1>7, <1>b DEF CloseSubwindow, Step, Subwindow
<1>8. CASE EnterPlayer
  BY <1>8, <1>c DEF EnterPlayer, Step
<1>9. CASE OpenPlayer
  <2>1. Call(Player, Null, FALSE,
             IF open[Player] THEN "activate" ELSE "configure") \in Frame
    BY <1>9, <1>a DEF OpenPlayer, Step
  <2> QED BY <1>0, <1>9, <1>d, <2>1, PushFrame DEF OpenPlayer, TypeOK
<1>10. CASE ClosePlayer
  BY <1>10, <1>c DEF ClosePlayer, Step
<1>e. ASSUME frames # <<>>, NEW s \in Step, GoTo(s)
      PROVE  frames' \in Seq(Frame) /\ Top.win \in Window
  BY <1>0, <1>e, GoToStep, TopFrame
<1>f. ASSUME NEW s \in Step, At(s) PROVE frames # <<>>
  BY <1>f DEF At, Doing, Step
<1>11. CASE Configure
  BY <1>0, <1>11, <1>e, <1>f DEF Configure, TypeOK, RootData, Step
<1>12. CASE Activate
  BY <1>0, <1>12, <1>e, <1>f, SwitchType DEF Activate, TypeOK, Step
<1>13. CASE LoadScripts
  <2>1. frames # <<>> /\ frames' \in Seq(Frame) /\ Top.win \in Window
    BY <1>13, <1>e, <1>f DEF LoadScripts, Step
  <2>2. Eager(Top.win) \in Widget
    BY <1>0, <2>1 DEF Eager, Widget
  <2>3. live' \in RootData
    BY <1>0, <1>13, <2>1, <2>2 DEF LoadScripts, ClearWidgetRegistry, RootData
  <2> QED BY <1>0, <1>13, <2>1, <2>2, <2>3 DEF LoadScripts, TypeOK
<1>14. CASE ResizeSelf
  <2>1. Top.win \in Window
    BY <1>0, <1>14, <1>f, TopFrame DEF ResizeSelf, HandlerRuns, Step
  <2> QED BY <1>14, <1>b, <2>1 DEF ResizeSelf, Step
<1>15. CASE PopupMenu
  BY <1>0, <1>15, <1>e, <1>f DEF PopupMenu, HandlerRuns, TypeOK, Step
<1>16. CASE PopupDone
  BY <1>0, <1>16, <1>e, <1>f DEF PopupDone, TypeOK, Step
<1>17. CASE Leave
  <2>1. frames # <<>>
    BY <1>17 DEF Leave, Doing
  <2>2. frames' \in Seq(Frame) /\ Top.prev \in Key
    BY <1>0, <1>17, <2>1, PopFrame, TopFrame DEF Leave
  <2> QED BY <1>0, <1>17, <2>2, SwitchType DEF Leave, TypeOK
<1>18. CASE Detach
  BY <1>0, <1>18, <1>e, <1>f DEF Detach, TypeOK, RootData, Step
<1>19. CASE Teardown \/ Reset
  <2>1. frames' \in Seq(Frame)
    BY <1>19, <1>e, <1>f DEF Teardown, Reset, DestroyAll, Step
  <2>2. live' \in RootData
    BY <1>0, <1>19 DEF Teardown, Reset, DestroyAll, ClearWidgetRegistry, RootData
  <2> QED BY <1>0, <1>19, <2>1, <2>2 DEF Teardown, Reset, DestroyAll, TypeOK
<1>20. CASE DropScriptRoot
  <2>1. frames' \in Seq(Frame) /\ Top.win \in Window
    BY <1>20, <1>e, <1>f DEF DropScriptRoot, Step
  <2>2. EmptyRoot \in RootData
    BY DEF EmptyRoot, RootData
  <2> QED BY <1>0, <1>20, <2>1, <2>2 DEF DropScriptRoot, TypeOK
<1>21. CASE UNCHANGED vars
  BY <1>21 DEF vars, TypeOK
<1> QED
  BY <1>1, <1>2, <1>3, <1>4, <1>5, <1>6, <1>7, <1>8, <1>9, <1>10, <1>11, <1>12,
     <1>13, <1>14, <1>15, <1>16, <1>17, <1>18, <1>19, <1>20, <1>21
  DEF Next, Unload, Other, ForWindow, ForSubwindow

(* Every reachable state of every session is well typed: one frame per bracket   *)
(* or handler, one snapshot per root, no containers left in the active root's.   *)
THEOREM TypeCorrect == Spec => []TypeOK
<1>1. Init => TypeOK
  BY DEF Init, TypeOK, Key, EmptyRoot, RootData
<1> QED BY <1>1, TypeStep, PTL DEF Spec

-----------------------------------------------------------------------------
(* The bracketing discipline. *)

(* The root at rest.                                                             *)
Rest == IF Player \in Window /\ open[Player] THEN Player ELSE Null

(* What a frame that is not innermost looks like, and how the bracket above it   *)
(* was entered.                                                                  *)
Chained ==
    \A i \in 1..Len(frames) :
        /\ i < Len(frames) => frames[i].step \in {"run", "loop"}
        /\ frames[i].step # "restore" => open[frames[i].win]
        /\ i > 1 => /\ frames[i].scoped
                    /\ frames[i].prev = frames[i-1].win
        /\ frames[i].scoped /\ i = 1 => frames[i].prev = Rest
        /\ ~frames[i].scoped => i = 1 /\ frames[i].win = Player

(* The innermost frame of a teardown is the only one of its window; a bracketed  *)
(* teardown is a subwindow's.                                                    *)
TeardownAlone ==
    Doing \in {"detach", "teardown", "drop", "reset"} =>
        /\ \A i \in 1..Len(frames) : i < Len(frames) => frames[i].win # Top.win
        /\ Doing # "reset" /\ Top.scoped => Top.win # Player
        /\ Doing = "reset" => Top.scoped

(* Which root is active, by what the innermost frame is doing.                   *)
ActiveFollows ==
    /\ Doing = "idle" => activeRoot = Rest
    /\ Doing \in {"run", "loop", "scripts", "detach", "teardown", "drop", "reset"}
         => activeRoot = Top.win
    /\ Doing \in {"configure", "activate"} =>
         \/ activeRoot = Top.win
         \/ activeRoot = Null /\ ~Top.scoped
    /\ Doing = "restore" =>
         \/ activeRoot = Null /\ ~open[Top.win]
         \/ activeRoot = Top.win /\ open[Top.win] /\ Top.scoped

RootsOpen == \A k \in DOMAIN roots : k # Null => open[k]

Discipline == TypeOK /\ Chained /\ TeardownAlone /\ ActiveFollows /\ RootsOpen

-----------------------------------------------------------------------------
(* The swap makes the root it is given active, and saves at most the one it      *)
(* leaves.                                                                       *)
LEMMA SwitchRoots ==
    ASSUME NEW key, SwitchActiveRoot(key)
    PROVE  /\ activeRoot' = key
           /\ DOMAIN roots' \subseteq DOMAIN roots \cup {activeRoot, key}
  BY DEF SwitchActiveRoot, LoadActiveRoot, SaveActiveRoot, Saved

(* Under the discipline an active root is the root of a window that is up.       *)
LEMMA ActiveOpen ==
    ASSUME Discipline, activeRoot # Null
    PROVE  activeRoot \in Window /\ open[activeRoot]
<1>1. activeRoot \in Window
  BY DEF Discipline, TypeOK, Key
<1>2. CASE frames = <<>>
  BY <1>2 DEF Discipline, ActiveFollows, Doing, Rest
<1>3. CASE frames # <<>>
  <2>1. /\ Len(frames) \in 1..Len(frames) /\ Top = frames[Len(frames)]
        /\ Doing = Top.step /\ Top.step \in Step
    BY <1>3, TopFrame DEF Discipline, TypeOK
  <2>2. Top.step # "restore" => open[Top.win]
    BY <2>1 DEF Discipline, Chained
  <2>3. activeRoot = Top.win \/ activeRoot = Null
    BY <2>1 DEF Discipline, ActiveFollows, Step
  <2>4. Doing = "restore" => open[Top.win]
    BY <2>3 DEF Discipline, ActiveFollows
  <2> QED BY <1>1, <2>1, <2>2, <2>3, <2>4
<1> QED BY <1>1, <1>2, <1>3

(* A frame below the innermost is a handler of a window that is up.              *)
LEMMA LowerFrames ==
    ASSUME Discipline, NEW i \in 1..Len(frames), i < Len(frames) \/ EventLoop \/ At("run")
    PROVE  frames[i].step \in {"run", "loop"} /\ open[frames[i].win]
<1>1. frames # <<>> /\ frames \in Seq(Frame) /\ Len(frames) \in Nat
  BY DEF Discipline, TypeOK
<1>2. frames[i].step \in {"run", "loop"}
  <2>1. CASE i < Len(frames)
    BY <2>1 DEF Discipline, Chained
  <2>2. CASE ~(i < Len(frames))
    <3>1. i = Len(frames)
      BY <1>1, <2>2
    <3>2. Doing \in {"idle", "loop", "run"}
      BY <2>2 DEF EventLoop, At
    <3>3. Doing = frames[i].step /\ frames[i].step \in Step
      BY <1>1, <3>1, TopFrame
    <3> QED BY <3>2, <3>3 DEF Step
  <2> QED BY <2>1, <2>2
<1> QED BY <1>2 DEF Discipline, Chained

(* Entering a bracket keeps the discipline.                                      *)
LEMMA EnterDiscipline ==
    ASSUME Discipline, Doing \in {"idle", "loop", "run"},
           NEW w \in Window,
           NEW s \in {"run", "configure", "detach", "reset", "restore"},
           PushScoped(w, s), open'[w], \A v \in Window : open[v] => open'[v],
           Rest' = Rest,
           s \in {"detach", "reset"} => ~OnStack(w),
           s = "detach" => w # Player
    PROVE  (Chained /\ TeardownAlone /\ ActiveFollows /\ RootsOpen)'
<1> DEFINE f == Call(w, activeRoot, TRUE, s)
<1>1. /\ frames \in Seq(Frame) /\ activeRoot \in Key
      /\ \A i \in 1..Len(frames) : frames[i] \in Frame
  BY DEF Discipline, TypeOK
<1>2. /\ f \in Frame /\ f.win = w /\ f.prev = activeRoot /\ f.scoped = TRUE
      /\ f.step = s
  BY <1>1 DEF Call, Frame, Step
<1> HIDE DEF f
<1>3. /\ Len(frames') = Len(frames) + 1 /\ Len(frames) \in Nat
      /\ \A i \in 1..Len(frames) : frames'[i] = frames[i]
      /\ frames'[Len(frames) + 1] = f
      /\ Top' = f /\ Doing' = s
  BY <1>1, <1>2, PushFrame DEF PushScoped, f
<1>4. activeRoot' = w /\ DOMAIN roots' \subseteq DOMAIN roots \cup {activeRoot, w}
  BY SwitchRoots DEF PushScoped
<1>5. \A i \in 1..Len(frames) :
         frames[i].step \in {"run", "loop"} /\ open[frames[i].win]
  BY LowerFrames DEF EventLoop, At
<1>6. frames = <<>> => activeRoot = Rest
  BY DEF Discipline, ActiveFollows, Doing
<1>7. frames # <<>> => activeRoot = frames[Len(frames)].win
  <2> SUFFICES ASSUME frames # <<>> PROVE activeRoot = Top.win
    BY <1>1, TopFrame
  <2>1. Doing \in {"loop", "run"}
    BY <1>1, TopFrame DEF Step
  <2> QED BY <2>1 DEF Discipline, ActiveFollows
<1>8. Chained'
  <2> SUFFICES ASSUME NEW i \in 1..(Len(frames) + 1)
               PROVE  /\ i < Len(frames) + 1 => frames'[i].step \in {"run", "loop"}
                      /\ frames'[i].step # "restore" => open'[frames'[i].win]
                      /\ i > 1 => /\ frames'[i].scoped
                                  /\ frames'[i].prev = frames'[i-1].win
                      /\ frames'[i].scoped /\ i = 1 => frames'[i].prev = Rest'
                      /\ ~frames'[i].scoped => i = 1 /\ frames'[i].win = Player
    BY <1>3 DEF Chained
  <2>1. CASE i = Len(frames) + 1
    <3>1. i > 1 => frames # <<>> /\ i - 1 = Len(frames) /\ frames'[i-1] = frames[Len(frames)]
      BY <1>3, <2>1
    <3>2. i = 1 => frames = <<>>
      BY <1>1, <1>3, <2>1
    <3> QED BY <1>2, <1>3, <1>6, <1>7, <2>1, <3>1, <3>2
  <2>2. CASE i \in 1..Len(frames)
    <3>1. frames'[i] = frames[i] /\ frames[i] \in Frame
      BY <1>1, <1>3, <2>2
    <3>2. open'[frames[i].win]
      BY <1>5, <2>2, <3>1 DEF Frame
    <3>3. i > 1 => frames'[i-1] = frames[i-1]
      BY <1>3, <2>2
    <3> QED BY <1>5, <2>2, <3>1, <3>2, <3>3 DEF Discipline, Chained
  <2> QED BY <1>3, <2>1, <2>2
<1>9. TeardownAlone'
  <2>1. s \in {"detach", "reset"} =>
           \A i \in 1..(Len(frames) + 1) : i < Len(frames) + 1 => frames'[i].win # w
    BY <1>3 DEF OnStack
  <2> QED BY <1>2, <1>3, <2>1 DEF TeardownAlone
<1>10. ActiveFollows'
  BY <1>2, <1>3, <1>4 DEF ActiveFollows
<1>11. RootsOpen'
  BY <1>4, ActiveOpen DEF Discipline, RootsOpen, TypeOK, Key
<1> QED BY <1>8, <1>9, <1>10, <1>11

(* An event of the player arrives at rest, with no bracket.                      *)
LEMMA PlayerDiscipline ==
    ASSUME Discipline, Doing = "idle", Player \in Window,
           NEW s \in {"run", "configure", "activate", "detach"},
           Push(Call(Player, Null, FALSE, s)), UNCHANGED <<activeRoot, roots>>,
           open'[Player], \A v \in Window : open[v] => open'[v],
           s \in {"run", "detach"} => open[Player]
    PROVE  (Chained /\ TeardownAlone /\ ActiveFollows /\ RootsOpen)'
<1> DEFINE f == Call(Player, Null, FALSE, s)
<1>1. frames = <<>> /\ frames \in Seq(Frame)
  <2>1. frames \in Seq(Frame)
    BY DEF Discipline, TypeOK
  <2> QED BY <2>1, TopFrame DEF Step
<1>2. /\ f \in Frame /\ f.win = Player /\ f.scoped = FALSE /\ f.step = s
  BY DEF Call, Frame, Step, Key
<1> HIDE DEF f
<1>3. /\ Len(frames') = 1 /\ frames'[1] = f /\ Top' = f /\ Doing' = s
  <2>1. Push(f)
    BY DEF f
  <2>2. Len(frames) = 0
    BY <1>1
  <2> QED BY <1>1, <1>2, <2>1, <2>2, PushFrame
<1>4. activeRoot = IF open[Player] THEN Player ELSE Null
  BY DEF Discipline, ActiveFollows, Rest
<1>5. Chained'
  <2>1. 1..1 = {1}
    OBVIOUS
  <2> QED BY <1>2, <1>3, <2>1 DEF Chained
<1>6. TeardownAlone'
  BY <1>2, <1>3 DEF TeardownAlone
<1>7. ActiveFollows'
  BY <1>2, <1>3, <1>4 DEF ActiveFollows
<1>8. RootsOpen'
  BY DEF Discipline, RootsOpen, TypeOK, Key
<1> QED BY <1>5, <1>6, <1>7, <1>8

(* A step of the innermost frame that leaves the windows alone keeps the stack.  *)
LEMMA StepDiscipline ==
    ASSUME Discipline, frames # <<>>, Doing # "restore",
           NEW s \in Step \ {"detach", "reset"}, GoTo(s), UNCHANGED open,
           s \in {"teardown", "drop"} => Doing \in {"detach", "teardown"}
    PROVE  /\ Chained' /\ TeardownAlone'
           /\ Doing' = s /\ Top'.win = Top.win /\ Top'.scoped = Top.scoped
           /\ Top.win \in Window /\ Top.win # Null /\ open[Top.win]
<1>0. s \in Step
  OBVIOUS
<1>1. /\ frames \in Seq(Frame)
      /\ \A i \in 1..Len(frames) : frames[i] \in Frame
  BY DEF Discipline, TypeOK
<1>2. /\ Len(frames) \in Nat \ {0} /\ Len(frames) \in 1..Len(frames)
      /\ Top = frames[Len(frames)] /\ Top \in Frame /\ Doing = Top.step
      /\ Top.win \in Window
  BY <1>1, TopFrame
<1>3. /\ Len(frames') = Len(frames)
      /\ \A i \in 1..Len(frames) : i < Len(frames) => frames'[i] = frames[i]
      /\ frames'[Len(frames)] = [Top EXCEPT !.step = s]
      /\ Top' = [Top EXCEPT !.step = s]
      /\ Doing' = s
  BY <1>0, <1>1, <1>2, GoToStep
<1>4. /\ Top'.win = Top.win /\ Top'.scoped = Top.scoped /\ Top'.prev = Top.prev
      /\ Top'.step = s /\ frames'[Len(frames)] = Top'
  BY <1>2, <1>3 DEF Frame
<1>5. open[Top.win]
  BY <1>2 DEF Discipline, Chained
<1>6. Rest' = Rest
  BY DEF Rest
<1>7. ASSUME NEW i \in 1..Len(frames)
      PROVE  /\ frames'[i].win = frames[i].win
             /\ frames'[i].scoped = frames[i].scoped
             /\ frames'[i].prev = frames[i].prev
             /\ i < Len(frames) => frames'[i].step = frames[i].step
             /\ ~(i < Len(frames)) => frames[i] = Top
  <2>1. CASE i < Len(frames)
    BY <1>3, <2>1
  <2>2. CASE ~(i < Len(frames))
    <3>1. i = Len(frames)
      BY <1>2, <2>2
    <3> QED BY <1>2, <1>4, <2>2, <3>1
  <2> QED BY <2>1, <2>2
<1>8. Chained'
  <2> SUFFICES ASSUME NEW i \in 1..Len(frames)
               PROVE  /\ i < Len(frames) => frames'[i].step \in {"run", "loop"}
                      /\ frames'[i].step # "restore" => open[frames'[i].win]
                      /\ i > 1 => /\ frames'[i].scoped
                                  /\ frames'[i].prev = frames'[i-1].win
                      /\ frames'[i].scoped /\ i = 1 => frames'[i].prev = Rest
                      /\ ~frames'[i].scoped => i = 1 /\ frames'[i].win = Player
    BY <1>3, <1>6 DEF Chained
  <2>1. i > 1 => frames'[i-1].win = frames[i-1].win
    <3>1. i > 1 => i - 1 \in 1..Len(frames)
      BY <1>2
    <3> QED BY <1>7, <3>1
  <2>2. i < Len(frames) => frames'[i].step \in {"run", "loop"}
    BY <1>7 DEF Discipline, Chained
  <2>3. frames'[i].step # "restore" => open[frames'[i].win]
    BY <1>5, <1>7 DEF Discipline, Chained
  <2> QED BY <1>7, <2>1, <2>2, <2>3 DEF Discipline, Chained
<1>9. TeardownAlone'
  <2> SUFFICES ASSUME Doing' \in {"detach", "teardown", "drop", "reset"}
               PROVE  /\ \A i \in 1..Len(frames) :
                             i < Len(frames) => frames'[i].win # Top.win
                      /\ Doing' # "reset"
                      /\ Top.scoped => Top.win # Player
    BY <1>3, <1>4 DEF TeardownAlone
  <2>1. Doing' # "reset" /\ Doing \in {"detach", "teardown"}
    BY <1>3
  <2> QED BY <1>7, <2>1 DEF Discipline, TeardownAlone
<1> QED BY <1>2, <1>3, <1>4, <1>5, <1>8, <1>9, ConstantsAssumption

(* Every reachable state keeps the discipline, if every delivery is bracketed.   *)
LEMMA DisciplineStep ==
    ASSUME Departures = {}, Discipline, [Next]_vars, TypeOK'
    PROVE  Discipline'
<1> SUFFICES (Chained /\ TeardownAlone /\ ActiveFollows /\ RootsOpen)'
  BY DEF Discipline
<1>0. /\ frames \in Seq(Frame) /\ open \in [Window -> BOOLEAN]
      /\ activeRoot \in Key /\ DOMAIN roots \subseteq Key
      /\ Chained /\ TeardownAlone /\ ActiveFollows /\ RootsOpen
  BY DEF Discipline, TypeOK
<1>a. ASSUME NEW s \in Step, At(s) PROVE frames # <<>> /\ Doing = s
  BY <1>a DEF At, Doing, Step
<1>b. EventLoop => Doing \in {"idle", "loop", "run"}
  BY DEF EventLoop
<1>c. UNCHANGED open => Rest' = Rest
  BY DEF Rest
<1>1. ASSUME NEW w \in Window, EnterScoped(w)
      PROVE (Chained /\ TeardownAlone /\ ActiveFollows /\ RootsOpen)'
  BY <1>1, <1>b, <1>c, EnterDiscipline DEF EnterScoped, Loaded
<1>2. ASSUME NEW w \in Window, EnterBroadcast(w) PROVE FALSE
  BY <1>2 DEF EnterBroadcast
<1>3. ASSUME NEW w \in Window, ResetRuntime(w)
      PROVE (Chained /\ TeardownAlone /\ ActiveFollows /\ RootsOpen)'
  BY <1>3, <1>b, <1>c, EnterDiscipline DEF ResetRuntime
<1>4. ASSUME NEW w \in Subwindow, OpenSubwindow(w)
      PROVE (Chained /\ TeardownAlone /\ ActiveFollows /\ RootsOpen)'
  <2>1. w \in Window /\ w # Player
    BY DEF Subwindow
  <2>2. open'[w] /\ \A v \in Window : v # w => open'[v] = open[v]
    BY <1>0, <1>4, <2>1 DEF OpenSubwindow, Expand
  <2>3. Rest' = Rest
    BY <2>1, <2>2 DEF Rest
  <2> QED BY <1>4, <2>1, <2>2, <2>3, EnterDiscipline DEF OpenSubwindow
<1>5. ASSUME NEW w \in Subwindow, ReloadSubwindow(w) PROVE FALSE
  BY <1>5 DEF ReloadSubwindow
<1>6. ASSUME NEW w \in Subwindow, CloseSubwindow(w)
      PROVE (Chained /\ TeardownAlone /\ ActiveFollows /\ RootsOpen)'
  BY <1>6, <1>c, EnterDiscipline DEF CloseSubwindow, Subwindow
<1>7. CASE EnterPlayer
  BY <1>7, PlayerDiscipline DEF EnterPlayer, At, Loaded
<1>8. CASE OpenPlayer
  <2>1. open'[Player] /\ \A v \in Window : open[v] => open'[v]
    BY <1>0, <1>8 DEF OpenPlayer, Expand
  <2>2. (IF open[Player] THEN "activate" ELSE "configure")
           \in {"run", "configure", "activate", "detach"} \ {"run", "detach"}
    OBVIOUS
  <2> QED BY <1>8, <2>1, <2>2, PlayerDiscipline DEF OpenPlayer, At
<1>9. CASE ClosePlayer
  BY <1>9, PlayerDiscipline DEF ClosePlayer, At
<1>10. CASE Configure
  <2>1. frames # <<>> /\ Doing = "configure" /\ UNCHANGED <<activeRoot, roots, open>>
        /\ GoTo("activate") /\ "activate" \in Step \ {"detach", "reset"}
    BY <1>10, <1>a DEF Configure, Step
  <2>2. /\ Chained' /\ TeardownAlone' /\ Doing' = "activate"
        /\ Top'.win = Top.win /\ Top'.scoped = Top.scoped
    BY <2>1, StepDiscipline
  <2>3. ActiveFollows' /\ RootsOpen'
    BY <1>0, <2>1, <2>2 DEF ActiveFollows, RootsOpen
  <2> QED BY <2>2, <2>3
<1>11. CASE Activate
  <2>1. frames # <<>> /\ Doing = "activate" /\ UNCHANGED open
        /\ GoTo("scripts") /\ "scripts" \in Step \ {"detach", "reset"}
    BY <1>11, <1>a DEF Activate, Step
  <2>2. /\ Chained' /\ TeardownAlone' /\ Doing' = "scripts"
        /\ Top'.win = Top.win /\ open[Top.win]
    BY <2>1, StepDiscipline
  <2>3. activeRoot' = Top.win /\ DOMAIN roots' \subseteq DOMAIN roots \cup {activeRoot, Top.win}
    BY <1>11, SwitchRoots DEF Activate
  <2>4. ActiveFollows'
    BY <2>2, <2>3 DEF ActiveFollows
  <2>5. RootsOpen'
    BY <1>0, <2>1, <2>2, <2>3, ActiveOpen DEF RootsOpen
  <2> QED BY <2>2, <2>4, <2>5
<1>12. ASSUME NEW t \in {"run", "loop", "teardown", "drop"}, frames # <<>>, GoTo(t),
              UNCHANGED <<activeRoot, roots, open>>,
              Doing \in {"run", "loop", "scripts", "detach", "teardown"},
              t \in {"teardown", "drop"} => Doing \in {"detach", "teardown"}
       PROVE (Chained /\ TeardownAlone /\ ActiveFollows /\ RootsOpen)'
  <2>1. t \in Step \ {"detach", "reset"} /\ Doing # "restore"
    BY <1>12 DEF Step
  <2>2. /\ Chained' /\ TeardownAlone' /\ Doing' = t /\ Top'.win = Top.win
    BY <1>12, <2>1, StepDiscipline
  <2>3. ActiveFollows' /\ RootsOpen'
    BY <1>0, <1>12, <2>2 DEF ActiveFollows, RootsOpen
  <2> QED BY <2>2, <2>3
<1>13. CASE LoadScripts
  BY <1>13, <1>12, <1>a DEF LoadScripts, Step
<1>14. CASE PopupMenu
  BY <1>14, <1>12, <1>a DEF PopupMenu, HandlerRuns, Step
<1>15. CASE PopupDone
  BY <1>15, <1>12, <1>a DEF PopupDone, Step
<1>16. CASE Detach
  BY <1>16, <1>12, <1>a DEF Detach, Step
<1>17. CASE Teardown
  BY <1>17, <1>12, <1>a DEF Teardown, DestroyAll, Step
<1>18. CASE Reset
  <2>1. frames # <<>> /\ Doing = "reset" /\ UNCHANGED <<activeRoot, roots, open>>
        /\ GoTo("restore") /\ "restore" \in Step \ {"detach", "reset"}
    BY <1>18, <1>a DEF Reset, DestroyAll, Step
  <2>2. /\ Chained' /\ TeardownAlone' /\ Doing' = "restore"
        /\ Top'.win = Top.win /\ Top'.scoped = Top.scoped /\ open[Top.win]
    BY <2>1, StepDiscipline
  <2>3. activeRoot = Top.win /\ Top.scoped
    BY <1>0, <2>1 DEF ActiveFollows, TeardownAlone
  <2>4. ActiveFollows' /\ RootsOpen'
    BY <1>0, <2>1, <2>2, <2>3 DEF ActiveFollows, RootsOpen
  <2> QED BY <2>2, <2>4
<1>19. CASE UNCHANGED <<activeRoot, open, frames>> /\ UNCHANGED roots
  BY <1>0, <1>19 DEF Chained, TeardownAlone, ActiveFollows, RootsOpen, Rest, Doing, Top
<1>20. CASE DropScriptRoot
  <2>1. /\ frames # <<>> /\ Doing = "drop" /\ GoTo("restore") /\ "restore" \in Step
        /\ \A i \in 1..Len(frames) : frames[i] \in Frame
    BY <1>0, <1>20, <1>a DEF DropScriptRoot, Step
  <2>2. /\ Len(frames) \in Nat \ {0} /\ Len(frames) \in 1..Len(frames)
        /\ Top = frames[Len(frames)] /\ Top \in Frame /\ Top.win \in Window
    BY <1>0, <2>1, TopFrame
  <2>3. /\ Len(frames') = Len(frames)
        /\ \A i \in 1..Len(frames) : i < Len(frames) => frames'[i] = frames[i]
        /\ Top' = [Top EXCEPT !.step = "restore"]
        /\ frames'[Len(frames)] = [Top EXCEPT !.step = "restore"]
        /\ Doing' = "restore"
    BY <1>0, <2>1, <2>2, GoToStep
  <2>4. /\ Top'.win = Top.win /\ Top'.prev = Top.prev /\ Top'.scoped = Top.scoped
        /\ Top'.step = "restore" /\ frames'[Len(frames)] = Top'
    BY <2>2, <2>3 DEF Frame
  <2>5. /\ ~open'[Top.win]
        /\ \A v \in Window : v # Top.win => open'[v] = open[v]
    BY <1>0, <1>20, <2>2 DEF DropScriptRoot
  <2>6. /\ \A i \in 1..Len(frames) : i < Len(frames) => frames[i].win # Top.win
        /\ Top.scoped => Top.win # Player
    BY <1>0, <2>1 DEF TeardownAlone
  <2>7. ~Top.scoped => Len(frames) = 1
    BY <1>0, <2>2 DEF Chained
  <2>8. Top.scoped => Rest' = Rest
    BY <2>2, <2>5, <2>6 DEF Rest
  <2>9. Chained'
    <3> SUFFICES ASSUME NEW i \in 1..Len(frames)
                 PROVE  /\ i < Len(frames) => frames'[i].step \in {"run", "loop"}
                        /\ frames'[i].step # "restore" => open'[frames'[i].win]
                        /\ i > 1 => /\ frames'[i].scoped
                                    /\ frames'[i].prev = frames'[i-1].win
                        /\ frames'[i].scoped /\ i = 1 => frames'[i].prev = Rest'
                        /\ ~frames'[i].scoped => i = 1 /\ frames'[i].win = Player
      BY <2>3 DEF Chained
    <3>1. i > 1 => frames'[i-1].win = frames[i-1].win
      <4>1. i > 1 => i - 1 \in 1..Len(frames) /\ i - 1 < Len(frames)
        BY <2>2
      <4> QED BY <2>3, <4>1
    <3>2. CASE i = Len(frames)
      <4>1. frames'[i].step = "restore" /\ ~(i < Len(frames))
        BY <2>2, <2>4, <3>2
      <4>2. i = 1 /\ Top.scoped => Top.prev = Rest
        BY <1>0, <2>2, <3>2 DEF Chained
      <4> QED BY <1>0, <2>2, <2>4, <2>7, <2>8, <3>1, <3>2, <4>1, <4>2 DEF Chained
    <3>3. CASE i < Len(frames)
      <4>1. frames'[i] = frames[i] /\ frames[i].win \in Window
        BY <2>1, <2>3, <3>3 DEF Frame
      <4>2. Top.scoped
        BY <2>2, <2>7, <3>3 DEF Frame
      <4>3. open'[frames[i].win] <=> open[frames[i].win]
        BY <2>5, <2>6, <3>3, <4>1
      <4> QED BY <1>0, <2>8, <3>1, <3>3, <4>1, <4>2, <4>3 DEF Chained
    <3> QED BY <2>2, <3>2, <3>3
  <2>10. TeardownAlone'
    BY <2>3 DEF TeardownAlone
  <2>11. activeRoot = Top.win
    BY <1>0, <2>1 DEF ActiveFollows
  <2>12. ActiveFollows'
    BY <1>20, <2>3, <2>4, <2>5, <2>11 DEF ActiveFollows, DropScriptRoot
  <2>13. RootsOpen'
    BY <1>0, <1>20, <2>5 DEF RootsOpen, DropScriptRoot, Key
  <2> QED BY <2>9, <2>10, <2>12, <2>13
<1>21. CASE Leave
  <2>1. frames # <<>> /\ frames' = Front(frames) /\ UNCHANGED open
        /\ Doing \in {"run", "restore"}
    BY <1>21 DEF Leave, Doing
  <2>2. /\ Len(frames) \in Nat \ {0} /\ Len(frames) \in 1..Len(frames)
        /\ Top = frames[Len(frames)] /\ Top \in Frame /\ Top.win \in Window
        /\ Top.prev \in Key /\ Doing = Top.step
    BY <1>0, <2>1, TopFrame
  <2>3. /\ frames' \in Seq(Frame) /\ Len(frames') = Len(frames) - 1
        /\ \A i \in 1..Len(frames') : frames'[i] = frames[i]
        /\ Len(frames) = 1 => frames' = <<>>
        /\ Len(frames) > 1 => frames' # <<>>
    BY <1>0, <2>1, PopFrame
  <2>4. /\ Len(frames) > 1 => Top.scoped /\ Top.prev = frames[Len(frames) - 1].win
        /\ Len(frames) = 1 /\ Top.scoped => Top.prev = Rest
        /\ ~Top.scoped => Len(frames) = 1 /\ Top.win = Player
        /\ Doing # "restore" => open[Top.win]
    BY <1>0, <2>2 DEF Chained
  <2>5. Rest' = Rest
    BY <2>1 DEF Rest
  <2>6. IF Top.scoped THEN activeRoot' = Top.prev
                          /\ DOMAIN roots' \subseteq DOMAIN roots \cup {activeRoot, Top.prev}
                     ELSE UNCHANGED <<activeRoot, roots>>
    BY <1>21, SwitchRoots DEF Leave
  <2>7. CASE Len(frames) = 1
    <3>1. activeRoot' = Rest
      <4>1. CASE Top.scoped
        BY <2>4, <2>6, <2>7, <4>1
      <4>2. CASE ~Top.scoped
        <5>1. Doing = "run" => activeRoot = Player /\ open[Player]
          BY <1>0, <2>4, <4>2 DEF ActiveFollows
        <5>2. Doing = "restore" => activeRoot = Null /\ ~open[Player]
          BY <1>0, <2>4, <4>2 DEF ActiveFollows
        <5>3. Player \in Window
          BY <2>2, <2>4, <4>2
        <5> QED BY <2>1, <2>6, <4>2, <5>1, <5>2, <5>3 DEF Rest
      <4> QED BY <4>1, <4>2
    <3>2. Doing' = "idle" /\ Len(frames') = 0
      BY <2>3, <2>7 DEF Doing
    <3>3. Chained' /\ TeardownAlone'
      BY <3>2 DEF Chained, TeardownAlone
    <3>4. ActiveFollows'
      BY <2>5, <3>1, <3>2 DEF ActiveFollows
    <3>5. RootsOpen'
      <4>1. Top.prev # Null /\ Top.scoped => open[Top.prev]
        BY <2>4, <2>7 DEF Rest
      <4> QED BY <1>0, <2>1, <2>6, <4>1, ActiveOpen DEF RootsOpen
    <3> QED BY <3>3, <3>4, <3>5
  <2>8. CASE Len(frames) > 1
    <3> DEFINE n == Len(frames) - 1
    <3>1. /\ n \in 1..Len(frames) /\ n < Len(frames) /\ n \in 1..n
          /\ \A i \in 1..n : i \in 1..Len(frames) /\ i < Len(frames)
      BY <2>2, <2>8
    <3>2. Len(frames') = n /\ \A i \in 1..n : frames'[i] = frames[i]
      BY <2>3
    <3>3. Top' = frames[n] /\ Doing' = frames[n].step
      <4>1. frames' # <<>>
        BY <2>3, <2>8
      <4>2. Top' = frames'[Len(frames')] /\ Doing' = Top'.step
        BY <4>1 DEF Top, Last, Doing
      <4> QED BY <3>1, <3>2, <4>2
    <3> HIDE DEF n
    <3>4. Doing' \in {"run", "loop"} /\ open[frames[n].win]
      BY <1>0, <3>1, <3>3 DEF Chained
    <3>5. activeRoot' = frames[n].win
      BY <2>4, <2>6, <2>8 DEF n
    <3>6. Chained'
      <4> SUFFICES ASSUME NEW i \in 1..n
                   PROVE  /\ i < n => frames'[i].step \in {"run", "loop"}
                          /\ frames'[i].step # "restore" => open[frames'[i].win]
                          /\ i > 1 => /\ frames'[i].scoped
                                      /\ frames'[i].prev = frames'[i-1].win
                          /\ frames'[i].scoped /\ i = 1 => frames'[i].prev = Rest
                          /\ ~frames'[i].scoped => i = 1 /\ frames'[i].win = Player
        BY <2>1, <2>5, <3>2 DEF Chained
      <4>1. i > 1 => frames'[i-1] = frames[i-1]
        <5>1. i > 1 => i - 1 \in 1..n
          BY <3>1, <2>2 DEF n
        <5> QED BY <3>2, <5>1
      <4>2. frames'[i] = frames[i] /\ i \in 1..Len(frames) /\ i < Len(frames)
        BY <3>1, <3>2
      <4> QED BY <1>0, <4>1, <4>2 DEF Chained
    <3>7. TeardownAlone'
      BY <3>4 DEF TeardownAlone
    <3>8. ActiveFollows'
      BY <3>3, <3>4, <3>5 DEF ActiveFollows
    <3>9. RootsOpen'
      BY <1>0, <2>1, <2>4, <2>6, <2>8, <3>4, ActiveOpen DEF RootsOpen, n
    <3> QED BY <3>6, <3>7, <3>8, <3>9
  <2>9. \A m \in Nat \ {0} : m = 1 \/ m > 1
    OBVIOUS
  <2>10. Len(frames) = 1 \/ Len(frames) > 1
    BY <2>2, <2>9, Zenon
  <2> QED BY <2>7, <2>8, <2>10
<1>22. CASE ResizeSelf
  <2>1. frames # <<>> /\ Doing = "run" /\ Top.win \in Window /\ open[Top.win]
    <3>1. frames # <<>> /\ Doing = "run"
      BY <1>22, <1>a DEF ResizeSelf, HandlerRuns, Step
    <3>2. Len(frames) \in 1..Len(frames) /\ Top = frames[Len(frames)] /\ Top.win \in Window
      BY <1>0, <3>1, TopFrame
    <3> QED BY <3>1, <3>2, LowerFrames DEF At
  <2> QED BY <1>22, <1>c, <2>1, EnterDiscipline DEF ResizeSelf
<1>23. \A w \in Window : FindObject(w) => UNCHANGED <<activeRoot, open, frames>> /\ UNCHANGED roots
  BY DEF FindObject
<1>24. UNCHANGED vars => UNCHANGED <<activeRoot, open, frames>> /\ UNCHANGED roots
  BY DEF vars
<1> QED
  BY <1>1, <1>2, <1>3, <1>4, <1>5, <1>6, <1>7, <1>8, <1>9, <1>10, <1>11, <1>13,
     <1>14, <1>15, <1>16, <1>17, <1>18, <1>19, <1>20, <1>21, <1>22, <1>23, <1>24
  DEF Next, Unload, Other, ForWindow, ForSubwindow

LEMMA InitDiscipline == Init => Discipline
<1>1. Init => TypeOK
  BY DEF Init, TypeOK, Key, EmptyRoot, RootData
<1>2. ASSUME Init PROVE Chained /\ TeardownAlone /\ ActiveFollows /\ RootsOpen
  <2>1. frames = <<>> /\ Len(frames) = 0 /\ Doing = "idle" /\ activeRoot = Null
    BY <1>2 DEF Init, Doing
  <2>2. Rest = Null
    BY <1>2 DEF Init, Rest
  <2> QED BY <1>2, <2>1, <2>2
          DEF Init, Chained, TeardownAlone, ActiveFollows, RootsOpen
<1> QED BY <1>1, <1>2 DEF Discipline

(* The discipline is inductive.                                                  *)
LEMMA DisciplineInvariant ==
    ASSUME Departures = {} PROVE Spec => []Discipline
<1>1. TypeOK' /\ Discipline /\ [Next]_vars => Discipline'
  BY DisciplineStep
<1> QED BY <1>1, InitDiscipline, TypeCorrect, PTL DEF Spec

(* If every delivery is bracketed, a script handler runs with its own window's   *)
(* context live, at any nesting (SkinRuntime.h, dispatch scoping).               *)
THEOREM RunsHome ==
    ASSUME Departures = {} PROVE Spec => []HandlersRunHome
<1>1. Discipline => HandlersRunHome
  BY DEF Discipline, ActiveFollows, HandlersRunHome, HandlerRuns, At
<1> QED BY <1>1, DisciplineInvariant, PTL

(* If every delivery is bracketed, a destroyed window's root is gone for good:   *)
(* it is neither active, nor saved, nor what an open bracket goes back to.       *)
THEOREM DeadRootsGone ==
    ASSUME Departures = {} PROVE Spec => []NoDeadRoot
<1>1. ASSUME Discipline PROVE NoDeadRoot
  <2>1. \A k \in (DOMAIN roots \cup {activeRoot}) \ {Null} : open[k]
    BY <1>1, ActiveOpen DEF Discipline, RootsOpen
  <2>2. ASSUME NEW i \in 1..Len(frames), frames[i].scoped, frames[i].prev # Null
        PROVE  open[frames[i].prev]
    <3>1. Len(frames) \in Nat
      BY <1>1 DEF Discipline, TypeOK
    <3>2. CASE i = 1
      BY <1>1, <2>2, <3>2 DEF Discipline, Chained, Rest
    <3>3. CASE i > 1
      <4>1. i - 1 \in 1..Len(frames) /\ i - 1 < Len(frames)
        BY <3>1, <3>3
      <4>2. frames[i].prev = frames[i-1].win /\ open[frames[i-1].win]
        BY <1>1, <3>3, <4>1, LowerFrames DEF Discipline, Chained
      <4> QED BY <4>2
    <3> QED BY <3>1, <3>2, <3>3
  <2> QED BY <2>1, <2>2 DEF NoDeadRoot
<1> QED BY <1>1, DisciplineInvariant, PTL

(* If every delivery is bracketed, the root at rest is the player's, or none     *)
(* when there is no player.                                                      *)
THEOREM ComesBackToRest ==
    ASSUME Departures = {} PROVE Spec => []RestingRoot
<1>1. Discipline => RestingRoot
  BY DEF Discipline, ActiveFollows, RestingRoot, Rest, Doing
<1> QED BY <1>1, DisciplineInvariant, PTL

-----------------------------------------------------------------------------
(* Switching implements one context per window, departures included.             *)

NullSaved == Null \in DOMAIN roots => roots[Null] = EmptyRoot

ctx == [k \in Key |-> Context(k)]
known == (DOMAIN roots \cup {activeRoot}) \ {Null}

(* Making another root active is a Focus of the abstract specification.          *)
LEMMA SwitchFocus ==
    ASSUME TypeOK, NullSaved, NEW key \in Key, SwitchActiveRoot(key)
    PROVE  /\ \/ Contexts!Focus(key)
              \/ UNCHANGED <<activeRoot, ctx, known>>
           /\ NullSaved'
<1>1. CASE key = activeRoot /\ UNCHANGED <<activeRoot, live, roots>>
  BY <1>1 DEF NullSaved, known, ctx, Context
<1>2. CASE key # activeRoot /\ Adopts(key) /\ activeRoot' = key /\ UNCHANGED <<live, roots>>
  <2>1. /\ activeRoot = Null /\ key \notin known /\ key # Null /\ Null \in Key
        /\ known' = known \cup {key}
    BY <1>2 DEF Adopts, known, Key
  <2>2. \A k \in Key : Context(k)' = IF k = Null THEN EmptyRoot
                                     ELSE IF k = key THEN Context(Null) ELSE Context(k)
    BY <1>2, <2>1 DEF Adopts, Context, NullSaved
  <2>3. ctx' = [ctx EXCEPT ![Null] = EmptyRoot,
                           ![key] = IF key \in known THEN @ ELSE ctx[Null]]
    BY <2>1, <2>2 DEF ctx
  <2>4. NullSaved'
    BY <1>2 DEF NullSaved
  <2> QED BY <1>2, <2>1, <2>3, <2>4 DEF Contexts!Focus, known, ctx
<1>3. CASE key # activeRoot /\ ~Adopts(key) /\ LoadActiveRoot(SaveActiveRoot, key)
  <2> DEFINE saved == SaveActiveRoot
             data == IF key \in DOMAIN saved THEN saved[key] ELSE EmptyRoot
             left == [data EXCEPT !.registered = {}]
  <2>1. /\ \A k \in Key \ {activeRoot} :
              (k \in DOMAIN saved <=> k \in DOMAIN roots)
              /\ (k \in DOMAIN saved => saved[k] = roots[k])
        /\ activeRoot # Null => activeRoot \in DOMAIN saved /\ saved[activeRoot] = live
                                /\ DOMAIN saved = DOMAIN roots \cup {activeRoot}
        /\ activeRoot = Null => saved = roots
    BY DEF SaveActiveRoot, Saved
  <2>2. data = Context(key)
    BY <1>3, <2>1 DEF Context
  <2>3. key = Null => data = EmptyRoot /\ left = EmptyRoot
    BY <1>3, <2>1 DEF NullSaved, EmptyRoot
  <2> HIDE DEF saved, data, left
  <2>4. /\ live' = data
        /\ roots' = [k \in DOMAIN saved \cup {key} |-> IF k = key THEN left ELSE saved[k]]
        /\ activeRoot' = key
    BY <1>3 DEF LoadActiveRoot, saved, data, left
  <2>5. ASSUME NEW k \in Key
        PROVE  Context(k)' = IF k = Null /\ activeRoot = Null THEN EmptyRoot ELSE Context(k)
    <3>1. CASE k = key
      BY <1>3, <2>2, <2>4, <3>1 DEF Context
    <3>2. CASE k # key /\ k = activeRoot /\ k # Null
      BY <2>1, <2>4, <3>2 DEF Context
    <3>3. CASE k # key /\ k = activeRoot /\ k = Null
      BY <2>1, <2>4, <3>3 DEF Context, NullSaved
    <3>4. CASE k # key /\ k # activeRoot
      BY <2>1, <2>4, <3>4 DEF Context
    <3> QED BY <3>1, <3>2, <3>3, <3>4
  <2>6. NullSaved'
    BY <1>3, <2>1, <2>3, <2>4 DEF NullSaved, Key
  <2>7. known' = known \cup ({key} \ {Null})
    BY <2>1, <2>4 DEF known
  <2>8. activeRoot = Null => key \in known
    BY <1>3 DEF Adopts, known
  <2>9. ctx' = IF activeRoot # Null THEN ctx
               ELSE [ctx EXCEPT ![Null] = EmptyRoot,
                                ![key] = IF key \in known THEN @ ELSE ctx[Null]]
    <3>1. CASE activeRoot # Null
      BY <2>5, <3>1 DEF ctx
    <3>2. CASE activeRoot = Null
      <4>1. Null \in Key /\ key # Null /\ key \in known
        BY <1>3, <2>8, <3>2 DEF Key
      <4>2. ctx' = [k \in Key |-> IF k = Null THEN EmptyRoot ELSE Context(k)]
        BY <2>5, <3>2 DEF ctx
      <4> QED BY <3>2, <4>1, <4>2 DEF ctx
    <3> QED BY <3>1, <3>2
  <2> QED BY <1>3, <2>4, <2>6, <2>7, <2>9 DEF Contexts!Focus, known, ctx
<1> QED BY <1>1, <1>2, <1>3 DEF SwitchActiveRoot

(* A step that leaves the roots alone changes the current context at most.       *)
LEMMA LiveChange ==
    ASSUME TypeOK, NullSaved, UNCHANGED <<activeRoot, roots>>
    PROVE  Contexts!Change /\ NullSaved'
<1>1. activeRoot \in Key /\ known' = known
  BY DEF TypeOK, known
<1>2. ctx' = [ctx EXCEPT ![activeRoot] = ctx'[activeRoot]]
  <2>1. \A k \in Key : k # activeRoot => Context(k)' = Context(k)
    BY DEF Context
  <2> QED BY <1>1, <2>1 DEF ctx
<1> QED BY <1>1, <1>2 DEF Contexts!Change, known, ctx, NullSaved

LEMMA RefineStep ==
    ASSUME TypeOK, NullSaved, [Next]_vars
    PROVE  [Contexts!Next]_<<activeRoot, ctx, known>> /\ NullSaved'
<1> DEFINE Goal == [Contexts!Next]_<<activeRoot, ctx, known>> /\ NullSaved'
<1>0. /\ Window \subseteq Key /\ Key = Window \cup {Null} /\ frames \in Seq(Frame)
  BY DEF Key, TypeOK
<1>a. ASSUME NEW key \in Key, SwitchActiveRoot(key) PROVE Goal
  BY <1>0, <1>a, SwitchFocus DEF Contexts!Next
<1>b. ASSUME UNCHANGED <<activeRoot, roots>> PROVE Goal
  BY <1>b, LiveChange DEF Contexts!Next
<1>c. Doing # "idle" => Top.win \in Window /\ Top.prev \in Key
  BY <1>0, TopFrame DEF Doing
<1> SUFFICES Goal
  OBVIOUS
<1> HIDE DEF Goal
<1>1. ASSUME NEW w \in Window, ForWindow(w) PROVE Goal
  <2>1. w \in Key
    BY <1>0
  <2>2. SwitchActiveRoot(w) \/ UNCHANGED <<activeRoot, roots>>
    BY <1>1 DEF ForWindow, EnterScoped, EnterBroadcast, FindObject, ResetRuntime, PushScoped
  <2> QED BY <1>a, <1>b, <2>1, <2>2
<1>2. ASSUME NEW w \in Subwindow, ForSubwindow(w) PROVE Goal
  <2>1. w \in Key
    BY <1>0 DEF Subwindow
  <2>2. SwitchActiveRoot(w)
    BY <1>2 DEF ForSubwindow, OpenSubwindow, ReloadSubwindow, CloseSubwindow, PushScoped
  <2> QED BY <1>a, <2>1, <2>2
<1>3. CASE \/ EnterPlayer \/ OpenPlayer \/ ClosePlayer \/ Configure \/ PopupMenu
           \/ PopupDone \/ Detach \/ Unload \/ UNCHANGED vars
  <2>1. UNCHANGED <<activeRoot, roots>>
    BY <1>3
    DEF EnterPlayer, OpenPlayer, ClosePlayer, Configure, PopupMenu, PopupDone, Detach,
        Unload, LoadScripts, Teardown, Reset, DestroyAll, vars
  <2> QED BY <1>b, <2>1
<1>4. CASE Activate \/ ResizeSelf
  BY <1>0, <1>4, <1>a, <1>c DEF Activate, ResizeSelf, HandlerRuns, At, PushScoped
<1>5. CASE Leave
  BY <1>5, <1>a, <1>b, <1>c DEF Leave
<1>6. CASE DropScriptRoot
  <2>1. /\ Top.win \in Window /\ Top.win # Null
        /\ roots' = [k \in DOMAIN roots \ {Top.win} |-> roots[k]]
        /\ \/ activeRoot = Top.win /\ live' = EmptyRoot /\ activeRoot' = Null
           \/ activeRoot # Top.win /\ UNCHANGED <<live, activeRoot>>
    BY <1>6, <1>c, ConstantsAssumption DEF DropScriptRoot, At
  <2> PICK w \in Window : w = Top.win
    BY <2>1
  <2>2. \A k \in Key : Context(k)' = IF k = w THEN EmptyRoot ELSE Context(k)
    BY <2>1 DEF Context, NullSaved
  <2>3. known' = known \ {w} /\ ctx' = [ctx EXCEPT ![w] = EmptyRoot]
    BY <1>0, <2>1, <2>2 DEF known, ctx
  <2>4. activeRoot' = IF activeRoot = w THEN Null ELSE activeRoot
    BY <2>1
  <2>5. NullSaved'
    BY <2>1 DEF NullSaved
  <2> QED BY <2>3, <2>4, <2>5 DEF Goal, Contexts!Next, Contexts!Forget, known, ctx
<1> QED BY <1>1, <1>2, <1>3, <1>4, <1>5, <1>6 DEF Next, Other

(* The swap of the globals implements one context per window, exactly one of     *)
(* which is current (SkinRuntime.h, dispatch scoping), in every session, the     *)
(* broadcasts and the reloads included.                                          *)
THEOREM ContextsImplemented == Spec => RefinesContexts
<1>1. Init => Contexts!Init /\ NullSaved
  <2>1. ASSUME Init PROVE /\ known = {} /\ activeRoot = Null /\ NullSaved
                          /\ \A k \in Key : Context(k) = EmptyRoot
    BY <2>1 DEF Init, known, NullSaved, Context
  <2> QED BY <2>1 DEF Contexts!Init, known, ctx, Key
<1>2. TypeOK /\ NullSaved /\ [Next]_vars
         => NullSaved' /\ [Contexts!Next]_<<activeRoot, ctx, known>>
  BY RefineStep
<1> QED BY <1>1, <1>2, TypeCorrect, PTL DEF Spec, RefinesContexts, Contexts!Spec, known, ctx

-----------------------------------------------------------------------------
(* Isolation.                                                                    *)

(* Every snapshot, stale ones included, and the live globals are their window's. *)
SnapshotsOwned == \A k \in DOMAIN roots : OwnedBy(k, roots[k])
LiveOwned == \/ OwnedBy(activeRoot, live)
             \/ activeRoot = Null /\ At("activate") /\ OwnedBy(Player, live)


LEMMA EmptyOwned == ASSUME NEW k PROVE OwnedBy(k, EmptyRoot)
  BY DEF OwnedBy, EmptyRoot

(* Switching takes the contexts of two windows apart: what was live is saved     *)
(* under the root it is left from, or adopted when it is nobody's.               *)
LEMMA SwitchOwned ==
    ASSUME TypeOK, SnapshotsOwned, NEW key \in Key, SwitchActiveRoot(key),
           \/ OwnedBy(activeRoot, live)
           \/ activeRoot = Null /\ key = Player /\ OwnedBy(Player, live)
    PROVE  SnapshotsOwned' /\ OwnedBy(key, live')
<1>1. CASE key = activeRoot /\ UNCHANGED <<activeRoot, live, roots>>
  BY <1>1, ConstantsAssumption DEF SnapshotsOwned
<1>2. CASE Adopts(key) /\ activeRoot' = key /\ UNCHANGED <<live, roots>>
  <2>1. SnapshotsOwned'
    BY <1>2 DEF SnapshotsOwned
  <2>2. ASSUME OwnedBy(Null, live) PROVE OwnedBy(key, live)
    <3>1. \A v \in live.registered : v.win # Null
      BY ConstantsAssumption DEF TypeOK, RootData, Widget
    <3> QED BY <2>2, <3>1 DEF OwnedBy
  <2> QED BY <1>2, <2>1, <2>2 DEF Adopts
<1>3. CASE key # activeRoot /\ ~Adopts(key) /\ LoadActiveRoot(SaveActiveRoot, key)
  <2> DEFINE saved == SaveActiveRoot
             data == IF key \in DOMAIN saved THEN saved[key] ELSE EmptyRoot
  <2>1. /\ \A k \in DOMAIN saved : OwnedBy(k, saved[k])
        /\ \A k \in DOMAIN saved : saved[k] \in RootData
    BY DEF SaveActiveRoot, Saved, SnapshotsOwned, TypeOK
  <2>2. OwnedBy(key, data)
    BY <2>1, EmptyOwned
  <2>3. data \in RootData
    BY <2>1 DEF EmptyRoot, RootData, Key
  <2>4. OwnedBy(key, [data EXCEPT !.registered = {}])
    BY <2>2, <2>3 DEF OwnedBy, RootData
  <2> HIDE DEF saved, data
  <2>5. /\ live' = data
        /\ roots' = [k \in DOMAIN saved \cup {key} |->
                        IF k = key THEN [data EXCEPT !.registered = {}] ELSE saved[k]]
    BY <1>3 DEF LoadActiveRoot, saved, data
  <2>6. \A k \in DOMAIN roots' : OwnedBy(k, roots'[k])
    BY <2>1, <2>4, <2>5
  <2> QED BY <2>2, <2>5, <2>6 DEF SnapshotsOwned
<1> QED BY <1>1, <1>2, <1>3 DEF SwitchActiveRoot

(* Every reachable context is its window's own, if every delivery is bracketed.  *)
LEMMA OwnedStep ==
    ASSUME Departures = {}, Discipline, SnapshotsOwned, LiveOwned, [Next]_vars
    PROVE  SnapshotsOwned' /\ LiveOwned'
<1>0. /\ TypeOK /\ ActiveFollows /\ live \in RootData
      /\ \A k \in Key : k \in Window \/ k = Null
  BY DEF Discipline, TypeOK, Key
<1>a. ASSUME NEW s \in Step, At(s)
      PROVE  /\ frames # <<>> /\ Doing = s /\ Top.win \in Window /\ Top.prev \in Key
             /\ ~Top.scoped => Top.win = Player
             /\ s # "activate" => OwnedBy(activeRoot, live)
  <2>1. frames # <<>> /\ Doing = s
    BY <1>a DEF At, Doing, Step
  <2>2. /\ Top.win \in Window /\ Top.prev \in Key
        /\ Len(frames) \in 1..Len(frames) /\ Top = frames[Len(frames)]
    BY <1>0, <2>1, TopFrame DEF TypeOK
  <2>3. ~Top.scoped => Top.win = Player
    BY <2>2 DEF Discipline, Chained
  <2> QED BY <2>1, <2>2, <2>3 DEF LiveOwned, At
<1>b. Doing # "activate" => OwnedBy(activeRoot, live)
  BY DEF LiveOwned, At
<1>1. ASSUME NEW w \in Window, NEW s, Doing \in {"idle", "loop", "run"}, PushScoped(w, s)
      PROVE  SnapshotsOwned' /\ LiveOwned'
  <2>1. w \in Key /\ SwitchActiveRoot(w) /\ activeRoot' = w
    BY <1>1, SwitchRoots DEF PushScoped, Key
  <2> QED BY <1>0, <1>1, <1>b, <2>1, SwitchOwned DEF LiveOwned
<1>2. ASSUME UNCHANGED <<activeRoot, live, roots>>, Doing # "activate"
      PROVE  SnapshotsOwned' /\ LiveOwned'
  BY <1>2, <1>b DEF SnapshotsOwned, LiveOwned
<1>3. ASSUME NEW w \in Window, EnterScoped(w) \/ ResetRuntime(w)
      PROVE  SnapshotsOwned' /\ LiveOwned'
  BY <1>1, <1>3 DEF EnterScoped, ResetRuntime, EventLoop
<1>4. ASSUME NEW w \in Window, EnterBroadcast(w) PROVE FALSE
  BY <1>4 DEF EnterBroadcast
<1>5. ASSUME NEW w \in Window, FindObject(w) PROVE SnapshotsOwned' /\ LiveOwned'
  <2>1. /\ Top.win = activeRoot /\ OwnedBy(activeRoot, live)
        /\ UNCHANGED <<activeRoot, roots>>
    BY <1>0, <1>5, <1>a DEF FindObject, HandlerRuns, ActiveFollows, Step
  <2>2. w = activeRoot
    BY <1>5, <2>1 DEF FindObject, Nameable, OwnedBy
  <2>3. PICK v : v.win = w /\ live' = [live EXCEPT !.registered = @ \cup {v}]
    BY <1>5 DEF FindObject
  <2>4. OwnedBy(activeRoot, live')
    BY <1>0, <2>1, <2>2, <2>3 DEF OwnedBy, RootData
  <2> QED BY <2>1, <2>4 DEF SnapshotsOwned, LiveOwned
<1>6. ASSUME NEW w \in Subwindow, OpenSubwindow(w) \/ CloseSubwindow(w)
      PROVE  SnapshotsOwned' /\ LiveOwned'
  BY <1>1, <1>6 DEF OpenSubwindow, CloseSubwindow, Subwindow
<1>7. ASSUME NEW w \in Subwindow, ReloadSubwindow(w) PROVE FALSE
  BY <1>7 DEF ReloadSubwindow
<1>8. CASE EnterPlayer \/ OpenPlayer \/ ClosePlayer
  BY <1>2, <1>8 DEF EnterPlayer, OpenPlayer, ClosePlayer, At
<1>9. CASE Configure
  <2>1. /\ OwnedBy(activeRoot, live) /\ Top.win \in Window
        /\ ~Top.scoped => Top.win = Player
        /\ activeRoot = Top.win \/ (activeRoot = Null /\ ~Top.scoped)
        /\ GoTo("activate") /\ frames # <<>> /\ UNCHANGED <<activeRoot, roots>>
    BY <1>0, <1>9, <1>a DEF Configure, ActiveFollows, Step
  <2>2. Doing' = "activate"
    BY <1>0, <2>1, GoToStep DEF TypeOK, Step
  <2>3. OwnedBy(Top.win, live')
    <3>1. /\ live'.registered = live.registered /\ live'.layoutRoot = live.layoutRoot
          /\ live'.repaint = Top.win /\ live'.bitmaps = Top.win
      BY <1>0, <1>9 DEF Configure, RootData
    <3>2. activeRoot = Null => live.registered = {}
      BY <1>0, <2>1, ConstantsAssumption DEF OwnedBy, RootData, Widget
    <3> QED BY <2>1, <3>1, <3>2 DEF OwnedBy
  <2> QED BY <2>1, <2>2, <2>3 DEF SnapshotsOwned, LiveOwned, At
<1>10. CASE Activate
  <2>1. /\ Top.win \in Window
        /\ ~Top.scoped => Top.win = Player
        /\ activeRoot = Top.win \/ (activeRoot = Null /\ ~Top.scoped)
        /\ SwitchActiveRoot(Top.win) /\ activeRoot' = Top.win
    BY <1>0, <1>10, <1>a, SwitchRoots DEF Activate, ActiveFollows, Step
  <2>2. Top.win \in Key
    BY <2>1 DEF Key
  <2>3. SnapshotsOwned' /\ OwnedBy(Top.win, live')
    BY <1>0, <2>1, <2>2, SwitchOwned, ConstantsAssumption DEF LiveOwned
  <2> QED BY <2>1, <2>3 DEF LiveOwned
<1>11. CASE LoadScripts
  <2>1. /\ OwnedBy(activeRoot, live) /\ Top.win = activeRoot
        /\ UNCHANGED <<activeRoot, roots>>
    BY <1>0, <1>11, <1>a DEF LoadScripts, ActiveFollows, Step
  <2>2. /\ live'.registered = {Eager(Top.win)} /\ live'.layoutRoot = Top.win
        /\ live'.repaint = live.repaint /\ live'.bitmaps = live.bitmaps
    BY <1>0, <1>11 DEF LoadScripts, ClearWidgetRegistry, RootData
  <2>3. Eager(Top.win).win = Top.win
    BY DEF Eager
  <2>4. OwnedBy(activeRoot, live')
    BY <2>1, <2>2, <2>3 DEF OwnedBy
  <2> QED BY <2>1, <2>4 DEF SnapshotsOwned, LiveOwned
<1>12. CASE ResizeSelf
  <2>1. Doing = "run" /\ Top.win \in Window
    BY <1>12, <1>a DEF ResizeSelf, HandlerRuns, Step
  <2> QED BY <1>1, <1>12, <2>1 DEF ResizeSelf
<1>13. CASE PopupMenu \/ PopupDone
  BY <1>2, <1>13 DEF PopupMenu, PopupDone, HandlerRuns, At
<1>14. CASE Leave
  <2>1. Doing # "activate" /\ OwnedBy(activeRoot, live)
    BY <1>14, <1>b DEF Leave
  <2>2. CASE Top.scoped
    <3>1. SwitchActiveRoot(Top.prev) /\ Top.prev \in Key /\ activeRoot' = Top.prev
      BY <1>14, <1>a, <2>2, SwitchRoots DEF Leave, At, Step
    <3> QED BY <1>0, <2>1, <3>1, SwitchOwned DEF LiveOwned
  <2>3. CASE ~Top.scoped
    BY <1>2, <1>14, <2>1, <2>3 DEF Leave
  <2> QED BY <2>2, <2>3
<1>15. CASE Detach \/ Teardown \/ Reset
  <2>1. OwnedBy(activeRoot, live) /\ UNCHANGED <<activeRoot, roots>>
    BY <1>15, <1>b DEF Detach, Teardown, Reset, DestroyAll, At
  <2>2. /\ live'.registered \subseteq live.registered
        /\ {live'.layoutRoot, live'.repaint, live'.bitmaps}
              \subseteq {live.layoutRoot, live.repaint, live.bitmaps, Null}
    BY <1>0, <1>15 DEF Detach, Teardown, Reset, DestroyAll, ClearWidgetRegistry, RootData
  <2>3. OwnedBy(activeRoot, live')
    BY <2>1, <2>2 DEF OwnedBy
  <2> QED BY <2>1, <2>3 DEF SnapshotsOwned, LiveOwned
<1>16. CASE DropScriptRoot
  <2>1. activeRoot = Top.win
    BY <1>0, <1>16, <1>a DEF DropScriptRoot, ActiveFollows, Step
  <2> QED BY <1>16, <2>1, EmptyOwned DEF DropScriptRoot, SnapshotsOwned, LiveOwned
<1>17. CASE UNCHANGED vars
  BY <1>17 DEF vars, SnapshotsOwned, LiveOwned, At, Doing, Top
<1> QED
  BY <1>3, <1>4, <1>5, <1>6, <1>7, <1>8, <1>9, <1>10, <1>11, <1>12, <1>13, <1>14,
     <1>15, <1>16, <1>17
  DEF Next, Unload, Other, ForWindow, ForSubwindow

LEMMA OwnedIsolated == SnapshotsOwned /\ LiveOwned => Isolation
  BY EmptyOwned DEF SnapshotsOwned, LiveOwned, Isolation, Context

(* If every delivery is bracketed, no window's context, live or saved, ever      *)
(* holds a widget, a callback or a bitmap registry of another window, however    *)
(* brackets, loads and teardowns of the windows interleave.      *)
THEOREM WindowsIsolated ==
    ASSUME Departures = {} PROVE Spec => []Isolation
<1>1. Init => SnapshotsOwned /\ LiveOwned
  BY EmptyOwned DEF Init, SnapshotsOwned, LiveOwned
<1>2. Discipline /\ SnapshotsOwned /\ LiveOwned /\ [Next]_vars
         => SnapshotsOwned' /\ LiveOwned'
  BY OwnedStep
<1> QED BY <1>1, <1>2, OwnedIsolated, DisciplineInvariant, PTL DEF Spec

-----------------------------------------------------------------------------
(* Trees and callbacks.                                                          *)

(* No root is active: there is nothing in the null context, but what the player  *)
(* is being configured with, which it will adopt.                                *)
NullEmpty ==
    /\ NullSaved
    /\ activeRoot = Null => live = EmptyRoot \/ At("activate")
    /\ Doing \in {"configure", "activate"} /\ activeRoot = Null =>
         Player \notin DOMAIN roots

(* The tree the innermost frame has freed and not unregistered yet.              *)
Freed(v) == Doing \in {"activate", "scripts"} /\ v.win = Top.win

Tracked ==
    /\ \A k \in Key : \A v \in Context(k).registered :
          v.win = k /\ (Alive(v) \/ Freed(v))
    /\ \A v \in scriptObj : v \in Context(v.win).registered
    /\ At("drop") => live.registered = {}

(* A window has its callbacks but while the innermost frame loads it or tears it *)
(* down.                                                                         *)
Steady == {"idle", "run", "loop", "reset", "restore", "scripts"}
Good(w, data) == data.repaint = w /\ data.bitmaps = w

Kept ==
    /\ \A w \in Window :
          open[w] /\ (Doing \in Steady \/ w # Top.win) => Good(w, Context(w))
    /\ At("activate") => Good(Top.win, live)

KeptAll == NullEmpty /\ Tracked /\ Kept

(* The swap changes which root is live and nobody's context, when there is       *)
(* nothing to adopt.                                                             *)
LEMMA SwitchContexts ==
    ASSUME TypeOK, NullEmpty, NEW key \in Key, SwitchActiveRoot(key),
           activeRoot = Null => live = EmptyRoot
    PROVE  /\ \A k \in Key : Context(k)' = Context(k)
           /\ activeRoot' = key
           /\ activeRoot' = Null => live' = EmptyRoot
           /\ NullSaved'
<1>1. activeRoot' = key /\ NullSaved /\ NullSaved' /\ Null \in Key
  BY SwitchRoots, SwitchFocus DEF NullEmpty, Key
<1>2. ctx' = ctx
  <2>1. CASE Contexts!Focus(key)
    <3>1. activeRoot = Null => ctx[Null] = EmptyRoot
      BY <1>1 DEF ctx, Context
    <3>2. key \notin known /\ key # Null => ctx[key] = EmptyRoot
      BY DEF ctx, known, Context
    <3>3. key # activeRoot
          /\ ctx' = IF activeRoot # Null THEN ctx
                    ELSE [ctx EXCEPT ![Null] = EmptyRoot,
                                     ![key] = IF key \in known THEN @ ELSE ctx[Null]]
      BY <2>1 DEF Contexts!Focus, ctx, known
    <3> QED BY <1>1, <3>1, <3>2, <3>3 DEF ctx
  <2> QED BY <2>1, SwitchFocus DEF NullEmpty
<1>3. \A k \in Key : Context(k)' = Context(k)
  BY <1>2 DEF ctx
<1>4. activeRoot' = Null => live' = EmptyRoot
  BY <1>1, <1>3 DEF Context, NullSaved
<1> QED BY <1>1, <1>3, <1>4

(* Nothing a bracket enters changes a context.                                   *)
LEMMA EnterKeeps ==
    ASSUME Discipline, KeptAll, Doing \in {"idle", "loop", "run"}, NEW w \in Window,
           NEW s \in {"run", "detach", "reset", "restore"}, PushScoped(w, s),
           UNCHANGED <<scriptObj, open, loads>>
    PROVE  KeptAll'
<1>1. /\ TypeOK /\ w \in Key /\ frames \in Seq(Frame) /\ activeRoot \in Key
      /\ NullEmpty /\ Tracked /\ Kept
  BY DEF Discipline, TypeOK, Key, KeptAll
<1>2. Doing' = s
  <2>1. Call(w, activeRoot, TRUE, s) \in Frame /\ Call(w, activeRoot, TRUE, s).step = s
    BY <1>1 DEF Call, Frame, Step
  <2> QED BY <1>1, <2>1, PushFrame DEF PushScoped
<1>3. /\ \A k \in Key : Context(k)' = Context(k)
      /\ activeRoot' = w
      /\ NullSaved'
  BY <1>1, SwitchContexts DEF PushScoped, NullEmpty, NullSaved, At
<1>4. NullEmpty'
  BY <1>2, <1>3, ConstantsAssumption DEF NullEmpty, NullSaved
<1>5. Tracked'
  <2>1. ASSUME NEW k \in Key, NEW v \in Context(k)'.registered
        PROVE  v.win = k /\ Alive(v)'
    <3>1. v.win = k /\ (Alive(v) \/ Freed(v))
      BY <1>1, <1>3 DEF Tracked
    <3> QED BY <3>1 DEF Freed, Alive
  <2>2. ASSUME NEW v \in scriptObj' PROVE v \in Context(v.win)'.registered
    <3>1. v \in scriptObj /\ v.win \in Key
      BY <1>1 DEF TypeOK, Widget, Key
    <3> QED BY <1>1, <1>3, <3>1 DEF Tracked
  <2> QED BY <1>2, <2>1, <2>2 DEF Tracked, At
<1>6. Kept'
  <2>1. ASSUME NEW v \in Window, open[v] PROVE Good(v, Context(v))
    BY <1>1, <2>1 DEF Kept, Steady
  <2> QED BY <1>2, <1>3, <2>1 DEF Kept, Key, At
<1> QED BY <1>4, <1>5, <1>6 DEF KeptAll

(* A step that leaves the contexts and the trees alone.                          *)
LEMMA StayKeeps ==
    ASSUME Discipline, KeptAll, Doing \in Steady, Doing' \in Steady \ {"scripts"},
           Doing # "scripts",
           UNCHANGED <<activeRoot, live, roots, scriptObj, open, loads>>
    PROVE  KeptAll'
<1>1. \A k \in Key : Context(k)' = Context(k)
  BY DEF Context
<1>2. NullEmpty'
  BY DEF KeptAll, NullEmpty, NullSaved, Steady, At
<1>3. Tracked'
  BY <1>1 DEF KeptAll, Tracked, Steady, At, Alive, Freed, Context
<1>4. Kept'
  BY <1>1 DEF KeptAll, Kept, Steady, At, Key
<1> QED BY <1>2, <1>3, <1>4 DEF KeptAll

LEMMA KeptStep ==
    ASSUME Departures = {}, Discipline, Discipline', KeptAll, [Next]_vars
    PROVE  KeptAll'
<1>0. /\ TypeOK /\ ActiveFollows /\ Chained /\ frames \in Seq(Frame)
      /\ live \in RootData /\ NullEmpty /\ Tracked /\ Kept
      /\ open \in [Window -> BOOLEAN] /\ loads \in [Window -> Nat]
      /\ \A v \in scriptObj : v.win \in Window
  BY DEF Discipline, TypeOK, KeptAll, Widget
<1>a. ASSUME NEW s \in Step, At(s)
      PROVE  /\ frames # <<>> /\ Doing = s /\ Top.win \in Window /\ Top.prev \in Key
             /\ s # "restore" => open[Top.win]
             /\ Top.win # Null /\ Top.win \in Key
  <2>1. frames # <<>> /\ Doing = s
    BY <1>a DEF At, Doing, Step
  <2>2. /\ Top.win \in Window /\ Top.prev \in Key /\ Doing = Top.step
        /\ Len(frames) \in 1..Len(frames) /\ Top = frames[Len(frames)]
    BY <1>0, <2>1, TopFrame
  <2> QED BY <1>0, <2>1, <2>2, ConstantsAssumption DEF Chained, Key
<1>b. ASSUME NEW s \in Step, At(s), NEW t \in Step, GoTo(t)
      PROVE  Doing' = t /\ Top'.win = Top.win
  <2>1. frames # <<>> /\ Top \in Frame
    BY <1>0, <1>a, <1>b, TopFrame
  <2>2. Doing' = t /\ Top' = [Top EXCEPT !.step = t]
    BY <1>0, <1>b, <2>1, GoToStep
  <2> QED BY <2>1, <2>2 DEF Frame
<1>c. ASSUME activeRoot # Null PROVE Context(activeRoot) = live
  BY DEF Context
<1>1. ASSUME NEW w \in Window, EnterScoped(w) \/ ResetRuntime(w) PROVE KeptAll'
  BY <1>1, EnterKeeps DEF EnterScoped, ResetRuntime, EventLoop
<1>2. ASSUME NEW w \in Window, EnterBroadcast(w) PROVE FALSE
  BY <1>2 DEF EnterBroadcast
<1>3. ASSUME NEW w \in Window, FindObject(w) PROVE KeptAll'
  <2>1. /\ Doing = "run" /\ Top.win = activeRoot /\ activeRoot # Null /\ open[activeRoot]
        /\ UNCHANGED <<activeRoot, roots, open, loads, frames>>
    BY <1>0, <1>3, <1>a DEF FindObject, HandlerRuns, ActiveFollows, Step
  <2>2. \A v \in live.registered : v.win = activeRoot
    BY <1>0, <1>c, <2>1 DEF Tracked, TypeOK
  <2>3. w = activeRoot
    BY <1>3, <2>1, <2>2 DEF FindObject, Nameable
  <2>4. PICK n : /\ live' = [live EXCEPT !.registered = @ \cup {n}]
                 /\ scriptObj' = scriptObj \cup {n} /\ n.win = w /\ Alive(n)'
    <3> DEFINE m == [win |-> w, load |-> loads[w], onDemand |-> TRUE]
    <3>1. /\ live' = [live EXCEPT !.registered = @ \cup {m}]
          /\ scriptObj' = scriptObj \cup {m} /\ m.win = w /\ m.load = loads[w]
      BY <1>3 DEF FindObject
    <3>2. open'[w] /\ loads'[w] = loads[w]
      BY <2>1, <2>3
    <3> HIDE DEF m
    <3>3. \A n : n = m => Alive(n)'
      BY <3>1, <3>2 DEF Alive
    <3> QED BY <3>1, <3>3
  <2>5. /\ live'.registered = live.registered \cup {n}
        /\ live'.repaint = live.repaint /\ live'.bitmaps = live.bitmaps
    BY <1>0, <2>4 DEF RootData
  <2>6. \A k \in Key : k # activeRoot => Context(k)' = Context(k)
    BY <2>1 DEF Context
  <2>7. /\ Context(activeRoot)' = live' /\ Doing' = "run"
    BY <2>1 DEF Context, Doing, Top
  <2>8. NullEmpty'
    BY <1>0, <2>1, <2>7 DEF NullEmpty, NullSaved
  <2>9. Tracked'
    <3>1. ASSUME NEW k \in Key, NEW v \in Context(k)'.registered
          PROVE  v.win = k /\ Alive(v)'
      <4>1. CASE v = n /\ k = activeRoot
        BY <2>3, <2>4, <4>1
      <4>2. CASE v \in Context(k).registered
        BY <1>0, <2>1, <4>2 DEF Tracked, Freed, Alive
      <4> QED BY <1>c, <2>1, <2>5, <2>6, <2>7, <3>1, <4>1, <4>2
    <3>2. ASSUME NEW v \in scriptObj' PROVE v \in Context(v.win)'.registered
      BY <1>0, <1>c, <2>1, <2>3, <2>4, <2>5, <2>6, <2>7, <3>2 DEF Tracked, Key
    <3> QED BY <2>7, <3>1, <3>2 DEF Tracked, At
  <2>10. Kept'
    BY <1>0, <1>c, <2>1, <2>5, <2>6, <2>7 DEF Kept, Steady, Key, At, Good
  <2> QED BY <2>8, <2>9, <2>10 DEF KeptAll
<1>4. ASSUME NEW w \in Subwindow, OpenSubwindow(w) PROVE KeptAll'
  <2>1. /\ w \in Window /\ w \in Key /\ w # Null /\ Doing \in {"idle", "loop", "run"}
        /\ ~open[w] /\ open' = [open EXCEPT ![w] = TRUE]
        /\ loads' = [loads EXCEPT ![w] = @ + 1] /\ PushScoped(w, "configure")
        /\ scriptObj' = scriptObj
    BY <1>4, ConstantsAssumption DEF OpenSubwindow, Expand, Subwindow, Key
  <2>2. Doing' = "configure" /\ Top'.win = w
    <3>1. Call(w, activeRoot, TRUE, "configure") \in Frame
      BY <1>0, <2>1 DEF Call, Frame, Step, TypeOK
    <3>2. Call(w, activeRoot, TRUE, "configure").step = "configure"
          /\ Call(w, activeRoot, TRUE, "configure").win = w
      BY DEF Call
    <3> QED BY <1>0, <2>1, <3>1, <3>2, PushFrame DEF PushScoped
  <2>3. /\ \A k \in Key : Context(k)' = Context(k)
        /\ activeRoot' = w
        /\ NullSaved'
    BY <1>0, <2>1, SwitchContexts DEF PushScoped, NullEmpty, NullSaved, At
  <2>4. NullEmpty'
    BY <2>1, <2>3 DEF NullEmpty, NullSaved
  <2>5. \A v \in Window : v # w => open'[v] = open[v] /\ loads'[v] = loads[v]
    BY <1>0, <2>1
  <2>6. Tracked'
    <3>1. ASSUME NEW k \in Key, NEW v \in Context(k)'.registered
          PROVE  v.win = k /\ Alive(v)'
      <4>1. v.win = k /\ Alive(v)
        BY <1>0, <2>1, <2>3 DEF Tracked, Freed
      <4>2. v.win \in Window /\ v.win # w
        <5>1. k = Null => Context(k).registered = {}
          BY <1>0, <2>1 DEF NullEmpty, NullSaved, Context, EmptyRoot, At
        <5> QED BY <2>1, <2>3, <4>1, <5>1 DEF Alive, Key
      <4> QED BY <2>5, <4>1, <4>2 DEF Alive
    <3>2. ASSUME NEW v \in scriptObj' PROVE v \in Context(v.win)'.registered
      BY <1>0, <2>1, <2>3 DEF Tracked, Key
    <3> QED BY <2>2, <3>1, <3>2 DEF Tracked, At
  <2>7. Kept'
    BY <1>0, <2>1, <2>2, <2>3, <2>5 DEF Kept, Steady, Key, At
  <2> QED BY <2>4, <2>6, <2>7 DEF KeptAll
<1>5. ASSUME NEW w \in Subwindow, ReloadSubwindow(w) PROVE FALSE
  BY <1>5 DEF ReloadSubwindow
<1>6. ASSUME NEW w \in Subwindow, CloseSubwindow(w) PROVE KeptAll'
  BY <1>6, EnterKeeps DEF CloseSubwindow, Subwindow
<1>d. ASSUME NEW s \in Step, At("idle"), Player \in Window, Push(Call(Player, Null, FALSE, s))
      PROVE  Doing' = s /\ Top'.win = Player
  <2>1. /\ Call(Player, Null, FALSE, s) \in Frame
        /\ Call(Player, Null, FALSE, s).step = s
        /\ Call(Player, Null, FALSE, s).win = Player
    BY <1>d DEF Call, Frame, Key
  <2> QED BY <1>0, <1>d, <2>1, PushFrame
<1>7. CASE EnterPlayer
  <2>1. Doing' = "run" /\ Doing = "idle"
    BY <1>7, <1>d DEF EnterPlayer, At, Step
  <2> QED BY <1>7, <2>1, StayKeeps DEF EnterPlayer, Steady
<1>8. CASE OpenPlayer
  <2>1. /\ Player \in Window /\ Player \in Key /\ Doing = "idle"
        /\ open' = [open EXCEPT ![Player] = TRUE]
        /\ loads' = [loads EXCEPT ![Player] = @ + 1]
        /\ UNCHANGED <<activeRoot, live, roots, scriptObj>>
        /\ Top'.win = Player
        /\ Doing' = IF open[Player] THEN "activate" ELSE "configure"
    BY <1>8, <1>d DEF OpenPlayer, At, Expand, Key, Step
  <2>2. \A k \in Key : Context(k)' = Context(k)
    BY <2>1 DEF Context
  <2>3. activeRoot = IF open[Player] THEN Player ELSE Null
    BY <1>0, <2>1 DEF ActiveFollows, Rest
  <2>4. \A v \in Window : v # Player => open'[v] = open[v] /\ loads'[v] = loads[v]
    BY <1>0, <2>1
  <2>5. NullEmpty'
    <3>1. Player \in DOMAIN roots => open[Player]
      BY <2>1, ConstantsAssumption DEF Discipline, RootsOpen
    <3> QED BY <1>0, <2>1, <2>3, <3>1, ConstantsAssumption DEF NullEmpty, NullSaved, At
  <2>6. Tracked'
    <3>1. ASSUME NEW k \in Key, NEW v \in Context(k)'.registered
          PROVE  v.win = k /\ (Alive(v)' \/ Freed(v)')
      <4>1. v.win = k /\ Alive(v)
        BY <1>0, <2>1, <2>2 DEF Tracked, Freed
      <4>2. v.win = Player \/ Alive(v)'
        <5>1. k = Null => Context(k).registered = {}
          BY <1>0, <2>1 DEF NullEmpty, NullSaved, Context, EmptyRoot, At
        <5> QED BY <2>2, <2>4, <4>1, <5>1 DEF Alive, Key
      <4>3. v.win = Player => Freed(v)'
        BY <2>1, <4>1 DEF Freed, Alive
      <4> QED BY <4>1, <4>2, <4>3
    <3>2. ASSUME NEW v \in scriptObj' PROVE v \in Context(v.win)'.registered
      BY <1>0, <2>1, <2>2 DEF Tracked, Key
    <3> QED BY <2>1, <3>1, <3>2 DEF Tracked, At
  <2>7. Kept'
    <3>1. open[Player] => Good(Player, live)
      BY <1>0, <2>1, <2>3 DEF Kept, Steady, Context
    <3> QED BY <1>0, <2>1, <2>2, <2>4, <3>1 DEF Kept, Steady, Key, At
  <2> QED BY <2>5, <2>6, <2>7 DEF KeptAll
<1>9. CASE ClosePlayer
  <2>1. Doing' = "detach" /\ Top'.win = Player /\ Doing = "idle"
        /\ UNCHANGED <<activeRoot, live, roots, scriptObj, open, loads>>
    BY <1>9, <1>d DEF ClosePlayer, At, Step
  <2>2. \A k \in Key : Context(k)' = Context(k)
    BY <2>1 DEF Context
  <2>3. NullEmpty'
    BY <1>0, <2>1 DEF NullEmpty, NullSaved, At
  <2>4. Tracked'
    BY <1>0, <2>1, <2>2 DEF Tracked, At, Alive, Freed, Context
  <2>5. Kept'
    BY <1>0, <2>1, <2>2 DEF Kept, Steady, At, Key
  <2> QED BY <2>3, <2>4, <2>5 DEF KeptAll
<1>10. CASE Configure
  <2>1. /\ Doing = "configure" /\ Doing' = "activate" /\ Top'.win = Top.win
        /\ Top.win \in Window /\ open[Top.win]
        /\ UNCHANGED <<activeRoot, roots, scriptObj, open, loads>>
        /\ activeRoot = Top.win \/ activeRoot = Null
    BY <1>0, <1>10, <1>a, <1>b DEF Configure, Step, ActiveFollows
  <2>2. /\ live'.registered = live.registered
        /\ live'.repaint = Top.win /\ live'.bitmaps = Top.win
    BY <1>0, <1>10 DEF Configure, RootData
  <2>3. /\ \A k \in Key : Context(k)'.registered = Context(k).registered
        /\ \A k \in Key : k # activeRoot => Context(k)' = Context(k)
    BY <2>1, <2>2 DEF Context
  <2>4. NullEmpty'
    BY <1>0, <2>1 DEF NullEmpty, NullSaved, At
  <2>5. Tracked'
    <3>1. ASSUME NEW k \in Key, NEW v \in Context(k).registered
          PROVE  v.win = k /\ Alive(v)'
      BY <1>0, <2>1 DEF Tracked, Freed, Alive
    <3>2. ASSUME NEW v \in scriptObj' PROVE v \in Context(v.win)'.registered
      BY <1>0, <2>1, <2>3 DEF Tracked, Key
    <3> QED BY <2>1, <2>3, <3>1, <3>2 DEF Tracked, At
  <2>6. Kept'
    BY <1>0, <2>1, <2>2, <2>3, ConstantsAssumption DEF Kept, Steady, Good, Key, At
  <2> QED BY <2>4, <2>5, <2>6 DEF KeptAll
<1>11. CASE Activate
  <2>1. /\ Doing = "activate" /\ At("activate") /\ Doing' = "scripts" /\ Top'.win = Top.win
        /\ Top.win \in Window /\ Top.win \in Key /\ Top.win # Null
        /\ SwitchActiveRoot(Top.win) /\ UNCHANGED <<scriptObj, open, loads>>
        /\ activeRoot = Top.win \/ (activeRoot = Null /\ ~Top.scoped)
    <3>1. At("activate") /\ GoTo("scripts") /\ {"activate", "scripts"} \subseteq Step
      BY <1>11 DEF Activate, Step
    <3>2. Doing = "activate"
      BY <3>1 DEF At
    <3>3. Doing' = "scripts" /\ Top'.win = Top.win
      <4>1. "activate" \in Step /\ "scripts" \in Step
        BY <3>1
      <4> QED BY <1>b, <3>1, <4>1
    <3>4. Top.win \in Window /\ Top.win \in Key /\ Top.win # Null
      <4>1. "activate" \in Step
        BY <3>1
      <4> QED BY <1>a, <3>1, <4>1
    <3>5. activeRoot = Top.win \/ (activeRoot = Null /\ ~Top.scoped)
      <4>1. Doing \in {"configure", "activate"}
        BY <3>2
      <4> QED BY <1>0, <4>1 DEF ActiveFollows
    <3> QED BY <1>11, <3>1, <3>2, <3>3, <3>4, <3>5 DEF Activate
  <2>2. /\ \A k \in Key : Context(k)'.registered = Context(k).registered
        /\ \A k \in Key : k # Top.win /\ k # Null => Context(k)' = Context(k)
        /\ Context(Top.win)' = live
        /\ activeRoot' = Top.win
        /\ roots' = roots
    <3>1. CASE activeRoot = Top.win
      <4>1. UNCHANGED <<activeRoot, live, roots>>
        BY <2>1, <3>1, ConstantsAssumption DEF SwitchActiveRoot, Adopts
      <4> QED BY <2>1, <3>1, <4>1 DEF Context
    <3>2. CASE activeRoot = Null /\ ~Top.scoped
      <4>1. Top.win = Player /\ Player \notin DOMAIN roots
        <5>1. Len(frames) \in 1..Len(frames) /\ Top = frames[Len(frames)]
          BY <1>0, <1>a, <2>1, TopFrame DEF Step
        <5> QED BY <1>0, <2>1, <3>2, <5>1 DEF Chained, NullEmpty, NullSaved
      <4>2. activeRoot' = Player /\ UNCHANGED <<live, roots>>
        BY <2>1, <3>2, <4>1 DEF SwitchActiveRoot, Adopts
      <4>3. live.registered = {}
        <5>1. \A v \in live.registered : v.win = Null /\ v.win \in Window
          BY <1>0, <3>2 DEF Tracked, Context, Key, RootData, Widget
        <5> QED BY <5>1, ConstantsAssumption
      <4>4. \A k \in Key : k # Player /\ k # Null => Context(k)' = Context(k)
        BY <3>2, <4>2 DEF Context
      <4>5. Context(Player)' = live /\ Context(Player).registered = {}
        BY <2>1, <3>2, <4>1, <4>2 DEF Context, EmptyRoot
      <4>6. Context(Null)'.registered = {} /\ Context(Null) = live
        BY <1>0, <2>1, <3>2, <4>1, <4>2 DEF Context, EmptyRoot, NullEmpty, NullSaved
      <4> QED BY <2>1, <4>1, <4>2, <4>3, <4>4, <4>5, <4>6
    <3> QED BY <2>1, <3>1, <3>2
  <2>3. NullEmpty'
    BY <1>0, <2>1, <2>2 DEF NullEmpty, NullSaved
  <2>4. Tracked'
    <3>1. ASSUME NEW k \in Key, NEW v \in Context(k)'.registered
          PROVE  v.win = k /\ (Alive(v)' \/ Freed(v)')
      BY <1>0, <2>1, <2>2 DEF Tracked, Freed, Alive
    <3>2. ASSUME NEW v \in scriptObj' PROVE v \in Context(v.win)'.registered
      BY <1>0, <2>1, <2>2 DEF Tracked, Key
    <3> QED BY <2>1, <3>1, <3>2 DEF Tracked, At
  <2>5. Kept'
    <3>1. Good(Top.win, live)
      BY <1>0, <2>1 DEF Kept
    <3>2. ASSUME NEW v \in Window, v # Top.win, open[v] PROVE Good(v, Context(v)')
      BY <1>0, <2>2, <3>2, ConstantsAssumption DEF Kept, Key
    <3> QED BY <2>1, <2>2, <3>1, <3>2 DEF Kept, At
  <2> QED BY <2>3, <2>4, <2>5 DEF KeptAll
<1>12. CASE LoadScripts
  <2>1. /\ Doing = "scripts" /\ Doing' = "run" /\ Top'.win = Top.win
        /\ Top.win \in Window /\ Top.win # Null /\ open[Top.win] /\ activeRoot = Top.win
        /\ UNCHANGED <<activeRoot, roots, open, loads>>
        /\ scriptObj' = (scriptObj \ live.registered) \cup {Eager(Top.win)}
    BY <1>0, <1>12, <1>a, <1>b DEF LoadScripts, Step, ActiveFollows
  <2>2. /\ live'.registered = {Eager(Top.win)}
        /\ live'.repaint = live.repaint /\ live'.bitmaps = live.bitmaps
    BY <1>0, <1>12 DEF LoadScripts, ClearWidgetRegistry, RootData
  <2>3. /\ \A k \in Key : k # Top.win => Context(k)' = Context(k)
        /\ Context(Top.win) = live /\ Context(Top.win)' = live'
    BY <2>1 DEF Context
  <2>4. Eager(Top.win).win = Top.win
    BY DEF Eager
  <2>5. \A v : v = Eager(Top.win) => Alive(v)'
    BY <2>1 DEF Eager, Alive
  <2>6. NullEmpty'
    BY <1>0, <2>1 DEF NullEmpty, NullSaved
  <2>7. Tracked'
    <3>1. ASSUME NEW k \in Key, NEW v \in Context(k)'.registered
          PROVE  v.win = k /\ Alive(v)'
      <4>1. CASE k = Top.win
        BY <2>1, <2>2, <2>3, <2>4, <2>5, <3>1, <4>1
      <4>2. CASE k # Top.win
        BY <1>0, <2>1, <2>3, <3>1, <4>2 DEF Tracked, Freed, Alive
      <4> QED BY <4>1, <4>2
    <3>2. ASSUME NEW v \in scriptObj' PROVE v \in Context(v.win)'.registered
      <4>1. CASE v = Eager(Top.win)
        BY <2>1, <2>2, <2>3, <2>4, <4>1
      <4>2. CASE v \in scriptObj /\ v \notin live.registered
        BY <1>0, <2>3, <4>2 DEF Tracked, Key
      <4> QED BY <2>1, <3>2, <4>1, <4>2
    <3> QED BY <2>1, <3>1, <3>2 DEF Tracked, At
  <2>8. Kept'
    BY <1>0, <2>1, <2>2, <2>3 DEF Kept, Steady, Good, Key, At
  <2> QED BY <2>6, <2>7, <2>8 DEF KeptAll
<1>13. CASE ResizeSelf
  <2>1. Doing = "run" /\ Top.win \in Window
    BY <1>13, <1>a DEF ResizeSelf, HandlerRuns, Step
  <2> QED BY <1>13, <2>1, EnterKeeps DEF ResizeSelf
<1>14. CASE PopupMenu \/ PopupDone
  <2>1. Doing \in {"run", "loop"} /\ Doing' \in {"run", "loop"}
    BY <1>14, <1>a, <1>b DEF PopupMenu, PopupDone, HandlerRuns, Step
  <2> QED BY <1>14, <2>1, StayKeeps DEF PopupMenu, PopupDone, Steady
<1>15. CASE Leave
  <2>1. /\ Doing \in {"run", "restore"} /\ frames # <<>> /\ frames' = Front(frames)
        /\ UNCHANGED <<scriptObj, open, loads>>
        /\ Top.prev \in Key
    BY <1>15, <1>a DEF Leave, Doing, At, Step
  <2>2. Doing' \in {"idle", "run", "loop"}
    <3>1. /\ frames' \in Seq(Frame) /\ Len(frames') = Len(frames) - 1
          /\ Len(frames) \in Nat \ {0}
          /\ \A i \in 1..Len(frames') : frames'[i] = frames[i]
      BY <1>0, <2>1, PopFrame
    <3>2. CASE frames' = <<>>
      BY <3>2 DEF Doing
    <3>3. CASE frames' # <<>>
      <4>1. Len(frames') \in 1..Len(frames') /\ Doing' = frames'[Len(frames')].step
        BY <3>1, <3>3 DEF Doing, Top, Last
      <4>2. Len(frames') \in 1..Len(frames) /\ Len(frames') < Len(frames)
        BY <3>1, <4>1
      <4> QED BY <1>0, <3>1, <4>1, <4>2 DEF Chained
    <3> QED BY <3>2, <3>3
  <2>3. CASE ~Top.scoped
    BY <1>15, <2>1, <2>2, <2>3, StayKeeps DEF Leave, Steady
  <2>4. CASE Top.scoped
    <3>1. /\ \A k \in Key : Context(k)' = Context(k)
          /\ activeRoot' = Null => live' = EmptyRoot
          /\ NullSaved'
      BY <1>0, <1>15, <2>1, <2>4, SwitchContexts DEF Leave, NullEmpty, NullSaved, At
    <3>2. NullEmpty'
      BY <2>2, <3>1 DEF NullEmpty, NullSaved
    <3>3. Tracked'
      <4>1. ASSUME NEW k \in Key, NEW v \in Context(k)'.registered
            PROVE  v.win = k /\ Alive(v)'
        BY <1>0, <2>1, <3>1 DEF Tracked, Freed, Alive
      <4>2. ASSUME NEW v \in scriptObj' PROVE v \in Context(v.win)'.registered
        BY <1>0, <2>1, <3>1 DEF Tracked, Key
      <4> QED BY <2>2, <4>1, <4>2 DEF Tracked, At
    <3>4. Kept'
      BY <1>0, <2>1, <2>2, <3>1 DEF Kept, Steady, Key, At
    <3> QED BY <3>2, <3>3, <3>4 DEF KeptAll
  <2> QED BY <2>3, <2>4
<1>16. CASE Detach
  <2>1. /\ Doing = "detach" /\ Doing' = "teardown" /\ Top'.win = Top.win
        /\ Top.win \in Window /\ Top.win # Null /\ activeRoot = Top.win
        /\ UNCHANGED <<activeRoot, roots, scriptObj, open, loads>>
    BY <1>0, <1>16, <1>a, <1>b DEF Detach, Step, ActiveFollows
  <2>2. live'.registered = live.registered
    BY <1>0, <1>16 DEF Detach, RootData
  <2>3. /\ \A k \in Key : Context(k)'.registered = Context(k).registered
        /\ \A k \in Key : k # Top.win => Context(k)' = Context(k)
    BY <2>1, <2>2 DEF Context
  <2>4. NullEmpty'
    BY <1>0, <2>1 DEF NullEmpty, NullSaved
  <2>5. Tracked'
    <3>1. ASSUME NEW k \in Key, NEW v \in Context(k)'.registered
          PROVE  v.win = k /\ Alive(v)'
      BY <1>0, <2>1, <2>3 DEF Tracked, Freed, Alive
    <3>2. ASSUME NEW v \in scriptObj' PROVE v \in Context(v.win)'.registered
      BY <1>0, <2>1, <2>3 DEF Tracked, Key
    <3> QED BY <2>1, <3>1, <3>2 DEF Tracked, At
  <2>6. Kept'
    BY <1>0, <2>1, <2>3 DEF Kept, Steady, Key, At
  <2> QED BY <2>4, <2>5, <2>6 DEF KeptAll
<1>17. CASE Teardown \/ Reset
  <2>1. /\ Doing \in {"teardown", "reset"} /\ Doing' \in {"drop", "restore"}
        /\ Doing = "reset" => Doing' = "restore"
        /\ Doing = "teardown" => Doing' = "drop"
        /\ Top'.win = Top.win
        /\ Top.win \in Window /\ Top.win # Null /\ activeRoot = Top.win
        /\ UNCHANGED <<activeRoot, roots, open, loads>>
        /\ scriptObj' = scriptObj \ live.registered
    BY <1>0, <1>17, <1>a, <1>b DEF Teardown, Reset, DestroyAll, Step, ActiveFollows
  <2>2. /\ live'.registered = {}
        /\ live'.repaint = live.repaint /\ live'.bitmaps = live.bitmaps
    BY <1>0, <1>17 DEF Teardown, Reset, DestroyAll, ClearWidgetRegistry, RootData
  <2>3. /\ \A k \in Key : k # Top.win => Context(k)' = Context(k)
        /\ Context(Top.win) = live /\ Context(Top.win)' = live'
    BY <2>1 DEF Context
  <2>4. NullEmpty'
    BY <1>0, <2>1 DEF NullEmpty, NullSaved
  <2>5. Tracked'
    <3>1. ASSUME NEW k \in Key, NEW v \in Context(k)'.registered
          PROVE  v.win = k /\ Alive(v)'
      BY <1>0, <2>1, <2>2, <2>3 DEF Tracked, Freed, Alive
    <3>2. ASSUME NEW v \in scriptObj' PROVE v \in Context(v.win)'.registered
      BY <1>0, <2>1, <2>2, <2>3 DEF Tracked, Key
    <3> QED BY <2>1, <2>2, <3>1, <3>2 DEF Tracked, At
  <2>6. Kept'
    BY <1>0, <2>1, <2>2, <2>3 DEF Kept, Steady, Good, Key, At
  <2> QED BY <2>4, <2>5, <2>6 DEF KeptAll
<1>18. CASE DropScriptRoot
  <2>1. /\ Doing = "drop" /\ At("drop") /\ Doing' = "restore" /\ Top'.win = Top.win
        /\ Top.win \in Window /\ Top.win # Null /\ activeRoot = Top.win
        /\ scriptObj' = scriptObj /\ loads' = loads
    BY <1>0, <1>18, <1>a, <1>b DEF DropScriptRoot, Step, ActiveFollows
  <2>2. /\ live' = EmptyRoot /\ activeRoot' = Null
        /\ roots' = [k \in DOMAIN roots \ {Top.win} |-> roots[k]]
        /\ open' = [open EXCEPT ![Top.win] = FALSE]
    BY <1>18, <2>1 DEF DropScriptRoot
  <2>3. /\ \A k \in Key : k # Top.win /\ k # Null => Context(k)' = Context(k)
        /\ Context(Top.win)' = EmptyRoot /\ Context(Null)' = EmptyRoot
    BY <2>1, <2>2 DEF Context
  <2>4. NullEmpty'
    BY <1>0, <2>1, <2>2 DEF NullEmpty, NullSaved
  <2>5. \A v \in Window : v # Top.win => open'[v] = open[v]
    BY <1>0, <2>2
  <2>6. Tracked'
    <3>1. ASSUME NEW k \in Key, NEW v \in Context(k)'.registered
          PROVE  v.win = k /\ Alive(v)'
      <4>1. k # Top.win /\ k # Null /\ v \in Context(k).registered
        BY <2>1, <2>3, <3>1 DEF EmptyRoot
      <4>2. v.win = k /\ Alive(v)
        BY <1>0, <2>1, <4>1 DEF Tracked, Freed
      <4> QED BY <2>1, <2>5, <4>1, <4>2 DEF Alive, Key
    <3>2. ASSUME NEW v \in scriptObj' PROVE v \in Context(v.win)'.registered
      <4>1. v \in Context(v.win).registered /\ v.win \in Window
        BY <1>0, <2>1 DEF Tracked
      <4>2. v.win # Top.win
        BY <1>0, <1>c, <2>1, <4>1 DEF Tracked
      <4> QED BY <2>3, <4>1, <4>2, ConstantsAssumption DEF Key
    <3> QED BY <2>1, <3>1, <3>2 DEF Tracked, At
  <2>7. Kept'
    <3>1. ~open'[Top.win]
      BY <1>0, <2>1, <2>2
    <3>2. ASSUME NEW v \in Window, v # Top.win, open[v] PROVE Good(v, Context(v)')
      BY <1>0, <2>3, <3>2, ConstantsAssumption DEF Kept, Key
    <3> QED BY <2>1, <2>5, <3>1, <3>2 DEF Kept, At
  <2> QED BY <2>4, <2>6, <2>7 DEF KeptAll
<1>19. CASE UNCHANGED vars
  BY <1>0, <1>19 DEF vars, KeptAll, NullEmpty, NullSaved, Tracked, Kept, Context, At,
                     Doing, Top, Alive, Freed
<1> QED
  BY <1>1, <1>2, <1>3, <1>4, <1>5, <1>6, <1>7, <1>8, <1>9, <1>10, <1>11, <1>12, <1>13,
     <1>14, <1>15, <1>16, <1>17, <1>18, <1>19
  DEF Next, Unload, Other, ForWindow, ForSubwindow


LEMMA InitKept == Init => KeptAll
<1> SUFFICES ASSUME Init PROVE KeptAll
  OBVIOUS
<1>1. /\ Doing = "idle" /\ activeRoot = Null /\ live = EmptyRoot /\ DOMAIN roots = {}
      /\ scriptObj = {} /\ \A w \in Window : ~open[w]
  BY DEF Init, Doing
<1>2. \A k : Context(k) = EmptyRoot
  BY <1>1 DEF Context
<1> QED BY <1>1, <1>2 DEF KeptAll, NullEmpty, NullSaved, Tracked, Kept, EmptyRoot, At

LEMMA KeptInvariant == ASSUME Departures = {} PROVE Spec => []KeptAll
<1>1. Discipline /\ Discipline' /\ KeptAll /\ [Next]_vars => KeptAll'
  BY KeptStep
<1> QED BY <1>1, InitKept, DisciplineInvariant, PTL DEF Spec

LEMMA KeptLiving == Discipline /\ KeptAll => NoDanglingWidget
<1> SUFFICES ASSUME Discipline, KeptAll, HandlerRuns PROVE NoDanglingWidget
  BY DEF NoDanglingWidget
<1>1. \A k \in Key : \A v \in Context(k).registered : Alive(v)
  BY DEF KeptAll, Tracked, Freed, HandlerRuns, At
<1>2. \A v \in scriptObj : v \in Context(v.win).registered /\ v.win \in Key
  BY DEF KeptAll, Tracked, Discipline, TypeOK, Widget, Key
<1> QED BY <1>1, <1>2 DEF NoDanglingWidget

(* If every delivery is bracketed, no handler finds a widget of a tree that was  *)
(* freed: neither in the registry of any window, which the walks of              *)
(* fireStaticTextChanged go over, nor behind a script object.                    *)
THEOREM NothingDangles == ASSUME Departures = {} PROVE Spec => []NoDanglingWidget
<1> QED BY KeptLiving, KeptInvariant, DisciplineInvariant, PTL

(* If every delivery is bracketed, a window that is up and not being loaded or   *)
(* torn down keeps the callbacks it was configured with.                         *)
THEOREM NobodyLoses == ASSUME Departures = {} PROVE Spec => []NothingLost
<1>1. ASSUME Discipline, KeptAll PROVE NothingLost
  <2>1. ASSUME NEW w \in Window, Doing \notin Steady, w = Top.win PROVE InTransit(w)
    <3>1. frames # <<>> /\ frames \in Seq(Frame)
      BY <1>1, <2>1 DEF Discipline, TypeOK, Doing, Steady
    <3>2. Len(frames) \in 1..Len(frames) /\ Top = frames[Len(frames)] /\ Doing = Top.step
          /\ Doing \in Step
      BY <3>1, TopFrame
    <3> QED BY <2>1, <3>2 DEF InTransit, Steady, Step
  <2> QED BY <1>1, <2>1 DEF NothingLost, KeptAll, Kept, Good
<1> QED BY <1>1, KeptInvariant, DisciplineInvariant, PTL
-----------------------------------------------------------------------------
(* Timers over the script roots, for any windows, timers, nesting and loads, in  *)
(* sessions in which every delivery is bracketed (Departures = {}): a timer that *)
(* ticks is its maker's window's, so its tick keeps the bracketing discipline,   *)
(* and the contexts stay as they are without timers.                             *)

TimersOwned ==
    /\ timer \in [Timer -> TimerData]
    /\ \A t \in Timer :
          timer[t].started => timer[t].owner = timer[t].home /\ timer[t].home # Null

Contained == SnapshotsOwned /\ LiveOwned /\ KeptAll

AllHome == Discipline /\ Contained /\ TimersOwned

-----------------------------------------------------------------------------
(* The handler that runs is the active root's.                                   *)
LEMMA HandlerHome ==
    ASSUME Discipline, HandlerRuns
    PROVE  activeRoot = Top.win /\ Top.win \in Window /\ Top.win # Null
<1>1. Doing = "run" /\ frames # <<>> /\ frames \in Seq(Frame)
  BY DEF HandlerRuns, At, Doing, Discipline, TypeOK
<1> QED BY <1>1, TopFrame, ConstantsAssumption DEF Discipline, ActiveFollows

(* A tick that finds its script gone enters and leaves its window's root.        *)
IdleTick(w) ==
    /\ Doing \in {"idle", "loop", "run"}
    /\ open[w]
    /\ PushScoped(w, "restore")
    /\ UNCHANGED <<scriptObj, open, loads>>

(* A tick is ignored, or it is an event of the window whose script made the      *)
(* timer, and that window is up.                                                 *)
LEMMA TickAtHome ==
    ASSUME Discipline, TimersOwned, NEW t \in Timer, Timeout(t)
    PROVE  UNCHANGED vars \/ \E w \in Window : EnterScoped(w) \/ IdleTick(w)
<1> DEFINE w == timer[t].home
<1>1. /\ timer[t] \in TimerData /\ timer[t].started /\ EventLoop
      /\ timer[t].owner = w /\ w # Null
  BY DEF TimersOwned, Timeout, Due
<1>2. w \in Window
  BY <1>1 DEF TimerData, Key
<1> HIDE DEF w
<1>3. SUFFICES ASSUME ~DeadOwner(t), Fire(t)
               PROVE  \E v \in Window : EnterScoped(v) \/ IdleTick(v)
  BY DEF Timeout
<1>4. open[w]
  <2>1. w = activeRoot \/ w \in DOMAIN roots
    BY <1>1, <1>3 DEF DeadOwner
  <2> QED BY <1>1, <2>1, ActiveOpen DEF Discipline, RootsOpen
<1>5. /\ Room /\ SwitchActiveRoot(w) /\ UNCHANGED <<scriptObj, open, loads>>
      /\ Push(Call(w, activeRoot, TRUE, IF Bound(t) THEN "run" ELSE "restore"))
  BY <1>1, <1>3 DEF Fire, w
<1>6. CASE Bound(t)
  <2>1. Loaded(w)
    BY <1>6 DEF Bound, w
  <2>2. EnterScoped(w)
    BY <1>1, <1>5, <1>6, <2>1 DEF EnterScoped, PushScoped
  <2> QED BY <1>2, <2>2
<1>7. CASE ~Bound(t)
  <2>1. IdleTick(w)
    BY <1>1, <1>4, <1>5, <1>7 DEF IdleTick, PushScoped, EventLoop
  <2> QED BY <1>2, <2>1
<1> QED BY <1>6, <1>7

(* Seen from the roots, a session with timers is one without, but for ticks      *)
(* that find their script gone.                                                  *)
LEMMA TimerStep ==
    ASSUME Discipline, TimersOwned, [TimerNext]_timerVars
    PROVE  [Next]_vars \/ \E w \in Window : IdleTick(w)
<1>1. CASE (Other /\ UNCHANGED timer) \/ UnloadTimers
  BY <1>1 DEF UnloadTimers, Next
<1>2. ASSUME NEW t \in Timer, ScriptStep(t) PROVE UNCHANGED vars
  BY <1>2 DEF ScriptStep, NewTimer, Start, SetDelay, Stop, Delete
<1>3. ASSUME NEW t \in Timer, Timeout(t)
      PROVE  [Next]_vars \/ \E w \in Window : IdleTick(w)
  BY <1>3, TickAtHome DEF Next, Other, ForWindow
<1>4. CASE UNCHANGED timerVars
  BY <1>4 DEF timerVars, vars
<1> QED BY <1>1, <1>2, <1>3, <1>4 DEF TimerNext

-----------------------------------------------------------------------------
LEMMA DisciplineHolds ==
    ASSUME Departures = {}, Discipline, TimersOwned, [TimerNext]_timerVars
    PROVE  Discipline'
<1>1. CASE [Next]_vars
  <2>1. TypeOK'
    BY <1>1, TypeStep DEF Discipline
  <2> QED BY <1>1, <2>1, DisciplineStep
<1>2. ASSUME NEW w \in Window, IdleTick(w) PROVE Discipline'
  <2>1. /\ TypeOK /\ w \in Key /\ frames \in Seq(Frame) /\ activeRoot \in Key
        /\ SwitchActiveRoot(w) /\ Push(Call(w, activeRoot, TRUE, "restore"))
        /\ UNCHANGED <<scriptObj, open, loads>> /\ open'[w]
    BY <1>2 DEF Discipline, TypeOK, Key, IdleTick, PushScoped
  <2>2. Call(w, activeRoot, TRUE, "restore") \in Frame
    BY <2>1 DEF Call, Frame, Step
  <2>3. TypeOK'
    BY <2>1, <2>2, PushFrame, SwitchType DEF TypeOK
  <2>4. Rest' = Rest
    BY <2>1 DEF Rest
  <2>5. (Chained /\ TeardownAlone /\ ActiveFollows /\ RootsOpen)'
    BY <1>2, <2>1, <2>4, EnterDiscipline DEF IdleTick
  <2> QED BY <2>3, <2>5 DEF Discipline
<1> QED BY <1>1, <1>2, TimerStep

LEMMA ContextsHold ==
    ASSUME Departures = {}, Discipline, Discipline', Contained, TimersOwned,
           [TimerNext]_timerVars
    PROVE  Contained'
<1>1. CASE [Next]_vars
  BY <1>1, OwnedStep, KeptStep DEF Contained
<1>2. ASSUME NEW w \in Window, IdleTick(w) PROVE Contained'
  <2>1. KeptAll'
    BY <1>2, EnterKeeps DEF Contained, IdleTick
  <2>2. SnapshotsOwned' /\ LiveOwned'
    <3>1. /\ w \in Key /\ SwitchActiveRoot(w) /\ activeRoot' = w /\ TypeOK
          /\ OwnedBy(activeRoot, live)
      BY <1>2, SwitchRoots DEF IdleTick, PushScoped, Key, Contained, LiveOwned, At, Discipline
    <3> QED BY <3>1, SwitchOwned DEF LiveOwned, Contained
  <2> QED BY <2>1, <2>2 DEF Contained
<1> QED BY <1>1, <1>2, TimerStep

(* A timer is armed by its own window's handlers only, and those run at home.    *)
LEMMA OwnersHold ==
    ASSUME Discipline, TimersOwned, [TimerNext]_timerVars
    PROVE  TimersOwned'
<1>0. timer \in [Timer -> TimerData] /\ activeRoot \in Key /\ loads \in [Window -> Nat]
  BY DEF TimersOwned, Discipline, TypeOK
<1>1. ASSUME UNCHANGED timer PROVE TimersOwned'
  BY <1>1 DEF TimersOwned
<1>2. ASSUME NEW t \in Timer, NEW r \in TimerData, timer' = [timer EXCEPT ![t] = r],
             r.started => r.owner = r.home /\ r.home # Null
      PROVE  TimersOwned'
  BY <1>0, <1>2 DEF TimersOwned
<1>3. ASSUME NEW r \in TimerData
      PROVE  /\ Killed(r) \in TimerData /\ ~Killed(r).started
             /\ Stopped(r) \in TimerData /\ ~Stopped(r).started
             /\ Armed(r) \in TimerData /\ Armed(r).owner = activeRoot
             /\ Armed(r).home = r.home
  BY <1>0 DEF Killed, Stopped, Armed, TimerData, Key
<1>4. CASE UnloadTimers
  <2>1. PICK gone \in SUBSET Timer :
           timer' = [t \in Timer |-> IF t \in gone THEN Killed(timer[t]) ELSE timer[t]]
    BY <1>4 DEF UnloadTimers
  <2> QED BY <1>0, <1>3, <2>1 DEF TimersOwned
<1>5. ASSUME NEW t \in Timer, ScriptStep(t) PROVE TimersOwned'
  <2>0. timer[t] \in TimerData
    BY <1>0
  <2>1. HandlerRuns
    BY <1>5 DEF ScriptStep, NewTimer, Start, SetDelay, Stop, Delete, OwnTimer
  <2>2. activeRoot = Top.win /\ Top.win \in Window /\ Top.win # Null
    BY <2>1, HandlerHome
  <2>3. CASE NewTimer(t)
    <3>1. ~timer[t].started
      BY <2>3 DEF NewTimer, TimersOwned
    <3> DEFINE r == [timer[t] EXCEPT !.home = Top.win, !.load = loads[Top.win]]
    <3>2. r \in TimerData /\ ~r.started
      BY <1>0, <2>0, <2>2, <3>1 DEF TimerData, Key
    <3>3. timer' = [timer EXCEPT ![t] = r]
      BY <1>0, <2>3 DEF NewTimer
    <3> QED BY <1>2, <3>2, <3>3
  <2>4. CASE Start(t) \/ SetDelay(t)
    <3>1. timer[t].home = Top.win
      BY <2>4 DEF Start, SetDelay, OwnTimer
    <3>2. CASE timer' = [timer EXCEPT ![t] = Armed(timer[t])]
      BY <1>2, <1>3, <2>0, <2>2, <3>1, <3>2
    <3>3. CASE timer' = [timer EXCEPT ![t] = timer[t]]
      BY <1>0, <1>1, <3>3
    <3> QED BY <2>4, <3>2, <3>3 DEF Start, SetDelay
  <2>5. CASE Stop(t) \/ Delete(t)
    BY <1>2, <1>3, <2>0, <2>5 DEF Stop, Delete
  <2> QED BY <1>5, <2>3, <2>4, <2>5 DEF ScriptStep
<1>6. ASSUME NEW t \in Timer, Timeout(t) PROVE TimersOwned'
  BY <1>0, <1>1, <1>2, <1>3, <1>6 DEF Timeout, Fire
<1>7. CASE UNCHANGED timerVars
  BY <1>1, <1>7 DEF timerVars
<1> QED BY <1>1, <1>4, <1>5, <1>6, <1>7 DEF TimerNext

LEMMA AllHomeInvariant == ASSUME Departures = {} PROVE TimerSpec => []AllHome
<1>1. TimerInit => AllHome
  <2>1. Init => Contained
    BY InitKept, EmptyOwned DEF Init, Contained, SnapshotsOwned, LiveOwned
  <2>2. TimerInit => TimersOwned
    BY DEF TimerInit, NoTimer, TimersOwned, TimerData, Key
  <2> QED BY InitDiscipline, <2>1, <2>2 DEF TimerInit, AllHome
<1>2. AllHome /\ [TimerNext]_timerVars => AllHome'
  BY DisciplineHolds, ContextsHold, OwnersHold DEF AllHome
<1> QED BY <1>1, <1>2, PTL DEF TimerSpec

-----------------------------------------------------------------------------
(* A timer that ticks belongs to the window whose script made it, however often  *)
(* and wherever it was armed, re-armed or restarted (wq_timer_arm).              *)
THEOREM OwnersAreHome == ASSUME Departures = {} PROVE TimerSpec => []OwnerIsHome
<1>1. AllHome => OwnerIsHome
  BY DEF AllHome, TimersOwned, OwnerIsHome
<1> QED BY <1>1, AllHomeInvariant, PTL

(* With timers ticking in every event loop, scripts still run under their own    *)
(* window's root.                                                                *)
THEOREM TicksRunHome == ASSUME Departures = {} PROVE TimerSpec => []HandlersRunHome
<1>1. AllHome => HandlersRunHome
  BY HandlerHome DEF AllHome, HandlersRunHome
<1> QED BY <1>1, AllHomeInvariant, PTL

(* Nor does a tick mix the contexts of two windows.                              *)
THEOREM TicksIsolated == ASSUME Departures = {} PROVE TimerSpec => []Isolation
<1>1. AllHome => Isolation
  BY OwnedIsolated DEF AllHome, Contained
<1> QED BY <1>1, AllHomeInvariant, PTL

(* Whatever ticks, no handler finds a widget of a tree that was freed.           *)
THEOREM TicksFindTheLiving ==
    ASSUME Departures = {} PROVE TimerSpec => []NoDanglingWidget
<1>1. AllHome => NoDanglingWidget
  BY KeptLiving DEF AllHome, Contained
<1> QED BY <1>1, AllHomeInvariant, PTL
=============================================================================
