----------------------------- MODULE MakiTimers -----------------------------
(* Maki Timer objects (wq_timer_* of SkinRuntimeBridge.cpp) over the script      *)
(* roots: a script arms a QTimer, which ticks later from whatever event loop     *)
(* runs then, under whatever root is active then, after the script or its window *)
(* may be gone.                                                                  *)
EXTENDS ScriptRoots

CONSTANTS Timer       \* the Timer objects a session makes

VARIABLES timer       \* Timer -> TimerData

timerVars == <<activeRoot, live, roots, scriptObj, open, loads, frames, timer>>

(* "home" and "load" tell whose script made the timer (Null: nobody yet).  The    *)
(* QTimer is made by the first arm; "started" is membership in g_timerStarted,   *)
(* "owner" the entry of g_timerRoot, Null when there is none.                    *)
TimerData == [home : Key, load : Nat, qtimer : {"none", "stopped", "running"},
              started : BOOLEAN, owner : Key]

NoTimer == [home |-> Null, load |-> 0, qtimer |-> "none", started |-> FALSE,
            owner |-> Null]

TimerInit == Init /\ timer = [t \in Timer |-> NoTimer]

-----------------------------------------------------------------------------
(* What a script does with its timers.                                           *)

OwnTimer(t) ==
    /\ HandlerRuns
    /\ timer[t].home = Top.win
    /\ timer[t].load = loads[Top.win]

NewTimer(t) ==
    /\ HandlerRuns
    /\ timer[t].home = Null
    /\ timer' = [timer EXCEPT ![t].home = Top.win, ![t].load = loads[Top.win]]
    /\ UNCHANGED vars

(* Mutant: the timer's owner is not recorded.                                    *)
ArmedUnowned(r) == [r EXCEPT !.qtimer = "running", !.started = TRUE]

(* wq_timer_arm: the owner is recorded again on every arm.                       *)
Armed(r) == [r EXCEPT !.owner = activeRoot, !.qtimer = "running", !.started = TRUE]

(* wq_timer_stop keeps the QTimer and the owner.                                 *)
Stopped(r) == [r EXCEPT !.started = FALSE,
                        !.qtimer = IF @ = "none" THEN @ ELSE "stopped"]

(* wq_timer_kill.                                                                *)
Killed(r) == [r EXCEPT !.qtimer = "none", !.started = FALSE, !.owner = Null]

Start(t) ==
    /\ OwnTimer(t)
    /\ timer' = [timer EXCEPT ![t] = Armed(@)]
    /\ UNCHANGED vars

(* setDelay records the period, and arms a timer that is already started.        *)
SetDelay(t) ==
    /\ OwnTimer(t)
    /\ timer' = [timer EXCEPT ![t] = IF @.started THEN Armed(@) ELSE @]
    /\ UNCHANGED vars

Stop(t) ==
    /\ OwnTimer(t)
    /\ timer' = [timer EXCEPT ![t] = Stopped(@)]
    /\ UNCHANGED vars

(* "delete timer" in the script: the script object stays, the QTimer goes.       *)
Delete(t) ==
    /\ OwnTimer(t)
    /\ timer' = [timer EXCEPT ![t] = Killed(@)]
    /\ UNCHANGED vars

(* destroyAll has no teardown of timers: which of the unloaded scripts' timers    *)
(* the VM's removeScript destroys is the VM's business.                          *)
UnloadTimers ==
    /\ Unload
    /\ \E gone \in SUBSET {t \in Timer : timer[t].home = Top.win} :
          timer' = [t \in Timer |-> IF t \in gone THEN Killed(timer[t]) ELSE timer[t]]

-----------------------------------------------------------------------------
(* The timeout callback.                                                         *)

Due(t) == EventLoop /\ timer[t].qtimer = "running" /\ timer[t].started

(* The owner recorded for the timer is a root nobody knows any more.             *)
DeadOwner(t) ==
    /\ timer[t].owner \notin {Null, activeRoot}
    /\ timer[t].owner \notin DOMAIN roots

(* onTimer is bound as long as the script that made the timer is loaded.         *)
Bound(t) == Loaded(timer[t].home) /\ timer[t].load = loads[timer[t].home]

Fire(t) ==
    /\ Room
    /\ Push(Call(timer[t].home, activeRoot, TRUE,
                 IF Bound(t) THEN "run" ELSE "restore"))
    /\ SwitchActiveRoot(IF timer[t].owner = Null THEN activeRoot ELSE timer[t].owner)
    /\ UNCHANGED <<scriptObj, open, loads, timer>>

(* Mutant: the tick of a dead window's timer is skipped and the timer kept.      *)
TimeoutSkipping(t) == Due(t) /\ ~DeadOwner(t) /\ Fire(t)

Timeout(t) ==
    /\ Due(t)
    /\ \/ /\ DeadOwner(t)
          /\ timer' = [timer EXCEPT ![t] = Killed(@)]
          /\ UNCHANGED vars
       \/ /\ ~DeadOwner(t)
          /\ Fire(t)

-----------------------------------------------------------------------------
ScriptStep(t) == NewTimer(t) \/ Start(t) \/ SetDelay(t) \/ Stop(t) \/ Delete(t)

TimerNext ==
    \/ Other /\ UNCHANGED timer
    \/ UnloadTimers
    \/ \E t \in Timer : ScriptStep(t) \/ Timeout(t)

TimerSpec == TimerInit /\ [][TimerNext]_timerVars

(* The GUI thread finishes what it has begun, and every handler returns after    *)
(* finitely many nested deliveries; an event loop that keeps coming back         *)
(* delivers a timer that keeps running.  No user input is taken to be fair.      *)
Finish ==
    \/ UnloadTimers
    \/ (Configure \/ Activate \/ Detach \/ DropScriptRoot) /\ UNCHANGED timer

Return(depth) == Len(frames) = depth /\ Leave /\ UNCHANGED timer

FairTimerSpec ==
    /\ TimerSpec
    /\ WF_timerVars(Finish)
    /\ \A depth \in 1..MaxFrames : SF_timerVars(Return(depth))
    /\ \A t \in Timer : SF_timerVars(Timeout(t))

-----------------------------------------------------------------------------
(* Properties.                                                                   *)

(* A timer that ticks belongs to the window whose script made it, whatever root  *)
(* was active when it was armed, re-armed or restarted.                          *)
OwnerIsHome ==
    \A t \in Timer : timer[t].started => timer[t].owner = timer[t].home

(* A timer left ticking by a window that is gone is killed, unless a window with *)
(* the same root comes up first (the zombie guard of the timeout callback).      *)
Orphan(t) == timer[t].started /\ ~open[timer[t].home]
ZombiesReaped == \A t \in Timer : Orphan(t) ~> ~Orphan(t)
=============================================================================
