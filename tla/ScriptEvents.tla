---------------------------- MODULE ScriptEvents ----------------------------
(* Script loading, the transport pump and the Config service on one GUI thread:  *)
(* a handler of any event may set attributes, whose listeners run inside it,     *)
(* open a popup menu, whose loop lets the pump and the timers in, or load and    *)
(* unload other windows' scripts.                                                *)
EXTENDS ConfigAttributes, TransportPump

vars == <<dispatchVars, configVars, pumpVars>>

Init == DispatchInit /\ ConfigInit /\ PumpInit

-----------------------------------------------------------------------------
(* A script handles onDataChanged of the attribute its variable is assigned to,   *)
(* and every other event of its own objects; a popup loop handles nothing.        *)
Handles(s) ==
    /\ Contains(table, s)
    /\ Top.event = "onDataChanged" => bound[s] = Top.key

Fire ==
    /\ ~Resting
    /\ ~Running
    /\ FireNext(Handles)
    /\ Hear(Top.event, Top.key, current')
    /\ Told(Top.event, current')
    /\ UNCHANGED <<scoped, byName, value, prefs, bound, missed, last>>

End ==
    /\ ~Resting
    /\ ~Running
    /\ EndDispatch(Handles)
    /\ UNCHANGED <<configVars, pumpVars>>

(* Unloaded scripts are gone from the event table: loaded again they have other   *)
(* ids, and neither their bindings nor what they were told.                       *)
Load(r) == LoadRuntime(r) /\ UNCHANGED <<configVars, pumpVars>>

Forget(f, r, none) ==
    [s \in Script |-> IF s \in ToSet(ScriptsOf[r]) THEN none ELSE f[s]]

Unload(r) ==
    /\ DestroyAll(r)
    /\ bound' = Forget(bound, r, NoKey)
    /\ heard' = Forget(heard, r, Empty)
    /\ told' = Forget(told, r, "none")
    /\ missed' = missed \cup {frames[i].key : i \in Derailed(r)}
    /\ UNCHANGED <<scoped, byName, value, prefs, last>>

Handler ==
    /\ Running
    /\ \/ \E k \in Key : NewAttribute(Top.who, k) \/ GetAttribute(Top.who, k)
       \/ \E a \in DOMAIN value, v \in Value \cup {Empty} : SetData(a, v)
    /\ UNCHANGED pumpVars

(* The process ends, in the middle of anything, and starts again: the store and   *)
(* nothing else survives.                                                        *)
Restart ==
    /\ frames' = <<>> /\ table' = <<>> /\ live' = {} /\ current' = NoScript
    /\ scoped' = <<>> /\ byName' = <<>> /\ value' = <<>> /\ missed' = {}
    /\ bound' = [s \in Script |-> NoKey]
    /\ heard' = [s \in Script |-> Empty]
    /\ told' = [s \in Script |-> "none"]
    /\ last' = Stopped
    /\ UNCHANGED prefs

Next ==
    \/ \E r \in Runtime : Load(r) \/ Unload(r)
    \/ (\E s \in Script : Input(s)) /\ UNCHANGED <<configVars, pumpVars>>
    \/ (OpenPopup \/ Return) /\ UNCHANGED <<configVars, pumpVars>>
    \/ Fire
    \/ End
    \/ Handler
    \/ Pump /\ UNCHANGED configVars
    \/ Restart

Spec == Init /\ [][Next]_vars

-----------------------------------------------------------------------------
(* The types, and: what a loop still has to call is loaded, and every handler that *)
(* is on the stack is a loaded script's, but for the loops of popup menus.        *)
EventsTypeOK ==
    /\ live \subseteq Runtime
    /\ table \in Seq(Script) /\ IsInjective(table)
    /\ current \in Script \cup {NoScript}
    /\ \A i \in DOMAIN frames :
          /\ ToSet(frames[i].queue) \subseteq ToSet(table)
          /\ frames[i].who \in ToSet(table) \cup {NoScript}
          /\ i < Len(frames) =>
                frames[i].who # NoScript \/ frames[i].event = "loop"
    /\ DOMAIN scoped \subseteq Key /\ ToSet(scoped) \subseteq DOMAIN value
    /\ DOMAIN value \subseteq Declared
    /\ \A a \in DOMAIN value : value[a] \in Value => prefs[a] \in {Empty, value[a]}
    /\ last \in Status

(* Every script has been told the last edge between two runs of the pump          *)
(* (AllTold), and no loop that fires events ever comes to a script that was       *)
(* unloaded while it ran: handlers load and unload scripts, and the loops go over  *)
(* what they fixed before the first of them.                                     *)
ScriptsTold == EventsTypeOK /\ AllTold
=============================================================================
