--------------------------- MODULE ScriptDispatch ---------------------------
(* Events into Maki scripts (maki-bridge.cpp, widget-script-object.cpp and the   *)
(* dispatch loops of SkinRuntime.cpp): the scripts the VM holds, the dispatches  *)
(* in flight, one inside another, and the script the VM takes to be running.     *)
(* The bytecode is external: a handler is a script's name on the stack, and what *)
(* it may do is the choice of the modules that extend this one.                  *)
EXTENDS Naturals, Sequences, SequencesExt, FiniteSets

CONSTANTS Script,       \* the script instances of the skin
          NoScript,
          Runtime,      \* the windows' SkinRuntimes
          ScriptsOf,    \* Runtime -> Seq(Script): loadedScripts, in which a
                        \* reference that is repeated repeats its instance
          NoKey,        \* the object of an event that is not about an attribute
          MaxFrames     \* dispatches and popup loops inside one another

(* The ids of the scripts are handed out once (assignNewScriptId): no two         *)
(* runtimes hold the same.                                                       *)
ASSUME DispatchAssumption ==
    /\ NoScript \notin Script
    /\ ScriptsOf \in [Runtime -> Seq(Script)]
    /\ \A r, q \in Runtime : r # q => ToSet(ScriptsOf[r]) \cap ToSet(ScriptsOf[q]) = {}
    /\ MaxFrames \in Nat \ {0}

VARIABLES live,         \* the runtimes that hold scripts
          table,        \* the scripts in the VM's tables, in load order
          current,      \* g_currentScript
          frames        \* the dispatches in flight, innermost last

dispatchVars == <<live, table, current, frames>>

(* A loop over a runtime's scripts has them in "queue", those it has still to look *)
(* at.  A walk of the event table goes by index: it looks at the entries from     *)
(* "next" to "limit", the length at its start, of the table as it is then.  "who"  *)
(* is the script whose handler runs now.  A popup menu's event loop is a frame of  *)
(* its own.                                                                      *)
Frame(event, key, queue) ==
    [event |-> event, key |-> key, queue |-> queue, next |-> 1, limit |-> 0, who |-> NoScript]
Walk(event, key) == [Frame(event, key, <<>>) EXCEPT !.limit = Len(table)]

DispatchInit ==
    /\ live = {}
    /\ table = <<>>
    /\ current = NoScript
    /\ frames = <<>>

-----------------------------------------------------------------------------
Top == Last(frames)
Resting == frames = <<>>
Running == ~Resting /\ Top.who # NoScript
EventLoop == IF Resting THEN TRUE ELSE Top.event = "loop"
Room == Len(frames) < MaxFrames
InFlight(event) == \E i \in DOMAIN frames : frames[i].event = event

(* What a dispatch has still to look at.                                         *)
Entries(f) == {i \in DOMAIN table : f.next <= i /\ i <= f.limit}
Ahead(f) == ToSet(f.queue) \cup {table[i] : i \in Entries(f)}

(* A loop that is still to call a script of r, or a handler of r that runs.       *)
Uses(r) ==
    \E i \in DOMAIN frames : \E s \in ToSet(ScriptsOf[r]) :
        s = frames[i].who \/ s \in ToSet(frames[i].queue)

Push(frame) == frames' = Append(frames, frame)
Pop == frames' = Front(frames)

-----------------------------------------------------------------------------
(* Loading and unloading.                                                        *)

(* A repeated (file, param, owner) is loaded into the VM once: what is seen after *)
(* n references.                                                                 *)
Distinct(scripts) ==
    LET seen[n \in 0..Len(scripts)] ==
          IF n = 0 THEN <<>>
          ELSE IF Contains(seen[n - 1], scripts[n]) THEN seen[n - 1]
          ELSE Append(seen[n - 1], scripts[n])
    IN  seen[Len(scripts)]

(* Walks in flight that have passed an entry of r: when it goes, the entries      *)
(* behind it move up and as many are skipped.                                    *)
Derailed(r) ==
    {i \in DOMAIN frames :
        \E j \in DOMAIN table : j < frames[i].next /\ table[j] \in ToSet(ScriptsOf[r])}

(* The VM's tables when the scripts in gone are removed.                          *)
Without(scripts, gone) ==
    LET kept[n \in 0..Len(scripts)] ==
          IF n = 0 THEN <<>>
          ELSE IF scripts[n] \in gone THEN kept[n - 1]
          ELSE Append(kept[n - 1], scripts[n])
    IN  kept[Len(scripts)]

(* SkinRuntime::loadScripts, then dispatchOnScriptLoaded, which walks            *)
(* loadedScripts with its repetitions.                                           *)
LoadRuntime(r) ==
    /\ r \notin live
    /\ EventLoop \/ Running
    /\ Room
    /\ live' = live \cup {r}
    /\ table' = table \o Distinct(ScriptsOf[r])
    /\ Push(Frame("onScriptLoaded", NoKey, ScriptsOf[r]))
    /\ UNCHANGED current

(* SkinRuntime's destructor and reset().  Unloading the runtime whose scripts a    *)
(* loop goes over, or the script that runs, is undefined behaviour and left out    *)
(* (README, "Not modelled").  The table closes up under the walks in flight.      *)
DestroyAll(r) ==
    /\ r \in live
    /\ EventLoop \/ Running
    /\ ~Uses(r)
    /\ live' = live \ {r}
    /\ table' = Without(table, ToSet(ScriptsOf[r]))
    /\ UNCHANGED <<current, frames>>

-----------------------------------------------------------------------------
(* Dispatching.                                                                  *)

(* A click, a key or a timer of script s reaches its handler, from the event      *)
(* loop or from the loop of a popup menu.                                        *)
Input(s) ==
    /\ EventLoop
    /\ Room
    /\ Contains(table, s)
    /\ Push(Frame("input", NoKey, <<s>>))
    /\ UNCHANGED <<live, table, current>>

(* A handler opens a popup menu, which spins an event loop.                       *)
OpenPopup ==
    /\ Running
    /\ Room
    /\ ~InFlight("loop")
    /\ Push(Frame("loop", NoKey, <<>>))
    /\ UNCHANGED <<live, table, current>>

(* One turn of a fire...() loop: the next script it looks at that handles the     *)
(* event runs.  The receiver's binding is looked up when the loop comes to it.    *)
FireQueued(Handles(_)) ==
    \E i \in DOMAIN Top.queue :
        /\ Handles(Top.queue[i])
        /\ \A j \in 1..(i - 1) : ~Handles(Top.queue[j])
        /\ current' = Top.queue[i]
        /\ frames' = [frames EXCEPT
                        ![Len(frames)].who = Top.queue[i],
                        ![Len(frames)].queue = SubSeq(@, i + 1, Len(@))]

FireEntry(Handles(_)) ==
    \E i \in Entries(Top) :
        /\ Handles(table[i])
        /\ \A j \in Entries(Top) : j < i => ~Handles(table[j])
        /\ current' = table[i]
        /\ frames' = [frames EXCEPT
                        ![Len(frames)].who = table[i],
                        ![Len(frames)].next = i + 1]

FireNext(Handles(_)) ==
    /\ FireQueued(Handles) \/ FireEntry(Handles)
    /\ UNCHANGED <<live, table>>

(* The loop has come to its end, or the popup menu closes.                        *)
EndDispatch(Handles(_)) ==
    /\ \A s \in Ahead(Top) : ~Handles(s)
    /\ Pop
    /\ UNCHANGED <<live, table, current>>

(* The handler returns to the loop that fired it; nobody puts the current script  *)
(* back.                                                                         *)
Return ==
    /\ Running
    /\ frames' = [frames EXCEPT ![Len(frames)].who = NoScript]
    /\ UNCHANGED <<live, table, current>>

-----------------------------------------------------------------------------
(* getParam() and getScriptGroup() answer for the script whose handler runs      *)
(* ("so getParam() returns the right per-script param= string",                  *)
(* maki-bridge.cpp:119-120).                                                     *)
OwnParam == Running => current = Top.who
=============================================================================
