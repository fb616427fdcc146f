--------------------------- MODULE TransportPump ---------------------------
(* The transport watcher of SkinRuntime.cpp: a 100 ms timer compares the host's  *)
(* playback status with the one it saw last and fires onPlay, onResume, onPause  *)
(* or onStop in the scripts of every runtime.                                    *)
EXTENDS ScriptDispatch

CONSTANTS Status        \* what the host may answer, getStatus() and the pump alike

Stopped == 0
Playing == 1

(* "0 stopped / 1 playing / 3 paused" (SkinRuntime.cpp:27); "1 = playing,         *)
(* -1 = paused, 0 = stopped" (SkinRuntime.h:126).                                *)
ASSUME PumpAssumption == Stopped \in Status

VARIABLES last,         \* the status the pump saw last
          told          \* script -> the last transport event it was fired

pumpVars == <<last, told>>

PumpInit == last = Stopped /\ told = [s \in Script |-> "none"]

-----------------------------------------------------------------------------
(* The pump takes 3 for paused, and anything it does not know for stopped.        *)
Edge(cur, prev) ==
    CASE cur = Playing -> IF prev = 3 THEN "onResume" ELSE "onPlay"
      [] cur = 3       -> "onPause"
      [] OTHER         -> "onStop"

TransportEvents == {"onPlay", "onResume", "onPause", "onStop"}

(* Mutant: only one window's scripts are told.                                    *)
OneWindow == {ScriptsOf[r] : r \in live}

(* The scripts of the live runtimes, window by window: a QSet has no order.       *)
Snapshots ==
    {FlattenSeq([i \in DOMAIN order |-> ScriptsOf[order[i]]]) :
        order \in SetToSeqs(live)}

Pumping == \E i \in DOMAIN frames : frames[i].event \in TransportEvents

(* A tick finds the host, which plays, pauses and stops as it likes, in another    *)
(* status than the last one.  The timer does not tick inside its own handler.     *)
Pump ==
    /\ EventLoop
    /\ Room
    /\ ~Pumping
    /\ \E cur \in Status \ {last}, queue \in Snapshots :
          /\ last' = cur
          /\ Push(Frame(Edge(cur, last), NoKey, queue))
    /\ UNCHANGED <<live, table, current, told>>

Told(event, s) ==
    told' = IF event \in TransportEvents THEN [told EXCEPT ![s] = event] ELSE told

-----------------------------------------------------------------------------
(* Properties.                                                                   *)

(* What scripts make of a status: a host that answers -1 when paused, as          *)
(* SkinRuntime.h documents, is heard to stop (README, Findings).                  *)
MeaningOf(status) ==
    CASE status = Playing -> {"onPlay", "onResume"}
      [] status = 3       -> {"onPause"}
      [] OTHER            -> {"onStop"}

(* Between two runs of the pump every script has been told one and the same edge, *)
(* that of the status the pump saw last, or was loaded after it: whatever the      *)
(* host did meanwhile, and whichever dispatches the handlers nested.               *)
AllTold ==
    ~Pumping =>
        \E event \in MeaningOf(last) :
            \A s \in ToSet(table) : told[s] \in {"none", event}
=============================================================================
