--------------------------- MODULE SharedControls ---------------------------
(* Controls that share a config attribute: the store of their values             *)
(* (CfgAttribStore.cpp) and the toggles, n-state buttons and steppers that write *)
(* it and listen to it (Button.cpp).  Trees come and go widget by widget here: a *)
(* load or a teardown is a run of Create or Destroy.  The surfaces route no      *)
(* press to a widget that does not capture the mouse, so a button is clicked by  *)
(* an embedder that routes its presses itself (Widget.h), and otherwise only set *)
(* by scripts.                                                                   *)
EXTENDS Integers, Sequences, SequencesExt

CONSTANTS Toggle,       \* buttons and togglebuttons with a sync key
          States,       \* nstatesbuttons with one
          Stepper,      \* ...Increase and ...Decrease buttons beside a slider
          Key,          \* the sync keys
          KeyOf,        \* resolvedCfgKey; of a stepper, its slider's cfgattrib
          Seed,         \* toggle -> activated= of its XML, 0 or 1
          OnValue,      \* toggle -> m_cfgVal
          NStates,      \* n-state button -> its nstates=
          Vals,         \* n-state button -> its cfgvals=, of any length
          Step,         \* stepper -> [delta, low, high]
          Renewed,      \* those that wireSteppers initialises again, by their id
          Unwritten         \* a key that was never written

Control == Toggle \cup States

ASSUME ControlsAssumption ==
    /\ Toggle \cap States = {}
    /\ KeyOf \in [Control \cup Stepper -> Key]
    /\ Seed \in [Toggle -> {0, 1}]
    /\ OnValue \in [Toggle -> Int]
    /\ Vals \in [States -> Seq(Int)]
    /\ NStates \in [States -> Nat]
    /\ Step \in [Stepper -> [delta : Int, low : Int, high : Int]]
    /\ Renewed \subseteq Control
    /\ Unwritten \notin Int

VARIABLES store,        \* m_values
          subs,         \* control -> its callbacks in m_subs; alive if any
          stale,        \* the callbacks that controls left behind in m_subs
          activated,    \* m_activated, as a number
          state         \* m_state of the n-state buttons

controlVars == <<store, subs, stale, activated, state>>

Alive(w) == subs[w] > 0

ControlsInit ==
    /\ store = [k \in Key |-> Unwritten]
    /\ subs = [w \in Control |-> 0]
    /\ stale = {}
    /\ activated = [w \in Control |-> 0]
    /\ state = [w \in States |-> 0]

-----------------------------------------------------------------------------
(* A toggle is on for every value but 0, an n-state button in the first state     *)
(* whose cfgvals has the value, or in state 0 if none has: a state that cfgvals   *)
(* does not reach writes its own number, which reads back as state 0 and not as   *)
(* itself, against "Missing cfgvals means state index IS the stored value"        *)
(* (Button.h:147-148).                                                            *)
ValueToBool(v) == IF v = 0 THEN 0 ELSE 1
Having(w, v) == {i \in DOMAIN Vals[w] : Vals[w][i] = v}

(* Mutant: the base class's reading of the value.                                *)
ValueAsBool(w, v) == ValueToBool(v)

valueToState(w, v) == IF Having(w, v) = {} THEN 0 ELSE Min(Having(w, v)) - 1

stateToValue(w, s) == IF s + 1 \in DOMAIN Vals[w] THEN Vals[w][s + 1] ELSE s

-----------------------------------------------------------------------------
(* CfgAttribStore::set with what the writer did to itself before: every          *)
(* subscriber of the key follows, the writer included.  To call one of a freed   *)
(* widget is undefined behaviour and left out.                                   *)
Set(k, v, act, st) ==
    IF store[k] = v
    THEN /\ activated' = act
         /\ state' = st
         /\ UNCHANGED store
    ELSE /\ \A w \in stale : KeyOf[w] # k
         /\ store' = [store EXCEPT ![k] = v]
         /\ activated' = [w \in Control |->
                IF w \in Toggle /\ Alive(w)' /\ KeyOf[w] = k
                THEN ValueToBool(v) ELSE act[w]]
         /\ state' = [w \in States |->
                IF Alive(w)' /\ KeyOf[w] = k THEN valueToState(w, v) ELSE st[w]]

(* Mutant: a new toggle starts as its XML says, whatever the key's value.        *)
AdoptSeed(w, v) == Seed[w]

(* What a new toggle starts as: the key's value, or its XML's if it has none.    *)
Adopt(w, v) == IF v = Unwritten THEN Seed[w] ELSE ValueToBool(v)

(* onAttrsInitialized: the control adopts the key's value or gives it one.       *)
wireToggle(w) ==
    LET v  == store[KeyOf[w]]
        on == Adopt(w, v)
    IN  Set(KeyOf[w], IF v = Unwritten THEN on ELSE v, [activated EXCEPT ![w] = on], state)

wireStates(w) ==
    LET v == store[KeyOf[w]]
        s == IF v = Unwritten THEN 0 ELSE valueToState(w, v)
    IN  Set(KeyOf[w], IF v = Unwritten THEN stateToValue(w, s) ELSE v,
            [activated EXCEPT ![w] = 0], [state EXCEPT ![w] = s])

(* makeResolved makes the widget and initialises it; wireSteppers does again     *)
(* where the id says so, and the second time it adopts what it has.              *)
Create(w) ==
    /\ ~Alive(w)
    /\ subs' = [subs EXCEPT ![w] = IF w \in Renewed THEN 2 ELSE 1]
    /\ UNCHANGED stale
    /\ IF w \in Toggle THEN wireToggle(w) ELSE wireStates(w)

(* The destructor unsubscribes the one handle the control kept.                  *)
Destroy(w) ==
    /\ Alive(w)
    /\ subs' = [subs EXCEPT ![w] = 0]
    /\ stale' = IF subs[w] > 1 THEN stale \cup {w} ELSE stale
    /\ UNCHANGED <<store, activated, state>>

(* setXmlParam("activated"), by a script or by a click.                          *)
SetActivated(w, b) ==
    /\ Alive(w)
    /\ activated[w] # b
    /\ UNCHANGED <<subs, stale>>
    /\ Set(KeyOf[w],
           IF b = 0 THEN 0 ELSE IF w \in Toggle THEN OnValue[w] ELSE 1,
           [activated EXCEPT ![w] = b], state)

-----------------------------------------------------------------------------
(* cycleOnRelease of the three kinds; autotoggle=0 leaves a toggle to scripts.   *)
ClickToggle(w) == SetActivated(w, 1 - activated[w])

NextState(w) == (state[w] + 1) % NStates[w]

ClickStates(w) ==
    /\ Alive(w)
    /\ NStates[w] > 0
    /\ UNCHANGED <<subs, stale>>
    /\ Set(KeyOf[w], stateToValue(w, NextState(w)), activated,
           [state EXCEPT ![w] = NextState(w)])

(* The value steps from 0 if the key has none, and stays in its bounds.          *)
ClickStepper(w) ==
    LET cur  == IF store[KeyOf[w]] = Unwritten THEN 0 ELSE store[KeyOf[w]]
        next == cur + Step[w].delta
        up   == IF next < Step[w].low THEN Step[w].low ELSE next
        to   == IF up > Step[w].high THEN Step[w].high ELSE up
    IN  /\ to # cur
        /\ UNCHANGED <<subs, stale>>
        /\ Set(KeyOf[w], to, activated, state)

ControlsNext ==
    \/ \E w \in Control : Create(w) \/ Destroy(w)
    \/ \E w \in Control, b \in {0, 1} : SetActivated(w, b)
    \/ \E w \in Toggle : ClickToggle(w)
    \/ \E w \in States : ClickStates(w)
    \/ \E w \in Stepper : ClickStepper(w)

ControlsSpec == ControlsInit /\ [][ControlsNext]_controlVars

-----------------------------------------------------------------------------
ControlsTypeOK ==
    /\ store \in [Key -> Int \cup {Unwritten}]
    /\ subs \in [Control -> 0..2]
    /\ stale \subseteq Renewed
    /\ activated \in [Control -> {0, 1}]
    /\ state \in [States -> Nat]

(* The state is the first that has its value in cfgvals, or, without cfgvals, 0.  *)
ReadsBack(w, s) ==
    IF s + 1 \in DOMAIN Vals[w] THEN \A i \in 1..s : Vals[w][i] # Vals[w][s + 1]
    ELSE Vals[w] = <<>> /\ s = 0

(* What the control writes tells its states apart: a toggle's cfgval is not 0,   *)
(* cfgvals has a value of its own for each state.                                *)
ToldApart(w) ==
    IF w \in Toggle THEN OnValue[w] # 0
    ELSE \A s \in 0..NStates[w] - 1 : ReadsBack(w, s)

(* Controls that share a key show one value, the store's, whichever of them      *)
(* wrote it and whenever the others were made ("Multiple widgets that declare    *)
(* the same cfgattrib stay in sync", CfgAttribStore.h:4-5).  A control that does *)
(* not tell its states apart stays in step with the others' writes only: when it *)
(* writes the value the key has already, it is not read back.                    *)
ControlsAgree ==
    \A w \in Control : Alive(w) =>
        /\ store[KeyOf[w]] # Unwritten
        /\ w \in Toggle /\ ToldApart(w) => activated[w] = ValueToBool(store[KeyOf[w]])
        /\ w \in States /\ ToldApart(w) => state[w] = valueToState(w, store[KeyOf[w]])

(* The button hears its own write and takes its state back from the value.  So   *)
(* "Click advances by one and wraps" (Button.h:141-142) exactly where the value  *)
(* of the next state is that state's own, or the key has it already; elsewhere,  *)
(* as in a button without cfgvals, the click ends in another state.              *)
ClickAdvances ==
    [][\A w \in States : ClickStates(w) =>
          (state'[w] = NextState(w) <=>
              \/ ReadsBack(w, NextState(w))
              \/ store[KeyOf[w]] = stateToValue(w, NextState(w)))]_controlVars

(* No callback outlives its control ("Safe to call again -- the cfgattrib        *)
(* subscription path is idempotent", Layout.cpp:2254-2255).                      *)
NoStaleSubscriber == stale = {}
=============================================================================
