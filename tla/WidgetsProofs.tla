---------------------------- MODULE WidgetsProofs ----------------------------
(* Proofs about the widgets of a surface, in three parts that share nothing: the  *)
(* controls of one config key, for any controls, keys and values; what a surface  *)
(* does with the pointer, for any skin, window and screen; and the slides of      *)
(* widgets to their targets, for any windows, drawers and depth of handlers.      *)
EXTENDS SharedControls, PointerRouting, TargetTweens, CollectionLemmas

-----------------------------------------------------------------------------
(* Controls that share a config key.                                             *)

(* The agreement is inductive once the types are known; that only those          *)
(* initialised twice leave a callback behind needs the handles counted too.      *)
TwiceIfRenewed == \A w \in Control : subs[w] > 1 => w \in Renewed

ControlsIInv == ControlsTypeOK /\ TwiceIfRenewed /\ ControlsAgree

-----------------------------------------------------------------------------
(* What an n-state button reads is a number of a state, what it writes is a       *)
(* value; the first state reads back, and others where ReadsBack says so.         *)
LEMMA Readings ==
    ASSUME NEW w \in States
    PROVE  /\ \A v : valueToState(w, v) \in Nat
           /\ \A s \in Nat : stateToValue(w, s) \in Int
           /\ valueToState(w, stateToValue(w, 0)) = 0
           /\ \A s \in Nat : ReadsBack(w, s) <=> valueToState(w, stateToValue(w, s)) = s
<1> DEFINE vals == Vals[w]
           n == Len(vals)
<1>1. vals \in Seq(Int) /\ n \in Nat /\ DOMAIN vals = 1..n
  BY ControlsAssumption
<1>2. ASSUME NEW v, Having(w, v) # {}
      PROVE  /\ valueToState(w, v) + 1 \in Having(w, v) /\ valueToState(w, v) \in Nat
             /\ \A i \in Having(w, v) : valueToState(w, v) + 1 <= i
  <2> DEFINE i == Min(Having(w, v))
  <2>1. Having(w, v) \subseteq 1..n /\ Having(w, v) \subseteq Nat
    BY <1>1 DEF Having
  <2>2. \E m \in Having(w, v) : \A k \in Having(w, v) : m <= k
    BY <1>2, <2>1, LeastNat
  <2>3. i \in Having(w, v) /\ \A k \in Having(w, v) : i <= k
    BY <2>2 DEF Min
  <2>4. valueToState(w, v) = i - 1
    BY <1>2 DEF valueToState
  <2> HIDE DEF i
  <2> QED BY <1>1, <2>1, <2>3, <2>4
<1>3. ASSUME NEW v PROVE valueToState(w, v) \in Nat
  <2>1. CASE Having(w, v) = {}
    BY <2>1 DEF valueToState
  <2> QED BY <1>2, <2>1
<1>4. ASSUME NEW s \in Nat PROVE stateToValue(w, s) \in Int
  BY <1>1 DEF stateToValue
<1>5. ASSUME NEW s \in Nat
      PROVE  ReadsBack(w, s) <=> valueToState(w, stateToValue(w, s)) = s
  <2> DEFINE v == stateToValue(w, s)
  <2>1. CASE s + 1 \in 1..n
    <3>1. v = vals[s + 1] /\ s + 1 \in Having(w, v)
      BY <1>1, <2>1 DEF stateToValue, Having
    <3>2. PICK t \in Nat : t = valueToState(w, v)
      BY <1>3
    <3>3. t + 1 \in Having(w, v) /\ \A i \in Having(w, v) : t + 1 <= i
      BY <1>2, <3>1, <3>2
    <3>4. t + 1 \in 1..n /\ vals[t + 1] = v /\ t + 1 <= s + 1
      BY <1>1, <3>1, <3>3 DEF Having
    <3>5. ReadsBack(w, s) <=> \A i \in 1..s : vals[i] # v
      BY <1>1, <2>1, <3>1 DEF ReadsBack
    <3>6. ASSUME t # s PROVE ~ReadsBack(w, s)
      <4>1. t + 1 \in 1..s
        BY <3>4, <3>6
      <4> QED BY <3>4, <3>5, <4>1
    <3>7. ASSUME t = s PROVE ReadsBack(w, s)
      <4>1. ASSUME NEW i \in 1..s PROVE vals[i] # v
        <5>1. i \in 1..n /\ ~(s + 1 <= i)
          BY <1>1, <2>1
        <5>2. i \notin Having(w, v)
          BY <3>3, <3>7, <5>1
        <5> QED BY <1>1, <5>1, <5>2 DEF Having
      <4> QED BY <3>5, <4>1
    <3> QED BY <3>2, <3>6, <3>7
  <2>2. CASE s + 1 \notin 1..n
    <3>1. ReadsBack(w, s) <=> vals = <<>> /\ s = 0
      BY <1>1, <2>2 DEF ReadsBack
    <3>2. CASE n = 0
      <4>1. Having(w, v) = {} /\ vals = <<>>
        BY <1>1, <3>2 DEF Having
      <4>2. valueToState(w, v) = 0
        BY <4>1 DEF valueToState
      <4> QED BY <3>1, <4>1, <4>2
    <3>3. CASE n > 0
      <4>1. vals # <<>> /\ s >= n
        BY <1>1, <2>2, <3>3
      <4>2. PICK t \in Nat : t = valueToState(w, v)
        BY <1>3
      <4>3. t < n
        <5>1. CASE Having(w, v) = {}
          BY <3>3, <4>2, <5>1 DEF valueToState
        <5>2. CASE Having(w, v) # {}
          <6>1. t + 1 \in Having(w, v)
            BY <1>2, <4>2, <5>2
          <6>2. t + 1 \in 1..n
            BY <1>1, <6>1 DEF Having
          <6> QED BY <1>1, <6>2
        <5> QED BY <5>1, <5>2
      <4>4. t # s
        BY <1>1, <4>1, <4>3
      <4> QED BY <3>1, <4>1, <4>2, <4>4
    <3> QED BY <1>1, <3>2, <3>3
  <2> QED BY <1>1, <2>1, <2>2
<1>6. ReadsBack(w, 0)
  BY <1>1 DEF ReadsBack
<1>7. valueToState(w, stateToValue(w, 0)) = 0
  BY <1>5, <1>6
<1> QED BY <1>3, <1>4, <1>5, <1>7

(* A write by which the writer agrees with the value it writes, or that changes  *)
(* nothing of its key, leaves every control in agreement.                        *)
LEMMA SetAgrees ==
    ASSUME ControlsTypeOK, ControlsAgree,
           subs' \in [Control -> 0..2],
           NEW k \in Key, NEW v \in Int,
           NEW act \in [Control -> {0, 1}], NEW st \in [States -> Nat],
           Set(k, v, act, st),
           store[k] = v =>
              \A w \in Control : Alive(w)' /\ KeyOf[w] = k /\ ToldApart(w) =>
                 /\ w \in Toggle => act[w] = ValueToBool(v)
                 /\ w \in States => st[w] = valueToState(w, v),
           \A w \in Control : Alive(w)' /\ KeyOf[w] # k =>
                 /\ Alive(w)
                 /\ act[w] = activated[w]
                 /\ w \in States => st[w] = state[w]
    PROVE  /\ store' \in [Key -> Int \cup {Unwritten}]
           /\ activated' \in [Control -> {0, 1}]
           /\ state' \in [States -> Nat]
           /\ ControlsAgree'
           /\ store'[k] = v
<1>1. CASE store[k] = v
  <2>1. activated' = act /\ state' = st /\ store' = store
    BY <1>1 DEF Set
  <2>2. ControlsAgree'
    <3> SUFFICES ASSUME NEW w \in Control, Alive(w)'
                 PROVE  /\ store'[KeyOf[w]] # Unwritten
                        /\ w \in Toggle /\ ToldApart(w) =>
                              activated'[w] = ValueToBool(store'[KeyOf[w]])
                        /\ w \in States /\ ToldApart(w) =>
                              state'[w] = valueToState(w, store'[KeyOf[w]])
      BY DEF ControlsAgree
    <3>1. CASE KeyOf[w] = k
      BY <1>1, <2>1, <3>1, ControlsAssumption
    <3>2. CASE KeyOf[w] # k
      BY <2>1, <3>2 DEF ControlsAgree
    <3> QED BY <3>1, <3>2
  <2> QED BY <1>1, <2>1, <2>2 DEF ControlsTypeOK
<1>2. CASE store[k] # v
  <2>1. /\ store' = [store EXCEPT ![k] = v]
        /\ activated' = [w \in Control |->
               IF w \in Toggle /\ Alive(w)' /\ KeyOf[w] = k THEN ValueToBool(v) ELSE act[w]]
        /\ state' = [w \in States |->
               IF Alive(w)' /\ KeyOf[w] = k THEN valueToState(w, v) ELSE st[w]]
    BY <1>2 DEF Set
  <2>2. store' \in [Key -> Int \cup {Unwritten}] /\ store'[k] = v
    BY <2>1 DEF ControlsTypeOK
  <2>3. activated' \in [Control -> {0, 1}]
    BY <2>1 DEF ValueToBool
  <2>4. \A w \in States : valueToState(w, v) \in Nat
    BY Readings
  <2>5. state' \in [States -> Nat]
    BY <2>1, <2>4
  <2>6. ControlsAgree'
    <3> SUFFICES ASSUME NEW w \in Control, Alive(w)'
                 PROVE  /\ store'[KeyOf[w]] # Unwritten
                        /\ w \in Toggle /\ ToldApart(w) =>
                              activated'[w] = ValueToBool(store'[KeyOf[w]])
                        /\ w \in States /\ ToldApart(w) =>
                              state'[w] = valueToState(w, store'[KeyOf[w]])
      BY DEF ControlsAgree
    <3>1. KeyOf[w] \in Key
      BY ControlsAssumption
    <3>2. CASE KeyOf[w] = k
      BY <2>1, <2>2, <3>2, ControlsAssumption
    <3>3. CASE KeyOf[w] # k
      <4>1. store'[KeyOf[w]] = store[KeyOf[w]]
        BY <2>1, <3>1, <3>3 DEF ControlsTypeOK
      <4>2. activated'[w] = activated[w] /\ (w \in States => state'[w] = state[w])
        BY <2>1, <3>3
      <4> QED BY <3>3, <4>1, <4>2 DEF ControlsAgree
    <3> QED BY <3>2, <3>3
  <2> QED BY <2>2, <2>3, <2>4, <2>5, <2>6
<1> QED BY <1>1, <1>2

-----------------------------------------------------------------------------
(* The steps.                                                                    *)
LEMMA CreateStep == ASSUME ControlsIInv, NEW w \in Control, Create(w) PROVE ControlsIInv'
<1> DEFINE k == KeyOf[w]
           old == store[k]
<1>1. k \in Key /\ Unwritten \notin Int
  BY ControlsAssumption DEF Control
<1>2. old \in Int \cup {Unwritten}
  BY <1>1 DEF ControlsIInv, ControlsTypeOK
<1>3. subs' = [subs EXCEPT ![w] = IF w \in Renewed THEN 2 ELSE 1] /\ stale' = stale
  BY DEF Create
<1>4. subs' \in [Control -> 0..2] /\ stale' \subseteq Renewed /\ TwiceIfRenewed'
  BY <1>3 DEF ControlsIInv, ControlsTypeOK, TwiceIfRenewed
<1>5. \A u \in Control : u # w => (Alive(u)' <=> Alive(u))
  BY <1>3 DEF Alive, ControlsIInv, ControlsTypeOK
<1>6. CASE w \in Toggle
  <2> DEFINE on == Adopt(w, old)
             v == IF old = Unwritten THEN on ELSE old
             act == [activated EXCEPT ![w] = on]
  <2>1. on \in {0, 1} /\ (old # Unwritten => on = ValueToBool(old))
    BY <1>6, ControlsAssumption DEF Adopt, ValueToBool
  <2>2. Set(k, v, act, state)
    BY <1>6 DEF Create, wireToggle
  <2>3. v \in Int /\ act \in [Control -> {0, 1}]
    BY <1>2, <2>1 DEF ControlsIInv, ControlsTypeOK
  <2>4. act[w] = on /\ \A u \in Control : u # w => act[u] = activated[u]
    BY DEF ControlsIInv, ControlsTypeOK
  <2>5. old = v => /\ on = ValueToBool(v)
                   /\ \A u \in Control : Alive(u)' /\ KeyOf[u] = k /\ ToldApart(u) =>
                        /\ u \in Toggle => act[u] = ValueToBool(v)
                        /\ u \in States => state[u] = valueToState(u, v)
    <3> SUFFICES ASSUME old = v, NEW u \in Control, Alive(u)', KeyOf[u] = k, ToldApart(u)
                 PROVE  /\ on = ValueToBool(v)
                        /\ u \in Toggle => act[u] = ValueToBool(v)
                        /\ u \in States => state[u] = valueToState(u, v)
      BY <1>1, <2>1, <2>3
    <3>1. on = ValueToBool(v)
      BY <1>1, <2>1, <2>3
    <3>2. CASE u = w
      BY <1>6, <2>4, <3>1, <3>2, ControlsAssumption
    <3>3. CASE u # w
      BY <1>5, <2>4, <3>1, <3>3 DEF ControlsIInv, ControlsAgree
    <3> QED BY <3>1, <3>2, <3>3
  <2>6. \A u \in Control : Alive(u)' /\ KeyOf[u] # k =>
           Alive(u) /\ act[u] = activated[u] /\ (u \in States => state[u] = state[u])
    BY <1>5, <2>4
  <2>7. ControlsTypeOK /\ ControlsAgree
    BY DEF ControlsIInv
  <2>8. state \in [States -> Nat]
    BY DEF ControlsIInv, ControlsTypeOK
  <2> HIDE DEF on, v, act, k
  <2>9. /\ store' \in [Key -> Int \cup {Unwritten}]
        /\ activated' \in [Control -> {0, 1}]
        /\ state' \in [States -> Nat]
        /\ ControlsAgree'
    BY <1>1, <1>4, <2>2, <2>3, <2>5, <2>6, <2>7, <2>8, SetAgrees, SMTT(60)
  <2>10. ControlsTypeOK'
    BY <1>4, <2>9 DEF ControlsTypeOK
  <2> QED BY <1>4, <2>9, <2>10 DEF ControlsIInv
<1>7. CASE w \in States
  <2> DEFINE s == IF old = Unwritten THEN 0 ELSE valueToState(w, old)
             v == IF old = Unwritten THEN stateToValue(w, s) ELSE old
             act == [activated EXCEPT ![w] = 0]
             st == [state EXCEPT ![w] = s]
  <2>1. w \notin Toggle
    BY <1>7, ControlsAssumption
  <2>2. s \in Nat
    BY <1>7, Readings
  <2>3. v \in Int /\ (old = v => s = valueToState(w, v))
    BY <1>1, <1>2, <1>7, <2>2, Readings
  <2>4. Set(k, v, act, st)
    BY <2>1 DEF Create, wireStates
  <2>5. /\ act \in [Control -> {0, 1}]
        /\ st \in [States -> Nat]
    BY <1>7, <2>2 DEF ControlsIInv, ControlsTypeOK
  <2>6. /\ st[w] = s
        /\ \A u \in Control : u # w => act[u] = activated[u]
        /\ \A u \in States : u # w => st[u] = state[u]
    BY <1>7 DEF ControlsIInv, ControlsTypeOK
  <2>7. old = v => \A u \in Control : Alive(u)' /\ KeyOf[u] = k /\ ToldApart(u) =>
                        /\ u \in Toggle => act[u] = ValueToBool(v)
                        /\ u \in States => st[u] = valueToState(u, v)
    <3> SUFFICES ASSUME old = v, NEW u \in Control, Alive(u)', KeyOf[u] = k, ToldApart(u)
                 PROVE  /\ u \in Toggle => act[u] = ValueToBool(v)
                        /\ u \in States => st[u] = valueToState(u, v)
      OBVIOUS
    <3>1. CASE u = w
      BY <2>1, <2>3, <2>6, <3>1
    <3>2. CASE u # w
      BY <1>5, <2>6, <3>2 DEF ControlsIInv, ControlsAgree
    <3> QED BY <3>1, <3>2
  <2>8. \A u \in Control : Alive(u)' /\ KeyOf[u] # k =>
           Alive(u) /\ act[u] = activated[u] /\ (u \in States => st[u] = state[u])
    BY <1>5, <2>6
  <2>9. ControlsTypeOK /\ ControlsAgree
    BY DEF ControlsIInv
  <2> HIDE DEF s, v, act, st, k
  <2>10. /\ store' \in [Key -> Int \cup {Unwritten}]
         /\ activated' \in [Control -> {0, 1}]
         /\ state' \in [States -> Nat]
         /\ ControlsAgree'
    BY <1>1, <1>4, <2>3, <2>4, <2>5, <2>7, <2>8, <2>9, SetAgrees, SMTT(60)
  <2>11. ControlsTypeOK'
    BY <1>4, <2>10 DEF ControlsTypeOK
  <2> QED BY <1>4, <2>10, <2>11 DEF ControlsIInv
<1> QED BY <1>6, <1>7 DEF Control

LEMMA DestroyStep == ASSUME ControlsIInv, NEW w \in Control, Destroy(w) PROVE ControlsIInv'
<1>1. ControlsTypeOK'
  <2>1. CASE subs[w] > 1
    BY <2>1 DEF Destroy, ControlsIInv, ControlsTypeOK, TwiceIfRenewed
  <2>2. CASE ~(subs[w] > 1)
    BY <2>2 DEF Destroy, ControlsIInv, ControlsTypeOK
  <2> QED BY <2>1, <2>2
<1>2. \A u \in Control : Alive(u)' => Alive(u)
  BY DEF Destroy, Alive, ControlsIInv, ControlsTypeOK
<1>3. UNCHANGED <<store, activated, state>>
  BY DEF Destroy
<1>4. ControlsAgree'
  BY <1>2, <1>3 DEF ControlsIInv, ControlsAgree, valueToState, Having
<1>5. TwiceIfRenewed'
  BY DEF Destroy, ControlsIInv, ControlsTypeOK, TwiceIfRenewed
<1> QED BY <1>1, <1>4, <1>5 DEF ControlsIInv

(* A control that is alive and writes its key: the others of the key follow, and *)
(* it agrees itself.                                                             *)
LEMMA WriteStep ==
    ASSUME ControlsIInv, UNCHANGED <<subs, stale>>,
           NEW k \in Key, NEW v \in Int,
           NEW act \in [Control -> {0, 1}], NEW st \in [States -> Nat],
           Set(k, v, act, st),
           store[k] = v =>
              \A w \in Control : KeyOf[w] = k /\ ToldApart(w) =>
                 /\ w \in Toggle => act[w] = activated[w]
                 /\ w \in States => st[w] = state[w],
           \A w \in Control : KeyOf[w] # k =>
              act[w] = activated[w] /\ (w \in States => st[w] = state[w])
    PROVE  ControlsIInv' /\ store'[k] = v
<1>1. \A w \in Control : Alive(w)' <=> Alive(w)
  BY DEF Alive
<1>2. store[k] = v =>
        \A w \in Control : Alive(w)' /\ KeyOf[w] = k /\ ToldApart(w) =>
           /\ w \in Toggle => act[w] = ValueToBool(v)
           /\ w \in States => st[w] = valueToState(w, v)
  BY <1>1 DEF ControlsIInv, ControlsAgree
<1>3. \A w \in Control : Alive(w)' /\ KeyOf[w] # k =>
        Alive(w) /\ act[w] = activated[w] /\ (w \in States => st[w] = state[w])
  BY <1>1
<1>4. subs' \in [Control -> 0..2] /\ stale' \subseteq Renewed /\ TwiceIfRenewed'
  BY DEF ControlsIInv, ControlsTypeOK, TwiceIfRenewed
<1>5. ControlsTypeOK /\ ControlsAgree
  BY DEF ControlsIInv
<1>6. /\ store' \in [Key -> Int \cup {Unwritten}]
      /\ activated' \in [Control -> {0, 1}]
      /\ state' \in [States -> Nat]
      /\ ControlsAgree'
      /\ store'[k] = v
  BY <1>2, <1>3, <1>4, <1>5, SetAgrees, SMTT(60)
<1>7. ControlsTypeOK'
  BY <1>4, <1>6 DEF ControlsTypeOK
<1> QED BY <1>4, <1>6, <1>7 DEF ControlsIInv

(* A control that is told to be what it is not writes a value its key has not.   *)
LEMMA SetActivatedStep ==
    ASSUME ControlsIInv, NEW w \in Control, NEW b \in {0, 1}, SetActivated(w, b) PROVE ControlsIInv'
<1> DEFINE k == KeyOf[w]
           v == IF b = 0 THEN 0 ELSE IF w \in Toggle THEN OnValue[w] ELSE 1
           act == [activated EXCEPT ![w] = b]
<1>1. k \in Key
  BY ControlsAssumption DEF Control
<1>2. v \in Int /\ (w \in Toggle /\ ToldApart(w) => ValueToBool(v) = b)
  BY ControlsAssumption DEF ValueToBool, ToldApart
<1>3. Set(k, v, act, state) /\ UNCHANGED <<subs, stale>> /\ Alive(w) /\ activated[w] # b
  BY DEF SetActivated
<1>4. /\ act \in [Control -> {0, 1}]
      /\ state \in [States -> Nat]
      /\ \A u \in Control : u # w => act[u] = activated[u]
  BY DEF ControlsIInv, ControlsTypeOK
<1>5. w \in Toggle /\ ToldApart(w) => store[k] # v
  BY <1>2, <1>3 DEF ControlsIInv, ControlsAgree
<1> HIDE DEF k, v, act
<1>6. store[k] = v => \A u \in Control : KeyOf[u] = k /\ ToldApart(u) =>
         (u \in Toggle => act[u] = activated[u]) /\ (u \in States => state[u] = state[u])
  BY <1>4, <1>5
<1>7. \A u \in Control : KeyOf[u] # k =>
         act[u] = activated[u] /\ (u \in States => state[u] = state[u])
  BY <1>4 DEF k
<1> QED BY <1>1, <1>2, <1>3, <1>4, <1>6, <1>7, WriteStep

LEMMA ClickStatesStep ==
    ASSUME ControlsIInv, NEW w \in States, ClickStates(w)
    PROVE  /\ ControlsIInv'
           /\ state'[w] = NextState(w) <=>
                 \/ ReadsBack(w, NextState(w))
                 \/ store[KeyOf[w]] = stateToValue(w, NextState(w))
<1> DEFINE k == KeyOf[w]
           s == NextState(w)
           v == stateToValue(w, s)
           st == [state EXCEPT ![w] = s]
<1>1. k \in Key /\ w \in Control /\ w \notin Toggle
  BY ControlsAssumption DEF Control
<1>2. NStates[w] \in Nat /\ NStates[w] > 0 /\ state[w] \in Nat
  BY ControlsAssumption DEF ClickStates, ControlsIInv, ControlsTypeOK
<1>3. s \in 0 .. NStates[w] - 1
  BY <1>2 DEF NextState
<1>4. v \in Int
  BY <1>3, Readings
<1>5. Set(k, v, activated, st) /\ UNCHANGED <<subs, stale>> /\ Alive(w)
  BY DEF ClickStates
<1>6. /\ st \in [States -> Nat]
      /\ st[w] = s
      /\ \A u \in States : u # w => st[u] = state[u]
      /\ activated \in [Control -> {0, 1}]
  BY <1>3 DEF ControlsIInv, ControlsTypeOK
<1>7. ToldApart(w) => valueToState(w, v) = s
  BY <1>1, <1>3, Readings DEF ToldApart
<1>8. store[k] = v /\ ToldApart(w) => st[w] = state[w]
  BY <1>1, <1>5, <1>6, <1>7 DEF ControlsIInv, ControlsAgree
<1>9. state'[w] = IF store[k] = v THEN s ELSE valueToState(w, v)
  BY <1>5, <1>6 DEF Set, Alive
<1>10. ReadsBack(w, s) <=> valueToState(w, v) = s
  BY <1>3, Readings
<1> HIDE DEF k, s, v, st
<1>11. store[k] = v => \A u \in Control : KeyOf[u] = k /\ ToldApart(u) =>
         (u \in Toggle => activated[u] = activated[u]) /\ (u \in States => st[u] = state[u])
  BY <1>6, <1>8
<1>12. \A u \in Control : KeyOf[u] # k =>
         activated[u] = activated[u] /\ (u \in States => st[u] = state[u])
  BY <1>6 DEF k
<1>13. ControlsIInv'
  BY <1>1, <1>4, <1>5, <1>6, <1>11, <1>12, WriteStep
<1> QED BY <1>9, <1>10, <1>13 DEF k, s, v

LEMMA ClickStepperStep == ASSUME ControlsIInv, NEW w \in Stepper, ClickStepper(w) PROVE ControlsIInv'
<1> DEFINE k == KeyOf[w]
           value == IF store[k] = Unwritten THEN 0 ELSE store[k]
           next == value + Step[w].delta
           up == IF next < Step[w].low THEN Step[w].low ELSE next
           to == IF up > Step[w].high THEN Step[w].high ELSE up
<1>1. k \in Key
  BY ControlsAssumption
<1>2. Step[w].delta \in Int /\ Step[w].low \in Int /\ Step[w].high \in Int
  BY ControlsAssumption
<1>3. value \in Int
  BY <1>1 DEF ControlsIInv, ControlsTypeOK
<1>4. to \in Int
  BY <1>2, <1>3
<1>5. Set(k, to, activated, state) /\ UNCHANGED <<subs, stale>>
  BY DEF ClickStepper
<1>6. /\ activated \in [Control -> {0, 1}]
      /\ state \in [States -> Nat]
  BY DEF ControlsIInv, ControlsTypeOK
<1> HIDE DEF k, to
<1> QED BY <1>1, <1>4, <1>5, <1>6, WriteStep

-----------------------------------------------------------------------------
LEMMA ControlsInitInv == ControlsInit => ControlsIInv
<1> SUFFICES ASSUME ControlsInit PROVE ControlsIInv
  OBVIOUS
<1>1. \A w \in Control : ~Alive(w) /\ subs[w] = 0
  BY DEF ControlsInit, Alive
<1> QED BY <1>1 DEF ControlsInit, ControlsIInv, ControlsTypeOK, TwiceIfRenewed, ControlsAgree

LEMMA ControlsNextInv == ControlsIInv /\ [ControlsNext]_controlVars => ControlsIInv'
<1> SUFFICES ASSUME ControlsIInv, [ControlsNext]_controlVars PROVE ControlsIInv'
  OBVIOUS
<1>1. ASSUME NEW w \in Control, Create(w) \/ Destroy(w) PROVE ControlsIInv'
  BY <1>1, CreateStep, DestroyStep
<1>2. ASSUME NEW w \in Control, NEW b \in {0, 1}, SetActivated(w, b) PROVE ControlsIInv'
  BY <1>2, SetActivatedStep
<1>3. ASSUME NEW w \in Toggle, ClickToggle(w) PROVE ControlsIInv'
  <2>1. w \in Control /\ activated[w] \in {0, 1}
    BY DEF Control, ControlsIInv, ControlsTypeOK
  <2>2. 1 - activated[w] \in {0, 1}
    BY <2>1
  <2> QED BY <1>3, <2>1, <2>2, SetActivatedStep DEF ClickToggle
<1>4. ASSUME NEW w \in States, ClickStates(w) PROVE ControlsIInv'
  BY <1>4, ClickStatesStep
<1>5. ASSUME NEW w \in Stepper, ClickStepper(w) PROVE ControlsIInv'
  BY <1>5, ClickStepperStep
<1>6. CASE UNCHANGED controlVars
  BY <1>6 DEF controlVars, ControlsIInv, ControlsTypeOK, TwiceIfRenewed, ControlsAgree, Alive,
              valueToState, Having
<1> QED BY <1>1, <1>2, <1>3, <1>4, <1>5, <1>6 DEF ControlsNext

LEMMA ControlsInductive == ControlsSpec => []ControlsIInv
<1> QED BY ControlsInitInv, ControlsNextInv, PTL DEF ControlsSpec

(* Every state of the controls is well typed; in particular only a control that  *)
(* is initialised twice leaves a callback behind (Button.cpp, CfgAttribStore.cpp). *)
THEOREM ControlsTyped == ControlsSpec => []ControlsTypeOK
<1>1. ControlsIInv => ControlsTypeOK
  BY DEF ControlsIInv
<1> QED BY <1>1, ControlsInductive, PTL

(* Controls that share a key show the store's value, for any number of toggles,  *)
(* n-state buttons and steppers of any values, made and destroyed in any order:  *)
(* all of them but those whose own values do not tell their states apart         *)
(* (CfgAttribStore::set).                                                        *)
THEOREM Agreement == ControlsSpec => []ControlsAgree
<1>1. ControlsIInv => ControlsAgree
  BY DEF ControlsIInv
<1> QED BY <1>1, ControlsInductive, PTL

(* When a click takes an n-state button to its next state and when it does not,   *)
(* for any number of states and any cfgvals, none among them                     *)
(* (NStatesButtonWidget::cycleOnRelease).                                        *)
THEOREM Advances == ControlsSpec => ClickAdvances
<1>1. ControlsIInv /\ [ControlsNext]_controlVars =>
        [\A w \in States : ClickStates(w) =>
            (state'[w] = NextState(w) <=>
                \/ ReadsBack(w, NextState(w))
                \/ store[KeyOf[w]] = stateToValue(w, NextState(w)))]_controlVars
  BY ClickStatesStep
<1> QED BY <1>1, ControlsInductive, PTL DEF ControlsSpec, ClickAdvances

-----------------------------------------------------------------------------
(* The pointer.                                                                  *)

(* Who may be captured and lit, where the window is, and what a grip holds.      *)
PointerTypeOK ==
    /\ surface \in Surface
    /\ mouse \in Int \X Int
    /\ geom \in Rectangle
    /\ loads \in Nat
    /\ activeWidget \in {Nobody} \cup ((Slider \cup Holder) \X Nat)
    /\ hover \in {Nobody} \cup (Widget \X Nat)
    /\ lit \subseteq Widget
    /\ sliding \subseteq Slider

LEMMA InitTyped == PointerInit => PointerTypeOK
    BY PointerAssumption DEF PointerInit, PointerTypeOK, Surface

LEMMA StepTyped == PointerTypeOK /\ [PointerNext]_pointerVars => PointerTypeOK'
<1> SUFFICES ASSUME PointerTypeOK, [PointerNext]_pointerVars PROVE PointerTypeOK'
    OBVIOUS
<1> USE PointerAssumption DEF PointerTypeOK, Widget
<1>1. CASE mousePressEvent
    <2>1. UNCHANGED <<surface, mouse, geom, loads, hover>>
        BY <1>1 DEF mousePressEvent
    <2>2. ASSUME NEW w \in Hit(mouse), NEW menu \in BOOLEAN, Capture(w, menu)
          PROVE  /\ activeWidget' \in (Slider \cup Holder) \X Nat
                 /\ sliding' \subseteq Slider
                 /\ lit' = lit
        BY <2>2 DEF Capture, CapturesMouse
    <2>3. ASSUME NEW menu, dispatchClickAt(menu) \/ BeginManual(menu)
          PROVE  UNCHANGED <<activeWidget, lit, sliding>>
        BY <2>3 DEF dispatchClickAt, BeginManual, controls
    <2> QED BY <1>1, <2>1, <2>2, <2>3 DEF mousePressEvent
<1>2. CASE OtherPress
    BY <1>2 DEF OtherPress, controls
<1>3. ASSUME NEW p \in Spot, mouseMoveEvent(p) PROVE PointerTypeOK'
    <2>1. /\ mouse' = p /\ UNCHANGED <<surface, loads, activeWidget, hover>>
        BY <1>3 DEF mouseMoveEvent
    <2>2. sliding' = sliding /\ lit' \subseteq Widget
        <3>1. CASE activeWidget = Nobody
            BY <1>3, <3>1 DEF mouseMoveEvent, controls
        <3>2. CASE activeWidget # Nobody
            <4>1. onMouseMove(activeWidget[1], p) /\ activeWidget[1] \in Widget
                BY <1>3, <3>2 DEF mouseMoveEvent
            <4> QED BY <4>1 DEF onMouseMove
        <3> QED BY <3>1, <3>2
    <2>3. geom' \in Rectangle
        BY <1>3 DEF mouseMoveEvent
    <2> QED BY <2>1, <2>2, <2>3
<1>4. ASSUME NEW b, mouseReleaseEvent(b) PROVE PointerTypeOK'
    BY <1>4 DEF mouseReleaseEvent, EndCapture
<1>5. ASSUME NEW p \in Spot, hoverMoveEvent(p) PROVE PointerTypeOK'
    <2>1. mouse' = p /\ UNCHANGED <<surface, geom, loads, activeWidget>>
        BY <1>5 DEF hoverMoveEvent
    <2>2. sliding' = sliding
        BY <1>5 DEF hoverMoveEvent, controls
    <2> DEFINE found == CHOOSE w \in Hit(p) : TRUE
    <2>3. Hit(p) # {} => found \in Widget
        BY DEF Hit
    <2>4. /\ \/ hover' \in {Nobody, hover}
             \/ Hit(p) # {} /\ hover' = <<found, loads>>
          /\ \/ lit' \subseteq lit
             \/ Hit(p) # {} /\ lit' \subseteq lit \cup {found}
        <3> HIDE DEF found
        <3>1. CASE UNCHANGED <<hover, controls>>
            BY <3>1 DEF controls
        <3>2. CASE Hit(p) = {} /\ ~UNCHANGED <<hover, controls>>
            BY <1>5, <3>2 DEF hoverMoveEvent
        <3>3. CASE Hit(p) # {} /\ ~UNCHANGED <<hover, controls>>
            <4> DEFINE now == <<found, loads>>
            <4>1. hover' = now /\ now[1] = found
                BY <1>5, <3>3 DEF hoverMoveEvent, found
            <4>2. now # Nobody
                BY <2>3, <3>3
            <4>3. lit' \subseteq lit \cup {now[1]}
                BY <1>5, <3>3, <4>2 DEF hoverMoveEvent, found
            <4> QED BY <3>3, <4>1, <4>3
        <3> QED BY <3>1, <3>2, <3>3
    <2>5. hover' \in {Nobody} \cup (Widget \X Nat) /\ lit' \subseteq Widget
        <3> HIDE DEF found
        <3> QED BY <2>3, <2>4
    <2> QED BY <2>1, <2>2, <2>5
<1>6. ASSUME NEW p \in Spot, hoverLeaveEvent(p) \/ MoveUnseen(p) PROVE PointerTypeOK'
    BY <1>6 DEF hoverLeaveEvent, MoveUnseen, controls
<1>7. ASSUME NEW d, wheelEvent(d) PROVE PointerTypeOK'
    BY <1>7 DEF wheelEvent, controls
<1>8. ASSUME NEW s, HostMoves(s) PROVE PointerTypeOK'
    BY <1>8 DEF HostMoves, controls
<1>9. CASE load
    BY <1>9 DEF load
<1>10. CASE UNCHANGED pointerVars
    BY <1>10 DEF pointerVars, controls
<1> QED BY <1>1, <1>2, <1>3, <1>4, <1>5, <1>6, <1>7, <1>8, <1>9, <1>10 DEF PointerNext

-----------------------------------------------------------------------------
(* A slider that slides has the press, and the button is down.                   *)
SlidersHeld == \A s \in sliding : "left" \in held /\ activeWidget = <<s, loads>>

LEMMA StepSlidersHeld ==
    PointerTypeOK /\ SlidersHeld /\ [PointerNext]_pointerVars => SlidersHeld'
<1> SUFFICES ASSUME PointerTypeOK, SlidersHeld, [PointerNext]_pointerVars PROVE SlidersHeld'
    OBVIOUS
<1> USE PointerAssumption DEF PointerTypeOK, SlidersHeld
<1>1. ASSUME UNCHANGED <<sliding, activeWidget, loads>>, sliding # {} => "left" \in held'
      PROVE  SlidersHeld'
    BY <1>1
<1>2. CASE mousePressEvent
    <2>1. sliding = {} /\ loads' = loads
        BY <1>2 DEF mousePressEvent
    <2>2. ASSUME NEW w \in Hit(mouse), NEW menu \in BOOLEAN, Capture(w, menu)
          PROVE  SlidersHeld'
        <3>1. CASE w \in Slider
            <4>1. sliding' = {w} /\ activeWidget' = <<w, loads>> /\ held' = held \cup {"left"}
                BY <2>1, <2>2, <3>1 DEF Capture
            <4> QED BY <2>1, <4>1
        <3>2. CASE w \notin Slider
            BY <2>1, <2>2, <3>2 DEF Capture
        <3> QED BY <3>1, <3>2
    <2>3. ASSUME NEW menu, dispatchClickAt(menu) \/ BeginManual(menu)
          PROVE  SlidersHeld'
        BY <2>1, <2>3 DEF dispatchClickAt, BeginManual, controls
    <2> QED BY <1>2, <2>2, <2>3 DEF mousePressEvent
<1>3. CASE OtherPress
    BY <1>3 DEF OtherPress, controls
<1>4. ASSUME NEW p, mouseMoveEvent(p) PROVE SlidersHeld'
    BY <1>1, <1>4 DEF mouseMoveEvent, onMouseMove, controls
<1>5. ASSUME NEW b, mouseReleaseEvent(b) PROVE SlidersHeld'
    <2>1. CASE surface = "player" /\ "left" \notin held
        BY <1>5, <2>1 DEF mouseReleaseEvent
    <2>2. CASE ~(surface = "player" /\ "left" \notin held)
        <3>1. EndCapture
            BY <1>5, <2>2 DEF mouseReleaseEvent
        <3>2. sliding' = {}
            <4>1. CASE activeWidget = Nobody
                <5>1. \A s \in sliding : <<s, loads>> \in Widget \X Nat
                    BY DEF Widget
                <5> QED BY <3>1, <4>1, <5>1 DEF EndCapture
            <4>2. CASE activeWidget # Nobody
                BY <3>1, <4>2 DEF EndCapture
            <4> QED BY <4>1, <4>2
        <3> QED BY <3>2
    <2> QED BY <2>1, <2>2
<1>6. ASSUME NEW p, hoverMoveEvent(p) \/ hoverLeaveEvent(p) \/ MoveUnseen(p)
      PROVE  SlidersHeld'
    BY <1>1, <1>6 DEF hoverMoveEvent, hoverLeaveEvent, MoveUnseen, controls
<1>7. ASSUME NEW d, NEW s, wheelEvent(d) \/ HostMoves(s) PROVE SlidersHeld'
    BY <1>1, <1>7 DEF wheelEvent, HostMoves, controls
<1>8. CASE load
    BY <1>8 DEF load
<1>9. CASE UNCHANGED pointerVars
    BY <1>1, <1>9 DEF pointerVars, controls
<1> QED BY <1>2, <1>3, <1>4, <1>5, <1>6, <1>7, <1>8, <1>9 DEF PointerNext

(* A thumb shows the host's value unless the left button is down on it.          *)
THEOREM ThumbsFollowTheHost == PointerSpec => []ThumbsTellTheHost
<1>1. PointerInit => PointerTypeOK /\ SlidersHeld
    BY InitTyped DEF PointerInit, SlidersHeld
<1>2. PointerTypeOK /\ SlidersHeld /\ [PointerNext]_pointerVars => (PointerTypeOK /\ SlidersHeld)'
    BY StepTyped, StepSlidersHeld
<1>3. SlidersHeld => ThumbsTellTheHost
    BY DEF SlidersHeld, ThumbsTellTheHost, readPosition
<1> QED BY <1>1, <1>2, <1>3, PTL DEF PointerSpec

-----------------------------------------------------------------------------
(* The slider that has the press slides, unless its tree is gone.                *)
PressedSlides ==
    activeWidget # Nobody =>
        /\ activeWidget[2] <= loads
        /\ activeWidget[2] = loads /\ activeWidget[1] \in Slider => activeWidget[1] \in sliding

LEMMA StepPressedSlides ==
    PointerTypeOK /\ PressedSlides /\ [PointerNext]_pointerVars => PressedSlides'
<1> SUFFICES ASSUME PointerTypeOK, PressedSlides, [PointerNext]_pointerVars PROVE PressedSlides'
    OBVIOUS
<1> USE PointerAssumption DEF PointerTypeOK, PressedSlides
<1>1. ASSUME UNCHANGED <<sliding, activeWidget, loads>> PROVE PressedSlides'
    BY <1>1
<1>2. CASE mousePressEvent
    <2>1. loads' = loads
        BY <1>2 DEF mousePressEvent
    <2>2. ASSUME NEW w \in Hit(mouse), NEW menu \in BOOLEAN, Capture(w, menu)
          PROVE  PressedSlides'
        <3>1. activeWidget' = <<w, loads>> /\ (w \in Slider => sliding' = sliding \cup {w})
            BY <2>2 DEF Capture
        <3> QED BY <2>1, <3>1
    <2>3. ASSUME NEW menu, dispatchClickAt(menu) \/ BeginManual(menu)
          PROVE  PressedSlides'
        <3>1. UNCHANGED <<activeWidget, sliding>>
            BY <2>3 DEF dispatchClickAt, BeginManual, controls
        <3> QED BY <1>1, <2>1, <3>1
    <2> QED BY <1>2, <2>2, <2>3 DEF mousePressEvent
<1>3. CASE OtherPress
    BY <1>1, <1>3 DEF OtherPress, controls
<1>4. ASSUME NEW p, mouseMoveEvent(p) PROVE PressedSlides'
    BY <1>1, <1>4 DEF mouseMoveEvent, onMouseMove, controls
<1>5. ASSUME NEW b, mouseReleaseEvent(b) PROVE PressedSlides'
    <2>1. CASE surface = "player" /\ "left" \notin held
        BY <1>1, <1>5, <2>1 DEF mouseReleaseEvent
    <2>2. CASE ~(surface = "player" /\ "left" \notin held)
        BY <1>5, <2>2 DEF mouseReleaseEvent, EndCapture
    <2> QED BY <2>1, <2>2
<1>6. ASSUME NEW p, hoverMoveEvent(p) \/ hoverLeaveEvent(p) \/ MoveUnseen(p)
      PROVE  PressedSlides'
    BY <1>1, <1>6 DEF hoverMoveEvent, hoverLeaveEvent, MoveUnseen, controls
<1>7. ASSUME NEW d, NEW s, wheelEvent(d) \/ HostMoves(s) PROVE PressedSlides'
    BY <1>1, <1>7 DEF wheelEvent, HostMoves, controls
<1>8. CASE load
    BY <1>8 DEF load
<1>9. CASE UNCHANGED pointerVars
    BY <1>1, <1>9 DEF pointerVars, controls
<1> QED BY <1>2, <1>3, <1>4, <1>5, <1>6, <1>7, <1>8, <1>9 DEF PointerNext

LEMMA StepLit ==
    PointerTypeOK /\ PressedSlides /\ LitWillBeCleared /\ [PointerNext]_pointerVars => LitWillBeCleared'
<1> SUFFICES ASSUME PointerTypeOK, PressedSlides, LitWillBeCleared, [PointerNext]_pointerVars
             PROVE  LitWillBeCleared'
    OBVIOUS
<1> USE PointerAssumption DEF LitWillBeCleared
<1>1. ASSUME UNCHANGED <<lit, hover, loads>> PROVE LitWillBeCleared'
    BY <1>1
<1>2. CASE mousePressEvent
    BY <1>1, <1>2 DEF mousePressEvent, Capture, dispatchClickAt, BeginManual, controls
<1>3. CASE OtherPress
    BY <1>1, <1>3 DEF OtherPress, controls
<1>4. ASSUME NEW p, mouseMoveEvent(p) PROVE LitWillBeCleared'
    <2>1. UNCHANGED <<hover, loads>>
        BY <1>4 DEF mouseMoveEvent
    <2>2. lit' = lit
        <3>1. CASE activeWidget = Nobody
            BY <1>4, <3>1 DEF mouseMoveEvent, controls
        <3>2. CASE activeWidget # Nobody
            <4>1. activeWidget[2] = loads /\ onMouseMove(activeWidget[1], p)
                BY <1>4, <3>2 DEF mouseMoveEvent
            <4>2. activeWidget[1] \in sliding \/ activeWidget[1] \in Holder
                BY <3>2, <4>1 DEF PointerTypeOK, PressedSlides
            <4> QED BY <4>1, <4>2 DEF onMouseMove
        <3> QED BY <3>1, <3>2
    <2> QED BY <1>1, <2>1, <2>2
<1>5. ASSUME NEW b, mouseReleaseEvent(b) PROVE LitWillBeCleared'
    BY <1>1, <1>5 DEF mouseReleaseEvent
<1>6. ASSUME NEW p, hoverMoveEvent(p) PROVE LitWillBeCleared'
    <2> DEFINE now == IF Hit(p) = {} THEN Nobody ELSE <<CHOOSE w \in Hit(p) : TRUE, loads>>
               left == {hover} \ {Nobody, now}
               dark == lit \ {l[1] : l \in left}
    <2>1. loads' = loads
        BY <1>6 DEF hoverMoveEvent
    <2>2. CASE UNCHANGED <<hover, controls>>
        BY <1>1, <2>1, <2>2 DEF controls
    <2>3. CASE /\ hover' = now
               /\ \/ lit' = dark
                  \/ now # Nobody /\ lit' = dark \cup ({now[1]} \ (Holder \cup sliding))
        <3>1. \A w \in dark : now = <<w, loads>>
            <4> SUFFICES ASSUME NEW w \in dark PROVE now = <<w, loads>>
                OBVIOUS
            <4>1. hover = <<w, loads>>
                OBVIOUS
            <4>2. hover # Nobody
                <5>1. hover[1] = w /\ loads \in Nat
                    BY <4>1 DEF PointerTypeOK
                <5>2. CASE hover = Nobody
                    <6>1. w \in Widget
                        BY DEF PointerTypeOK
                    <6> QED BY <4>1, <5>1, <5>2, <6>1
                <5> QED BY <5>2
            <4>3. hover = now
                <5>1. hover \notin left
                    <6> HIDE DEF left
                    <6>1. hover[1] = w
                        BY <4>1
                    <6> QED BY <6>1
                <5> QED BY <4>2, <5>1
            <4> QED BY <4>1, <4>3
        <3>2. now # Nobody => now = <<now[1], loads>>
            OBVIOUS
        <3> HIDE DEF now, dark
        <3>3. ASSUME NEW w \in lit' PROVE now = <<w, loads>>
            <4>1. w \in dark \/ (now # Nobody /\ w = now[1])
                BY <2>3
            <4> QED BY <3>1, <3>2, <4>1
        <3> QED BY <2>1, <2>3, <3>3
    <2> QED BY <1>6, <2>2, <2>3 DEF hoverMoveEvent
<1>7. ASSUME NEW p, hoverLeaveEvent(p) PROVE LitWillBeCleared'
    BY <1>7 DEF hoverLeaveEvent
<1>8. ASSUME NEW p, NEW d, NEW s, MoveUnseen(p) \/ wheelEvent(d) \/ HostMoves(s)
      PROVE  LitWillBeCleared'
    BY <1>1, <1>8 DEF MoveUnseen, wheelEvent, HostMoves, controls
<1>9. CASE load
    BY <1>9 DEF load
<1>10. CASE UNCHANGED pointerVars
    BY <1>1, <1>10 DEF pointerVars, controls
<1> QED BY <1>2, <1>3, <1>4, <1>5, <1>6, <1>7, <1>8, <1>9, <1>10 DEF PointerNext

(* No widget stays lit after the pointer has left it.                            *)
THEOREM NobodyStaysLit == PointerSpec => []LitWillBeCleared
<1>1. PointerInit => PointerTypeOK /\ PressedSlides /\ LitWillBeCleared
    BY InitTyped DEF PointerInit, PressedSlides, LitWillBeCleared
<1>2. PointerTypeOK /\ PressedSlides /\ LitWillBeCleared /\ [PointerNext]_pointerVars
      => (PointerTypeOK /\ PressedSlides /\ LitWillBeCleared)'
    BY StepTyped, StepPressedSlides, StepLit
<1> QED BY <1>1, <1>2, PTL DEF PointerSpec

-----------------------------------------------------------------------------
(* While nothing has the press and the window is in hand, it has not moved since *)
(* the press, or is where the last move has put it.                              *)
Delta == <<mouse[1] - grip.at[1], mouse[2] - grip.at[2]>>

OneOfEach == ~({"left", "right"} \subseteq edges) /\ ~({"top", "bottom"} \subseteq edges)

InHand ==
    edges # {} \/ dragging =>
        /\ "left" \in held
        /\ edges = {} \/ ~dragging
        /\ grip.at \in Int \X Int /\ grip.geom \in Rectangle
        /\ OneOfEach
        /\ activeWidget = Nobody =>
              \/ mouse = grip.at /\ geom = grip.geom
              \/ edges # {} /\ geom = Resized(grip.geom, Delta)
              \/ dragging /\ geom = Moved(grip.geom, Delta)

LEMMA EdgesOfOneCorner ==
    ASSUME PointerAssumption, NEW p
    PROVE  /\ resizeEdgesAt(p) \subseteq Side
           /\ ~({"left", "right"} \subseteq resizeEdgesAt(p))
           /\ ~({"top", "bottom"} \subseteq resizeEdgesAt(p))
    BY DEF resizeEdgesAt, Side

LEMMA StepInHand ==
    PointerTypeOK /\ InHand /\ [PointerNext]_pointerVars => InHand'
<1> SUFFICES ASSUME PointerTypeOK, InHand, [PointerNext]_pointerVars PROVE InHand'
    OBVIOUS
<1> USE PointerAssumption
<1>1. ASSUME UNCHANGED <<surface, mouse, geom, edges, dragging, grip>>,
             "left" \in held => "left" \in held', activeWidget' = Nobody => activeWidget = Nobody
      PROVE  InHand'
    BY <1>1 DEF InHand, OneOfEach, Resized, Moved, Delta, Larger
<1>2. CASE mousePressEvent
    <2>1. edges = {} /\ ~dragging /\ UNCHANGED <<surface, mouse, geom>>
        BY <1>2 DEF mousePressEvent, InHand
    <2>2. ASSUME UNCHANGED <<edges, dragging>> PROVE InHand'
        BY <2>1, <2>2 DEF InHand
    <2>3. ASSUME NEW w, NEW menu, Capture(w, menu) \/ dispatchClickAt(menu)
          PROVE  InHand'
        BY <2>2, <2>3 DEF Capture, dispatchClickAt
    <2>4. ASSUME NEW native, BeginManual(native) PROVE InHand'
        <3>1. CASE native
            BY <2>2, <2>4, <3>1 DEF BeginManual
        <3>2. CASE ~native
            <4>1. /\ "left" \in held'
                  /\ edges' = resizeEdgesAt(mouse)
                  /\ edges' = {} \/ ~dragging'
                  /\ grip'.at = mouse /\ grip'.geom = geom
                <5> DEFINE found == resizeEdgesAt(mouse)
                <5>1. /\ held' = held \cup {"left"}
                      /\ edges' = IF found # {} THEN found ELSE edges
                      /\ dragging' = IF found # {} THEN dragging ELSE TRUE
                      /\ grip' = [at |-> mouse, geom |-> geom]
                    BY <2>4, <3>2 DEF BeginManual
                <5> HIDE DEF found
                <5>2. edges' = found /\ (edges' = {} \/ ~dragging')
                    BY <2>1, <5>1
                <5>3. grip'.at = mouse /\ grip'.geom = geom
                    BY <5>1
                <5> QED BY <5>1, <5>2, <5>3 DEF found
            <4>2. mouse \in Int \X Int /\ geom \in Rectangle
                BY DEF PointerTypeOK
            <4>3. OneOfEach'
                BY <4>1, EdgesOfOneCorner DEF OneOfEach
            <4> QED BY <2>1, <4>1, <4>2, <4>3 DEF InHand
        <3> QED BY <3>1, <3>2
    <2> QED BY <1>2, <2>3, <2>4 DEF mousePressEvent
<1>3. CASE OtherPress
    BY <1>1, <1>3 DEF OtherPress, manual
<1>4. ASSUME NEW p \in Spot, mouseMoveEvent(p) PROVE InHand'
    <2>1. UNCHANGED <<surface, held, activeWidget, dragging, edges, grip>> /\ mouse' = p
        BY <1>4 DEF mouseMoveEvent, manual
    <2>2. OneOfEach' = OneOfEach
        BY <2>1 DEF OneOfEach
    <2>3. CASE activeWidget # Nobody
        BY <2>1, <2>2, <2>3 DEF InHand
    <2>4. CASE activeWidget = Nobody
        <3>1. Delta' = <<p[1] - grip.at[1], p[2] - grip.at[2]>>
            BY <2>1 DEF Delta
        <3>2. edges # {} => geom' = Resized(grip.geom, Delta')
            BY <1>4, <2>4, <3>1 DEF mouseMoveEvent
        <3>3. edges = {} /\ dragging => geom' = Moved(grip.geom, Delta')
            BY <1>4, <2>4, <3>1 DEF mouseMoveEvent
        <3>4. Resized(grip.geom, Delta)' = Resized(grip.geom, Delta')
            BY <2>1 DEF Resized, Larger
        <3>5. Moved(grip.geom, Delta)' = Moved(grip.geom, Delta')
            BY <2>1 DEF Moved
        <3> HIDE DEF Delta
        <3> QED BY <2>1, <2>2, <3>2, <3>3, <3>4, <3>5 DEF InHand
    <2> QED BY <2>3, <2>4
<1>5. ASSUME NEW b, mouseReleaseEvent(b) PROVE InHand'
    <2>1. CASE surface = "player" /\ "left" \notin held
        <3>1. edges = {} /\ ~dragging /\ UNCHANGED <<edges, dragging>>
            BY <1>5, <2>1 DEF mouseReleaseEvent, InHand
        <3> QED BY <3>1 DEF InHand
    <2>2. CASE ~(surface = "player" /\ "left" \notin held)
        <3>1. edges' = {} /\ dragging' = FALSE
            BY <1>5, <2>2 DEF mouseReleaseEvent
        <3> QED BY <3>1 DEF InHand
    <2> QED BY <2>1, <2>2
<1>6. ASSUME NEW p, hoverMoveEvent(p) \/ hoverLeaveEvent(p) \/ MoveUnseen(p)
      PROVE  InHand'
    <2>1. held = {} /\ UNCHANGED <<edges, dragging>>
        BY <1>6 DEF hoverMoveEvent, hoverLeaveEvent, MoveUnseen, manual
    <2> QED BY <2>1 DEF InHand
<1>7. ASSUME NEW d, NEW s, wheelEvent(d) \/ HostMoves(s) \/ load PROVE InHand'
    BY <1>1, <1>7 DEF wheelEvent, HostMoves, load, manual
<1>8. CASE UNCHANGED pointerVars
    BY <1>1, <1>8 DEF pointerVars, manual
<1> QED BY <1>2, <1>3, <1>4, <1>5, <1>6, <1>7, <1>8 DEF PointerNext

(* The four sides and the origin of a window in hand.                            *)
LEMMA ResizedSides ==
    ASSUME PointerAssumption, PointerTypeOK, OneOfEach,
           NEW g \in Rectangle, NEW dx \in Int, NEW dy \in Int, NEW r, r = Resized(g, <<dx, dy>>)
    PROVE  /\ r.x = g.x + dx \/ "left" \notin edges \/ r.w = MINW[surface]
           /\ r.x = g.x \/ "left" \in edges
           /\ r.x + r.w = g.x + g.w + dx \/ "right" \notin edges \/ r.w = MINW[surface]
           /\ r.x + r.w = g.x + g.w \/ "right" \in edges
           /\ r.y = g.y + dy \/ "top" \notin edges \/ r.h = MINH[surface]
           /\ r.y = g.y \/ "top" \in edges
           /\ r.y + r.h = g.y + g.h + dy \/ "bottom" \notin edges \/ r.h = MINH[surface]
           /\ r.y + r.h = g.y + g.h \/ "bottom" \in edges
<1>1. g.x \in Int /\ g.y \in Int /\ g.w \in Int /\ g.h \in Int
    BY PointerAssumption DEF Rectangle
<1>2. MINW[surface] \in Int /\ MINH[surface] \in Int
    BY PointerAssumption DEF PointerTypeOK
<1> DEFINE w == CASE "right" \in edges -> Larger(MINW[surface], g.w + dx)
                  [] "left" \in edges -> Larger(MINW[surface], g.w - dx)
                  [] OTHER -> g.w
           h == CASE "bottom" \in edges -> Larger(MINH[surface], g.h + dy)
                  [] "top" \in edges -> Larger(MINH[surface], g.h - dy)
                  [] OTHER -> g.h
<1>3. /\ r.w = w /\ r.x = IF "left" \in edges THEN g.x + g.w - w ELSE g.x
      /\ r.h = h /\ r.y = IF "top" \in edges THEN g.y + g.h - h ELSE g.y
    BY DEF Resized
<1>4. /\ "right" \in edges => w = g.w + dx \/ w = MINW[surface]
      /\ "left" \in edges => w = g.w - dx \/ w = MINW[surface]
      /\ "right" \notin edges /\ "left" \notin edges => w = g.w
      /\ w \in Int
    BY <1>1, <1>2 DEF OneOfEach, Larger
<1>5. /\ "bottom" \in edges => h = g.h + dy \/ h = MINH[surface]
      /\ "top" \in edges => h = g.h - dy \/ h = MINH[surface]
      /\ "bottom" \notin edges /\ "top" \notin edges => h = g.h
      /\ h \in Int
    BY <1>1, <1>2 DEF OneOfEach, Larger
<1> HIDE DEF w, h
<1> QED BY <1>1, <1>2, <1>3, <1>4, <1>5 DEF OneOfEach

(* A manual resize moves the sides that are gripped and no other, a move is      *)
(* rigid.                                                                        *)
THEOREM WindowFollows == PointerSpec => []FollowsTheGrip
<1>1. PointerInit => PointerTypeOK /\ InHand
    BY InitTyped DEF PointerInit, InHand
<1>2. PointerTypeOK /\ InHand /\ [PointerNext]_pointerVars => (PointerTypeOK /\ InHand)'
    BY StepTyped, StepInHand
<1>3. PointerTypeOK /\ InHand => FollowsTheGrip
    <2> SUFFICES ASSUME PointerTypeOK, InHand, activeWidget = Nobody, edges # {} \/ dragging
                 PROVE  FollowsTheGrip
        BY DEF FollowsTheGrip
    <2>1. /\ grip.at[1] \in Int /\ grip.at[2] \in Int /\ mouse[1] \in Int /\ mouse[2] \in Int
          /\ grip.geom \in Rectangle /\ OneOfEach /\ (edges = {} \/ ~dragging)
        BY DEF InHand, PointerTypeOK
    <2> DEFINE g == grip.geom
               dx == mouse[1] - grip.at[1]
               dy == mouse[2] - grip.at[2]
    <2>2. g.x \in Int /\ g.y \in Int /\ g.w \in Int /\ g.h \in Int
        BY <2>1, PointerAssumption DEF Rectangle
    <2>3. CASE mouse = grip.at /\ geom = grip.geom
        <3>1. dx = 0 /\ dy = 0
            BY <2>1, <2>3
        <3>2. Moved(g, <<0, 0>>) = g
            <4>1. g.x + <<0, 0>>[1] = g.x /\ g.y + <<0, 0>>[2] = g.y
                BY <2>2
            <4>2. Moved(g, <<0, 0>>) = [g EXCEPT !.x = g.x, !.y = g.y]
                BY <4>1 DEF Moved
            <4>3. g = [f \in {"x", "y", "w", "h"} |-> g[f]]
                BY <2>1 DEF Rectangle
            <4> HIDE DEF g
            <4> QED BY <4>2, <4>3
        <3> QED BY <2>2, <2>3, <3>1, <3>2 DEF FollowsTheGrip
    <2>4. CASE edges # {} /\ geom = Resized(grip.geom, Delta)
        <3>1. dx \in Int /\ dy \in Int /\ geom = Resized(g, <<dx, dy>>)
            BY <2>1, <2>4 DEF Delta
        <3> QED BY <2>1, <2>4, <3>1, ResizedSides, PointerAssumption DEF FollowsTheGrip
    <2>5. CASE dragging /\ geom = Moved(grip.geom, Delta)
        BY <2>1, <2>5 DEF FollowsTheGrip, Delta
    <2> QED BY <2>3, <2>4, <2>5 DEF InHand
<1> QED BY <1>1, <1>2, <1>3, PTL DEF PointerSpec
-----------------------------------------------------------------------------
(* The wheel over a list.                                                        *)

(* A remainder is less than a notch, and of the sign of the turn.                *)
LEMMA LessThanANotch ==
    ASSUME NEW n \in Int
    PROVE  Notch * Truncated(n) \in Int /\ n - Notch * Truncated(n) \in -(Notch - 1) .. Notch - 1
<1>1. Notch \in Nat \ {0}
  BY PointerAssumption
<1>2. ASSUME NEW m \in Nat, NEW k \in Nat \ {0}
      PROVE  /\ m \div k \in Nat /\ k * (m \div k) \in Int
             /\ m - k * (m \div k) \in 0 .. k - 1
  BY Z3
<1>3. CASE n >= 0
  <2>1. /\ Notch * (n \div Notch) \in Int
        /\ n - Notch * (n \div Notch) \in 0 .. Notch - 1
    BY <1>1, <1>2, <1>3
  <2>2. Truncated(n) = n \div Notch
    BY <1>3 DEF Truncated
  <2> QED BY <1>1, <2>1, <2>2
<1>4. CASE n < 0
  <2> DEFINE q == (-n) \div Notch
  <2>0. -n \in Nat
    BY <1>4
  <2>1. q \in Nat /\ (-n) - Notch * q \in 0 .. Notch - 1
    <3> DEFINE m == -n
    <3> HIDE DEF m
    <3>1. m \in Nat
      BY <2>0 DEF m
    <3>2. m \div Notch \in Nat /\ m - Notch * (m \div Notch) \in 0 .. Notch - 1
      BY <1>1, <1>2, <3>1
    <3> QED BY <3>2 DEF m
  <2>2. Truncated(n) = -q
    BY <1>4 DEF Truncated
  <2> HIDE DEF q
  <2>3. Notch * (-q) = -(Notch * q) /\ Notch * q \in Int
    BY <1>1, <2>1, Z3
  <2> QED BY <1>1, <2>0, <2>1, <2>2, <2>3
<1> QED BY <1>3, <1>4

(* What is owed of a wheel's turn is kept, and is less than a notch.             *)
WheelInv == accum \in Int /\ owed = accum /\ accum \in -(Notch - 1) .. Notch - 1

(* Only the wheel touches it.                                                    *)
LEMMA StepWheel == WheelInv /\ [PointerNext]_pointerVars => WheelInv'
<1> SUFFICES ASSUME WheelInv, [PointerNext]_pointerVars PROVE WheelInv'
  OBVIOUS
<1>1. Notch \in Nat \ {0} /\ Turn \subseteq Int
  BY PointerAssumption
<1>2. ASSUME NEW d \in Turn, wheelEvent(d) PROVE WheelInv'
  <2>1. CASE accumulate(d)
    <3> DEFINE n == accum + d
    <3>0. n \in Int /\ owed = accum
      BY <1>1 DEF WheelInv
    <3>1. /\ accum' = accum + (d - Notch * Truncated(n))
          /\ owed' = owed + (d - Notch * Truncated(n))
      BY <2>1 DEF accumulate
    <3>2. /\ Notch * Truncated(n) \in Int
          /\ n - Notch * Truncated(n) \in -(Notch - 1) .. Notch - 1
      <4> HIDE DEF n
      <4> QED BY <3>0, LessThanANotch
    <3>3. accum' = n - Notch * Truncated(n) /\ owed' = accum'
      BY <1>1, <3>0, <3>1, <3>2 DEF WheelInv
    <3> HIDE DEF n
    <3> QED BY <1>1, <3>2, <3>3 DEF WheelInv
  <2>2. CASE accum' = 0 /\ owed' = 0
    BY <1>1, <2>2 DEF WheelInv
  <2> QED BY <1>2, <2>1, <2>2 DEF wheelEvent
<1>3. CASE UNCHANGED wheel
  BY <1>3 DEF wheel, WheelInv
<1>4. (mousePressEvent \/ OtherPress \/ load \/ UNCHANGED pointerVars) => UNCHANGED wheel
  BY DEF mousePressEvent, OtherPress, load, pointerVars
<1>5. ASSUME NEW p, mouseMoveEvent(p) \/ hoverMoveEvent(p) \/ hoverLeaveEvent(p) \/ MoveUnseen(p)
      PROVE  UNCHANGED wheel
  BY <1>5 DEF mouseMoveEvent, hoverMoveEvent, hoverLeaveEvent, MoveUnseen
<1>6. ASSUME NEW x, mouseReleaseEvent(x) \/ HostMoves(x) PROVE UNCHANGED wheel
  BY <1>6 DEF mouseReleaseEvent, HostMoves
<1> QED BY <1>2, <1>3, <1>4, <1>5, <1>6 DEF PointerNext

(* Whatever the notch is and however finely the wheel turns, what it turned over  *)
(* a list is scrolled but for less than a notch, and the remainder is not lost    *)
(* (WheelOwesLessThanANotch).                                                    *)
THEOREM WheelScrollsEverything == PointerSpec => []WheelOwesLessThanANotch
<1>1. PointerInit => WheelInv
  BY PointerAssumption DEF PointerInit, WheelInv
<1>2. WheelInv => WheelOwesLessThanANotch
  BY DEF WheelInv, WheelOwesLessThanANotch
<1> QED BY <1>1, <1>2, StepWheel, PTL DEF PointerSpec

-----------------------------------------------------------------------------
(* The slides of widgets to their targets.                                       *)

-----------------------------------------------------------------------------
(* Sets of objects: the two kinds are disjoint, and a root is a layout.          *)
LEMMA Objects ==
    /\ \A w \in Window : Root(w) \in Object /\ Root(w) \in Layout
    /\ \A o \in Object : o.win \in Window
    /\ \A o \in Object : IsDrawer(o) <=> o \in DrawerWidget
    /\ \A o \in Object : ~IsDrawer(o) => o = Root(o.win)
    /\ \A w \in Window : ~IsDrawer(Root(w))
<1>1. Drawer \subseteq Window
  BY TweenAssumption
<1>2. \A w \in Window : Root(w) \in Layout
  BY DEF Root, Layout
<1>3. \A o \in Layout : o.win \in Window /\ o.kind = "layout" /\ o = [kind |-> "layout", win |-> o.win]
  BY DEF Layout
<1>4. \A o \in DrawerWidget : o.win \in Window /\ o.kind = "drawer"
  BY <1>1 DEF DrawerWidget
<1>5. \A w \in Window : ~IsDrawer(Root(w))
  BY DEF IsDrawer, Root
<1> QED BY <1>2, <1>3, <1>4, <1>5 DEF Object, IsDrawer, Root

(* The stack stays a stack of frames when its innermost frame moves on, when a   *)
(* frame is added and when the innermost one is removed.                         *)
LEMMA Stack ==
    ASSUME frames \in Seq(Frame)
    PROVE  /\ frames # <<>> => Top \in Frame /\ Top.win \in Window /\ Top.prev \in Window
           /\ \A step \in {"run", "snap", "loop"} : frames # <<>> => Frozen(step) \in Seq(Frame)
           /\ \A s \in Seq(Frame) : \A f \in Frame : Append(s, f) \in Seq(Frame)
           /\ frames # <<>> => Front(frames) \in Seq(Frame)
<1>1. frames # <<>> => /\ Len(frames) \in 1..Len(frames)
                       /\ frames[Len(frames)] \in Frame
  OBVIOUS
<1>2. frames # <<>> => Top \in Frame /\ Top.win \in Window /\ Top.prev \in Window
  BY <1>1 DEF Top, Last, Frame
<1>3. ASSUME NEW step \in {"run", "snap", "loop"}, frames # <<>>
      PROVE  Frozen(step) \in Seq(Frame)
  <2>1. [frames[Len(frames)] EXCEPT !.at = step] \in Frame
    BY <1>1, <1>3 DEF Frame
  <2>2. Frozen(step) = [frames EXCEPT ![Len(frames)] = [frames[Len(frames)] EXCEPT !.at = step]]
    BY DEF Frozen
  <2> QED BY <1>1, <1>3, <2>1, <2>2
<1>4. ASSUME frames # <<>> PROVE Front(frames) \in Seq(Frame)
  <2>1. Len(frames) \in Nat \ {0}
    BY <1>4
  <2>2. \A i \in 1..(Len(frames) - 1) : frames[i] \in Frame
    BY <2>1
  <2>3. 1 \in Int /\ Len(frames) - 1 \in Int
    BY <2>1
  <2> QED BY <2>2, <2>3, SubSeqProperties DEF Front
<1> QED BY <1>2, <1>3, <1>4

(* A handler that starts over a stack of frames leaves one.                      *)
LEMMA HandlerType ==
    ASSUME cur \in Window, NEW stack \in Seq(Frame), NEW w \in Window, NEW r \in Window,
           Handler(stack, w, r)
    PROVE  frames' \in Seq(Frame) /\ cur' \in Window
<1>1. [win |-> w, prev |-> cur, at |-> "run"] \in Frame
  BY DEF Frame
<1> QED BY <1>1 DEF Handler

-----------------------------------------------------------------------------
(* Type correctness, with or without the departure.                              *)
THEOREM TweensTyped == Spec => []TypeOK
<1>1. Init => TypeOK
  <2> SUFFICES ASSUME Init PROVE TypeOK
    OBVIOUS
  <2>1. (CHOOSE s \in Size : TRUE) \in Size
    BY TweenAssumption
  <2>2. size \in [Object -> Size]
    BY <2>1 DEF Init
  <2>3. cur \in Window
    BY TweenAssumption DEF Init
  <2> QED BY <2>2, <2>3 DEF Init, TypeOK
<1>2. TypeOK /\ [Next]_vars => TypeOK'
  <2> SUFFICES ASSUME TypeOK, [Next]_vars PROVE TypeOK'
    OBVIOUS
  <2>0. /\ cur \in Window /\ frames \in Seq(Frame)
        /\ size \in [Object -> Size]
        /\ tween \in [Object -> Size \cup {Null}]
        /\ pending \in [Window -> BOOLEAN]
        /\ active \in Nat
        /\ answered \in [Object -> BOOLEAN]
    BY DEF TypeOK
  <2>a. \A step : At(step) => frames # <<>>
    BY DEF At
  <2>b. ASSUME NEW o \in Object, NEW s \in Size, GotoTarget(o, s) PROVE TypeOK'
    <3>0. o.win \in Window
      BY Objects
    <3>1. CASE SnapWidget(o, s)
      BY <2>0, <3>0, <3>1, HandlerType DEF SnapWidget, Fire, TypeOK
    <3>2. CASE AnimateWidget(o, s)
      <4>1. active' \in Nat
        BY <2>0, <3>2 DEF AnimateWidget, Restarted
      <4> QED BY <2>0, <3>2, <4>1 DEF AnimateWidget, Animate, TypeOK
    <3>3. CASE SnapLayout(o, s)
      <4>1. Frozen("snap") \in Seq(Frame)
        BY <2>0, <2>a, <3>3, Stack DEF SnapLayout, Own
      <4> QED BY <2>0, <3>3, <4>1, HandlerType DEF SnapLayout, Fire, TypeOK
    <3>4. CASE AnimateLayout(o, s)
      BY <2>0, <3>4 DEF AnimateLayout, Animate, TypeOK
    <3> QED BY <2>b, <3>1, <3>2, <3>3, <3>4 DEF GotoTarget
  <2>c. ASSUME NEW o \in Object, EndTween(o) PROVE TypeOK'
    <3>0. o.win \in Window /\ \A r \in Window : Root(r) \in Object
      BY Objects
    <3>1. ASSUME End(o)
          PROVE  size' \in [Object -> Size] /\ tween' \in [Object -> Size \cup {Null}]
      BY <2>0, <3>1 DEF End, Running
    <3>2. CASE EndWidget(o)
      <4>1. active' \in Nat
        BY <2>0, <3>2 DEF EndWidget
      <4> QED BY <2>0, <3>0, <3>1, <3>2, <4>1, HandlerType DEF EndWidget, Fire, TypeOK
    <3>3. ASSUME NEW r \in Window, EndUnder(o, r) PROVE TypeOK'
      BY <2>0, <3>0, <3>1, <3>3, HandlerType DEF EndUnder, Fire, TypeOK
    <3> QED BY <2>0, <2>c, <3>0, <3>2, <3>3 DEF EndTween, EndSubwindow, EndPlayer
  <2>1. ASSUME NEW w \in Window, Enter(w) PROVE TypeOK'
    BY <2>0, <2>1, HandlerType DEF Enter, TypeOK
  <2>2. CASE PopupMenu
    BY <2>0, <2>2, <2>a, Stack DEF PopupMenu, TypeOK
  <2>3. CASE PopupDone
    BY <2>0, <2>3, <2>a, Stack DEF PopupDone, TypeOK
  <2>4. CASE Return
    BY <2>0, <2>4, <2>a, Stack DEF Return, TypeOK
  <2>5. CASE SnapDone
    <3>1. Frozen("run") \in Seq(Frame) /\ Root(cur) \in Object
      BY <2>0, <2>5, <2>a, Stack, Objects DEF SnapDone
    <3>2. CASE pending[cur]
      BY <2>0, <2>5, <3>1, <3>2 DEF SnapDone, TypeOK
    <3>3. CASE ~pending[cur]
      BY <2>0, <2>5, <3>1, <3>3, HandlerType DEF SnapDone, Fire, TypeOK
    <3> QED BY <3>2, <3>3
  <2>6. ASSUME NEW o \in Object, Tick(o) PROVE TypeOK'
    BY <2>0, <2>6 DEF Tick, Passes, TypeOK
  <2>7. CASE UNCHANGED vars
    BY <2>7 DEF vars, TypeOK
  <2> QED BY <2>b, <2>c, <2>1, <2>2, <2>3, <2>4, <2>5, <2>6, <2>7 DEF Next
<1> QED BY <1>1, <1>2, PTL DEF Spec

-----------------------------------------------------------------------------
(* The counter.  Restarted leaves the count alone when it replaces a running     *)
(* animation only because the count is then known not to be 0: AnimsCounted is   *)
(* inductive given the types.                                                    *)

LEMMA MovingFinite ==
    ASSUME IsFiniteSet(Window)
    PROVE  /\ IsFiniteSet(Moving)
           /\ Cardinality(Moving) \in Nat
           /\ \A o \in Moving : Cardinality(Moving) > 0
<1>1. IsFiniteSet(Drawer)
  BY FS_Subset, TweenAssumption
<1>2. [d \in Drawer |-> [kind |-> "drawer", win |-> d]] \in Surjection(Drawer, DrawerWidget)
  BY DEF Surjection, DrawerWidget
<1>3. IsFiniteSet(DrawerWidget)
  BY <1>1, <1>2, FS_Surjection
<1>4. IsFiniteSet(Moving)
  BY <1>3, FS_Subset DEF Moving
<1>5. Cardinality(Moving) \in Nat /\ (Cardinality(Moving) = 0 <=> Moving = {})
  BY <1>4, FS_CardinalityType, FS_EmptySet
<1> QED BY <1>4, <1>5

(* widgetAnimationsActive() never drifts from the number of sliding widgets,     *)
(* however gotoTarget calls and animation ends interleave (wq_widget_animate_    *)
(* target).                                                                      *)
THEOREM WidgetsCounted ==
    ASSUME IsFiniteSet(Window)
    PROVE  Spec => []AnimsCounted
<1>1. Init => AnimsCounted
  BY FS_EmptySet DEF Init, AnimsCounted, Moving, Running, Object
<1>2. TypeOK /\ AnimsCounted /\ [Next]_vars => AnimsCounted'
  <2> SUFFICES ASSUME TypeOK, AnimsCounted, [Next]_vars PROVE AnimsCounted'
    OBVIOUS
  <2>0. tween \in [Object -> Size \cup {Null}] /\ active \in Nat /\ Null \notin Size
    BY TweenAssumption DEF TypeOK
  <2>1. /\ active = Cardinality(Moving)
        /\ IsFiniteSet(Moving)
        /\ \A o \in Moving : active > 0
    BY MovingFinite DEF AnimsCounted
  <2>2. \A o \in DrawerWidget : o \in Moving <=> tween[o] # Null
    BY DEF Moving, Running
  <2>3. DrawerWidget \subseteq Object
    BY DEF Object
  <2>a. ASSUME active' = active, \A o \in DrawerWidget : tween'[o] = tween[o]
        PROVE  AnimsCounted'
    <3>1. Moving' = Moving
      BY <2>a DEF Moving, Running
    <3> QED BY <2>1, <2>a, <3>1 DEF AnimsCounted
  <2>b. ASSUME NEW o \in Object, NEW s \in Size, AnimateWidget(o, s) PROVE AnimsCounted'
    <3>1. o \in DrawerWidget
      BY <2>b, Objects DEF AnimateWidget
    <3>2. Moving' = Moving \cup {o}
      BY <2>0, <2>3, <2>b, <3>1 DEF AnimateWidget, Animate, Moving, Running
    <3>3. CASE o \in Moving
      <4>1. active' = active
        BY <2>1, <2>b, <3>3 DEF AnimateWidget, Restarted, Moving
      <4> QED BY <2>1, <3>2, <3>3, <4>1, FS_AddElement DEF AnimsCounted
    <3>4. CASE o \notin Moving
      <4>1. active' = active + 1
        BY <2>2, <2>b, <3>1, <3>4 DEF AnimateWidget, Restarted, Running
      <4> QED BY <2>1, <3>2, <3>4, <4>1, FS_AddElement DEF AnimsCounted
    <3> QED BY <3>3, <3>4
  <2>c. ASSUME NEW o \in Object, EndWidget(o) PROVE AnimsCounted'
    <3>1. o \in DrawerWidget
      BY <2>c, Objects DEF EndWidget
    <3>2. o \in Moving
      BY <2>c, <3>1 DEF EndWidget, End, Moving
    <3>3. Moving' = Moving \ {o}
      BY <2>0, <2>3, <2>c, <3>1 DEF EndWidget, End, Moving, Running
    <3>4. active' = active - 1
      BY <2>1, <2>c, <3>2 DEF EndWidget
    <3> QED BY <2>1, <3>2, <3>3, <3>4, FS_RemoveElement DEF AnimsCounted
  <2>d. ASSUME NEW o \in Object, NEW r \in Window, ~IsDrawer(o), EndUnder(o, r)
        PROVE  AnimsCounted'
    <3>1. o \notin DrawerWidget
      BY <2>d, Objects
    <3>2. \A d \in DrawerWidget : tween'[d] = tween[d]
      BY <2>0, <2>3, <2>d, <3>1 DEF EndUnder, End
    <3> QED BY <2>a, <2>d, <3>2 DEF EndUnder
  <2>e. ASSUME NEW o \in Object, NEW s \in Size, AnimateLayout(o, s) PROVE AnimsCounted'
    <3>1. o \notin DrawerWidget
      BY <2>e DEF AnimateLayout, IsRoot, Root, DrawerWidget
    <3>2. \A d \in DrawerWidget : tween'[d] = tween[d]
      BY <2>0, <2>3, <2>e, <3>1 DEF AnimateLayout, Animate
    <3> QED BY <2>a, <2>e, <3>2 DEF AnimateLayout
  <2>4. CASE \/ \E w \in Window : Enter(w)
             \/ PopupMenu \/ PopupDone \/ Return \/ SnapDone
             \/ \E o \in Object : \E s \in Size : SnapWidget(o, s) \/ SnapLayout(o, s)
             \/ \E o \in Object : Tick(o)
             \/ UNCHANGED vars
    BY <2>4, <2>a DEF Enter, PopupMenu, PopupDone, Return, SnapDone, SnapWidget,
                      SnapLayout, Tick, vars
  <2>5. ASSUME NEW o \in Object, EndTween(o) PROVE AnimsCounted'
    <3>1. o.win \in Window /\ cur \in Window
      BY Objects DEF TypeOK
    <3>2. EndSubwindow(o) \/ EndPlayer(o) => ~IsDrawer(o)
      BY DEF EndSubwindow, EndPlayer, IsDrawer, Root
    <3> QED BY <2>5, <2>c, <2>d, <3>1, <3>2 DEF EndTween, EndSubwindow, EndPlayer
  <2> QED BY <2>b, <2>e, <2>4, <2>5 DEF Next, GotoTarget
<1> QED BY <1>1, <1>2, TweensTyped, PTL DEF Spec

-----------------------------------------------------------------------------
(* The flag.                                                                     *)

(* g_animatedResizePending of a window is up only while its layout is on its     *)
(* way, when no animation ends under a root that is not its window's: the flag   *)
(* the end clears is then the one its start has set (beginAnimatedResize,        *)
(* fireTargetReached).                                                           *)
THEOREM PendingSafe ==
    ASSUME Departures = {}
    PROVE  Spec => []PendingMeansTween
<1>1. Init => PendingMeansTween
  BY DEF Init, PendingMeansTween
<1>2. TypeOK /\ PendingMeansTween /\ [Next]_vars => PendingMeansTween'
  <2> SUFFICES ASSUME TypeOK, PendingMeansTween, [Next]_vars PROVE PendingMeansTween'
    OBVIOUS
  <2>0. /\ cur \in Window /\ Null \notin Size
        /\ tween \in [Object -> Size \cup {Null}]
        /\ pending \in [Window -> BOOLEAN]
    BY TweenAssumption DEF TypeOK
  <2>1. /\ \A w \in Window : Root(w) \in Object
        /\ \A v, w \in Window : Root(v) = Root(w) => v = w
    BY Objects DEF Root
  <2>a. ASSUME \A w \in Window : pending'[w] => pending[w],
               \A w \in Window : pending'[w] => Running(Root(w))'
                                                  \/ tween'[Root(w)] = tween[Root(w)]
        PROVE  PendingMeansTween'
    BY <2>a DEF PendingMeansTween, Running
  <2>b. ASSUME NEW o \in Object, NEW s \in Size, AnimateWidget(o, s)
        PROVE  PendingMeansTween'
    <3>1. \A w \in Window : Root(w) # o
      BY <2>b, Objects DEF AnimateWidget
    <3> QED BY <2>0, <2>1, <2>a, <2>b, <3>1 DEF AnimateWidget, Animate
  <2>c. ASSUME NEW o \in Object, EndWidget(o) PROVE PendingMeansTween'
    <3>1. \A w \in Window : Root(w) # o
      BY <2>c, Objects DEF EndWidget
    <3> QED BY <2>0, <2>1, <2>a, <2>c, <3>1 DEF EndWidget, End
  <2>d. ASSUME NEW r \in Window, EndUnder(Root(r), r) PROVE PendingMeansTween'
    <3>1. \A w \in Window : pending'[w] => pending[w] /\ w # r
      BY <2>0, <2>d DEF EndUnder
    <3>2. \A w \in Window : w # r => tween'[Root(w)] = tween[Root(w)]
      BY <2>0, <2>1, <2>d DEF EndUnder, End
    <3> QED BY <2>a, <3>1, <3>2
  <2>e. ASSUME NEW o \in Object, NEW s \in Size, AnimateLayout(o, s)
        PROVE  PendingMeansTween'
    <3>1. /\ o = Root(cur)
          /\ tween' = [tween EXCEPT ![Root(cur)] = s]
          /\ pending' = [pending EXCEPT ![cur] = TRUE]
      BY <2>e DEF AnimateLayout, Animate, IsRoot
    <3>2. ASSUME NEW w \in Window, pending'[w] PROVE Running(Root(w))'
      <4>1. CASE w = cur
        BY <2>0, <2>1, <3>1, <4>1 DEF Running
      <4>2. CASE w # cur
        <5>1. pending[w] /\ tween'[Root(w)] = tween[Root(w)]
          BY <2>0, <2>1, <3>1, <3>2, <4>2
        <5> QED BY <5>1 DEF PendingMeansTween, Running
      <4> QED BY <4>1, <4>2
    <3> QED BY <3>2 DEF PendingMeansTween
  <2>2. CASE \/ \E w \in Window : Enter(w)
             \/ PopupMenu \/ PopupDone \/ Return \/ SnapDone
             \/ \E o \in Object : \E s \in Size : SnapWidget(o, s)
             \/ \E o \in Object : Tick(o)
             \/ UNCHANGED vars
    BY <2>2, <2>a DEF Enter, PopupMenu, PopupDone, Return, SnapDone, SnapWidget,
                      Tick, vars
  <2>3. ASSUME NEW o \in Object, NEW s \in Size, SnapLayout(o, s) PROVE PendingMeansTween'
    BY <2>0, <2>3, <2>a DEF SnapLayout
  <2>4. ASSUME NEW o \in Object, EndTween(o) PROVE PendingMeansTween'
    <3>1. CASE EndSubwindow(o)
      <4>1. o = Root(o.win) /\ o.win \in Window
        BY <3>1, Objects DEF EndSubwindow, IsDrawer
      <4> QED BY <2>d, <3>1, <4>1 DEF EndSubwindow
    <3>2. CASE EndPlayer(o)
      <4>1. o = Root(Player) /\ cur = Player
        BY <3>2 DEF EndPlayer, Unbracketed, Root
      <4> QED BY <2>0, <2>d, <3>2, <4>1 DEF EndPlayer
    <3> QED BY <2>4, <2>c, <3>1, <3>2 DEF EndTween
  <2> QED BY <2>b, <2>e, <2>2, <2>3, <2>4 DEF Next, GotoTarget
<1> QED BY <1>1, <1>2, TweensTyped, PTL DEF Spec
===============================================================================
