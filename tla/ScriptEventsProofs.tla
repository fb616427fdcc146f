------------------------- MODULE ScriptEventsProofs -------------------------
(* Proofs about ScriptEvents, for any windows, scripts, settings and nesting of  *)
(* dispatches, loads and restarts.                                               *)
EXTENDS ScriptEvents, CollectionLemmas

-----------------------------------------------------------------------------
(* What loading and unloading make of the tables.                                *)

(* Loading a list of references adds each script once.                           *)
LEMMA DistinctFacts ==
    ASSUME NEW q \in Seq(Script)
    PROVE  /\ Distinct(q) \in Seq(Script)
           /\ IsInjective(Distinct(q))
           /\ ToSet(Distinct(q)) = ToSet(q)
<1> DEFINE m == Len(q)
           step == [n \in Nat |-> [v \in Seq(Script) |->
                      IF n + 1 \in 1..m /\ ~Contains(v, q[n + 1]) THEN Append(v, q[n + 1])
                      ELSE v]]
           seen == CHOOSE f : f = [n \in 0..m |->
                      IF n = 0 THEN <<>>
                      ELSE IF Contains(f[n - 1], q[n]) THEN f[n - 1]
                      ELSE Append(f[n - 1], q[n])]
<1>1. m \in Nat /\ \A n \in 1..m : q[n] \in Script
  OBVIOUS
<1>2. step \in [Nat -> [Seq(Script) -> Seq(Script)]]
  BY <1>1
<1>3. <<>> \in Seq(Script)
  OBVIOUS
<1>4. PICK g : RecursionUpTo(g, m, Seq(Script), <<>>, step)
  <2> HIDE DEF step, m
  <2> QED BY <1>1, <1>2, <1>3, RecursionTo
<1>5. /\ g \in [0..m -> Seq(Script)] /\ g[0] = <<>>
      /\ \A n \in 1..m : g[n] = step[n - 1][g[n - 1]]
  BY <1>4 DEF RecursionUpTo
<1>6. ASSUME NEW n \in 1..m
      PROVE  g[n] = IF Contains(g[n - 1], q[n]) THEN g[n - 1] ELSE Append(g[n - 1], q[n])
  <2>1. n - 1 \in Nat /\ n - 1 \in 0..m /\ (n - 1) + 1 = n
    BY <1>1
  <2>2. g[n - 1] \in Seq(Script) /\ g[n] = step[n - 1][g[n - 1]]
    BY <1>5, <2>1
  <2>3. step[n - 1][g[n - 1]] = IF (n - 1) + 1 \in 1..m /\ ~Contains(g[n - 1], q[(n - 1) + 1])
                                THEN Append(g[n - 1], q[(n - 1) + 1]) ELSE g[n - 1]
    BY <2>1, <2>2
  <2> QED BY <2>1, <2>2, <2>3
<1> HIDE DEF step
<1>7. g = [n \in 0..m |-> IF n = 0 THEN <<>>
                          ELSE IF Contains(g[n - 1], q[n]) THEN g[n - 1]
                          ELSE Append(g[n - 1], q[n])]
  <2>1. \A n \in 0..m : n # 0 => n \in 1..m
    BY <1>1
  <2> QED BY <1>5, <1>6, <2>1
<1>8. seen = [n \in 0..m |-> IF n = 0 THEN <<>>
                             ELSE IF Contains(seen[n - 1], q[n]) THEN seen[n - 1]
                             ELSE Append(seen[n - 1], q[n])]
  BY <1>7, Zenon
<1>9. Distinct(q) = seen[m]
  BY DEF Distinct
<1> HIDE DEF seen
<1> DEFINE Before(n) == {q[i] : i \in 1..n}
           Right(n) == /\ seen[n] \in Seq(Script) /\ IsInjective(seen[n])
                       /\ ToSet(seen[n]) = Before(n)
           S == {n \in Nat : n <= m => Right(n)}
<1>10. 0 \in S
  <2>1. seen[0] = <<>> /\ Before(0) = {}
    BY <1>1, <1>8
  <2>2. IsInjective(<<>>) /\ ToSet(<<>>) = {}
    BY DEF IsInjective, ToSet
  <2> QED BY <2>1, <2>2, <1>3
<1>11. ASSUME NEW n \in Nat, n \in S PROVE n + 1 \in S
  <2> SUFFICES ASSUME n + 1 <= m PROVE Right(n + 1)
    OBVIOUS
  <2>1. n + 1 \in 0..m /\ n + 1 # 0 /\ (n + 1) - 1 = n /\ n + 1 \in 1..m /\ n <= m
    BY <1>1
  <2>2. Right(n) /\ q[n + 1] \in Script
    BY <1>11, <1>1, <2>1
  <2>3. Before(n + 1) = Before(n) \cup {q[n + 1]}
    <3>1. \A i \in Int : i \in 1..n + 1 <=> i \in 1..n \/ i = n + 1
      OBVIOUS
    <3> QED BY <3>1
  <2>4. seen[n + 1] = IF Contains(seen[n], q[n + 1]) THEN seen[n] ELSE Append(seen[n], q[n + 1])
    BY <1>8, <2>1
  <2>5. Contains(seen[n], q[n + 1]) <=> q[n + 1] \in ToSet(seen[n])
    BY <2>2 DEF Contains, ToSet
  <2> HIDE DEF Before
  <2>6. CASE Contains(seen[n], q[n + 1])
    BY <2>2, <2>3, <2>4, <2>5, <2>6
  <2>7. CASE ~Contains(seen[n], q[n + 1])
    <3> DEFINE old == seen[n]
               s == q[n + 1]
    <3>1. old \in Seq(Script) /\ s \in Script /\ IsInjective(old) /\ s \notin ToSet(old)
      BY <2>2, <2>5, <2>7
    <3> HIDE DEF old, s
    <3>2. /\ Append(old, s) \in Seq(Script) /\ IsInjective(Append(old, s))
          /\ ToSet(Append(old, s)) = ToSet(old) \cup {s}
      BY <3>1, AppendFacts
    <3>3. seen[n + 1] = Append(old, s) /\ ToSet(old) = Before(n) /\ Before(n + 1) = Before(n) \cup {s}
      BY <2>2, <2>3, <2>4, <2>7 DEF old, s
    <3> QED BY <3>2, <3>3
  <2> QED BY <2>6, <2>7
<1>12. Nat \subseteq S
  <2> HIDE DEF S
  <2> QED BY <1>10, <1>11, NatSet
<1>13. Right(m)
  <2> HIDE DEF Right
  <2> QED BY <1>1, <1>12
<1>14. Before(m) = ToSet(q)
  BY <1>1 DEF ToSet
<1> QED BY <1>9, <1>13, <1>14

(* The table is closed up entry by entry.                                       *)
ClosedUp(kept, q, gone) ==
    /\ kept[0] = <<>>
    /\ \A n \in 1..Len(q) :
          kept[n] = IF q[n] \in gone THEN kept[n - 1] ELSE Append(kept[n - 1], q[n])
    /\ Without(q, gone) = kept[Len(q)]

(* That is how unloading goes over it.                                          *)
LEMMA WithoutCloses ==
    ASSUME NEW q \in Seq(Script), NEW gone
    PROVE  \E kept : ClosedUp(kept, q, gone)
<1> DEFINE m == Len(q)
           step == [n \in Nat |-> [v \in Seq(Script) |->
                      IF n + 1 \in 1..m /\ q[n + 1] \notin gone THEN Append(v, q[n + 1])
                      ELSE v]]
           kept == CHOOSE f : f = [n \in 0..m |->
                      IF n = 0 THEN <<>>
                      ELSE IF q[n] \in gone THEN f[n - 1]
                      ELSE Append(f[n - 1], q[n])]
<1>1. m \in Nat /\ \A n \in 1..m : q[n] \in Script
  OBVIOUS
<1>2. step \in [Nat -> [Seq(Script) -> Seq(Script)]]
  BY <1>1
<1>3. <<>> \in Seq(Script)
  OBVIOUS
<1>4. PICK g : RecursionUpTo(g, m, Seq(Script), <<>>, step)
  <2> HIDE DEF step, m
  <2> QED BY <1>1, <1>2, <1>3, RecursionTo
<1>5. /\ g \in [0..m -> Seq(Script)] /\ g[0] = <<>>
      /\ \A n \in 1..m : g[n] = step[n - 1][g[n - 1]]
  BY <1>4 DEF RecursionUpTo
<1>6. ASSUME NEW n \in 1..m
      PROVE  g[n] = IF q[n] \in gone THEN g[n - 1] ELSE Append(g[n - 1], q[n])
  <2>1. n - 1 \in Nat /\ n - 1 \in 0..m /\ (n - 1) + 1 = n
    BY <1>1
  <2>2. g[n - 1] \in Seq(Script) /\ g[n] = step[n - 1][g[n - 1]]
    BY <1>5, <2>1
  <2>3. step[n - 1][g[n - 1]] = IF (n - 1) + 1 \in 1..m /\ q[(n - 1) + 1] \notin gone
                                THEN Append(g[n - 1], q[(n - 1) + 1]) ELSE g[n - 1]
    BY <2>1, <2>2
  <2> QED BY <2>1, <2>2, <2>3
<1> HIDE DEF step
<1>7. g = [n \in 0..m |-> IF n = 0 THEN <<>>
                          ELSE IF q[n] \in gone THEN g[n - 1]
                          ELSE Append(g[n - 1], q[n])]
  <2>1. \A n \in 0..m : n # 0 => n \in 1..m
    BY <1>1
  <2> QED BY <1>5, <1>6, <2>1
<1>8. kept = [n \in 0..m |-> IF n = 0 THEN <<>>
                             ELSE IF q[n] \in gone THEN kept[n - 1]
                             ELSE Append(kept[n - 1], q[n])]
  BY <1>7, Zenon
<1>9. Without(q, gone) = kept[m]
  BY DEF Without
<1> HIDE DEF kept
<1>10. kept[0] = <<>>
  BY <1>1, <1>8
<1>11. ASSUME NEW n \in 1..m
       PROVE  kept[n] = IF q[n] \in gone THEN kept[n - 1] ELSE Append(kept[n - 1], q[n])
  <2>1. n \in 0..m /\ n # 0
    BY <1>1
  <2> HIDE DEF m
  <2> QED BY <1>8, <2>1
<1>12. ClosedUp(kept, q, gone)
  BY <1>9, <1>10, <1>11 DEF ClosedUp
<1> QED BY <1>12

(* Unloading takes out what is gone, and changes nothing else.                   *)
LEMMA WithoutFacts ==
    ASSUME NEW q \in Seq(Script), IsInjective(q), NEW gone
    PROVE  /\ Without(q, gone) \in Seq(Script)
           /\ IsInjective(Without(q, gone))
           /\ ToSet(Without(q, gone)) = ToSet(q) \ gone
<1> DEFINE m == Len(q)
<1>1. m \in Nat /\ \A n \in 1..m : q[n] \in Script
  OBVIOUS
<1>3. <<>> \in Seq(Script)
  OBVIOUS
<1>4. PICK kept : ClosedUp(kept, q, gone)
  BY WithoutCloses
<1>8. /\ kept[0] = <<>>
      /\ \A n \in 1..m : kept[n] = IF q[n] \in gone THEN kept[n - 1] ELSE Append(kept[n - 1], q[n])
  BY <1>4 DEF ClosedUp
<1>9. Without(q, gone) = kept[m]
  BY <1>4 DEF ClosedUp
<1> DEFINE Before(n) == {q[i] : i \in 1..n} \ gone
           Right(n) == /\ kept[n] \in Seq(Script) /\ IsInjective(kept[n])
                       /\ ToSet(kept[n]) = Before(n)
           S == {n \in Nat : n <= m => Right(n)}
<1>10. 0 \in S
  <2>1. kept[0] = <<>> /\ Before(0) = {}
    BY <1>1, <1>8
  <2>2. IsInjective(<<>>) /\ ToSet(<<>>) = {}
    BY DEF IsInjective, ToSet
  <2> QED BY <2>1, <2>2, <1>3
<1>11. ASSUME NEW n \in Nat, n \in S PROVE n + 1 \in S
  <2> SUFFICES ASSUME n + 1 <= m PROVE Right(n + 1)
    OBVIOUS
  <2>1. n + 1 \in 0..m /\ n + 1 # 0 /\ (n + 1) - 1 = n /\ n + 1 \in 1..m /\ n <= m
    BY <1>1
  <2>2. Right(n) /\ q[n + 1] \in Script
    BY <1>11, <1>1, <2>1
  <2>3. Before(n + 1) = Before(n) \cup ({q[n + 1]} \ gone)
    <3>1. \A i \in Int : i \in 1..n + 1 <=> i \in 1..n \/ i = n + 1
      OBVIOUS
    <3> QED BY <3>1
  <2>4. kept[n + 1] = IF q[n + 1] \in gone THEN kept[n] ELSE Append(kept[n], q[n + 1])
    BY <1>8, <2>1
  <2>5. q[n + 1] \notin Before(n)
    <3>1. \A i \in 1..n : q[i] # q[n + 1]
      BY <1>1, <2>1 DEF IsInjective
    <3> QED BY <3>1
  <2> HIDE DEF Before
  <2>6. CASE q[n + 1] \in gone
    BY <2>2, <2>3, <2>4, <2>5, <2>6
  <2>7. CASE q[n + 1] \notin gone
    <3> DEFINE old == kept[n]
               s == q[n + 1]
    <3>1. old \in Seq(Script) /\ s \in Script /\ IsInjective(old) /\ s \notin ToSet(old)
      BY <2>2, <2>5, <2>7
    <3> HIDE DEF old, s
    <3>2. /\ Append(old, s) \in Seq(Script) /\ IsInjective(Append(old, s))
          /\ ToSet(Append(old, s)) = ToSet(old) \cup {s}
      BY <3>1, AppendFacts
    <3>3. kept[n + 1] = Append(old, s) /\ ToSet(old) = Before(n) /\ Before(n + 1) = Before(n) \cup {s}
      BY <2>2, <2>3, <2>4, <2>7 DEF old, s
    <3> QED BY <3>2, <3>3
  <2> QED BY <2>6, <2>7
<1>12. Nat \subseteq S
  <2> HIDE DEF S
  <2> QED BY <1>10, <1>11, NatSet
<1>13. Right(m)
  <2> HIDE DEF Right
  <2> QED BY <1>1, <1>12
<1>14. Before(m) = ToSet(q) \ gone
  BY <1>1 DEF ToSet
<1> QED BY <1>9, <1>13, <1>14

(* What is kept moves up, but not past a place before which nothing is gone.      *)
LEMMA WithoutMoves ==
    ASSUME NEW q \in Seq(Script), NEW gone, NEW b \in Nat,
           \A i \in 1..Len(q) : i < b => q[i] \notin gone,
           NEW j \in 1..Len(q), b <= j, q[j] \notin gone
    PROVE  \E l \in DOMAIN Without(q, gone) : b <= l /\ l <= j /\ Without(q, gone)[l] = q[j]
<1> DEFINE m == Len(q)
<1>1. m \in Nat /\ \A n \in 1..m : q[n] \in Script
  OBVIOUS
<1>2. PICK kept : ClosedUp(kept, q, gone)
  BY WithoutCloses
<1>3. /\ kept[0] = <<>>
      /\ \A n \in 1..m : kept[n] = IF q[n] \in gone THEN kept[n - 1] ELSE Append(kept[n - 1], q[n])
      /\ Without(q, gone) = kept[m]
  BY <1>2 DEF ClosedUp
<1> DEFINE Placed(n, i) == \E l \in 1..Len(kept[n]) : l <= i /\ (b <= i => b <= l) /\ kept[n][l] = q[i]
           Right(n) == /\ kept[n] \in Seq(Script) /\ Len(kept[n]) <= n
                       /\ n < b => Len(kept[n]) = n
                       /\ n >= b => Len(kept[n]) >= b - 1
                       /\ \A i \in 1..n : q[i] \notin gone => Placed(n, i)
           S == {n \in Nat : n <= m => Right(n)}
<1>4. 0 \in S
  <2>1. kept[0] \in Seq(Script) /\ Len(kept[0]) = 0
    BY <1>3
  <2>2. \A i \in 1..0 : FALSE
    OBVIOUS
  <2> HIDE DEF Placed
  <2> QED BY <2>1, <2>2
<1>5. ASSUME NEW n \in Nat, n \in S PROVE n + 1 \in S
  <2> SUFFICES ASSUME n + 1 <= m PROVE Right(n + 1)
    OBVIOUS
  <2>1. n + 1 \in 1..m /\ n <= m /\ (n + 1) - 1 = n
    BY <1>1
  <2>2. Right(n) /\ q[n + 1] \in Script
    BY <1>1, <1>5, <2>1
  <2>3. kept[n + 1] = IF q[n + 1] \in gone THEN kept[n] ELSE Append(kept[n], q[n + 1])
    BY <1>3, <2>1
  <2>4. \A i \in 1..n + 1 : i \in 1..n \/ i = n + 1
    OBVIOUS
  <2>5. CASE q[n + 1] \in gone
    <3>1. ~(n + 1 < b) /\ kept[n + 1] = kept[n] /\ n + 1 >= b
      BY <2>1, <2>3, <2>5
    <3>2. Len(kept[n]) \in Nat /\ Len(kept[n]) <= n /\ (n < b => Len(kept[n]) = n)
          /\ (n >= b => Len(kept[n]) >= b - 1)
      BY <2>2
    <3>3. Len(kept[n]) >= b - 1
      BY <3>1, <3>2
    <3>4. \A i \in 1..n + 1 : q[i] \notin gone => Placed(n + 1, i)
      BY <2>2, <2>4, <2>5, <3>1
    <3> HIDE DEF Placed
    <3> QED BY <2>2, <3>1, <3>2, <3>3, <3>4
  <2>6. CASE q[n + 1] \notin gone
    <3> DEFINE old == kept[n]
               new == kept[n + 1]
    <3>1. /\ old \in Seq(Script) /\ new = Append(old, q[n + 1])
          /\ Len(old) \in Nat /\ Len(old) <= n /\ (n < b => Len(old) = n)
          /\ (n >= b => Len(old) >= b - 1)
      BY <2>2, <2>3, <2>6
    <3>2. /\ new \in Seq(Script) /\ Len(new) = Len(old) + 1 /\ new[Len(old) + 1] = q[n + 1]
          /\ \A l \in 1..Len(old) : new[l] = old[l]
      BY <2>2, <3>1
    <3>3. \A l \in 1..Len(old) : l \in 1..Len(new)
      BY <3>1, <3>2
    <3>4. ASSUME NEW i \in 1..n, q[i] \notin gone PROVE Placed(n + 1, i)
      <4>1. PICK l \in 1..Len(old) : l <= i /\ (b <= i => b <= l) /\ old[l] = q[i]
        BY <2>2, <3>4
      <4> QED BY <3>2, <3>3, <4>1
    <3>5. Placed(n + 1, n + 1)
      <4>1. Len(old) + 1 \in 1..Len(new) /\ Len(old) + 1 <= n + 1
            /\ (b <= n + 1 => b <= Len(old) + 1)
        BY <3>1, <3>2
      <4> QED BY <3>2, <4>1
    <3>6. Len(new) <= n + 1 /\ (n + 1 < b => Len(new) = n + 1) /\ (n + 1 >= b => Len(new) >= b - 1)
      BY <3>1, <3>2
    <3> HIDE DEF Placed
    <3> QED BY <2>4, <3>2, <3>4, <3>5, <3>6
  <2> QED BY <2>5, <2>6
<1>6. Nat \subseteq S
  <2> HIDE DEF S
  <2> QED BY <1>4, <1>5, NatSet
<1>7. Right(m)
  <2> HIDE DEF Right
  <2> QED BY <1>1, <1>6
<1>8. Placed(m, j) /\ DOMAIN kept[m] = 1..Len(kept[m])
  <2> HIDE DEF Placed
  <2> QED BY <1>7
<1> QED BY <1>3, <1>8

-----------------------------------------------------------------------------
(* The inductive invariant.                                                      *)

Event == {"onScriptLoaded", "input", "loop", "onDataChanged"} \cup TransportEvents
FrameRecord ==
    [event : Event, key : Key \cup {NoKey}, queue : Seq(Script), next : Nat, limit : Nat,
     who : Script \cup {NoScript}]

(* The tables hold the scripts of the living runtimes, each once.                *)
TablesAreLive ==
    /\ live \subseteq Runtime /\ IsFiniteSet(live)
    /\ table \in Seq(Script) /\ IsInjective(table)
    /\ ToSet(table) = UNION {ToSet(ScriptsOf[r]) : r \in live}
    /\ current \in Script \cup {NoScript}

(* The stack: what a dispatch has still to call is loaded, and every frame below  *)
(* the innermost runs a loaded script's handler or a popup menu's loop.           *)
StackTyped ==
    /\ frames \in Seq(FrameRecord)
    /\ \A i \in 1..Len(frames) :
          /\ ToSet(frames[i].queue) \subseteq ToSet(table)
          /\ frames[i].who \in ToSet(table) \cup {NoScript}
          /\ i < Len(frames) => frames[i].who # NoScript \/ frames[i].event = "loop"
          /\ frames[i].event = "onDataChanged" => frames[i].key \in DOMAIN value

(* What is kept for a script, and that nothing is for one that is not loaded.     *)
BindingsTyped ==
    /\ bound \in [Script -> DOMAIN value \cup {NoKey}]
    /\ heard \in [Script -> Value \cup {Empty}]
    /\ told \in [Script -> {"none"} \cup TransportEvents]
    /\ \A s \in Script \ ToSet(table) :
          bound[s] = NoKey /\ heard[s] = Empty /\ told[s] = "none"

(* Every lookup resolves to the one declared setting of the name, and a value     *)
(* that nobody saved is the default.                                             *)
SettingsAreDeclared ==
    /\ value \in [DOMAIN value -> Value \cup {Empty}]
    /\ DOMAIN value \subseteq Declared
    /\ prefs \in [Key -> Value \cup {Empty}]
    /\ DOMAIN scoped \subseteq Key
    /\ \A k \in DOMAIN scoped : scoped[k] \in DOMAIN value /\ scoped[k][2] = k[2]
    /\ \A n \in DOMAIN byName : byName[n] \in DOMAIN value /\ byName[n][2] = n
    /\ \A a \in DOMAIN value :
          value[a] \in Value =>
             prefs[a] = value[a] \/ (prefs[a] = Empty /\ value[a] = Default[a])

HostTyped == last \in Status

(* A listener that has not read the value of its attribute still has to hear it,  *)
(* from a dispatch in flight that has not come to it.                            *)
ToHear(s) ==
    \E i \in 1..Len(frames) :
        /\ frames[i].event = "onDataChanged" /\ frames[i].key = bound[s]
        /\ \E j \in Entries(frames[i]) : table[j] = s
Listening(s) ==
    \/ bound[s] = NoKey \/ bound[s] \in missed
    \/ heard[s] \in {Empty, value[bound[s]]}
    \/ ToHear(s)
ListenersWait == \A s \in ToSet(table) : Listening(s)

(* While the pump's dispatch runs, the scripts it has not come to are the ones    *)
(* that have not been told.                                                      *)
PumpGoesOn ==
    /\ \A i, j \in 1..Len(frames) :
          frames[i].event \in TransportEvents /\ frames[j].event \in TransportEvents => i = j
    /\ \A i \in 1..Len(frames) :
          frames[i].event \in TransportEvents =>
             /\ frames[i].event \in MeaningOf(last)
             /\ \A s \in ToSet(table) :
                   s \in ToSet(frames[i].queue) \/ told[s] \in {"none", frames[i].event}
    /\ AllTold

-----------------------------------------------------------------------------
(* The settings.                                                                 *)

(* A key that is declared, or whose name is, resolves to the declared setting of  *)
(* the name.                                                                     *)
LEMMA Resolves ==
    ASSUME SettingsAreDeclared, NEW k \in Key, k \in Declared \/ k[2] \in DOMAIN byName
    PROVE  /\ Resolve(k) \in Declared /\ Resolve(k)[2] = k[2]
           /\ k \in Declared => Resolve(k) = k
           /\ k \in DOMAIN scoped => Resolve(k) = scoped[k] /\ scoped[k] \in DOMAIN value
           /\ k[2] \in DOMAIN byName => byName[k[2]] = Resolve(k)
<1> USE ConfigAssumption
<1>1. \A a, b \in Declared : a[2] = b[2] => a = b
  OBVIOUS
<1>2. Resolve(k) \in Declared /\ Resolve(k)[2] = k[2]
  BY DEF Resolve, SettingsAreDeclared
<1>3. k[2] \in DOMAIN byName => byName[k[2]] \in Declared /\ byName[k[2]][2] = k[2]
  BY DEF SettingsAreDeclared
<1>4. k \in DOMAIN scoped => Resolve(k) = scoped[k] /\ scoped[k] \in DOMAIN value
  BY DEF Resolve, SettingsAreDeclared
<1> QED BY <1>1, <1>2, <1>3, <1>4

(* What is written is read, and nothing else changes.                          *)
LEMMA PutFacts ==
    ASSUME NEW f, NEW k, NEW v
    PROVE  /\ DOMAIN Put(f, k, v) = DOMAIN f \cup {k}
           /\ Put(f, k, v)[k] = v
           /\ \A x \in DOMAIN f : x # k => Put(f, k, v)[x] = f[x]
           /\ DOMAIN PutIfNone(f, k, v) = DOMAIN f \cup {k}
           /\ \A x \in DOMAIN f : PutIfNone(f, k, v)[x] = f[x]
           /\ k \notin DOMAIN f => PutIfNone(f, k, v)[k] = v
BY DEF Put, PutIfNone

(* What a declaration reads is the user's value, or the default, and it does not  *)
(* overwrite another.                                                            *)
LEMMA InitialFacts ==
    ASSUME SettingsAreDeclared, NEW k \in Declared
    PROVE  /\ k \in Key /\ Resolve(k) = k
           /\ Initial(k) \in Value
           /\ Initial(k) = prefs[k] \/ (prefs[k] = Empty /\ Initial(k) = Default[k])
           /\ k \in DOMAIN value => value[k] \in {Empty, Initial(k)}
<1> USE ConfigAssumption
<1>1. k \in Key /\ Resolve(k) = k
  BY Resolves
<1>2. Default[k] \in Value /\ Empty \notin Value /\ prefs[k] \in Value \cup {Empty}
  BY <1>1 DEF SettingsAreDeclared
<1>3. Initial(k) = IF prefs[k] = Empty THEN Default[k] ELSE prefs[k]
  BY <1>1 DEF Initial
<1>4. k \in DOMAIN value => value[k] \in Value \cup {Empty}
  BY DEF SettingsAreDeclared
<1>5. k \in DOMAIN value /\ value[k] \in Value =>
         prefs[k] = value[k] \/ (prefs[k] = Empty /\ value[k] = Default[k])
  BY DEF SettingsAreDeclared
<1> QED BY <1>1, <1>2, <1>3, <1>4, <1>5

(* An attribute is looked up by a key it is declared under, or by a name.         *)
LEMMA MintKeeps ==
    ASSUME SettingsAreDeclared, NEW k \in Key, k \in Declared \/ k[2] \in DOMAIN byName,
           Mint(k), DOMAIN value' = DOMAIN value \cup {Resolve(k)}
    PROVE  /\ DOMAIN value' \subseteq Declared
           /\ DOMAIN scoped' \subseteq Key
           /\ \A l \in DOMAIN scoped' : scoped'[l] \in DOMAIN value' /\ scoped'[l][2] = l[2]
           /\ \A n \in DOMAIN byName' : byName'[n] \in DOMAIN value' /\ byName'[n][2] = n
<1>1. /\ Resolve(k) \in Declared /\ Resolve(k)[2] = k[2]
      /\ k \in Declared => Resolve(k) = k
  BY Resolves
<1>2. DOMAIN value' \subseteq Declared
  BY <1>1 DEF SettingsAreDeclared
<1>8. scoped' = Put(scoped, k, Resolve(k)) /\ byName' = PutIfNone(byName, k[2], k)
  BY DEF Mint
<1>3. /\ DOMAIN scoped' = DOMAIN scoped \cup {k} /\ scoped'[k] = Resolve(k)
      /\ \A l \in DOMAIN scoped : l # k => scoped'[l] = scoped[l]
  BY <1>8 DEF Put
<1>4. /\ DOMAIN byName' = DOMAIN byName \cup {k[2]}
      /\ \A n \in DOMAIN byName : byName'[n] = byName[n]
      /\ k[2] \notin DOMAIN byName => byName'[k[2]] = k
  BY <1>8 DEF PutIfNone, Put
<1>5. \A l \in DOMAIN scoped' : scoped'[l] \in DOMAIN value' /\ scoped'[l][2] = l[2]
  BY <1>1, <1>3 DEF SettingsAreDeclared
<1>6. \A n \in DOMAIN byName' : byName'[n] \in DOMAIN value' /\ byName'[n][2] = n
  BY <1>1, <1>4 DEF SettingsAreDeclared
<1>7. DOMAIN scoped' \subseteq Key
  BY <1>3 DEF SettingsAreDeclared
<1> QED BY <1>2, <1>5, <1>6, <1>7

(* Declaring, looking up and setting keep the settings as declared.              *)
LEMMA NewAttributeKeeps ==
    ASSUME SettingsAreDeclared, NEW s, NEW k, NewAttribute(s, k)
    PROVE  /\ SettingsAreDeclared'
           /\ DOMAIN value' = DOMAIN value \cup {k} /\ value'[k] = Initial(k)
           /\ \A a \in DOMAIN value : a # k => value'[a] = value[a]
           /\ prefs' = prefs
<1>1. k \in Declared /\ Mint(k) /\ value' = Put(value, Resolve(k), Initial(k)) /\ prefs' = prefs
  BY DEF NewAttribute
<1>2. /\ k \in Key /\ Resolve(k) = k /\ Initial(k) \in Value
      /\ Initial(k) = prefs[k] \/ (prefs[k] = Empty /\ Initial(k) = Default[k])
  BY <1>1, InitialFacts
<1>3. /\ DOMAIN value' = DOMAIN value \cup {k} /\ value'[k] = Initial(k)
      /\ \A a \in DOMAIN value : a # k => value'[a] = value[a]
      /\ value' = [a \in DOMAIN value' |-> value'[a]]
  BY <1>1, <1>2, PutFacts DEF Put
<1>4. /\ DOMAIN value' \subseteq Declared
      /\ DOMAIN scoped' \subseteq Key
      /\ \A l \in DOMAIN scoped' : scoped'[l] \in DOMAIN value' /\ scoped'[l][2] = l[2]
      /\ \A n \in DOMAIN byName' : byName'[n] \in DOMAIN value' /\ byName'[n][2] = n
  BY <1>1, <1>2, <1>3, MintKeeps
<1>5. value' \in [DOMAIN value' -> Value \cup {Empty}]
  BY <1>2, <1>3 DEF SettingsAreDeclared
<1>6. \A a \in DOMAIN value' : value'[a] \in Value =>
         prefs'[a] = value'[a] \/ (prefs'[a] = Empty /\ value'[a] = Default[a])
  BY <1>1, <1>2, <1>3 DEF SettingsAreDeclared
<1> QED BY <1>1, <1>3, <1>4, <1>5, <1>6 DEF SettingsAreDeclared

(* A lookup keeps every value there is.                                        *)
LEMMA GetAttributeKeeps ==
    ASSUME SettingsAreDeclared, NEW s, NEW k \in Key, GetAttribute(s, k)
    PROVE  /\ SettingsAreDeclared'
           /\ Resolve(k) \in Declared
           /\ DOMAIN value' = DOMAIN value \cup {Resolve(k)}
           /\ \A a \in DOMAIN value : value'[a] = value[a]
           /\ Resolve(k) \notin DOMAIN value => value'[Resolve(k)] = Empty
           /\ prefs' = prefs
<1> DEFINE a == Resolve(k)
<1> USE ConfigAssumption
<1>1. /\ k \in Declared \/ k[2] \in DOMAIN byName
      /\ Mint(k) /\ value' = PutIfNone(value, a, Empty) /\ prefs' = prefs
  BY DEF GetAttribute
<1>2. a \in Declared
  BY <1>1, Resolves
<1>3. /\ DOMAIN value' = DOMAIN value \cup {a}
      /\ \A x \in DOMAIN value : value'[x] = value[x]
      /\ a \notin DOMAIN value => value'[a] = Empty
  <2> HIDE DEF a
  <2> QED BY <1>1 DEF PutIfNone, Put
<1>4. /\ DOMAIN value' \subseteq Declared
      /\ DOMAIN scoped' \subseteq Key
      /\ \A l \in DOMAIN scoped' : scoped'[l] \in DOMAIN value' /\ scoped'[l][2] = l[2]
      /\ \A n \in DOMAIN byName' : byName'[n] \in DOMAIN value' /\ byName'[n][2] = n
  BY <1>1, <1>3, MintKeeps
<1>5. value' \in [DOMAIN value' -> Value \cup {Empty}]
  <2>1. \A x \in DOMAIN value' : value'[x] \in Value \cup {Empty}
    BY <1>3 DEF SettingsAreDeclared
  <2>2. value' = [x \in DOMAIN value' |-> value'[x]]
    BY <1>1 DEF PutIfNone, Put, SettingsAreDeclared
  <2> QED BY <2>1, <2>2
<1>6. \A x \in DOMAIN value' : value'[x] \in Value =>
         prefs'[x] = value'[x] \/ (prefs'[x] = Empty /\ value'[x] = Default[x])
  BY <1>1, <1>3 DEF SettingsAreDeclared
<1> HIDE DEF a
<1>7. SettingsAreDeclared'
  BY <1>1, <1>4, <1>5, <1>6 DEF SettingsAreDeclared
<1> QED BY <1>1, <1>2, <1>3, <1>7 DEF a

(* A setData changes the attribute it is for.                                  *)
LEMMA SetDataKeeps ==
    ASSUME SettingsAreDeclared, NEW a, NEW v \in Value \cup {Empty}, SetData(a, v)
    PROVE  /\ SettingsAreDeclared'
           /\ a \in DOMAIN value /\ DOMAIN value' = DOMAIN value
           /\ v \in Value => value'[a] = v /\ prefs'[a] = v
           /\ v \notin Value => UNCHANGED <<value, prefs>>
           /\ \A x \in DOMAIN value : x # a => value'[x] = value[x]
           /\ \A x \in Key : x # a => prefs'[x] = prefs[x]
<1> USE ConfigAssumption
<1>1. a \in DOMAIN value /\ UNCHANGED <<scoped, byName>>
      /\ IF v \in Value THEN Store(a, v) ELSE UNCHANGED <<value, prefs>>
  BY DEF SetData
<1>2. a \in Key
  BY <1>1 DEF SettingsAreDeclared
<1>3. CASE v \in Value
  <2>1. value' = [value EXCEPT ![a] = v] /\ prefs' = [prefs EXCEPT ![a] = v]
    BY <1>1, <1>3 DEF Store
  <2>2. /\ value \in [DOMAIN value -> Value \cup {Empty}]
        /\ prefs \in [Key -> Value \cup {Empty}]
    BY DEF SettingsAreDeclared
  <2>3. /\ value' \in [DOMAIN value -> Value \cup {Empty}] /\ DOMAIN value' = DOMAIN value
        /\ prefs' \in [Key -> Value \cup {Empty}]
        /\ value'[a] = v /\ prefs'[a] = v
        /\ \A x \in DOMAIN value : x # a => value'[x] = value[x]
        /\ \A x \in Key : x # a => prefs'[x] = prefs[x]
    BY <1>1, <1>2, <1>3, <2>1, <2>2
  <2>4. \A x \in DOMAIN value' : value'[x] \in Value =>
           prefs'[x] = value'[x] \/ (prefs'[x] = Empty /\ value'[x] = Default[x])
    BY <2>3 DEF SettingsAreDeclared
  <2>5. SettingsAreDeclared'
    BY <1>1, <2>3, <2>4 DEF SettingsAreDeclared
  <2> QED BY <1>1, <1>3, <2>3, <2>5
<1>4. CASE v \notin Value
  BY <1>1, <1>4 DEF SettingsAreDeclared
<1> QED BY <1>3, <1>4

-----------------------------------------------------------------------------
(* The stack.                                                                    *)

(* The fields of a frame.                                                      *)
LEMMA RecordFacts ==
    ASSUME NEW f \in FrameRecord
    PROVE  /\ f.event \in Event /\ f.key \in Key \cup {NoKey}
           /\ f.queue \in Seq(Script) /\ f.who \in Script \cup {NoScript}
           /\ f.next \in Nat /\ f.limit \in Nat
BY DEF FrameRecord

(* A new dispatch runs no handler yet.                                         *)
LEMMA FrameFacts ==
    ASSUME NEW e \in Event, NEW k \in Key \cup {NoKey}, NEW q \in Seq(Script)
    PROVE  /\ Frame(e, k, q) \in FrameRecord
           /\ Frame(e, k, q).event = e /\ Frame(e, k, q).key = k
           /\ Frame(e, k, q).queue = q /\ Frame(e, k, q).who = NoScript
BY DEF Frame, FrameRecord

(* and a walk has the whole table before it.                                   *)
LEMMA WalkFacts ==
    ASSUME NEW e \in Event, NEW k \in Key \cup {NoKey}, Len(table) \in Nat
    PROVE  /\ Walk(e, k) \in FrameRecord
           /\ Walk(e, k).event = e /\ Walk(e, k).key = k
           /\ Walk(e, k).queue = <<>> /\ Walk(e, k).who = NoScript
           /\ Walk(e, k).next = 1 /\ Walk(e, k).limit = Len(table)
<1> DEFINE n == Len(table)
           f == [Frame(e, k, <<>>) EXCEPT !.limit = n]
<1>1. n \in Nat /\ <<>> \in Seq(Script) /\ f = Walk(e, k)
  BY DEF Walk
<1> HIDE DEF n
<1>2. /\ f \in FrameRecord /\ f.event = e /\ f.key = k /\ f.queue = <<>> /\ f.who = NoScript
      /\ f.next = 1 /\ f.limit = n
  BY <1>1 DEF Frame, FrameRecord
<1> HIDE DEF f
<1> QED BY <1>1, <1>2 DEF n

(* The innermost frame.                                                        *)
LEMMA TopFacts ==
    ASSUME frames \in Seq(FrameRecord)
    PROVE  /\ Len(frames) \in Nat
           /\ \A i \in 1..Len(frames) : frames[i] \in FrameRecord
           /\ DOMAIN frames = 1..Len(frames)
           /\ Resting <=> Len(frames) = 0
           /\ ~Resting => /\ Len(frames) \in 1..Len(frames)
                          /\ Top = frames[Len(frames)] /\ Top \in FrameRecord
<1> HIDE DEF FrameRecord
<1> QED BY DEF Resting, Top, Last

(* One frame more: the others stay as they are.                                  *)
Deeper(f) ==
    /\ frames' \in Seq(FrameRecord)
    /\ Len(frames') = Len(frames) + 1 /\ Len(frames) \in Nat
    /\ \A i \in 1..Len(frames) : frames'[i] = frames[i]
    /\ frames'[Len(frames) + 1] = f
    /\ \A i \in 1..Len(frames') : i \in 1..Len(frames) \/ i = Len(frames) + 1
    /\ \A i \in 1..Len(frames) : i \in 1..Len(frames')
    /\ Len(frames) + 1 \in 1..Len(frames')

(* A dispatch is begun,                                                        *)
LEMMA PushFacts ==
    ASSUME frames \in Seq(FrameRecord), NEW f \in FrameRecord, Push(f)
    PROVE  Deeper(f)
<1>1. frames' = Append(frames, f)
  BY DEF Push
<1>2. /\ Append(frames, f) \in Seq(FrameRecord) /\ Len(Append(frames, f)) = Len(frames) + 1
      /\ \A i \in 1..Len(frames) : Append(frames, f)[i] = frames[i]
      /\ Append(frames, f)[Len(frames) + 1] = f
  BY AppendFacts
<1>3. Len(frames) \in Nat
  BY TopFacts
<1>4. /\ frames' \in Seq(FrameRecord) /\ Len(frames') = Len(frames) + 1
      /\ \A i \in 1..Len(frames) : frames'[i] = frames[i]
      /\ frames'[Len(frames) + 1] = f
  BY <1>1, <1>2
<1>5. /\ \A i \in 1..Len(frames') : i \in 1..Len(frames) \/ i = Len(frames) + 1
      /\ \A i \in 1..Len(frames) : i \in 1..Len(frames')
      /\ Len(frames) + 1 \in 1..Len(frames')
  BY <1>3, <1>4
<1> QED BY <1>3, <1>4, <1>5 DEF Deeper

(* One frame less.                                                               *)
Shallower ==
    /\ frames' \in Seq(FrameRecord)
    /\ Len(frames') = Len(frames) - 1 /\ Len(frames) \in Nat \ {0}
    /\ \A i \in 1..Len(frames') : frames'[i] = frames[i] /\ i \in 1..Len(frames) /\ i < Len(frames)
    /\ \A i \in 1..Len(frames) : i \in 1..Len(frames') \/ i = Len(frames)

(* and ends,                                                                   *)
LEMMA PopFacts ==
    ASSUME frames \in Seq(FrameRecord), ~Resting, Pop
    PROVE  Shallower
<1>1. Len(frames) \in Nat \ {0} /\ \A i \in 1..Len(frames) : frames[i] \in FrameRecord
  BY TopFacts
<1>2. frames' = SubSeq(frames, 1, Len(frames) - 1)
  BY DEF Pop, Front
<1>3. /\ frames' \in Seq(FrameRecord) /\ Len(frames') = Len(frames) - 1
      /\ \A i \in 1..Len(frames) - 1 : frames'[i] = frames[i]
  <2> DEFINE n == Len(frames) - 1
  <2>1. n \in Int /\ n \in Nat /\ 1 \in Int /\ \A i \in 1..n : frames[i] \in FrameRecord
    BY <1>1
  <2> HIDE DEF n, FrameRecord
  <2>2. /\ SubSeq(frames, 1, n) \in Seq(FrameRecord)
        /\ Len(SubSeq(frames, 1, n)) = IF 1 <= n THEN n - 1 + 1 ELSE 0
        /\ \A i \in 1..n - 1 + 1 : SubSeq(frames, 1, n)[i] = frames[1 + i - 1]
    BY <2>1, SubSeqProperties
  <2>3. n - 1 + 1 = n /\ \A i \in 1..n : 1 + i - 1 = i
    BY <2>1
  <2>4. Len(SubSeq(frames, 1, n)) = n
    BY <2>1, <2>2, <2>3
  <2> QED BY <1>2, <2>2, <2>3, <2>4 DEF n
<1> QED BY <1>1, <1>3 DEF Shallower

(* The innermost frame goes on.                                                  *)
TopBecomes(f) ==
    /\ frames' \in Seq(FrameRecord)
    /\ Len(frames') = Len(frames) /\ Len(frames) \in 1..Len(frames)
    /\ Len(frames) \in Nat
    /\ \A i \in 1..Len(frames) : i # Len(frames) => frames'[i] = frames[i]
    /\ frames'[Len(frames)] = f

(* a handler returns,                                                          *)
LEMMA ReturnFacts ==
    ASSUME frames \in Seq(FrameRecord), Return
    PROVE  ~Resting /\ TopBecomes([Top EXCEPT !.who = NoScript])
<1>1. ~Resting /\ frames' = [frames EXCEPT ![Len(frames)].who = NoScript]
  BY DEF Return, Running
<1>2. /\ Len(frames) \in 1..Len(frames) /\ Len(frames) \in Nat /\ Top = frames[Len(frames)]
      /\ Top \in FrameRecord /\ DOMAIN frames = 1..Len(frames)
  BY <1>1, TopFacts
<1> DEFINE f == [Top EXCEPT !.who = NoScript]
<1>3. f \in FrameRecord
  BY <1>2 DEF FrameRecord
<1>4. frames' = [frames EXCEPT ![Len(frames)] = f]
  BY <1>1, <1>2
<1> HIDE DEF f, FrameRecord
<1>5. TopBecomes(f)
  BY <1>2, <1>3, <1>4, ExceptSeq DEF TopBecomes
<1> QED BY <1>1, <1>5 DEF f

(* The loop comes to script c, and skips only those that do not handle the event: *)
(* it goes on as f.                                                              *)
ComesTo(c, f) ==
    /\ c \in Script /\ c \in ToSet(table) /\ Handles(c)
    /\ f \in FrameRecord /\ f.event = Top.event /\ f.key = Top.key /\ f.who = c
    /\ ToSet(f.queue) \subseteq ToSet(Top.queue)
    /\ \A s \in ToSet(Top.queue) : s \in ToSet(f.queue) \/ s = c \/ ~Handles(s)
    /\ \A j \in Entries(Top) : j \in Entries(f) \/ table[j] = c \/ ~Handles(table[j])

(* A list loop goes on to the next script that handles the event,              *)
LEMMA FireQueuedFacts ==
    ASSUME frames \in Seq(FrameRecord), table \in Seq(Script), ~Resting, FireQueued(Handles)
    PROVE  \E f : ComesTo(current', f) /\ TopBecomes(f)
<1>1. /\ Len(frames) \in 1..Len(frames) /\ Len(frames) \in Nat /\ Top = frames[Len(frames)]
      /\ Top \in FrameRecord /\ DOMAIN frames = 1..Len(frames)
  BY TopFacts
<1>2. Top.queue \in Seq(Script)
  BY <1>1, RecordFacts
<1> DEFINE q == Top.queue
<1>3. PICK i \in DOMAIN q :
         /\ Handles(q[i])
         /\ \A j \in 1..(i - 1) : ~Handles(q[j])
         /\ current' = q[i]
         /\ frames' = [frames EXCEPT
                        ![Len(frames)].who = q[i],
                        ![Len(frames)].queue = SubSeq(@, i + 1, Len(@))]
  BY DEF FireQueued
<1> DEFINE rest == SubSeq(q, i + 1, Len(q))
           f == [Top EXCEPT !.who = current', !.queue = rest]
<1>4. q \in Seq(Script) /\ i \in 1..Len(q) /\ Len(q) \in Nat
  BY <1>2, <1>3
<1>5. /\ rest \in Seq(Script) /\ Len(rest) = Len(q) - i
      /\ \A j \in 1..Len(q) - i : rest[j] = q[i + j]
  <2> HIDE DEF q
  <2>1. \A j \in i + 1..Len(q) : q[j] \in Script
    BY <1>4
  <2>2. i + 1 \in Nat \ {0} /\ i + 1 <= Len(q) + 1
    BY <1>4
  <2> QED BY <1>4, <2>1, <2>2, SubSeqProperties
<1>6. current' \in Script /\ Handles(current') /\ current' \in ToSet(table)
  BY <1>3, <1>4 DEF Handles, Contains, ToSet
<1>7. /\ f \in FrameRecord /\ f.event = Top.event /\ f.key = Top.key /\ f.who = current'
      /\ f.queue = rest /\ f.next = Top.next /\ f.limit = Top.limit
  BY <1>1, <1>5, <1>6 DEF FrameRecord
<1>8. frames' = [frames EXCEPT ![Len(frames)] = f]
  BY <1>1, <1>3
<1>9. ToSet(rest) \subseteq ToSet(q)
  BY <1>4, <1>5 DEF ToSet
<1>10. ASSUME NEW s \in ToSet(q) PROVE s \in ToSet(rest) \/ s = current' \/ ~Handles(s)
  <2> HIDE DEF q, rest, f
  <2>1. PICK j \in 1..Len(q) : s = q[j]
    BY <1>4 DEF ToSet
  <2>2. CASE j < i
    BY <2>1, <2>2, <1>3, <1>4
  <2>3. CASE j = i
    BY <2>1, <2>3, <1>3
  <2>4. CASE j > i
    <3>1. j - i \in 1..Len(q) - i /\ i + (j - i) = j
      BY <2>4, <1>4
    <3>2. rest[j - i] = s /\ j - i \in DOMAIN rest
      BY <2>1, <3>1, <1>5
    <3> QED BY <3>2 DEF ToSet
  <2> QED BY <2>2, <2>3, <2>4, <1>4
<1>11. Entries(f) = Entries(Top)
  BY <1>7 DEF Entries
<1> HIDE DEF f, rest, FrameRecord
<1>12. TopBecomes(f)
  BY <1>1, <1>7, <1>8, ExceptSeq DEF TopBecomes
<1>13. ComesTo(current', f)
  BY <1>6, <1>7, <1>9, <1>10, <1>11 DEF ComesTo
<1> QED BY <1>12, <1>13

(* a walk to the next entry of the table that does,                            *)
LEMMA FireEntryFacts ==
    ASSUME frames \in Seq(FrameRecord), table \in Seq(Script), ~Resting, FireEntry(Handles)
    PROVE  \E f : ComesTo(current', f) /\ TopBecomes(f)
<1>1. /\ Len(frames) \in 1..Len(frames) /\ Len(frames) \in Nat /\ Top = frames[Len(frames)]
      /\ Top \in FrameRecord /\ DOMAIN frames = 1..Len(frames)
  BY TopFacts
<1>2. PICK i \in Entries(Top) :
         /\ Handles(table[i])
         /\ \A j \in Entries(Top) : j < i => ~Handles(table[j])
         /\ current' = table[i]
         /\ frames' = [frames EXCEPT
                        ![Len(frames)].who = table[i],
                        ![Len(frames)].next = i + 1]
  BY DEF FireEntry
<1> DEFINE f == [Top EXCEPT !.who = current', !.next = i + 1]
<1>3. DOMAIN table = 1..Len(table) /\ Len(table) \in Nat /\ i \in DOMAIN table /\ i + 1 \in Nat
  BY <1>2 DEF Entries
<1>4. current' \in Script /\ Handles(current') /\ current' \in ToSet(table)
  BY <1>2, <1>3 DEF ToSet
<1>5. /\ f \in FrameRecord /\ f.event = Top.event /\ f.key = Top.key /\ f.who = current'
      /\ f.queue = Top.queue /\ f.next = i + 1 /\ f.limit = Top.limit
  BY <1>1, <1>3, <1>4 DEF FrameRecord
<1>6. frames' = [frames EXCEPT ![Len(frames)] = f]
  BY <1>1, <1>2
<1> HIDE DEF f
<1>7. ASSUME NEW j \in Entries(Top) PROVE j \in Entries(f) \/ table[j] = current' \/ ~Handles(table[j])
  <2>1. j \in 1..Len(table) /\ j <= Top.limit
    BY <1>3 DEF Entries
  <2>2. CASE j < i
    BY <2>2, <1>2
  <2>3. CASE j = i
    BY <2>3, <1>2
  <2>4. CASE j > i
    BY <2>1, <2>4, <1>3, <1>5 DEF Entries
  <2> QED BY <1>3, <2>1, <2>2, <2>3, <2>4
<1> HIDE DEF FrameRecord
<1>8. TopBecomes(f)
  BY <1>1, <1>5, <1>6, ExceptSeq DEF TopBecomes
<1>9. ComesTo(current', f)
  BY <1>4, <1>5, <1>7 DEF ComesTo
<1> QED BY <1>8, <1>9

(* and so does every loop.                                                     *)
LEMMA FireFacts ==
    ASSUME frames \in Seq(FrameRecord), table \in Seq(Script), ~Resting, FireNext(Handles)
    PROVE  \E f : ComesTo(current', f) /\ TopBecomes(f)
BY FireQueuedFacts, FireEntryFacts DEF FireNext

-----------------------------------------------------------------------------
(* The tables.                                                                   *)

(* Nothing in the table moves.                                                   *)
TableGrows == \A j \in DOMAIN table : j \in DOMAIN table' /\ table'[j] = table[j]

(* Loading adds the scripts of a runtime, which were not there.                *)
LEMMA LoadFacts ==
    ASSUME TablesAreLive, NEW r \in Runtime, LoadRuntime(r)
    PROVE  /\ table' \in Seq(Script) /\ IsInjective(table')
           /\ ToSet(table') = ToSet(table) \cup ToSet(ScriptsOf[r])
           /\ ToSet(table) \cap ToSet(ScriptsOf[r]) = {}
           /\ ScriptsOf[r] \in Seq(Script)
           /\ TableGrows
<1> USE DispatchAssumption
<1>1. r \notin live /\ table' = table \o Distinct(ScriptsOf[r]) /\ live \subseteq Runtime
  BY DEF LoadRuntime, TablesAreLive
<1> DEFINE d == Distinct(ScriptsOf[r])
<1>2. ScriptsOf[r] \in Seq(Script)
  OBVIOUS
<1>3. d \in Seq(Script) /\ IsInjective(d) /\ ToSet(d) = ToSet(ScriptsOf[r])
  BY <1>2, DistinctFacts
<1>4. ToSet(table) \cap ToSet(ScriptsOf[r]) = {}
  BY <1>1 DEF TablesAreLive
<1>5. table \in Seq(Script) /\ IsInjective(table)
  BY DEF TablesAreLive
<1>6. table' = table \o d
  BY <1>1
<1> HIDE DEF d
<1>7. /\ table \o d \in Seq(Script)
      /\ ToSet(table \o d) = ToSet(table) \cup ToSet(d)
      /\ IsInjective(table) /\ IsInjective(d) /\ ToSet(table) \cap ToSet(d) = {}
            => IsInjective(table \o d)
  BY <1>3, <1>5, ConcatFacts
<1>8. \A j \in DOMAIN table : j \in DOMAIN (table \o d) /\ (table \o d)[j] = table[j]
  BY <1>3, <1>5
<1> QED BY <1>2, <1>3, <1>4, <1>5, <1>6, <1>7, <1>8 DEF TableGrows

(* Unloading takes them out.                                                   *)
LEMMA UnloadFacts ==
    ASSUME TablesAreLive, NEW r \in Runtime, DestroyAll(r)
    PROVE  /\ table' \in Seq(Script) /\ IsInjective(table')
           /\ ToSet(table') = ToSet(table) \ ToSet(ScriptsOf[r])
<1>1. table' = Without(table, ToSet(ScriptsOf[r]))
  BY DEF DestroyAll
<1>2. table \in Seq(Script) /\ IsInjective(table)
  BY DEF TablesAreLive
<1> QED BY <1>1, <1>2, WithoutFacts

(* The tables follow the runtimes that come and go.                              *)
LEMMA TablesStep ==
    ASSUME TablesAreLive, StackTyped, [Next]_vars
    PROVE  TablesAreLive'
<1> USE DispatchAssumption
<1>1. CASE UNCHANGED <<live, table, current>>
  BY <1>1 DEF TablesAreLive
<1>2. ASSUME NEW r \in Runtime, Load(r) PROVE TablesAreLive'
  <2>1. LoadRuntime(r) /\ live' = live \cup {r} /\ current' = current
    BY <1>2 DEF Load, LoadRuntime
  <2>2. /\ table' \in Seq(Script) /\ IsInjective(table')
        /\ ToSet(table') = ToSet(table) \cup ToSet(ScriptsOf[r])
    BY <2>1, LoadFacts
  <2>3. live' \subseteq Runtime /\ IsFiniteSet(live')
    BY <2>1, FS_AddElement DEF TablesAreLive
  <2>4. ToSet(table') = UNION {ToSet(ScriptsOf[q]) : q \in live'}
    BY <2>1, <2>2 DEF TablesAreLive
  <2> QED BY <2>1, <2>2, <2>3, <2>4 DEF TablesAreLive
<1>3. ASSUME NEW r \in Runtime, Unload(r) PROVE TablesAreLive'
  <2>1. DestroyAll(r) /\ r \in live /\ live' = live \ {r} /\ current' = current
    BY <1>3 DEF Unload, DestroyAll
  <2>2. /\ table' \in Seq(Script) /\ IsInjective(table')
        /\ ToSet(table') = ToSet(table) \ ToSet(ScriptsOf[r])
    BY <2>1, UnloadFacts
  <2>3. live' \subseteq Runtime /\ IsFiniteSet(live')
    BY <2>1, FS_RemoveElement DEF TablesAreLive
  <2>4. \A q \in live' : ToSet(ScriptsOf[q]) \cap ToSet(ScriptsOf[r]) = {}
    BY <2>1, <2>3
  <2>5. ToSet(table') = UNION {ToSet(ScriptsOf[q]) : q \in live'}
    BY <2>1, <2>2, <2>4 DEF TablesAreLive
  <2> QED BY <2>1, <2>2, <2>3, <2>5 DEF TablesAreLive
<1>4. CASE Fire
  <2>1. ~Resting /\ FireNext(Handles) /\ frames \in Seq(FrameRecord)
    BY <1>4 DEF Fire, StackTyped
  <2>2. current' \in Script
    BY <2>1, FireFacts DEF ComesTo, TablesAreLive
  <2>3. UNCHANGED <<live, table>>
    BY <1>4 DEF Fire, FireNext
  <2> QED BY <2>2, <2>3 DEF TablesAreLive
<1>5. CASE Restart
  <2>1. live' = {} /\ table' = <<>> /\ current' = NoScript
    BY <1>5 DEF Restart
  <2>2. IsFiniteSet({}) /\ <<>> \in Seq(Script) /\ IsInjective(<<>>) /\ ToSet(<<>>) = {}
    BY FS_EmptySet DEF IsInjective, ToSet
  <2> QED BY <2>1, <2>2 DEF TablesAreLive
<1>6. CASE \E s \in Script : Input(s)
  BY <1>1, <1>6 DEF Input
<1>7. CASE OpenPopup \/ Return
  BY <1>1, <1>7 DEF OpenPopup, Return
<1>8. CASE End
  BY <1>1, <1>8 DEF End, EndDispatch
<1>9. CASE Handler
  BY <1>1, <1>9 DEF Handler, NewAttribute, GetAttribute, SetData, dispatchVars
<1>10. CASE Pump
  BY <1>1, <1>10 DEF Pump
<1>11. CASE UNCHANGED vars
  BY <1>1, <1>11 DEF vars, dispatchVars
<1> QED BY <1>2, <1>3, <1>4, <1>5, <1>6, <1>7, <1>8, <1>9, <1>10, <1>11 DEF Next

-----------------------------------------------------------------------------
(* The settings, the bindings and the host.                                      *)

(* What a handler does.                                                          *)
LEMMA HandlerFacts ==
    ASSUME Handler, StackTyped, TablesAreLive
    PROVE  /\ ~Resting /\ Top.who \in Script /\ Top.who \in ToSet(table) /\ Running
           /\ UNCHANGED pumpVars /\ UNCHANGED <<live, table, current>>
           /\ \/ \E k \in Key : NewAttribute(Top.who, k)
              \/ \E k \in Key : GetAttribute(Top.who, k)
              \/ \E a \in DOMAIN value, v \in Value \cup {Empty} : SetData(a, v)
<1>1. /\ Running /\ UNCHANGED pumpVars
      /\ \/ \E k \in Key : NewAttribute(Top.who, k)
         \/ \E k \in Key : GetAttribute(Top.who, k)
         \/ \E a \in DOMAIN value, v \in Value \cup {Empty} : SetData(a, v)
  BY DEF Handler
<1>2. ~Resting /\ Top.who # NoScript
  BY <1>1 DEF Running
<1>3. /\ frames \in Seq(FrameRecord)
      /\ \A i \in 1..Len(frames) : frames[i].who \in ToSet(table) \cup {NoScript}
  BY DEF StackTyped
<1>4. Top = frames[Len(frames)] /\ Len(frames) \in 1..Len(frames)
  BY <1>2, <1>3, TopFacts
<1>5. Top.who \in ToSet(table)
  BY <1>2, <1>3, <1>4
<1>6. ToSet(table) \subseteq Script
  BY DEF TablesAreLive, ToSet
<1>7. UNCHANGED <<live, table, current>>
  BY <1>1 DEF NewAttribute, GetAttribute, SetData, dispatchVars
<1> QED BY <1>1, <1>2, <1>5, <1>6, <1>7

(* Every step keeps the settings as declared.                                  *)
LEMMA SettingsStep ==
    ASSUME TablesAreLive, StackTyped, SettingsAreDeclared, [Next]_vars
    PROVE  SettingsAreDeclared'
<1>1. CASE UNCHANGED <<scoped, byName, value, prefs>>
  BY <1>1 DEF SettingsAreDeclared
<1>2. CASE Handler
  <2>1. ASSUME NEW k \in Key, NewAttribute(Top.who, k) PROVE SettingsAreDeclared'
    BY <2>1, NewAttributeKeeps
  <2>2. ASSUME NEW k \in Key, GetAttribute(Top.who, k) PROVE SettingsAreDeclared'
    BY <2>2, GetAttributeKeeps
  <2>3. ASSUME NEW a \in DOMAIN value, NEW v \in Value \cup {Empty}, SetData(a, v)
        PROVE  SettingsAreDeclared'
    BY <2>3, SetDataKeeps
  <2> QED BY <1>2, <2>1, <2>2, <2>3, HandlerFacts
<1>3. CASE Restart
  BY <1>3 DEF Restart, SettingsAreDeclared
<1>4. CASE \E r \in Runtime : Load(r) \/ Unload(r)
  BY <1>1, <1>4 DEF Load, Unload, configVars
<1>5. CASE UNCHANGED configVars
  BY <1>1, <1>5 DEF configVars
<1>6. CASE Fire
  BY <1>1, <1>6 DEF Fire
<1>7. CASE End
  BY <1>1, <1>7 DEF End, configVars
<1>8. CASE UNCHANGED vars
  BY <1>1, <1>8 DEF vars, configVars
<1> QED BY <1>2, <1>3, <1>4, <1>5, <1>6, <1>7, <1>8 DEF Next

(* An attribute is forgotten only when the process ends.                       *)
LEMMA ValuesGrow ==
    ASSUME TablesAreLive, StackTyped, SettingsAreDeclared, [Next]_vars, ~Restart
    PROVE  DOMAIN value \subseteq DOMAIN value'
<1>1. CASE UNCHANGED value
  BY <1>1
<1>2. CASE Handler
  <2>1. ASSUME NEW k \in Key, NewAttribute(Top.who, k) PROVE DOMAIN value \subseteq DOMAIN value'
    BY <2>1, NewAttributeKeeps
  <2>2. ASSUME NEW k \in Key, GetAttribute(Top.who, k) PROVE DOMAIN value \subseteq DOMAIN value'
    BY <2>2, GetAttributeKeeps
  <2>3. ASSUME NEW a \in DOMAIN value, NEW v \in Value \cup {Empty}, SetData(a, v)
        PROVE  DOMAIN value \subseteq DOMAIN value'
    BY <2>3, SetDataKeeps
  <2> QED BY <1>2, <2>1, <2>2, <2>3, HandlerFacts
<1>4. CASE \E r \in Runtime : Load(r) \/ Unload(r)
  BY <1>1, <1>4 DEF Load, Unload, configVars
<1>5. CASE UNCHANGED configVars
  BY <1>1, <1>5 DEF configVars
<1>6. CASE Fire
  BY <1>1, <1>6 DEF Fire
<1>7. CASE End
  BY <1>1, <1>7 DEF End, configVars
<1>8. CASE UNCHANGED vars
  BY <1>1, <1>8 DEF vars, configVars
<1> QED BY <1>2, <1>4, <1>5, <1>6, <1>7, <1>8 DEF Next

(* The host answers what it can answer.                                        *)
LEMMA HostStep ==
    ASSUME HostTyped, [Next]_vars
    PROVE  HostTyped'
<1>1. CASE UNCHANGED last
  BY <1>1 DEF HostTyped
<1>2. CASE Pump
  BY <1>2 DEF Pump, HostTyped
<1>4. CASE Restart
  BY <1>4, PumpAssumption DEF Restart, HostTyped
<1>5. CASE \E r \in Runtime : Load(r) \/ Unload(r)
  BY <1>1, <1>5 DEF Load, Unload, pumpVars
<1>6. CASE UNCHANGED pumpVars
  BY <1>1, <1>6 DEF pumpVars
<1>7. CASE Fire
  BY <1>1, <1>7 DEF Fire
<1>8. CASE End
  BY <1>1, <1>8 DEF End, pumpVars
<1>9. CASE Handler
  BY <1>1, <1>9 DEF Handler, pumpVars
<1>10. CASE UNCHANGED vars
  BY <1>1, <1>10 DEF vars, pumpVars
<1> QED BY <1>2, <1>4, <1>5, <1>6, <1>7, <1>8, <1>9, <1>10 DEF Next

(* One script's part is written: it is loaded, so nothing is kept for another.    *)
LEMMA WriteOne ==
    ASSUME NEW f, NEW T, NEW none, f \in [Script -> T],
           \A s \in Script \ ToSet(table) : f[s] = none,
           NEW c \in Script, c \in ToSet(table), NEW v \in T
    PROVE  /\ [f EXCEPT ![c] = v] \in [Script -> T]
           /\ \A s \in Script \ ToSet(table) : [f EXCEPT ![c] = v][s] = none
OBVIOUS

(* The scripts of a runtime are forgotten, and no other.                       *)
LEMMA ForgetFacts ==
    ASSUME NEW f, NEW T, NEW none \in T, f \in [Script -> T], NEW r
    PROVE  /\ Forget(f, r, none) \in [Script -> T]
           /\ \A s \in Script : s \in ToSet(ScriptsOf[r]) => Forget(f, r, none)[s] = none
           /\ \A s \in Script : s \notin ToSet(ScriptsOf[r]) => Forget(f, r, none)[s] = f[s]
BY DEF Forget

(* A script binds attributes that exist, and none when it is not loaded.       *)
LEMMA BindingsStep ==
    ASSUME TablesAreLive, StackTyped, SettingsAreDeclared, BindingsTyped, [Next]_vars
    PROVE  BindingsTyped'
<1> USE ConfigAssumption
<1>1. CASE UNCHANGED <<table, value, bound, heard, told>>
  BY <1>1 DEF BindingsTyped
<1>2. CASE Handler
  <2> DEFINE w == Top.who
  <2>1. w \in Script /\ w \in ToSet(table) /\ told' = told /\ table' = table
    BY <1>2, HandlerFacts DEF pumpVars
  <2> HIDE DEF w
  <2>2. DOMAIN value \subseteq DOMAIN value'
    <3>1. ~Restart
      BY <2>1, HandlerFacts, <1>2 DEF Restart, BindingsTyped, ToSet
    <3> QED BY <3>1, ValuesGrow
  <2>3. ASSUME NEW a \in DOMAIN value', NEW v \in Value \cup {Empty}, Assign(w, a, v)
        PROVE  BindingsTyped'
    <3> DEFINE D == DOMAIN value' \cup {NoKey}
    <3>1. bound \in [Script -> D] /\ a \in D
      BY <2>2 DEF BindingsTyped
    <3> HIDE DEF w, D
    <3>2. bound' \in [Script -> D] /\ \A s \in Script \ ToSet(table) : bound'[s] = NoKey
      BY <2>1, <2>3, <3>1, WriteOne DEF Assign, BindingsTyped
    <3>3. heard' \in [Script -> Value \cup {Empty}]
          /\ \A s \in Script \ ToSet(table) : heard'[s] = Empty
      BY <2>1, <2>3, WriteOne DEF Assign, BindingsTyped
    <3> QED BY <2>1, <3>2, <3>3 DEF BindingsTyped, D
  <2>4. ASSUME NEW k \in Key, NewAttribute(w, k) PROVE BindingsTyped'
    <3>1. k \in Declared /\ Assign(w, Resolve(k), Initial(k))
      BY <2>4 DEF NewAttribute
    <3>2. Resolve(k) = k /\ Initial(k) \in Value /\ k \in DOMAIN value'
      <4>1. Resolve(k) = k /\ Initial(k) \in Value
        BY <3>1, InitialFacts
      <4>2. DOMAIN value' = DOMAIN value \cup {k}
        BY <2>4, NewAttributeKeeps
      <4> QED BY <4>1, <4>2
    <3> QED BY <3>1, <3>2, <2>3
  <2>5. ASSUME NEW k \in Key, GetAttribute(w, k) PROVE BindingsTyped'
    <3>1. Assign(w, Resolve(k), value'[Resolve(k)])
      BY <2>5 DEF GetAttribute
    <3>2. Resolve(k) \in DOMAIN value' /\ SettingsAreDeclared'
      BY <2>5, GetAttributeKeeps
    <3>3. value'[Resolve(k)] \in Value \cup {Empty}
      BY <3>2 DEF SettingsAreDeclared
    <3> QED BY <3>1, <3>2, <3>3, <2>3
  <2>6. ASSUME NEW a \in DOMAIN value, NEW v \in Value \cup {Empty}, SetData(a, v)
        PROVE  BindingsTyped'
    <3>1. UNCHANGED <<table, bound, heard>> /\ DOMAIN value' = DOMAIN value
      BY <2>6, SetDataKeeps DEF SetData
    <3> QED BY <2>1, <3>1 DEF BindingsTyped
  <2> QED BY <1>2, <2>4, <2>5, <2>6, HandlerFacts DEF w
<1>3. CASE Restart
  <2>1. ToSet(<<>>) = {}
    BY DEF ToSet
  <2> QED BY <1>3, <2>1 DEF Restart, BindingsTyped
<1>4. ASSUME NEW r \in Runtime, Load(r) PROVE BindingsTyped'
  <2>1. /\ LoadRuntime(r) /\ UNCHANGED <<value, bound, heard, told>>
    BY <1>4 DEF Load, configVars, pumpVars
  <2>2. ToSet(table) \subseteq ToSet(table')
    BY <2>1, LoadFacts
  <2> QED BY <2>1, <2>2 DEF BindingsTyped
<1>5. ASSUME NEW r \in Runtime, Unload(r) PROVE BindingsTyped'
  <2>1. /\ DestroyAll(r) /\ value' = value
        /\ bound' = Forget(bound, r, NoKey)
        /\ heard' = Forget(heard, r, Empty)
        /\ told' = Forget(told, r, "none")
    BY <1>5 DEF Unload
  <2>2. ToSet(table') = ToSet(table) \ ToSet(ScriptsOf[r])
    BY <2>1, UnloadFacts
  <2>3. /\ bound' \in [Script -> DOMAIN value' \cup {NoKey}]
        /\ \A s \in Script \ ToSet(table') : bound'[s] = NoKey
    <3> DEFINE T == DOMAIN value \cup {NoKey}
    <3>1. bound \in [Script -> T] /\ NoKey \in T
      BY DEF BindingsTyped
    <3> HIDE DEF T
    <3>2. /\ Forget(bound, r, NoKey) \in [Script -> T]
          /\ \A s \in Script : s \in ToSet(ScriptsOf[r]) => Forget(bound, r, NoKey)[s] = NoKey
          /\ \A s \in Script : s \notin ToSet(ScriptsOf[r]) => Forget(bound, r, NoKey)[s] = bound[s]
      BY <3>1, ForgetFacts
    <3> QED BY <2>1, <2>2, <3>2 DEF BindingsTyped, T
  <2>4. /\ heard' \in [Script -> Value \cup {Empty}]
        /\ \A s \in Script \ ToSet(table') : heard'[s] = Empty
    <3> DEFINE T == Value \cup {Empty}
    <3>1. heard \in [Script -> T] /\ Empty \in T
      BY DEF BindingsTyped
    <3> HIDE DEF T
    <3>2. /\ Forget(heard, r, Empty) \in [Script -> T]
          /\ \A s \in Script : s \in ToSet(ScriptsOf[r]) => Forget(heard, r, Empty)[s] = Empty
          /\ \A s \in Script : s \notin ToSet(ScriptsOf[r]) => Forget(heard, r, Empty)[s] = heard[s]
      BY <3>1, ForgetFacts
    <3> QED BY <2>1, <2>2, <3>2 DEF BindingsTyped, T
  <2>5. /\ told' \in [Script -> {"none"} \cup TransportEvents]
        /\ \A s \in Script \ ToSet(table') : told'[s] = "none"
    <3> DEFINE T == {"none"} \cup TransportEvents
    <3>1. told \in [Script -> T] /\ "none" \in T
      BY DEF BindingsTyped
    <3> HIDE DEF T
    <3>2. /\ Forget(told, r, "none") \in [Script -> T]
          /\ \A s \in Script : s \in ToSet(ScriptsOf[r]) => Forget(told, r, "none")[s] = "none"
          /\ \A s \in Script : s \notin ToSet(ScriptsOf[r]) => Forget(told, r, "none")[s] = told[s]
      BY <3>1, ForgetFacts
    <3> QED BY <2>1, <2>2, <3>2 DEF BindingsTyped, T
  <2> QED BY <2>3, <2>4, <2>5 DEF BindingsTyped
<1>6. CASE Fire
  <2>1. /\ ~Resting /\ FireNext(Handles) /\ frames \in Seq(FrameRecord)
        /\ Hear(Top.event, Top.key, current') /\ Told(Top.event, current')
        /\ UNCHANGED <<table, value, bound>>
    BY <1>6 DEF Fire, FireNext, StackTyped
  <2> DEFINE c == current'
             n == Len(frames)
  <2>2. c \in Script /\ c \in ToSet(table) /\ n \in 1..n /\ Top = frames[n]
    BY <2>1, FireFacts, TopFacts DEF ComesTo, TablesAreLive
  <2>3. /\ c \in ToSet(table)
        /\ Top.event = "onDataChanged" => Top.key \in DOMAIN value
    BY <2>2 DEF StackTyped
  <2>4. /\ heard' \in [Script -> Value \cup {Empty}]
        /\ \A s \in Script \ ToSet(table) : heard'[s] = Empty
    <3>1. CASE Top.event = "onDataChanged"
      <4>1. value[Top.key] \in Value \cup {Empty}
        BY <2>3, <3>1 DEF SettingsAreDeclared
      <4> QED BY <2>1, <2>2, <2>3, <3>1, <4>1 DEF Hear, BindingsTyped
    <3>2. CASE Top.event # "onDataChanged"
      BY <2>1, <3>2 DEF Hear, BindingsTyped
    <3> QED BY <3>1, <3>2
  <2>5. /\ told' \in [Script -> {"none"} \cup TransportEvents]
        /\ \A s \in Script \ ToSet(table) : told'[s] = "none"
    BY <2>1, <2>2, <2>3 DEF Told, BindingsTyped
  <2> QED BY <2>1, <2>4, <2>5 DEF BindingsTyped
<1>7. CASE End
  BY <1>1, <1>7 DEF End, EndDispatch, configVars, pumpVars
<1>8. CASE (\E s \in Script : Input(s)) /\ UNCHANGED <<configVars, pumpVars>>
  BY <1>1, <1>8 DEF Input, configVars, pumpVars
<1>9. CASE (OpenPopup \/ Return) /\ UNCHANGED <<configVars, pumpVars>>
  BY <1>1, <1>9 DEF OpenPopup, Return, configVars, pumpVars
<1>10. CASE Pump /\ UNCHANGED configVars
  BY <1>1, <1>10 DEF Pump, configVars
<1>11. CASE UNCHANGED vars
  BY <1>1, <1>11 DEF vars, dispatchVars, configVars, pumpVars
<1> QED BY <1>2, <1>3, <1>4, <1>5, <1>6, <1>7, <1>8, <1>9, <1>10, <1>11 DEF Next

-----------------------------------------------------------------------------
(* The stack, step by step.                                                      *)

(* What each step does to the stack.                                             *)
Calls(f) ==
    /\ f \in FrameRecord /\ Deeper(f) /\ f.who = NoScript
    /\ Resting \/ Running \/ Top.event = "loop"

(* A new dispatch of loaded scripts, while nothing is unloaded.                   *)
LEMMA CallKeeps ==
    ASSUME StackTyped, NEW f, Calls(f), ToSet(table) \subseteq ToSet(table'),
           DOMAIN value \subseteq DOMAIN value', ToSet(f.queue) \subseteq ToSet(table'),
           f.event = "onDataChanged" => f.key \in DOMAIN value'
    PROVE  StackTyped'
<1>1. /\ frames' \in Seq(FrameRecord) /\ f.who = NoScript /\ Len(frames) \in Nat
      /\ Len(frames') = Len(frames) + 1 /\ frames'[Len(frames) + 1] = f
      /\ \A i \in 1..Len(frames) : frames'[i] = frames[i]
      /\ \A i \in 1..Len(frames') : i \in 1..Len(frames) \/ i = Len(frames) + 1
  BY DEF Calls, Deeper
<1>2. Len(frames) # 0 => Running \/ Top.event = "loop"
  BY TopFacts DEF Calls, StackTyped
<1>3. ASSUME NEW i \in 1..Len(frames')
      PROVE  /\ ToSet(frames'[i].queue) \subseteq ToSet(table')
             /\ frames'[i].who \in ToSet(table') \cup {NoScript}
             /\ i < Len(frames') => frames'[i].who # NoScript \/ frames'[i].event = "loop"
             /\ frames'[i].event = "onDataChanged" => frames'[i].key \in DOMAIN value'
  <2>1. CASE i = Len(frames) + 1
    BY <1>1, <2>1
  <2>2. CASE i \in 1..Len(frames)
    <3>1. frames'[i] = frames[i]
      BY <1>1, <2>2
    <3>2. /\ ToSet(frames[i].queue) \subseteq ToSet(table)
          /\ frames[i].who \in ToSet(table) \cup {NoScript}
          /\ frames[i].event = "onDataChanged" => frames[i].key \in DOMAIN value
      BY <2>2 DEF StackTyped
    <3>3. frames[i].who # NoScript \/ frames[i].event = "loop"
      <4>1. CASE i < Len(frames)
        BY <2>2, <4>1 DEF StackTyped
      <4>2. CASE i = Len(frames)
        <5>1. Top = frames[i] /\ Len(frames) # 0
          BY <2>2, <4>2, <1>1, TopFacts DEF StackTyped
        <5> QED BY <5>1, <1>2 DEF Running
      <4> QED BY <4>1, <4>2, <2>2, <1>1
    <3> QED BY <3>1, <3>2, <3>3
  <2> QED BY <1>1, <2>1, <2>2
<1> QED BY <1>1, <1>3 DEF StackTyped

(* The innermost dispatch goes on, or is done.                                   *)
LEMMA TopGoesOn ==
    ASSUME StackTyped, NEW f, TopBecomes(f), UNCHANGED table,
           DOMAIN value \subseteq DOMAIN value', ToSet(f.queue) \subseteq ToSet(Top.queue),
           f.who \in ToSet(table) \cup {NoScript}, f.event = Top.event, f.key = Top.key
    PROVE  StackTyped'
<1>1. /\ frames' \in Seq(FrameRecord) /\ Len(frames') = Len(frames) /\ Len(frames) \in Nat
      /\ Len(frames) \in 1..Len(frames)
      /\ \A i \in 1..Len(frames) : i # Len(frames) => frames'[i] = frames[i]
      /\ frames'[Len(frames)] = f
  BY DEF TopBecomes
<1>2. Top = frames[Len(frames)]
  BY <1>1, TopFacts DEF StackTyped
<1>3. ASSUME NEW i \in 1..Len(frames)
      PROVE  /\ ToSet(frames'[i].queue) \subseteq ToSet(table')
             /\ frames'[i].who \in ToSet(table') \cup {NoScript}
             /\ i < Len(frames') => frames'[i].who # NoScript \/ frames'[i].event = "loop"
             /\ frames'[i].event = "onDataChanged" => frames'[i].key \in DOMAIN value'
  <2>1. CASE i = Len(frames)
    BY <1>1, <1>2, <2>1 DEF StackTyped
  <2>2. CASE i # Len(frames)
    BY <1>1, <2>2 DEF StackTyped
  <2> QED BY <2>1, <2>2
<1> QED BY <1>1, <1>3 DEF StackTyped

(* A dispatch that has ended leaves the others as they were.                   *)
LEMMA PopKeeps ==
    ASSUME StackTyped, Shallower, UNCHANGED <<table, value>>
    PROVE  StackTyped'
BY DEF StackTyped, Shallower

(* The dispatches that the steps begin.                                          *)
LEMMA NewCalls ==
    ASSUME StackTyped, TablesAreLive
    PROVE  /\ \A r \in Runtime : Load(r) => Calls(Frame("onScriptLoaded", NoKey, ScriptsOf[r]))
           /\ \A s \in Script : Input(s) => Calls(Frame("input", NoKey, <<s>>))
           /\ OpenPopup => Calls(Frame("loop", NoKey, <<>>))
           /\ \A a \in Key : Running /\ Push(Walk("onDataChanged", a)) =>
                 Calls(Walk("onDataChanged", a))
<1> USE DispatchAssumption
<1> DEFINE Ready == Resting \/ Running \/ Top.event = "loop"
<1>1. ASSUME NEW e \in Event, NEW k \in Key \cup {NoKey}, NEW q \in Seq(Script),
             Push(Frame(e, k, q)), Ready
      PROVE  Calls(Frame(e, k, q))
  <2>1. Frame(e, k, q) \in FrameRecord /\ Frame(e, k, q).who = NoScript
    BY DEF Frame, FrameRecord
  <2>2. Push(Frame(e, k, q)) /\ frames \in Seq(FrameRecord)
    BY <1>1 DEF StackTyped
  <2>3. Deeper(Frame(e, k, q))
    BY <2>1, <2>2, PushFacts
  <2> QED BY <1>1, <2>1, <2>3 DEF Calls
<1>2. EventLoop \/ Running => Ready
  BY DEF EventLoop
<1>3. ASSUME NEW r \in Runtime, Load(r)
      PROVE  Calls(Frame("onScriptLoaded", NoKey, ScriptsOf[r]))
  BY <1>1, <1>2, <1>3 DEF Load, LoadRuntime, Event
<1>4. ASSUME NEW s \in Script, Input(s) PROVE Calls(Frame("input", NoKey, <<s>>))
  <2>1. <<s>> \in Seq(Script)
    OBVIOUS
  <2> QED BY <1>1, <1>2, <1>4, <2>1 DEF Input, Event
<1>5. OpenPopup => Calls(Frame("loop", NoKey, <<>>))
  <2>1. <<>> \in Seq(Script)
    OBVIOUS
  <2> QED BY <1>1, <2>1 DEF OpenPopup, Event
<1>6. ASSUME NEW a \in Key, Running, Push(Walk("onDataChanged", a))
      PROVE  Calls(Walk("onDataChanged", a))
  <2> DEFINE f == Walk("onDataChanged", a)
  <2>1. Len(table) \in Nat /\ frames \in Seq(FrameRecord) /\ "onDataChanged" \in Event
    BY DEF TablesAreLive, StackTyped, Event
  <2>2. f \in FrameRecord /\ f.who = NoScript /\ Push(f)
    BY <1>6, <2>1, WalkFacts
  <2> HIDE DEF f
  <2>3. Deeper(f)
    BY <2>1, <2>2, PushFacts
  <2>4. Calls(f)
    BY <1>6, <2>2, <2>3 DEF Calls
  <2> QED BY <2>4 DEF f
<1> QED BY <1>3, <1>4, <1>5, <1>6

(* The pump goes over every loaded script.                                       *)
LEMMA SnapshotFacts ==
    ASSUME TablesAreLive, NEW q \in Snapshots
    PROVE  q \in Seq(Script) /\ ToSet(q) = ToSet(table)
<1> USE DispatchAssumption
<1>1. PICK order \in SetToSeqs(live) : q = FlattenSeq([i \in DOMAIN order |-> ScriptsOf[order[i]]])
  BY DEF Snapshots
<1>2. IsFiniteSet(live) /\ live \subseteq Runtime
  BY DEF TablesAreLive
<1>3. /\ order \in Seq(live) /\ ToSet(order) = live
      /\ DOMAIN order = 1..Cardinality(live) /\ Cardinality(live) \in Nat
  BY <1>2, SetToSeqsFacts
<1> DEFINE seqs == [i \in DOMAIN order |-> ScriptsOf[order[i]]]
<1>4. \A i \in DOMAIN order : order[i] \in live
  BY <1>3
<1>5. seqs \in Seq(Seq(Script)) /\ DOMAIN seqs = DOMAIN order
  <2> DEFINE T == Seq(Script)
             n == Cardinality(live)
  <2>1. \A i \in 1..n : ScriptsOf[order[i]] \in T
    BY <1>2, <1>3, <1>4
  <2>2. n \in Nat /\ DOMAIN order = 1..n
    BY <1>3
  <2> HIDE DEF T, n
  <2>3. seqs \in [1..n -> T] /\ DOMAIN seqs = DOMAIN order
    BY <2>1, <2>2
  <2> HIDE DEF seqs
  <2>4. seqs \in Seq(T)
    BY <2>2, <2>3, SeqDef
  <2> QED BY <2>3, <2>4 DEF T
<1>6. /\ FlattenSeq(seqs) \in Seq(Script)
      /\ ToSet(FlattenSeq(seqs)) = UNION {ToSet(seqs[i]) : i \in DOMAIN seqs}
  <2> HIDE DEF seqs
  <2> QED BY <1>5, FlattenFacts
<1>7. UNION {ToSet(seqs[i]) : i \in DOMAIN seqs} = UNION {ToSet(ScriptsOf[r]) : r \in live}
  <2>1. {ToSet(seqs[i]) : i \in DOMAIN seqs} = {ToSet(ScriptsOf[r]) : r \in live}
    <3>1. \A i \in DOMAIN seqs : seqs[i] = ScriptsOf[order[i]] /\ order[i] \in live
      BY <1>4, <1>5
    <3>2. \A r \in live : \E i \in DOMAIN seqs : order[i] = r
      BY <1>3, <1>5 DEF ToSet
    <3> HIDE DEF seqs
    <3> QED BY <3>1, <3>2
  <2> QED BY <2>1
<1> QED BY <1>1, <1>6, <1>7 DEF TablesAreLive

(* The pump fires transport events.                                            *)
LEMMA EdgeFacts ==
    ASSUME NEW cur, NEW prev
    PROVE  Edge(cur, prev) \in TransportEvents
BY DEF Edge, TransportEvents

(* The pump begins one dispatch, to all.                                       *)
LEMMA PumpCalls ==
    ASSUME TablesAreLive, StackTyped, Pump
    PROVE  \E cur \in Status, q \in Seq(Script) :
              /\ last' = cur /\ Calls(Frame(Edge(cur, last), NoKey, q))
              /\ ToSet(q) = ToSet(table)
<1>1. PICK cur \in Status \ {last}, q \in Snapshots :
         last' = cur /\ Push(Frame(Edge(cur, last), NoKey, q))
  BY DEF Pump
<1>2. q \in Seq(Script) /\ ToSet(q) = ToSet(table)
  BY SnapshotFacts
<1> DEFINE e == Edge(cur, last)
<1>3. e \in Event
  BY EdgeFacts DEF Event
<1>4. frames \in Seq(FrameRecord)
  BY DEF StackTyped
<1>5. Resting \/ Running \/ Top.event = "loop"
  BY DEF Pump, EventLoop
<1> DEFINE f == Frame(e, NoKey, q)
<1>6. f \in FrameRecord /\ f.who = NoScript /\ Push(f)
  <2> HIDE DEF e
  <2> QED BY <1>1, <1>2, <1>3, FrameFacts DEF e
<1> HIDE DEF f
<1>7. Deeper(f)
  BY <1>4, <1>6, PushFacts
<1>8. Calls(f)
  BY <1>5, <1>6, <1>7 DEF Calls
<1> QED BY <1>1, <1>2, <1>8 DEF f

(* The listeners of a setData.                                                   *)
LEMMA SetDataFires ==
    ASSUME StackTyped, TablesAreLive, SettingsAreDeclared, NEW a, NEW v, SetData(a, v)
    PROVE  /\ a \in Key
           /\ \/ /\ Calls(Walk("onDataChanged", a)) /\ missed' = missed \ {a}
              \/ frames' = frames /\ missed' = missed \cup {a}
<1> USE ConfigAssumption
<1>1. Running /\ a \in DOMAIN value /\ FireDataChanged(a)
  BY DEF SetData
<1>2. a \in Key
  BY <1>1 DEF SettingsAreDeclared
<1>3. \/ Push(Walk("onDataChanged", a)) /\ missed' = missed \ {a}
      \/ frames' = frames /\ missed' = missed \cup {a}
  BY <1>1 DEF FireDataChanged
<1> QED BY <1>1, <1>2, <1>3, NewCalls

(* No step leaves an unloaded script on the stack.                             *)
LEMMA StackStep ==
    ASSUME TablesAreLive, StackTyped, SettingsAreDeclared, [Next]_vars
    PROVE  StackTyped'
<1>1. CASE UNCHANGED <<frames, table>> /\ DOMAIN value \subseteq DOMAIN value'
  BY <1>1 DEF StackTyped
<1>2. ASSUME NEW r \in Runtime, Load(r) PROVE StackTyped'
  <2> DEFINE f == Frame("onScriptLoaded", NoKey, ScriptsOf[r])
  <2>1. Calls(f) /\ f.queue = ScriptsOf[r] /\ f.event = "onScriptLoaded"
    BY <1>2, NewCalls DEF Frame
  <2>2. LoadRuntime(r) /\ value' = value
    BY <1>2 DEF Load, configVars
  <2>3. ToSet(table') = ToSet(table) \cup ToSet(ScriptsOf[r])
    BY <2>2, LoadFacts
  <2> HIDE DEF f
  <2> QED BY <2>1, <2>2, <2>3, CallKeeps
<1>3. ASSUME NEW r \in Runtime, Unload(r) PROVE StackTyped'
  <2>1. DestroyAll(r) /\ frames' = frames /\ ~Uses(r) /\ value' = value
    BY <1>3 DEF Unload, DestroyAll
  <2>2. ToSet(table') = ToSet(table) \ ToSet(ScriptsOf[r])
    BY <2>1, UnloadFacts
  <2>3. DOMAIN frames = 1..Len(frames)
    BY TopFacts DEF StackTyped
  <2>4. ASSUME NEW i \in 1..Len(frames)
        PROVE  /\ ToSet(frames[i].queue) \subseteq ToSet(table')
               /\ frames[i].who \in ToSet(table') \cup {NoScript}
    <3>1. \A s \in ToSet(ScriptsOf[r]) : s # frames[i].who /\ s \notin ToSet(frames[i].queue)
      BY <2>1, <2>3 DEF Uses
    <3>2. /\ ToSet(frames[i].queue) \subseteq ToSet(table)
          /\ frames[i].who \in ToSet(table) \cup {NoScript}
      BY DEF StackTyped
    <3> QED BY <2>2, <3>1, <3>2
  <2> QED BY <2>1, <2>4 DEF StackTyped
<1>4. ASSUME NEW s \in Script, Input(s), UNCHANGED configVars PROVE StackTyped'
  <2> DEFINE f == Frame("input", NoKey, <<s>>)
  <2>1. Calls(f) /\ f.queue = <<s>> /\ f.event = "input"
    BY <1>4, NewCalls DEF Frame
  <2>2. table' = table /\ value' = value /\ Contains(table, s)
    BY <1>4 DEF Input, configVars
  <2>3. ToSet(<<s>>) \subseteq ToSet(table)
    BY <2>2 DEF ToSet, Contains
  <2> HIDE DEF f
  <2> QED BY <2>1, <2>2, <2>3, CallKeeps
<1>5. CASE OpenPopup /\ UNCHANGED configVars
  <2> DEFINE f == Frame("loop", NoKey, <<>>)
  <2>1. Calls(f) /\ ToSet(f.queue) = {} /\ f.event = "loop"
    BY <1>5, NewCalls DEF Frame, ToSet
  <2>2. table' = table /\ value' = value
    BY <1>5 DEF OpenPopup, configVars
  <2> HIDE DEF f
  <2> QED BY <2>1, <2>2, CallKeeps
<1>6. CASE Return /\ UNCHANGED configVars
  <2> DEFINE f == [Top EXCEPT !.who = NoScript]
  <2>1. frames \in Seq(FrameRecord)
    BY DEF StackTyped
  <2>2. TopBecomes(f) /\ Top \in FrameRecord
    BY <1>6, <2>1, ReturnFacts, TopFacts
  <2>3. f.queue = Top.queue /\ f.who = NoScript /\ f.event = Top.event /\ f.key = Top.key
    BY <2>2 DEF FrameRecord
  <2>4. table' = table /\ value' = value
    BY <1>6 DEF Return, configVars
  <2> HIDE DEF f
  <2> QED BY <2>2, <2>3, <2>4, TopGoesOn
<1>7. CASE Fire
  <2>1. /\ ~Resting /\ FireNext(Handles) /\ frames \in Seq(FrameRecord)
        /\ table \in Seq(Script) /\ table' = table /\ value' = value
    BY <1>7 DEF Fire, FireNext, StackTyped, TablesAreLive
  <2>2. PICK f : ComesTo(current', f) /\ TopBecomes(f)
    BY <2>1, FireFacts
  <2>3. /\ f.who \in ToSet(table) /\ f.event = Top.event /\ f.key = Top.key
        /\ ToSet(f.queue) \subseteq ToSet(Top.queue)
    BY <2>2 DEF ComesTo
  <2> QED BY <2>1, <2>2, <2>3, TopGoesOn
<1>8. CASE End
  <2>1. ~Resting /\ Pop /\ frames \in Seq(FrameRecord) /\ UNCHANGED <<table, value>>
    BY <1>8 DEF End, EndDispatch, configVars, StackTyped
  <2> QED BY <2>1, PopFacts, PopKeeps
<1>9. CASE Handler
  <2>1. ASSUME NEW k \in Key, NewAttribute(Top.who, k) PROVE StackTyped'
    <3>1. UNCHANGED <<frames, table>>
      BY <2>1 DEF NewAttribute, dispatchVars
    <3> QED BY <1>1, <2>1, <3>1, NewAttributeKeeps
  <2>2. ASSUME NEW k \in Key, GetAttribute(Top.who, k) PROVE StackTyped'
    <3>1. UNCHANGED <<frames, table>>
      BY <2>2 DEF GetAttribute, dispatchVars
    <3> QED BY <1>1, <2>2, <3>1, GetAttributeKeeps
  <2>3. ASSUME NEW a \in DOMAIN value, NEW v \in Value \cup {Empty}, SetData(a, v)
        PROVE  StackTyped'
    <3>1. DOMAIN value' = DOMAIN value /\ table' = table
      BY <2>3, SetDataKeeps DEF SetData
    <3>2. CASE frames' = frames
      BY <1>1, <3>1, <3>2
    <3>3. CASE Calls(Walk("onDataChanged", a))
      <4> DEFINE f == Walk("onDataChanged", a)
      <4>1. ToSet(f.queue) = {} /\ f.key = a
        BY DEF Walk, Frame, ToSet
      <4>2. Calls(f)
        BY <3>3
      <4> HIDE DEF f
      <4> QED BY <2>3, <3>1, <4>1, <4>2, CallKeeps
    <3> QED BY <2>3, <3>2, <3>3, SetDataFires
  <2> QED BY <1>9, <2>1, <2>2, <2>3, HandlerFacts
<1>10. CASE Pump /\ UNCHANGED configVars
  <2>1. PICK cur \in Status, q \in Seq(Script) :
           Calls(Frame(Edge(cur, last), NoKey, q)) /\ ToSet(q) = ToSet(table)
    BY <1>10, PumpCalls
  <2> DEFINE e == Edge(cur, last)
  <2> DEFINE f == Frame(e, NoKey, q)
  <2>2. f.queue = q /\ f.event # "onDataChanged"
    BY EdgeFacts DEF Frame, TransportEvents
  <2>3. table' = table /\ value' = value
    BY <1>10 DEF Pump, configVars
  <2>4. Calls(f)
    BY <2>1
  <2> HIDE DEF f
  <2> QED BY <2>1, <2>2, <2>3, <2>4, CallKeeps
<1>12. CASE Restart
  <2>1. <<>> \in Seq(FrameRecord) /\ Len(<<>>) = 0
    OBVIOUS
  <2> QED BY <1>12, <2>1 DEF Restart, StackTyped
<1>13. CASE UNCHANGED vars
  BY <1>1, <1>13 DEF vars, dispatchVars, configVars
<1> QED BY <1>2, <1>3, <1>4, <1>5, <1>6, <1>7, <1>8, <1>9, <1>10, <1>12, <1>13 DEF Next

-----------------------------------------------------------------------------
(* The listeners.                                                                *)

(* What a listener waits for stays on the stack when more is put on it.           *)
LEMMA StillToHear ==
    ASSUME NEW s, ToHear(s), UNCHANGED bound, TableGrows,
           frames' = frames \/ \E f : Calls(f)
    PROVE  ToHear(s)'
<1>1. PICK i \in 1..Len(frames) :
         /\ frames[i].event = "onDataChanged" /\ frames[i].key = bound[s]
         /\ \E j \in Entries(frames[i]) : table[j] = s
  BY DEF ToHear
<1>2. i \in 1..Len(frames') /\ frames'[i] = frames[i]
  BY DEF Calls, Deeper
<1>3. PICK j \in Entries(frames[i]) : table[j] = s
  BY <1>1
<1>4. j \in Entries(frames[i])' /\ table'[j] = s
  BY <1>2, <1>3 DEF Entries, TableGrows
<1> QED BY <1>1, <1>2, <1>4 DEF ToHear

(* So a listener that needs to hear the value still will.                      *)
LEMMA StillListening ==
    ASSUME NEW s, Listening(s), UNCHANGED <<bound, heard, value, missed>>, TableGrows,
           frames' = frames \/ \E f : Calls(f)
    PROVE  Listening(s)'
<1>1. ToHear(s) => ToHear(s)'
  BY StillToHear
<1>2. UNCHANGED bound[s] /\ UNCHANGED heard[s] /\ UNCHANGED value[bound[s]]
  OBVIOUS
<1> QED BY <1>1, <1>2 DEF Listening

(* A declaration or a lookup writes the attribute's initial value, or none.       *)
LEMMA AssignedListen ==
    ASSUME BindingsTyped, StackTyped, SettingsAreDeclared, ListenersWait, ToSet(table) \subseteq Script,
           NEW w \in Script, NEW a \in Declared, Assign(w, a, value'[a]),
           UNCHANGED <<dispatchVars, missed>>,
           \A x \in DOMAIN value : x # a => value'[x] = value[x],
           a \in DOMAIN value => value[a] \in {Empty, value'[a]}
    PROVE  ListenersWait'
<1> USE ConfigAssumption
<1>1. /\ bound' = [bound EXCEPT ![w] = a]
      /\ heard' = [heard EXCEPT ![w] = value'[a]]
      /\ frames' = frames /\ table' = table /\ missed' = missed
  BY DEF Assign, dispatchVars
<1>2. ASSUME NEW s \in ToSet(table) PROVE Listening(s)'
  <2>1. s \in Script /\ bound[s] \in DOMAIN value \cup {NoKey}
    BY DEF BindingsTyped
  <2>2. CASE s = w
    <3>1. bound'[s] = a /\ heard'[s] = value'[a]
      BY <1>1, <2>1, <2>2 DEF BindingsTyped
    <3> QED BY <3>1 DEF Listening
  <2>3. CASE s # w
    <3>1. bound'[s] = bound[s] /\ heard'[s] = heard[s]
      BY <1>1, <2>1, <2>3 DEF BindingsTyped
    <3>2. Listening(s)
      BY DEF ListenersWait
    <3>3. ToHear(s) => ToHear(s)'
      BY <1>1, <3>1 DEF ToHear, Entries
    <3>4. bound[s] = NoKey \/ value'[bound[s]] = value[bound[s]] \/ value[bound[s]] \in {Empty, value'[bound[s]]}
      BY <2>1
    <3> QED BY <1>1, <3>1, <3>2, <3>3, <3>4 DEF Listening
  <2> QED BY <2>2, <2>3
<1> QED BY <1>1, <1>2 DEF ListenersWait

(* Every listener has read the value or still has to hear it.                  *)
LEMMA ListenersStep ==
    ASSUME TablesAreLive, StackTyped, SettingsAreDeclared, BindingsTyped, ListenersWait, [Next]_vars
    PROVE  ListenersWait'
<1> USE ConfigAssumption
<1>t. ToSet(table) \subseteq Script
  BY DEF TablesAreLive, ToSet
<1>1. ASSUME UNCHANGED table, UNCHANGED configVars,
             frames' = frames \/ \E f : Calls(f)
      PROVE  ListenersWait'
  <2>1. TableGrows
    BY <1>1 DEF TableGrows
  <2> QED BY <1>1, <2>1, StillListening DEF ListenersWait, configVars
<1>2. ASSUME NEW r \in Runtime, Load(r) PROVE ListenersWait'
  <2>1. LoadRuntime(r) /\ UNCHANGED configVars /\ UNCHANGED <<bound, heard, value, missed>>
    BY <1>2 DEF Load, configVars
  <2>2. /\ ToSet(table') = ToSet(table) \cup ToSet(ScriptsOf[r])
        /\ ToSet(table) \cap ToSet(ScriptsOf[r]) = {}
        /\ ScriptsOf[r] \in Seq(Script) /\ TableGrows
    BY <2>1, LoadFacts
  <2>5. ToSet(ScriptsOf[r]) \subseteq Script
    BY <2>2 DEF ToSet
  <2>3. Calls(Frame("onScriptLoaded", NoKey, ScriptsOf[r]))
    BY <1>2, NewCalls
  <2>4. ASSUME NEW s \in ToSet(table') PROVE Listening(s)'
    <3>1. CASE s \in ToSet(table)
      BY <2>1, <2>2, <2>3, <3>1, StillListening DEF ListenersWait
    <3>2. CASE s \in ToSet(ScriptsOf[r])
      <4>1. bound[s] = NoKey
        BY <2>2, <2>5, <3>2 DEF BindingsTyped
      <4> QED BY <4>1, <2>1 DEF Listening
    <3> QED BY <2>2, <3>1, <3>2
  <2> QED BY <2>4 DEF ListenersWait
<1>3. ASSUME NEW r \in Runtime, Unload(r) PROVE ListenersWait'
  <2>1. /\ DestroyAll(r) /\ frames' = frames /\ value' = value
        /\ missed' = missed \cup {frames[i].key : i \in Derailed(r)}
        /\ bound' = Forget(bound, r, NoKey) /\ heard' = Forget(heard, r, Empty)
        /\ table' = Without(table, ToSet(ScriptsOf[r]))
    BY <1>3 DEF Unload, DestroyAll
  <2>2. ToSet(table') = ToSet(table) \ ToSet(ScriptsOf[r])
    BY <2>1, UnloadFacts
  <2>3. ASSUME NEW s \in ToSet(table') PROVE Listening(s)'
    <3>1. s \in Script /\ s \in ToSet(table) /\ s \notin ToSet(ScriptsOf[r])
      BY <1>t, <2>2
    <3>2. bound'[s] = bound[s] /\ heard'[s] = heard[s]
      BY <2>1, <3>1 DEF Forget
    <3>3. Listening(s)
      BY <3>1 DEF ListenersWait
    <3>4. ASSUME ToHear(s) PROVE ToHear(s)' \/ bound[s] \in missed'
      <4>0. PICK i \in 1..Len(frames) : \E j \in Entries(frames[i]) :
               frames[i].event = "onDataChanged" /\ frames[i].key = bound[s] /\ table[j] = s
        BY <3>4 DEF ToHear
      <4>1. PICK j \in Entries(frames[i]) :
               frames[i].event = "onDataChanged" /\ frames[i].key = bound[s] /\ table[j] = s
        BY <4>0
      <4>2. frames[i] \in FrameRecord /\ DOMAIN frames = 1..Len(frames)
        BY TopFacts DEF StackTyped
      <4>3. CASE i \in Derailed(r)
        BY <2>1, <4>1, <4>3
      <4>4. CASE i \notin Derailed(r)
        <5> DEFINE gone == ToSet(ScriptsOf[r])
                   b == frames[i].next
        <5>1. /\ table \in Seq(Script) /\ DOMAIN table = 1..Len(table) /\ b \in Nat
              /\ j \in 1..Len(table) /\ b <= j /\ j <= frames[i].limit /\ frames[i].limit \in Nat
          BY <4>1, <4>2, RecordFacts DEF Entries, TablesAreLive
        <5>2. \A k \in 1..Len(table) : k < b => table[k] \notin gone
          BY <4>2, <4>4, <5>1 DEF Derailed
        <5>3. table[j] \notin gone /\ table' = Without(table, gone)
          BY <2>1, <3>1, <4>1
        <5> HIDE DEF gone, b
        <5>4. PICK l \in DOMAIN Without(table, gone) :
                 b <= l /\ l <= j /\ Without(table, gone)[l] = table[j]
          BY <5>1, <5>2, <5>3, WithoutMoves
        <5>5. l \in DOMAIN table' /\ table'[l] = s /\ l \in Int /\ j \in Int
          <6>1. table' \in Seq(Script)
            BY <2>1, UnloadFacts
          <6>2. DOMAIN table' = 1..Len(table') /\ Len(table') \in Nat
            BY <6>1
          <6> QED BY <4>1, <5>1, <5>3, <5>4, <6>2
        <5>6. l \in Entries(frames[i])'
          BY <2>1, <5>1, <5>4, <5>5 DEF Entries, b
        <5> QED BY <2>1, <3>2, <4>1, <5>5, <5>6 DEF ToHear
      <4> QED BY <4>3, <4>4
    <3> QED BY <2>1, <3>2, <3>3, <3>4 DEF Listening
  <2> QED BY <2>3 DEF ListenersWait
<1>4. ASSUME NEW s \in Script, Input(s), UNCHANGED configVars PROVE ListenersWait'
  <2>1. table' = table
    BY <1>4 DEF Input
  <2> QED BY <1>1, <1>4, <2>1, NewCalls
<1>5. CASE OpenPopup /\ UNCHANGED configVars
  <2>1. table' = table
    BY <1>5 DEF OpenPopup
  <2> QED BY <1>1, <1>5, <2>1, NewCalls
<1>6. CASE Return /\ UNCHANGED configVars
  <2> DEFINE f == [Top EXCEPT !.who = NoScript]
             n == Len(frames)
  <2>1. frames \in Seq(FrameRecord)
    BY DEF StackTyped
  <2>2. TopBecomes(f) /\ Top \in FrameRecord /\ Top = frames[n]
    BY <1>6, <2>1, ReturnFacts, TopFacts
  <2>3. f.next = Top.next /\ f.limit = Top.limit /\ f.event = Top.event /\ f.key = Top.key
    BY <2>2 DEF FrameRecord
  <2>4. UNCHANGED <<table, bound, heard, value, missed>>
    BY <1>6 DEF Return, configVars
  <2> HIDE DEF f
  <2>5. \A i \in 1..n : /\ frames'[i].next = frames[i].next /\ frames'[i].limit = frames[i].limit
                        /\ frames'[i].event = frames[i].event /\ frames'[i].key = frames[i].key
    BY <2>2, <2>3 DEF TopBecomes
  <2>6. Len(frames') = n
    BY <2>2 DEF TopBecomes
  <2>7. \A s : ToHear(s) => ToHear(s)'
    BY <2>4, <2>5, <2>6 DEF ToHear, Entries
  <2>8. \A s : Listening(s) => Listening(s)'
    <3> TAKE s
    <3>1. UNCHANGED bound[s] /\ UNCHANGED heard[s] /\ UNCHANGED value[bound[s]]
      BY <2>4
    <3> QED BY <2>4, <2>7, <3>1 DEF Listening
  <2> QED BY <2>4, <2>8 DEF ListenersWait
<1>7. CASE Fire
  <2> DEFINE n == Len(frames)
             c == current'
  <2>1. /\ ~Resting /\ FireNext(Handles) /\ frames \in Seq(FrameRecord) /\ table \in Seq(Script)
        /\ UNCHANGED <<table, value, bound, missed>> /\ Hear(Top.event, Top.key, c)
    BY <1>7 DEF Fire, FireNext, StackTyped, TablesAreLive
  <2>2. PICK f : ComesTo(c, f) /\ TopBecomes(f)
    BY <2>1, FireFacts
  <2>3. /\ f.event = Top.event /\ f.key = Top.key /\ Top = frames[n]
    BY <2>1, <2>2, TopFacts DEF ComesTo
  <2>5. /\ Len(frames') = n /\ n \in 1..n
        /\ \A i \in 1..n : i # n => frames'[i] = frames[i]
        /\ frames'[n] = f
    BY <2>2 DEF TopBecomes
  <2>6. c \in Script /\ Handles(c)
    BY <2>2 DEF ComesTo
  <2>7. ASSUME NEW s \in ToSet(table) PROVE Listening(s)'
    <3>1. s \in Script /\ Listening(s)
      BY <1>t DEF ListenersWait
    <3>2. CASE s = c /\ Top.event = "onDataChanged"
      <4>1. bound[s] = Top.key
        BY <2>6, <3>2 DEF Handles
      <4>2. heard'[s] = value[Top.key]
        BY <2>1, <3>1, <3>2 DEF Hear, BindingsTyped
      <4> QED BY <2>1, <4>1, <4>2 DEF Listening
    <3>3. CASE s # c \/ Top.event # "onDataChanged"
      <4>1. heard'[s] = heard[s]
        BY <2>1, <3>1, <3>3 DEF Hear, BindingsTyped
      <4>2. ASSUME ToHear(s) PROVE ToHear(s)'
        <5>0. PICK i \in 1..n : \E j \in Entries(frames[i]) :
                 frames[i].event = "onDataChanged" /\ frames[i].key = bound[s] /\ table[j] = s
          BY <4>2 DEF ToHear
        <5>1. PICK j \in Entries(frames[i]) :
                 frames[i].event = "onDataChanged" /\ frames[i].key = bound[s] /\ table[j] = s
          BY <5>0
        <5>2. CASE i # n
          <6>1. frames'[i] = frames[i] /\ j \in Entries(frames[i])'
            BY <5>2, <2>1, <2>5 DEF Entries
          <6> QED BY <5>1, <6>1, <2>1, <2>5 DEF ToHear
        <5>3. CASE i = n
          <6>1. Top.event = "onDataChanged" /\ Top.key = bound[s] /\ j \in Entries(Top)
            BY <5>1, <5>3, <2>3
          <6>2. Handles(s)
            BY <6>1 DEF Handles, Contains, ToSet
          <6>3. j \in Entries(f)
            BY <2>2, <3>3, <5>1, <6>1, <6>2 DEF ComesTo
          <6>4. j \in Entries(f)' /\ table'[j] = s
            BY <2>1, <5>1, <6>3 DEF Entries
          <6> QED BY <6>1, <6>4, <2>1, <2>3, <2>5 DEF ToHear
        <5> QED BY <5>2, <5>3
      <4>3. bound'[s] = bound[s] /\ value'[bound[s]] = value[bound[s]] /\ missed' = missed
        BY <2>1
      <4> QED BY <3>1, <4>1, <4>2, <4>3 DEF Listening
    <3> QED BY <3>2, <3>3
  <2> QED BY <2>1, <2>7 DEF ListenersWait
<1>8. CASE End
  <2> DEFINE n == Len(frames)
  <2>1. /\ ~Resting /\ Pop /\ frames \in Seq(FrameRecord) /\ UNCHANGED table
        /\ UNCHANGED <<bound, heard, value, missed>> /\ \A s \in Ahead(Top) : ~Handles(s)
    BY <1>8 DEF End, EndDispatch, configVars, StackTyped
  <2>2. Shallower /\ Top = frames[n]
    BY <2>1, PopFacts, TopFacts
  <2>3. ASSUME NEW s \in ToSet(table) PROVE Listening(s)'
    <3>1. ASSUME ToHear(s) PROVE ToHear(s)'
      <4>0. PICK i \in 1..n : \E j \in Entries(frames[i]) :
               frames[i].event = "onDataChanged" /\ frames[i].key = bound[s] /\ table[j] = s
        BY <3>1 DEF ToHear
      <4>1. PICK j \in Entries(frames[i]) :
               frames[i].event = "onDataChanged" /\ frames[i].key = bound[s] /\ table[j] = s
        BY <4>0
      <4>2. i # n
        <5> SUFFICES ASSUME i = n PROVE FALSE
          OBVIOUS
        <5>1. Handles(s)
          BY <4>1, <2>2 DEF Handles, Contains, ToSet
        <5>2. s \in Ahead(Top)
          BY <4>1, <2>2 DEF Ahead
        <5> QED BY <5>1, <5>2, <2>1
      <4>3. i \in 1..Len(frames') /\ frames'[i] = frames[i] /\ j \in Entries(frames[i])'
        BY <4>2, <2>1, <2>2 DEF Shallower, Entries
      <4> QED BY <4>1, <4>3, <2>1 DEF ToHear
    <3>2. UNCHANGED bound[s] /\ UNCHANGED heard[s] /\ UNCHANGED value[bound[s]]
      BY <2>1
    <3> QED BY <2>1, <3>1, <3>2 DEF Listening, ListenersWait
  <2> QED BY <2>1, <2>3 DEF ListenersWait
<1>9. CASE Handler
  <2> DEFINE w == Top.who
  <2>1. w \in Script
    BY <1>9, HandlerFacts
  <2>2. ASSUME NEW k \in Key, NewAttribute(w, k) PROVE ListenersWait'
    <3>1. /\ k \in Declared /\ Assign(w, Resolve(k), Initial(k))
          /\ UNCHANGED <<dispatchVars, missed>>
      BY <2>2 DEF NewAttribute
    <3>2. Resolve(k) = k /\ (k \in DOMAIN value => value[k] \in {Empty, Initial(k)})
      BY <3>1, InitialFacts
    <3> HIDE DEF w
    <3>3. value'[k] = Initial(k) /\ \A x \in DOMAIN value : x # k => value'[x] = value[x]
      BY ONLY SettingsAreDeclared, <2>2, NewAttributeKeeps
    <3>4. Assign(w, k, value'[k])
      BY <3>1, <3>2, <3>3
    <3> QED BY <1>t, <2>1, <3>1, <3>2, <3>3, <3>4, AssignedListen
  <2>3. ASSUME NEW k \in Key, GetAttribute(w, k) PROVE ListenersWait'
    <3> DEFINE a == Resolve(k)
    <3>1. Assign(w, a, value'[a]) /\ UNCHANGED <<dispatchVars, missed>>
      BY <2>3 DEF GetAttribute
    <3>2. a \in Declared /\ \A x \in DOMAIN value : value'[x] = value[x]
      BY <2>3, GetAttributeKeeps
    <3> HIDE DEF w, a
    <3> QED BY <1>t, <2>1, <3>1, <3>2, AssignedListen
  <2>4. ASSUME NEW a \in DOMAIN value, NEW v \in Value \cup {Empty}, SetData(a, v)
        PROVE  ListenersWait'
    <3>1. /\ UNCHANGED <<table, bound, heard>> /\ DOMAIN value' = DOMAIN value
          /\ \A x \in DOMAIN value : x # a => value'[x] = value[x]
      BY <2>4, SetDataKeeps DEF SetData
    <3> DEFINE f == Walk("onDataChanged", a)
    <3>2. \/ Calls(f) /\ missed' = missed \ {a}
          \/ frames' = frames /\ missed' = missed \cup {a}
      BY <2>4, SetDataFires
    <3>3. f.event = "onDataChanged" /\ f.key = a /\ f.next = 1 /\ f.limit = Len(table)
      BY DEF Walk, Frame
    <3>5. DOMAIN table = 1..Len(table) /\ Len(table) \in Nat /\ TableGrows
      BY <3>1 DEF TablesAreLive, TableGrows
    <3> HIDE DEF f
    <3>4. ASSUME NEW s \in ToSet(table) PROVE Listening(s)'
      <4>1. s \in Script /\ Listening(s) /\ bound[s] \in DOMAIN value \cup {NoKey}
        BY <1>t DEF ListenersWait, BindingsTyped
      <4>2. bound'[s] = bound[s] /\ heard'[s] = heard[s]
        BY <3>1
      <4>3. CASE bound[s] = a /\ Calls(f)
        <5>1. PICK g, i : g = f /\ i = Len(frames) + 1 /\ i \in 1..Len(frames') /\ frames'[i] = g
          BY <4>3 DEF Calls, Deeper
        <5>2. PICK j \in DOMAIN table : table[j] = s
          BY <3>5 DEF ToSet
        <5>3. j \in Entries(g)' /\ table'[j] = s
          BY <3>1, <3>3, <3>5, <5>1, <5>2 DEF Entries
        <5>4. ToHear(s)'
          BY <3>3, <4>2, <4>3, <5>1, <5>3 DEF ToHear
        <5> QED BY <5>4 DEF Listening
      <4>4. CASE bound[s] = a /\ missed' = missed \cup {a}
        BY <4>2, <4>4 DEF Listening
      <4>5. CASE bound[s] # a
        <5>1. bound[s] \in missed => bound[s] \in missed'
          BY <3>2, <4>5
        <5>2. bound[s] = NoKey \/ value'[bound[s]] = value[bound[s]]
          BY <3>1, <4>1, <4>5
        <5>3. ToHear(s) => ToHear(s)'
          BY <3>1, <3>2, <3>5, StillToHear
        <5> QED BY <4>1, <4>2, <5>1, <5>2, <5>3 DEF Listening
      <4> QED BY <3>2, <4>3, <4>4, <4>5
    <3> QED BY <3>1, <3>4 DEF ListenersWait
  <2> QED BY <1>9, <2>2, <2>3, <2>4, HandlerFacts
<1>10. CASE Pump /\ UNCHANGED configVars
  <2>1. table' = table
    BY <1>10 DEF Pump
  <2> QED BY <1>1, <1>10, <2>1, PumpCalls
<1>12. CASE Restart
  BY <1>12 DEF Restart, ListenersWait, ToSet
<1>13. CASE UNCHANGED vars
  BY <1>1, <1>13 DEF vars, dispatchVars, configVars
<1> QED BY <1>2, <1>3, <1>4, <1>5, <1>6, <1>7, <1>8, <1>9, <1>10, <1>12, <1>13 DEF Next

-----------------------------------------------------------------------------
(* The pump.                                                                     *)

(* The pump is busy while its frame is on the stack.                           *)
LEMMA PumpingFacts ==
    ASSUME frames \in Seq(FrameRecord)
    PROVE  Pumping <=> \E i \in 1..Len(frames) : frames[i].event \in TransportEvents
<1> HIDE DEF FrameRecord
<1> QED BY DEF Pumping

(* A step that neither sees a change of the host's status nor calls a script.     *)
LEMMA QuietStep ==
    ASSUME PumpGoesOn, StackTyped, StackTyped', UNCHANGED last,
           \A s \in ToSet(table') :
               told'[s] = "none" \/ (s \in ToSet(table) /\ told'[s] = told[s]),
           frames' = frames \/ \E f : Calls(f) /\ f.event \notin TransportEvents
    PROVE  PumpGoesOn'
<1>1. /\ \A i \in 1..Len(frames) : i \in 1..Len(frames') /\ frames'[i] = frames[i]
      /\ \A i \in 1..Len(frames') :
            frames'[i].event \in TransportEvents => i \in 1..Len(frames)
  BY DEF Calls, Deeper
<1>2. Pumping' <=> Pumping
  <2>1. frames \in Seq(FrameRecord) /\ frames' \in Seq(FrameRecord)
    BY DEF StackTyped
  <2>2. Pumping' <=> \E i \in 1..Len(frames') : frames'[i].event \in TransportEvents
    <3> HIDE DEF FrameRecord
    <3> QED BY <2>1 DEF Pumping
  <2> QED BY <1>1, <2>1, <2>2, PumpingFacts
<1>3. AllTold'
  BY <1>2 DEF PumpGoesOn, AllTold
<1>4. ASSUME NEW i \in 1..Len(frames'), frames'[i].event \in TransportEvents
      PROVE  /\ frames'[i].event \in MeaningOf(last)
             /\ \A s \in ToSet(table') :
                   s \in ToSet(frames'[i].queue) \/ told'[s] \in {"none", frames'[i].event}
  <2>1. i \in 1..Len(frames) /\ frames'[i] = frames[i]
    BY <1>1, <1>4
  <2> QED BY <1>4, <2>1 DEF PumpGoesOn
<1>5. \A i, j \in 1..Len(frames') :
         frames'[i].event \in TransportEvents /\ frames'[j].event \in TransportEvents => i = j
  BY <1>1 DEF PumpGoesOn
<1> QED BY <1>3, <1>4, <1>5 DEF PumpGoesOn, MeaningOf

(* What the pump fires is what the status means.                                 *)
LEMMA EdgeMeans ==
    ASSUME NEW cur, NEW prev
    PROVE  Edge(cur, prev) \in MeaningOf(cur)
BY DEF Edge, MeaningOf

(* Every status means something.                                               *)
LEMMA Means ==
    ASSUME NEW status
    PROVE  \E event : event \in MeaningOf(status)
BY DEF MeaningOf

(* The pump comes to every script.                                             *)
LEMMA PumpStep ==
    ASSUME TablesAreLive, StackTyped, StackTyped', SettingsAreDeclared, BindingsTyped, HostTyped,
           PumpGoesOn, [Next]_vars
    PROVE  PumpGoesOn'
<1>t. ToSet(table) \subseteq Script
  BY DEF TablesAreLive, ToSet
<1>0. "input" \notin TransportEvents /\ "loop" \notin TransportEvents
      /\ "onDataChanged" \notin TransportEvents /\ "onScriptLoaded" \notin TransportEvents
  BY DEF TransportEvents
<1>1. ASSUME UNCHANGED <<table, told, last>>,
             frames' = frames \/ \E f : Calls(f) /\ f.event \notin TransportEvents
      PROVE  PumpGoesOn'
  BY <1>1, QuietStep
<1>2. ASSUME NEW r \in Runtime, Load(r) PROVE PumpGoesOn'
  <2> DEFINE f == Frame("onScriptLoaded", NoKey, ScriptsOf[r])
  <2>1. LoadRuntime(r) /\ UNCHANGED <<told, last>>
    BY <1>2 DEF Load, pumpVars
  <2>2. /\ ToSet(table') = ToSet(table) \cup ToSet(ScriptsOf[r])
        /\ ToSet(table) \cap ToSet(ScriptsOf[r]) = {}
        /\ ScriptsOf[r] \in Seq(Script)
    BY <2>1, LoadFacts
  <2>3. ToSet(ScriptsOf[r]) \subseteq Script
    BY <2>2 DEF ToSet
  <2>4. Calls(f) /\ f.event = "onScriptLoaded"
    BY <1>2, NewCalls DEF Frame
  <2> HIDE DEF f
  <2>5. \A s \in ToSet(table') :
           told'[s] = "none" \/ (s \in ToSet(table) /\ told'[s] = told[s])
    BY <2>1, <2>2, <2>3 DEF BindingsTyped
  <2> QED BY <1>0, <2>1, <2>4, <2>5, QuietStep
<1>3. ASSUME NEW r \in Runtime, Unload(r) PROVE PumpGoesOn'
  <2>1. /\ DestroyAll(r) /\ frames' = frames /\ last' = last /\ told' = Forget(told, r, "none")
    BY <1>3 DEF Unload, DestroyAll
  <2>2. ToSet(table') = ToSet(table) \ ToSet(ScriptsOf[r])
    BY <2>1, UnloadFacts
  <2>3. \A s \in ToSet(table') : s \in ToSet(table) /\ told'[s] = told[s]
    BY <1>t, <2>1, <2>2 DEF Forget
  <2> QED BY <2>1, <2>3, QuietStep
<1>4. ASSUME NEW s \in Script, Input(s), UNCHANGED pumpVars PROVE PumpGoesOn'
  <2>1. table' = table /\ UNCHANGED <<told, last>>
    BY <1>4 DEF Input, pumpVars
  <2>2. Calls(Frame("input", NoKey, <<s>>)) /\ Frame("input", NoKey, <<s>>).event = "input"
    BY <1>4, NewCalls DEF Frame
  <2> QED BY <1>0, <1>1, <2>1, <2>2
<1>5. CASE OpenPopup /\ UNCHANGED pumpVars
  <2>1. table' = table /\ UNCHANGED <<told, last>>
    BY <1>5 DEF OpenPopup, pumpVars
  <2>2. Calls(Frame("loop", NoKey, <<>>)) /\ Frame("loop", NoKey, <<>>).event = "loop"
    BY <1>5, NewCalls DEF Frame
  <2> QED BY <1>0, <1>1, <2>1, <2>2
<1>6. CASE Return /\ UNCHANGED pumpVars
  <2> DEFINE f == [Top EXCEPT !.who = NoScript]
             n == Len(frames)
  <2>1. frames \in Seq(FrameRecord) /\ frames' \in Seq(FrameRecord)
    BY DEF StackTyped
  <2>2. TopBecomes(f) /\ Top \in FrameRecord /\ Top = frames[n]
    BY <1>6, <2>1, ReturnFacts, TopFacts
  <2>3. f.queue = Top.queue /\ f.event = Top.event
    BY <2>2 DEF FrameRecord
  <2>4. UNCHANGED <<table, told, last>>
    BY <1>6 DEF Return, pumpVars
  <2> HIDE DEF f
  <2>5. \A i \in 1..n : /\ frames'[i].queue = frames[i].queue /\ frames'[i].event = frames[i].event
    BY <2>2, <2>3 DEF TopBecomes
  <2>6. Len(frames') = n
    BY <2>2 DEF TopBecomes
  <2>7. Pumping' <=> Pumping
    <3>1. Pumping' <=> \E i \in 1..Len(frames') : frames'[i].event \in TransportEvents
      <4> HIDE DEF FrameRecord
      <4> QED BY <2>1 DEF Pumping
    <3> QED BY <2>1, <2>5, <2>6, <3>1, PumpingFacts
  <2>8. AllTold'
    BY <2>4, <2>7 DEF PumpGoesOn, AllTold
  <2> QED BY <2>4, <2>5, <2>6, <2>8 DEF PumpGoesOn, MeaningOf
<1>7. CASE Fire
  <2> DEFINE n == Len(frames)
             c == current'
  <2>1. /\ ~Resting /\ FireNext(Handles) /\ frames \in Seq(FrameRecord)
        /\ UNCHANGED <<table, last>> /\ Told(Top.event, c) /\ frames' \in Seq(FrameRecord)
        /\ table \in Seq(Script)
    BY <1>7 DEF Fire, FireNext, StackTyped, TablesAreLive
  <2>2. PICK f : ComesTo(c, f) /\ TopBecomes(f)
    BY <2>1, FireFacts
  <2> DEFINE rest == f.queue
  <2>3. f.event = Top.event /\ Top = frames[n]
    BY <2>1, <2>2, TopFacts DEF ComesTo
  <2>5. /\ Len(frames') = n /\ n \in 1..n
        /\ \A i \in 1..n : i # n => frames'[i] = frames[i]
        /\ frames'[n].queue = rest /\ frames'[n].event = Top.event
    BY <2>2, <2>3 DEF TopBecomes
  <2> HIDE DEF rest
  <2>6. \A i \in 1..n : frames'[i].event = frames[i].event
    BY <2>3, <2>5
  <2>7. Pumping' <=> Pumping
    <3>1. Pumping' <=> \E i \in 1..Len(frames') : frames'[i].event \in TransportEvents
      <4> HIDE DEF FrameRecord
      <4> QED BY <2>1 DEF Pumping
    <3> QED BY <2>1, <2>5, <2>6, <3>1, PumpingFacts
  <2>8. c \in Script
    BY <2>2 DEF ComesTo
  <2>9. /\ told' = IF Top.event \in TransportEvents THEN [told EXCEPT ![c] = Top.event] ELSE told
        /\ told \in [Script -> {"none"} \cup TransportEvents]
    BY <2>1 DEF Told, BindingsTyped
  <2>10. AllTold'
    <3>1. ~Pumping => Top.event \notin TransportEvents
      BY <2>1, <2>3, <2>5, PumpingFacts
    <3> QED BY <2>1, <2>7, <2>9, <3>1 DEF PumpGoesOn, AllTold, MeaningOf
  <2>11. ASSUME NEW i \in 1..n, frames'[i].event \in TransportEvents
         PROVE  /\ frames'[i].event \in MeaningOf(last)
                /\ \A s \in ToSet(table) :
                      s \in ToSet(frames'[i].queue) \/ told'[s] \in {"none", frames'[i].event}
    <3>1. /\ frames[i].event \in TransportEvents /\ frames[i].event \in MeaningOf(last)
          /\ \A s \in ToSet(table) :
                s \in ToSet(frames[i].queue) \/ told[s] \in {"none", frames[i].event}
          /\ frames'[i].event = frames[i].event
      BY <2>6, <2>11 DEF PumpGoesOn
    <3>2. CASE i # n
      <4>1. Top.event \notin TransportEvents
        BY <3>1, <3>2, <2>3, <2>5 DEF PumpGoesOn
      <4> QED BY <2>5, <2>9, <3>1, <3>2, <4>1
    <3>3. CASE i = n
      <4>1. ASSUME NEW s \in ToSet(table)
            PROVE  s \in ToSet(rest) \/ told'[s] \in {"none", Top.event}
        <5>0. s \in Script
          BY <1>t
        <5>1. CASE s = c
          BY <5>0, <5>1, <2>3, <2>8, <2>9, <3>1, <3>3
        <5>2. CASE s # c /\ s \in ToSet(Top.queue)
          <6>1. Handles(s)
            BY <1>0, <2>3, <3>1, <3>3 DEF Handles, Contains, ToSet
          <6> QED BY <2>2, <5>2, <6>1 DEF ComesTo, rest
        <5>3. CASE s # c /\ s \notin ToSet(Top.queue)
          BY <5>0, <5>3, <2>3, <2>9, <3>1, <3>3
        <5> QED BY <5>1, <5>2, <5>3
      <4> QED BY <2>3, <2>5, <3>1, <3>3, <4>1
    <3> QED BY <3>2, <3>3
  <2> QED BY <2>1, <2>5, <2>6, <2>10, <2>11 DEF PumpGoesOn, MeaningOf
<1>8. CASE End
  <2> DEFINE n == Len(frames)
  <2>1. /\ ~Resting /\ Pop /\ frames \in Seq(FrameRecord) /\ frames' \in Seq(FrameRecord)
        /\ UNCHANGED <<table, told, last>> /\ \A s \in Ahead(Top) : ~Handles(s)
    BY <1>8 DEF End, EndDispatch, pumpVars, StackTyped
  <2>2. Shallower /\ Top = frames[n] /\ n \in 1..n
    BY <2>1, PopFacts, TopFacts
  <2>3. \A i \in 1..Len(frames') : i \in 1..n /\ i # n /\ frames'[i] = frames[i]
    BY <2>2 DEF Shallower
  <2>4. \A i \in 1..n : i # n => i \in 1..Len(frames')
    BY <2>2 DEF Shallower
  <2>5. Pumping' <=> \E i \in 1..Len(frames') : frames'[i].event \in TransportEvents
    <3> HIDE DEF FrameRecord
    <3> QED BY <2>1 DEF Pumping
  <2>6. CASE Top.event \in TransportEvents
    <3>1. ASSUME NEW s \in ToSet(table), s \in ToSet(Top.queue) PROVE FALSE
      <4>1. Handles(s)
        BY <1>0, <2>6, <3>1 DEF Handles, Contains, ToSet
      <4>2. s \in Ahead(Top)
        BY <3>1 DEF Ahead
      <4> QED BY <2>1, <4>1, <4>2
    <3>2. Top.event \in MeaningOf(last) /\ \A s \in ToSet(table) : told[s] \in {"none", Top.event}
      BY <2>2, <2>6, <3>1 DEF PumpGoesOn
    <3>3. \A i \in 1..Len(frames') : frames'[i].event \notin TransportEvents
      BY <2>2, <2>3, <2>6 DEF PumpGoesOn
    <3>4. AllTold'
      BY <2>1, <3>2 DEF AllTold, MeaningOf
    <3> QED BY <3>3, <3>4 DEF PumpGoesOn
  <2>7. CASE Top.event \notin TransportEvents
    <3>1. Pumping' <=> Pumping
      BY <2>1, <2>2, <2>3, <2>4, <2>5, <2>7, PumpingFacts
    <3>2. AllTold'
      BY <2>1, <3>1 DEF PumpGoesOn, AllTold, MeaningOf
    <3> QED BY <2>1, <2>3, <3>2 DEF PumpGoesOn, MeaningOf
  <2> QED BY <2>6, <2>7
<1>9. CASE Handler
  <2>1. UNCHANGED <<table, told, last>>
    BY <1>9, HandlerFacts DEF pumpVars
  <2>2. ASSUME NEW k \in Key, NewAttribute(Top.who, k) PROVE frames' = frames
    BY <2>2 DEF NewAttribute, dispatchVars
  <2>3. ASSUME NEW k \in Key, GetAttribute(Top.who, k) PROVE frames' = frames
    BY <2>3 DEF GetAttribute, dispatchVars
  <2>4. ASSUME NEW a \in DOMAIN value, NEW v \in Value \cup {Empty}, SetData(a, v)
        PROVE  frames' = frames \/ \E f : Calls(f) /\ f.event \notin TransportEvents
    <3>1. Walk("onDataChanged", a).event = "onDataChanged"
      BY DEF Walk, Frame
    <3> QED BY <1>0, <2>4, <3>1, SetDataFires
  <2> QED BY <1>1, <1>9, <2>1, <2>2, <2>3, <2>4, HandlerFacts
<1>10. CASE Pump
  <2> DEFINE n == Len(frames)
  <2>1. PICK cur \in Status, q \in Seq(Script) :
           last' = cur /\ Calls(Frame(Edge(cur, last), NoKey, q)) /\ ToSet(q) = ToSet(table)
    BY <1>10, PumpCalls
  <2> DEFINE e == Edge(cur, last)
  <2> DEFINE f == Frame(e, NoKey, q)
  <2>2. f.queue = q /\ f.event = e /\ Calls(f)
    BY <2>1 DEF Frame
  <2>3. ~Pumping /\ UNCHANGED <<table, told>>
    BY <1>10 DEF Pump
  <2>4. e \in TransportEvents /\ e \in MeaningOf(cur)
    BY EdgeFacts, EdgeMeans
  <2> HIDE DEF e, f
  <2>5. \A i \in 1..n : frames[i].event \notin TransportEvents
    BY <2>3, PumpingFacts DEF StackTyped
  <2>6. /\ frames' \in Seq(FrameRecord) /\ n + 1 \in 1..Len(frames') /\ frames'[n + 1] = f
        /\ \A i \in 1..Len(frames') : (i \in 1..n /\ frames'[i] = frames[i]) \/ i = n + 1
    BY <2>2 DEF Calls, Deeper
  <2>7. \A i \in 1..Len(frames') : frames'[i].event \in TransportEvents => i = n + 1
    BY <2>5, <2>6
  <2>8. Pumping'
    <3>1. n + 1 \in DOMAIN frames'
      <4> HIDE DEF FrameRecord
      <4> QED BY <2>6
    <3> QED BY <2>2, <2>4, <2>6, <3>1 DEF Pumping
  <2> QED BY <2>1, <2>2, <2>3, <2>4, <2>6, <2>7, <2>8 DEF PumpGoesOn, AllTold, MeaningOf
<1>12. CASE Restart
  <2>1. frames' = <<>> /\ Len(frames') = 0 /\ ToSet(table') = {}
    BY <1>12 DEF Restart, ToSet
  <2>2. \E event : event \in MeaningOf(last')
    BY Means
  <2>3. AllTold'
    BY <2>1, <2>2 DEF AllTold, MeaningOf
  <2> QED BY <2>1, <2>3 DEF PumpGoesOn
<1>13. CASE UNCHANGED vars
  BY <1>1, <1>13 DEF vars, dispatchVars, pumpVars
<1> QED BY <1>2, <1>3, <1>4, <1>5, <1>6, <1>7, <1>8, <1>9, <1>10, <1>12, <1>13 DEF Next

-----------------------------------------------------------------------------
(* The theorems.                                                                 *)

EventsIInv ==
    TablesAreLive /\ StackTyped /\ BindingsTyped /\ SettingsAreDeclared /\ HostTyped /\ ListenersWait

(* The invariant holds at the start,                                           *)
LEMMA EventsInit == Init => EventsIInv /\ PumpGoesOn
<1> SUFFICES ASSUME Init PROVE EventsIInv /\ PumpGoesOn
  OBVIOUS
<1>1. /\ live = {} /\ table = <<>> /\ current = NoScript /\ frames = <<>>
      /\ scoped = <<>> /\ byName = <<>> /\ value = <<>>
      /\ bound = [s \in Script |-> NoKey] /\ heard = [s \in Script |-> Empty]
      /\ prefs = [k \in Key |-> Empty] /\ told = [s \in Script |-> "none"]
      /\ last = Stopped
  BY DEF Init, DispatchInit, ConfigInit, ProcessInit, PumpInit
<1>2. /\ IsFiniteSet({}) /\ <<>> \in Seq(Script) /\ IsInjective(<<>>) /\ ToSet(<<>>) = {}
      /\ <<>> \in Seq(FrameRecord) /\ Len(<<>>) = 0 /\ DOMAIN <<>> = {}
  BY FS_EmptySet DEF IsInjective, ToSet
<1>3. TablesAreLive
  BY <1>1, <1>2 DEF TablesAreLive
<1>4. StackTyped
  BY <1>1, <1>2 DEF StackTyped
<1>5. BindingsTyped
  BY <1>1, <1>2 DEF BindingsTyped
<1>6. SettingsAreDeclared
  BY <1>1, <1>2 DEF SettingsAreDeclared
<1>7. HostTyped
  BY <1>1, PumpAssumption DEF HostTyped
<1>8. ListenersWait
  BY <1>1, <1>2 DEF ListenersWait
<1>9. PumpGoesOn
  BY <1>1, <1>2, Means DEF PumpGoesOn, AllTold
<1> QED BY <1>3, <1>4, <1>5, <1>6, <1>7, <1>8, <1>9 DEF EventsIInv

(* through every step,                                                         *)
LEMMA EventsStep == EventsIInv /\ [Next]_vars => EventsIInv'
BY TablesStep, StackStep, BindingsStep, SettingsStep, HostStep, ListenersStep DEF EventsIInv

(* and so always.                                                              *)
LEMMA EventsInductive == Spec => []EventsIInv
<1>1. Init => EventsIInv
  BY EventsInit
<1> QED BY <1>1, EventsStep, PTL DEF Spec

(* When the last handler has returned, what each listener last read is the value  *)
(* of its attribute: however deep the handlers set it again.                     *)
THEOREM EveryListenerHears == Spec => []ListenersAgree
<1>1. EventsIInv => ListenersAgree
  <2> SUFFICES ASSUME EventsIInv, Resting, NEW s \in ToSet(table)
               PROVE  bound[s] = NoKey \/ bound[s] \in missed
                      \/ heard[s] \in {Empty, value[bound[s]]}
    BY DEF ListenersAgree
  <2>1. Listening(s)
    BY DEF EventsIInv, ListenersWait
  <2>2. ~ToHear(s)
    BY DEF Resting, ToHear
  <2> QED BY <2>1, <2>2 DEF Listening
<1> QED BY <1>1, EventsInductive, PTL

(* Every script has been told the last edge between two runs of the pump, and no  *)
(* dispatch ever comes to a script that was unloaded while it ran: whatever the    *)
(* host answers when it is paused.                                               *)
THEOREM EveryScriptIsTold == Spec => []ScriptsTold
<1> DEFINE Inv == EventsIInv /\ PumpGoesOn
<1>1. Init => Inv
  BY EventsInit
<1>2. Inv /\ [Next]_vars => Inv'
  <2> SUFFICES ASSUME EventsIInv, PumpGoesOn, [Next]_vars PROVE EventsIInv' /\ PumpGoesOn'
    OBVIOUS
  <2>1. EventsIInv' /\ StackTyped'
    BY EventsStep DEF EventsIInv
  <2> QED BY <2>1, PumpStep DEF EventsIInv
<1>3. Inv => ScriptsTold
  <2> SUFFICES ASSUME EventsIInv, PumpGoesOn PROVE EventsTypeOK /\ AllTold
    BY DEF ScriptsTold
  <2>1. DOMAIN frames = 1..Len(frames)
    BY TopFacts DEF EventsIInv, StackTyped
  <2>2. \A i \in DOMAIN frames :
          /\ ToSet(frames[i].queue) \subseteq ToSet(table)
          /\ frames[i].who \in ToSet(table) \cup {NoScript}
          /\ i < Len(frames) => frames[i].who # NoScript \/ frames[i].event = "loop"
    BY <2>1 DEF EventsIInv, StackTyped
  <2>3. DOMAIN scoped \subseteq Key /\ ToSet(scoped) \subseteq DOMAIN value
    BY DEF EventsIInv, SettingsAreDeclared, ToSet
  <2>4. /\ DOMAIN value \subseteq Declared
        /\ \A a \in DOMAIN value : value[a] \in Value => prefs[a] \in {Empty, value[a]}
    BY DEF EventsIInv, SettingsAreDeclared
  <2>5. /\ live \subseteq Runtime /\ table \in Seq(Script) /\ IsInjective(table)
        /\ current \in Script \cup {NoScript} /\ last \in Status
    BY DEF EventsIInv, TablesAreLive, HostTyped
  <2> QED BY <2>2, <2>3, <2>4, <2>5 DEF EventsTypeOK, PumpGoesOn
<1> HIDE DEF Inv
<1> QED BY <1>1, <1>2, <1>3, PTL DEF Spec

(* A setting reads what the store has, else the default of its declaration: what  *)
(* is in memory is the same.                                                     *)
ReadsTheStore ==
    \A k \in Declared : Reads(k) = IF prefs[k] = Empty THEN Default[k] ELSE prefs[k]

(* Memory and store agree.                                                     *)
LEMMA ReadsFacts == SettingsAreDeclared => ReadsTheStore
<1> USE ConfigAssumption
<1> SUFFICES ASSUME SettingsAreDeclared, NEW k \in Declared
             PROVE  Reads(k) = IF prefs[k] = Empty THEN Default[k] ELSE prefs[k]
  BY DEF ReadsTheStore
<1>1. k \in Key /\ Resolve(k) = k
  BY InitialFacts
<1>2. Initial(k) = IF prefs[k] = Empty THEN Default[k] ELSE prefs[k]
  BY <1>1 DEF Initial
<1>3. Reads(k) = LET v == IF k \in DOMAIN value THEN value[k] ELSE Empty
                 IN  IF v # Empty THEN v ELSE Initial(k)
  BY <1>1 DEF Reads
<1>4. k \in DOMAIN value => value[k] \in {Empty, Initial(k)}
  BY InitialFacts
<1> QED BY <1>2, <1>3, <1>4

(* Nothing but a setData changes what a setting reads: through restarts,          *)
(* declarations in any order, lookups and unloaded scripts.                      *)
THEOREM SettingsSurvive == Spec => SettingsKept
<1>1. ASSUME EventsIInv, ReadsTheStore, ReadsTheStore', [Next]_vars, NEW k \in Declared,
             Reads(k)' # Reads(k)
      PROVE  \E v \in Value : SetData(Resolve(k), v)
  <2> USE ConfigAssumption
  <2>1. prefs' # prefs /\ prefs'[k] # prefs[k]
    BY <1>1 DEF ReadsTheStore
  <2>2. TablesAreLive /\ StackTyped /\ SettingsAreDeclared /\ k \in Key /\ Resolve(k) = k
    BY <1>1, InitialFacts DEF EventsIInv
  <2>3. Handler
    <3>1. CASE \E r \in Runtime : Load(r) \/ Unload(r)
      BY <2>1, <3>1 DEF Load, Unload, configVars
    <3>2. CASE UNCHANGED configVars
      BY <2>1, <3>2 DEF configVars
    <3>3. CASE Fire
      BY <2>1, <3>3 DEF Fire
    <3>4. CASE End
      BY <2>1, <3>4 DEF End, configVars
    <3>5. CASE Restart
      BY <2>1, <3>5 DEF Restart
    <3>6. CASE UNCHANGED vars
      BY <2>1, <3>6 DEF vars, configVars
    <3> QED BY <1>1, <3>1, <3>2, <3>3, <3>4, <3>5, <3>6 DEF Next
  <2>4. PICK a \in DOMAIN value, v \in Value \cup {Empty} : SetData(a, v)
    <3>1. ASSUME NEW l \in Key, NewAttribute(Top.who, l) PROVE FALSE
      BY <2>1, <3>1 DEF NewAttribute
    <3>2. ASSUME NEW l \in Key, GetAttribute(Top.who, l) PROVE FALSE
      BY <2>1, <3>2 DEF GetAttribute
    <3> QED BY <2>2, <2>3, <3>1, <3>2, HandlerFacts
  <2>5. (v \notin Value => prefs' = prefs) /\ \A x \in Key : x # a => prefs'[x] = prefs[x]
    BY <2>2, <2>4, SetDataKeeps
  <2> QED BY <2>1, <2>2, <2>4, <2>5
<1>2. EventsIInv => ReadsTheStore
  BY ReadsFacts DEF EventsIInv
<1>3. EventsIInv /\ ReadsTheStore /\ ReadsTheStore' /\ [Next]_vars =>
         [\A k \in Declared :
             Reads(k)' # Reads(k) => \E v \in Value : SetData(Resolve(k), v)
         ]_<<dispatchVars, configVars>>
  BY <1>1
<1> QED BY <1>2, <1>3, EventsInductive, PTL DEF Spec, SettingsKept
=============================================================================
