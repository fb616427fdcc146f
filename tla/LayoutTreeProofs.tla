---------------------------- MODULE LayoutTreeProofs ----------------------------
(* Proofs about how a surface gets its tree, for any skin: the names in flight,   *)
(* the panes of a frame, what the parser makes of the files, and the tree while   *)
(* a layout is expanded.                                                          *)
EXTENDS LayoutTree, CollectionLemmas

-----------------------------------------------------------------------------
(* The names an Expander has in flight.                                          *)

(* The ends of calls on a stack.                                                 *)
Leaves(s) == {i \in 1 .. Len(s) : s[i].op = "leave"}

(* A stack is a sequence, whatever is on it.                                   *)
IsList(s) == s \in Seq({s[i] : i \in DOMAIN s})

(* A stack whose calls have names of their own: those in flight.                  *)
Guards(s, names) ==
    /\ IsList(s) /\ \A i \in 1 .. Len(s) : "op" \in DOMAIN s[i]
    /\ \A i, j \in Leaves(s) : s[i].key = s[j].key => i = j
    /\ names = {s[i].key : i \in Leaves(s)}

(* The stack with an entry pushed.                                             *)
Pushed(e, s) == <<e>> \o s

(* A sequence is one of its own elements.                                      *)
LEMMA Itself ==
    ASSUME NEW S, NEW s \in Seq(S)
    PROVE  IsList(s)
<1> DEFINE T == {s[i] : i \in DOMAIN s}
<1>1. DOMAIN s = 1 .. Len(s) /\ Len(s) \in Nat
  OBVIOUS
<1>2. s = [i \in 1 .. Len(s) |-> s[i]] /\ \A i \in 1 .. Len(s) : s[i] \in T
  BY <1>1
<1> HIDE DEF T
<1>3. s \in [1 .. Len(s) -> T]
  BY <1>2
<1> QED BY <1>1, <1>3, SeqDef DEF T, IsList

(* A push moves the entries down by one.                                       *)
LEMMA PushedFacts ==
    ASSUME NEW s, IsList(s), NEW e
    PROVE  /\ IsList(Pushed(e, s))
           /\ Len(s) \in Nat /\ Len(Pushed(e, s)) = Len(s) + 1
           /\ Pushed(e, s)[1] = e
           /\ \A i \in 2 .. Len(s) + 1 : Pushed(e, s)[i] = s[i - 1]
<1> DEFINE S == {s[i] : i \in DOMAIN s}
           T == S \cup {e}
           u == Pushed(e, s)
<1>1. s \in Seq(T) /\ <<e>> \in Seq(T) /\ Len(s) \in Nat
  <2> HIDE DEF S
  <2>1. s \in Seq(S)
    BY DEF S, IsList
  <2> QED BY <2>1
<1> HIDE DEF T
<1>2. /\ u \in Seq(T) /\ Len(u) = Len(s) + 1 /\ u[1] = e
      /\ \A i \in 2 .. Len(s) + 1 : u[i] = s[i - 1]
  BY <1>1 DEF Pushed
<1> HIDE DEF u
<1>3. IsList(u)
  BY <1>2, Itself
<1> QED BY <1>1, <1>2, <1>3 DEF u

(* What is not the end of a call guards no name.                               *)
LEMMA PushPlain ==
    ASSUME NEW s, NEW names, Guards(s, names), NEW e, "op" \in DOMAIN e, e.op # "leave"
    PROVE  Guards(Pushed(e, s), names)
<1> DEFINE u == Pushed(e, s)
<1>1. /\ IsList(u) /\ Len(s) \in Nat /\ Len(u) = Len(s) + 1 /\ u[1] = e
      /\ \A i \in 2 .. Len(s) + 1 : u[i] = s[i - 1]
  <2> HIDE DEF u
  <2>1. IsList(s)
    BY DEF Guards
  <2> QED BY <2>1, PushedFacts DEF u
<1> HIDE DEF u
<1>2. \A i \in Leaves(u) : i - 1 \in Leaves(s) /\ u[i] = s[i - 1] /\ i \in Nat
  <2> SUFFICES ASSUME NEW i \in Leaves(u) PROVE i - 1 \in Leaves(s) /\ u[i] = s[i - 1] /\ i \in Nat
    OBVIOUS
  <2>1. i \in 1 .. Len(s) + 1 /\ u[i].op = "leave" /\ i # 1
    BY <1>1 DEF Leaves
  <2> QED BY <1>1, <2>1 DEF Leaves
<1>3. \A i \in Leaves(s) : i + 1 \in Leaves(u) /\ u[i + 1] = s[i]
  <2> SUFFICES ASSUME NEW i \in Leaves(s) PROVE i + 1 \in Leaves(u) /\ u[i + 1] = s[i]
    OBVIOUS
  <2>1. i \in 1 .. Len(s) /\ s[i].op = "leave" /\ i + 1 \in 2 .. Len(s) + 1 /\ (i + 1) - 1 = i
    BY <1>1 DEF Leaves
  <2>2. u[i + 1] = s[(i + 1) - 1] /\ i + 1 \in 1 .. Len(u)
    <3> DEFINE k == i + 1
    <3>1. k \in 2 .. Len(s) + 1
      BY <2>1
    <3> HIDE DEF k
    <3>2. u[k] = s[k - 1] /\ k \in 1 .. Len(u)
      BY <1>1, <3>1
    <3> QED BY <3>2 DEF k
  <2> QED BY <2>1, <2>2 DEF Leaves
<1>4. \A i, j \in Leaves(u) : u[i].key = u[j].key => i = j
  BY <1>2 DEF Guards
<1>5. names = {u[i].key : i \in Leaves(u)}
  BY <1>2, <1>3 DEF Guards
<1>7. \A i \in 1 .. Len(u) : "op" \in DOMAIN u[i]
  <2>1. \A i \in 1 .. Len(s) : "op" \in DOMAIN s[i]
    BY DEF Guards
  <2> QED BY <1>1, <2>1
<1> QED BY <1>1, <1>4, <1>5, <1>7 DEF Guards, u

(* A call of a name that is not in flight puts it there.                       *)
LEMMA PushLeave ==
    ASSUME NEW s, NEW names, Guards(s, names), NEW e,
           "op" \in DOMAIN e, e.op = "leave", e.key \notin names
    PROVE  Guards(Pushed(e, s), names \cup {e.key})
<1> DEFINE u == Pushed(e, s)
<1>1. /\ IsList(u) /\ Len(s) \in Nat /\ Len(u) = Len(s) + 1 /\ u[1] = e
      /\ \A i \in 2 .. Len(s) + 1 : u[i] = s[i - 1]
  <2> HIDE DEF u
  <2>1. IsList(s)
    BY DEF Guards
  <2> QED BY <2>1, PushedFacts DEF u
<1> HIDE DEF u
<1>2. \A i \in Leaves(u) : i = 1 \/ (i - 1 \in Leaves(s) /\ u[i] = s[i - 1] /\ i \in Nat)
  BY <1>1 DEF Leaves
<1>3. 1 \in Leaves(u) /\ \A i \in Leaves(s) : i + 1 \in Leaves(u) /\ u[i + 1] = s[i]
  BY <1>1 DEF Leaves
<1>6. \A i \in Leaves(s) : s[i].key # e.key
  BY DEF Guards
<1>4. ASSUME NEW i \in Leaves(u), NEW j \in Leaves(u), u[i].key = u[j].key PROVE i = j
  <2>1. CASE i = 1 \/ j = 1
    BY <1>1, <1>2, <1>4, <1>6, <2>1
  <2>2. CASE i # 1 /\ j # 1
    <3>1. i - 1 = j - 1 /\ i \in Nat /\ j \in Nat
      BY <1>2, <1>4, <2>2 DEF Guards
    <3> QED BY <3>1
  <2> QED BY <2>1, <2>2
<1>5. names \cup {e.key} = {u[i].key : i \in Leaves(u)}
  <2>1. \A i \in Leaves(u) : u[i].key \in names \cup {e.key}
    BY <1>1, <1>2 DEF Guards
  <2>2. e.key \in {u[i].key : i \in Leaves(u)}
    BY <1>1, <1>3
  <2>3. \A i \in Leaves(s) : s[i].key \in {u[k].key : k \in Leaves(u)}
    BY <1>3
  <2> QED BY <2>1, <2>2, <2>3 DEF Guards
<1>7. \A i \in 1 .. Len(u) : "op" \in DOMAIN u[i]
  <2>1. \A i \in 1 .. Len(s) : "op" \in DOMAIN s[i]
    BY DEF Guards
  <2>2. ASSUME NEW i \in 1 .. Len(u), i # 1 PROVE "op" \in DOMAIN u[i]
    <3>1. i \in 2 .. Len(s) + 1 /\ i - 1 \in 1 .. Len(s)
      BY <1>1, <2>2
    <3> QED BY <1>1, <2>1, <3>1
  <2> QED BY <1>1, <2>2
<1> QED BY <1>1, <1>4, <1>5, <1>7 DEF Guards, u

(* An entry that is popped takes its name out of flight, and no other.         *)
LEMMA Popped ==
    ASSUME NEW s, NEW names, Guards(s, names), s # <<>>
    PROVE  Guards(Tail(s), IF s[1].op = "leave" THEN names \ {s[1].key} ELSE names)
<1> DEFINE u == Tail(s)
           S == {s[i] : i \in DOMAIN s}
<1>1. s \in Seq(S)
  BY DEF Guards, IsList
<1> HIDE DEF S
<1>2. /\ u \in Seq(S) /\ Len(s) \in Nat /\ Len(u) = Len(s) - 1
      /\ \A i \in 1 .. Len(s) - 1 : u[i] = s[i + 1]
  BY <1>1
<1> HIDE DEF u
<1>3. IsList(u)
  BY <1>2, Itself
<1>4. \A i \in Leaves(u) : i + 1 \in Leaves(s) /\ u[i] = s[i + 1] /\ i \in Nat
  BY <1>2 DEF Leaves
<1>5. \A i \in Leaves(s) : i = 1 \/ (i - 1 \in Leaves(u) /\ u[i - 1] = s[i])
  BY <1>2 DEF Leaves
<1>6. \A i, j \in Leaves(u) : u[i].key = u[j].key => i = j
  BY <1>4 DEF Guards
<1>7. \A i \in Leaves(u) : i + 1 # 1
  BY <1>2 DEF Leaves
<1>8. Len(s) >= 1
  BY <1>1, EmptySeq
<1>9. (s[1].op = "leave") <=> 1 \in Leaves(s)
  BY <1>1, <1>8 DEF Leaves
<1>10. ASSUME s[1].op = "leave" PROVE names \ {s[1].key} = {u[i].key : i \in Leaves(u)}
  BY <1>4, <1>5, <1>7, <1>9, <1>10 DEF Guards
<1>11. ASSUME s[1].op # "leave" PROVE names = {u[i].key : i \in Leaves(u)}
  BY <1>4, <1>5, <1>9, <1>11 DEF Guards
<1>12. \A i \in 1 .. Len(u) : "op" \in DOMAIN u[i]
  <2>1. \A i \in 1 .. Len(s) : "op" \in DOMAIN s[i]
    BY DEF Guards
  <2> QED BY <1>2, <2>1
<1> QED BY <1>3, <1>6, <1>10, <1>11, <1>12 DEF Guards, u

(* Pushing a sequence of entries is pushing them one by one, the last one      *)
(* first.                                                                      *)
LEMMA Pushed2 ==
    ASSUME NEW s, IsList(s), NEW a, NEW b
    PROVE  <<a, b>> \o s = Pushed(a, Pushed(b, s))
<1> DEFINE T == {s[i] : i \in DOMAIN s} \cup {a, b}
<1>1. s \in Seq(T)
  <2> DEFINE S == {s[i] : i \in DOMAIN s}
  <2>1. s \in Seq(S)
    BY DEF IsList
  <2> HIDE DEF S
  <2> QED BY <2>1 DEF S
<1>2. a \in T /\ <<a>> \in Seq(T) /\ <<b>> \in Seq(T)
  OBVIOUS
<1> HIDE DEF T
<1>3. (<<a>> \o <<b>>) \o s = <<a>> \o (<<b>> \o s)
  BY <1>1, <1>2, ConcatAssociative
<1>4. <<a>> \o <<b>> = <<a, b>>
  <2> DEFINE u == <<a>> \o <<b>>
             v == <<a, b>>
  <2>1. /\ u \in Seq(T) /\ Len(u) = 2
        /\ \A i \in 1 .. 2 : u[i] = IF i <= 1 THEN <<a>>[i] ELSE <<b>>[i - 1]
    BY <1>2, ConcatProperties
  <2>2. v \in Seq(T) /\ Len(v) = 2
    BY <1>2
  <2>3. u[1] = a /\ v[1] = a /\ u[2] = b /\ v[2] = b
    BY <2>1
  <2> HIDE DEF u, v
  <2>4. \A i \in 1 .. 2 : u[i] = v[i]
    BY <2>3
  <2>5. u = v
    BY <2>1, <2>2, <2>4, SeqEqual
  <2> QED BY <2>5 DEF u, v
<1> QED BY <1>3, <1>4 DEF Pushed

(* So for three entries.                                                       *)
LEMMA Pushed3 ==
    ASSUME NEW s, IsList(s), NEW a, NEW b, NEW c
    PROVE  <<a, b, c>> \o s = Pushed(a, Pushed(b, Pushed(c, s)))
<1> DEFINE T == {s[i] : i \in DOMAIN s} \cup {a, b, c}
<1>1. s \in Seq(T)
  <2> DEFINE S == {s[i] : i \in DOMAIN s}
  <2>1. s \in Seq(S)
    BY DEF IsList
  <2> HIDE DEF S
  <2> QED BY <2>1 DEF S
<1>2. a \in T /\ <<a>> \in Seq(T) /\ <<b, c>> \in Seq(T)
  OBVIOUS
<1> HIDE DEF T
<1>3. (<<a>> \o <<b, c>>) \o s = <<a>> \o (<<b, c>> \o s)
  BY <1>1, <1>2, ConcatAssociative
<1>4. <<a>> \o <<b, c>> = <<a, b, c>>
  <2> DEFINE u == <<a>> \o <<b, c>>
             v == <<a, b, c>>
  <2>1. /\ u \in Seq(T) /\ Len(u) = 3
        /\ \A i \in 1 .. 3 : u[i] = IF i <= 1 THEN <<a>>[i] ELSE <<b, c>>[i - 1]
    BY <1>2, ConcatProperties
  <2>2. v \in Seq(T) /\ Len(v) = 3
    BY <1>2
  <2>3. u[1] = a /\ v[1] = a /\ u[2] = b /\ v[2] = b /\ u[3] = c /\ v[3] = c
    BY <2>1
  <2> HIDE DEF u, v
  <2>4. \A i \in 1 .. 3 : u[i] = v[i]
    BY <2>3
  <2>5. u = v
    BY <2>1, <2>2, <2>4, SeqEqual
  <2> QED BY <2>5 DEF u, v
<1> QED BY <1>3, <1>4, Pushed2 DEF Pushed

(* So for four entries.                                                        *)
LEMMA Pushed4 ==
    ASSUME NEW s, IsList(s), NEW a, NEW b, NEW c, NEW d
    PROVE  <<a, b, c, d>> \o s = Pushed(a, Pushed(b, Pushed(c, Pushed(d, s))))
<1> DEFINE T == {s[i] : i \in DOMAIN s} \cup {a, b, c, d}
<1>1. s \in Seq(T)
  <2> DEFINE S == {s[i] : i \in DOMAIN s}
  <2>1. s \in Seq(S)
    BY DEF IsList
  <2> HIDE DEF S
  <2> QED BY <2>1 DEF S
<1>2. a \in T /\ <<a>> \in Seq(T) /\ <<b, c, d>> \in Seq(T)
  OBVIOUS
<1> HIDE DEF T
<1>3. (<<a>> \o <<b, c, d>>) \o s = <<a>> \o (<<b, c, d>> \o s)
  BY <1>1, <1>2, ConcatAssociative
<1>4. <<a>> \o <<b, c, d>> = <<a, b, c, d>>
  <2> DEFINE u == <<a>> \o <<b, c, d>>
             v == <<a, b, c, d>>
  <2>1. /\ u \in Seq(T) /\ Len(u) = 4
        /\ \A i \in 1 .. 4 : u[i] = IF i <= 1 THEN <<a>>[i] ELSE <<b, c, d>>[i - 1]
    BY <1>2, ConcatProperties
  <2>2. v \in Seq(T) /\ Len(v) = 4
    BY <1>2
  <2>3. u[1] = a /\ v[1] = a /\ u[2] = b /\ v[2] = b /\ u[3] = c /\ v[3] = c /\ u[4] = d /\ v[4] = d
    BY <2>1
  <2> HIDE DEF u, v
  <2>4. \A i \in 1 .. 4 : u[i] = v[i]
    BY <2>3
  <2>5. u = v
    BY <2>1, <2>2, <2>4, SeqEqual
  <2> QED BY <2>5 DEF u, v
<1>5. <<b, c, d>> \o s = Pushed(b, Pushed(c, Pushed(d, s)))
  BY Pushed3
<1> DEFINE r == Pushed(b, Pushed(c, Pushed(d, s)))
<1>6. Pushed(a, r) = <<a>> \o r
  BY DEF Pushed
<1> QED BY <1>3, <1>4, <1>5, <1>6

(* With no entries nothing is in flight.                                       *)
LEMMA EmptyStack == Guards(<<>>, {})
<1>1. Leaves(<<>>) = {}
  BY DEF Leaves
<1>2. IsList(<<>>)
  BY DEF IsList
<1> QED BY <1>1, <1>2 DEF Guards

(* The invariant: the set of names that all calls share says just what the     *)
(* stack says.                                                                 *)
CallsInv == Guards(todo, inflight)

(* Every entry says what it is.                                                  *)
LEMMA TopFacts ==
    ASSUME CallsInv, todo # <<>>
    PROVE  "op" \in DOMAIN todo[1]
<1> DEFINE S == {todo[i] : i \in DOMAIN todo}
<1>1. todo \in Seq(S) /\ \A i \in 1 .. Len(todo) : "op" \in DOMAIN todo[i]
  BY DEF CallsInv, Guards, IsList
<1> HIDE DEF S
<1>2. 1 \in 1 .. Len(todo)
  BY <1>1, EmptySeq
<1> QED BY <1>1, <1>2

(* The rest of the loop, without what was visited, is the loop still.             *)
LEMMA RestFacts ==
    ASSUME CallsInv, Visiting
    PROVE  /\ Rest = Pushed([Top EXCEPT !.els = Tail(@)], Tail(todo))
           /\ Guards(Rest, inflight)
<1> DEFINE e == [Top EXCEPT !.els = Tail(@)]
<1>1. Rest = Pushed(e, Tail(todo))
  BY DEF Rest, Pushed
<1>2. todo # <<>> /\ Top.op = "visit" /\ Top = todo[1] /\ "op" \in DOMAIN Top
  <2>1. todo # <<>> /\ Top.op = "visit" /\ Top = todo[1]
    BY DEF Visiting, Running, Top
  <2> QED BY <2>1, TopFacts
<1>3. e.op = Top.op /\ "op" \in DOMAIN e
  BY <1>2
<1>4. Guards(Tail(todo), inflight)
  BY <1>2, Popped DEF CallsInv
<1> HIDE DEF e
<1>5. Guards(Pushed(e, Tail(todo)), inflight)
  BY <1>2, <1>3, <1>4, PushPlain
<1> QED BY <1>1, <1>5 DEF e

(* Each step of the Expander keeps it: it puts a name in flight with the       *)
(* call, and takes it back with the return.                                    *)
LEMMA ExpanderKeeps == CallsInv /\ ExpanderStep => CallsInv'
<1> SUFFICES ASSUME CallsInv, ExpanderStep PROVE CallsInv'
  OBVIOUS
<1>0. ASSUME NEW op, Running(op), op # "leave"
      PROVE  Guards(Tail(todo), inflight) /\ Top.op = op /\ "op" \in DOMAIN Top
  <2>1. todo # <<>> /\ Top = todo[1] /\ Top.op = op
    BY <1>0 DEF Running, Top
  <2> QED BY <1>0, <2>1, Popped, TopFacts DEF CallsInv
<1>1. CASE EndLoop
  BY <1>0, <1>1 DEF EndLoop, CallsInv
<1>2. CASE VisitInstance
  <2> DEFINE gid == doc.def[DefOf(doc, Element)].id
  <2>1. CASE todo' = Rest /\ UNCHANGED inflight
    BY <1>2, <2>1, RestFacts DEF VisitInstance, CallsInv
  <2>2. CASE ~InFlight(gid)
    <3> DEFINE scope == IF Element.iid = None THEN Top.scope ELSE Element.iid
               entry(op) == [op |-> op, def |-> DefOf(doc, Element), into |-> NewNode,
                             scope |-> scope, via |-> {}]
               call == [op |-> "leave", key |-> gid]
    <3>1. /\ inflight' = inflight \cup {gid}
          /\ todo' = <<entry("inherit"), entry("body"), entry("content"), call>> \o Rest
      BY <1>2, <2>2 DEF VisitInstance
    <3>2. /\ "op" \in DOMAIN entry("inherit") /\ "op" \in DOMAIN entry("body")
          /\ "op" \in DOMAIN entry("content") /\ "op" \in DOMAIN call
          /\ entry("inherit").op = "inherit" /\ entry("body").op = "body"
          /\ entry("content").op = "content" /\ call.op = "leave" /\ call.key = gid
      OBVIOUS
    <3> HIDE DEF entry, call, gid
    <3>3. Guards(Rest, inflight) /\ gid \notin inflight
      BY <1>2, <2>2, RestFacts DEF VisitInstance, InFlight
    <3>4. Guards(Pushed(call, Rest), inflight')
      BY <3>1, <3>2, <3>3, PushLeave
    <3>5. Guards(Pushed(entry("content"), Pushed(call, Rest)), inflight')
      BY <3>2, <3>4, PushPlain
    <3>6. Guards(Pushed(entry("body"), Pushed(entry("content"), Pushed(call, Rest))), inflight')
      BY <3>2, <3>5, PushPlain
    <3>7. Guards(Pushed(entry("inherit"), Pushed(entry("body"), Pushed(entry("content"),
                     Pushed(call, Rest)))), inflight')
      BY <3>2, <3>6, PushPlain
    <3>8. IsList(Rest)
      BY <3>3 DEF Guards
    <3>9. todo' = Pushed(entry("inherit"), Pushed(entry("body"), Pushed(entry("content"),
                      Pushed(call, Rest))))
      BY <3>1, <3>8, Pushed4
    <3> QED BY <3>7, <3>9 DEF CallsInv
  <2> QED BY <1>2, <2>1, <2>2 DEF VisitInstance
<1>3. CASE ApplyInherit
  <2> DEFINE inh == doc.def[Top.def].inherit
             entry(op) == [Top EXCEPT !.op = op, !.def = Lookup(doc, inh), !.via = @ \cup {inh}]
             call == [op |-> "leave", key |-> inh]
  <2>1. Guards(Tail(todo), inflight) /\ Top.op = "inherit" /\ "op" \in DOMAIN Top
    BY <1>0, <1>3 DEF ApplyInherit
  <2>2. CASE todo' = Tail(todo) /\ UNCHANGED inflight
    BY <2>1, <2>2 DEF CallsInv
  <2>3. CASE /\ inh \notin inflight /\ inflight' = inflight \cup {inh}
             /\ todo' = <<entry("inherit"), entry("body"), call>> \o Tail(todo)
    <3>1. entry("inherit").op # "leave" /\ entry("body").op # "leave"
          /\ call.op = "leave" /\ call.key = inh /\ "op" \in DOMAIN call
          /\ "op" \in DOMAIN entry("inherit") /\ "op" \in DOMAIN entry("body")
      <4> DEFINE via == Top.via \cup {inh}
                 up == Lookup(doc, inh)
      <4> HIDE DEF via, up, inh
      <4>1. ASSUME NEW op
            PROVE  LET e == [Top EXCEPT !.op = op, !.def = up, !.via = via]
                   IN  e.op = op /\ "op" \in DOMAIN e
        <5> DEFINE f == [Top EXCEPT !.op = op]
                   g == [f EXCEPT !.def = up]
                   h == [g EXCEPT !.via = via]
        <5>1. DOMAIN f = DOMAIN Top /\ ("op" \in DOMAIN Top => f["op"] = op)
          OBVIOUS
        <5>2. DOMAIN g = DOMAIN f /\ ("op" \in DOMAIN f => g["op"] = f["op"])
          OBVIOUS
        <5>3. DOMAIN h = DOMAIN g /\ ("op" \in DOMAIN g => h["op"] = g["op"])
          OBVIOUS
        <5> QED BY <2>1, <5>1, <5>2, <5>3
      <4> QED BY <2>1, <4>1 DEF via, up
    <3> HIDE DEF entry, call, inh
    <3>4. Guards(Pushed(call, Tail(todo)), inflight')
      BY <2>1, <2>3, <3>1, PushLeave
    <3>5. Guards(Pushed(entry("body"), Pushed(call, Tail(todo))), inflight')
      BY <3>1, <3>4, PushPlain
    <3>6. Guards(Pushed(entry("inherit"), Pushed(entry("body"), Pushed(call, Tail(todo)))), inflight')
      BY <3>1, <3>5, PushPlain
    <3>8. IsList(Tail(todo))
      BY <2>1 DEF Guards
    <3>9. todo' = Pushed(entry("inherit"), Pushed(entry("body"), Pushed(call, Tail(todo))))
      <4>1. todo' = <<entry("inherit"), entry("body"), call>> \o Tail(todo)
        BY <2>3
      <4> DEFINE rest == Tail(todo)
                 a == entry("inherit")
                 b == entry("body")
      <4>2. IsList(rest) /\ todo' = <<a, b, call>> \o rest
        BY <3>8, <4>1
      <4> HIDE DEF rest, a, b
      <4>3. todo' = Pushed(a, Pushed(b, Pushed(call, rest)))
        BY <4>2, Pushed3
      <4> QED BY <4>3 DEF rest, a, b
    <3> QED BY <3>6, <3>9 DEF CallsInv
  <2> QED BY <1>3, <2>2, <2>3 DEF ApplyInherit, InFlight
<1>4. CASE EnterBody
  <2> DEFINE e == Visit(doc.def[Top.def].kids, Top.into, Top.scope, Top.via)
  <2>1. e.op = "visit" /\ "op" \in DOMAIN e
    BY DEF Visit
  <2>2. todo' = Pushed(e, Tail(todo)) /\ UNCHANGED inflight /\ Running("body")
    BY <1>4 DEF EnterBody, Pushed
  <2> HIDE DEF e
  <2> QED BY <1>0, <2>1, <2>2, PushPlain DEF CallsInv
<1>5. CASE InjectContent
  <2> DEFINE name == tree[Top.into].el.content
             e == Visit(doc.def[Lookup(doc, name)].kids, Top.into, Top.scope, {name})
             call == [op |-> "leave", key |-> name]
  <2>1. Guards(Tail(todo), inflight)
    BY <1>0, <1>5 DEF InjectContent
  <2>2. CASE todo' = Tail(todo) /\ UNCHANGED inflight
    BY <2>1, <2>2 DEF CallsInv
  <2>3. CASE /\ name \notin inflight /\ inflight' = inflight \cup {name}
             /\ todo' = <<e, call>> \o Tail(todo)
    <3>1. /\ e.op # "leave" /\ call.op = "leave" /\ call.key = name
          /\ "op" \in DOMAIN e /\ "op" \in DOMAIN call
      BY DEF Visit
    <3> HIDE DEF e, call, name
    <3>4. Guards(Pushed(call, Tail(todo)), inflight')
      BY <2>1, <2>3, <3>1, PushLeave
    <3>5. Guards(Pushed(e, Pushed(call, Tail(todo))), inflight')
      BY <3>1, <3>4, PushPlain
    <3>8. IsList(Tail(todo))
      BY <2>1 DEF Guards
    <3> QED BY <2>3, <3>5, <3>8, Pushed2 DEF CallsInv
  <2> QED BY <1>5, <2>2, <2>3 DEF InjectContent, InFlight
<1>6. CASE LeaveGroup
  <2>1. todo # <<>> /\ todo[1].op = "leave"
    BY <1>6 DEF LeaveGroup, Running, Top
  <2> QED BY <1>6, <2>1, Popped DEF LeaveGroup, CallsInv, Top
<1>7. CASE VisitPlain
  <2> DEFINE e == Visit(Held(Element), NewNode, Top.scope, {})
  <2>1. e.op = "visit" /\ "op" \in DOMAIN e
    BY DEF Visit
  <2>2. todo' = Pushed(e, Rest) /\ UNCHANGED inflight /\ Visiting
    BY <1>7 DEF VisitPlain, Pushed
  <2> HIDE DEF e
  <2> QED BY <2>1, <2>2, RestFacts, PushPlain DEF CallsInv
<1> QED BY <1>1, <1>2, <1>3, <1>4, <1>5, <1>6, <1>7 DEF ExpanderStep

(* It holds at first.                                                          *)
LEMMA CallsInit == Init => CallsInv
BY EmptyStack DEF Init, ExpansionInit, CallsInv

(* Every step of a layout keeps it: an Expander is made with nothing in        *)
(* flight.                                                                     *)
LEMMA CallsStep == CallsInv /\ [Next]_vars => CallsInv'
<1> SUFFICES ASSUME CallsInv, [Next]_vars PROVE CallsInv'
  OBVIOUS
<1>1. CASE UNCHANGED <<todo, inflight>>
  BY <1>1 DEF CallsInv
<1>2. CASE ExpanderStep
  BY <1>2, ExpanderKeeps
<1>3. ASSUME NEW els, NEW into, NEW scope, NEW via,
             todo' = <<Visit(els, into, scope, via)>>, inflight' = {}
      PROVE  CallsInv'
  <2>1. Guards(Pushed(Visit(els, into, scope, via), <<>>), {})
    BY EmptyStack, PushPlain DEF Visit
  <2>2. Pushed(Visit(els, into, scope, via), <<>>) = <<Visit(els, into, scope, via)>>
    BY DEF Pushed
  <2> QED BY <1>3, <2>1, <2>2 DEF CallsInv
<1>4. CASE ExpandLayout
  BY <1>3, <1>4 DEF ExpandLayout
<1>5. CASE ResolvePage
  BY <1>3, <1>5, EmptyStack DEF ResolvePage, CallsInv
<1>6. CASE Parse
  BY <1>1, <1>6 DEF Parse, expansionVars
<1>7. CASE Script
  BY <1>1, <1>7 DEF Script, LoadScripts, Paging, SetGroupId, expansionVars
<1> QED BY <1>1, <1>2, <1>4, <1>5, <1>6, <1>7 DEF Next, MakeFrame, Expand, Paint, ExpanderStep, vars,
              expansionVars

(* It holds in every reachable state.                                          *)
LEMMA CallsAlways == Spec => []CallsInv
BY CallsInit, CallsStep, PTL DEF Spec

(* Whatever groupdefs a skin has and however they name each other, no two      *)
(* calls on the stack of the Expander inline one name, and a name is in        *)
(* flight while its call is on the stack and no longer (OneCallPerName): the   *)
(* recursion of visit() goes no deeper than there are names.                   *)
THEOREM EachNameOnce == Spec => []OneCallPerName
<1>1. CallsInv => OneCallPerName
  <2> SUFFICES ASSUME CallsInv PROVE OneCallPerName
    OBVIOUS
  <2> DEFINE calls == {i \in DOMAIN todo : todo[i].op = "leave"}
             key == [i \in calls |-> todo[i].key]
             S == {todo[i] : i \in DOMAIN todo}
  <2>1. todo \in Seq(S)
    BY DEF CallsInv, Guards, IsList
  <2> HIDE DEF S
  <2>2. DOMAIN todo = 1 .. Len(todo) /\ Len(todo) \in Nat
    BY <2>1
  <2>3. calls = Leaves(todo)
    BY <2>2 DEF Leaves
  <2>4. /\ inflight = {todo[i].key : i \in calls}
        /\ \A i, j \in calls : todo[i].key = todo[j].key => i = j
    BY <2>3 DEF CallsInv, Guards
  <2>5. IsFiniteSet(calls)
    <3>1. IsFiniteSet(1 .. Len(todo)) /\ calls \subseteq 1 .. Len(todo)
      BY <2>2, FS_Interval
    <3> HIDE DEF calls
    <3> QED BY <3>1, FS_Subset
  <2> HIDE DEF calls
  <2>6. key \in Bijection(calls, inflight)
    BY <2>4 DEF Bijection, Injection, Surjection, IsInjective
  <2> HIDE DEF key
  <2>7. Cardinality(calls) = Cardinality(inflight)
    BY <2>5, <2>6, FS_Bijection DEF ExistsBijection
  <2> QED BY <2>4, <2>7 DEF OneCallPerName, calls
<1> QED BY <1>1, CallsAlways, PTL

-----------------------------------------------------------------------------
(* The panes of a frame.                                                         *)

(* The panes are split as the frame says, and perhaps widened by their groupdefs.*)
AsSplit == \E relative : pane = Planted(frame, relative)

FramesTypeOK ==
    /\ frame \in Frame
    /\ pane \in [Pane -> Attrs]
    /\ AsSplit
    /\ extent \in Nat \ {0}
    /\ rect = Resolved(extent, pane)
    /\ dirty \in BOOLEAN

LEMMA PlantedType ==
    ASSUME NEW f \in Frame, NEW relative PROVE Planted(f, relative) \in [Pane -> Attrs]
<1> SUFFICES ASSUME NEW p \in Pane
             PROVE [Split(f, p) EXCEPT !.relatSize = @ \/ p \in relative] \in Attrs
  BY DEF Planted
<1>1. Split(f, p) \in Attrs
  BY DEF Split, Attrs, Frame
<1> QED BY <1>1 DEF Attrs

(* Init and every step keep the types: the rectangles are those of the panes.    *)
LEMMA FramesTypeStep == FramesTypeOK /\ [FrameNext]_frameVars => FramesTypeOK'
<1> SUFFICES ASSUME FramesTypeOK, [FrameNext]_frameVars PROVE FramesTypeOK'
  OBVIOUS
<1> USE FrameAssumption DEF FramesTypeOK
<1>1. ASSUME NEW n \in Position, SetPosition(n) PROVE FramesTypeOK'
  <2>1. frame' \in Frame
    BY <1>1 DEF SetPosition, Frame
  <2>2. pane' \in [Pane -> Attrs]
    BY <1>1, <2>1 DEF SetPosition, Split, Attrs, Frame
  <2>3. pane' = Planted(frame', {})
    <3>1. \A p \in Pane : Split(frame', p) \in Attrs
      BY <2>1 DEF Split, Attrs, Frame
    <3>2. \A p \in Pane : [Split(frame', p) EXCEPT !.relatSize = @ \/ p \in {}] = Split(frame', p)
      BY <3>1 DEF Attrs
    <3> QED BY <1>1, <3>2 DEF SetPosition, Planted
  <2>4. AsSplit'
    BY <2>3 DEF AsSplit
  <2> QED BY <1>1, <2>1, <2>2, <2>4 DEF SetPosition
<1>2. ASSUME NEW e \in Extent, Resize(e) PROVE FramesTypeOK'
  BY <1>2 DEF Resize, AsSplit
<1>3. CASE Settle
  BY <1>3 DEF Settle, Resolved, AsSplit
<1>4. CASE UNCHANGED frameVars
  BY <1>4 DEF frameVars, Resolved, AsSplit
<1> QED BY <1>1, <1>2, <1>3, <1>4 DEF FrameNext

LEMMA FramesTypeInit == FrameInit => FramesTypeOK
<1> SUFFICES ASSUME FrameInit PROVE FramesTypeOK
  OBVIOUS
<1> QED BY FrameAssumption, PlantedType DEF FrameInit, FramesTypeOK, AsSplit

LEMMA FramesTyped == FrameSpec => []FramesTypeOK
<1> QED BY FramesTypeInit, FramesTypeStep, PTL DEF FrameSpec

(* What each pane resolves to, the fixed one widened or not.                     *)
LEMMA PanesResolve ==
    ASSUME NEW f \in Frame, NEW e \in Nat \ {0}, NEW wide \in BOOLEAN
    PROVE  LET fixed  == Resolve([Split(f, "fixed") EXCEPT !.relatSize = wide], e)
               rem    == Resolve(Split(f, "rem"), e)
               own    == IF wide THEN e + f.divpos ELSE f.divpos
               capped == f.min > 0 /\ own > e - f.min
           IN  /\ fixed.size = IF capped THEN (IF e - f.min < 0 THEN 0 ELSE e - f.min) ELSE own
               /\ fixed.pos = IF ~f.far THEN 0 ELSE IF capped THEN f.min ELSE e - f.divpos
               /\ rem.size = IF e - f.divpos < f.min THEN f.min ELSE e - f.divpos
               /\ rem.pos = IF f.far THEN 0 ELSE f.divpos
<1> DEFINE a      == [Split(f, "fixed") EXCEPT !.relatSize = wide]
           fixed  == Resolve(a, e)
           rem    == Resolve(Split(f, "rem"), e)
           own    == IF wide THEN e + f.divpos ELSE f.divpos
           capped == f.min > 0 /\ own > e - f.min
<1>1. f.min \in Nat /\ f.divpos \in Nat /\ f.far \in BOOLEAN
  BY DEF Frame
<1>2. rem.size = IF e - f.divpos < f.min THEN f.min ELSE e - f.divpos
  BY <1>1 DEF Resolve, Split
<1>3. rem.pos = IF f.far THEN 0 ELSE f.divpos
  BY <1>1 DEF Resolve, Split
<1>4. a = [pos |-> IF f.far THEN -f.divpos ELSE 0, size |-> f.divpos,
           relatPos |-> f.far, relatSize |-> wide,
           min |-> 0, cap |-> f.min, capFar |-> f.far /\ f.min > 0]
  BY DEF Split
<1>5. PICK b : b = a
  OBVIOUS
<1>6. /\ b.size = f.divpos /\ b.relatSize = wide /\ b.min = 0 /\ b.cap = f.min
      /\ b.pos = (IF f.far THEN -f.divpos ELSE 0) /\ b.relatPos = f.far
      /\ b.capFar = (f.far /\ f.min > 0)
  BY <1>4, <1>5
<1> HIDE DEF a
<1>7. fixed.size = IF capped THEN (IF e - f.min < 0 THEN 0 ELSE e - f.min) ELSE own
  BY <1>1, <1>5, <1>6 DEF Resolve
<1>8. fixed.pos = IF ~f.far THEN 0 ELSE IF capped THEN f.min ELSE e - f.divpos
  <2>1. CASE capped
    <3>1. ASSUME f.far PROVE fixed.pos = e - (e - f.min)
      <4>1. b.cap > 0 /\ b.capFar
        BY <1>1, <1>6, <2>1, <3>1
      <4>2. PICK o : o = own
        OBVIOUS
      <4>3. (IF b.relatSize \/ b.size < 0 THEN e + b.size ELSE b.size) = o /\ o \in Nat
        BY <1>1, <1>6, <4>2
      <4>4. ~(o < b.min) /\ o > e - b.cap /\ b.cap = f.min
        BY <1>6, <2>1, <4>2, <4>3
      <4>5. Resolve(b, e).pos = e - (e - b.cap)
        BY <4>1, <4>3, <4>4 DEF Resolve
      <4> QED BY <1>5, <4>4, <4>5
    <3>2. ~f.far => fixed.pos = 0
      BY <1>1, <1>5, <1>6, <2>1 DEF Resolve
    <3> HIDE DEF fixed
    <3> QED BY <1>1, <2>1, <3>1, <3>2
  <2>2. CASE ~capped
    <3>1. fixed.pos = IF f.far THEN e + (-f.divpos) ELSE 0
      BY <1>1, <1>5, <1>6, <2>2 DEF Resolve
    <3> HIDE DEF fixed
    <3> QED BY <1>1, <2>2, <3>1
  <2> QED BY <2>1, <2>2
<1> QED BY <1>2, <1>3, <1>7, <1>8 DEF a

(* So they tile where there is room, and only there.                             *)
LEMMA RoomyTiles == FramesTypeOK => PanesTile
<1> SUFFICES ASSUME FramesTypeOK PROVE PanesTile
  OBVIOUS
<1>1. PICK relative : pane = Planted(frame, relative)
  BY DEF FramesTypeOK, AsSplit
<1>2. PICK wide : wide = ("fixed" \in relative)
  OBVIOUS
<1>3. \A p \in Pane : Split(frame, p) \in Attrs
  BY DEF Split, Attrs, Frame, FramesTypeOK
<1>4. wide \in BOOLEAN /\ pane["fixed"] = [Split(frame, "fixed") EXCEPT !.relatSize = wide]
  <2>1. ~Split(frame, "fixed").relatSize
    BY DEF Split
  <2> QED BY <1>1, <1>2, <2>1 DEF Planted, Pane
<1>5. pane["rem"] = Split(frame, "rem")
  <2>1. Split(frame, "rem").relatSize = TRUE /\ Split(frame, "rem") \in Attrs
    BY <1>3 DEF Split, Pane
  <2>2. pane["rem"] = [Split(frame, "rem") EXCEPT !.relatSize = @ \/ "rem" \in relative]
    BY <1>1 DEF Planted, Pane
  <2> QED BY <2>1, <2>2 DEF Attrs
<1>6. Widened = wide
  <2>1. Split(frame, "fixed") \in Attrs
    BY <1>3 DEF Pane
  <2> QED BY <1>4, <2>1 DEF Widened, Attrs
<1>7. PICK fixed, rem, f, e : fixed = rect["fixed"] /\ rem = rect["rem"] /\ f = frame /\ e = extent
  OBVIOUS
<1>8. /\ fixed = Resolve([Split(f, "fixed") EXCEPT !.relatSize = wide], e)
      /\ rem = Resolve(Split(f, "rem"), e)
      /\ f \in Frame /\ e \in Nat \ {0}
  BY <1>4, <1>5, <1>7 DEF FramesTypeOK, Resolved, Pane
<1>9. PICK own, capped :
         /\ own = IF wide THEN e + f.divpos ELSE f.divpos
         /\ capped = (f.min > 0 /\ own > e - f.min)
  OBVIOUS
<1>10. /\ fixed.size = IF capped THEN (IF e - f.min < 0 THEN 0 ELSE e - f.min) ELSE own
       /\ fixed.pos = IF ~f.far THEN 0 ELSE IF capped THEN f.min ELSE e - f.divpos
       /\ rem.size = IF e - f.divpos < f.min THEN f.min ELSE e - f.divpos
       /\ rem.pos = IF f.far THEN 0 ELSE f.divpos
  BY <1>4, <1>8, <1>9, PanesResolve
<1>11. f.min \in Nat /\ f.divpos \in Nat /\ f.far \in BOOLEAN
  BY <1>8 DEF Frame
<1>12. rem.size >= f.min /\ (~wide /\ f.min \in 1..e => fixed.size + rem.size = e)
  <2>1. rem.size >= f.min
    BY <1>8, <1>10, <1>11
  <2>2. ASSUME ~wide, f.min \in 1..e, f.divpos > e - f.min PROVE fixed.size + rem.size = e
    <3>1. own = f.divpos
      BY <1>9, <2>2
    <3>2. f.min > 0 /\ own > e - f.min
      BY <1>8, <1>11, <2>2, <3>1
    <3>3. capped
      BY <1>9, <3>2
    <3>4. fixed.size = e - f.min
      BY <1>8, <1>10, <1>11, <2>2, <3>3
    <3>5. rem.size = f.min
      BY <1>8, <1>10, <1>11, <2>2
    <3> QED BY <1>8, <1>11, <3>4, <3>5
  <2>3. ASSUME ~wide, f.min \in 1..e, ~(f.divpos > e - f.min) PROVE fixed.size + rem.size = e
    <3>1. fixed.size = f.divpos
      BY <1>8, <1>9, <1>10, <1>11, <2>3
    <3>2. rem.size = e - f.divpos
      BY <1>8, <1>10, <1>11, <2>3
    <3> QED BY <1>8, <1>11, <3>1, <3>2
  <2> QED BY <2>1, <2>2, <2>3
<1>13. CASE f.far
  <2>1. Tiled <=> rem.pos = 0 /\ fixed.pos = rem.size /\ fixed.pos + fixed.size = e
    BY <1>7, <1>13 DEF Tiled
  <2>2. Roomy <=> /\ f.min <= e
                  /\ IF wide THEN f.min > 0 /\ f.divpos + f.min >= e
                     ELSE f.divpos + f.min <= e \/ f.min > 0
    BY <1>6, <1>7, <1>8, <1>11, <1>13 DEF Roomy
  <2>3. ASSUME capped PROVE Tiled <=> Roomy
    <3>1. fixed.pos = f.min /\ fixed.size = (IF e - f.min < 0 THEN 0 ELSE e - f.min) /\ f.min > 0
      BY <1>9, <1>10, <1>13, <2>3
    <3>2. wide \/ f.divpos > e - f.min
      BY <1>9, <2>3
    <3>3. rem.pos = 0 /\ rem.size = IF e - f.divpos < f.min THEN f.min ELSE e - f.divpos
      BY <1>10, <1>13
    <3>4. Tiled <=> f.min <= e /\ f.divpos + f.min >= e
      BY <1>8, <1>11, <2>1, <3>1, <3>3
    <3>5. Roomy <=> f.min <= e /\ f.divpos + f.min >= e
      BY <1>8, <1>11, <2>2, <3>1, <3>2
    <3> QED BY <3>4, <3>5
  <2>4. ASSUME ~capped PROVE Tiled <=> Roomy
    <3>1. fixed.pos = e - f.divpos /\ fixed.size = own
      BY <1>10, <1>13, <2>4
    <3>2. rem.pos = 0 /\ rem.size = IF e - f.divpos < f.min THEN f.min ELSE e - f.divpos
      BY <1>10, <1>13
    <3>3. CASE wide
      <4>1. own = e + f.divpos /\ f.min = 0
        <5>1. own = e + f.divpos
          BY <1>9, <3>3
        <5>2. ~(f.min > 0 /\ own > e - f.min)
          BY <1>9, <2>4
        <5> QED BY <1>8, <1>11, <5>1, <5>2
      <4>2. ~Tiled
        BY <1>8, <1>11, <2>1, <3>1, <4>1
      <4>3. ~Roomy
        BY <2>2, <3>3, <4>1
      <4> QED BY <4>2, <4>3
    <3>4. CASE ~wide
      <4>1. own = f.divpos /\ (f.min = 0 \/ f.divpos + f.min <= e)
        <5>1. own = f.divpos
          BY <1>9, <3>4
        <5>2. ~(f.min > 0 /\ own > e - f.min)
          BY <1>9, <2>4
        <5> QED BY <1>8, <1>11, <5>1, <5>2
      <4>2. Tiled <=> f.divpos + f.min <= e
        BY <1>8, <1>11, <2>1, <3>1, <3>2, <4>1
      <4>3. Roomy <=> f.divpos + f.min <= e
        BY <1>8, <1>11, <2>2, <3>4, <4>1
      <4> QED BY <4>2, <4>3
    <3> QED BY <3>3, <3>4
  <2>5. Tiled <=> Roomy
    BY <2>3, <2>4
  <2> QED BY <1>6, <1>7, <1>12, <2>5 DEF PanesTile
<1>14. CASE ~f.far
  <2>1. Tiled <=> fixed.pos = 0 /\ rem.pos = fixed.size /\ rem.pos + rem.size = e
    BY <1>7, <1>14 DEF Tiled
  <2>2. Roomy <=> /\ f.min <= e
                  /\ IF wide THEN f.min > 0 /\ f.divpos + f.min = e
                     ELSE f.divpos + f.min <= e
    BY <1>6, <1>7, <1>8, <1>11, <1>14 DEF Roomy
  <2>3. Tiled <=> Roomy
    BY <1>4, <1>8, <1>9, <1>10, <1>11, <1>14, <2>1, <2>2
  <2> QED BY <1>6, <1>7, <1>12, <2>3 DEF PanesTile
<1> QED BY <1>13, <1>14

(* At every size of a frame, wherever its divider is and whatever the groupdefs  *)
(* of its panes say: the sizes make up the frame, and the panes tile it exactly  *)
(* where there is room (Widget::resolveRectFromAttrs, Layout.cpp addPane).       *)
THEOREM FramesTile == FrameSpec => []PanesTile
<1> QED BY FramesTyped, RoomyTiles, PTL

(* No move of a divider that moves a pane escapes the cascade.                   *)
THEOREM CascadeHears == FrameSpec => MovesAreFlagged
<1>1. FramesTypeOK /\ [FrameNext]_frameVars
      => [Own /\ Own' /\ extent' = extent /\ rect' # rect => dirty']_frameVars
  <2> SUFFICES ASSUME FramesTypeOK, FrameNext, Own, Own', extent' = extent, rect' # rect
               PROVE  dirty'
    OBVIOUS
  <2>1. ASSUME NEW n \in Position, SetPosition(n) PROVE dirty'
    <3> SUFFICES ASSUME n = frame.divpos PROVE FALSE
      BY <2>1 DEF SetPosition
    <3>1. frame' = frame
      BY <2>1 DEF SetPosition, FramesTypeOK, Frame
    <3>2. pane' = pane
      BY <3>1 DEF Own, Planted, Split
    <3> QED BY <2>1, <3>2 DEF SetPosition, FramesTypeOK
  <2>2. ASSUME NEW e \in Extent, Resize(e) PROVE dirty'
    BY <2>2 DEF Resize, FramesTypeOK
  <2> QED BY <2>1, <2>2 DEF FrameNext, Settle
<1> QED BY <1>1, FramesTyped, PTL DEF FrameSpec, MovesAreFlagged

-----------------------------------------------------------------------------
(* What the parser makes of the files.  The argument: what a text comes to is that *)
(* of its first element and that of the rest (ContentCons), so each entry of the  *)
(* reader's stack, with what is left of its text, still comes to something; a     *)
(* chain up the stack (Chain) passes that to the entry below, through the close   *)
(* of every element and the end of every file, and what arrives at the bottom     *)
(* (Owed) does not change as the reader steps.  The recursion of Content is over  *)
(* passages, which are measured by the files that are still to include and then by *)
(* the nesting left in the text (Rank): that is why it is well defined.           *)

(* The parts from one on.                                                        *)
Onward(parts, from, k) ==
    from[k] = IF k \in DOMAIN parts THEN Followed(parts[k], from[k + 1]) ELSE Nothing

(* Joining goes from the end to the start.                                       *)
LEMMA JoinedFrom ==
    ASSUME NEW n \in Nat, NEW parts, DOMAIN parts = 1 .. n
    PROVE  \E from : Joined(parts) = from[1] /\ \A k \in Nat : Onward(parts, from, k)
<1> DEFINE Good(from, m) == \A k \in Nat : k + m >= n + 1 => Onward(parts, from, k)
           S == {m \in Nat : \E from : from = [k \in Nat |-> from[k]] /\ Good(from, m)}
           Eq(from) == [k \in Nat |-> IF k \in DOMAIN parts THEN Followed(parts[k], from[k + 1])
                                      ELSE Nothing]
<1>1. 0 \in S
  <2> DEFINE g == [k \in Nat |-> Nothing]
  <2>1. g = [k \in Nat |-> g[k]] /\ Good(g, 0)
    BY DEF Onward
  <2> QED BY <2>1
<1>2. ASSUME NEW m \in Nat, m \in S PROVE m + 1 \in S
  <2>1. PICK g : g = [k \in Nat |-> g[k]] /\ Good(g, m)
    BY <1>2
  <2> DEFINE h == [k \in Nat |-> IF k + m = n THEN Eq(g)[k] ELSE g[k]]
  <2>2. ASSUME NEW k \in Nat, k + (m + 1) >= n + 1 PROVE Onward(parts, h, k)
    <3>1. CASE k + m = n
      <4>1. h[k] = Eq(g)[k] /\ h[k + 1] = g[k + 1]
        BY <3>1
      <4> QED BY <4>1 DEF Onward
    <3>2. CASE k + m >= n + 1
      <4>1. h[k] = g[k] /\ h[k + 1] = g[k + 1]
        BY <3>2
      <4>2. Onward(parts, g, k)
        BY <2>1, <3>2
      <4> QED BY <4>1, <4>2 DEF Onward
    <3> QED BY <2>2, <3>1, <3>2
  <2>3. h = [k \in Nat |-> h[k]]
    OBVIOUS
  <2> HIDE DEF h
  <2> QED BY <2>2, <2>3
<1>3. n + 1 \in S
  <2> HIDE DEF S
  <2>1. Nat \subseteq S
    BY <1>1, <1>2, NatSet
  <2> QED BY <2>1
<1>4. PICK g : g = [k \in Nat |-> g[k]] /\ Good(g, n + 1)
  BY <1>3
<1>5. g = Eq(g)
  <2>1. \A k \in Nat : Onward(parts, g, k)
    BY <1>4
  <2>2. \A k \in Nat : g[k] = Eq(g)[k]
    BY <2>1 DEF Onward
  <2> QED BY <1>4, <2>2
<1> DEFINE f == CHOOSE f : f = Eq(f)
<1>6. f = Eq(f)
  BY <1>5
<1>7. Joined(parts) = f[1]
  BY DEF Joined
<1>8. \A k \in Nat : Onward(parts, f, k)
  <2> HIDE DEF f
  <2> QED BY <1>6 DEF Onward
<1> QED BY <1>7, <1>8

(* Nothing makes nothing; parts are their first one, followed by the others.     *)
LEMMA JoinedNil ==
    ASSUME NEW parts, DOMAIN parts = {}
    PROVE  Joined(parts) = Nothing
<1>1. DOMAIN parts = 1 .. 0
  OBVIOUS
<1>2. PICK f : Joined(parts) = f[1] /\ \A k \in Nat : Onward(parts, f, k)
  BY <1>1, JoinedFrom
<1> QED BY <1>2 DEF Onward

LEMMA JoinedCons ==
    ASSUME NEW n \in Nat, NEW parts, DOMAIN parts = 1 .. n + 1,
           NEW rest, DOMAIN rest = 1 .. n, \A i \in 1 .. n : rest[i] = parts[i + 1]
    PROVE  Joined(parts) = Followed(parts[1], Joined(rest))
<1>1. PICK f : Joined(parts) = f[1] /\ \A k \in Nat : Onward(parts, f, k)
  <2>1. n + 1 \in Nat
    OBVIOUS
  <2> QED BY <2>1, JoinedFrom
<1>2. PICK g : Joined(rest) = g[1] /\ \A k \in Nat : Onward(rest, g, k)
  BY JoinedFrom
<1> DEFINE S == {m \in Nat : \A k \in Nat : k >= 1 /\ k + m >= n + 1 => f[k + 1] = g[k]}
<1>3. 0 \in S
  <2>1. ASSUME NEW k \in Nat, k >= n + 1 PROVE f[k + 1] = g[k]
    <3>1. Onward(rest, g, k) /\ Onward(parts, f, k + 1)
      BY <1>1, <1>2
    <3> QED BY <2>1, <3>1 DEF Onward
  <2> QED BY <2>1
<1>4. ASSUME NEW m \in Nat, m \in S PROVE m + 1 \in S
  <2>1. ASSUME NEW k \in Nat, k >= 1, k + m = n PROVE f[k + 1] = g[k]
    <3>1. Onward(rest, g, k) /\ Onward(parts, f, k + 1)
      BY <1>1, <1>2
    <3>2. f[(k + 1) + 1] = g[k + 1]
      BY <1>4, <2>1
    <3>3. k \in 1 .. n /\ k + 1 \in 1 .. n + 1
      BY <2>1
    <3> QED BY <3>1, <3>2, <3>3 DEF Onward
  <2>2. ASSUME NEW k \in Nat, k >= 1, k + m >= n + 1 PROVE f[k + 1] = g[k]
    BY <1>4, <2>2
  <2> QED BY <2>1, <2>2
<1>5. n \in S
  <2> HIDE DEF S
  <2>1. Nat \subseteq S
    BY <1>3, <1>4, NatSet
  <2> QED BY <2>1
<1>6. f[2] = g[1]
  BY <1>5
<1>7. Onward(parts, f, 1) /\ 1 \in DOMAIN parts
  BY <1>1
<1> QED BY <1>1, <1>2, <1>6, <1>7 DEF Onward

(* Elements that are nested at most n deep are elements.                         *)
LEMMA Levels ==
    ASSUME NEW n \in 0 .. Nesting
    PROVE  Nested[n] \subseteq Nested[Nesting]
<1> DEFINE S == {m \in Nat : \A k \in 0 .. Nesting : k + m = Nesting => Nested[k] \subseteq Nested[Nesting]}
<1>0. Nesting \in Nat
  BY SkinsAssumption
<1>1. 0 \in S
  BY <1>0
<1>2. ASSUME NEW m \in Nat, m \in S PROVE m + 1 \in S
  <2>1. ASSUME NEW k \in 0 .. Nesting, k + (m + 1) = Nesting PROVE Nested[k] \subseteq Nested[Nesting]
    <3>1. k + 1 \in 1 .. Nesting /\ (k + 1) - 1 = k /\ k + 1 \in 0 .. Nesting
      BY <1>0, <2>1
    <3>2. Nested[k] \subseteq Nested[k + 1]
      BY <3>1, SkinsAssumption
    <3>3. Nested[k + 1] \subseteq Nested[Nesting]
      BY <1>2, <2>1, <3>1
    <3> QED BY <3>2, <3>3
  <2> QED BY <2>1
<1>3. Nesting - n \in S
  <2> HIDE DEF S
  <2>1. Nat \subseteq S
    BY <1>1, <1>2, NatSet
  <2> QED BY <1>0, <2>1
<1> QED BY <1>0, <1>3

(* What an element comes to depends on the text in it, or on the file it includes. *)
Inner(place, el) ==
    [place EXCEPT !.text = el.kids, !.scope = IF IsScope(el) THEN el.id ELSE @]
Outer(s, place, el) == [place EXCEPT !.files = @ \cup {el.of}, !.text = s.at[el.of]]
Includes(s, place, el) == el.of \in DOMAIN s.at \ place.files

LEMMA SamePart ==
    ASSUME NEW s, NEW g, NEW h, NEW place, NEW el,
           g[Inner(place, el)] = h[Inner(place, el)],
           Includes(s, place, el) => g[Outer(s, place, el)] = h[Outer(s, place, el)]
    PROVE  PartOf(s, g, place, el) = PartOf(s, h, place, el)
BY DEF PartOf, Inner, Outer, Includes

(* Both are nearer to the end: deeper in the file, or in a file more.            *)
Rank(s, place, n) == n + (Nesting + 1) * Cardinality(DOMAIN s.at \ place.files)
Below(s, d) ==
    {place \in Passage(s) :
        \E n \in 0 .. Nesting : place.text \in Seq(Nested[n]) /\ Rank(s, place, n) < d}

LEMMA PlacesBelow ==
    ASSUME NEW s \in Skins, NEW d \in Nat, NEW place \in Below(s, d + 1),
           NEW i \in DOMAIN place.text
    PROVE  /\ Inner(place, place.text[i]) \in Below(s, d)
           /\ Includes(s, place, place.text[i]) => Outer(s, place, place.text[i]) \in Below(s, d)
<1> DEFINE el == place.text[i]
           left == DOMAIN s.at \ place.files
<1> USE DEF Passage, Text, Scope
<1>0. Nesting \in Nat /\ Nested[0] = {}
  BY SkinsAssumption
<1>1. /\ place.files \subseteq DOMAIN s.at /\ place.scope \in Scope
      /\ place = [files |-> place.files, text |-> place.text, scope |-> place.scope]
  BY DEF Below
<1>2. PICK n \in 0 .. Nesting : place.text \in Seq(Nested[n]) /\ Rank(s, place, n) < d + 1
  BY DEF Below
<1>3. el \in Nested[n]
  BY <1>2
<1>4. n \in 1 .. Nesting /\ n - 1 \in 0 .. Nesting
  BY <1>0, <1>2, <1>3
<1>5. el.kids \in Seq(Nested[n - 1]) /\ el.id \in Scope
  <2>1. el.kids \in Seq(Nested[n - 1])
    BY <1>3, <1>4, SkinsAssumption
  <2>2. el \in Nested[Nesting]
    BY <1>3, <1>4, Levels
  <2> QED BY <2>1, <2>2
<1>6. el.kids \in Text
  <2>1. Nested[n - 1] \subseteq Nested[Nesting]
    BY <1>4, Levels
  <2> QED BY <1>5, <2>1, SeqMonotonic DEF Text
<1>7. IsFiniteSet(left) /\ Cardinality(left) \in Nat
  BY FS_Subset, FS_CardinalityType, SkinsAssumption
<1> DEFINE in == Inner(place, el)
           out == Outer(s, place, el)
<1>8. in \in Below(s, d)
  <2>1. in.files = place.files /\ in.text = el.kids /\ in \in Passage(s)
    <3> HIDE DEF el
    <3> QED BY <1>1, <1>5, <1>6 DEF Inner
  <2>2. Rank(s, in, n - 1) < d
    <3>1. Rank(s, in, n - 1) = (n - 1) + (Nesting + 1) * Cardinality(left)
      BY <2>1 DEF Rank
    <3>2. n + (Nesting + 1) * Cardinality(left) < d + 1
      BY <1>2 DEF Rank
    <3>3. (Nesting + 1) * Cardinality(left) \in Nat
      BY <1>0, <1>7
    <3> QED BY <1>4, <3>1, <3>2, <3>3
  <2> HIDE DEF in, el
  <2> QED BY <1>4, <1>5, <2>1, <2>2 DEF Below
<1>9. ASSUME Includes(s, place, el) PROVE out \in Below(s, d)
  <2>1. el.of \in left /\ el.of \in DOMAIN s.at /\ s.at[el.of] \in Seq(Nested[Nesting])
    BY <1>9, SkinsAssumption DEF Includes
  <2>2. /\ out.files = place.files \cup {el.of} /\ out.text = s.at[el.of]
        /\ out \in Passage(s)
    <3> HIDE DEF el
    <3> QED BY <1>1, <2>1 DEF Outer
  <2>3. DOMAIN s.at \ out.files = left \ {el.of}
    BY <2>2
  <2>4. Cardinality(DOMAIN s.at \ out.files) = Cardinality(left) - 1
    <3> HIDE DEF left, out, el
    <3> QED BY <1>7, <2>1, <2>3, FS_RemoveElement
  <2> DEFINE c == Cardinality(left)
             w == Nesting + 1
  <2>5. Rank(s, out, Nesting) = Nesting + w * (c - 1)
    BY <2>4 DEF Rank
  <2>6. n + w * c < d + 1
    BY <1>2 DEF Rank
  <2>7. w * (c - 1) = w * c - w /\ w * c \in Nat /\ w \in Nat /\ c \in Nat
    <3> HIDE DEF c, w
    <3>1. c \in Nat /\ w \in Nat
      BY <1>0, <1>7 DEF c, w
    <3> QED BY <3>1, Z3
  <2>8. Rank(s, out, Nesting) < d
    <3> DEFINE q == w * c
    <3>1. Rank(s, out, Nesting) = Nesting + (q - w) /\ q \in Nat /\ n + q < d + 1 /\ w = Nesting + 1
      BY <2>5, <2>6, <2>7
    <3> HIDE DEF q, w, c
    <3> QED BY <1>0, <1>4, <3>1
  <2> HIDE DEF out, el
  <2> QED BY <1>0, <2>1, <2>2, <2>8 DEF Below
<1> QED BY <1>8, <1>9

(* Every place is below some rank.                                               *)
LEMMA AllBelow ==
    ASSUME NEW s \in Skins
    PROVE  \E d \in Nat : Passage(s) = Below(s, d + 1) /\ Passage(s) = Below(s, d)
<1> DEFINE w == Nesting + 1
           c == Cardinality(DOMAIN s.at)
           d == Nesting + w * c + 1
<1>1. Nesting \in Nat /\ IsFiniteSet(DOMAIN s.at) /\ c \in Nat /\ w \in Nat
  BY SkinsAssumption, FS_CardinalityType
<1>2. w * c \in Nat /\ d \in Nat
  <2> HIDE DEF w, c
  <2> QED BY <1>1
<1>3. ASSUME NEW place \in Passage(s) PROVE place \in Below(s, d) /\ place \in Below(s, d + 1)
  <2> DEFINE left == DOMAIN s.at \ place.files
             k == Cardinality(left)
  <2>1. k \in Nat /\ k <= c
    <3>1. left \subseteq DOMAIN s.at
      OBVIOUS
    <3> HIDE DEF left
    <3> QED BY <1>1, <3>1, FS_Subset, FS_CardinalityType
  <2>2. w * k <= w * c /\ w * k \in Nat
    <3> HIDE DEF w, c, k
    <3> QED BY <1>1, <2>1, Z3
  <2>3. Rank(s, place, Nesting) = Nesting + w * k
    BY DEF Rank
  <2>4. Rank(s, place, Nesting) < d /\ Rank(s, place, Nesting) < d + 1
    <3> DEFINE a == w * k
               b == w * c
    <3>1. Rank(s, place, Nesting) = Nesting + a /\ a \in Nat /\ b \in Nat /\ a <= b /\ d = Nesting + b + 1
      BY <1>2, <2>2, <2>3
    <3> HIDE DEF a, b, d, w, c, k
    <3> QED BY <1>1, <3>1
  <2>5. place.text \in Seq(Nested[Nesting])
    BY DEF Passage, Text
  <2> HIDE DEF d
  <2> QED BY <1>1, <2>4, <2>5 DEF Below
<1> HIDE DEF d
<1>4. Passage(s) = Below(s, d + 1) /\ Passage(s) = Below(s, d)
  BY <1>3 DEF Below
<1> QED BY <1>2, <1>4

(* So what the texts come to is well defined.                                    *)
Unfolds(s, c, place) ==
    c[place] = Joined([i \in DOMAIN place.text |-> PartOf(s, c, place, place.text[i])])

LEMMA SameParts ==
    ASSUME NEW s \in Skins, NEW d \in Nat, NEW place \in Below(s, d + 1), NEW g, NEW h,
           \A p \in Below(s, d) : g[p] = h[p]
    PROVE  [i \in DOMAIN place.text |-> PartOf(s, g, place, place.text[i])]
           = [i \in DOMAIN place.text |-> PartOf(s, h, place, place.text[i])]
<1>1. ASSUME NEW i \in DOMAIN place.text
      PROVE  PartOf(s, g, place, place.text[i]) = PartOf(s, h, place, place.text[i])
  BY PlacesBelow, SamePart
<1> QED BY <1>1

LEMMA ContentUnfolds ==
    ASSUME NEW s \in Skins, NEW place \in Passage(s)
    PROVE  Unfolds(s, Content(s), place)
<1> DEFINE All == Passage(s)
           Eq(c) == [p \in All |-> Joined([i \in DOMAIN p.text |-> PartOf(s, c, p, p.text[i])])]
           S == {d \in Nat : \E g : /\ g = [p \in All |-> g[p]]
                                    /\ \A p \in Below(s, d) : Unfolds(s, g, p)}
<1>1. 0 \in S
  <2> DEFINE g == [p \in All |-> Nothing]
  <2>1. g = [p \in All |-> g[p]]
    OBVIOUS
  <2>2. Below(s, 0) = {}
    <3> SUFFICES ASSUME NEW p \in Below(s, 0) PROVE FALSE
      OBVIOUS
    <3>1. PICK n \in 0 .. Nesting : Rank(s, p, n) < 0
      BY DEF Below
    <3>2. IsFiniteSet(DOMAIN s.at \ p.files) /\ Cardinality(DOMAIN s.at \ p.files) \in Nat /\ Nesting \in Nat
      BY FS_Subset, FS_CardinalityType, SkinsAssumption
    <3>3. (Nesting + 1) * Cardinality(DOMAIN s.at \ p.files) \in Nat
      BY <3>2
    <3> QED BY <3>1, <3>2, <3>3 DEF Rank
  <2> HIDE DEF g
  <2> QED BY <2>1, <2>2
<1>2. ASSUME NEW d \in Nat, d \in S PROVE d + 1 \in S
  <2>1. PICK g : g = [p \in All |-> g[p]] /\ \A p \in Below(s, d) : Unfolds(s, g, p)
    BY <1>2
  <2> DEFINE h == Eq(g)
  <2>2. h = [p \in All |-> h[p]]
    OBVIOUS
  <2>3. \A p \in Below(s, d) : g[p] = h[p]
    BY <2>1 DEF Unfolds, Below
  <2>4. ASSUME NEW p \in Below(s, d + 1) PROVE Unfolds(s, h, p)
    <3>1. h[p] = Joined([i \in DOMAIN p.text |-> PartOf(s, g, p, p.text[i])])
      BY DEF Below
    <3> HIDE DEF h
    <3>2. [i \in DOMAIN p.text |-> PartOf(s, g, p, p.text[i])]
          = [i \in DOMAIN p.text |-> PartOf(s, h, p, p.text[i])]
      BY <2>3, SameParts
    <3> QED BY <3>1, <3>2 DEF Unfolds
  <2> HIDE DEF h
  <2> QED BY <2>2, <2>4
<1>3. PICK d \in Nat : Passage(s) = Below(s, d)
  BY AllBelow
<1>4. d \in S
  <2> HIDE DEF S
  <2>1. Nat \subseteq S
    BY <1>1, <1>2, NatSet
  <2> QED BY <2>1
<1>5. PICK g : g = [p \in All |-> g[p]] /\ \A p \in All : Unfolds(s, g, p)
  BY <1>3, <1>4
<1>6. g = Eq(g)
  BY <1>5 DEF Unfolds
<1> DEFINE f == CHOOSE f : f = Eq(f)
<1>7. f = Eq(f)
  BY <1>6
<1>8. Content(s) = f
  BY DEF Content
<1>9. f[place] = Joined([i \in DOMAIN place.text |-> PartOf(s, f, place, place.text[i])])
  <2> HIDE DEF f
  <2> QED BY <1>7
<1> QED BY <1>8, <1>9 DEF Unfolds


-----------------------------------------------------------------------------
(* Sequences, whatever is in them.                                               *)
LEMMA Concats ==
    ASSUME NEW a, NEW b, NEW c, IsList(a), IsList(b), IsList(c)
    PROVE  /\ IsList(a \o b) /\ (a \o b) \o c = a \o (b \o c)
           /\ a \o <<>> = a /\ <<>> \o a = a
<1> DEFINE A == {a[i] : i \in DOMAIN a}
           B == {b[i] : i \in DOMAIN b}
           C == {c[i] : i \in DOMAIN c}
           T == A \cup B \cup C
<1>1. a \in Seq(A) /\ b \in Seq(B) /\ c \in Seq(C)
  BY DEF IsList
<1> HIDE DEF A, B, C
<1>2. a \in Seq(T) /\ b \in Seq(T) /\ c \in Seq(T)
  BY <1>1
<1> HIDE DEF T
<1>3. a \o b \in Seq(T)
  BY <1>2
<1>4. IsList(a \o b)
  BY <1>3, Itself
<1>5. (a \o b) \o c = a \o (b \o c)
  BY <1>2, ConcatAssociative
<1>6. a \o <<>> = a /\ <<>> \o a = a
  BY <1>2, ConcatEmptySeq
<1> QED BY <1>4, <1>5, <1>6

LEMMA Singles ==
    ASSUME NEW e, NEW a, IsList(a)
    PROVE  /\ IsList(<<>>) /\ IsList(<<e>>)
           /\ Append(a, e) = a \o <<e>> /\ IsList(Append(a, e))
           /\ <<e>> \o a # <<>> /\ (<<e>> \o a)[1] = e /\ Tail(<<e>> \o a) = a
<1> DEFINE A == {a[i] : i \in DOMAIN a}
           T == A \cup {e}
<1>1. a \in Seq(A)
  BY DEF IsList
<1> HIDE DEF A
<1>2. a \in Seq(T) /\ e \in T
  BY <1>1
<1> HIDE DEF T
<1>3. <<>> \in Seq(T) /\ <<e>> \in Seq(T) /\ Append(a, e) \in Seq(T)
  BY <1>2
<1>4. Append(a, e) = a \o <<e>>
  BY <1>2, AppendIsConcat
<1>5. <<e>> \o a # <<>> /\ (<<e>> \o a)[1] = e /\ Tail(<<e>> \o a) = a
  <2> DEFINE u == <<e>> \o a
  <2>1. u \in Seq(T) /\ Len(u) = Len(a) + 1 /\ u[1] = e /\ \A i \in 1 .. Len(a) : u[i + 1] = a[i]
    BY <1>2, <1>3
  <2> HIDE DEF u
  <2>2. Len(a) \in Nat /\ Len(u) # 0
    BY <1>2, <2>1
  <2>3. u # <<>>
    BY <2>2
  <2>4. Tail(u) \in Seq(T) /\ Len(Tail(u)) = Len(a) /\ \A i \in 1 .. Len(a) : Tail(u)[i] = u[i + 1]
    BY <2>1, <2>2, <2>3
  <2>5. \A i \in 1 .. Len(a) : Tail(u)[i] = a[i]
    BY <2>1, <2>4
  <2>6. Tail(u) = a
    BY <1>2, <2>4, <2>5
  <2> QED BY <2>1, <2>3, <2>6 DEF u
<1> QED BY <1>3, <1>4, <1>5, Itself

(* A sequence that is not empty is its first, pushed on the others.              *)
LEMMA HeadFirst ==
    ASSUME NEW a, IsList(a), a # <<>>
    PROVE  /\ a = Pushed(a[1], Tail(a)) /\ IsList(Tail(a))
           /\ Len(a) \in Nat /\ Len(a) >= 1 /\ Len(Tail(a)) = Len(a) - 1
           /\ \A i \in 1 .. Len(a) - 1 : Tail(a)[i] = a[i + 1]
<1> DEFINE A == {a[i] : i \in DOMAIN a}
<1>1. a \in Seq(A)
  BY DEF IsList
<1> HIDE DEF A
<1>2. Len(a) \in Nat /\ Len(a) >= 1
  BY <1>1
<1>3. /\ Tail(a) \in Seq(A) /\ Len(Tail(a)) = Len(a) - 1
      /\ \A i \in 1 .. Len(a) - 1 : Tail(a)[i] = a[i + 1]
  BY <1>1, <1>2
<1>4. a[1] \in A
  BY <1>1, <1>2
<1>5. a = <<a[1]>> \o Tail(a)
  <2> DEFINE u == <<a[1]>> \o Tail(a)
  <2>1. /\ u \in Seq(A) /\ Len(u) = Len(a) /\ u[1] = a[1]
        /\ \A i \in 2 .. Len(a) : u[i] = Tail(a)[i - 1]
    BY <1>2, <1>3, <1>4
  <2> HIDE DEF u
  <2>2. \A i \in 1 .. Len(a) : u[i] = a[i]
    BY <1>2, <1>3, <2>1
  <2>3. u = a
    BY <1>1, <2>1, <2>2
  <2> QED BY <2>3 DEF u
<1> QED BY <1>2, <1>3, <1>5, Itself DEF Pushed

-----------------------------------------------------------------------------
(* What a text comes to is a sequence of elements, and one of scripts.           *)
Good(c) ==
    /\ c = [els |-> c.els, refs |-> c.refs, broken |-> c.broken]
    /\ IsList(c.els) /\ IsList(c.refs) /\ c.broken \in BOOLEAN

Break == [els |-> <<>>, refs |-> <<>>, broken |-> TRUE]
Unbroken(c) == [els |-> c.els, refs |-> c.refs, broken |-> FALSE]
KeptIn(el, c, owner) ==
    [els |-> <<Kept(el, c.els)>>, refs |-> c.refs \o Noted(Canonised(el), owner), broken |-> c.broken]

LEMMA GoodOnes ==
    /\ Good(Nothing) /\ Good(Break)
    /\ \A c : Good(c) => Good(Unbroken(c))
    /\ \A el, c, owner : Good(c) => Good(KeptIn(el, c, owner))
    /\ \A a, b : Good(a) /\ Good(b) => Good(Followed(a, b))
<1>1. IsList(<<>>) /\ \A e : IsList(<<e>>)
  <2>1. ASSUME NEW e PROVE <<>> \in Seq({e}) /\ <<e>> \in Seq({e})
    OBVIOUS
  <2> QED BY <2>1, Itself
<1>2. \A el, owner : IsList(Noted(el, owner))
  BY <1>1 DEF Noted
<1>3. \A a, b : IsList(a) /\ IsList(b) => IsList(a \o b)
  BY Concats
<1>4. Good(Nothing) /\ Good(Break)
  BY <1>1 DEF Good, Nothing, Break
<1>5. ASSUME NEW c, Good(c) PROVE Good(Unbroken(c))
  BY <1>5 DEF Good, Unbroken
<1>6. ASSUME NEW el, NEW c, NEW owner, Good(c) PROVE Good(KeptIn(el, c, owner))
  BY <1>1, <1>2, <1>3, <1>6 DEF Good, KeptIn
<1>7. ASSUME NEW a, NEW b, Good(a), Good(b) PROVE Good(Followed(a, b))
  BY <1>3, <1>7 DEF Good, Followed
<1> QED BY <1>4, <1>5, <1>6, <1>7

LEMMA Exceptions ==
    /\ [Nothing EXCEPT !.broken = TRUE] = Break
    /\ \A c : Good(c) => [c EXCEPT !.broken = FALSE] = Unbroken(c)
<1>1. ASSUME NEW c, NEW b, c = [els |-> c.els, refs |-> c.refs, broken |-> c.broken]
      PROVE  [c EXCEPT !.broken = b] = [els |-> c.els, refs |-> c.refs, broken |-> b]
  BY <1>1
<1>2. [Nothing EXCEPT !.broken = TRUE] = Break
  <2>1. /\ Nothing = [els |-> Nothing.els, refs |-> Nothing.refs, broken |-> Nothing.broken]
        /\ Nothing.els = <<>> /\ Nothing.refs = <<>>
    BY DEF Nothing
  <2> QED BY <1>1, <2>1 DEF Break
<1>3. ASSUME NEW c, Good(c) PROVE [c EXCEPT !.broken = FALSE] = Unbroken(c)
  BY <1>1, <1>3 DEF Good, Unbroken
<1> QED BY <1>2, <1>3

(* What an element comes to, once its text or its file has come to something good. *)
LEMMA PartForms ==
    ASSUME NEW s, NEW c, NEW place, NEW el,
           el.tag \notin {"include", "error"} => Good(c[Inner(place, el)]),
           el.tag = "include" /\ Includes(s, place, el) => Good(c[Outer(s, place, el)])
    PROVE  PartOf(s, c, place, el) =
               CASE el.tag = "error" -> Break
                 [] el.tag = "include" ->
                        IF Includes(s, place, el) THEN Unbroken(c[Outer(s, place, el)]) ELSE Nothing
                 [] OTHER -> KeptIn(el, c[Inner(place, el)], place.scope)
<1> DEFINE in == c[Inner(place, el)]
           out == c[Outer(s, place, el)]
<1>1. [Nothing EXCEPT !.broken = TRUE] = Break
  BY Exceptions
<1>2. ASSUME Good(out) PROVE [out EXCEPT !.broken = FALSE] = Unbroken(out)
  <2> HIDE DEF out
  <2> QED BY <1>2, Exceptions
<1>3. ASSUME Good(in)
      PROVE  [in EXCEPT !.els = <<Kept(el, @)>>, !.refs = @ \o Noted(Canonised(el), place.scope)]
             = KeptIn(el, in, place.scope)
  <2> DEFINE q == [in EXCEPT !.els = <<Kept(el, @)>>, !.refs = @ \o Noted(Canonised(el), place.scope)]
  <2>1. /\ DOMAIN q = {"els", "refs", "broken"} /\ q = [x \in DOMAIN q |-> q[x]]
        /\ q.els = <<Kept(el, in.els)>> /\ q.refs = in.refs \o Noted(Canonised(el), place.scope)
        /\ q.broken = in.broken
    <3> HIDE DEF in
    <3> QED BY <1>3 DEF Good
  <2> HIDE DEF q
  <2>2. q = KeptIn(el, in, place.scope)
    BY <2>1 DEF KeptIn
  <2> QED BY <2>2 DEF q
<1>4. PartOf(s, c, place, el) =
          CASE el.tag = "error" -> [Nothing EXCEPT !.broken = TRUE]
            [] el.tag = "include" ->
                   IF Includes(s, place, el) THEN [out EXCEPT !.broken = FALSE] ELSE Nothing
            [] OTHER -> [in EXCEPT !.els = <<Kept(el, @)>>,
                                   !.refs = @ \o Noted(Canonised(el), place.scope)]
  BY DEF PartOf, Inner, Outer, Includes
<1>5. CASE el.tag = "error"
  BY <1>1, <1>4, <1>5
<1>6. CASE el.tag = "include" /\ Includes(s, place, el)
  BY <1>2, <1>4, <1>6
<1>7. CASE el.tag = "include" /\ ~Includes(s, place, el)
  BY <1>4, <1>7
<1>8. CASE el.tag \notin {"include", "error"}
  BY <1>3, <1>4, <1>8
<1> QED BY <1>5, <1>6, <1>7, <1>8

LEMMA JoinedGood ==
    ASSUME NEW n \in Nat, NEW parts, DOMAIN parts = 1 .. n, \A i \in 1 .. n : Good(parts[i])
    PROVE  Good(Joined(parts))
<1>1. PICK f : Joined(parts) = f[1] /\ \A k \in Nat : Onward(parts, f, k)
  BY JoinedFrom
<1> DEFINE S == {m \in Nat : \A k \in Nat : k + m >= n + 1 => Good(f[k])}
<1>2. 0 \in S
  <2>1. ASSUME NEW k \in Nat, k >= n + 1 PROVE Good(f[k])
    <3>1. Onward(parts, f, k) /\ k \notin DOMAIN parts
      BY <1>1, <2>1
    <3> QED BY <3>1, GoodOnes DEF Onward
  <2> QED BY <2>1
<1>3. ASSUME NEW m \in Nat, m \in S PROVE m + 1 \in S
  <2>1. ASSUME NEW k \in Nat, k + (m + 1) >= n + 1 PROVE Good(f[k])
    <3>1. Onward(parts, f, k) /\ Good(f[k + 1])
      BY <1>1, <1>3, <2>1
    <3>2. CASE k \in DOMAIN parts
      <4>1. f[k] = Followed(parts[k], f[k + 1]) /\ Good(parts[k])
        BY <3>1, <3>2 DEF Onward
      <4> QED BY <3>1, <4>1, GoodOnes
    <3>3. CASE k \notin DOMAIN parts
      BY <3>1, <3>3, GoodOnes DEF Onward
    <3> QED BY <3>2, <3>3
  <2> QED BY <2>1
<1>4. n \in S
  <2> HIDE DEF S
  <2>1. Nat \subseteq S
    BY <1>2, <1>3, NatSet
  <2> QED BY <2>1
<1>5. Good(f[1])
  BY <1>4
<1> QED BY <1>1, <1>5

LEMMA ContentGood ==
    ASSUME NEW s \in Skins
    PROVE  \A place \in Passage(s) : Good(Content(s)[place])
<1> DEFINE c == Content(s)
           S == {d \in Nat : \A place \in Below(s, d) : Good(c[place])}
<1>1. 0 \in S
  <2>1. ASSUME NEW p \in Below(s, 0) PROVE FALSE
    <3>1. PICK n \in 0 .. Nesting : Rank(s, p, n) < 0
      BY DEF Below
    <3>2. /\ IsFiniteSet(DOMAIN s.at \ p.files) /\ Cardinality(DOMAIN s.at \ p.files) \in Nat
          /\ Nesting \in Nat
      BY FS_Subset, FS_CardinalityType, SkinsAssumption
    <3>3. (Nesting + 1) * Cardinality(DOMAIN s.at \ p.files) \in Nat
      BY <3>2
    <3> QED BY <3>1, <3>2, <3>3 DEF Rank
  <2> QED BY <2>1
<1>2. ASSUME NEW d \in Nat, d \in S PROVE d + 1 \in S
  <2>1. ASSUME NEW p \in Below(s, d + 1) PROVE Good(c[p])
    <3> DEFINE parts == [i \in DOMAIN p.text |-> PartOf(s, c, p, p.text[i])]
    <3>1. p \in Passage(s) /\ p.text \in Text
      BY DEF Below, Passage
    <3>2. c[p] = Joined(parts)
      BY <3>1, ContentUnfolds DEF Unfolds
    <3>3. Len(p.text) \in Nat /\ DOMAIN p.text = 1 .. Len(p.text)
      BY <3>1 DEF Text
    <3>4. ASSUME NEW i \in 1 .. Len(p.text) PROVE Good(parts[i])
      <4> DEFINE el == p.text[i]
      <4>1. /\ Inner(p, el) \in Below(s, d)
            /\ Includes(s, p, el) => Outer(s, p, el) \in Below(s, d)
        BY <3>3, PlacesBelow
      <4>2. Good(c[Inner(p, el)]) /\ (Includes(s, p, el) => Good(c[Outer(s, p, el)]))
        BY <1>2, <4>1
      <4>3. parts[i] = PartOf(s, c, p, el)
        BY <3>3
      <4> HIDE DEF el, parts, c
      <4>4. \/ PartOf(s, c, p, el) \in {Break, Nothing}
            \/ Includes(s, p, el) /\ PartOf(s, c, p, el) = Unbroken(c[Outer(s, p, el)])
            \/ PartOf(s, c, p, el) = KeptIn(el, c[Inner(p, el)], p.scope)
        BY <4>2, PartForms
      <4> QED BY <4>2, <4>3, <4>4, GoodOnes
    <3>5. DOMAIN parts = 1 .. Len(p.text)
      BY <3>3
    <3> HIDE DEF parts, c
    <3> QED BY <3>2, <3>3, <3>4, <3>5, JoinedGood
  <2> QED BY <2>1
<1>3. PICK d \in Nat : Passage(s) = Below(s, d)
  BY AllBelow
<1>4. d \in S
  <2> HIDE DEF S
  <2>1. Nat \subseteq S
    BY <1>1, <1>2, NatSet
  <2> QED BY <2>1
<1> QED BY <1>3, <1>4

(* An empty text comes to nothing; another comes to what its first element comes *)
(* to, followed by what the others do.                                           *)
LEMMA ContentNil ==
    ASSUME NEW s \in Skins, NEW place \in Passage(s), place.text = <<>>
    PROVE  Content(s)[place] = Nothing
<1> DEFINE parts == [i \in DOMAIN place.text |-> PartOf(s, Content(s), place, place.text[i])]
<1>1. Content(s)[place] = Joined(parts)
  BY ContentUnfolds DEF Unfolds
<1>2. DOMAIN parts = {}
  OBVIOUS
<1> HIDE DEF parts
<1> QED BY <1>1, <1>2, JoinedNil

Further(place) == [place EXCEPT !.text = Tail(@)]
Somewhere(files, text, scope) == [files |-> files, text |-> text, scope |-> scope]

Stands(s, place, files, text, scope) ==
    /\ place.files = files /\ place.text = text /\ place.scope = scope
    /\ files \subseteq DOMAIN s.at /\ text \in Text /\ scope \in Scope => place \in Passage(s)
    /\ Further(place) = Somewhere(files, Tail(text), scope)
    /\ \A el : Inner(place, el) = Somewhere(files, el.kids, IF IsScope(el) THEN el.id ELSE scope)
    /\ \A el : Outer(s, place, el) = Somewhere(files \cup {el.of}, s.at[el.of], scope)

LEMMA Places ==
    ASSUME NEW s, NEW files, NEW text, NEW scope, NEW place, place = Somewhere(files, text, scope)
    PROVE  Stands(s, place, files, text, scope)
<1>1. /\ place = [files |-> place.files, text |-> place.text, scope |-> place.scope]
      /\ place.files = files /\ place.text = text /\ place.scope = scope
  BY DEF Somewhere
<1>2. files \subseteq DOMAIN s.at /\ text \in Text /\ scope \in Scope => place \in Passage(s)
  BY DEF Somewhere, Passage
<1>4. Further(place) = Somewhere(files, Tail(text), scope)
  <2> DEFINE q == Further(place)
  <2>1. /\ DOMAIN q = {"files", "text", "scope"} /\ q = [x \in DOMAIN q |-> q[x]]
        /\ q.files = files /\ q.text = Tail(text) /\ q.scope = scope
    BY <1>1 DEF Further
  <2> HIDE DEF q
  <2>2. q = Somewhere(files, Tail(text), scope)
    BY <2>1 DEF Somewhere
  <2> QED BY <2>2 DEF q
<1>5. ASSUME NEW el
      PROVE  Inner(place, el) = Somewhere(files, el.kids, IF IsScope(el) THEN el.id ELSE scope)
  <2> DEFINE q == Inner(place, el)
             c == IF IsScope(el) THEN el.id ELSE scope
  <2>1. /\ DOMAIN q = {"files", "text", "scope"} /\ q = [x \in DOMAIN q |-> q[x]]
        /\ q.files = files /\ q.text = el.kids /\ q.scope = c
    BY <1>1 DEF Inner
  <2> HIDE DEF q, c
  <2>2. q = Somewhere(files, el.kids, c)
    BY <2>1 DEF Somewhere
  <2> QED BY <2>2 DEF q, c
<1>6. ASSUME NEW el PROVE Outer(s, place, el) = Somewhere(files \cup {el.of}, s.at[el.of], scope)
  <2> DEFINE q == Outer(s, place, el)
             a == files \cup {el.of}
  <2>1. /\ DOMAIN q = {"files", "text", "scope"} /\ q = [x \in DOMAIN q |-> q[x]]
        /\ q.files = a /\ q.text = s.at[el.of] /\ q.scope = scope
    BY <1>1 DEF Outer
  <2> HIDE DEF q, a
  <2>2. q = Somewhere(a, s.at[el.of], scope)
    BY <2>1 DEF Somewhere
  <2> QED BY <2>2 DEF q, a
<1> QED BY <1>1, <1>2, <1>4, <1>5, <1>6 DEF Stands

LEMMA ContentCons ==
    ASSUME NEW s \in Skins, NEW place \in Passage(s), place.text # <<>>
    PROVE  /\ Further(place) \in Passage(s)
           /\ Content(s)[place]
              = Followed(PartOf(s, Content(s), place, place.text[1]), Content(s)[Further(place)])
<1> DEFINE c == Content(s)
           next == Further(place)
           parts == [i \in DOMAIN place.text |-> PartOf(s, c, place, place.text[i])]
           rest == [i \in DOMAIN next.text |-> PartOf(s, c, next, next.text[i])]
           n == Len(place.text) - 1
<1>1. place.text \in Text /\ place.files \in SUBSET DOMAIN s.at /\ place.scope \in Scope
  BY DEF Passage
<1>2. /\ n \in Nat /\ DOMAIN place.text = 1 .. n + 1
      /\ Tail(place.text) \in Text /\ DOMAIN Tail(place.text) = 1 .. n
      /\ \A i \in 1 .. n : Tail(place.text)[i] = place.text[i + 1]
  <2> DEFINE t == place.text
             E == Nested[Nesting]
  <2>1. t \in Seq(E) /\ t # <<>>
    BY <1>1 DEF Text
  <2> HIDE DEF t, E
  <2>2. Len(t) \in Nat /\ Len(t) >= 1 /\ DOMAIN t = 1 .. Len(t)
    BY <2>1
  <2>3. Tail(t) \in Seq(E) /\ Len(Tail(t)) = Len(t) - 1
    BY <2>1, <2>2
  <2>4. \A i \in 1 .. Len(t) - 1 : Tail(t)[i] = t[i + 1]
    BY <2>1, <2>2
  <2>5. DOMAIN Tail(t) = 1 .. Len(t) - 1
    BY <2>3
  <2>6. Tail(t) \in Text
    BY <2>3 DEF Text, E
  <2> QED BY <2>2, <2>4, <2>5, <2>6 DEF t
<1>3. /\ next = Somewhere(place.files, Tail(place.text), place.scope)
      /\ next \in Passage(s)
  <2>1. place = Somewhere(place.files, place.text, place.scope)
    BY DEF Passage, Somewhere
  <2>2. Stands(s, place, place.files, place.text, place.scope)
    BY <2>1, Places
  <2>3. next = Somewhere(place.files, Tail(place.text), place.scope)
    BY <2>2 DEF Stands
  <2> HIDE DEF next
  <2>4. Stands(s, next, place.files, Tail(place.text), place.scope)
    BY <2>3, Places
  <2>5. next \in Passage(s)
    BY <1>1, <1>2, <2>4 DEF Stands
  <2> QED BY <2>3, <2>5
<1>4. /\ next.files = place.files /\ next.text = Tail(place.text) /\ next.scope = place.scope
      /\ \A el : Inner(next, el) = Inner(place, el) /\ Outer(s, next, el) = Outer(s, place, el)
  <2> HIDE DEF next
  <2>1. place = Somewhere(place.files, place.text, place.scope)
    BY DEF Passage, Somewhere
  <2>2. Stands(s, place, place.files, place.text, place.scope)
    BY <2>1, Places
  <2>3. Stands(s, next, place.files, Tail(place.text), place.scope)
    BY <1>3, Places
  <2> QED BY <2>2, <2>3 DEF Stands
<1>5. \A el : PartOf(s, c, next, el) = PartOf(s, c, place, el)
  <2> HIDE DEF next, c
  <2> QED BY <1>4 DEF PartOf, Inner, Outer
<1>6. c[place] = Joined(parts) /\ c[next] = Joined(rest)
  <2> HIDE DEF next
  <2> QED BY <1>3, ContentUnfolds DEF Unfolds
<1>7. /\ DOMAIN parts = 1 .. n + 1 /\ DOMAIN rest = 1 .. n
      /\ \A i \in 1 .. n : rest[i] = parts[i + 1]
  <2> HIDE DEF next, c
  <2> QED BY <1>2, <1>4, <1>5
<1>8. Joined(parts) = Followed(parts[1], Joined(rest))
  <2> HIDE DEF parts, rest, n
  <2> QED BY <1>2, <1>7, JoinedCons
<1>9. parts[1] = PartOf(s, c, place, place.text[1])
  BY <1>2
<1> QED BY <1>3, <1>6, <1>8, <1>9


-----------------------------------------------------------------------------
(* Elements on the stack.                                                        *)
WithKids(el, kids) == [el EXCEPT !.kids = kids]

IsElement(el) ==
    /\ el = [x \in DOMAIN el |-> el[x]] /\ DOMAIN el = DOMAIN Bare("error")
    /\ IsList(el.kids) /\ el.id \in Scope

LEMMA Rekids ==
    ASSUME NEW el, DOMAIN el = DOMAIN Bare("error"), NEW kids
    PROVE  /\ LET new == WithKids(el, kids)
              IN  /\ new.kids = kids /\ new.tag = el.tag /\ new.id = el.id /\ new.of = el.of
                  /\ \A others : WithKids(new, others) = WithKids(el, others)
                  /\ IsList(kids) /\ el.id \in Scope => IsElement(new)
                  /\ IsScope(new) = IsScope(el)
                  /\ \A owner : Noted(new, owner) = Noted(el, owner)
           /\ IsElement(el) => WithKids(el, el.kids) = el
<1> DEFINE new == WithKids(el, kids)
<1>1. /\ DOMAIN el = DOMAIN new /\ new = [x \in DOMAIN new |-> new[x]]
      /\ new["kids"] = kids /\ \A x \in DOMAIN el \ {"kids"} : new[x] = el[x]
      /\ "tag" \in DOMAIN el /\ "id" \in DOMAIN el /\ "of" \in DOMAIN el
  BY DEF WithKids, Bare
<1>2. new.kids = kids /\ new.tag = el.tag /\ new.id = el.id /\ new.of = el.of
  <2> HIDE DEF new
  <2> QED BY <1>1
<1>3. ASSUME NEW others PROVE WithKids(new, others) = WithKids(el, others)
  <2> HIDE DEF new
  <2> QED BY <1>1 DEF WithKids
<1>4. IsList(kids) /\ el.id \in Scope => IsElement(new)
  <2> HIDE DEF new
  <2> QED BY <1>1, <1>2 DEF IsElement
<1>5. IsScope(new) = IsScope(el) /\ \A owner : Noted(new, owner) = Noted(el, owner)
  <2> HIDE DEF new
  <2> QED BY <1>2 DEF IsScope, Noted
<1>6. ASSUME IsElement(el) PROVE WithKids(el, el.kids) = el
  BY <1>6 DEF IsElement, WithKids
<1> QED BY <1>2, <1>3, <1>4, <1>5, <1>6

(* Those of a file keep their names; a scope is no script.                       *)
LEMMA ElementFacts ==
    ASSUME NEW el \in Nested[Nesting]
    PROVE  el.kids \in Text /\ el.id \in Scope /\ DOMAIN el = DOMAIN Bare("error")
<1>0. Nesting \in Nat /\ Nested[0] = {}
  BY SkinsAssumption
<1>1. Nesting \in 1 .. Nesting /\ Nesting - 1 \in 0 .. Nesting
  BY <1>0
<1>2. el.kids \in Seq(Nested[Nesting - 1]) /\ DOMAIN el = DOMAIN Bare("error")
  BY <1>1, SkinsAssumption
<1>3. Nested[Nesting - 1] \subseteq Nested[Nesting]
  BY <1>1, Levels
<1>4. el.kids \in Text
  BY <1>2, <1>3, SeqMonotonic DEF Text
<1> QED BY <1>2, <1>4 DEF Scope

LEMMA KeptFacts ==
    ASSUME NEW el \in Nested[Nesting]
    PROVE  /\ DOMAIN Canonised(el) = DOMAIN Bare("error")
           /\ Canonised(el).id = el.id /\ Canonised(el).tag = canonicalTag(el.tag)
           /\ IsScope(Canonised(el)) = IsScope(el)
           /\ \A kids : Kept(el, kids) = WithKids(Canonised(el), kids)
           /\ \A owner : IsScope(el) => Noted(Canonised(el), owner) = <<>>
<1>1. DOMAIN el = DOMAIN Bare("error") /\ "tag" \in DOMAIN el /\ "value" \in DOMAIN el /\ "id" \in DOMAIN el
  BY ElementFacts DEF Bare
<1>2. /\ DOMAIN Canonised(el) = DOMAIN Bare("error")
      /\ Canonised(el).id = el.id /\ Canonised(el).tag = canonicalTag(el.tag)
  BY <1>1 DEF Canonised
<1>3. /\ el.tag \in {"groupdef", "group", "container", "layout"} => canonicalTag(el.tag) = el.tag
      /\ canonicalTag(el.tag) \in {"groupdef", "group", "container", "layout"} => canonicalTag(el.tag) = el.tag
  BY DEF canonicalTag
<1>4. IsScope(Canonised(el)) = IsScope(el)
  BY <1>2, <1>3 DEF IsScope
<1>5. \A owner : IsScope(el) => Noted(Canonised(el), owner) = <<>>
  BY <1>2, <1>3 DEF IsScope, Noted
<1> QED BY <1>2, <1>4, <1>5 DEF Kept, WithKids

-----------------------------------------------------------------------------
(* What the parser has around it when it is in an entry of its stack: the files  *)
(* and the scopes it has entered.                                                *)
Entered(e, a) ==
    IF IsFile(e) THEN [files |-> Append(a.files, e.path), scopes |-> a.scopes]
    ELSE [files |-> a.files, scopes |-> IF IsScope(e.el) THEN Append(a.scopes, e.el.id) ELSE a.scopes]

Around(s, a) == a \in [files : Seq(DOMAIN s.at), scopes : Seq(Scope)]
Owner(a) == IF a.scopes = <<>> THEN None ELSE Last(a.scopes)
PlaceOf(a, text) == Somewhere(ToSet(a.files), text, Owner(a))

LEMMA PlaceOfFacts ==
    ASSUME NEW s, NEW a, Around(s, a), NEW text \in Text
    PROVE  /\ PlaceOf(a, text) \in Passage(s) /\ PlaceOf(a, text).text = text
           /\ PlaceOf(a, text).files = ToSet(a.files) /\ PlaceOf(a, text).scope = Owner(a)
           /\ Stands(s, PlaceOf(a, text), ToSet(a.files), text, Owner(a))
<1>1. ToSet(a.files) \subseteq DOMAIN s.at
  BY DEF Around, ToSet
<1>2. Owner(a) \in Scope
  <2>1. a.scopes \in Seq(Scope)
    BY DEF Around
  <2>2. CASE a.scopes = <<>>
    BY <2>2 DEF Owner, Scope
  <2>3. CASE a.scopes # <<>>
    <3>1. Last(a.scopes) \in Scope
      <4> DEFINE q == a.scopes
      <4> HIDE DEF q
      <4>1. q \in Seq(Scope) /\ q # <<>> => q[Len(q)] \in Scope
        OBVIOUS
      <4> QED BY <2>1, <2>3, <4>1 DEF q, Last
    <3> QED BY <2>3, <3>1 DEF Owner
  <2> QED BY <2>2, <2>3
<1>3. Stands(s, PlaceOf(a, text), ToSet(a.files), text, Owner(a))
  BY Places DEF PlaceOf
<1> QED BY <1>1, <1>2, <1>3 DEF Stands

(* Entries are files or elements.                                                *)
Entry(s, e) ==
    /\ e = [el |-> e.el, path |-> e.path, rest |-> e.rest] /\ e.rest \in Text
    /\ IsFile(e) => e.path \in DOMAIN s.at
    /\ ~IsFile(e) => IsElement(e.el)

(* The text that comes next in an entry, after what has come up to it; and what  *)
(* the entry comes to with that.                                                 *)
ToCome(s, e, a, up) == IF up.broken THEN Break ELSE Content(s)[PlaceOf(a, e.rest)]

Close(e, owner, up, next) ==
    IF IsFile(e)
    THEN [els |-> up.els \o next.els, refs |-> up.refs \o next.refs, broken |-> FALSE]
    ELSE [els |-> <<WithKids(e.el, e.el.kids \o (up.els \o next.els))>>,
          refs |-> (up.refs \o next.refs) \o Noted(e.el, owner), broken |-> next.broken]

Closed(s, e, a, up) == Close(e, Owner(a), up, ToCome(s, e, a, up))

LEMMA CloseGood ==
    ASSUME NEW s, NEW e, Entry(s, e), NEW owner, NEW up, Good(up), NEW next, Good(next)
    PROVE  Good(Close(e, owner, up, next))
<1>1. IsList(up.els \o next.els) /\ IsList(up.refs \o next.refs)
  BY Concats DEF Good
<1>2. IsList(<<>>) /\ \A x : IsList(<<x>>)
  <2>1. ASSUME NEW x PROVE <<>> \in Seq({x}) /\ <<x>> \in Seq({x})
    OBVIOUS
  <2> QED BY <2>1, Itself
<1>3. IsList((up.refs \o next.refs) \o Noted(e.el, owner))
  <2>1. IsList(Noted(e.el, owner))
    BY <1>2 DEF Noted
  <2> QED BY <1>1, <2>1, Concats
<1> QED BY <1>1, <1>2, <1>3 DEF Close, Good

LEMMA ToComeGood ==
    ASSUME NEW s \in Skins, NEW e, Entry(s, e), NEW a, Around(s, a), NEW up, Good(up)
    PROVE  Good(ToCome(s, e, a, up)) /\ Good(Closed(s, e, a, up))
<1>1. PlaceOf(a, e.rest) \in Passage(s)
  BY PlaceOfFacts DEF Entry
<1>2. Good(Content(s)[PlaceOf(a, e.rest)])
  BY <1>1, ContentGood
<1>3. Good(ToCome(s, e, a, up))
  BY <1>2, GoodOnes DEF ToCome
<1> QED BY <1>3, CloseGood DEF Closed

(* What has come up to an entry may be counted to what comes next in it.         *)
Up(r) == [els |-> <<>>, refs |-> r, broken |-> FALSE]
Came(r, part) == [els |-> part.els, refs |-> r \o part.refs, broken |-> part.broken]

LEMMA Absorbed ==
    ASSUME NEW s, NEW e, Entry(s, e), NEW owner, NEW r, IsList(r),
           NEW part, Good(part), NEW next, Good(next)
    PROVE  Close(e, owner, Came(r, part), IF part.broken THEN Break ELSE next)
           = Close(e, owner, Up(r), Followed(part, next))
<1> DEFINE came == Came(r, part)
           left == IF part.broken THEN Break ELSE next
           all == Followed(part, next)
<1>1. /\ came.els = part.els /\ came.refs = r \o part.refs
      /\ Up(r).els = <<>> /\ Up(r).refs = r
  BY DEF Came, Up
<1>2. IsList(<<>>) /\ IsList(part.els) /\ IsList(part.refs) /\ IsList(next.els) /\ IsList(next.refs)
  BY GoodOnes DEF Good, Nothing
<1>3. Good(all)
  BY GoodOnes
<1>4. came.els \o left.els = Up(r).els \o all.els
  <2>1. CASE part.broken
    <3>1. left.els = <<>> /\ all.els = part.els
      BY <2>1 DEF Break, Followed
    <3>2. part.els \o <<>> = part.els /\ <<>> \o part.els = part.els
      BY <1>2, Concats
    <3> QED BY <1>1, <3>1, <3>2
  <2>2. CASE ~part.broken
    <3>1. left = next /\ all.els = part.els \o next.els
      BY <2>2 DEF Followed
    <3>2. IsList(part.els \o next.els)
      BY <1>2, Concats
    <3>3. <<>> \o (part.els \o next.els) = part.els \o next.els
      BY <1>2, <3>2, Concats
    <3> QED BY <1>1, <3>1, <3>3
  <2> QED BY <2>1, <2>2
<1>5. came.refs \o left.refs = Up(r).refs \o all.refs
  <2>1. CASE part.broken
    <3>1. left.refs = <<>> /\ all.refs = part.refs
      BY <2>1 DEF Break, Followed
    <3>2. IsList(r \o part.refs)
      BY <1>2, Concats
    <3>3. (r \o part.refs) \o <<>> = r \o part.refs
      BY <1>2, <3>2, Concats
    <3> QED BY <1>1, <3>1, <3>3
  <2>2. CASE ~part.broken
    <3>1. left = next /\ all.refs = part.refs \o next.refs
      BY <2>2 DEF Followed
    <3>2. (r \o part.refs) \o next.refs = r \o (part.refs \o next.refs)
      <4> DEFINE p == part.refs
                 n == next.refs
      <4>1. IsList(p) /\ IsList(n)
        BY <1>2
      <4> HIDE DEF p, n
      <4>2. (r \o p) \o n = r \o (p \o n)
        BY <4>1, Concats
      <4> QED BY <4>2 DEF p, n
    <3> QED BY <1>1, <3>1, <3>2
  <2> QED BY <2>1, <2>2
<1>6. left.broken = all.broken
  BY DEF Break, Followed, Good
<1> HIDE DEF came, left, all
<1>7. Close(e, owner, came, left) = Close(e, owner, Up(r), all)
  BY <1>4, <1>5, <1>6 DEF Close
<1> QED BY <1>7 DEF came, left, all


-----------------------------------------------------------------------------
(* What the stack still comes to: what has come up from below goes into an entry, *)
(* with what comes next there, and so on until the root is what the files are.   *)
Outermost == [files |-> <<>>, scopes |-> <<>>]

Linked(s, e, a, up, a1, up1) == a = Entered(e, a1) /\ up1 = Closed(s, e, a, up)

Result(s) ==
    LET whole == Content(s)[Whole(s)]
    IN  [els |-> <<WithKids(Bare("wasabixml"), whole.els)>>, refs |-> whole.refs, broken |-> FALSE]

Chain(s, st, g) ==
    /\ \A i \in 0 .. Len(st) : Around(s, g[i].around) /\ Good(g[i].up)
    /\ \A i \in 1 .. Len(st) :
          Linked(s, st[i], g[i - 1].around, g[i - 1].up, g[i].around, g[i].up)
    /\ g[Len(st)].around = Outermost /\ g[Len(st)].up = Result(s)

Owed(s, st, a, up) == \E g : Chain(s, st, g) /\ g[0].around = a /\ g[0].up = up

LEMMA OwedTypes ==
    ASSUME NEW s, NEW st, IsList(st), NEW a, NEW up, Owed(s, st, a, up)
    PROVE  Around(s, a) /\ Good(up)
<1>1. PICK g : Chain(s, st, g) /\ g[0].around = a /\ g[0].up = up
  BY DEF Owed
<1>2. 0 \in 0 .. Len(st)
  <2> DEFINE T == {st[i] : i \in DOMAIN st}
  <2>1. st \in Seq(T)
    BY DEF IsList
  <2> HIDE DEF T
  <2> QED BY <2>1
<1> QED BY <1>1, <1>2 DEF Chain

LEMMA OwedPush ==
    ASSUME NEW s, NEW st, IsList(st), NEW e, NEW a, NEW up, Around(s, a), Good(up),
           NEW a1, NEW up1, Owed(s, st, a1, up1), Linked(s, e, a, up, a1, up1)
    PROVE  Owed(s, Pushed(e, st), a, up)
<1>1. PICK g : Chain(s, st, g) /\ g[0].around = a1 /\ g[0].up = up1
  BY DEF Owed
<1> DEFINE n == Len(st)
           new == Pushed(e, st)
           low == [around |-> a, up |-> up]
           h == [i \in 0 .. n + 1 |-> IF i = 0 THEN low ELSE g[i - 1]]
<1>2. /\ n \in Nat /\ Len(new) = n + 1 /\ new[1] = e
      /\ \A i \in 2 .. n + 1 : new[i] = st[i - 1]
  BY PushedFacts
<1>3. /\ low.around = a /\ low.up = up
      /\ h[0] = low /\ \A i \in 1 .. n + 1 : h[i] = g[i - 1]
  <2> HIDE DEF low
  <2>1. h[0] = low /\ \A i \in 1 .. n + 1 : h[i] = g[i - 1]
    BY <1>2
  <2> QED BY <2>1 DEF low
<1> HIDE DEF new, low, h
<1>4. ASSUME NEW i \in 0 .. n + 1 PROVE Around(s, h[i].around) /\ Good(h[i].up)
  <2>1. CASE i = 0
    BY <1>3, <2>1
  <2>2. CASE i # 0
    <3>1. h[i] = g[i - 1] /\ i - 1 \in 0 .. n
      BY <1>2, <1>3, <2>2
    <3> QED BY <1>1, <3>1 DEF Chain
  <2> QED BY <2>1, <2>2
<1>5. ASSUME NEW i \in 1 .. n + 1
      PROVE  Linked(s, new[i], h[i - 1].around, h[i - 1].up, h[i].around, h[i].up)
  <2>1. CASE i = 1
    <3>1. h[i] = g[0] /\ h[i - 1] = low /\ new[i] = e
      BY <1>2, <1>3, <2>1
    <3> QED BY <1>1, <1>3, <3>1
  <2>2. CASE i # 1
    <3>1. i - 1 \in 1 .. n /\ i \in 2 .. n + 1
      BY <1>2, <2>2
    <3>2. h[i] = g[i - 1] /\ h[i - 1] = g[(i - 1) - 1] /\ new[i] = st[i - 1]
      BY <1>2, <1>3, <3>1
    <3>3. Linked(s, st[i - 1], g[(i - 1) - 1].around, g[(i - 1) - 1].up, g[i - 1].around, g[i - 1].up)
      BY <1>1, <3>1 DEF Chain
    <3> QED BY <3>2, <3>3
  <2> QED BY <2>1, <2>2
<1>6. h[n + 1] = g[n]
  BY <1>2, <1>3
<1>7. Chain(s, new, h)
  <2>1. g[n].around = Outermost /\ g[n].up = Result(s)
    BY <1>1 DEF Chain
  <2> QED BY <1>2, <1>4, <1>5, <1>6, <2>1 DEF Chain
<1> QED BY <1>3, <1>7 DEF Owed, new

LEMMA OwedPop ==
    ASSUME NEW s, NEW st, IsList(st), NEW e, NEW a, NEW up, Owed(s, Pushed(e, st), a, up)
    PROVE  /\ Around(s, a) /\ Good(up)
           /\ \E a1, up1 : Linked(s, e, a, up, a1, up1) /\ Owed(s, st, a1, up1)
                           /\ Around(s, a1) /\ Good(up1)
<1> DEFINE n == Len(st)
           old == Pushed(e, st)
<1>1. PICK g : Chain(s, old, g) /\ g[0].around = a /\ g[0].up = up
  BY DEF Owed
<1>2. /\ n \in Nat /\ Len(old) = n + 1 /\ old[1] = e
      /\ \A i \in 2 .. n + 1 : old[i] = st[i - 1]
  BY PushedFacts
<1> DEFINE h == [i \in 0 .. n |-> g[i + 1]]
<1>3. \A i \in 0 .. n : h[i] = g[i + 1]
  OBVIOUS
<1> HIDE DEF old, h
<1>4. ASSUME NEW i \in 0 .. n PROVE Around(s, h[i].around) /\ Good(h[i].up)
  <2>1. i + 1 \in 0 .. n + 1
    BY <1>2
  <2> QED BY <1>1, <1>2, <1>3, <2>1 DEF Chain
<1>5. ASSUME NEW i \in 1 .. n
      PROVE  Linked(s, st[i], h[i - 1].around, h[i - 1].up, h[i].around, h[i].up)
  <2>1. /\ i + 1 \in 1 .. n + 1 /\ (i + 1) - 1 = i /\ i + 1 \in 2 .. n + 1
        /\ i \in 0 .. n /\ i - 1 \in 0 .. n /\ (i - 1) + 1 = i
    BY <1>2
  <2>2. h[i] = g[i + 1] /\ h[i - 1] = g[i]
    <3>1. h[i - 1] = g[(i - 1) + 1]
      BY <1>3, <2>1
    <3> QED BY <1>3, <2>1, <3>1
  <2>4. old[i + 1] = st[i]
    BY <1>2, <2>1
  <2>3. Linked(s, old[i + 1], g[i].around, g[i].up, g[i + 1].around, g[i + 1].up)
    BY <1>1, <1>2, <2>1 DEF Chain
  <2> QED BY <2>2, <2>3, <2>4
<1>6. h[n] = g[n + 1] /\ h[0] = g[1]
  BY <1>2, <1>3
<1>7. Chain(s, st, h)
  <2>1. g[n + 1].around = Outermost /\ g[n + 1].up = Result(s)
    BY <1>1, <1>2 DEF Chain
  <2> QED BY <1>2, <1>4, <1>5, <1>6, <2>1 DEF Chain
<1>8. Owed(s, st, g[1].around, g[1].up)
  BY <1>6, <1>7 DEF Owed
<1>9. Linked(s, e, a, up, g[1].around, g[1].up)
  <2>1. 1 \in 1 .. n + 1 /\ 1 - 1 = 0
    BY <1>2
  <2>2. Linked(s, old[1], g[1 - 1].around, g[1 - 1].up, g[1].around, g[1].up)
    BY <1>1, <1>2, <2>1 DEF Chain
  <2> QED BY <1>1, <1>2, <2>1, <2>2
<1>10. /\ Around(s, a) /\ Good(up) /\ Around(s, g[1].around) /\ Good(g[1].up)
  <2>1. 0 \in 0 .. n + 1 /\ 1 \in 0 .. n + 1
    BY <1>2
  <2> QED BY <1>1, <1>2, <2>1 DEF Chain
<1> QED BY <1>8, <1>9, <1>10

-----------------------------------------------------------------------------
(* The steps at the top of the stack.                                            *)
Passed(e) == [el |-> e.el, path |-> e.path, rest |-> Tail(e.rest)]

(* What is left of an entry after its first element, and what that comes to.     *)
PartHere(s, e, a) == PartOf(s, Content(s), PlaceOf(a, e.rest), e.rest[1])

LEMMA TagFacts ==
    ASSUME NEW s \in Skins, NEW e, Entry(s, e), e.rest # <<>>, NEW a, Around(s, a)
    PROVE  /\ e.rest[1] \in Nested[Nesting]
           /\ Entry(s, Passed(e)) /\ IsFile(Passed(e)) = IsFile(e)
           /\ \A a1 : Entered(Passed(e), a1) = Entered(e, a1)
           /\ \A owner, up, next : Close(Passed(e), owner, up, next) = Close(e, owner, up, next)
           /\ Content(s)[PlaceOf(a, e.rest)]
              = Followed(PartHere(s, e, a), Content(s)[PlaceOf(a, Passed(e).rest)])
<1>1. e.rest \in Text
  BY DEF Entry
<1>2. e.rest[1] \in Nested[Nesting] /\ Tail(e.rest) \in Text
  <2> DEFINE t == e.rest
             E == Nested[Nesting]
  <2>1. t \in Seq(E) /\ t # <<>>
    BY <1>1 DEF Text
  <2> HIDE DEF t, E
  <2>2. t[1] \in E /\ Tail(t) \in Seq(E)
    BY <2>1
  <2> QED BY <2>2 DEF t, E, Text
<1>3. Passed(e).el = e.el /\ Passed(e).path = e.path /\ Passed(e).rest = Tail(e.rest)
  BY DEF Passed
<1>4. IsFile(Passed(e)) = IsFile(e)
  BY <1>3 DEF IsFile
<1>5. Entry(s, Passed(e))
  <2>1. Passed(e) = [el |-> Passed(e).el, path |-> Passed(e).path, rest |-> Passed(e).rest]
    BY DEF Passed
  <2> QED BY <1>2, <1>3, <1>4, <2>1 DEF Entry
<1>6. \A a1 : Entered(Passed(e), a1) = Entered(e, a1)
  BY <1>3, <1>4 DEF Entered
<1>7. \A owner, up, next : Close(Passed(e), owner, up, next) = Close(e, owner, up, next)
  BY <1>3, <1>4 DEF Close
<1>8. Content(s)[PlaceOf(a, e.rest)]
      = Followed(PartHere(s, e, a), Content(s)[PlaceOf(a, Passed(e).rest)])
  <2> DEFINE p == PlaceOf(a, e.rest)
  <2>1. p \in Passage(s) /\ p.text = e.rest /\ Stands(s, p, ToSet(a.files), e.rest, Owner(a))
    BY <1>1, PlaceOfFacts
  <2>2. Further(p) = PlaceOf(a, Tail(e.rest))
    BY <2>1 DEF Stands, PlaceOf
  <2> HIDE DEF p
  <2>3. Content(s)[p] = Followed(PartOf(s, Content(s), p, p.text[1]), Content(s)[Further(p)])
    BY <2>1, ContentCons
  <2> QED BY <1>3, <2>1, <2>2, <2>3 DEF PartHere, p
<1> QED BY <1>2, <1>4, <1>5, <1>6, <1>7, <1>8

(* When what has come of the first element comes up, the entry owes what is left. *)
LEMMA OwedPast ==
    ASSUME NEW s \in Skins, NEW e, Entry(s, e), e.rest # <<>>, NEW t, IsList(t),
           NEW a, NEW r, Owed(s, Pushed(e, t), a, Up(r)), Good(PartHere(s, e, a))
    PROVE  Owed(s, Pushed(Passed(e), t), a, Came(r, PartHere(s, e, a)))
<1> DEFINE part == PartHere(s, e, a)
           came == Came(r, part)
           next == Content(s)[PlaceOf(a, Passed(e).rest)]
<1>1. /\ Around(s, a) /\ Good(Up(r))
      /\ \E a1, up1 : /\ Linked(s, e, a, Up(r), a1, up1)
                      /\ Owed(s, t, a1, up1) /\ Around(s, a1) /\ Good(up1)
  BY OwedPop
<1>2. PICK a1, up1 : Linked(s, e, a, Up(r), a1, up1) /\ Owed(s, t, a1, up1)
  BY <1>1
<1>3. IsList(r) /\ Up(r).broken = FALSE
  BY <1>1 DEF Good, Up
<1>4. Good(next)
  <2>1. Entry(s, Passed(e))
    BY <1>1, TagFacts
  <2>2. PlaceOf(a, Passed(e).rest) \in Passage(s)
    BY <1>1, <2>1, PlaceOfFacts DEF Entry
  <2> QED BY <2>2, ContentGood
<1>5. Closed(s, e, a, Up(r)) = Close(e, Owner(a), Up(r), Followed(part, next))
  <2>1. Content(s)[PlaceOf(a, e.rest)] = Followed(part, next)
    BY <1>1, TagFacts
  <2> HIDE DEF part, next
  <2> QED BY <1>3, <2>1 DEF Closed, ToCome
<1>6. came.broken = part.broken
  BY DEF Came
<1>7. Closed(s, Passed(e), a, came)
      = Close(e, Owner(a), came, IF part.broken THEN Break ELSE next)
  <2>1. ToCome(s, Passed(e), a, came) = IF part.broken THEN Break ELSE next
    <3> HIDE DEF came, part
    <3> QED BY <1>6 DEF ToCome
  <2> HIDE DEF came, part, next
  <2> QED BY <1>1, <2>1, TagFacts DEF Closed
<1>8. Closed(s, Passed(e), a, came) = Closed(s, e, a, Up(r))
  <2> HIDE DEF part, next
  <2> QED BY <1>3, <1>4, <1>5, <1>7, Absorbed DEF part
<1>9. Good(came)
  <2>1. IsList(r \o part.refs)
    <3> HIDE DEF part
    <3>1. IsList(part.refs)
      BY DEF Good, part
    <3> QED BY <1>3, <3>1, Concats
  <2> QED BY <2>1 DEF Good, Came
<1>10. Linked(s, Passed(e), a, came, a1, up1)
  <2> HIDE DEF came
  <2> QED BY <1>1, <1>2, <1>8, TagFacts DEF Linked
<1> HIDE DEF came
<1>11. Owed(s, Pushed(Passed(e), t), a, came)
  BY <1>1, <1>2, <1>9, <1>10, OwedPush
<1> QED BY <1>11 DEF came


(* Entering and leaving are exact.                                               *)
Files(e, a) == IF IsFile(e) THEN ToSet(a.files) \cup {e.path} ELSE ToSet(a.files)
ScopeIn(e, a) == IF ~IsFile(e) /\ IsScope(e.el) THEN e.el.id ELSE Owner(a)
Left(e, a) ==
    IF IsFile(e) THEN [files |-> Front(a.files), scopes |-> a.scopes]
    ELSE [files |-> a.files, scopes |-> IF IsScope(e.el) THEN Front(a.scopes) ELSE a.scopes]

LEMMA EnteredFacts ==
    ASSUME NEW s, NEW e, Entry(s, e), NEW a, Around(s, a)
    PROVE  /\ Around(s, Entered(e, a)) /\ ToSet(Entered(e, a).files) = Files(e, a)
           /\ Owner(Entered(e, a)) = ScopeIn(e, a) /\ Left(e, Entered(e, a)) = a
<1>1. /\ a = [files |-> a.files, scopes |-> a.scopes]
      /\ a.files \in Seq(DOMAIN s.at) /\ a.scopes \in Seq(Scope)
  BY DEF Around
<1>2. ASSUME NEW T, NEW q \in Seq(T), NEW x \in T
      PROVE  /\ Append(q, x) \in Seq(T) /\ Append(q, x) # <<>>
             /\ ToSet(Append(q, x)) = ToSet(q) \cup {x}
             /\ Last(Append(q, x)) = x /\ Front(Append(q, x)) = q
  <2> DEFINE u == Append(q, x)
  <2>1. /\ u \in Seq(T) /\ Len(q) \in Nat /\ Len(u) = Len(q) + 1
        /\ DOMAIN q = 1 .. Len(q) /\ DOMAIN u = 1 .. Len(q) + 1
        /\ u[Len(q) + 1] = x /\ \A i \in 1 .. Len(q) : u[i] = q[i]
    OBVIOUS
  <2> HIDE DEF u
  <2>2. u # <<>> /\ Last(u) = x
    BY <2>1 DEF Last
  <2>3. ToSet(u) = ToSet(q) \cup {x}
    <3>1. ToSet(u) \subseteq ToSet(q) \cup {x}
      BY <2>1 DEF ToSet
    <3>2. ToSet(q) \subseteq ToSet(u)
      BY <2>1 DEF ToSet
    <3>3. x \in ToSet(u)
      <4>1. Len(q) + 1 \in DOMAIN u
        BY <2>1
      <4> QED BY <2>1, <4>1 DEF ToSet
    <3> QED BY <3>1, <3>2, <3>3
  <2>4. Front(u) = q
    <3>1. Len(u) - 1 = Len(q)
      BY <2>1
    <3>2. Front(u) = SubSeq(u, 1, Len(q))
      BY <3>1 DEF Front
    <3>3. /\ SubSeq(u, 1, Len(q)) \in Seq(T) /\ Len(SubSeq(u, 1, Len(q))) = Len(q)
          /\ \A i \in 1 .. Len(q) : SubSeq(u, 1, Len(q))[i] = u[i]
      BY <2>1
    <3> DEFINE f == SubSeq(u, 1, Len(q))
    <3> HIDE DEF f
    <3>4. f = q
      BY <2>1, <3>3 DEF f
    <3> QED BY <3>2, <3>4 DEF f
  <2> QED BY <2>1, <2>2, <2>3, <2>4 DEF u
<1>3. CASE IsFile(e)
  <2>1. e.path \in DOMAIN s.at
    BY <1>3 DEF Entry
  <2>2. Entered(e, a).files = Append(a.files, e.path) /\ Entered(e, a).scopes = a.scopes
    BY <1>3 DEF Entered
  <2>3. Append(a.files, e.path) \in Seq(DOMAIN s.at)
        /\ ToSet(Append(a.files, e.path)) = ToSet(a.files) \cup {e.path}
        /\ Front(Append(a.files, e.path)) = a.files
    <3> DEFINE T == DOMAIN s.at
               q == a.files
               x == e.path
    <3>1. q \in Seq(T) /\ x \in T
      BY <1>1, <2>1
    <3> HIDE DEF T, q, x
    <3>2. Append(q, x) \in Seq(T) /\ ToSet(Append(q, x)) = ToSet(q) \cup {x} /\ Front(Append(q, x)) = q
      BY <1>2, <3>1
    <3> QED BY <3>2 DEF T, q, x
  <2>4. Around(s, Entered(e, a))
    BY <1>1, <1>3, <2>3 DEF Entered, Around
  <2> QED BY <1>1, <1>3, <2>2, <2>3, <2>4 DEF Owner, Files, ScopeIn, Left
<1>4. CASE ~IsFile(e) /\ IsScope(e.el)
  <2>1. e.el.id \in Scope
    BY <1>4 DEF Entry, IsElement
  <2>2. Entered(e, a).files = a.files /\ Entered(e, a).scopes = Append(a.scopes, e.el.id)
    BY <1>4 DEF Entered
  <2> DEFINE u == Append(a.scopes, e.el.id)
  <2>3. u \in Seq(Scope) /\ u # <<>> /\ Last(u) = e.el.id /\ Front(u) = a.scopes
    BY <1>1, <1>2, <2>1
  <2> HIDE DEF u
  <2>4. Around(s, Entered(e, a))
    BY <1>1, <1>4, <2>3 DEF Entered, Around, u
  <2> QED BY <1>1, <1>4, <2>2, <2>3, <2>4 DEF Owner, Files, ScopeIn, Left, u
<1>5. CASE ~IsFile(e) /\ ~IsScope(e.el)
  <2>1. Entered(e, a) = a
    BY <1>1, <1>5 DEF Entered
  <2> QED BY <1>1, <1>5, <2>1 DEF Files, ScopeIn, Left
<1> QED BY <1>3, <1>4, <1>5

(* A start tag.                                                                  *)
LEMMA OwedElement ==
    ASSUME NEW s \in Skins, NEW e, Entry(s, e), e.rest # <<>>, NEW t, IsList(t),
           e.rest[1].tag \notin {"include", "error"},
           NEW a, NEW r, Owed(s, Pushed(e, t), a, Up(r)),
           NEW new, new = ElementEntry(Kept(e.rest[1], <<>>), e.rest[1].kids)
    PROVE  /\ Entry(s, new) /\ ~IsFile(new)
           /\ Owed(s, Pushed(new, Pushed(Passed(e), t)), Entered(new, a), Up(r))
<1> DEFINE tag == e.rest[1]
           canon == Canonised(tag)
           bare == Kept(tag, <<>>)
<1>0. Around(s, a) /\ Good(Up(r)) /\ IsList(r)
  <2>1. Around(s, a) /\ Good(Up(r))
    BY OwedPop
  <2> QED BY <2>1 DEF Good, Up
<1>1. tag \in Nested[Nesting]
  BY <1>0, TagFacts
<1> HIDE DEF tag
<1>2. tag.kids \in Text /\ tag.id \in Scope
  BY <1>1, ElementFacts
<1>3. /\ DOMAIN canon = DOMAIN Bare("error") /\ canon.id = tag.id /\ IsScope(canon) = IsScope(tag)
      /\ \A kids : Kept(tag, kids) = WithKids(canon, kids)
      /\ \A owner : IsScope(tag) => Noted(canon, owner) = <<>>
  BY <1>1, KeptFacts
<1> HIDE DEF canon
<1>4. IsList(<<>>) /\ IsList(<<>>) /\ \A x : IsList(x) => <<>> \o x = x
  <2>1. IsList(<<>>)
    BY GoodOnes DEF Good, Nothing
  <2> QED BY <2>1, Concats
<1>5. /\ bare.kids = <<>> /\ bare.id = tag.id /\ IsElement(bare) /\ IsScope(bare) = IsScope(tag)
      /\ \A kids : WithKids(bare, kids) = Kept(tag, kids)
      /\ \A owner : Noted(bare, owner) = Noted(canon, owner)
  <2>1. bare = WithKids(canon, <<>>)
    BY <1>3
  <2> QED BY <1>2, <1>3, <1>4, <2>1, Rekids
<1> HIDE DEF bare
<1>6. new = [el |-> bare, path |-> None, rest |-> tag.kids]
  BY DEF ElementEntry, bare, tag
<1>7. new.el = bare /\ new.path = None /\ new.rest = tag.kids /\ ~IsFile(new) /\ Entry(s, new)
  <2>1. new.el = bare /\ new.path = None /\ new.rest = tag.kids
    BY <1>6
  <2>2. ~IsFile(new)
    BY <2>1 DEF IsFile
  <2> QED BY <1>2, <1>5, <1>6, <2>1, <2>2 DEF Entry
<1> DEFINE a2 == Entered(new, a)
<1>8. /\ Around(s, a2) /\ ToSet(a2.files) = ToSet(a.files)
      /\ Owner(a2) = IF IsScope(tag) THEN tag.id ELSE Owner(a)
  <2>1. Around(s, a2) /\ ToSet(a2.files) = Files(new, a) /\ Owner(a2) = ScopeIn(new, a)
    BY <1>0, <1>7, EnteredFacts
  <2> HIDE DEF a2
  <2> QED BY <1>5, <1>7, <2>1 DEF Files, ScopeIn
<1> HIDE DEF a2
<1> DEFINE p == PlaceOf(a, e.rest)
           in == Content(s)[PlaceOf(a2, tag.kids)]
           part == PartHere(s, e, a)
<1>9. PlaceOf(a2, tag.kids) \in Passage(s) /\ Good(in)
  <2>1. PlaceOf(a2, tag.kids) \in Passage(s)
    BY <1>2, <1>8, PlaceOfFacts
  <2> QED BY <2>1, ContentGood
<1>10. Inner(p, tag) = PlaceOf(a2, tag.kids) /\ p.scope = Owner(a)
  <2>1. e.rest \in Text
    BY DEF Entry
  <2>2. p.scope = Owner(a) /\ Stands(s, p, ToSet(a.files), e.rest, Owner(a))
    BY <1>0, <2>1, PlaceOfFacts
  <2> HIDE DEF p
  <2>3. Inner(p, tag) = Somewhere(ToSet(a.files), tag.kids, IF IsScope(tag) THEN tag.id ELSE Owner(a))
    BY <2>2 DEF Stands
  <2> QED BY <1>8, <2>2, <2>3 DEF PlaceOf
<1>11. part = KeptIn(tag, in, Owner(a))
  <2> HIDE DEF p
  <2>1. Good(Content(s)[Inner(p, tag)])
    BY <1>9, <1>10
  <2>2. tag.tag \notin {"include", "error"}
    BY DEF tag
  <2>3. PartOf(s, Content(s), p, tag) = KeptIn(tag, Content(s)[Inner(p, tag)], p.scope)
    BY <2>1, <2>2, PartForms
  <2> QED BY <1>10, <2>3 DEF PartHere, p, tag
<1> HIDE DEF p
<1>12. Good(part)
  <2> HIDE DEF in
  <2> QED BY <1>9, <1>11, GoodOnes DEF in
<1>13. Owed(s, Pushed(Passed(e), t), a, Came(r, part))
  BY <1>12, OwedPast
<1>14. Closed(s, new, a2, Up(r)) = Came(r, part)
  <2>1. ToCome(s, new, a2, Up(r)) = in
    BY <1>7 DEF ToCome, Up
  <2> HIDE DEF in
  <2>2. IsList(in.els) /\ IsList(in.refs)
    BY <1>9 DEF Good
  <2>3. bare.kids \o (Up(r).els \o in.els) = in.els
    <3>1. bare.kids = <<>> /\ Up(r).els = <<>>
      BY <1>5 DEF Up
    <3> QED BY <1>4, <2>2, <3>1
  <2>4. Noted(bare, Owner(a2)) = Noted(canon, Owner(a))
    BY <1>3, <1>5, <1>8
  <2>5. IsList(Noted(canon, Owner(a)))
    <3>1. ASSUME NEW x PROVE IsList(<<x>>)
      <4>1. <<x>> \in Seq({x})
        OBVIOUS
      <4> QED BY <4>1, Itself
    <3> QED BY <1>4, <3>1 DEF Noted
  <2> DEFINE w == Noted(canon, Owner(a))
             v == in.refs
  <2>6. (r \o v) \o w = r \o (v \o w)
    <3>1. IsList(w) /\ IsList(v)
      BY <2>2, <2>5
    <3> HIDE DEF w, v
    <3> QED BY <1>0, <3>1, Concats
  <2> HIDE DEF w, v
  <2>7. Close(new, Owner(a2), Up(r), in)
        = [els |-> <<Kept(tag, in.els)>>, refs |-> (r \o v) \o w, broken |-> in.broken]
    <3>1. WithKids(bare, bare.kids \o (Up(r).els \o in.els)) = Kept(tag, in.els)
      BY <1>5, <2>3
    <3>2. Up(r).refs = r
      BY DEF Up
    <3> QED BY <1>7, <2>4, <3>1, <3>2 DEF Close, w, v
  <2>8. Came(r, part) = [els |-> <<Kept(tag, in.els)>>, refs |-> r \o (v \o w), broken |-> in.broken]
    <3> HIDE DEF part
    <3>1. part.els = <<Kept(tag, in.els)>> /\ part.refs = v \o w /\ part.broken = in.broken
      BY <1>11 DEF KeptIn, v, w, canon
    <3> QED BY <3>1 DEF Came
  <2> QED BY <2>1, <2>6, <2>7, <2>8 DEF Closed
<1>15. Linked(s, new, a2, Up(r), a, Came(r, part))
  BY <1>14 DEF Linked, a2
<1> HIDE DEF part
<1>16. IsList(Pushed(Passed(e), t))
  BY PushedFacts
<1>17. Owed(s, Pushed(new, Pushed(Passed(e), t)), a2, Up(r))
  BY <1>0, <1>8, <1>13, <1>15, <1>16, OwedPush
<1> QED BY <1>7, <1>17 DEF a2


(* An include: the file comes next, or nothing.                                  *)
LEMMA OwedFile ==
    ASSUME NEW s \in Skins, NEW e, Entry(s, e), e.rest # <<>>, NEW t, IsList(t),
           e.rest[1].tag = "include", NEW a, NEW r, Owed(s, Pushed(e, t), a, Up(r)),
           e.rest[1].of \in DOMAIN s.at \ ToSet(a.files),
           NEW new, new = [el |-> None, path |-> e.rest[1].of, rest |-> s.at[e.rest[1].of]]
    PROVE  /\ Entry(s, new) /\ IsFile(new)
           /\ Owed(s, Pushed(new, Pushed(Passed(e), t)), Entered(new, a), Up(r))
<1> DEFINE tag == e.rest[1]
           a2 == Entered(new, a)
           p == PlaceOf(a, e.rest)
           out == Content(s)[PlaceOf(a2, new.rest)]
           part == PartHere(s, e, a)
<1>0. Around(s, a) /\ Good(Up(r)) /\ IsList(r)
  <2>1. Around(s, a) /\ Good(Up(r))
    BY OwedPop
  <2> QED BY <2>1 DEF Good, Up
<1>1. /\ new.el = None /\ new.path = tag.of /\ new.rest = s.at[tag.of]
      /\ new.rest \in Text /\ IsFile(new) /\ Entry(s, new)
  <2>1. new.el = None /\ new.path = tag.of /\ new.rest = s.at[tag.of]
    OBVIOUS
  <2>2. new.path \in DOMAIN s.at /\ new.path # None /\ new.rest \in Text
    BY <2>1, SkinsAssumption DEF Text
  <2>3. IsFile(new)
    BY <2>2 DEF IsFile
  <2> QED BY <2>1, <2>2, <2>3 DEF Entry
<1>2. Around(s, a2) /\ ToSet(a2.files) = ToSet(a.files) \cup {tag.of} /\ Owner(a2) = Owner(a)
  <2>1. Around(s, a2) /\ ToSet(a2.files) = Files(new, a) /\ Owner(a2) = ScopeIn(new, a)
    BY <1>0, <1>1, EnteredFacts
  <2> HIDE DEF a2
  <2> QED BY <1>1, <2>1 DEF Files, ScopeIn
<1> HIDE DEF a2
<1>3. PlaceOf(a2, new.rest) \in Passage(s) /\ Good(out)
  <2>1. PlaceOf(a2, new.rest) \in Passage(s)
    BY <1>1, <1>2, PlaceOfFacts
  <2> QED BY <2>1, ContentGood
<1>4. Outer(s, p, tag) = PlaceOf(a2, new.rest) /\ Includes(s, p, tag)
  <2>1. e.rest \in Text
    BY DEF Entry
  <2>2. p.files = ToSet(a.files) /\ Stands(s, p, ToSet(a.files), e.rest, Owner(a))
    BY <1>0, <2>1, PlaceOfFacts
  <2> HIDE DEF p
  <2>3. Outer(s, p, tag) = Somewhere(ToSet(a.files) \cup {tag.of}, s.at[tag.of], Owner(a))
    BY <2>2 DEF Stands
  <2>4. Includes(s, p, tag)
    BY <2>2 DEF Includes
  <2> QED BY <1>1, <1>2, <2>3, <2>4 DEF PlaceOf
<1>5. part = Unbroken(out)
  <2> HIDE DEF p, tag
  <2>1. Good(Content(s)[Outer(s, p, tag)]) /\ tag.tag = "include"
    BY <1>3, <1>4 DEF tag
  <2>2. PartOf(s, Content(s), p, tag) = Unbroken(Content(s)[Outer(s, p, tag)])
    BY <1>4, <2>1, PartForms
  <2> QED BY <1>4, <2>2 DEF PartHere, p, tag
<1> HIDE DEF p
<1>6. Good(part)
  <2> HIDE DEF out
  <2> QED BY <1>3, <1>5, GoodOnes DEF out
<1>7. Owed(s, Pushed(Passed(e), t), a, Came(r, part))
  BY <1>6, OwedPast
<1>8. Closed(s, new, a2, Up(r)) = Came(r, part)
  <2>1. ToCome(s, new, a2, Up(r)) = out
    BY DEF ToCome, Up
  <2> HIDE DEF out
  <2>2. <<>> \o out.els = out.els
    <3>1. IsList(out.els)
      BY <1>3 DEF Good
    <3> QED BY <3>1, Concats
  <2>3. Close(new, Owner(a2), Up(r), out)
        = [els |-> out.els, refs |-> r \o out.refs, broken |-> FALSE]
    BY <1>1, <2>2 DEF Close, Up
  <2>4. Came(r, part) = [els |-> out.els, refs |-> r \o out.refs, broken |-> FALSE]
    <3> HIDE DEF part
    <3>1. part.els = out.els /\ part.refs = out.refs /\ part.broken = FALSE
      BY <1>5 DEF Unbroken
    <3> QED BY <3>1 DEF Came
  <2> QED BY <2>1, <2>3, <2>4 DEF Closed
<1>9. Linked(s, new, a2, Up(r), a, Came(r, part))
  BY <1>8 DEF Linked, a2
<1> HIDE DEF part
<1>10. IsList(Pushed(Passed(e), t))
  BY PushedFacts
<1>11. Owed(s, Pushed(new, Pushed(Passed(e), t)), a2, Up(r))
  BY <1>0, <1>2, <1>7, <1>9, <1>10, OwedPush
<1> QED BY <1>1, <1>11 DEF a2

LEMMA OwedSkip ==
    ASSUME NEW s \in Skins, NEW e, Entry(s, e), e.rest # <<>>, NEW t, IsList(t),
           e.rest[1].tag = "include", NEW a, NEW r, Owed(s, Pushed(e, t), a, Up(r)),
           e.rest[1].of \notin DOMAIN s.at \ ToSet(a.files)
    PROVE  Owed(s, Pushed(Passed(e), t), a, Up(r))
<1> DEFINE tag == e.rest[1]
           p == PlaceOf(a, e.rest)
           part == PartHere(s, e, a)
<1>0. Around(s, a) /\ Good(Up(r)) /\ IsList(r)
  <2>1. Around(s, a) /\ Good(Up(r))
    BY OwedPop
  <2> QED BY <2>1 DEF Good, Up
<1>1. part = Nothing
  <2>1. p.files = ToSet(a.files)
    BY <1>0, PlaceOfFacts DEF Entry
  <2> HIDE DEF p, tag
  <2>2. ~Includes(s, p, tag) /\ tag.tag = "include"
    BY <2>1 DEF Includes, tag
  <2>3. PartOf(s, Content(s), p, tag) = Nothing
    BY <2>2, PartForms
  <2> QED BY <2>3 DEF PartHere, p, tag
<1>2. Good(part)
  BY <1>1, GoodOnes
<1>3. Owed(s, Pushed(Passed(e), t), a, Came(r, part))
  BY <1>2, OwedPast
<1>4. Came(r, part) = Up(r)
  <2>1. r \o <<>> = r
    BY <1>0, Concats
  <2> HIDE DEF part
  <2> QED BY <1>1, <2>1 DEF Came, Nothing, Up
<1> QED BY <1>3, <1>4

(* The end of a file.                                                            *)
LEMMA NothingToCome ==
    ASSUME NEW s \in Skins, NEW e, Entry(s, e), e.rest = <<>>, NEW a, Around(s, a),
           NEW up, Good(up), up.broken = FALSE
    PROVE  ToCome(s, e, a, up) = Nothing
<1>1. PlaceOf(a, e.rest) \in Passage(s) /\ PlaceOf(a, e.rest).text = <<>>
  BY PlaceOfFacts DEF Entry
<1> QED BY <1>1, ContentNil DEF ToCome

LEMMA OwedEndFile ==
    ASSUME NEW s \in Skins, NEW e, Entry(s, e), IsFile(e), e.rest = <<>>, NEW t, IsList(t),
           NEW a, NEW r, Owed(s, Pushed(e, t), a, Up(r))
    PROVE  Owed(s, t, Left(e, a), Up(r))
<1>1. /\ Around(s, a) /\ Good(Up(r))
      /\ \E a1, up1 : /\ Linked(s, e, a, Up(r), a1, up1)
                      /\ Owed(s, t, a1, up1) /\ Around(s, a1) /\ Good(up1)
  BY OwedPop
<1>2. PICK a1, up1 : /\ Linked(s, e, a, Up(r), a1, up1)
                     /\ Owed(s, t, a1, up1) /\ Around(s, a1)
  BY <1>1
<1>3. Up(r).broken = FALSE /\ Up(r).els = <<>> /\ Up(r).refs = r /\ IsList(r) /\ IsList(<<>>)
  BY <1>1 DEF Up, Good
<1>4. up1 = Close(e, Owner(a), Up(r), Nothing)
  <2>1. ToCome(s, e, a, Up(r)) = Nothing
    BY <1>1, <1>3, NothingToCome
  <2> QED BY <1>2, <2>1 DEF Linked, Closed
<1>5. up1 = Up(r)
  <2>1. r \o <<>> = r /\ <<>> \o <<>> = <<>>
    BY <1>3, Concats
  <2> QED BY <1>3, <1>4, <2>1 DEF Close, Nothing, Up
<1>6. Left(e, a) = a1
  BY <1>2, EnteredFacts DEF Linked
<1> QED BY <1>2, <1>5, <1>6


-----------------------------------------------------------------------------
(* The end of an element: what had come up as its first is one of the kids of    *)
(* the element around it, past the files that end between them.                  *)
Starts(c, x) == Good(c) /\ c.broken = FALSE /\ \E z : IsList(z) /\ c.els = <<x>> \o z
Cut(c) == [els |-> Tail(c.els), refs |-> c.refs, broken |-> FALSE]
Given(e, x) == [el |-> WithKids(e.el, Append(e.el.kids, x)), path |-> e.path, rest |-> e.rest]

LEMMA CutFacts ==
    ASSUME NEW c, NEW x, Starts(c, x)
    PROVE  /\ Good(Cut(c)) /\ Cut(c).broken = FALSE /\ Cut(c).refs = c.refs
           /\ IsList(Cut(c).els) /\ c.els = <<x>> \o Cut(c).els
<1>1. PICK z : IsList(z) /\ c.els = <<x>> \o z
  BY DEF Starts
<1>2. Tail(c.els) = z
  BY <1>1, Singles
<1>3. Cut(c) = [els |-> z, refs |-> c.refs, broken |-> FALSE]
  BY <1>2 DEF Cut
<1>4. Cut(c).els = z /\ Cut(c).refs = c.refs /\ Cut(c).broken = FALSE
  BY <1>3
<1>5. IsList(c.refs)
  BY DEF Starts, Good
<1> QED BY <1>1, <1>3, <1>4, <1>5 DEF Good

LEMMA CutInFile ==
    ASSUME NEW s, NEW e, Entry(s, e), IsFile(e), NEW owner, NEW up, NEW x, Starts(up, x),
           NEW next, Good(next)
    PROVE  /\ Starts(Close(e, owner, up, next), x)
           /\ Close(e, owner, Cut(up), next) = Cut(Close(e, owner, up, next))
<1> DEFINE z == Cut(up).els
           n == next.els
           c == Close(e, owner, up, next)
           q == Close(e, owner, Cut(up), next)
<1>1. IsList(z) /\ up.els = <<x>> \o z /\ IsList(n) /\ Cut(up).refs = up.refs
  BY CutFacts DEF Good
<1>2. Good(c)
  BY CloseGood DEF Starts
<1>3. c.els = up.els \o n /\ c.refs = up.refs \o next.refs /\ c.broken = FALSE
  BY DEF Close
<1>4. q = [els |-> z \o n, refs |-> up.refs \o next.refs, broken |-> FALSE]
  BY <1>1 DEF Close
<1> HIDE DEF z, n, c, q
<1>5. IsList(z \o n) /\ (<<x>> \o z) \o n = <<x>> \o (z \o n)
  <2>1. IsList(<<x>>)
    BY <1>1, Singles
  <2>2. IsList(z \o n)
    BY <1>1, Concats
  <2> QED BY <1>1, <2>1, <2>2, Concats
<1>6. c.els = <<x>> \o (z \o n)
  BY <1>1, <1>3, <1>5
<1>7. Starts(c, x)
  BY <1>2, <1>3, <1>5, <1>6 DEF Starts
<1>8. Tail(c.els) = z \o n
  BY <1>5, <1>6, Singles
<1>9. q = Cut(c)
  BY <1>3, <1>4, <1>8 DEF Cut
<1> QED BY <1>7, <1>9 DEF c, q

LEMMA CutInElement ==
    ASSUME NEW s, NEW e, Entry(s, e), ~IsFile(e), NEW owner, NEW up, NEW x, Starts(up, x),
           NEW next, Good(next)
    PROVE  /\ Close(Given(e, x), owner, Cut(up), next) = Close(e, owner, up, next)
           /\ Entry(s, Given(e, x)) /\ ~IsFile(Given(e, x)) /\ Given(e, x).rest = e.rest
           /\ \A a : Entered(Given(e, x), a) = Entered(e, a)
<1> DEFINE z == Cut(up).els
           n == next.els
           k == e.el.kids
           new == Given(e, x)
           more == Append(k, x)
<1>1. IsList(z) /\ up.els = <<x>> \o z /\ IsList(n) /\ Cut(up).refs = up.refs
  BY CutFacts DEF Good
<1>2. IsElement(e.el) /\ IsList(k) /\ DOMAIN e.el = DOMAIN Bare("error") /\ e.el.id \in Scope
  BY DEF Entry, IsElement
<1>3. /\ new.el = WithKids(e.el, more) /\ new.path = e.path /\ new.rest = e.rest
      /\ new = [el |-> new.el, path |-> new.path, rest |-> new.rest]
  BY DEF Given
<1> HIDE DEF k
<1>4. IsList(more) /\ more = k \o <<x>> /\ IsList(<<x>>)
  BY <1>2, Singles
<1> HIDE DEF new, more, z, n
<1>5. /\ new.el.kids = more /\ IsElement(new.el) /\ IsScope(new.el) = IsScope(e.el)
      /\ new.el.id = e.el.id
      /\ \A others : WithKids(new.el, others) = WithKids(e.el, others)
      /\ \A o : Noted(new.el, o) = Noted(e.el, o)
  <2> DEFINE el == e.el
             w == WithKids(el, more)
  <2>1. DOMAIN el = DOMAIN Bare("error") /\ el.id \in Scope
    BY <1>2
  <2> HIDE DEF el
  <2>2. /\ w.kids = more /\ w.id = el.id /\ IsScope(w) = IsScope(el)
        /\ IsList(more) /\ el.id \in Scope => IsElement(w)
    BY <2>1, Rekids
  <2>3. \A others : WithKids(w, others) = WithKids(el, others)
    BY <2>1, Rekids
  <2>4. \A o : Noted(w, o) = Noted(el, o)
    BY <2>1, Rekids
  <2>5. new.el = w
    BY <1>3 DEF el
  <2> HIDE DEF w
  <2> QED BY <1>4, <2>1, <2>2, <2>3, <2>4, <2>5 DEF el
<1>6. more \o (z \o n) = k \o ((<<x>> \o z) \o n)
  <2> DEFINE w == z \o n
             v == <<x>>
  <2>1. IsList(w) /\ IsList(v)
    BY <1>1, <1>4, Concats
  <2>2. (v \o z) \o n = v \o w
    <3> HIDE DEF v
    <3> QED BY <1>1, <2>1, Concats
  <2>3. (k \o v) \o w = k \o (v \o w)
    <3> HIDE DEF v, w
    <3>1. IsList(k)
      BY <1>2
    <3> QED BY <2>1, <3>1, Concats
  <2> HIDE DEF v, w
  <2>4. more = k \o v
    BY <1>4 DEF v
  <2> QED BY <2>2, <2>3, <2>4 DEF v, w
<1>7. ~IsFile(new)
  BY <1>3 DEF IsFile
<1>8. Close(new, owner, Cut(up), next) = Close(e, owner, up, next)
  <2>1. WithKids(new.el, new.el.kids \o (Cut(up).els \o next.els))
        = WithKids(e.el, e.el.kids \o (up.els \o next.els))
    <3>1. new.el.kids \o (Cut(up).els \o next.els) = e.el.kids \o (up.els \o next.els)
      BY <1>1, <1>5, <1>6 DEF z, n, k
    <3> QED BY <1>5, <3>1
  <2> QED BY <1>1, <1>5, <1>7, <2>1 DEF Close
<1>9. Entry(s, new)
  BY <1>3, <1>5, <1>7 DEF Entry
<1>10. \A a : Entered(new, a) = Entered(e, a)
  BY <1>5, <1>7 DEF Entered
<1> QED BY <1>3, <1>7, <1>8, <1>9, <1>10 DEF new

LEMMA OwedKid ==
    ASSUME NEW s \in Skins, NEW t, IsList(t), \A i \in 1 .. Len(t) : Entry(s, t[i]),
           NEW q \in 1 .. Len(t), ~IsFile(t[q]), \A i \in 1 .. q - 1 : IsFile(t[i]),
           NEW a, NEW up, NEW x, Starts(up, x), Owed(s, t, a, up),
           NEW t2, IsList(t2), Len(t2) = Len(t),
           \A i \in 1 .. Len(t) : t2[i] = IF i = q THEN Given(t[q], x) ELSE t[i]
    PROVE  Owed(s, t2, a, Cut(up))
<1> DEFINE n == Len(t)
<1>0. n \in Nat /\ q \in Nat /\ q >= 1 /\ q <= n
  <2> DEFINE T == {t[i] : i \in DOMAIN t}
  <2>1. t \in Seq(T)
    BY DEF IsList
  <2> HIDE DEF T
  <2> QED BY <2>1
<1>1. PICK g : Chain(s, t, g) /\ g[0].around = a /\ g[0].up = up
  BY DEF Owed
<1> DEFINE next(i) == ToCome(s, t[i], g[i - 1].around, g[i - 1].up)
<1>2. ASSUME NEW i \in 1 .. n
      PROVE  /\ Around(s, g[i - 1].around) /\ Good(g[i - 1].up) /\ Good(next(i)) /\ Entry(s, t[i])
             /\ g[i - 1].around = Entered(t[i], g[i].around)
             /\ g[i].up = Close(t[i], Owner(g[i - 1].around), g[i - 1].up, next(i))
  <2>1. i - 1 \in 0 .. n
    BY <1>0
  <2>2. Around(s, g[i - 1].around) /\ Good(g[i - 1].up) /\ Entry(s, t[i])
    BY <1>1, <2>1 DEF Chain
  <2>3. Linked(s, t[i], g[i - 1].around, g[i - 1].up, g[i].around, g[i].up)
    BY <1>1 DEF Chain
  <2>4. Good(next(i))
    BY <2>2, ToComeGood
  <2> QED BY <2>2, <2>3, <2>4 DEF Linked, Closed
<1> DEFINE S == {i \in Nat : i < q => Starts(g[i].up, x)}
<1>3. Nat \subseteq S
  <2>1. 0 \in S
    BY <1>1
  <2>2. ASSUME NEW i \in Nat, i \in S PROVE i + 1 \in S
    <3>1. ASSUME i + 1 < q PROVE Starts(g[i + 1].up, x)
      <4>1. i + 1 \in 1 .. n /\ i + 1 \in 1 .. q - 1 /\ (i + 1) - 1 = i /\ i < q
        BY <1>0, <3>1
      <4>2. Starts(g[i].up, x) /\ IsFile(t[i + 1])
        BY <2>2, <4>1
      <4>3. /\ Good(next(i + 1)) /\ Entry(s, t[i + 1])
            /\ g[i + 1].up = Close(t[i + 1], Owner(g[i].around), g[i].up, next(i + 1))
        BY <1>2, <4>1
      <4> HIDE DEF next
      <4> QED BY <4>2, <4>3, CutInFile
    <3> QED BY <3>1
  <2> HIDE DEF S
  <2> QED BY <2>1, <2>2, NatSet
<1>4. ASSUME NEW i \in 0 .. q - 1 PROVE Starts(g[i].up, x)
  <2>1. i \in Nat /\ i < q
    BY <1>0
  <2> QED BY <1>3, <2>1
<1> DEFINE cut(i) == [around |-> g[i].around, up |-> Cut(g[i].up)]
           h == [i \in 0 .. n |-> IF i < q THEN cut(i) ELSE g[i]]
<1>5. ASSUME NEW i \in 0 .. n
      PROVE  /\ h[i].around = g[i].around
             /\ h[i].up = IF i < q THEN Cut(g[i].up) ELSE g[i].up
  <2>1. h[i] = IF i < q THEN cut(i) ELSE g[i]
    OBVIOUS
  <2> HIDE DEF h
  <2> QED BY <2>1
<1> HIDE DEF h
<1>6. ASSUME NEW i \in 0 .. n PROVE Around(s, h[i].around) /\ Good(h[i].up)
  <2>1. Around(s, g[i].around) /\ Good(g[i].up)
    BY <1>1 DEF Chain
  <2>2. i < q => Good(Cut(g[i].up))
    <3>1. ASSUME i < q PROVE Good(Cut(g[i].up))
      <4>1. i \in 0 .. q - 1
        BY <1>0, <3>1
      <4> QED BY <1>4, <4>1, CutFacts
    <3> QED BY <3>1
  <2> QED BY <1>5, <2>1, <2>2
<1>7. ASSUME NEW i \in 1 .. n
      PROVE  Linked(s, t2[i], h[i - 1].around, h[i - 1].up, h[i].around, h[i].up)
  <2>0. i \in 0 .. n /\ i - 1 \in 0 .. n
    BY <1>0
  <2> DEFINE o == Owner(g[i - 1].around)
             low == g[i - 1].up
             nx == next(i)
  <2>1. /\ Good(nx) /\ Entry(s, t[i]) /\ g[i - 1].around = Entered(t[i], g[i].around)
        /\ g[i].up = Close(t[i], o, low, nx)
    BY <1>2
  <2>2. \A e : e.rest = t[i].rest /\ low.broken = FALSE => ToCome(s, e, g[i - 1].around, Cut(low)) = nx
    BY DEF ToCome, Cut
  <2> HIDE DEF nx
  <2>3. CASE i < q
    <3>1. i - 1 \in 0 .. q - 1 /\ i \in 1 .. q - 1 /\ i - 1 < q
      BY <1>0, <2>3
    <3>2. Starts(low, x) /\ IsFile(t[i]) /\ low.broken = FALSE
      BY <1>4, <3>1 DEF Starts
    <3>3. t2[i] = t[i] /\ h[i - 1].up = Cut(low) /\ h[i].up = Cut(g[i].up)
          /\ h[i - 1].around = g[i - 1].around /\ h[i].around = g[i].around
      BY <1>5, <2>0, <2>3, <3>1
    <3> HIDE DEF o, low
    <3>4. Close(t[i], o, Cut(low), nx) = Cut(g[i].up)
      <4> DEFINE e == t[i]
      <4>1. Entry(s, e) /\ IsFile(e)
        BY <2>1, <3>2
      <4> HIDE DEF e
      <4>2. Close(e, o, Cut(low), nx) = Cut(Close(e, o, low, nx))
        BY <2>1, <3>2, <4>1, CutInFile
      <4> QED BY <2>1, <4>2 DEF e
    <3>5. ToCome(s, t[i], g[i - 1].around, Cut(low)) = nx
      BY <2>2, <3>2
    <3> QED BY <2>1, <3>3, <3>4, <3>5 DEF Linked, Closed, o
  <2>4. CASE i = q
    <3>1. i - 1 \in 0 .. q - 1 /\ i - 1 < q /\ ~(i < q)
      BY <1>0, <2>4
    <3>2. Starts(low, x) /\ ~IsFile(t[i]) /\ low.broken = FALSE
      BY <1>4, <2>4, <3>1 DEF Starts
    <3>3. t2[i] = Given(t[i], x) /\ h[i - 1].up = Cut(low) /\ h[i].up = g[i].up
          /\ h[i - 1].around = g[i - 1].around /\ h[i].around = g[i].around
      BY <1>5, <2>0, <2>4, <3>1
    <3> HIDE DEF o, low
    <3>4. /\ Close(Given(t[i], x), o, Cut(low), nx) = g[i].up /\ Given(t[i], x).rest = t[i].rest
          /\ Entered(Given(t[i], x), g[i].around) = Entered(t[i], g[i].around)
      BY <2>1, <3>2, CutInElement
    <3>5. ToCome(s, Given(t[i], x), g[i - 1].around, Cut(low)) = nx
      BY <2>2, <3>2, <3>4
    <3> QED BY <2>1, <3>3, <3>4, <3>5 DEF Linked, Closed, o
  <2>5. CASE i > q
    <3>1. ~(i < q) /\ ~(i - 1 < q) /\ i # q
      BY <1>0, <2>5
    <3>2. t2[i] = t[i] /\ h[i - 1].up = g[i - 1].up /\ h[i].up = g[i].up
          /\ h[i - 1].around = g[i - 1].around /\ h[i].around = g[i].around
      BY <1>5, <2>0, <3>1
    <3> QED BY <1>1, <3>2 DEF Chain
  <2> QED BY <1>0, <2>3, <2>4, <2>5
<1>8. Chain(s, t2, h)
  <2>1. g[n].around = Outermost /\ g[n].up = Result(s)
    BY <1>1 DEF Chain
  <2>2. h[n].around = Outermost /\ h[n].up = Result(s)
    BY <1>0, <1>5, <2>1
  <2> QED BY <1>6, <1>7, <2>2 DEF Chain
<1>9. h[0].around = a /\ h[0].up = Cut(up)
  BY <1>0, <1>1, <1>5
<1> QED BY <1>8, <1>9 DEF Owed


(* The end of an element, at the top of the stack.                               *)
LEMMA OwedEndElement ==
    ASSUME NEW s \in Skins, NEW e, Entry(s, e), ~IsFile(e), e.rest = <<>>, NEW t, IsList(t),
           NEW a, NEW r, Owed(s, Pushed(e, t), a, Up(r)),
           \A i \in 1 .. Len(t) : Entry(s, t[i]),
           NEW q \in 1 .. Len(t), ~IsFile(t[q]), \A i \in 1 .. q - 1 : IsFile(t[i]),
           NEW t2, IsList(t2), Len(t2) = Len(t),
           \A i \in 1 .. Len(t) : t2[i] = IF i = q THEN Given(t[q], e.el) ELSE t[i]
    PROVE  Owed(s, t2, Left(e, a), Up(r \o Noted(e.el, Owner(a))))
<1>1. /\ Around(s, a) /\ Good(Up(r))
      /\ \E a1, up1 : /\ Linked(s, e, a, Up(r), a1, up1)
                      /\ Owed(s, t, a1, up1) /\ Around(s, a1) /\ Good(up1)
  BY OwedPop
<1>2. PICK a1, up1 : /\ Linked(s, e, a, Up(r), a1, up1)
                     /\ Owed(s, t, a1, up1) /\ Around(s, a1) /\ Good(up1)
  BY <1>1
<1> DEFINE w == Noted(e.el, Owner(a))
<1>3. Up(r).broken = FALSE /\ Up(r).els = <<>> /\ Up(r).refs = r /\ IsList(r) /\ IsList(<<>>)
  BY <1>1 DEF Up, Good
<1>4. up1 = Close(e, Owner(a), Up(r), Nothing)
  <2>1. ToCome(s, e, a, Up(r)) = Nothing
    BY <1>1, <1>3, NothingToCome
  <2> QED BY <1>2, <2>1 DEF Linked, Closed
<1>5. IsElement(e.el) /\ IsList(e.el.kids)
  BY DEF Entry, IsElement
<1>6. up1 = [els |-> <<e.el>>, refs |-> r \o w, broken |-> FALSE]
  <2>1. r \o <<>> = r /\ <<>> \o <<>> = <<>>
    BY <1>3, Concats
  <2> DEFINE k == e.el.kids
             el == e.el
  <2>2. k \o <<>> = k
    <3>1. IsList(k)
      BY <1>5
    <3> HIDE DEF k
    <3> QED BY <3>1, Concats
  <2>3. WithKids(el, k) = el
    <3>1. IsElement(el) /\ DOMAIN el = DOMAIN Bare("error")
      BY <1>5 DEF IsElement
    <3> HIDE DEF el
    <3>2. WithKids(el, el.kids) = el
      BY <3>1, Rekids
    <3> QED BY <3>2 DEF el
  <2>4. Nothing.els = <<>> /\ Nothing.refs = <<>> /\ Nothing.broken = FALSE
    BY DEF Nothing
  <2>5. e.el.kids \o (Up(r).els \o Nothing.els) = k /\ Up(r).refs \o Nothing.refs = r
    BY <1>3, <2>1, <2>2, <2>4
  <2>6. WithKids(e.el, e.el.kids \o (Up(r).els \o Nothing.els)) = e.el
    BY <2>3, <2>5
  <2> QED BY <1>4, <2>4, <2>5, <2>6 DEF Close
<1> HIDE DEF w
<1>7. up1.els = <<e.el>> /\ up1.refs = r \o w /\ up1.broken = FALSE
  BY <1>6
<1>8. <<e.el>> = <<e.el>> \o <<>>
  <2>1. <<e.el>> \in Seq({e.el})
    OBVIOUS
  <2> QED BY <2>1, ConcatEmptySeq
<1>9. Starts(up1, e.el) /\ Tail(up1.els) = <<>>
  <2>1. Tail(<<e.el>> \o <<>>) = <<>>
    BY <1>3, Singles
  <2> QED BY <1>2, <1>3, <1>7, <1>8, <2>1 DEF Starts
<1>10. Owed(s, t2, a1, Cut(up1))
  <2> DEFINE x == e.el
  <2>1. Starts(up1, x) /\ \A i \in 1 .. Len(t) : t2[i] = IF i = q THEN Given(t[q], x) ELSE t[i]
    BY <1>9
  <2> HIDE DEF x
  <2> QED BY <1>2, <2>1, OwedKid
<1>11. Cut(up1) = Up(r \o w)
  BY <1>7, <1>9 DEF Cut, Up
<1>12. Left(e, a) = a1
  BY <1>2, EnteredFacts DEF Linked
<1> QED BY <1>10, <1>11, <1>12 DEF w

-----------------------------------------------------------------------------
(* An error: nothing more comes in the file that breaks off, nor in what is open *)
(* in it.                                                                        *)
Ended(e) == [el |-> e.el, path |-> e.path, rest |-> <<>>]

LEMMA EndedEntry ==
    ASSUME NEW s, NEW e, Entry(s, e), NEW a
    PROVE  Entry(s, Ended(e)) /\ Ended(e).rest = <<>> /\ Entered(Ended(e), a) = Entered(e, a)
<1>1. /\ Ended(e).el = e.el /\ Ended(e).path = e.path /\ Ended(e).rest = <<>>
      /\ Ended(e) = [el |-> Ended(e).el, path |-> Ended(e).path, rest |-> Ended(e).rest]
  BY DEF Ended
<1>2. IsFile(Ended(e)) = IsFile(e)
  BY <1>1 DEF IsFile
<1>3. <<>> \in Text
  BY DEF Text
<1>4. Entry(s, Ended(e))
  BY <1>1, <1>2, <1>3 DEF Entry
<1>5. Entered(Ended(e), a) = Entered(e, a)
  BY <1>1, <1>2 DEF Entered
<1> QED BY <1>1, <1>4, <1>5

LEMMA EndedClose ==
    ASSUME NEW e, NEW o, NEW up
    PROVE  /\ Close(Ended(e), o, Unbroken(up), Nothing)
              = IF IsFile(e) THEN Close(e, o, up, Break) ELSE Unbroken(Close(e, o, up, Break))
           /\ ~IsFile(e) => Close(e, o, up, Break).broken = TRUE
<1>1. Ended(e).el = e.el /\ Ended(e).path = e.path
  BY DEF Ended
<1>2. IsFile(Ended(e)) = IsFile(e)
  BY <1>1 DEF IsFile
<1>3. Unbroken(up).els = up.els /\ Unbroken(up).refs = up.refs
  BY DEF Unbroken
<1>4. /\ Nothing.els = <<>> /\ Nothing.refs = <<>> /\ Nothing.broken = FALSE
      /\ Break.els = <<>> /\ Break.refs = <<>> /\ Break.broken = TRUE
  BY DEF Nothing, Break
<1> QED BY <1>1, <1>2, <1>3, <1>4 DEF Close, Unbroken

LEMMA EndedLink ==
    ASSUME NEW s \in Skins, NEW e, Entry(s, e), NEW a, Around(s, a), NEW up, Good(up),
           NEW a1, a = Entered(e, a1), NEW up1, up1 = Close(e, Owner(a), up, Break)
    PROVE  Linked(s, Ended(e), a, Unbroken(up), a1, IF IsFile(e) THEN up1 ELSE Unbroken(up1))
<1> DEFINE up2 == Unbroken(up)
           e2 == Ended(e)
<1>1. Good(up2) /\ up2.broken = FALSE
  BY GoodOnes DEF Unbroken
<1>2. Entry(s, e2) /\ e2.rest = <<>> /\ Entered(e2, a1) = a
  BY EndedEntry
<1>3. Close(e2, Owner(a), up2, Nothing) = IF IsFile(e) THEN up1 ELSE Unbroken(up1)
  BY EndedClose
<1> HIDE DEF up2, e2
<1>4. ToCome(s, e2, a, up2) = Nothing
  BY <1>1, <1>2, NothingToCome
<1>5. Linked(s, e2, a, up2, a1, IF IsFile(e) THEN up1 ELSE Unbroken(up1))
  BY <1>2, <1>3, <1>4 DEF Linked, Closed
<1> QED BY <1>5 DEF e2, up2

LEMMA OwedError ==
    ASSUME NEW s \in Skins, NEW t, IsList(t), \A i \in 1 .. Len(t) : Entry(s, t[i]),
           NEW q \in 1 .. Len(t), IsFile(t[q]), \A i \in 1 .. q - 1 : ~IsFile(t[i]),
           t[1].rest # <<>>, t[1].rest[1].tag = "error",
           NEW a, NEW r, Owed(s, t, a, Up(r)),
           NEW t2, IsList(t2), Len(t2) = Len(t),
           \A i \in 1 .. Len(t) : t2[i] = IF i <= q THEN Ended(t[i]) ELSE t[i]
    PROVE  Owed(s, t2, a, Up(r))
<1> DEFINE n == Len(t)
<1>0. n \in Nat /\ q \in Nat /\ q >= 1 /\ q <= n
  <2> DEFINE T == {t[i] : i \in DOMAIN t}
  <2>1. t \in Seq(T)
    BY DEF IsList
  <2> HIDE DEF T
  <2> QED BY <2>1
<1>1. PICK g : Chain(s, t, g) /\ g[0].around = a /\ g[0].up = Up(r)
  BY DEF Owed
<1> DEFINE next(i) == ToCome(s, t[i], g[i - 1].around, g[i - 1].up)
<1>2. ASSUME NEW i \in 1 .. n
      PROVE  /\ Around(s, g[i - 1].around) /\ Good(g[i - 1].up) /\ Entry(s, t[i])
             /\ g[i - 1].around = Entered(t[i], g[i].around)
             /\ g[i].up = Close(t[i], Owner(g[i - 1].around), g[i - 1].up, next(i))
  <2>1. i - 1 \in 0 .. n
    BY <1>0
  <2>2. Around(s, g[i - 1].around) /\ Good(g[i - 1].up) /\ Entry(s, t[i])
    BY <1>1, <2>1 DEF Chain
  <2>3. Linked(s, t[i], g[i - 1].around, g[i - 1].up, g[i].around, g[i].up)
    BY <1>1 DEF Chain
  <2> QED BY <2>2, <2>3 DEF Linked, Closed
<1>3. next(1) = Break
  <2> DEFINE e == t[1]
  <2>1. Entry(s, e) /\ Around(s, a) /\ e.rest # <<>> /\ e.rest[1].tag = "error"
    <3>1. 1 \in 1 .. n /\ 1 - 1 = 0
      BY <1>0
    <3> QED BY <1>1, <1>2, <3>1
  <2> HIDE DEF e
  <2>2. PartHere(s, e, a) = Break
    BY <2>1, PartForms DEF PartHere
  <2>3. Content(s)[PlaceOf(a, e.rest)] = Followed(Break, Content(s)[PlaceOf(a, Passed(e).rest)])
    BY <2>1, <2>2, TagFacts
  <2>4. \A c : Followed(Break, c) = Break
    BY DEF Followed, Break
  <2>5. ToCome(s, e, a, Up(r)) = Break
    BY <2>3, <2>4 DEF ToCome, Up
  <2> QED BY <1>1, <2>5 DEF e
<1>4. ASSUME NEW i \in 2 .. q, g[i - 1].up.broken = TRUE PROVE next(i) = Break
  BY <1>4 DEF ToCome
<1> HIDE DEF next
<1> DEFINE B(j) == j < q => g[j].up.broken = TRUE
           S == {i \in Nat : B(i + 1)}
<1>5. Nat \subseteq S
  <2>1. B(1)
    <3>1. ASSUME 1 < q PROVE g[1].up.broken = TRUE
      <4>1. 1 \in 1 .. n /\ 1 \in 1 .. q - 1
        BY <1>0, <3>1
      <4>2. /\ Entry(s, t[1]) /\ ~IsFile(t[1])
            /\ g[1].up = Close(t[1], Owner(g[1 - 1].around), g[1 - 1].up, Break)
        BY <1>2, <1>3, <4>1
      <4>3. \A x, o, up : ~IsFile(x) => Close(x, o, up, Break).broken = TRUE
        BY EndedClose
      <4> QED BY <4>2, <4>3
    <3> QED BY <3>1
  <2>2. ASSUME NEW j \in Nat, j >= 2, B(j - 1) PROVE B(j)
    <3>1. ASSUME j < q PROVE g[j].up.broken = TRUE
      <4>1. j \in 1 .. n /\ j \in 1 .. q - 1 /\ j \in 2 .. q /\ j - 1 < q
        BY <1>0, <2>2, <3>1
      <4>2. g[j - 1].up.broken = TRUE
        BY <2>2, <4>1
      <4>3. next(j) = Break
        BY <1>4, <4>1, <4>2
      <4>4. /\ Entry(s, t[j]) /\ ~IsFile(t[j])
            /\ g[j].up = Close(t[j], Owner(g[j - 1].around), g[j - 1].up, Break)
        BY <1>2, <4>1, <4>3
      <4>5. g[j].up.broken = TRUE
        <5>1. \A x, o, up : ~IsFile(x) => Close(x, o, up, Break).broken = TRUE
          BY EndedClose
        <5> QED BY <4>4, <5>1
      <4> QED BY <4>5
    <3> QED BY <3>1
  <2> HIDE DEF B
  <2>3. 0 \in S
    BY <2>1
  <2>4. ASSUME NEW i \in Nat, i \in S PROVE i + 1 \in S
    <3>1. B(i + 1) /\ (i + 1) + 1 \in Nat /\ (i + 1) + 1 >= 2 /\ ((i + 1) + 1) - 1 = i + 1
      BY <2>4
    <3>2. B((i + 1) + 1)
      BY <2>2, <3>1
    <3> QED BY <3>2
  <2> HIDE DEF S
  <2> QED BY <2>3, <2>4, NatSet
<1>6. ASSUME NEW i \in 1 .. q PROVE next(i) = Break
  <2>1. CASE i = 1
    BY <1>3, <2>1
  <2>2. CASE i # 1
    <3>1. i - 2 \in Nat /\ (i - 2) + 1 = i - 1 /\ i - 1 < q /\ i \in 2 .. q
      BY <1>0, <2>2
    <3>2. g[i - 1].up.broken = TRUE
      <4>1. i - 2 \in S
        BY <1>5, <3>1
      <4>2. B((i - 2) + 1)
        BY <4>1
      <4> QED BY <3>1, <4>2
    <3> QED BY <1>4, <3>1, <3>2
  <2> QED BY <2>1, <2>2
<1> HIDE DEF S
<1> DEFINE cut(i) == [around |-> g[i].around, up |-> Unbroken(g[i].up)]
           h == [i \in 0 .. n |-> IF i < q THEN cut(i) ELSE g[i]]
<1>7. ASSUME NEW i \in 0 .. n
      PROVE  /\ h[i].around = g[i].around
             /\ h[i].up = IF i < q THEN Unbroken(g[i].up) ELSE g[i].up
  <2>1. h[i] = IF i < q THEN cut(i) ELSE g[i]
    OBVIOUS
  <2> HIDE DEF h
  <2> QED BY <2>1
<1> HIDE DEF h
<1>8. ASSUME NEW i \in 0 .. n PROVE Around(s, h[i].around) /\ Good(h[i].up)
  <2>1. Around(s, g[i].around) /\ Good(g[i].up)
    BY <1>1 DEF Chain
  <2>2. Good(Unbroken(g[i].up))
    BY <2>1, GoodOnes
  <2> QED BY <1>7, <2>1, <2>2
<1>9. ASSUME NEW i \in 1 .. n
      PROVE  Linked(s, t2[i], h[i - 1].around, h[i - 1].up, h[i].around, h[i].up)
  <2>0. i \in 0 .. n /\ i - 1 \in 0 .. n
    BY <1>0
  <2>1. CASE i <= q
    <3> DEFINE e == t[i]
               o == Owner(g[i - 1].around)
               low == g[i - 1].up
    <3>1. i - 1 < q /\ i \in 1 .. q
      BY <1>0, <2>1
    <3>2. /\ Entry(s, e) /\ Around(s, g[i - 1].around) /\ Good(low)
          /\ g[i - 1].around = Entered(e, g[i].around) /\ g[i].up = Close(e, o, low, Break)
      BY <1>2, <1>6, <3>1
    <3>3. /\ t2[i] = Ended(e) /\ h[i - 1].up = Unbroken(low)
          /\ h[i - 1].around = g[i - 1].around /\ h[i].around = g[i].around
          /\ h[i].up = IF IsFile(e) THEN g[i].up ELSE Unbroken(g[i].up)
      <4>1. h[i].up = IF IsFile(e) THEN g[i].up ELSE Unbroken(g[i].up)
        <5>1. CASE i = q
          BY <1>0, <1>7, <2>0, <5>1
        <5>2. CASE i # q
          <6>1. i < q /\ i \in 1 .. q - 1
            BY <1>0, <2>1, <5>2
          <6> QED BY <1>7, <2>0, <6>1
        <5> QED BY <5>1, <5>2
      <4> QED BY <1>7, <2>0, <2>1, <3>1, <4>1
    <3> HIDE DEF e, o, low
    <3>4. Linked(s, Ended(e), g[i - 1].around, Unbroken(low), g[i].around,
                 IF IsFile(e) THEN g[i].up ELSE Unbroken(g[i].up))
      BY <3>2, EndedLink DEF o
    <3> QED BY <3>3, <3>4
  <2>2. CASE i > q
    <3>1. ~(i < q) /\ ~(i - 1 < q) /\ ~(i <= q)
      BY <1>0, <2>2
    <3>2. t2[i] = t[i] /\ h[i - 1].up = g[i - 1].up /\ h[i].up = g[i].up
          /\ h[i - 1].around = g[i - 1].around /\ h[i].around = g[i].around
      BY <1>7, <2>0, <3>1
    <3> QED BY <1>1, <3>2 DEF Chain
  <2> QED BY <1>0, <2>1, <2>2
<1>10. Chain(s, t2, h)
  <2>1. g[n].around = Outermost /\ g[n].up = Result(s)
    BY <1>1 DEF Chain
  <2>2. h[n].around = Outermost /\ h[n].up = Result(s)
    BY <1>0, <1>7, <2>1
  <2> QED BY <1>8, <1>9, <2>2 DEF Chain
<1>11. h[0].around = a /\ h[0].up = Up(r)
  <2>1. Unbroken(Up(r)) = Up(r)
    BY DEF Unbroken, Up
  <2> QED BY <1>0, <1>1, <1>7, <2>1
<1> QED BY <1>10, <1>11 DEF Owed


-----------------------------------------------------------------------------
(* The stack: files and elements, with the root of the Document below the first  *)
(* file.                                                                         *)
Stack(s, st) ==
    /\ IsList(st) /\ Len(st) >= 1 /\ \A i \in 1 .. Len(st) : Entry(s, st[i])
    /\ ~IsFile(st[Len(st)]) /\ st[Len(st)].rest = <<>>
    /\ Len(st) >= 2 => IsFile(st[Len(st) - 1])

LEMMA StackPush ==
    ASSUME NEW s, NEW t, Stack(s, t), NEW e, Entry(s, e), Len(t) >= 2 \/ IsFile(e)
    PROVE  Stack(s, Pushed(e, t))
<1> DEFINE u == Pushed(e, t)
           n == Len(t)
<1>1. /\ IsList(u) /\ n \in Nat /\ n >= 1 /\ Len(u) = n + 1 /\ u[1] = e
      /\ \A i \in 2 .. n + 1 : u[i] = t[i - 1]
  BY PushedFacts DEF Stack
<1> HIDE DEF u
<1>2. ASSUME NEW i \in 1 .. n + 1 PROVE Entry(s, u[i])
  <2>1. CASE i = 1
    BY <1>1, <2>1
  <2>2. CASE i # 1
    <3>1. i \in 2 .. n + 1 /\ i - 1 \in 1 .. n
      BY <1>1, <2>2
    <3> QED BY <1>1, <3>1 DEF Stack
  <2> QED BY <2>1, <2>2
<1>3. u[n + 1] = t[n]
  <2>1. n + 1 \in 2 .. n + 1 /\ (n + 1) - 1 = n
    BY <1>1
  <2> QED BY <1>1, <2>1
<1>4. IsFile(u[n])
  <2>1. CASE n = 1
    BY <1>1, <2>1
  <2>2. CASE n >= 2
    <3>1. n \in 2 .. n + 1
      BY <1>1, <2>2
    <3> QED BY <1>1, <2>2, <3>1 DEF Stack
  <2> QED BY <1>1, <2>1, <2>2
<1>5. (n + 1) - 1 = n
  BY <1>1
<1> QED BY <1>1, <1>2, <1>3, <1>4, <1>5 DEF Stack, u

(* The top of it, and what is below.                                             *)
LEMMA StackTop ==
    ASSUME NEW s, NEW st, Stack(s, st), Len(st) # 1
    PROVE  /\ st = Pushed(st[1], Tail(st)) /\ Entry(s, st[1])
           /\ Stack(s, Tail(st)) /\ IsList(Tail(st)) /\ Len(Tail(st)) = Len(st) - 1
           /\ Len(st) \in Nat /\ Len(st) >= 2
           /\ \A i \in 1 .. Len(st) - 1 : Tail(st)[i] = st[i + 1]
           /\ Len(Tail(st)) >= 2 \/ IsFile(st[1])
<1> DEFINE n == Len(st)
           t == Tail(st)
<1>1. st # <<>>
  BY DEF Stack
<1>2. /\ st = Pushed(st[1], t) /\ IsList(t) /\ n \in Nat /\ Len(t) = n - 1
      /\ \A i \in 1 .. n - 1 : t[i] = st[i + 1]
  BY <1>1, HeadFirst DEF Stack
<1>3. n >= 2
  BY <1>2 DEF Stack
<1> HIDE DEF t
<1>4. Entry(s, st[1])
  BY <1>2, <1>3 DEF Stack
<1>5. ASSUME NEW i \in 1 .. n - 1 PROVE Entry(s, t[i])
  <2>1. i + 1 \in 1 .. n
    BY <1>2
  <2> QED BY <1>2, <2>1 DEF Stack
<1>6. t[n - 1] = st[n]
  <2>1. n - 1 \in 1 .. n - 1 /\ (n - 1) + 1 = n
    BY <1>2, <1>3
  <2> QED BY <1>2, <2>1
<1>7. n - 1 >= 2 => IsFile(t[(n - 1) - 1])
  <2>1. ASSUME n - 1 >= 2 PROVE IsFile(t[(n - 1) - 1])
    <3>1. (n - 1) - 1 \in 1 .. n - 1 /\ ((n - 1) - 1) + 1 = n - 1
      BY <1>2, <2>1
    <3>2. t[(n - 1) - 1] = st[n - 1]
      BY <1>2, <3>1
    <3> QED BY <1>3, <3>2 DEF Stack
  <2> QED BY <2>1
<1>8. Stack(s, t)
  <2>1. Len(t) = n - 1 /\ n - 1 >= 1
    BY <1>2, <1>3
  <2> QED BY <1>2, <1>5, <1>6, <1>7, <2>1 DEF Stack
<1>9. n - 1 >= 2 \/ IsFile(st[1])
  <2>1. CASE n = 2
    BY <2>1 DEF Stack
  <2>2. CASE n # 2
    BY <1>2, <1>3, <2>2
  <2> QED BY <2>1, <2>2
<1> QED BY <1>2, <1>3, <1>4, <1>8, <1>9 DEF t

(* Its top with the rest of the text.                                            *)
LEMMA PastTop ==
    ASSUME NEW s, NEW st, Stack(s, st), Len(st) # 1
    PROVE  [st EXCEPT ![1].rest = Tail(@)] = Pushed(Passed(st[1]), Tail(st))
<1> DEFINE u == [st EXCEPT ![1].rest = Tail(@)]
           v == Pushed(Passed(st[1]), Tail(st))
           n == Len(st)
           S == {st[i] : i \in DOMAIN st}
<1>1. /\ Entry(s, st[1]) /\ IsList(Tail(st)) /\ Len(Tail(st)) = n - 1 /\ n \in Nat /\ n >= 2
      /\ \A i \in 1 .. n - 1 : Tail(st)[i] = st[i + 1]
  BY StackTop
<1>2. DOMAIN st = 1 .. n
  <2>1. st \in Seq(S)
    BY DEF Stack, IsList
  <2> HIDE DEF S
  <2> QED BY <2>1
<1>3. [st[1] EXCEPT !.rest = Tail(@)] = Passed(st[1])
  <2> DEFINE e == st[1]
  <2>1. e = [el |-> e.el, path |-> e.path, rest |-> e.rest]
    BY <1>1 DEF Entry
  <2> HIDE DEF e
  <2> DEFINE f == [e EXCEPT !.rest = Tail(@)]
  <2>2. /\ DOMAIN f = {"el", "path", "rest"} /\ f = [x \in DOMAIN f |-> f[x]]
        /\ f.el = e.el /\ f.path = e.path /\ f.rest = Tail(e.rest)
    BY <2>1
  <2> HIDE DEF f
  <2>3. f = Passed(e)
    BY <2>2 DEF Passed
  <2> QED BY <2>3 DEF e, f
<1>4. /\ DOMAIN u = 1 .. n /\ u = [i \in 1 .. n |-> u[i]]
      /\ u[1] = [st[1] EXCEPT !.rest = Tail(@)] /\ \A i \in 2 .. n : u[i] = st[i]
  <2>1. DOMAIN u = 1 .. n /\ u = [i \in 1 .. n |-> u[i]]
    BY <1>2
  <2>2. u[1] = [st[1] EXCEPT !.rest = Tail(@)]
    <3>1. 1 \in DOMAIN st
      BY <1>1, <1>2
    <3> QED BY <3>1
  <2>3. \A i \in 2 .. n : u[i] = st[i]
    BY <1>1, <1>2
  <2> QED BY <2>1, <2>2, <2>3
<1>5. /\ IsList(v) /\ Len(v) = n /\ v[1] = Passed(st[1])
      /\ \A i \in 2 .. n : v[i] = Tail(st)[i - 1]
  <2> DEFINE t == Tail(st)
             e == Passed(st[1])
  <2>1. IsList(t) /\ Len(t) = n - 1
    BY <1>1
  <2> HIDE DEF t, e
  <2>2. /\ IsList(Pushed(e, t)) /\ Len(Pushed(e, t)) = n /\ Pushed(e, t)[1] = e
        /\ \A i \in 2 .. Len(t) + 1 : Pushed(e, t)[i] = t[i - 1]
    BY <1>1, <2>1, PushedFacts
  <2>3. Len(t) + 1 = n
    BY <1>1, <2>1
  <2> QED BY <2>2, <2>3 DEF t, e
<1>6. DOMAIN v = 1 .. n /\ v = [i \in 1 .. n |-> v[i]]
  <2> DEFINE T == {v[i] : i \in DOMAIN v}
  <2>1. v \in Seq(T)
    BY <1>5 DEF IsList
  <2> HIDE DEF T, v
  <2> QED BY <1>5, <2>1
<1> HIDE DEF u, v
<1>7. ASSUME NEW i \in 1 .. n PROVE u[i] = v[i]
  <2>1. CASE i = 1
    BY <1>3, <1>4, <1>5, <2>1
  <2>2. CASE i # 1
    <3>1. i \in 2 .. n /\ i - 1 \in 1 .. n - 1 /\ (i - 1) + 1 = i
      BY <1>1, <2>2
    <3> QED BY <1>1, <1>4, <1>5, <3>1
  <2> QED BY <2>1, <2>2
<1>8. u = v
  BY <1>4, <1>6, <1>7
<1> QED BY <1>8 DEF u, v

(* The first entry that is a file, or that is none.                              *)
LEMMA FirstFile ==
    ASSUME NEW st, IsList(st), \E i \in 1 .. Len(st) : IsFile(st[i])
    PROVE  LET q == SelectInSeq(st, IsFile)
           IN  q \in 1 .. Len(st) /\ IsFile(st[q]) /\ \A i \in 1 .. q - 1 : ~IsFile(st[i])
<1> DEFINE n == Len(st)
           I == {i \in 1 .. n : IsFile(st[i])}
           S == {st[i] : i \in DOMAIN st}
<1>0. n \in Nat
  <2>1. st \in Seq(S)
    BY DEF IsList
  <2> HIDE DEF S
  <2> QED BY <2>1
<1>1. I \subseteq Nat /\ I # {}
  OBVIOUS
<1> HIDE DEF S
<1>2. PICK m \in I : \A k \in I : m <= k
  <2> HIDE DEF I
  <2> QED BY <1>1, LeastNat
<1>3. Min(I) \in I /\ \A k \in I : Min(I) <= k
  <2> HIDE DEF I
  <2> QED BY <1>2 DEF Min
<1>4. SelectInSeq(st, IsFile) = Min(I)
  BY <1>1 DEF SelectInSeq
<1> DEFINE q == Min(I)
<1> HIDE DEF q
<1>5. q \in I /\ \A k \in I : q <= k
  BY <1>3 DEF q
<1>6. ASSUME NEW i \in 1 .. q - 1 PROVE ~IsFile(st[i])
  BY <1>0, <1>5
<1> QED BY <1>4, <1>5, <1>6 DEF q

LEMMA FirstElement ==
    ASSUME NEW st, IsList(st), \E i \in 1 .. Len(st) : ~IsFile(st[i])
    PROVE  LET q == SelectInSeq(st, LAMBDA entry : ~IsFile(entry))
           IN  q \in 1 .. Len(st) /\ ~IsFile(st[q]) /\ \A i \in 1 .. q - 1 : IsFile(st[i])
<1> DEFINE n == Len(st)
           I == {i \in 1 .. n : ~IsFile(st[i])}
           S == {st[i] : i \in DOMAIN st}
<1>0. n \in Nat
  <2>1. st \in Seq(S)
    BY DEF IsList
  <2> HIDE DEF S
  <2> QED BY <2>1
<1>1. I \subseteq Nat /\ I # {}
  OBVIOUS
<1> HIDE DEF S
<1>2. PICK m \in I : \A k \in I : m <= k
  <2> HIDE DEF I
  <2> QED BY <1>1, LeastNat
<1>3. Min(I) \in I /\ \A k \in I : Min(I) <= k
  <2> HIDE DEF I
  <2> QED BY <1>2 DEF Min
<1>4. SelectInSeq(st, LAMBDA entry : ~IsFile(entry)) = Min(I)
  BY <1>1 DEF SelectInSeq
<1> DEFINE q == Min(I)
<1> HIDE DEF q
<1>5. q \in I /\ \A k \in I : q <= k
  BY <1>3 DEF q
<1>6. ASSUME NEW i \in 1 .. q - 1 PROVE IsFile(st[i])
  BY <1>0, <1>5
<1> QED BY <1>4, <1>5, <1>6 DEF q


-----------------------------------------------------------------------------
(* The parser owes what the files are.                                           *)
Knows(s, st, files, scopes, r) ==
    /\ s \in Skins /\ Stack(s, st)
    /\ Owed(s, st, [files |-> files, scopes |-> scopes], Up(r))

ReadsOn == Knows(skin, reading, fileStack, scopeStack, refs)

LEMMA WholePlace ==
    ASSUME NEW s \in Skins
    PROVE  Whole(s) \in Passage(s) /\ Good(Content(s)[Whole(s)])
<1>1. /\ s.main \in DOMAIN s.at /\ s.at[s.main] \in Text /\ None \in Scope
      /\ Whole(s) = Somewhere({s.main}, s.at[s.main], None)
  BY SkinsAssumption DEF Text, Scope, Whole, Somewhere
<1>2. Stands(s, Whole(s), {s.main}, s.at[s.main], None)
  BY <1>1, Places
<1>3. Whole(s) \in Passage(s)
  BY <1>1, <1>2 DEF Stands
<1> QED BY <1>3, ContentGood

RootEntry == [el |-> Bare("wasabixml"), path |-> None, rest |-> <<>>]

LEMMA RootFacts ==
    ASSUME NEW s
    PROVE  /\ Entry(s, RootEntry) /\ ~IsFile(RootEntry)
           /\ RootEntry.rest = <<>> /\ RootEntry.el = Bare("wasabixml")
           /\ IsElement(Bare("wasabixml")) /\ Bare("wasabixml").kids = <<>>
           /\ ~IsScope(Bare("wasabixml")) /\ \A o : Noted(Bare("wasabixml"), o) = <<>>
<1> DEFINE el == Bare("wasabixml")
<1>1. IsList(<<>>)
  BY GoodOnes DEF Good, Nothing
<1>2. /\ el.kids = <<>> /\ el.id = None /\ el.tag = "wasabixml"
      /\ DOMAIN el = DOMAIN Bare("error") /\ el = [x \in DOMAIN el |-> el[x]]
  BY DEF Bare
<1>3. IsElement(el) /\ ~IsScope(el) /\ \A o : Noted(el, o) = <<>>
  BY <1>1, <1>2 DEF IsElement, Scope, IsScope, Noted
<1>4. RootEntry.el = el /\ RootEntry.path = None /\ RootEntry.rest = <<>> /\ <<>> \in Text
  BY DEF RootEntry, Text
<1> HIDE DEF el
<1>5. ~IsFile(RootEntry) /\ RootEntry = [el |-> RootEntry.el, path |-> RootEntry.path, rest |-> RootEntry.rest]
  BY <1>4 DEF IsFile, RootEntry
<1> QED BY <1>2, <1>3, <1>4, <1>5 DEF Entry, el

LEMMA OwedAtFirst ==
    ASSUME NEW s \in Skins, NEW file, file = [el |-> None, path |-> s.main, rest |-> s.at[s.main]]
    PROVE  Knows(s, <<file, RootEntry>>, <<s.main>>, <<>>, <<>>)
<1> DEFINE whole == Content(s)[Whole(s)]
           up == Unbroken(whole)
           a == [files |-> <<s.main>>, scopes |-> <<>>]
<1>1. /\ file.path = s.main /\ file.rest = s.at[s.main] /\ file.path \in DOMAIN s.at
      /\ IsFile(file) /\ Entry(s, file)
  <2>1. file.path = s.main /\ file.rest = s.at[s.main] /\ file.el = None
    OBVIOUS
  <2>2. file.path \in DOMAIN s.at /\ file.path # None /\ file.rest \in Text
    BY <2>1, SkinsAssumption DEF Text
  <2>3. IsFile(file)
    BY <2>2 DEF IsFile
  <2> QED BY <2>1, <2>2, <2>3 DEF Entry
<1>2. Around(s, Outermost) /\ Around(s, a) /\ Outermost.files = <<>> /\ Outermost.scopes = <<>>
  <2>1. Outermost.files = <<>> /\ Outermost.scopes = <<>>
    BY DEF Outermost
  <2>2. Around(s, Outermost)
    BY DEF Around, Outermost
  <2> DEFINE T == DOMAIN s.at
             m == s.main
  <2>3. m \in T
    BY SkinsAssumption
  <2> HIDE DEF T, m
  <2>4. <<m>> \in Seq(T)
    BY <2>3
  <2>5. Around(s, a)
    BY <2>4 DEF T, m, Around
  <2> QED BY <2>1, <2>2, <2>5
<1>3. Good(whole) /\ Good(up) /\ up.broken = FALSE /\ up.els = whole.els /\ up.refs = whole.refs
  <2> HIDE DEF whole
  <2>1. Good(whole)
    BY WholePlace DEF whole
  <2> QED BY <2>1, GoodOnes DEF Unbroken
<1>4. IsList(<<>>) /\ Good(Result(s)) /\ Good(Up(<<>>))
  <2>1. IsList(<<>>)
    BY GoodOnes DEF Good, Nothing
  <2>2. \A x : IsList(<<x>>)
    <3>1. ASSUME NEW x PROVE <<x>> \in Seq({x})
      OBVIOUS
    <3> QED BY <3>1, Itself
  <2>3. Result(s) = [els |-> <<WithKids(Bare("wasabixml"), whole.els)>>, refs |-> whole.refs, broken |-> FALSE]
    BY DEF Result
  <2> HIDE DEF whole
  <2>4. Good(Result(s))
    BY <1>3, <2>2, <2>3 DEF Good
  <2> QED BY <2>1, <2>4 DEF Good, Up
<1> HIDE DEF whole
<1>5. Owed(s, <<>>, Outermost, Result(s))
  <2> DEFINE g == [i \in {0} |-> [around |-> Outermost, up |-> Result(s)]]
  <2>1. g[0].around = Outermost /\ g[0].up = Result(s)
    OBVIOUS
  <2> HIDE DEF g
  <2>2. Len(<<>>) = 0 /\ 0 .. 0 = {0} /\ 1 .. 0 = {}
    OBVIOUS
  <2>3. Chain(s, <<>>, g)
    BY <1>2, <1>4, <2>1, <2>2 DEF Chain
  <2> QED BY <2>1, <2>3 DEF Owed
<1>6. Linked(s, RootEntry, Outermost, up, Outermost, Result(s))
  <2>1. /\ Entry(s, RootEntry) /\ ~IsFile(RootEntry) /\ RootEntry.rest = <<>>
        /\ RootEntry.el = Bare("wasabixml") /\ Bare("wasabixml").kids = <<>>
        /\ ~IsScope(Bare("wasabixml")) /\ \A o : Noted(Bare("wasabixml"), o) = <<>>
    BY RootFacts
  <2>2. Entered(RootEntry, Outermost) = Outermost
    BY <2>1 DEF Entered, Outermost
  <2> HIDE DEF up
  <2>3. ToCome(s, RootEntry, Outermost, up) = Nothing
    BY <1>2, <1>3, <2>1, NothingToCome
  <2>4. <<>> \o (up.els \o <<>>) = whole.els /\ (up.refs \o <<>>) \o <<>> = whole.refs
    <3> DEFINE x == whole.els
               y == whole.refs
    <3>1. IsList(x) /\ IsList(y)
      BY <1>3 DEF Good
    <3> HIDE DEF x, y
    <3>2. x \o <<>> = x /\ <<>> \o x = x /\ y \o <<>> = y
      BY <1>4, <3>1, Concats
    <3>3. up.els = x /\ up.refs = y
      BY <1>3 DEF x, y
    <3> QED BY <3>2, <3>3 DEF x, y
  <2>5. Close(RootEntry, Owner(Outermost), up, Nothing) = Result(s)
    <3>1. Nothing.els = <<>> /\ Nothing.refs = <<>> /\ Nothing.broken = FALSE
      BY DEF Nothing
    <3>2. /\ RootEntry.el.kids \o (up.els \o Nothing.els) = whole.els
          /\ (up.refs \o Nothing.refs) \o Noted(RootEntry.el, Owner(Outermost)) = whole.refs
      BY <2>1, <2>4, <3>1
    <3>3. Close(RootEntry, Owner(Outermost), up, Nothing)
          = [els |-> <<WithKids(Bare("wasabixml"), whole.els)>>, refs |-> whole.refs, broken |-> FALSE]
      BY <2>1, <3>1, <3>2 DEF Close
    <3> QED BY <3>3 DEF Result, whole
  <2> QED BY <2>2, <2>3, <2>5 DEF Linked, Closed
<1>7. Owed(s, Pushed(RootEntry, <<>>), Outermost, up)
  <2> HIDE DEF up
  <2> QED BY <1>2, <1>3, <1>4, <1>5, <1>6, OwedPush
<1>8. Linked(s, file, a, Up(<<>>), Outermost, up)
  <2>1. a = Entered(file, Outermost)
    <3>1. Append(<<>>, s.main) = <<s.main>>
      OBVIOUS
    <3> QED BY <1>1, <1>2, <3>1 DEF Entered
  <2>2. PlaceOf(a, file.rest) = Whole(s)
    <3>1. ToSet(<<s.main>>) = {s.main}
      BY DEF ToSet
    <3>2. a.files = <<s.main>> /\ Owner(a) = None
      BY DEF Owner
    <3> QED BY <1>1, <3>1, <3>2 DEF PlaceOf, Whole, Somewhere
  <2> HIDE DEF a
  <2>3. ToCome(s, file, a, Up(<<>>)) = whole
    BY <2>2 DEF ToCome, Up, whole
  <2>4. <<>> \o whole.els = whole.els /\ <<>> \o whole.refs = whole.refs
    <3> DEFINE x == whole.els
               y == whole.refs
    <3>1. IsList(x) /\ IsList(y)
      BY <1>3 DEF Good
    <3> HIDE DEF x, y
    <3>2. <<>> \o x = x /\ <<>> \o y = y
      BY <3>1, Concats
    <3> QED BY <3>2 DEF x, y
  <2>5. Close(file, Owner(a), Up(<<>>), whole) = up
    BY <1>1, <2>4 DEF Close, Up, Unbroken
  <2> QED BY <2>1, <2>3, <2>5 DEF Linked, Closed
<1> DEFINE below == Pushed(RootEntry, <<>>)
<1>9. /\ IsList(below) /\ Len(below) = 1 /\ below[1] = RootEntry
  <2>1. /\ IsList(below) /\ Len(below) = Len(<<>>) + 1 /\ below[1] = RootEntry
    BY <1>4, PushedFacts
  <2>2. Len(<<>>) = 0
    OBVIOUS
  <2> HIDE DEF below
  <2> QED BY <2>1, <2>2
<1>10. Owed(s, Pushed(file, below), a, Up(<<>>))
  <2> HIDE DEF below, up, a
  <2>1. Owed(s, below, Outermost, up)
    BY <1>7 DEF below
  <2>2. Around(s, a)
    BY <1>2
  <2>3. Linked(s, file, a, Up(<<>>), Outermost, up)
    BY <1>8
  <2> QED BY <1>4, <1>9, <2>1, <2>2, <2>3, OwedPush
<1>11. Stack(s, Pushed(file, below))
  <2>1. Stack(s, below)
    <3>1. Entry(s, RootEntry) /\ ~IsFile(RootEntry) /\ RootEntry.rest = <<>>
      BY RootFacts
    <3> HIDE DEF below
    <3>2. \A i \in 1 .. 1 : i = 1
      OBVIOUS
    <3>3. Len(below) >= 1 /\ ~(Len(below) >= 2)
      BY <1>9
    <3>4. \A i \in 1 .. Len(below) : Entry(s, below[i])
      BY <1>9, <3>1, <3>2
    <3> QED BY <1>9, <3>1, <3>3, <3>4 DEF Stack
  <2> HIDE DEF below
  <2> QED BY <1>1, <2>1, StackPush
<1>12. <<file, RootEntry>> = Pushed(file, below)
  BY DEF Pushed
<1> QED BY <1>10, <1>11, <1>12 DEF Knows

(* When only the root is left, it has come to that.                              *)
LEMMA OwedAtLast ==
    ASSUME NEW s, NEW st, NEW files, NEW scopes, NEW r, Knows(s, st, files, scopes, r), Len(st) = 1
    PROVE  Last(st).el.kids = Content(s)[Whole(s)].els /\ r = Content(s)[Whole(s)].refs
<1> DEFINE e == st[1]
           a == [files |-> files, scopes |-> scopes]
           whole == Content(s)[Whole(s)]
<1>1. /\ s \in Skins /\ IsList(st) /\ st # <<>> /\ Entry(s, e) /\ ~IsFile(e) /\ e.rest = <<>>
      /\ Owed(s, st, a, Up(r)) /\ Last(st) = e
  BY DEF Knows, Stack, Last
<1> HIDE DEF a
<1>2. st = Pushed(e, Tail(st)) /\ IsList(Tail(st)) /\ Len(Tail(st)) = 0
  BY <1>1, HeadFirst
<1> DEFINE t == Tail(st)
<1> HIDE DEF t, e
<1>3. PICK a1, up1 : Linked(s, e, a, Up(r), a1, up1) /\ Owed(s, t, a1, up1)
  <2>1. IsList(t) /\ Owed(s, Pushed(e, t), a, Up(r))
    BY <1>1, <1>2 DEF t
  <2> QED BY <2>1, OwedPop
<1>4. up1 = Result(s)
  BY <1>2, <1>3 DEF Owed, Chain, t
<1>5. Around(s, a) /\ Good(Up(r)) /\ IsList(r)
  <2>1. Around(s, a) /\ Good(Up(r))
    BY <1>1, OwedTypes
  <2> QED BY <2>1 DEF Good, Up
<1>6. Result(s) = Close(e, Owner(a), Up(r), Nothing)
  <2>1. Up(r).broken = FALSE
    BY DEF Up
  <2>2. ToCome(s, e, a, Up(r)) = Nothing
    BY <1>1, <1>5, <2>1, NothingToCome
  <2> QED BY <1>3, <1>4, <2>2 DEF Linked, Closed
<1> DEFINE root == Bare("wasabixml")
           el == e.el
           k == e.el.kids
<1>7. /\ IsElement(el) /\ IsList(k) /\ DOMAIN el = DOMAIN Bare("error")
      /\ IsElement(root) /\ DOMAIN root = DOMAIN Bare("error") /\ \A o : Noted(root, o) = <<>>
  BY <1>1, RootFacts DEF Entry, IsElement
<1> HIDE DEF root, k
<1>8. /\ Up(r).els = <<>> /\ Up(r).refs = r /\ Nothing.els = <<>> /\ Nothing.refs = <<>>
      /\ <<>> \o <<>> = <<>> /\ k \o <<>> = k /\ r \o <<>> = r
  <2>1. IsList(<<>>)
    BY GoodOnes DEF Good, Nothing
  <2> QED BY <1>5, <1>7, <2>1, Concats DEF Up, Nothing
<1>9. /\ Close(e, Owner(a), Up(r), Nothing).els = <<WithKids(el, k)>>
      /\ Close(e, Owner(a), Up(r), Nothing).refs = r \o Noted(el, Owner(a))
  BY <1>1, <1>8 DEF Close, k
<1>10. Result(s).els = <<WithKids(root, whole.els)>> /\ Result(s).refs = whole.refs
  BY DEF Result, root
<1> HIDE DEF el, whole
<1>11. WithKids(el, k) = WithKids(root, whole.els)
  BY <1>6, <1>9, <1>10
<1>12. WithKids(el, k).kids = k /\ \A o : Noted(WithKids(el, k), o) = Noted(el, o)
  BY <1>7, Rekids
<1>13. /\ WithKids(root, whole.els).kids = whole.els
       /\ \A o : Noted(WithKids(root, whole.els), o) = Noted(root, o)
  BY <1>7, Rekids
<1>14. k = whole.els /\ Noted(el, Owner(a)) = <<>>
  BY <1>7, <1>11, <1>12, <1>13
<1>15. r = whole.refs
  BY <1>6, <1>8, <1>9, <1>10, <1>14
<1> QED BY <1>1, <1>14, <1>15 DEF whole, k, el


-----------------------------------------------------------------------------
(* The steps of the parser keep to that.                                         *)
Context == [files |-> fileStack, scopes |-> scopeStack]

LEMMA AtWork ==
    ASSUME ReadsOn, ~Parsed
    PROVE  /\ skin \in Skins /\ Entry(skin, Reader) /\ IsList(Tail(reading))
           /\ Stack(skin, Tail(reading)) /\ (Len(Tail(reading)) >= 2 \/ IsFile(Reader))
           /\ reading = Pushed(Reader, Tail(reading)) /\ Stack(skin, reading) /\ Len(reading) # 1
           /\ Owed(skin, Pushed(Reader, Tail(reading)), Context, Up(refs))
           /\ Around(skin, Context)
<1>1. skin \in Skins /\ Stack(skin, reading) /\ Owed(skin, reading, Context, Up(refs)) /\ Len(reading) # 1
  BY DEF ReadsOn, Knows, Context, Parsed
<1>2. /\ reading = Pushed(reading[1], Tail(reading)) /\ Entry(skin, reading[1])
      /\ Stack(skin, Tail(reading)) /\ IsList(Tail(reading))
      /\ Len(Tail(reading)) >= 2 \/ IsFile(reading[1])
  BY <1>1, StackTop
<1>3. Owed(skin, Pushed(reading[1], Tail(reading)), Context, Up(refs))
  BY <1>1, <1>2
<1>4. Around(skin, Context)
  BY <1>1, OwedTypes DEF Stack
<1> QED BY <1>1, <1>2, <1>3, <1>4 DEF Reader

LEMMA PastStack ==
    ASSUME ReadsOn, AtTag
    PROVE  /\ Past = Pushed(Passed(Reader), Tail(reading)) /\ Stack(skin, Past)
           /\ Tag = Reader.rest[1] /\ Tag \in Nested[Nesting] /\ Reader.rest # <<>>
           /\ Len(Past) >= 2
<1>1. ~Parsed /\ Reader.rest # <<>> /\ Tag = Reader.rest[1]
  BY DEF AtTag, Tag
<1>2. /\ skin \in Skins /\ Entry(skin, Reader) /\ IsList(Tail(reading)) /\ Stack(skin, Tail(reading))
      /\ Len(Tail(reading)) >= 2 \/ IsFile(Reader)
      /\ Stack(skin, reading) /\ Len(reading) # 1 /\ Around(skin, Context)
  BY <1>1, AtWork
<1>3. Past = Pushed(Passed(Reader), Tail(reading))
  BY <1>2, PastTop DEF Past, Reader
<1>4. /\ Entry(skin, Passed(Reader)) /\ IsFile(Passed(Reader)) = IsFile(Reader)
      /\ Reader.rest[1] \in Nested[Nesting]
  BY <1>1, <1>2, TagFacts
<1>5. Stack(skin, Pushed(Passed(Reader), Tail(reading)))
  BY <1>2, <1>4, StackPush
<1>6. Len(Pushed(Passed(Reader), Tail(reading))) >= 2
  <2>1. Len(Pushed(Passed(Reader), Tail(reading))) = Len(Tail(reading)) + 1 /\ Len(Tail(reading)) \in Nat
    BY <1>2, PushedFacts
  <2>2. Len(Tail(reading)) >= 1
    BY <1>2 DEF Stack
  <2> QED BY <2>1, <2>2
<1> QED BY <1>1, <1>3, <1>4, <1>5, <1>6

LEMMA ReadElementReads ==
    ASSUME ReadsOn, ReadElement
    PROVE  ReadsOn'
<1> DEFINE new == ElementEntry(Kept(Tag, <<>>), Tag.kids)
           t == Tail(reading)
           e == Reader
<1>1. /\ AtTag /\ Tag.tag \notin {"include", "error"} /\ reading' = Pushed(new, Past)
      /\ scopeStack' = IF IsScope(Tag) THEN Append(scopeStack, Tag.id) ELSE scopeStack
      /\ skin' = skin /\ fileStack' = fileStack /\ refs' = refs /\ ~Parsed
  BY DEF ReadElement, Pushed, AtTag
<1>2. /\ skin \in Skins /\ Entry(skin, e) /\ IsList(t)
      /\ Owed(skin, Pushed(e, t), Context, Up(refs)) /\ Around(skin, Context)
  BY <1>1, AtWork
<1>3. /\ Past = Pushed(Passed(e), t) /\ Stack(skin, Past) /\ Tag = e.rest[1]
      /\ Tag \in Nested[Nesting] /\ e.rest # <<>> /\ Len(Past) >= 2
  BY <1>1, PastStack
<1>4. new = ElementEntry(Kept(e.rest[1], <<>>), e.rest[1].kids) /\ e.rest[1].tag \notin {"include", "error"}
  BY <1>1, <1>3
<1>5. new.el = Kept(Tag, <<>>)
  BY DEF ElementEntry
<1> HIDE DEF new, t, e
<1>6. /\ Entry(skin, new) /\ ~IsFile(new)
      /\ Owed(skin, Pushed(new, Pushed(Passed(e), t)), Entered(new, Context), Up(refs))
  BY <1>2, <1>3, <1>4, OwedElement
<1>7. Entered(new, Context) = [files |-> fileStack, scopes |-> scopeStack']
  <2>1. IsScope(Kept(Tag, <<>>)) = IsScope(Tag) /\ Kept(Tag, <<>>).id = Tag.id
    <3>1. /\ DOMAIN Canonised(Tag) = DOMAIN Bare("error") /\ Canonised(Tag).id = Tag.id
          /\ IsScope(Canonised(Tag)) = IsScope(Tag)
          /\ Kept(Tag, <<>>) = WithKids(Canonised(Tag), <<>>)
      BY <1>3, KeptFacts
    <3> DEFINE c == Canonised(Tag)
    <3> HIDE DEF c
    <3>2. IsScope(WithKids(c, <<>>)) = IsScope(c) /\ WithKids(c, <<>>).id = c.id
      BY <3>1, Rekids DEF c
    <3> QED BY <3>1, <3>2 DEF c
  <2> QED BY <1>1, <1>5, <1>6, <2>1 DEF Entered, Context
<1>8. Stack(skin, Pushed(new, Past))
  BY <1>3, <1>6, StackPush
<1>9. Knows(skin, Pushed(new, Past), fileStack, scopeStack', refs)
  BY <1>2, <1>3, <1>6, <1>7, <1>8 DEF Knows
<1> QED BY <1>1, <1>9 DEF ReadsOn

LEMMA ReadIncludeReads ==
    ASSUME ReadsOn, ReadInclude
    PROVE  ReadsOn'
<1> DEFINE path == Tag.of
           read == OnDisk(path) /\ ~Contains(fileStack, path)
           t == Tail(reading)
           e == Reader
<1>1. /\ AtTag /\ Tag.tag = "include" /\ ~Parsed
      /\ reading' = IF read THEN Pushed(FileEntry(path), Past) ELSE Past
      /\ fileStack' = IF read THEN Append(fileStack, path) ELSE fileStack
      /\ skin' = skin /\ scopeStack' = scopeStack /\ refs' = refs
  BY DEF ReadInclude, Pushed, AtTag
<1>2. /\ skin \in Skins /\ Entry(skin, e) /\ IsList(t)
      /\ Owed(skin, Pushed(e, t), Context, Up(refs)) /\ Around(skin, Context)
  BY <1>1, AtWork
<1>3. /\ Past = Pushed(Passed(e), t) /\ Stack(skin, Past) /\ Tag = e.rest[1]
      /\ e.rest # <<>> /\ Len(Past) >= 2
  BY <1>1, PastStack
<1>4. read <=> path \in DOMAIN skin.at \ ToSet(Context.files)
  <2>1. fileStack \in Seq(DOMAIN skin.at) /\ Context.files = fileStack
    BY <1>2 DEF Around, Context
  <2>2. Contains(fileStack, path) <=> path \in ToSet(fileStack)
    BY <2>1 DEF Contains, ToSet
  <2> QED BY <2>1, <2>2 DEF OnDisk
<1>5. e.rest[1].tag = "include" /\ e.rest[1].of = path
  BY <1>1, <1>3
<1> DEFINE new == FileEntry(path)
<1>6. new = [el |-> None, path |-> path, rest |-> skin.at[path]]
  BY DEF FileEntry
<1> HIDE DEF t, e, path, read, new
<1>7. CASE read
  <2>1. /\ Entry(skin, new) /\ IsFile(new)
        /\ Owed(skin, Pushed(new, Pushed(Passed(e), t)), Entered(new, Context), Up(refs))
    <3>1. e.rest[1].of \in DOMAIN skin.at \ ToSet(Context.files)
      BY <1>4, <1>5, <1>7
    <3>2. new = [el |-> None, path |-> e.rest[1].of, rest |-> skin.at[e.rest[1].of]]
      BY <1>5, <1>6
    <3> QED BY <1>2, <1>3, <1>5, <3>1, <3>2, OwedFile
  <2>2. Entered(new, Context) = [files |-> fileStack', scopes |-> scopeStack']
    BY <1>1, <1>6, <1>7, <2>1 DEF Entered, Context
  <2>3. Stack(skin, Pushed(new, Past))
    BY <1>3, <2>1, StackPush
  <2>4. Knows(skin, Pushed(new, Past), fileStack', scopeStack', refs)
    BY <1>2, <1>3, <2>1, <2>2, <2>3 DEF Knows
  <2> QED BY <1>1, <1>7, <2>4 DEF ReadsOn, new
<1>8. CASE ~read
  <2>1. Owed(skin, Pushed(Passed(e), t), Context, Up(refs))
    <3>1. e.rest[1].of \notin DOMAIN skin.at \ ToSet(Context.files)
      BY <1>4, <1>5, <1>8
    <3> QED BY <1>2, <1>3, <1>5, <3>1, OwedSkip
  <2>2. Knows(skin, Past, fileStack', scopeStack', refs)
    BY <1>1, <1>2, <1>3, <1>8, <2>1 DEF Knows, Context
  <2> QED BY <1>1, <1>8, <2>2 DEF ReadsOn
<1> QED BY <1>7, <1>8

LEMMA EndFileReads ==
    ASSUME ReadsOn, EndFile
    PROVE  ReadsOn'
<1> DEFINE t == Tail(reading)
           e == Reader
<1>1. /\ ~Parsed /\ e.rest = <<>> /\ IsFile(e) /\ reading' = t
      /\ fileStack' = Front(fileStack) /\ skin' = skin /\ scopeStack' = scopeStack /\ refs' = refs
  BY DEF EndFile, AtEnd
<1>2. /\ skin \in Skins /\ Entry(skin, e) /\ IsList(t) /\ Stack(skin, t)
      /\ Owed(skin, Pushed(e, t), Context, Up(refs))
  BY <1>1, AtWork
<1> HIDE DEF t, e
<1>3. Owed(skin, t, Left(e, Context), Up(refs))
  BY <1>1, <1>2, OwedEndFile
<1>4. Left(e, Context) = [files |-> fileStack', scopes |-> scopeStack']
  BY <1>1 DEF Left, Context
<1>5. Knows(skin, t, fileStack', scopeStack', refs)
  BY <1>2, <1>3, <1>4 DEF Knows
<1> QED BY <1>1, <1>5 DEF ReadsOn

LEMMA ReadErrorReads ==
    ASSUME ReadsOn, ReadError
    PROVE  ReadsOn'
<1> DEFINE q == SelectInSeq(reading, IsFile)
           n == Len(reading)
           st == reading'
<1>1. /\ AtTag /\ Tag.tag = "error" /\ ~Parsed
      /\ reading' = [i \in DOMAIN reading |->
                         IF i <= q THEN [reading[i] EXCEPT !.rest = <<>>] ELSE reading[i]]
      /\ skin' = skin /\ fileStack' = fileStack /\ scopeStack' = scopeStack /\ refs' = refs
  BY DEF ReadError, AtTag
<1>2. /\ skin \in Skins /\ Stack(skin, reading) /\ n # 1
      /\ Owed(skin, reading, Context, Up(refs))
  <2>1. Owed(skin, reading, Context, Up(refs)) /\ skin \in Skins /\ Stack(skin, reading)
    BY DEF ReadsOn, Knows, Context
  <2> QED BY <1>1, <2>1 DEF Parsed
<1>3. /\ n \in Nat /\ n >= 2 /\ DOMAIN reading = 1 .. n /\ IsList(reading)
      /\ \A i \in 1 .. n : Entry(skin, reading[i])
      /\ IsFile(reading[n - 1]) /\ ~IsFile(reading[n]) /\ reading[n].rest = <<>>
  <2> DEFINE T == {reading[i] : i \in DOMAIN reading}
  <2>1. reading \in Seq(T) /\ IsList(reading)
    BY <1>2 DEF IsList, Stack
  <2> HIDE DEF T
  <2>2. n \in Nat /\ DOMAIN reading = 1 .. n
    BY <2>1
  <2> QED BY <1>2, <2>1, <2>2 DEF Stack
<1>4. q \in 1 .. n /\ IsFile(reading[q]) /\ \A i \in 1 .. q - 1 : ~IsFile(reading[i])
  <2>1. n - 1 \in 1 .. n
    BY <1>3
  <2> QED BY <1>3, <2>1, FirstFile
<1> HIDE DEF q
<1>5. ASSUME NEW i \in 1 .. n
      PROVE  /\ st[i] = IF i <= q THEN Ended(reading[i]) ELSE reading[i]
             /\ Entry(skin, st[i]) /\ IsFile(st[i]) = IsFile(reading[i])
             /\ reading[i].rest = <<>> => st[i].rest = <<>>
  <2> DEFINE x == reading[i]
  <2>1. x = [el |-> x.el, path |-> x.path, rest |-> x.rest] /\ Entry(skin, x)
    BY <1>3 DEF Entry
  <2>2. st[i] = IF i <= q THEN [x EXCEPT !.rest = <<>>] ELSE x
    BY <1>1, <1>3
  <2> HIDE DEF x, st
  <2>3. [x EXCEPT !.rest = <<>>] = Ended(x)
    BY <2>1 DEF Ended
  <2>4. Entry(skin, Ended(x)) /\ Ended(x).rest = <<>>
    BY <2>1, EndedEntry
  <2>5. IsFile(Ended(x)) = IsFile(x)
    BY DEF Ended, IsFile
  <2> QED BY <2>1, <2>2, <2>3, <2>4, <2>5 DEF x
<1>6. IsList(st) /\ Len(st) = n
  <2> DEFINE T == {st[i] : i \in DOMAIN st}
  <2>1. DOMAIN st = 1 .. n /\ st = [i \in 1 .. n |-> st[i]]
    BY <1>1, <1>3
  <2> HIDE DEF st
  <2>2. \A i \in 1 .. n : st[i] \in T
    BY <2>1
  <2> HIDE DEF T
  <2>3. st \in [1 .. n -> T]
    BY <2>1, <2>2
  <2>4. st \in Seq(T)
    BY <1>3, <2>3, SeqDef
  <2>5. Len(st) = n
    BY <1>3, <2>1
  <2> QED BY <2>4, <2>5, Itself
<1> HIDE DEF st
<1>7. Stack(skin, st)
  <2>1. n - 1 \in 1 .. n /\ n \in 1 .. n
    BY <1>3
  <2>2. ~IsFile(st[n]) /\ st[n].rest = <<>> /\ IsFile(st[n - 1])
    BY <1>3, <1>5, <2>1
  <2> QED BY <1>3, <1>5, <1>6, <2>2 DEF Stack
<1>8. Owed(skin, st, Context, Up(refs))
  <2>1. reading[1].rest # <<>> /\ reading[1].rest[1].tag = "error"
    BY <1>1 DEF AtTag, Tag, Reader
  <2>2. \A i \in 1 .. n : st[i] = IF i <= q THEN Ended(reading[i]) ELSE reading[i]
    BY <1>5
  <2> QED BY <1>2, <1>3, <1>4, <1>6, <2>1, <2>2, OwedError
<1>9. Knows(skin, st, fileStack, scopeStack, refs)
  BY <1>2, <1>7, <1>8 DEF Knows, Context
<1> QED BY <1>1, <1>9 DEF ReadsOn, st


LEMMA EndElementReads ==
    ASSUME ReadsOn, EndElement
    PROVE  ReadsOn'
<1> DEFINE t == Tail(reading)
           e == Reader
           n == Len(reading)
           q == SelectInSeq(Tail(reading), LAMBDA entry : ~IsFile(entry))
           owner == IF scopeStack = <<>> THEN None ELSE Last(scopeStack)
           u == [reading EXCEPT ![1 + q].el.kids = Append(@, Reader.el)]
           st == Tail(u)
<1>1. /\ ~Parsed /\ e.rest = <<>> /\ ~IsFile(e) /\ reading' = st
      /\ scopeStack' = IF IsScope(e.el) THEN Front(scopeStack) ELSE scopeStack
      /\ refs' = refs \o Noted(e.el, owner) /\ skin' = skin /\ fileStack' = fileStack
  BY DEF EndElement, AtEnd
<1>2. /\ skin \in Skins /\ Entry(skin, e) /\ IsList(t) /\ Stack(skin, t)
      /\ Len(t) >= 2 \/ IsFile(e)
      /\ Owed(skin, Pushed(e, t), Context, Up(refs)) /\ Stack(skin, reading) /\ n # 1
  BY <1>1, AtWork
<1>3. /\ n \in Nat /\ Len(t) = n - 1 /\ n - 1 >= 2 /\ \A i \in 1 .. n - 1 : t[i] = reading[i + 1]
  <2>1. n \in Nat /\ Len(t) = n - 1 /\ \A i \in 1 .. n - 1 : t[i] = reading[i + 1]
    BY <1>2, StackTop
  <2> QED BY <1>1, <1>2, <2>1
<1>4. /\ q \in 1 .. Len(t) /\ ~IsFile(t[q]) /\ \A i \in 1 .. q - 1 : IsFile(t[i])
  <2>1. \E i \in 1 .. Len(t) : ~IsFile(t[i])
    <3>1. Len(t) \in 1 .. Len(t)
      BY <1>3
    <3> QED BY <1>2, <3>1 DEF Stack
  <2> QED BY <1>2, <2>1, FirstElement
<1>5. q \in Nat /\ q >= 1 /\ q <= n - 1 /\ 1 + q \in 1 .. n /\ DOMAIN reading = 1 .. n
  <2> DEFINE T == {reading[i] : i \in DOMAIN reading}
  <2>1. reading \in Seq(T)
    BY <1>2 DEF IsList, Stack
  <2> HIDE DEF T
  <2>2. DOMAIN reading = 1 .. n
    BY <2>1
  <2> HIDE DEF q
  <2> QED BY <1>3, <1>4, <2>2
<1> HIDE DEF q
<1>6. /\ DOMAIN u = 1 .. n /\ u = [i \in 1 .. n |-> u[i]]
      /\ \A i \in 1 .. n : u[i] = IF i = 1 + q THEN Given(reading[1 + q], e.el) ELSE reading[i]
  <2> DEFINE x == reading[1 + q]
             y == e.el
             z == [x EXCEPT !.el.kids = Append(@, y)]
  <2>1. u = [reading EXCEPT ![1 + q] = z]
    <3>1. u = [reading EXCEPT ![1 + q].el.kids = Append(@, y)]
      OBVIOUS
    <3> QED BY <1>5, <3>1
  <2>2. x = [el |-> x.el, path |-> x.path, rest |-> x.rest] /\ DOMAIN x.el = DOMAIN Bare("error")
    <3>1. Entry(skin, x) /\ ~IsFile(x)
      <4>1. x = t[q]
        <5>1. q \in 1 .. n - 1 /\ q + 1 = 1 + q
          BY <1>5
        <5> QED BY <1>3, <5>1
      <4> QED BY <1>2, <1>4, <4>1 DEF Stack
    <3> HIDE DEF x
    <3> QED BY <3>1 DEF Entry, IsElement
  <2>3. z = Given(x, y)
    <3> HIDE DEF x, y
    <3>1. "kids" \in DOMAIN x.el
      BY <2>2 DEF Bare
    <3>2. z.el = [x.el EXCEPT !.kids = Append(@, y)]
      BY <2>2
    <3>3. DOMAIN z = {"el", "path", "rest"} /\ z = [i \in DOMAIN z |-> z[i]] /\ z.path = x.path /\ z.rest = x.rest
      BY <2>2
    <3> HIDE DEF z
    <3>4. z.el = WithKids(x.el, Append(x.el.kids, y))
      BY <3>1, <3>2 DEF WithKids
    <3> QED BY <3>3, <3>4 DEF Given
  <2> HIDE DEF x, y, z, u
  <2>4. \A i \in 1 .. n : u[i] = IF i = 1 + q THEN z ELSE reading[i]
    BY <1>5, <2>1
  <2>5. DOMAIN u = 1 .. n /\ u = [i \in 1 .. n |-> u[i]]
    BY <1>5, <2>1
  <2> QED BY <2>3, <2>4, <2>5 DEF x, y
<1> HIDE DEF u
<1>7. IsList(u) /\ Len(u) = n /\ u # <<>>
  <2> DEFINE T == {u[i] : i \in DOMAIN u}
  <2>1. \A i \in 1 .. n : u[i] \in T
    BY <1>6
  <2> HIDE DEF T
  <2>2. u \in [1 .. n -> T]
    BY <1>6, <2>1
  <2>3. u \in Seq(T)
    BY <1>3, <2>2, SeqDef
  <2>4. Len(u) = n
    BY <1>3, <1>6
  <2> QED BY <1>3, <2>3, <2>4, Itself
<1>8. IsList(st) /\ Len(st) = n - 1 /\ \A i \in 1 .. n - 1 : st[i] = u[i + 1]
  BY <1>7, HeadFirst
<1> HIDE DEF st
<1>9. ASSUME NEW i \in 1 .. n - 1 PROVE st[i] = IF i = q THEN Given(t[q], e.el) ELSE t[i]
  <2>1. i + 1 \in 1 .. n /\ (i + 1 = 1 + q <=> i = q)
    BY <1>3, <1>5
  <2>2. st[i] = IF i = q THEN Given(reading[1 + q], e.el) ELSE reading[i + 1]
    BY <1>6, <1>8, <2>1
  <2>3. t[i] = reading[i + 1] /\ t[q] = reading[q + 1] /\ q + 1 = 1 + q
    BY <1>3, <1>5
  <2> QED BY <2>2, <2>3
<1> HIDE DEF t, e
<1>10. Owed(skin, st, Left(e, Context), Up(refs \o Noted(e.el, Owner(Context))))
  <2>1. \A i \in 1 .. Len(t) : Entry(skin, t[i])
    BY <1>2 DEF Stack
  <2>2. Len(st) = Len(t) /\ \A i \in 1 .. Len(t) : st[i] = IF i = q THEN Given(t[q], e.el) ELSE t[i]
    BY <1>3, <1>8, <1>9
  <2> QED BY <1>1, <1>2, <1>4, <1>8, <2>1, <2>2, OwedEndElement
<1>11. Stack(skin, st)
  <2> DEFINE g == Given(t[q], e.el)
  <2>1. Entry(skin, g) /\ ~IsFile(g) /\ g.rest = t[q].rest
    <3> DEFINE x == t[q]
               y == e.el
    <3>1. Entry(skin, x) /\ ~IsFile(x)
      BY <1>2, <1>4 DEF Stack
    <3> HIDE DEF x, y
    <3>2. IsElement(x.el) /\ IsList(x.el.kids) /\ DOMAIN x.el = DOMAIN Bare("error") /\ x.el.id \in Scope
      BY <3>1 DEF Entry, IsElement
    <3>3. IsList(Append(x.el.kids, y))
      <4> DEFINE k == x.el.kids
      <4>1. IsList(k)
        BY <3>2
      <4> HIDE DEF k
      <4>2. IsList(Append(k, y))
        BY <4>1, Singles
      <4> QED BY <4>2 DEF k
    <3>4. IsElement(WithKids(x.el, Append(x.el.kids, y)))
      <4> DEFINE k == Append(x.el.kids, y)
                 l == x.el
      <4>1. IsList(k) /\ l.id \in Scope /\ DOMAIN l = DOMAIN Bare("error")
        BY <3>2, <3>3
      <4> HIDE DEF k, l
      <4>2. IsElement(WithKids(l, k))
        BY <4>1, Rekids
      <4> QED BY <4>2 DEF k, l
    <3> DEFINE z == Given(x, y)
    <3>5. /\ z.el = WithKids(x.el, Append(x.el.kids, y)) /\ z.path = x.path /\ z.rest = x.rest
          /\ z = [el |-> z.el, path |-> z.path, rest |-> z.rest]
      BY DEF Given
    <3> HIDE DEF z
    <3>6. ~IsFile(z)
      BY <3>1, <3>5 DEF IsFile
    <3>7. Entry(skin, z)
      BY <3>1, <3>4, <3>5, <3>6 DEF Entry
    <3> QED BY <3>5, <3>6, <3>7 DEF z, x, y
  <2> HIDE DEF g
  <2>2. \A i \in 1 .. n - 1 : st[i] = IF i = q THEN g ELSE t[i]
    BY <1>9 DEF g
  <2>3. \A i \in 1 .. n - 1 : Entry(skin, st[i])
    BY <1>2, <1>3, <2>1, <2>2 DEF Stack
  <2>4. n - 1 \in 1 .. n - 1 /\ (n - 1) - 1 \in 1 .. n - 1
    BY <1>3
  <2>5. ~IsFile(t[n - 1]) /\ t[n - 1].rest = <<>> /\ IsFile(t[(n - 1) - 1])
    BY <1>2, <1>3 DEF Stack
  <2>6. ~IsFile(st[n - 1]) /\ st[n - 1].rest = <<>>
    BY <2>1, <2>2, <2>4, <2>5
  <2>7. IsFile(st[(n - 1) - 1])
    <3>1. (n - 1) - 1 # q
      BY <1>4, <2>5
    <3> QED BY <2>2, <2>4, <2>5, <3>1
  <2> QED BY <1>3, <1>8, <2>3, <2>6, <2>7 DEF Stack
<1>12. Left(e, Context) = [files |-> fileStack', scopes |-> scopeStack'] /\ Owner(Context) = owner
  BY <1>1 DEF Left, Context, Owner
<1>13. Knows(skin, st, fileStack', scopeStack', refs')
  BY <1>1, <1>2, <1>10, <1>11, <1>12 DEF Knows
<1> QED BY <1>1, <1>13 DEF ReadsOn

LEMMA ParserReads ==
    ASSUME ReadsOn, ParserStep \/ UNCHANGED parserVars
    PROVE  ReadsOn'
<1>1. CASE ParserStep
  BY <1>1, ReadElementReads, ReadIncludeReads, ReadErrorReads, EndElementReads, EndFileReads
     DEF ParserStep
<1>2. CASE UNCHANGED parserVars
  BY <1>2 DEF parserVars, ReadsOn
<1> QED BY <1>1, <1>2

LEMMA ParserBegins ==
    ASSUME ParserInit
    PROVE  ReadsOn
<1> DEFINE file == FileEntry(skin.main)
<1>1. /\ skin \in Skins /\ reading = <<file, RootEntry>> /\ fileStack = <<skin.main>>
      /\ scopeStack = <<>> /\ refs = <<>>
  BY DEF ParserInit, ElementEntry, RootEntry
<1>2. file = [el |-> None, path |-> skin.main, rest |-> skin.at[skin.main]]
  BY DEF FileEntry
<1> HIDE DEF file
<1>3. Knows(skin, <<file, RootEntry>>, <<skin.main>>, <<>>, <<>>)
  BY <1>1, <1>2, OwedAtFirst
<1> QED BY <1>1, <1>3 DEF ReadsOn

LEMMA ParserSplices ==
    ASSUME ReadsOn
    PROVE  FilesAreSpliced
<1> SUFFICES ASSUME Parsed
             PROVE  /\ Document.kids = Content(skin)[Whole(skin)].els
                    /\ refs = Content(skin)[Whole(skin)].refs
  BY DEF FilesAreSpliced
<1> QED BY OwedAtLast DEF ReadsOn, Parsed, Document

(* In every state, of every skin, the elements and the references that the files  *)
(* read so far put on the stack, with what each file on it still has to give, are *)
(* what the skin's text comes to when every include is replaced by its file; so a *)
(* finished read has spliced every file where its include stood, and an error     *)
(* stopped the read of everything behind it (SkinXml.cpp, parseSkinXml).          *)
THEOREM FilesSplice == Spec => []FilesAreSpliced
<1>1. Init => ReadsOn
  BY ParserBegins DEF Init
<1>2. ReadsOn /\ [Next]_vars => ReadsOn'
  <2> SUFFICES ASSUME ReadsOn, [Next]_vars
               PROVE  ReadsOn'
    OBVIOUS
  <2>1. ParserStep \/ UNCHANGED parserVars
    BY DEF Next, vars, Parse, MakeFrame, Expand, Script, Paint
  <2> QED BY <2>1, ParserReads
<1>3. ReadsOn => FilesAreSpliced
  BY ParserSplices
<1> QED BY <1>1, <1>2, <1>3, PTL DEF Spec

-----------------------------------------------------------------------------
(* The tree of a layout.  The argument: the Expander's stack is what is still to  *)
(* be put into widgets.  Every entry of it says into which widget it goes and     *)
(* what it puts there (Owes), so that the stack owes each widget a sequence of    *)
(* elements (Debt); and at every moment the elements of a widget's children, one  *)
(* after the other, followed by what the stack owes the widget, are what the      *)
(* element of the widget unfolds to (Grown).  A step either splits what is owed   *)
(* without changing it, or takes the first element of it, makes the child for it, *)
(* and owes the child all that it unfolds to.  For that to be so the names in     *)
(* flight have to be the groupdefs that are open around the widget (Sound): what  *)
(* keeps a groupdef out of itself is on the stack in the one place and in the     *)
(* tree in the other.  When the stack is empty nothing is owed, and the tree is   *)
(* the unfolding.  Steps that make no widget are steady; a script's page change   *)
(* takes one subtree away and begins another.  First: the sequences.              *)

(* The elements of a sequence that are in a set.                                  *)
AmongPieces(els, set) == [i \in DOMAIN els |-> IF els[i] \in set THEN <<els[i]>> ELSE <<>>]

(* The pieces are sequences.                                                   *)
LEMMA PiecesSeq ==
    ASSUME NEW T, NEW s \in Seq(T), NEW P
    PROVE  AmongPieces(s, P) \in Seq(Seq(T))
<1>1. \A i \in DOMAIN s : s[i] \in T
  OBVIOUS
<1>2. \A i \in DOMAIN s : (IF s[i] \in P THEN <<s[i]>> ELSE <<>>) \in Seq(T)
  BY <1>1
<1>3. DOMAIN s = 1 .. Len(s) /\ Len(s) \in Nat
  OBVIOUS
<1>4. AmongPieces(s, P) \in [1 .. Len(s) -> Seq(T)]
  BY <1>2, <1>3 DEF AmongPieces
<1> QED BY <1>3, <1>4, SeqDef

(* A sequence that is not empty is its first element and the others.              *)
LEMMA FirstAndRest ==
    ASSUME NEW T, NEW t \in Seq(T), t # <<>>
    PROVE  /\ t = <<t[1]>> \o Tail(t) /\ t[1] \in T /\ Tail(t) \in Seq(T)
           /\ Len(Tail(t)) + 1 = Len(t) /\ Len(Tail(t)) \in Nat
<1>1. Len(t) \in Nat /\ Len(t) >= 1
  OBVIOUS
<1>2. /\ t[1] \in T /\ Tail(t) \in Seq(T) /\ Len(Tail(t)) = Len(t) - 1
      /\ \A i \in 1 .. Len(t) - 1 : Tail(t)[i] = t[i + 1]
  BY <1>1
<1> DEFINE u == <<t[1]>> \o Tail(t)
<1>3. /\ u \in Seq(T) /\ Len(u) = Len(t) /\ u[1] = t[1]
      /\ \A i \in 2 .. Len(t) : u[i] = Tail(t)[i - 1]
  BY <1>1, <1>2
<1> HIDE DEF u
<1>4. \A i \in 1 .. Len(t) : u[i] = t[i]
  BY <1>1, <1>2, <1>3
<1>5. u = t
  BY <1>3, <1>4, SeqEqual
<1> QED BY <1>1, <1>2, <1>5 DEF u

(* Nothing comes of nothing, and nothing but what is in the set.                  *)
LEMMA AmongNil == \A P : Among(<<>>, P) = <<>>
<1> SUFFICES ASSUME NEW P PROVE Among(<<>>, P) = <<>>
  OBVIOUS
<1>1. AmongPieces(<<>>, P) = <<>>
  BY DEF AmongPieces
<1>2. FlattenSeq(<<>>) = <<>>
  <2>1. <<>> \in Seq(Seq({})) /\ <<>> \in Seq({})
    OBVIOUS
  <2> QED BY <2>1, FlattenCons
<1> QED BY <1>1, <1>2 DEF Among, AmongPieces

(* What comes of a sequence is what is in it and in the set.                   *)
LEMMA AmongSeq ==
    ASSUME NEW T, NEW s \in Seq(T), NEW P
    PROVE  Among(s, P) \in Seq(T) /\ ToSet(Among(s, P)) = ToSet(s) \cap P
<1> DEFINE q == AmongPieces(s, P)
<1>1. q \in Seq(Seq(T)) /\ Among(s, P) = FlattenSeq(q) /\ DOMAIN q = DOMAIN s
  BY PiecesSeq DEF Among, AmongPieces
<1>2. Among(s, P) \in Seq(T)
  BY <1>1, FlattenFacts
<1>3. ToSet(Among(s, P)) = ToSet(s) \cap P
  <2>1. ToSet(Among(s, P)) = UNION {ToSet(q[i]) : i \in DOMAIN q}
    BY <1>1, FlattenFacts
  <2>2. \A i \in DOMAIN s : ToSet(q[i]) = {s[i]} \cap P
    <3>1. ASSUME NEW i \in DOMAIN s PROVE ToSet(q[i]) = {s[i]} \cap P
      <4>1. CASE s[i] \in P
        BY <4>1 DEF AmongPieces, ToSet
      <4>2. CASE s[i] \notin P
        BY <4>2 DEF AmongPieces, ToSet
      <4> QED BY <4>1, <4>2
    <3> QED BY <3>1
  <2> HIDE DEF q
  <2>3. UNION {ToSet(q[i]) : i \in DOMAIN q} = UNION {{s[i]} \cap P : i \in DOMAIN s}
    BY <1>1, <2>2
  <2>4. ToSet(s) = {s[i] : i \in DOMAIN s}
    BY DEF ToSet
  <2> QED BY <2>1, <2>3, <2>4
<1> QED BY <1>2, <1>3

(* What comes of a sequence begins with what comes of its first element.          *)
LEMMA AmongCons ==
    ASSUME NEW T, NEW s \in Seq(T), NEW x \in T, NEW P
    PROVE  Among(<<x>> \o s, P) = IF x \in P THEN <<x>> \o Among(s, P) ELSE Among(s, P)
<1> DEFINE q == AmongPieces(s, P)
<1>0. q \in Seq(Seq(T)) /\ Among(s, P) = FlattenSeq(q) /\ DOMAIN q = DOMAIN s
  BY PiecesSeq DEF Among, AmongPieces
<1> DEFINE e == IF x \in P THEN <<x>> ELSE <<>>
           u == <<x>> \o s
           n == Len(s)
<1>1. /\ u \in Seq(T) /\ Len(u) = n + 1 /\ n \in Nat /\ u[1] = x /\ \A i \in 1 .. n : u[i + 1] = s[i]
      /\ DOMAIN s = 1 .. n /\ DOMAIN u = 1 .. n + 1
  OBVIOUS
<1>2. e \in Seq(T)
  OBVIOUS
<1> DEFINE r == <<e>> \o q
<1>3. /\ r \in Seq(Seq(T)) /\ Len(r) = n + 1 /\ r[1] = e /\ \A i \in 1 .. n : r[i + 1] = q[i]
  <2>1. Len(q) = n
    BY <1>0, <1>1
  <2> HIDE DEF q, e, n
  <2> QED BY <1>0, <1>1, <1>2, <2>1
<1>4. AmongPieces(u, P) \in Seq(Seq(T)) /\ Len(AmongPieces(u, P)) = n + 1
  <2>1. AmongPieces(u, P) \in Seq(Seq(T))
    <3> HIDE DEF u
    <3> QED BY <1>1, PiecesSeq
  <2>2. DOMAIN AmongPieces(u, P) = 1 .. n + 1
    <3> HIDE DEF u, n
    <3> QED BY <1>1 DEF AmongPieces
  <2> HIDE DEF u, n
  <2> QED BY <1>1, <2>1, <2>2
<1>5. ASSUME NEW i \in 1 .. n + 1 PROVE AmongPieces(u, P)[i] = r[i]
  <2>0. AmongPieces(u, P)[i] = IF u[i] \in P THEN <<u[i]>> ELSE <<>>
    <3> HIDE DEF u, n
    <3> QED BY <1>1 DEF AmongPieces
  <2>1. CASE i = 1
    <3> HIDE DEF u, n, r, q
    <3> QED BY <1>1, <1>3, <2>0, <2>1
  <2>2. CASE i # 1
    <3>1. i - 1 \in 1 .. n /\ (i - 1) + 1 = i
      BY <1>1, <2>2
    <3>2. q[i - 1] = IF s[i - 1] \in P THEN <<s[i - 1]>> ELSE <<>>
      BY <1>1, <3>1 DEF AmongPieces
    <3>3. u[i] = s[i - 1] /\ r[i] = q[i - 1]
      <4> HIDE DEF u, n, r, q
      <4> QED BY <1>1, <1>3, <3>1
    <3> QED BY <2>0, <3>2, <3>3
  <2> QED BY <2>1, <2>2
<1>6. AmongPieces(u, P) = r
  <2> HIDE DEF r, u, n
  <2> QED BY <1>1, <1>3, <1>4, <1>5, SeqEqual
<1>7. FlattenSeq(r) = e \o FlattenSeq(q)
  <2> HIDE DEF q, e
  <2> QED BY <1>0, <1>2, FlattenCons
<1>8. Among(u, P) = FlattenSeq(r)
  BY <1>6 DEF Among, AmongPieces
<1>9. <<>> \o Among(s, P) = Among(s, P)
  BY AmongSeq, ConcatEmptySeq
<1> QED BY <1>0, <1>7, <1>8, <1>9

(* Two sets that have the same of a sequence give the same.                    *)
LEMMA AmongSame ==
    ASSUME NEW T, NEW s \in Seq(T), NEW P, NEW Q, ToSet(s) \cap P = ToSet(s) \cap Q
    PROVE  Among(s, P) = Among(s, Q)
<1>1. \A i \in DOMAIN s : s[i] \in ToSet(s)
  BY DEF ToSet
<1>2. \A i \in DOMAIN s : (s[i] \in P) = (s[i] \in Q)
  BY <1>1
<1> QED BY <1>2 DEF Among

(* What is among both sets is among those that are among one.                     *)
LEMMA AmongAmong ==
    ASSUME NEW T, NEW s \in Seq(T), NEW P, NEW Q
    PROVE  Among(Among(s, P), Q) = Among(s, P \cap Q)
<1> DEFINE R == P \cap Q
           Alike(t) == Among(Among(t, P), Q) = Among(t, R)
           S == {n \in Nat : \A t \in Seq(T) : Len(t) = n => Alike(t)}
<1>1. 0 \in S
  <2>1. ASSUME NEW t \in Seq(T), Len(t) = 0 PROVE Alike(t)
    <3>1. t = <<>>
      BY <2>1
    <3>2. Among(<<>>, P) = <<>> /\ Among(<<>>, Q) = <<>> /\ Among(<<>>, R) = <<>>
      BY AmongNil
    <3> QED BY <3>1, <3>2
  <2> QED BY <2>1
<1>2. ASSUME NEW n \in Nat, n \in S PROVE n + 1 \in S
  <2>1. ASSUME NEW t \in Seq(T), Len(t) = n + 1 PROVE Alike(t)
    <3> DEFINE x == t[1]
               r == Tail(t)
               a == Among(r, P)
    <3>1. x \in T /\ r \in Seq(T) /\ t = <<x>> \o r /\ Len(r) = n
      <4>1. t # <<>>
        BY <2>1
      <4>2. /\ t = <<x>> \o r /\ x \in T /\ r \in Seq(T)
            /\ Len(r) + 1 = Len(t) /\ Len(r) \in Nat
        BY <4>1, FirstAndRest
      <4> HIDE DEF x, r
      <4> QED BY <2>1, <4>2
    <3> HIDE DEF x, r
    <3>2. a \in Seq(T)
      BY <3>1, AmongSeq
    <3>3. Among(<<x>> \o r, P) = IF x \in P THEN <<x>> \o a ELSE a
      BY <3>1, AmongCons
    <3>4. Among(<<x>> \o r, R) = IF x \in R THEN <<x>> \o Among(r, R) ELSE Among(r, R)
      <4> HIDE DEF R
      <4> QED BY <3>1, AmongCons
    <3>5. Among(<<x>> \o a, Q) = IF x \in Q THEN <<x>> \o Among(a, Q) ELSE Among(a, Q)
      <4> HIDE DEF a
      <4> QED BY <3>1, <3>2, AmongCons
    <3>6. Among(a, Q) = Among(r, R)
      BY <1>2, <3>1
    <3>7. (x \in R) = (x \in P /\ x \in Q)
      OBVIOUS
    <3> HIDE DEF R, a
    <3> QED BY <3>1, <3>3, <3>4, <3>5, <3>6, <3>7
  <2> HIDE DEF Alike
  <2> QED BY <2>1
<1>3. Len(s) \in S
  <2>1. Nat \subseteq S
    <3> HIDE DEF S
    <3> QED BY <1>1, <1>2, NatSet
  <2> HIDE DEF Alike
  <2>2. \A n \in Nat : n \in S
    BY <2>1
  <2>3. Len(s) \in Nat
    OBVIOUS
  <2> QED BY <2>2, <2>3
<1> QED BY <1>3

(* The elements that a document can have, by how deep the places are that their   *)
(* kids come from.                                                                *)
Leveled(s, d) == {Kept(el, Content(s)[p].els) : el \in Nested[Nesting], p \in Below(s, d)}

(* A rank is a number.                                                         *)
LEMMA RankNat ==
    ASSUME NEW s \in Skins, NEW p \in Passage(s), NEW n \in Nat
    PROVE  Rank(s, p, n) \in Nat
<1>1. IsFiniteSet(DOMAIN s.at \ p.files) /\ Nesting \in Nat
  BY FS_Subset, SkinsAssumption
<1>2. Cardinality(DOMAIN s.at \ p.files) \in Nat
  BY <1>1, FS_CardinalityType
<1>3. (Nesting + 1) * Cardinality(DOMAIN s.at \ p.files) \in Nat
  BY <1>1, <1>2
<1> QED BY <1>3 DEF Rank

(* What is below a rank is below a higher one.                                 *)
LEMMA BelowMore ==
    ASSUME NEW s \in Skins, NEW d \in Nat, NEW e \in Nat, d <= e
    PROVE  Below(s, d) \subseteq Below(s, e) /\ Leveled(s, d) \subseteq Leveled(s, e)
<1>1. ASSUME NEW p \in Below(s, d) PROVE p \in Below(s, e)
  <2>1. PICK n \in 0 .. Nesting : p.text \in Seq(Nested[n]) /\ Rank(s, p, n) < d
    BY DEF Below
  <2>2. Rank(s, p, n) < e
    <3> DEFINE r == Rank(s, p, n)
    <3>1. r < d /\ r \in Nat
      BY <2>1, RankNat DEF Below
    <3> HIDE DEF r
    <3>2. r < e
      BY <3>1
    <3> QED BY <3>2 DEF r
  <2> QED BY <2>1, <2>2 DEF Below
<1> QED BY <1>1 DEF Leveled

(* Nothing is below rank 0.                                                    *)
LEMMA NoneBelow ==
    ASSUME NEW s \in Skins
    PROVE  Below(s, 0) = {} /\ Leveled(s, 0) = {}
<1>1. ASSUME NEW p \in Below(s, 0) PROVE FALSE
  <2>1. PICK n \in 0 .. Nesting : Rank(s, p, n) < 0
    BY DEF Below
  <2>2. Rank(s, p, n) \in Nat
    BY RankNat DEF Below
  <2> QED BY <2>1, <2>2
<1> QED BY <1>1 DEF Leveled

(* What is kept of an element.                                                    *)
LEMMA AttributesOf ==
    ASSUME NEW el \in Nested[Nesting]
    PROVE  DOMAIN el = DOMAIN Bare("error")
<1>1. Nesting \in Nat /\ Nested[0] = {}
  BY SkinsAssumption
<1>2. Nesting # 0
  BY <1>1
<1>3. Nesting \in 1 .. Nesting
  BY <1>1, <1>2
<1>4. \A n \in 1 .. Nesting : \A e \in Nested[n] : DOMAIN e = DOMAIN Bare("error")
  BY SkinsAssumption
<1> QED BY <1>3, <1>4

(* An element is kept with the kids that were read for it,                     *)
LEMMA KeptKids ==
    ASSUME NEW el \in Nested[Nesting], NEW text
    PROVE  Kept(el, text).kids = text
BY AttributesOf DEF Kept, Canonised, Bare

(* with the panes it names,                                                    *)
LEMMA KeptPanes ==
    ASSUME NEW el \in Nested[Nesting], NEW text
    PROVE  Kept(el, text).panes = el.panes
BY AttributesOf DEF Kept, Canonised, Bare

(* and with its tag in its canonical form.                                     *)
LEMMA KeptTag ==
    ASSUME NEW el \in Nested[Nesting], NEW text
    PROVE  Kept(el, text).tag = canonicalTag(el.tag)
BY AttributesOf DEF Kept, Canonised, Bare

(* The elements of joined parts are those of the parts.                           *)
LEMMA JoinedIn ==
    ASSUME NEW n \in Nat, NEW parts, DOMAIN parts = 1 .. n, NEW T,
           \A i \in 1 .. n : parts[i].els \in Seq(T)
    PROVE  Joined(parts).els \in Seq(T)
<1>1. PICK f : Joined(parts) = f[1] /\ \A k \in Nat : Onward(parts, f, k)
  BY JoinedFrom
<1> DEFINE S == {m \in Nat : \A k \in Nat : k + m >= n + 1 => f[k].els \in Seq(T)}
<1>2. 0 \in S
  <2>1. ASSUME NEW k \in Nat, k >= n + 1 PROVE f[k].els \in Seq(T)
    <3>1. Onward(parts, f, k) /\ k \notin DOMAIN parts
      BY <1>1, <2>1
    <3> QED BY <3>1 DEF Onward, Nothing
  <2> QED BY <2>1
<1>3. ASSUME NEW m \in Nat, m \in S PROVE m + 1 \in S
  <2>1. ASSUME NEW k \in Nat, k + (m + 1) >= n + 1 PROVE f[k].els \in Seq(T)
    <3>1. Onward(parts, f, k) /\ f[k + 1].els \in Seq(T)
      BY <1>1, <1>3, <2>1
    <3>2. CASE k \in DOMAIN parts
      <4>1. f[k] = Followed(parts[k], f[k + 1]) /\ parts[k].els \in Seq(T)
        BY <3>1, <3>2 DEF Onward
      <4>2. CASE parts[k].broken
        BY <4>1, <4>2 DEF Followed
      <4>3. CASE ~parts[k].broken
        <5> DEFINE a == parts[k].els
                   b == f[k + 1].els
                   r == parts[k].refs \o f[k + 1].refs
        <5>1. f[k].els = a \o b
          <6>1. f[k] = [els |-> a \o b, refs |-> r, broken |-> f[k + 1].broken]
            BY <4>1, <4>3 DEF Followed
          <6> HIDE DEF a, b, r
          <6> QED BY <6>1
        <5>2. a \in Seq(T) /\ b \in Seq(T)
          BY <3>1, <4>1
        <5> HIDE DEF a, b
        <5> QED BY <5>1, <5>2
      <4> QED BY <4>2, <4>3
    <3>3. CASE k \notin DOMAIN parts
      BY <3>1, <3>3 DEF Onward, Nothing
    <3> QED BY <3>2, <3>3
  <2> HIDE DEF S
  <2> QED BY <2>1 DEF S
<1>4. n \in S
  <2> HIDE DEF S
  <2>1. Nat \subseteq S
    BY <1>2, <1>3, NatSet
  <2> QED BY <2>1
<1>5. f[1].els \in Seq(T)
  BY <1>4
<1> QED BY <1>1, <1>5

(* A text comes to elements whose kids come from deeper places.                   *)
LEMMA ContentIn ==
    ASSUME NEW s \in Skins
    PROVE  \A d \in Nat : \A p \in Below(s, d + 1) : Content(s)[p].els \in Seq(Leveled(s, d))
<1> DEFINE c == Content(s)
           S == {d \in Nat : \A p \in Below(s, d + 1) : c[p].els \in Seq(Leveled(s, d))}
<1>1. ASSUME NEW d \in Nat, NEW p \in Below(s, d + 1),
             \A q \in Below(s, d) : c[q].els \in Seq(Leveled(s, d))
      PROVE  c[p].els \in Seq(Leveled(s, d))
  <2> DEFINE parts == [i \in DOMAIN p.text |-> PartOf(s, c, p, p.text[i])]
             n == Len(p.text)
  <2>1. p \in Passage(s) /\ p.text \in Seq(Nested[Nesting])
    BY DEF Below, Passage, Text
  <2>2. DOMAIN p.text = 1 .. n /\ n \in Nat /\ DOMAIN parts = 1 .. n
    BY <2>1
  <2>3. c[p] = Joined(parts)
    BY <2>1, ContentUnfolds DEF Unfolds
  <2>4. ASSUME NEW i \in 1 .. n PROVE parts[i].els \in Seq(Leveled(s, d))
    <3> DEFINE el == p.text[i]
               in == c[Inner(p, el)]
               out == c[Outer(s, p, el)]
    <3>1. el \in Nested[Nesting] /\ i \in DOMAIN p.text
      BY <2>1, <2>2
    <3>2. Inner(p, el) \in Below(s, d) /\ (Includes(s, p, el) => Outer(s, p, el) \in Below(s, d))
      BY <3>1, PlacesBelow
    <3>3. Good(in) /\ (Includes(s, p, el) => Good(out))
      BY <3>2, ContentGood DEF Below
    <3>4. parts[i] = CASE el.tag = "error" -> Break
                       [] el.tag = "include" -> IF Includes(s, p, el) THEN Unbroken(out) ELSE Nothing
                       [] OTHER -> KeptIn(el, in, p.scope)
      <4>1. parts[i] = PartOf(s, c, p, el)
        BY <3>1
      <4> HIDE DEF el, parts
      <4> QED BY <3>3, <4>1, PartForms
    <3>9. Break.els = <<>> /\ Nothing.els = <<>> /\ <<>> \in Seq(Leveled(s, d))
      BY DEF Break, Nothing
    <3>5. CASE el.tag = "error"
      <4>1. parts[i] = Break
        BY <3>4, <3>5
      <4> HIDE DEF parts
      <4> QED BY <3>9, <4>1
    <3>6. CASE el.tag = "include" /\ Includes(s, p, el)
      <4>1. parts[i].els = out.els
        BY <3>4, <3>6 DEF Unbroken
      <4> QED BY <1>1, <3>2, <3>6, <4>1
    <3>7. CASE el.tag = "include" /\ ~Includes(s, p, el)
      <4>1. parts[i] = Nothing
        BY <3>4, <3>7
      <4> HIDE DEF parts
      <4> QED BY <3>9, <4>1
    <3>8. CASE el.tag \notin {"include", "error"}
      <4>1. parts[i].els = <<Kept(el, in.els)>>
        BY <3>4, <3>8 DEF KeptIn
      <4>2. Kept(el, in.els) \in Leveled(s, d)
        BY <3>1, <3>2 DEF Leveled
      <4> HIDE DEF parts, el, in
      <4> QED BY <4>1, <4>2
    <3> QED BY <3>5, <3>6, <3>7, <3>8
  <2> HIDE DEF parts, n, c
  <2>5. Joined(parts).els \in Seq(Leveled(s, d))
    BY <2>2, <2>4, JoinedIn
  <2> QED BY <2>3, <2>5
<1>2. 0 \in S
  <2>1. \A q \in Below(s, 0) : c[q].els \in Seq(Leveled(s, 0))
    BY NoneBelow
  <2> HIDE DEF c
  <2> QED BY <1>1, <2>1
<1>3. ASSUME NEW d \in Nat, d \in S PROVE d + 1 \in S
  <2>1. Leveled(s, d) \subseteq Leveled(s, d + 1)
    BY BelowMore
  <2>2. ASSUME NEW q \in Below(s, d + 1) PROVE c[q].els \in Seq(Leveled(s, d + 1))
    <3>1. c[q].els \in Seq(Leveled(s, d))
      BY <1>3
    <3> HIDE DEF c
    <3> QED BY <2>1, <3>1, SeqMonotonic
  <2> HIDE DEF c
  <2> QED BY <1>1, <2>2
<1>4. Nat \subseteq S
  <2> HIDE DEF S
  <2> QED BY <1>2, <1>3, NatSet
<1> QED BY <1>4

(* The kids of an element come from a place that is deeper.                       *)
LEMMA LeveledKids ==
    ASSUME NEW s \in Skins, NEW d \in Nat, NEW e \in Leveled(s, d + 1)
    PROVE  e.kids \in Seq(Leveled(s, d))
<1>1. PICK el \in Nested[Nesting], p \in Below(s, d + 1) : e = Kept(el, Content(s)[p].els)
  BY DEF Leveled
<1>2. Content(s)[p].els \in Seq(Leveled(s, d))
  BY ContentIn
<1> QED BY <1>1, <1>2, KeptKids

(* So the elements of a level have kids of that level.                         *)
LEMMA LeveledClosed ==
    ASSUME NEW s \in Skins, NEW d \in Nat, NEW e \in Leveled(s, d)
    PROVE  e.kids \in Seq(Leveled(s, d))
<1>1. d # 0
  BY NoneBelow
<1>2. d - 1 \in Nat /\ (d - 1) + 1 = d /\ d - 1 <= d
  BY <1>1
<1>3. e.kids \in Seq(Leveled(s, d - 1))
  <2> DEFINE c == d - 1
  <2>1. c \in Nat /\ e \in Leveled(s, c + 1)
    BY <1>2
  <2> HIDE DEF c
  <2>2. e.kids \in Seq(Leveled(s, c))
    BY <2>1, LeveledKids
  <2> QED BY <2>2 DEF c
<1>4. Leveled(s, d - 1) \subseteq Leveled(s, d)
  BY <1>2, BelowMore
<1> QED BY <1>3, <1>4, SeqMonotonic

-----------------------------------------------------------------------------
(* A path, from the text it starts in.                                            *)
Walk(at, path, text, scope) ==
    /\ at[0] = [els |-> text, scope |-> scope]
    /\ \A n \in 1 .. Len(path) : at[n] = Into(at[n - 1], path[n])

(* The texts there can be on the way, each with the scope it is in.            *)
Spot0(L, scope) ==
    [els : Seq(L), scope : {scope, None} \cup {e.id : e \in L}]

Walked(at, L, text, scope, path) ==
    /\ Walk(at, path, text, scope) /\ Descend(text, scope, path) = at[Len(path)]
    /\ \A n \in 0 .. Len(path) : at[n] \in Spot0(L, scope)

(* A text of those elements in one of their scopes is such a spot.             *)
LEMMA SpotIn ==
    ASSUME NEW L, NEW scope, NEW a \in Seq(L), NEW b \in {scope, None} \cup {e.id : e \in L}
    PROVE  [els |-> a, scope |-> b] \in Spot0(L, scope)
BY DEF Spot0

(* A step into an element leads from spot to spot.                             *)
LEMMA IntoStays ==
    ASSUME NEW L, \A e \in L : e.kids \in Seq(L), NEW scope, NEW at \in Spot0(L, scope), NEW i
    PROVE  Into(at, i) \in Spot0(L, scope)
<1>1. at.els \in Seq(L) /\ at.scope \in {scope, None} \cup {e.id : e \in L}
  BY DEF Spot0
<1>2. Bare("none").kids = <<>> /\ Bare("none").id = None /\ <<>> \in Seq(L)
  BY DEF Bare
<1>3. CASE i \in DOMAIN at.els
  <2>1. at.els[i] \in L
    BY <1>1, <1>3
  <2> DEFINE e == at.els[i]
             sc == IF IsScope(e) THEN e.id ELSE at.scope
  <2>2. Into(at, i) = [els |-> e.kids, scope |-> sc]
    BY <1>3 DEF Into
  <2>3. e.kids \in Seq(L) /\ sc \in {scope, None} \cup {x.id : x \in L}
    BY <1>1, <2>1
  <2> HIDE DEF e, sc
  <2> DEFINE a == e.kids
  <2>4. a \in Seq(L) /\ Into(at, i) = [els |-> a, scope |-> sc]
    BY <2>2, <2>3
  <2> HIDE DEF a
  <2>5. [els |-> a, scope |-> sc] \in Spot0(L, scope)
    BY <2>3, <2>4, SpotIn
  <2> QED BY <2>4, <2>5
<1>4. CASE i \notin DOMAIN at.els
  <2> DEFINE e == Bare("none")
             sc == IF IsScope(e) THEN e.id ELSE at.scope
  <2>2. Into(at, i) = [els |-> e.kids, scope |-> sc]
    BY <1>4 DEF Into
  <2>3. e.kids \in Seq(L) /\ sc \in {scope, None} \cup {x.id : x \in L}
    BY <1>1, <1>2
  <2> HIDE DEF e, sc
  <2> DEFINE a == e.kids
  <2>4. a \in Seq(L) /\ Into(at, i) = [els |-> a, scope |-> sc]
    BY <2>2, <2>3
  <2> HIDE DEF a
  <2>5. [els |-> a, scope |-> sc] \in Spot0(L, scope)
    BY <2>3, <2>4, SpotIn
  <2> QED BY <2>4, <2>5
<1> QED BY <1>3, <1>4

(* A walk along a path ends where Descend says.                                *)
LEMMA DescendWalks ==
    ASSUME NEW L, \A e \in L : e.kids \in Seq(L), NEW text \in Seq(L), NEW scope,
           NEW path \in Seq(Nat)
    PROVE  \E at : Walked(at, L, text, scope, path)
<1> DEFINE V == Spot0(L, scope)
           m == Len(path)
           c == [els |-> text, scope |-> scope]
           step == [n \in Nat |-> [at \in V |-> Into(at, path[n + 1])]]
           Eq(f) == f = [n \in 0 .. m |-> IF n = 0 THEN [els |-> text, scope |-> scope]
                                         ELSE Into(f[n - 1], path[n])]
<1>1. c \in V
  BY SpotIn
<1>2. step \in [Nat -> [V -> V]]
  BY IntoStays
<1>3. m \in Nat
  OBVIOUS
<1>4. PICK g : RecursionUpTo(g, m, V, c, step)
  <2> HIDE DEF V, m, c, step
  <2> QED BY <1>1, <1>2, <1>3, RecursionTo
<1>5. /\ g \in [0 .. m -> V] /\ g[0] = c /\ \A n \in 1 .. m : g[n] = Into(g[n - 1], path[n])
  <2>1. g \in [0 .. m -> V] /\ g[0] = c /\ \A n \in 1 .. m : g[n] = step[n - 1][g[n - 1]]
    BY <1>4 DEF RecursionUpTo
  <2>2. ASSUME NEW n \in 1 .. m PROVE g[n] = Into(g[n - 1], path[n])
    <3>1. n - 1 \in Nat /\ n - 1 \in 0 .. m /\ (n - 1) + 1 = n
      BY <1>3
    <3> HIDE DEF V, m
    <3>2. g[n - 1] \in V
      BY <2>1, <3>1
    <3> QED BY <2>1, <3>1, <3>2
  <2> QED BY <2>1, <2>2
<1>6. Eq(g)
  <2>1. g = [n \in 0 .. m |-> g[n]]
    <3> HIDE DEF V, m
    <3> QED BY <1>5
  <2>2. ASSUME NEW n \in 0 .. m
        PROVE  g[n] = IF n = 0 THEN [els |-> text, scope |-> scope] ELSE Into(g[n - 1], path[n])
    <3>1. n = 0 \/ n \in 1 .. m
      BY <1>3
    <3> HIDE DEF V, m
    <3> QED BY <1>5, <3>1 DEF c
  <2> HIDE DEF V, m
  <2> QED BY <2>1, <2>2
<1> DEFINE f == CHOOSE f : Eq(f)
<1>7. Eq(f)
  <2> HIDE DEF Eq
  <2> QED BY <1>6
<1>8. Descend(text, scope, path) = f[Len(path)]
  BY DEF Descend
<1> HIDE DEF f
<1>9. /\ f[0] = [els |-> text, scope |-> scope]
      /\ \A n \in 1 .. m : f[n] = Into(f[n - 1], path[n])
  <2>1. 0 \in 0 .. m /\ \A n \in 1 .. m : n \in 0 .. m /\ n # 0
    BY <1>3
  <2>2. f = [n \in 0 .. m |-> IF n = 0 THEN [els |-> text, scope |-> scope] ELSE Into(f[n - 1], path[n])]
    BY <1>7
  <2>3. f[0] = [els |-> text, scope |-> scope]
    <3> HIDE DEF m
    <3> QED BY <2>1, <2>2
  <2>4. ASSUME NEW n \in 1 .. m PROVE f[n] = Into(f[n - 1], path[n])
    <3> HIDE DEF m
    <3> QED BY <2>1, <2>2
  <2> QED BY <2>3, <2>4
<1> DEFINE S == {n \in Nat : n <= m => f[n] \in V}
<1>10. 0 \in S
  BY <1>1, <1>9
<1>11. ASSUME NEW n \in Nat, n \in S PROVE n + 1 \in S
  <2> SUFFICES ASSUME n + 1 <= m PROVE f[n + 1] \in V
    OBVIOUS
  <2>1. n + 1 \in 1 .. m /\ (n + 1) - 1 = n /\ n <= m
    BY <1>3
  <2>2. f[n + 1] = Into(f[n], path[n + 1])
    <3>1. f[n + 1] = Into(f[(n + 1) - 1], path[n + 1])
      BY <1>9, <2>1
    <3> QED BY <2>1, <3>1
  <2> HIDE DEF m
  <2> QED BY <1>11, <2>1, <2>2, IntoStays
<1>12. \A n \in 0 .. m : f[n] \in V
  <2>1. Nat \subseteq S
    <3> HIDE DEF S
    <3> QED BY <1>10, <1>11, NatSet
  <2> HIDE DEF V, m
  <2> QED BY <2>1, <1>3
<1> QED BY <1>8, <1>9, <1>12 DEF Walk, Walked

(* A step further along a path is a step into the element there.                  *)
LEMMA DescendFurther ==
    ASSUME NEW L, \A e \in L : e.kids \in Seq(L), NEW text \in Seq(L), NEW scope,
           NEW path \in Seq(Nat), NEW i \in Nat
    PROVE  /\ Descend(text, scope, <<>>) = [els |-> text, scope |-> scope]
           /\ Descend(text, scope, path).els \in Seq(L)
           /\ Descend(text, scope, Append(path, i)) = Into(Descend(text, scope, path), i)
<1>1. Descend(text, scope, <<>>) = [els |-> text, scope |-> scope]
  <2>1. <<>> \in Seq(Nat) /\ Len(<<>>) = 0
    OBVIOUS
  <2> DEFINE none == <<>>
  <2> HIDE DEF none
  <2>2. PICK at : Walked(at, L, text, scope, none)
    <3>1. none \in Seq(Nat)
      BY <2>1 DEF none
    <3> QED BY <3>1, DescendWalks
  <2> QED BY <2>1, <2>2 DEF Walk, Walked, none
<1>2. PICK at : Walked(at, L, text, scope, path)
  BY DescendWalks
<1> DEFINE m == Len(path)
           more == Append(path, i)
<1>3. m \in Nat /\ more \in Seq(Nat) /\ Len(more) = m + 1 /\ more[m + 1] = i
      /\ \A n \in 1 .. m : more[n] = path[n]
  OBVIOUS
<1>4. PICK bt : Walked(bt, L, text, scope, more)
  <2> HIDE DEF more
  <2> QED BY <1>3, DescendWalks
<1> HIDE DEF more
<1> DEFINE S == {n \in Nat : n <= m => bt[n] = at[n]}
<1>5. 0 \in S
  BY <1>2, <1>4 DEF Walk, Walked
<1>6. ASSUME NEW n \in Nat, n \in S PROVE n + 1 \in S
  <2> SUFFICES ASSUME n + 1 <= m PROVE bt[n + 1] = at[n + 1]
    OBVIOUS
  <2> DEFINE k == n + 1
  <2>1. k \in 1 .. m /\ k \in 1 .. m + 1 /\ k - 1 = n /\ n <= m
    BY <1>3
  <2> HIDE DEF k, m
  <2>2. bt[k] = Into(bt[k - 1], more[k]) /\ at[k] = Into(at[k - 1], path[k])
    BY <1>2, <1>3, <1>4, <2>1 DEF Walk, Walked, m
  <2>3. bt[k] = at[k]
    BY <1>3, <1>6, <2>1, <2>2
  <2> QED BY <2>3 DEF k
<1>7. bt[m] = at[m]
  <2>1. Nat \subseteq S
    <3> HIDE DEF S
    <3> QED BY <1>5, <1>6, NatSet
  <2> QED BY <1>3, <2>1
<1>8. bt[m + 1] = Into(bt[m], i)
  <2> DEFINE k == m + 1
  <2>1. k \in 1 .. Len(more) /\ k - 1 = m
    BY <1>3
  <2> HIDE DEF m, k
  <2>2. bt[k] = Into(bt[k - 1], more[k]) /\ more[k] = i
    BY <1>3, <1>4, <2>1 DEF Walk, Walked, k
  <2>3. bt[k] = Into(bt[m], i)
    BY <2>1, <2>2
  <2> QED BY <2>3 DEF k
<1>9. at[m].els \in Seq(L)
  <2>1. at[m] \in Spot0(L, scope)
    BY <1>2, <1>3 DEF Walked
  <2> QED BY <2>1 DEF Spot0
<1> QED BY <1>1, <1>2, <1>3, <1>4, <1>7, <1>8, <1>9 DEF more, Walked

(* The elements there can be, and what is made of a name.                         *)
GroupFor(name) == [Bare("group") EXCEPT !.id = name, !.of = name]

Elements ==
    (UNION {Leveled(sd[1], sd[2]) : sd \in Skins \X Nat}) \cup {GroupFor(name) : name \in DOMAIN Lower}

(* The elements of a level are elements.                                       *)
LEMMA LeveledElements ==
    ASSUME NEW s \in Skins, NEW d \in Nat
    PROVE  Leveled(s, d) \subseteq Elements
<1>1. <<s, d>> \in Skins \X Nat /\ <<s, d>>[1] = s /\ <<s, d>>[2] = d
  OBVIOUS
<1>2. Leveled(s, d) \in {Leveled(sd[1], sd[2]) : sd \in Skins \X Nat}
  BY <1>1
<1> QED BY <1>2 DEF Elements

(* Their kids are elements, and what a frame has for panes are names.             *)
LEMMA ElementsHold ==
    ASSUME NEW e \in Elements
    PROVE  e.kids \in Seq(Elements) /\ e.panes \in Seq(DOMAIN Lower)
<1>1. CASE \E sd \in Skins \X Nat : e \in Leveled(sd[1], sd[2])
  <2>1. PICK s \in Skins, d \in Nat : e \in Leveled(s, d)
    BY <1>1
  <2>2. e.kids \in Seq(Leveled(s, d)) /\ Leveled(s, d) \subseteq Elements
    BY <2>1, LeveledClosed, LeveledElements
  <2>3. e.kids \in Seq(Elements)
    BY <2>2, SeqMonotonic
  <2>4. PICK el \in Nested[Nesting], p \in Below(s, d) : e = Kept(el, Content(s)[p].els)
    BY <2>1 DEF Leveled
  <2>5. e.panes = el.panes
    BY <2>4, KeptPanes
  <2> QED BY <2>3, <2>5, NamesAssumption
<1>2. CASE \E name \in DOMAIN Lower : e = GroupFor(name)
  <2>1. e.kids = <<>> /\ e.panes = <<>>
    BY <1>2 DEF GroupFor, Bare
  <2> QED BY <2>1
<1>3. \/ \E sd \in Skins \X Nat : e \in Leveled(sd[1], sd[2])
      \/ \E name \in DOMAIN Lower : e = GroupFor(name)
  <2> DEFINE A == UNION {Leveled(sd[1], sd[2]) : sd \in Skins \X Nat}
             B == {GroupFor(name) : name \in DOMAIN Lower}
  <2>1. e \in A \/ e \in B
    <3>1. e \in A \cup B
      BY DEF Elements
    <3> HIDE DEF A, B
    <3> QED BY <3>1
  <2>2. CASE e \in A
    <3>1. PICK S \in {Leveled(sd[1], sd[2]) : sd \in Skins \X Nat} : e \in S
      BY <2>2
    <3> QED BY <3>1
  <2>3. CASE e \in B
    BY <2>3
  <2> HIDE DEF A, B
  <2> QED BY <2>1, <2>2, <2>3
<1> QED BY <1>1, <1>2, <1>3

(* The elements of a skin that has been read.                                     *)
LEMMA DocumentIn ==
    ASSUME skin \in Skins, FilesAreSpliced, Parsed
    PROVE  \E d \in Nat : Document.kids \in Seq(Leveled(skin, d))
<1> DEFINE p == Whole(skin)
<1>1. p \in Passage(skin)
  <2>1. skin.main \in DOMAIN skin.at /\ skin.at[skin.main] \in Seq(Nested[Nesting])
    BY SkinsAssumption
  <2> QED BY <2>1 DEF Whole, Passage, Text, Scope
<1>2. PICK d \in Nat : Passage(skin) = Below(skin, d + 1)
  BY AllBelow
<1> HIDE DEF p
<1>3. Content(skin)[p].els \in Seq(Leveled(skin, d))
  BY <1>1, <1>2, ContentIn
<1>4. Document.kids = Content(skin)[p].els
  BY DEF FilesAreSpliced, p
<1> QED BY <1>3, <1>4

-----------------------------------------------------------------------------
(* Everything under an element is an element.                                     *)
UnderAt(under, text, path) ==
    [i \in DOMAIN ElementsAt(text, path) |-> <<ElementsAt(text, path)[i]>> \o under[Append(path, i)]]

(* What is under the elements of a text, if what is under each of their kids   *)
(* is known.                                                                   *)
LEMMA UnderAtSeq ==
    ASSUME NEW L, NEW text, NEW path \in Seq(Nat), ElementsAt(text, path) \in Seq(L), NEW f,
           \A i \in DOMAIN ElementsAt(text, path) : f[Append(path, i)] \in Seq(L)
    PROVE  FlattenSeq(UnderAt(f, text, path)) \in Seq(L)
<1> DEFINE els == ElementsAt(text, path)
           q == UnderAt(f, text, path)
<1>1. els \in Seq(L) /\ DOMAIN els = 1 .. Len(els) /\ Len(els) \in Nat
  OBVIOUS
<1>2. ASSUME NEW i \in DOMAIN els PROVE <<els[i]>> \o f[Append(path, i)] \in Seq(L)
  <2> DEFINE a == <<els[i]>>
             b == f[Append(path, i)]
  <2>1. els[i] \in L
    BY <1>1
  <2>2. a \in Seq(L) /\ b \in Seq(L)
    BY <2>1
  <2> HIDE DEF a, b
  <2> QED BY <2>2 DEF a, b
<1>3. q = [i \in DOMAIN els |-> <<els[i]>> \o f[Append(path, i)]]
  BY DEF UnderAt
<1> HIDE DEF q, els
<1>4. q \in [1 .. Len(els) -> Seq(L)]
  BY <1>1, <1>2, <1>3
<1>5. q \in Seq(Seq(L))
  BY <1>1, <1>4, SeqDef
<1> QED BY <1>5, FlattenFacts DEF q

UnderFrom(under, text) ==
    \A path \in Seq(Nat) : under[path] = FlattenSeq(UnderAt(under, text, path))

(* How far it is from an element to the last under it.                            *)
LEMMA PathRanks ==
    ASSUME NEW s \in Skins, NEW d \in Nat, NEW text \in Seq(Leveled(s, d))
    PROVE  \E rank \in [Seq(Nat) -> Nat] :
              \A path \in Seq(Nat) :
                 /\ ElementsAt(text, path) \in Seq(Leveled(s, d))
                 /\ \A i \in DOMAIN ElementsAt(text, path) : rank[Append(path, i)] < rank[path]
<1> DEFINE L == Leveled(s, d)
           At(path) == ElementsAt(text, path)
           T(path) == {e \in Nat : At(path) \in Seq(Leveled(s, e))}
           least(path) == CHOOSE m \in T(path) : \A k \in T(path) : m <= k
           rank == [path \in Seq(Nat) |-> least(path)]
<1>1. \A e \in L : e.kids \in Seq(L)
  BY LeveledClosed
<1>2. ASSUME NEW path \in Seq(Nat), NEW i \in Nat
      PROVE  At(path) \in Seq(L) /\ At(Append(path, i)) = Into(Descend(text, None, path), i).els
  <2> HIDE DEF L
  <2>1. text \in Seq(L)
    BY DEF L
  <2>2. /\ Descend(text, None, path).els \in Seq(L)
        /\ Descend(text, None, Append(path, i)) = Into(Descend(text, None, path), i)
    BY <1>1, <2>1, DescendFurther
  <2> QED BY <2>2 DEF ElementsAt
<1>3. ASSUME NEW path \in Seq(Nat)
      PROVE  /\ least(path) \in T(path) /\ least(path) \in Nat
             /\ \A k \in T(path) : least(path) <= k
  <2>1. 0 \in Nat
    OBVIOUS
  <2>2. d \in T(path)
    BY <1>2, <2>1
  <2>3. T(path) \subseteq Nat /\ T(path) # {}
    BY <2>2
  <2> DEFINE U == T(path)
  <2> HIDE DEF T
  <2>4. \E m \in U : \A k \in U : m <= k
    BY <2>3, LeastNat
  <2> QED BY <2>3, <2>4
<1>4. ASSUME NEW path \in Seq(Nat), NEW i \in DOMAIN At(path)
      PROVE  least(Append(path, i)) < least(path)
  <2> DEFINE e == least(path)
             next == Append(path, i)
             x == At(path)[i]
  <2>1. At(path) \in Seq(Leveled(s, e)) /\ e \in Nat
    BY <1>3
  <2>2. i \in Nat /\ x \in Leveled(s, e)
    <3> DEFINE a == At(path)
    <3>1. a \in Seq(Leveled(s, e)) /\ i \in DOMAIN a
      BY <2>1
    <3> HIDE DEF a, e
    <3>2. i \in Nat /\ a[i] \in Leveled(s, e)
      BY <3>1
    <3> QED BY <3>2 DEF a
  <2>3. e # 0
    BY <2>2, NoneBelow
  <2>4. next \in Seq(Nat)
    BY <2>2
  <2>5. At(next) = x.kids
    <3>1. At(next) = Into(Descend(text, None, path), i).els
      BY <1>2, <2>2
    <3> QED BY <3>1 DEF Into, ElementsAt
  <2>6. At(next) \in Seq(Leveled(s, e - 1)) /\ e - 1 \in Nat
    <3> DEFINE c == e - 1
    <3> HIDE DEF e
    <3>1. c \in Nat /\ c + 1 = e
      BY <2>1, <2>3
    <3> HIDE DEF c, x, At
    <3>2. x.kids \in Seq(Leveled(s, c))
      BY <2>2, <3>1, LeveledKids
    <3> QED BY <2>5, <3>1, <3>2 DEF c
  <2>7. e - 1 \in T(next)
    BY <2>6
  <2>8. least(next) <= e - 1 /\ least(next) \in Nat
    <3> HIDE DEF least, T, next
    <3> QED BY <1>3, <2>4, <2>7
  <2> DEFINE a == least(next)
  <2>9. a <= e - 1 /\ a \in Nat
    BY <2>8
  <2> HIDE DEF a, e
  <2>10. a < e
    BY <2>1, <2>9
  <2> QED BY <2>10 DEF a, e
<1>5. rank \in [Seq(Nat) -> Nat] /\ \A path \in Seq(Nat) : rank[path] = least(path)
  <2> HIDE DEF least
  <2> QED BY <1>3
<1>6. ASSUME NEW path \in Seq(Nat)
      PROVE  /\ At(path) \in Seq(L)
             /\ \A i \in DOMAIN At(path) : rank[Append(path, i)] < rank[path]
  <2>1. At(path) \in Seq(L)
    BY <1>2
  <2>2. ASSUME NEW i \in DOMAIN At(path) PROVE rank[Append(path, i)] < rank[path]
    <3>1. i \in Nat
      <4> DEFINE a == At(path)
      <4> HIDE DEF a, L
      <4>1. a \in Seq(L) /\ i \in DOMAIN a
        BY <2>1 DEF a
      <4> QED BY <4>1
    <3>2. Append(path, i) \in Seq(Nat)
      BY <3>1
    <3> HIDE DEF least, rank
    <3> QED BY <1>4, <1>5, <3>2
  <2> QED BY <2>1, <2>2
<1> HIDE DEF rank, L
<1> QED BY <1>5, <1>6 DEF L

(* The elements under one are found by going down every path.                     *)
LEMMA UnderUnfolds ==
    ASSUME NEW s \in Skins, NEW d \in Nat, NEW el, el.kids \in Seq(Leveled(s, d))
    PROVE  \E u \in [Seq(Nat) -> Seq(Leveled(s, d))] : UnderFrom(u, el.kids) /\ Under(el) = u[<<>>]
<1> DEFINE L == Leveled(s, d)
           V == Seq(L)
           Dom == Seq(Nat)
           text == el.kids
           c == <<>>
           At(path) == ElementsAt(text, path)
           step == [f \in [Dom -> V] |-> [path \in Dom |-> FlattenSeq(UnderAt(f, text, path))]]
           Eq(f) == f = [path \in Seq(Nat) |->
                            LET els == ElementsAt(el.kids, path)
                            IN  FlattenSeq([i \in DOMAIN els |-> <<els[i]>> \o f[Append(path, i)]])]
<1>1. PICK rank \in [Dom -> Nat] :
          \A path \in Dom : /\ At(path) \in V
                            /\ \A i \in DOMAIN At(path) : rank[Append(path, i)] < rank[path]
  BY PathRanks
<1>2. ASSUME NEW path \in Dom, NEW i \in DOMAIN At(path) PROVE Append(path, i) \in Dom
  <2> DEFINE a == At(path)
  <2>1. a \in Seq(L) /\ i \in DOMAIN a
    BY <1>1, <1>2
  <2> HIDE DEF a, L
  <2>2. i \in Nat
    BY <2>1
  <2> QED BY <2>2
<1>3. ASSUME NEW f, NEW path \in Dom, \A i \in DOMAIN At(path) : f[Append(path, i)] \in V
      PROVE  FlattenSeq(UnderAt(f, text, path)) \in V
  <2> HIDE DEF text, L
  <2> QED BY <1>1, <1>3, UnderAtSeq
<1>4. step \in [[Dom -> V] -> [Dom -> V]]
  <2>1. ASSUME NEW f \in [Dom -> V], NEW path \in Dom PROVE FlattenSeq(UnderAt(f, text, path)) \in V
    <3> HIDE DEF V, text, At
    <3>1. \A i \in DOMAIN At(path) : f[Append(path, i)] \in V
      <4> HIDE DEF Dom
      <4> QED BY <1>2
    <3> QED BY <1>3, <3>1
  <2> HIDE DEF V, text, Dom
  <2> QED BY <2>1
<1>5. ASSUME NEW f \in [Dom -> V], NEW g \in [Dom -> V], NEW x \in Dom, SameBelow(f, g, Dom, rank, x)
      PROVE  step[f][x] = step[g][x]
  <2>1. ASSUME NEW i \in DOMAIN At(x) PROVE f[Append(x, i)] = g[Append(x, i)]
    <3>1. Append(x, i) \in Dom /\ rank[Append(x, i)] < rank[x]
      BY <1>1, <1>2
    <3> QED BY <1>5, <3>1 DEF SameBelow
  <2>2. UnderAt(f, text, x) = UnderAt(g, text, x)
    BY <2>1 DEF UnderAt
  <2> HIDE DEF V, Dom, text
  <2> QED BY <2>2
<1>6. PICK u \in [Dom -> V] : u = step[u]
  <2>1. c \in V
    OBVIOUS
  <2>2. Localised(step, Dom, V, rank)
    <3> HIDE DEF V, Dom, step
    <3> QED BY <1>4, <1>5 DEF Localised
  <2> HIDE DEF V, Dom, c, step, text, L, At, Eq
  <2>5. HasFixed(step, Dom, V)
    BY <2>1, <2>2, RankedRecursion
  <2> QED BY <2>5 DEF HasFixed
<1>7. Eq(u)
  <2>1. u = [path \in Dom |-> FlattenSeq(UnderAt(u, text, path))]
    <3> HIDE DEF V, Dom, text
    <3> QED BY <1>6
  <2> QED BY <2>1 DEF UnderAt
<1> DEFINE f == CHOOSE f : Eq(f)
<1>8. Eq(f)
  <2> HIDE DEF Eq
  <2> QED BY <1>7
<1>9. Under(el) = f[<<>>]
  BY DEF Under
<1> HIDE DEF f
<1>10. \A path \in Dom : f[path] = FlattenSeq(UnderAt(f, text, path))
  BY <1>8 DEF UnderAt
<1>11. f = [path \in Dom |-> f[path]]
  BY <1>8
<1> HIDE DEF Eq
<1> DEFINE P == {path \in Dom : f[path] \in V}
<1>12. ASSUME NEW x \in Dom, \A y \in Dom : rank[y] < rank[x] => y \in P PROVE x \in P
  <2>1. ASSUME NEW i \in DOMAIN At(x) PROVE f[Append(x, i)] \in V
    <3>1. Append(x, i) \in Dom /\ rank[Append(x, i)] < rank[x]
      BY <1>1, <1>2
    <3> QED BY <1>12, <3>1
  <2>2. FlattenSeq(UnderAt(f, text, x)) \in V
    <3> HIDE DEF V, Dom, text, At
    <3> QED BY <1>3, <2>1
  <2> HIDE DEF V, Dom, text
  <2> QED BY <1>10, <2>2
<1>13. Dom \subseteq P
  <2> HIDE DEF P, Dom
  <2> QED BY <1>12, RankedInduction
<1>14. f \in [Dom -> V]
  <2> HIDE DEF V, Dom
  <2> QED BY <1>11, <1>13
<1> QED BY <1>9, <1>10, <1>14 DEF UnderFrom

(* What is under an element is of its level.                                   *)
LEMMA UnderSeq ==
    ASSUME NEW s \in Skins, NEW d \in Nat, NEW el, el.kids \in Seq(Leveled(s, d))
    PROVE  Under(el) \in Seq(Leveled(s, d)) /\ Under(el) \in Seq(Elements)
<1>1. PICK u \in [Seq(Nat) -> Seq(Leveled(s, d))] : Under(el) = u[<<>>]
  BY UnderUnfolds
<1>2. <<>> \in Seq(Nat)
  OBVIOUS
<1>3. Under(el) \in Seq(Leveled(s, d))
  BY <1>1, <1>2
<1>4. Leveled(s, d) \subseteq Elements
  BY LeveledElements
<1> QED BY <1>3, <1>4, SeqMonotonic

(* A sequence is one of what it has.                                              *)
LEMMA SeqOfItsOwn ==
    ASSUME NEW T, NEW s \in Seq(T), NEW U, ToSet(s) \subseteq U
    PROVE  s \in Seq(U)
<1>1. DOMAIN s = 1 .. Len(s) /\ Len(s) \in Nat /\ s = [i \in 1 .. Len(s) |-> s[i]]
  OBVIOUS
<1>2. \A i \in 1 .. Len(s) : s[i] \in U
  BY <1>1 DEF ToSet
<1>3. s \in [1 .. Len(s) -> U]
  BY <1>1, <1>2
<1> QED BY <1>1, <1>3, SeqDef

(* What is among a set is in it.                                               *)
LEMMA AmongIn ==
    ASSUME NEW T, NEW s \in Seq(T), NEW P
    PROVE  Among(s, P) \in Seq(T \cap P)
<1>1. Among(s, P) \in Seq(T) /\ ToSet(Among(s, P)) = ToSet(s) \cap P
  BY AmongSeq
<1>2. ToSet(s) \subseteq T
  BY DEF ToSet
<1> QED BY <1>1, <1>2, SeqOfItsOwn

(* The tables of a skin, and its layout.                                          *)
DefsOk(def) ==
    /\ IsFiniteSet(DOMAIN def) /\ None \notin DOMAIN def
    /\ \A d \in DOMAIN def : def[d] \in Elements /\ def[d].tag = "groupdef"
LayoutOk(layout) == layout \in Elements /\ layout.tag = "layout"

(* The elements of a tag are elements that have it.                            *)
LEMMA TaggedIn ==
    ASSUME NEW s \in Skins, NEW d \in Nat, NEW el, el.kids \in Seq(Leveled(s, d)), NEW tag
    PROVE  Tagged(el, tag) \in Seq({e \in Elements : e.tag = tag})
<1> DEFINE u == Under(el)
           P == {e \in ToSet(u) : e.tag = tag}
<1>1. u \in Seq(Elements)
  BY UnderSeq
<1> HIDE DEF u
<1>2. Among(u, P) \in Seq(Elements \cap P)
  <2> HIDE DEF P
  <2> QED BY <1>1, AmongIn
<1>3. Elements \cap P \subseteq {e \in Elements : e.tag = tag}
  OBVIOUS
<1>4. Among(u, P) \in Seq({e \in Elements : e.tag = tag})
  <2> DEFINE Q == {e \in Elements : e.tag = tag}
             R == Elements \cap P
  <2>1. R \subseteq Q /\ Among(u, P) \in Seq(R)
    BY <1>2, <1>3
  <2> HIDE DEF Q, R, P
  <2>2. Among(u, P) \in Seq(Q)
    BY <2>1, SeqMonotonic
  <2> QED BY <2>2 DEF Q
<1> QED BY <1>4 DEF Tagged, u

(* What collectGroupdefs finds are groupdefs.                                  *)
LEMMA DefsTable ==
    ASSUME NEW s \in Skins, NEW d \in Nat, NEW el, el.kids \in Seq(Leveled(s, d))
    PROVE  DefsOk(collectGroupdefs(el))
<1> DEFINE T == {e \in Elements : e.tag = "groupdef"}
           defs == Tagged(el, "groupdef")
           of(key) == {i \in DOMAIN defs : DefKey(defs[i]) = key}
           keys == {DefKey(defs[i]) : i \in DOMAIN defs} \ {None}
           def == collectGroupdefs(el)
<1>1. defs \in Seq(T)
  BY TaggedIn
<1>2. def = [key \in keys |-> defs[Max(of(key))]]
  BY DEF collectGroupdefs
<1> HIDE DEF def, defs, T
<1>3. DOMAIN defs = 1 .. Len(defs) /\ Len(defs) \in Nat /\ IsFiniteSet(DOMAIN defs)
  BY <1>1, FS_Interval
<1>4. IsFiniteSet(keys)
  <2> DEFINE f == [i \in DOMAIN defs |-> DefKey(defs[i])]
             R == {f[i] : i \in DOMAIN f}
  <2>1. IsFiniteSet(R)
    <3>1. IsFiniteSet(DOMAIN f)
      BY <1>3
    <3> HIDE DEF f
    <3> QED BY <3>1, FiniteImage
  <2>2. keys \subseteq R
    OBVIOUS
  <2> HIDE DEF keys, R
  <2> QED BY <2>1, <2>2, FS_Subset
<1>5. ASSUME NEW key \in keys PROVE def[key] \in T
  <2>1. of(key) # {} /\ of(key) \subseteq DOMAIN defs
    OBVIOUS
  <2> DEFINE S == of(key)
  <2> HIDE DEF of
  <2>2. S \subseteq Nat /\ IsFiniteSet(S) /\ S # {}
    <3>1. DOMAIN defs \subseteq Nat
      BY <1>3
    <3> QED BY <1>3, <2>1, <3>1, FS_Subset
  <2>3. Max(S) \in S
    <3> HIDE DEF S
    <3> QED BY <2>2, MaxNat
  <2>4. Max(S) \in DOMAIN defs
    BY <2>1, <2>3
  <2>5. def[key] = defs[Max(S)]
    BY <1>2
  <2> HIDE DEF S
  <2> QED BY <1>1, <2>4, <2>5
<1>6. DOMAIN def = keys /\ None \notin keys
  BY <1>2
<1> HIDE DEF keys
<1> QED BY <1>4, <1>5, <1>6 DEF DefsOk, T, def

(* What findLayout finds is a layout.                                          *)
LEMMA LayoutFound ==
    ASSUME NEW s \in Skins, NEW d \in Nat, NEW el, el.kids \in Seq(Leveled(s, d)),
           findContainer(el) # <<>>, findLayout(findContainer(el)[1]) # <<>>
    PROVE  LayoutOk(findLayout(findContainer(el)[1])[1])
<1> DEFINE c == findContainer(el)
           t == Tagged(el, "container")
           C == {e \in Elements : e.tag = "container"}
           x == c[1]
<1>1. c \in Seq(Elements)
  <2>1. t \in Seq(C)
    BY TaggedIn
  <2> DEFINE P == {e \in ToSet(t) : e.id # None /\ Lower[e.id] = ContainerId}
  <2>2. c = Among(t, P)
    BY DEF findContainer, Called
  <2> HIDE DEF t, P, c
  <2>3. c \in Seq(C)
    BY <2>1, <2>2, AmongSeq
  <2>4. C \subseteq Elements
    OBVIOUS
  <2> HIDE DEF C
  <2> QED BY <2>3, <2>4, SeqMonotonic
<1>2. x \in Elements
  <2>1. c # <<>>
    OBVIOUS
  <2> HIDE DEF c
  <2> QED BY <1>1, <2>1
<1> HIDE DEF x
<1> DEFINE P == {e \in ToSet(x.kids) : e.tag = "layout"}
           layouts == Among(x.kids, P)
           L == {e \in Elements : e.tag = "layout"}
<1>3. layouts \in Seq(L)
  <2>1. x.kids \in Seq(Elements)
    BY <1>2, ElementsHold
  <2> DEFINE k == x.kids
             R == Elements \cap P
  <2>2. layouts \in Seq(R)
    <3> HIDE DEF P
    <3> QED BY <2>1, AmongIn
  <2>3. R \subseteq L
    OBVIOUS
  <2> HIDE DEF layouts, R, L
  <2> QED BY <2>2, <2>3, SeqMonotonic
<1> DEFINE Q == {e \in ToSet(layouts) : e.id # None /\ Lower[e.id] = LayoutId}
           a == Among(layouts, Q)
           all == findLayout(x)
<1>4. all = a \o layouts
  BY DEF findLayout, Called
<1>5. a \in Seq(L)
  <2> HIDE DEF L, layouts, Q
  <2> QED BY <1>3, AmongSeq
<1>6. all \in Seq(L)
  <2> HIDE DEF L, layouts, a, all
  <2> QED BY <1>3, <1>4, <1>5
<1>7. all # <<>>
  BY DEF x
<1>8. all[1] \in L
  <2> HIDE DEF L, all
  <2> QED BY <1>6, <1>7
<1> QED BY <1>8 DEF LayoutOk, x

-----------------------------------------------------------------------------
(* The tree grows from its root: every other widget is in an earlier one.         *)
Trunk ==
    /\ DOMAIN tree \subseteq Nat /\ IsFiniteSet(DOMAIN tree) /\ Root \in DOMAIN tree
    /\ \A m \in DOMAIN tree : m # Root => tree[m].up \in DOMAIN tree /\ tree[m].up < m

Numbers == [m \in DOMAIN tree |-> m]

(* What holds of a widget if it holds of the one around it holds of all.          *)
LEMMA TreeInduction ==
    ASSUME Trunk, NEW K, K \subseteq DOMAIN tree, NEW P,
           \A m \in K : (m # Root /\ tree[m].up \in K => tree[m].up \in P) => m \in P
    PROVE  K \subseteq P
<1> DEFINE rank == [m \in K |-> m]
<1>1. K \subseteq Nat
  BY DEF Trunk
<1>2. rank \in [K -> Nat]
  BY <1>1
<1>3. ASSUME NEW m \in K, \A y \in K : rank[y] < rank[m] => y \in P PROVE m \in P
  <2>1. m # Root /\ tree[m].up \in K => tree[m].up \in P
    BY <1>3 DEF Trunk
  <2> QED BY <2>1
<1> HIDE DEF rank
<1> QED BY <1>2, <1>3, RankedInduction

(* The groupdefs open in a widget: its own, and those open in the one around   *)
(* it.                                                                         *)
OpenAt(open, m) ==
    IF m = Root \/ Paged(m) THEN {} ELSE Ids(tree[m].def) \cup tree[m].via \cup open[tree[m].up]

(* They are well defined.                                                      *)
LEMMA OpenUnfolds ==
    ASSUME Trunk
    PROVE  \A m \in DOMAIN tree :
              Open(m) = IF m = Root \/ Paged(m) THEN {}
                        ELSE Ids(tree[m].def) \cup tree[m].via \cup Open(tree[m].up)
<1> DEFINE Dom == DOMAIN tree
           A == UNION {Ids(tree[m].def) \cup tree[m].via : m \in Dom}
           V == SUBSET A
           c == {}
           step == [f \in [Dom -> V] |-> [m \in Dom |-> OpenAt(f, m)]]
           Eq(f) == f = [m \in DOMAIN tree |->
                            IF m = Root \/ Paged(m) THEN {}
                            ELSE Ids(tree[m].def) \cup tree[m].via \cup f[tree[m].up]]
<1>1. ASSUME NEW f \in [Dom -> V], NEW m \in Dom PROVE OpenAt(f, m) \in V
  <2>1. CASE m = Root \/ Paged(m)
    BY <2>1 DEF OpenAt
  <2>2. CASE ~(m = Root \/ Paged(m))
    <3>1. tree[m].up \in Dom
      BY <2>2 DEF Trunk
    <3>2. Ids(tree[m].def) \cup tree[m].via \subseteq A
      OBVIOUS
    <3>3. f[tree[m].up] \subseteq A
      <4> HIDE DEF A, Dom
      <4> QED BY <3>1
    <3>4. OpenAt(f, m) = Ids(tree[m].def) \cup tree[m].via \cup f[tree[m].up]
      BY <2>2 DEF OpenAt
    <3> HIDE DEF A
    <3> QED BY <3>2, <3>3, <3>4
  <2> QED BY <2>1, <2>2
<1>2. step \in [[Dom -> V] -> [Dom -> V]]
  <2> HIDE DEF V
  <2> QED BY <1>1
<1>3. Numbers \in [Dom -> Nat] /\ \A m \in Dom : Numbers[m] = m
  BY DEF Numbers, Trunk
<1>4. ASSUME NEW f \in [Dom -> V], NEW g \in [Dom -> V], NEW m \in Dom,
             SameBelow(f, g, Dom, Numbers, m)
      PROVE  step[f][m] = step[g][m]
  <2>1. m # Root => f[tree[m].up] = g[tree[m].up]
    BY <1>3, <1>4 DEF SameBelow, Trunk
  <2>2. OpenAt(f, m) = OpenAt(g, m)
    BY <2>1 DEF OpenAt
  <2> HIDE DEF V, Dom
  <2> QED BY <2>2
<1>5. Localised(step, Dom, V, Numbers)
  <2> HIDE DEF V, Dom, step
  <2> QED BY <1>2, <1>3, <1>4 DEF Localised
<1>6. HasFixed(step, Dom, V)
  <2>1. c \in V
    OBVIOUS
  <2> HIDE DEF V, Dom, step, c
  <2> QED BY <1>5, <2>1, RankedRecursion
<1>7. PICK f \in [Dom -> V] : f = step[f]
  BY <1>6 DEF HasFixed
<1>8. Eq(f)
  <2>1. f = [m \in Dom |-> OpenAt(f, m)]
    <3> HIDE DEF V, Dom
    <3> QED BY <1>7
  <2> QED BY <2>1 DEF OpenAt
<1> DEFINE open == CHOOSE g : Eq(g)
<1>9. Eq(open)
  <2> HIDE DEF Eq
  <2> QED BY <1>8
<1>10. \A n : Open(n) = open[n]
  BY DEF Open
<1> HIDE DEF open
<1>11. \A m \in DOMAIN tree :
          open[m] = IF m = Root \/ Paged(m) THEN {}
                    ELSE Ids(tree[m].def) \cup tree[m].via \cup open[tree[m].up]
  BY <1>9
<1> QED BY <1>10, <1>11

(* The instance a widget is handed: the scope of the one around it or what     *)
(* that one was handed.                                                        *)
InstanceAt(instance, m) ==
    IF m = Root \/ Paged(tree[m].up) THEN None
    ELSE IF tree[tree[m].up].def # None /\ tree[tree[m].up].el.iid # None
         THEN tree[tree[m].up].el.iid
    ELSE instance[tree[m].up]

(* It is well defined.                                                         *)
LEMMA InstanceUnfolds ==
    ASSUME Trunk
    PROVE  \A m \in DOMAIN tree :
              Instance(m) = IF m = Root \/ Paged(tree[m].up) THEN None
                            ELSE IF tree[tree[m].up].def # None /\ tree[tree[m].up].el.iid # None
                                 THEN tree[tree[m].up].el.iid
                            ELSE Instance(tree[m].up)
<1> DEFINE Dom == DOMAIN tree
           V == {None} \cup {tree[m].el.iid : m \in Dom}
           step == [f \in [Dom -> V] |-> [m \in Dom |-> InstanceAt(f, m)]]
           Eq(f) == f = [m \in DOMAIN tree |->
                            LET up == tree[m].up
                            IN  IF m = Root \/ Paged(up) THEN None
                                ELSE IF tree[up].def # None /\ tree[up].el.iid # None
                                     THEN tree[up].el.iid
                                ELSE f[up]]
<1>1. ASSUME NEW f \in [Dom -> V], NEW m \in Dom PROVE InstanceAt(f, m) \in V
  <2>1. CASE m = Root
    BY <2>1 DEF InstanceAt
  <2>2. CASE m # Root
    <3>1. tree[m].up \in Dom
      BY <2>2 DEF Trunk
    <3>2. tree[tree[m].up].el.iid \in V
      BY <3>1
    <3>3. f[tree[m].up] \in V
      <4> HIDE DEF V, Dom
      <4> QED BY <3>1
    <3>4. None \in V
      OBVIOUS
    <3> HIDE DEF V
    <3> QED BY <3>2, <3>3, <3>4 DEF InstanceAt
  <2> QED BY <2>1, <2>2
<1>2. step \in [[Dom -> V] -> [Dom -> V]]
  <2> HIDE DEF V
  <2> QED BY <1>1
<1>3. Numbers \in [Dom -> Nat] /\ \A m \in Dom : Numbers[m] = m
  BY DEF Numbers, Trunk
<1>4. ASSUME NEW f \in [Dom -> V], NEW g \in [Dom -> V], NEW m \in Dom,
             SameBelow(f, g, Dom, Numbers, m)
      PROVE  step[f][m] = step[g][m]
  <2>1. m # Root => f[tree[m].up] = g[tree[m].up]
    BY <1>3, <1>4 DEF SameBelow, Trunk
  <2>2. InstanceAt(f, m) = InstanceAt(g, m)
    BY <2>1 DEF InstanceAt
  <2> HIDE DEF V, Dom
  <2> QED BY <2>2
<1>5. Localised(step, Dom, V, Numbers)
  <2> HIDE DEF V, Dom, step
  <2> QED BY <1>2, <1>3, <1>4 DEF Localised
<1>6. HasFixed(step, Dom, V)
  <2>1. None \in V
    OBVIOUS
  <2> HIDE DEF V, Dom, step
  <2> QED BY <1>5, <2>1, RankedRecursion
<1>7. PICK f \in [Dom -> V] : f = step[f]
  BY <1>6 DEF HasFixed
<1>8. Eq(f)
  <2>1. f = [m \in Dom |-> InstanceAt(f, m)]
    <3> HIDE DEF V, Dom
    <3> QED BY <1>7
  <2> QED BY <2>1 DEF InstanceAt
<1> DEFINE instance == CHOOSE g : Eq(g)
<1>9. Eq(instance)
  <2> HIDE DEF Eq
  <2> QED BY <1>8
<1>10. \A n : Instance(n) = instance[n]
  BY DEF Instance
<1> HIDE DEF instance
<1>11. \A m \in DOMAIN tree : instance[m] = InstanceAt(instance, m)
  BY <1>9 DEF InstanceAt
<1> QED BY <1>10, <1>11 DEF InstanceAt

(* A widget is within another if the one around it is that or within it.       *)
WithinAt(within, m, top) == m # Root /\ (tree[m].up = top \/ within[tree[m].up])

(* That too is well defined.                                                   *)
LEMMA WithinUnfolds ==
    ASSUME Trunk, NEW top
    PROVE  \A m \in DOMAIN tree :
              /\ Within(m, top) \in BOOLEAN
              /\ Within(m, top) <=> (m # Root /\ (tree[m].up = top \/ Within(tree[m].up, top)))
<1> DEFINE Dom == DOMAIN tree
           V == BOOLEAN
           step == [f \in [Dom -> V] |-> [m \in Dom |-> WithinAt(f, m, top)]]
           Eq(f) == f = [m \in DOMAIN tree |-> m # Root /\ (tree[m].up = top \/ f[tree[m].up])]
<1>1. ASSUME NEW f \in [Dom -> V], NEW m \in Dom PROVE WithinAt(f, m, top) \in V
  BY DEF WithinAt
<1>2. step \in [[Dom -> V] -> [Dom -> V]]
  <2> HIDE DEF V
  <2> QED BY <1>1
<1>3. Numbers \in [Dom -> Nat] /\ \A m \in Dom : Numbers[m] = m
  BY DEF Numbers, Trunk
<1>4. ASSUME NEW f \in [Dom -> V], NEW g \in [Dom -> V], NEW m \in Dom,
             SameBelow(f, g, Dom, Numbers, m)
      PROVE  step[f][m] = step[g][m]
  <2>1. m # Root => f[tree[m].up] = g[tree[m].up]
    BY <1>3, <1>4 DEF SameBelow, Trunk
  <2>2. WithinAt(f, m, top) = WithinAt(g, m, top)
    BY <2>1 DEF WithinAt
  <2> HIDE DEF V, Dom
  <2> QED BY <2>2
<1>5. Localised(step, Dom, V, Numbers)
  <2> HIDE DEF V, Dom, step
  <2> QED BY <1>2, <1>3, <1>4 DEF Localised
<1>6. HasFixed(step, Dom, V)
  <2>1. TRUE \in V
    OBVIOUS
  <2> HIDE DEF V, Dom, step
  <2> QED BY <1>5, <2>1, RankedRecursion
<1>7. PICK f \in [Dom -> V] : f = step[f]
  BY <1>6 DEF HasFixed
<1>8. Eq(f)
  <2>1. f = [m \in Dom |-> WithinAt(f, m, top)]
    <3> HIDE DEF V, Dom
    <3> QED BY <1>7
  <2> QED BY <2>1 DEF WithinAt
<1> DEFINE within == CHOOSE g : Eq(g)
<1>9. Eq(within)
  <2> HIDE DEF Eq
  <2> QED BY <1>8
<1>10. \A n : Within(n, top) = within[n]
  BY DEF Within
<1> HIDE DEF within
<1>11. \A m \in DOMAIN tree : within[m] = WithinAt(within, m, top)
  BY <1>9 DEF WithinAt
<1>12. \A m \in DOMAIN tree : within[m] \in BOOLEAN
  BY <1>11 DEF WithinAt
<1>13. \A m \in DOMAIN tree : within[m] <=> (m # Root /\ (tree[m].up = top \/ within[tree[m].up]))
  BY <1>11 DEF WithinAt
<1> HIDE DEF Eq, step, V
<1> QED BY <1>10, <1>12, <1>13

(* What bodies put into widgets.                                                  *)
Fits(els, open) == {el \in ToSet(els) : ~isScaffolding(el) /\ Ids(DefOf(doc, el)) \cap open = {}}

(* What an element list puts into a widget are elements.                       *)
LEMMA PartSeq ==
    ASSUME NEW els \in Seq(Elements), NEW open
    PROVE  Part(els, open) \in Seq(Elements)
BY AmongSeq DEF Part

(* A groupdef that is found is one of the table.                               *)
LEMMA LookupDef ==
    ASSUME NEW d, NEW name, Lookup(d, name) # None
    PROVE  Lookup(d, name) \in DOMAIN d.def
BY DEF Lookup

(* The body of a groupdef are elements.                                        *)
LEMMA BodySeq ==
    ASSUME DefsOk(doc.def), NEW d \in DOMAIN doc.def
    PROVE  doc.def[d].kids \in Seq(Elements)
BY ElementsHold DEF DefsOk

-----------------------------------------------------------------------------
(* A groupdef inherits what the one it names does, and its body.                  *)
Inherits == {doc.def[e].inherit : e \in DOMAIN doc.def}

(* The parts of one inheritance, given those of the next.                      *)
InheritedAt(parts, d, on, open) ==
    IF \/ Lookup(doc, doc.def[d].inherit) = None
       \/ doc.def[d].inherit \in open \cup on
    THEN <<>>
    ELSE parts[<<Lookup(doc, doc.def[d].inherit), on \cup {doc.def[d].inherit}>>]
         \o Part(doc.def[Lookup(doc, doc.def[d].inherit)].kids, open \cup (on \cup {doc.def[d].inherit}))

(* They are elements.                                                          *)
LEMMA InheritedAtSeq ==
    ASSUME DefsOk(doc.def), NEW f \in [(DOMAIN doc.def) \X (SUBSET Inherits) -> Seq(Elements)],
           NEW d \in DOMAIN doc.def, NEW on \in SUBSET Inherits, NEW open
    PROVE  InheritedAt(f, d, on, open) \in Seq(Elements)
<1> DEFINE inh == doc.def[d].inherit
           up == Lookup(doc, inh)
           more == on \cup {inh}
           a == f[<<up, more>>]
           b == Part(doc.def[up].kids, open \cup more)
           T == Seq(Elements)
<1>1. CASE up = None \/ inh \in open \cup on
  BY <1>1 DEF InheritedAt
<1>2. CASE ~(up = None \/ inh \in open \cup on)
  <2>1. up \in DOMAIN doc.def
    BY <1>2, LookupDef
  <2>2. more \in SUBSET Inherits
    BY DEF Inherits
  <2>3. a \in T
    <3> DEFINE k == <<up, more>>
               D == (DOMAIN doc.def) \X (SUBSET Inherits)
    <3>1. k \in D /\ f \in [D -> T]
      <4> HIDE DEF up, more
      <4> QED BY <2>1, <2>2
    <3> HIDE DEF k, D, T
    <3>2. f[k] \in T
      BY <3>1
    <3> QED BY <3>2 DEF k
  <2>4. b \in T
    <3> HIDE DEF up, more
    <3> QED BY <2>1, BodySeq, PartSeq
  <2>5. InheritedAt(f, d, on, open) = a \o b
    BY <1>2 DEF InheritedAt
  <2> HIDE DEF a, b
  <2> QED BY <2>3, <2>4, <2>5
<1> QED BY <1>1, <1>2

(* An inheritance ends, so its parts are well defined and are elements.        *)
LEMMA InheritedUnfolds ==
    ASSUME DefsOk(doc.def), NEW open
    PROVE  \A d \in DOMAIN doc.def, on \in SUBSET Inherits :
              /\ InheritedParts(d, open, on) \in Seq(Elements)
              /\ InheritedParts(d, open, on) =
                    IF \/ Lookup(doc, doc.def[d].inherit) = None
                       \/ doc.def[d].inherit \in open \cup on
                    THEN <<>>
                    ELSE InheritedParts(Lookup(doc, doc.def[d].inherit), open,
                                        on \cup {doc.def[d].inherit})
                         \o Part(doc.def[Lookup(doc, doc.def[d].inherit)].kids,
                                 open \cup (on \cup {doc.def[d].inherit}))
<1> DEFINE Dom == (DOMAIN doc.def) \X (SUBSET Inherits)
           V == Seq(Elements)
           c == <<>>
           rank == [at \in Dom |-> Cardinality(Inherits \ at[2])]
           step == [f \in [Dom -> V] |-> [at \in Dom |-> InheritedAt(f, at[1], at[2], open)]]
           Eq(f) == f = [at \in Dom |-> InheritedAt(f, at[1], at[2], open)]
<1>1. IsFiniteSet(Inherits)
  <2> DEFINE f == [e \in DOMAIN doc.def |-> doc.def[e].inherit]
             R == {f[x] : x \in DOMAIN f}
  <2>1. IsFiniteSet(DOMAIN f)
    BY DEF DefsOk
  <2>2. Inherits = R
    BY DEF Inherits
  <2>3. IsFiniteSet(R)
    <3> HIDE DEF f
    <3> QED BY <2>1, FiniteImage
  <2> QED BY <2>2, <2>3
<1>2. ASSUME NEW at \in Dom PROVE rank[at] \in Nat
  BY <1>1, FS_Subset, FS_CardinalityType
<1>3. ASSUME NEW f \in [Dom -> V], NEW at \in Dom PROVE InheritedAt(f, at[1], at[2], open) \in V
  BY InheritedAtSeq
<1>4. step \in [[Dom -> V] -> [Dom -> V]]
  <2> HIDE DEF V, Dom
  <2> QED BY <1>3
<1> DEFINE inh(at) == doc.def[at[1]].inherit
           up(at) == Lookup(doc, inh(at))
           stops(at) == up(at) = None \/ inh(at) \in open \cup at[2]
           next(at) == <<up(at), at[2] \cup {inh(at)}>>
<1>14. ASSUME NEW at \in Dom, ~stops(at) PROVE next(at) \in Dom /\ rank[next(at)] < rank[at]
  <2> DEFINE d == at[1]
             on == at[2]
             h == inh(at)
             u == up(at)
             n == next(at)
  <2>1. d \in DOMAIN doc.def /\ on \in SUBSET Inherits
    OBVIOUS
  <2>2. u \in DOMAIN doc.def /\ h \in Inherits /\ h \notin on
    BY <1>14, <2>1, LookupDef DEF Inherits
  <2>3. n \in Dom /\ n[2] = on \cup {h}
    <3> HIDE DEF u, h, on
    <3>1. n = <<u, on \cup {h}>>
      BY DEF u, h, on
    <3> HIDE DEF n
    <3> QED BY <2>1, <2>2, <3>1
  <2>4. Cardinality(Inherits \ (on \cup {h})) < Cardinality(Inherits \ on)
    <3> DEFINE S == Inherits \ on
    <3>1. IsFiniteSet(S) /\ h \in S /\ Inherits \ (on \cup {h}) = S \ {h}
      BY <1>1, <2>2, FS_Subset
    <3> HIDE DEF S, h
    <3>2. Cardinality(S \ {h}) = Cardinality(S) - 1 /\ Cardinality(S) \in Nat
      BY <3>1, FS_RemoveElement, FS_CardinalityType
    <3>3. Cardinality(S \ {h}) < Cardinality(S)
      BY <3>2
    <3> QED BY <3>1, <3>3 DEF S
  <2>5. rank[n] = Cardinality(Inherits \ (on \cup {h})) /\ rank[at] = Cardinality(Inherits \ on)
    <3> HIDE DEF n, Dom
    <3> QED BY <2>3
  <2> HIDE DEF rank, Dom, n
  <2>6. rank[n] < rank[at]
    BY <2>4, <2>5
  <2> QED BY <2>3, <2>6 DEF n
<1>15. ASSUME NEW f, NEW g, NEW at \in Dom, ~stops(at) => f[next(at)] = g[next(at)]
       PROVE  InheritedAt(f, at[1], at[2], open) = InheritedAt(g, at[1], at[2], open)
  BY <1>15 DEF InheritedAt
<1>5. ASSUME NEW f \in [Dom -> V], NEW g \in [Dom -> V], NEW at \in Dom,
             SameBelow(f, g, Dom, rank, at)
      PROVE  step[f][at] = step[g][at]
  <2>1. ASSUME ~stops(at) PROVE f[next(at)] = g[next(at)]
    <3>1. next(at) \in Dom /\ rank[next(at)] < rank[at]
      BY <1>14, <2>1
    <3> HIDE DEF rank, next, Dom, V
    <3> QED BY <1>5, <3>1 DEF SameBelow
  <2>2. InheritedAt(f, at[1], at[2], open) = InheritedAt(g, at[1], at[2], open)
    <3> HIDE DEF stops, next, V, Dom
    <3> QED BY <1>15, <2>1
  <2> HIDE DEF V, Dom
  <2> QED BY <2>2
<1>6. Localised(step, Dom, V, rank)
  <2>1. rank \in [Dom -> Nat]
    <3> HIDE DEF Dom
    <3> QED BY <1>2
  <2> HIDE DEF V, Dom, step, rank
  <2> QED BY <1>4, <1>5, <2>1 DEF Localised
<1>7. HasFixed(step, Dom, V)
  <2>1. c \in V
    OBVIOUS
  <2> HIDE DEF V, Dom, step, c, rank
  <2> QED BY <1>6, <2>1, RankedRecursion
<1>8. PICK g \in [Dom -> V] : g = step[g]
  BY <1>7 DEF HasFixed
<1>9. Eq(g)
  <2> HIDE DEF V, Dom
  <2> QED BY <1>8
<1> DEFINE parts == CHOOSE f : Eq(f)
<1>10. Eq(parts)
  <2> HIDE DEF Eq
  <2> QED BY <1>9
<1>11. \A d, on : InheritedParts(d, open, on) = parts[<<d, on>>]
  BY DEF InheritedParts, InheritedAt, Inherits
<1> HIDE DEF parts
<1>12. ASSUME NEW d \in DOMAIN doc.def, NEW on \in SUBSET Inherits
       PROVE  parts[<<d, on>>] = InheritedAt(parts, d, on, open)
  <2> DEFINE at == <<d, on>>
  <2>1. at \in Dom /\ at[1] = d /\ at[2] = on
    OBVIOUS
  <2>2. parts[at] = InheritedAt(parts, at[1], at[2], open)
    <3> HIDE DEF at, Dom
    <3> QED BY <1>10, <2>1
  <2> QED BY <2>1, <2>2
<1> DEFINE P == {at \in Dom : parts[at] \in V}
<1>13. ASSUME NEW at \in Dom, \A y \in Dom : rank[y] < rank[at] => y \in P PROVE at \in P
  <2> DEFINE f == [x \in Dom |-> IF rank[x] < rank[at] THEN parts[x] ELSE c]
  <2>1. f \in [Dom -> V]
    <3>1. c \in V
      OBVIOUS
    <3> HIDE DEF Dom, V, c, rank
    <3> QED BY <1>13, <3>1
  <2>2. InheritedAt(f, at[1], at[2], open) \in V
    <3> HIDE DEF V, Dom, f
    <3> QED BY <1>3, <2>1
  <2>3. ASSUME ~stops(at) PROVE f[next(at)] = parts[next(at)]
    <3>1. next(at) \in Dom /\ rank[next(at)] < rank[at]
      BY <1>14, <2>3
    <3> HIDE DEF rank, next, Dom
    <3> QED BY <3>1
  <2>4. InheritedAt(f, at[1], at[2], open) = InheritedAt(parts, at[1], at[2], open)
    <3> HIDE DEF stops, next, V, Dom, f
    <3> QED BY <1>15, <2>3
  <2>5. parts[at] = InheritedAt(parts, at[1], at[2], open)
    <3> HIDE DEF Dom
    <3> QED BY <1>10
  <2> HIDE DEF Dom, V, f
  <2> QED BY <2>2, <2>4, <2>5
<1>16. Dom \subseteq P
  <2>1. rank \in [Dom -> Nat]
    <3> HIDE DEF Dom
    <3> QED BY <1>2
  <2> HIDE DEF P, Dom, rank
  <2> QED BY <1>13, <2>1, RankedInduction
<1>17. ASSUME NEW d \in DOMAIN doc.def, NEW on \in SUBSET Inherits PROVE parts[<<d, on>>] \in V
  <2> DEFINE at == <<d, on>>
  <2>1. at \in Dom
    OBVIOUS
  <2> HIDE DEF at, Dom, V
  <2>2. parts[at] \in V
    BY <1>16, <2>1
  <2> QED BY <2>2 DEF at
<1> DEFINE Rhs(d, on) ==
               IF \/ Lookup(doc, doc.def[d].inherit) = None
                  \/ doc.def[d].inherit \in open \cup on
               THEN <<>>
               ELSE InheritedParts(Lookup(doc, doc.def[d].inherit), open,
                                   on \cup {doc.def[d].inherit})
                    \o Part(doc.def[Lookup(doc, doc.def[d].inherit)].kids,
                            open \cup (on \cup {doc.def[d].inherit}))
<1>18. \A d, on : InheritedAt(parts, d, on, open) = Rhs(d, on)
  BY <1>11 DEF InheritedAt
<1>19. ASSUME NEW d \in DOMAIN doc.def, NEW on \in SUBSET Inherits
       PROVE  InheritedParts(d, open, on) \in V /\ InheritedParts(d, open, on) = Rhs(d, on)
  <2> HIDE DEF Rhs, V
  <2> QED BY <1>11, <1>12, <1>17, <1>18
<1> QED BY <1>19

(* What these equations say of every widget of the tree, each as a law that    *)
(* can be stated of the next state as well.                                    *)
OpenLaw ==
    \A m \in DOMAIN tree :
       Open(m) = IF m = Root \/ Paged(m) THEN {}
                 ELSE Ids(tree[m].def) \cup tree[m].via \cup Open(tree[m].up)

(* In a tree that grows from its root the groupdefs that are open satisfy      *)
(* their law,                                                                  *)
LEMMA OpenLaws == Trunk => OpenLaw
BY OpenUnfolds DEF OpenLaw

InstanceLaw ==
    \A m \in DOMAIN tree :
       Instance(m) = IF m = Root \/ Paged(tree[m].up) THEN None
                     ELSE IF tree[tree[m].up].def # None /\ tree[tree[m].up].el.iid # None
                          THEN tree[tree[m].up].el.iid
                     ELSE Instance(tree[m].up)

(* the instances theirs,                                                       *)
LEMMA InstanceLaws == Trunk => InstanceLaw
BY InstanceUnfolds DEF InstanceLaw

WithinLaw ==
    \A top : \A m \in DOMAIN tree :
       /\ Within(m, top) \in BOOLEAN
       /\ Within(m, top) <=> (m # Root /\ (tree[m].up = top \/ Within(tree[m].up, top)))

(* and being within another its own;                                           *)
LEMMA WithinLaws == Trunk => WithinLaw
<1> SUFFICES ASSUME Trunk, NEW top, NEW m \in DOMAIN tree
             PROVE  /\ Within(m, top) \in BOOLEAN
                    /\ Within(m, top) <=> (m # Root /\ (tree[m].up = top \/ Within(tree[m].up, top)))
  BY DEF WithinLaw
<1> QED BY WithinUnfolds

Laws == Trunk /\ OpenLaw /\ InstanceLaw /\ WithinLaw

(* so all of the laws hold,                                                    *)
LEMMA AllLaws == Trunk => Laws
BY OpenLaws, InstanceLaws, WithinLaws DEF Laws

(* before a step and after it.                                                 *)
LEMMA LawsNext == Trunk' => Laws'
<1>1. (Trunk => Laws)'
  BY AllLaws, PTL
<1> QED BY <1>1

-----------------------------------------------------------------------------
(* A step that leaves some widgets as they are, and what they are in.             *)
SameOn(K) ==
    /\ K \subseteq DOMAIN tree /\ K \subseteq DOMAIN tree'
    /\ \A m \in K : /\ tree'[m].el = tree[m].el /\ tree'[m].def = tree[m].def
                    /\ tree'[m].up = tree[m].up /\ tree'[m].via = tree[m].via
    /\ \A m \in K : m # Root => /\ tree[m].up \in K
                                /\ tree'[tree[m].up].page = tree[tree[m].up].page

(* In such a widget the same groupdefs are open,                               *)
LEMMA OpenStays ==
    ASSUME Laws, Laws', doc' = doc, NEW K, SameOn(K), NEW n \in K, tree'[n].page = tree[n].page
    PROVE  Open(n)' = Open(n)
<1> DEFINE P == {m \in K : tree'[m].page = tree[m].page => Open(m)' = Open(m)}
<1>1. ASSUME NEW m \in K, m # Root /\ tree[m].up \in K => tree[m].up \in P PROVE m \in P
  <2> SUFFICES ASSUME tree'[m].page = tree[m].page PROVE Open(m)' = Open(m)
    OBVIOUS
  <2>1. m \in DOMAIN tree /\ m \in DOMAIN tree'
    BY DEF SameOn
  <2>2. Open(m) = IF m = Root \/ Paged(m) THEN {}
                  ELSE Ids(tree[m].def) \cup tree[m].via \cup Open(tree[m].up)
    BY <2>1 DEF Laws, OpenLaw
  <2>3. Open(m)' = IF m = Root \/ Paged(m)' THEN {}
                   ELSE Ids(tree[m].def)' \cup tree'[m].via \cup Open(tree[m].up)'
    BY <2>1 DEF Laws, OpenLaw
  <2>4. Paged(m)' = Paged(m)
    BY DEF Paged
  <2>5. Ids(tree[m].def)' = Ids(tree[m].def) /\ tree'[m].via = tree[m].via
    BY DEF SameOn, Ids
  <2>6. ASSUME m # Root PROVE Open(tree[m].up)' = Open(tree[m].up)
    <3> DEFINE u == tree[m].up
    <3>1. u' = u /\ u \in P /\ tree'[u].page = tree[u].page
      BY <1>1, <2>6 DEF SameOn
    <3>2. \A x : x = u => Open(x)' = Open(x)
      BY <3>1
    <3>3. \A x : x = u' => Open(x)' = Open(tree[m].up)'
      OBVIOUS
    <3> QED BY <3>1, <3>2, <3>3
  <2> QED BY <2>2, <2>3, <2>4, <2>5, <2>6
<1>2. K \subseteq P
  <2>1. Trunk /\ K \subseteq DOMAIN tree
    BY DEF Laws, SameOn
  <2> HIDE DEF P
  <2> QED BY <1>1, <2>1, TreeInduction
<1> QED BY <1>2

(* it is handed the same instance,                                             *)
LEMMA InstanceStays ==
    ASSUME Laws, Laws', NEW K, SameOn(K), NEW n \in K
    PROVE  Instance(n)' = Instance(n)
<1> DEFINE P == {m \in K : Instance(m)' = Instance(m)}
<1>1. ASSUME NEW m \in K, m # Root /\ tree[m].up \in K => tree[m].up \in P PROVE m \in P
  <2>1. m \in DOMAIN tree /\ m \in DOMAIN tree'
    BY DEF SameOn
  <2> DEFINE u == tree[m].up
  <2>2. Instance(m) = IF m = Root \/ Paged(u) THEN None
                      ELSE IF tree[u].def # None /\ tree[u].el.iid # None THEN tree[u].el.iid
                      ELSE Instance(u)
    BY <2>1 DEF Laws, InstanceLaw
  <2>3. Instance(m)' = IF m = Root \/ Paged(u)' THEN None
                       ELSE IF tree'[u'].def # None /\ tree'[u'].el.iid # None THEN tree'[u'].el.iid
                       ELSE Instance(u)'
    BY <2>1 DEF Laws, InstanceLaw
  <2>4. CASE m = Root
    BY <2>2, <2>3, <2>4
  <2>5. CASE m # Root
    <3>1. u' = u /\ u \in P /\ u \in K /\ tree'[u].page = tree[u].page
      BY <1>1, <2>5 DEF SameOn
    <3>2. Paged(u)' = Paged(u)
      BY <3>1 DEF Paged
    <3>3. tree'[u].def = tree[u].def /\ tree'[u].el = tree[u].el
      BY <3>1 DEF SameOn
    <3>4. Instance(u)' = Instance(u)
      <4>1. \A x : x = u => Instance(x)' = Instance(x)
        BY <3>1
      <4>2. \A x : x = u' => Instance(x)' = Instance(tree[m].up)'
        OBVIOUS
      <4> QED BY <3>1, <4>1, <4>2
    <3>5. tree'[u'].def = tree[u].def /\ tree'[u'].el = tree[u].el
      BY <3>1, <3>3
    <3> HIDE DEF u
    <3> QED BY <2>2, <2>3, <3>2, <3>4, <3>5
  <2> QED BY <2>4, <2>5
<1>2. K \subseteq P
  <2>1. Trunk /\ K \subseteq DOMAIN tree
    BY DEF Laws, SameOn
  <2> HIDE DEF P
  <2> QED BY <1>1, <2>1, TreeInduction
<1> QED BY <1>2

(* What is around one of them is one of them.                                     *)
LEMMA AroundStays ==
    ASSUME Laws, NEW K, K \subseteq DOMAIN tree, \A m \in K : m # Root => tree[m].up \in K,
           NEW n \in K, NEW top, Within(n, top)
    PROVE  top \in K
<1> DEFINE P == {m \in K : Within(m, top) => top \in K}
<1>1. ASSUME NEW m \in K, m # Root /\ tree[m].up \in K => tree[m].up \in P PROVE m \in P
  <2>1. Within(m, top) <=> (m # Root /\ (tree[m].up = top \/ Within(tree[m].up, top)))
    BY DEF Laws, WithinLaw
  <2> QED BY <1>1, <2>1
<1>2. K \subseteq P
  <2>1. Trunk
    BY DEF Laws
  <2> HIDE DEF P
  <2> QED BY <1>1, <2>1, TreeInduction
<1> QED BY <1>2

(* and it is within the same widgets.                                          *)
LEMMA WithinStays ==
    ASSUME Laws, Laws', NEW K, SameOn(K), NEW n \in K, NEW top
    PROVE  Within(n, top)' = Within(n, top)
<1> DEFINE P == {m \in K : Within(m, top)' = Within(m, top)}
<1>1. ASSUME NEW m \in K, m # Root /\ tree[m].up \in K => tree[m].up \in P PROVE m \in P
  <2>1. m \in DOMAIN tree /\ m \in DOMAIN tree'
    BY DEF SameOn
  <2> DEFINE u == tree[m].up
  <2>2. /\ Within(m, top) \in BOOLEAN
        /\ Within(m, top) <=> (m # Root /\ (u = top \/ Within(u, top)))
    BY <2>1 DEF Laws, WithinLaw
  <2>3. /\ Within(m, top)' \in BOOLEAN
        /\ Within(m, top)' <=> (m # Root /\ (u' = top \/ Within(u, top)'))
    BY <2>1 DEF Laws, WithinLaw
  <2>4. CASE m = Root
    BY <2>2, <2>3, <2>4
  <2>5. CASE m # Root
    <3>1. u' = u /\ u \in P
      BY <1>1, <2>5 DEF SameOn
    <3>4. Within(u, top)' = Within(u, top)
      <4>1. \A x : x = u => Within(x, top)' = Within(x, top)
        BY <3>1
      <4>2. \A x : x = u' => Within(x, top)' = Within(tree[m].up, top)'
        OBVIOUS
      <4> QED BY <3>1, <4>1, <4>2
    <3> HIDE DEF u
    <3> QED BY <2>2, <2>3, <2>5, <3>1, <3>4
  <2> QED BY <2>4, <2>5
<1>2. K \subseteq P
  <2>1. Trunk /\ K \subseteq DOMAIN tree
    BY DEF Laws, SameOn
  <2> HIDE DEF P
  <2> QED BY <1>1, <2>1, TreeInduction
<1> QED BY <1>2

(* So they are in the pages they were in, if those around them are paged as before. *)
LEMMA PagesStay ==
    ASSUME Laws, Laws', NEW K, SameOn(K), NEW n \in K
    PROVE  Pages(n)' = Pages(n)
<1> DEFINE ups == {tree[m].up : m \in K \ {Root}}
<1>1. ASSUME NEW x, Within(n, x) PROVE x \in K /\ tree'[x].page = tree[x].page
  <2> DEFINE L == {m \in K : tree'[m].page = tree[m].page}
  <2>1. \A m \in K : m # Root => tree[m].up \in L
    BY DEF SameOn
  <2>2. \A m \in L : m # Root => tree[m].up \in L
    BY <2>1
  <2>3. L \subseteq DOMAIN tree /\ L \subseteq K
    BY DEF SameOn
  <2>4. Within(n, x) <=> (n # Root /\ (tree[n].up = x \/ Within(tree[n].up, x)))
    <3>1. n \in DOMAIN tree
      BY DEF SameOn
    <3> QED BY <3>1 DEF Laws, WithinLaw
  <2>5. n # Root /\ tree[n].up \in L
    BY <1>1, <2>1, <2>4
  <2>6. CASE tree[n].up = x
    BY <2>5, <2>6, <2>3
  <2>7. CASE Within(tree[n].up, x)
    <3> DEFINE u == tree[n].up
    <3>1. u \in L /\ Within(u, x)
      BY <2>5, <2>7
    <3> HIDE DEF L, u
    <3>2. x \in L
      BY <2>2, <2>3, <3>1, AroundStays
    <3> QED BY <3>2 DEF L
  <2> QED BY <1>1, <2>4, <2>6, <2>7
<1>2. \A x : Within(n, x)' = Within(n, x)
  BY WithinStays
<1>3. K \subseteq DOMAIN tree /\ K \subseteq DOMAIN tree'
  BY DEF SameOn
<1>4. ASSUME NEW x, x \in Pages(n) PROVE x \in Pages(n)'
  <2>1. Paged(x) /\ Within(n, x)
    BY <1>4 DEF Pages
  <2>2. x \in DOMAIN tree' /\ Paged(x)' /\ Within(n, x)'
    BY <1>1, <1>2, <1>3, <2>1 DEF Paged
  <2> QED BY <2>2 DEF Pages
<1>5. ASSUME NEW x, x \in Pages(n)' PROVE x \in Pages(n)
  <2>1. Paged(x)' /\ Within(n, x)'
    BY <1>5 DEF Pages
  <2>2. Within(n, x)
    BY <1>2, <2>1
  <2>3. x \in DOMAIN tree /\ Paged(x)
    BY <1>1, <1>3, <2>1, <2>2 DEF Paged
  <2> QED BY <2>2, <2>3 DEF Pages
<1> QED BY <1>4, <1>5

-----------------------------------------------------------------------------
(* What is on a stack.                                                            *)
Beneath(s, i) == {s[j] : j \in i + 1 .. Len(s)}
Names(S) == {x.key : x \in {y \in S : y.op = "leave"}}

(* What is on a stack after a push.                                            *)
LEMMA PushedSet ==
    ASSUME NEW s, IsList(s), NEW e
    PROVE  /\ ToSet(Pushed(e, s)) = {e} \cup ToSet(s)
           /\ Beneath(Pushed(e, s), 1) = ToSet(s)
           /\ \A i \in 1 .. Len(s) : Beneath(Pushed(e, s), i + 1) = Beneath(s, i)
           /\ ToSet(s) = {s[i] : i \in 1 .. Len(s)}
<1> DEFINE u == Pushed(e, s)
           n == Len(s)
<1>1. /\ IsList(u) /\ n \in Nat /\ Len(u) = n + 1 /\ u[1] = e
      /\ \A i \in 2 .. n + 1 : u[i] = s[i - 1]
  <2> HIDE DEF u
  <2> QED BY PushedFacts DEF u
<1>2. DOMAIN s = 1 .. n /\ DOMAIN u = 1 .. n + 1
  <2>1. \A t : IsList(t) => DOMAIN t = 1 .. Len(t)
    <3> SUFFICES ASSUME NEW t, IsList(t) PROVE DOMAIN t = 1 .. Len(t)
      OBVIOUS
    <3> DEFINE T == {t[i] : i \in DOMAIN t}
    <3>1. t \in Seq(T)
      BY DEF IsList
    <3> HIDE DEF T
    <3> QED BY <3>1
  <2>2. IsList(u) /\ IsList(s) /\ Len(u) = n + 1
    BY <1>1
  <2> HIDE DEF u, n
  <2>3. DOMAIN u = 1 .. Len(u)
    BY <2>1, <2>2
  <2>4. DOMAIN s = 1 .. Len(s)
    BY <2>1, <2>2
  <2> QED BY <2>2, <2>3, <2>4 DEF n
<1> HIDE DEF u, n
<1>3. \A i \in 1 .. n : u[i + 1] = s[i]
  <2> SUFFICES ASSUME NEW i \in 1 .. n PROVE u[i + 1] = s[i]
    OBVIOUS
  <2>1. i + 1 \in 2 .. n + 1 /\ (i + 1) - 1 = i
    BY <1>1
  <2>2. u[i + 1] = s[(i + 1) - 1]
    BY <1>1, <2>1
  <2> QED BY <2>1, <2>2
<1>4. ToSet(u) = {e} \cup ToSet(s)
  <2>1. \A i \in 1 .. n + 1 : u[i] \in {e} \cup ToSet(s)
    <3> SUFFICES ASSUME NEW i \in 1 .. n + 1 PROVE u[i] \in {e} \cup ToSet(s)
      OBVIOUS
    <3>1. i = 1 \/ (i \in 2 .. n + 1 /\ i - 1 \in 1 .. n)
      BY <1>1
    <3> QED BY <1>1, <1>2, <3>1 DEF ToSet
  <2>2. e \in ToSet(u) /\ \A i \in 1 .. n : s[i] \in ToSet(u)
    <3>1. 1 \in 1 .. n + 1 /\ \A i \in 1 .. n : i + 1 \in 1 .. n + 1
      BY <1>1
    <3> QED BY <1>1, <1>2, <1>3, <3>1 DEF ToSet
  <2> QED BY <1>2, <2>1, <2>2 DEF ToSet
<1>5. ASSUME NEW i \in 0 .. n PROVE Beneath(u, i + 1) = {s[j] : j \in i + 1 .. n}
  <2>1. ASSUME NEW j \in (i + 1) + 1 .. n + 1 PROVE u[j] \in {s[k] : k \in i + 1 .. n}
    <3>1. j - 1 \in i + 1 .. n /\ j \in 2 .. n + 1
      BY <1>1
    <3>2. u[j] = s[j - 1]
      BY <1>1, <3>1
    <3> QED BY <3>1, <3>2
  <2>2. ASSUME NEW k \in i + 1 .. n PROVE s[k] \in {u[j] : j \in (i + 1) + 1 .. n + 1}
    <3>1. k + 1 \in (i + 1) + 1 .. n + 1 /\ k \in 1 .. n
      BY <1>1
    <3> QED BY <1>3, <3>1
  <2> QED BY <1>1, <2>1, <2>2 DEF Beneath
<1>6. ToSet(s) = {s[i] : i \in 1 .. n}
  BY <1>2 DEF ToSet
<1>7. Beneath(u, 1) = ToSet(s)
  <2>1. 0 \in 0 .. n /\ 0 + 1 = 1
    BY <1>1
  <2>2. Beneath(u, 0 + 1) = {s[j] : j \in 0 + 1 .. n}
    BY <1>5, <2>1
  <2> QED BY <1>6, <2>1, <2>2
<1>8. \A i \in 1 .. n : Beneath(u, i + 1) = Beneath(s, i)
  <2>1. \A i \in 1 .. n : i \in 0 .. n
    BY <1>1
  <2> QED BY <1>5, <2>1 DEF Beneath, n
<1> QED BY <1>4, <1>6, <1>7, <1>8 DEF u, n

(* A push of the end of a call adds its name, and no other push does.          *)
LEMMA NamesPushed ==
    ASSUME NEW S, NEW e
    PROVE  Names({e} \cup S) = IF e.op = "leave" THEN {e.key} \cup Names(S) ELSE Names(S)
BY DEF Names

(* The names in flight are those on the stack.                                 *)
LEMMA GuardNames ==
    ASSUME NEW s, NEW names, Guards(s, names)
    PROVE  names = Names(ToSet(s)) /\ IsList(s)
<1> DEFINE T == {s[i] : i \in DOMAIN s}
<1>1. s \in Seq(T) /\ IsList(s)
  BY DEF Guards, IsList
<1> HIDE DEF T
<1>2. DOMAIN s = 1 .. Len(s)
  BY <1>1
<1>3. names = {s[i].key : i \in Leaves(s)}
  BY DEF Guards
<1> QED BY <1>1, <1>2, <1>3 DEF Names, ToSet, Leaves

(* The top of a stack, and what is under it.                                      *)
LEMMA TopAndRest ==
    ASSUME NEW s, IsList(s), s # <<>>
    PROVE  s = Pushed(s[1], Tail(s)) /\ IsList(Tail(s))
<1> DEFINE T == {s[i] : i \in DOMAIN s}
<1>1. s \in Seq(T)
  BY DEF IsList
<1> HIDE DEF T
<1>2. s = <<s[1]>> \o Tail(s) /\ Tail(s) \in Seq(T)
  BY <1>1, FirstAndRest
<1> QED BY <1>2, Itself DEF Pushed

(* What a widget unfolds to, in terms of the widget.                              *)
UnfoldingOf(n, el, def, page, open) ==
    IF n = Root THEN Part(doc.layout.kids, {})
    ELSE IF def # None
    THEN InheritedParts(def, open, {}) \o Part(doc.def[def].kids, open) \o ContentPart(el, open)
    ELSE IF page # None
    THEN IF Lookup(doc, page) = None THEN <<>> ELSE Part(doc.def[Lookup(doc, page)].kids, {})
    ELSE Part(Held(el), open)

UnfoldingLaw ==
    \A n : Unfolding(n) = UnfoldingOf(n, tree[n].el, tree[n].def, tree[n].page, Open(n))

(* It is that.                                                                 *)
LEMMA UnfoldingIs == UnfoldingLaw
<1> SUFFICES ASSUME NEW n
             PROVE  Unfolding(n) = UnfoldingOf(n, tree[n].el, tree[n].def, tree[n].page, Open(n))
  BY DEF UnfoldingLaw
<1>1. CASE n = Root
  BY <1>1 DEF Unfolding, UnfoldingOf
<1>2. CASE n # Root /\ tree[n].def # None
  BY <1>2 DEF Unfolding, UnfoldingOf
<1>3. CASE n # Root /\ tree[n].def = None /\ tree[n].page # None
  BY <1>3 DEF Unfolding, UnfoldingOf, PagePart, Paged
<1>4. CASE n # Root /\ tree[n].def = None /\ tree[n].page = None
  BY <1>4 DEF Unfolding, UnfoldingOf, Paged
<1> QED BY <1>1, <1>2, <1>3, <1>4

(* What a skin puts into widgets depends on the tables of the skin only.       *)
LEMMA PartsStay ==
    ASSUME doc' = doc
    PROVE  /\ \A els, open : Part(els, open)' = Part(els, open)
           /\ \A d, open, on : InheritedParts(d, open, on)' = InheritedParts(d, open, on)
           /\ \A el, open : ContentPart(el, open)' = ContentPart(el, open)
           /\ \A el : Held(el)' = Held(el)
           /\ \A n, el, def, page, open :
                 UnfoldingOf(n, el, def, page, open)' = UnfoldingOf(n, el, def, page, open)
<1>1. \A els, open : Part(els, open)' = Part(els, open)
  BY DEF Part, Ids, DefOf, Lookup
<1>2. ASSUME NEW d, NEW open, NEW on PROVE InheritedParts(d, open, on)' = InheritedParts(d, open, on)
  BY DEF InheritedParts, Part, Ids, DefOf, Lookup
<1>3. \A el, open : ContentPart(el, open)' = ContentPart(el, open)
  BY DEF ContentPart, Part, Ids, DefOf, Lookup
<1>4. \A el : Held(el)' = Held(el)
  BY DEF Held, PaneElements, Entries, Lookup
<1>5. ASSUME NEW n, NEW el, NEW def, NEW page, NEW open
      PROVE  UnfoldingOf(n, el, def, page, open)' = UnfoldingOf(n, el, def, page, open)
  <2>1. CASE n = Root
    BY <2>1 DEF UnfoldingOf, Part, Ids, DefOf, Lookup
  <2>2. CASE n # Root /\ def # None
    <3>1. InheritedParts(def, open, {})' = InheritedParts(def, open, {})
      BY <1>2
    <3>2. ContentPart(el, open)' = ContentPart(el, open)
      BY <1>3
    <3>3. (Part(doc.def[def].kids, open))' = Part(doc.def[def].kids, open)
      BY DEF Part, Ids, DefOf, Lookup
    <3> QED BY <2>2, <3>1, <3>2, <3>3 DEF UnfoldingOf
  <2>3. CASE n # Root /\ def = None /\ page # None
    BY <2>3 DEF UnfoldingOf, Part, Ids, DefOf, Lookup
  <2>4. CASE n # Root /\ def = None /\ page = None
    BY <2>4 DEF UnfoldingOf, Part, Ids, DefOf, Lookup, Held, PaneElements, Entries
  <2> QED BY <2>1, <2>2, <2>3, <2>4
<1> QED BY <1>1, <1>2, <1>3, <1>4, <1>5

(* So a widget that stays unfolds to what it did.                              *)
LEMMA UnfoldingStays ==
    ASSUME Laws, Laws', doc' = doc, NEW K, SameOn(K), NEW n \in K, tree'[n].page = tree[n].page
    PROVE  Unfolding(n)' = Unfolding(n)
<1>1. Open(n)' = Open(n)
  BY OpenStays
<1>2. PICK el, def, page, open :
         el = tree[n].el /\ def = tree[n].def /\ page = tree[n].page /\ open = Open(n)
  OBVIOUS
<1>3. Unfolding(n) = UnfoldingOf(n, el, def, page, open)
  BY <1>2, UnfoldingIs DEF UnfoldingLaw
<1>4. el = tree'[n].el /\ def = tree'[n].def /\ page = tree'[n].page /\ open = Open(n)'
  BY <1>1, <1>2 DEF SameOn
<1>5. UnfoldingLaw'
  BY UnfoldingIs, PTL
<1>6. \A e, d, p, o : e = tree'[n].el /\ d = tree'[n].def /\ p = tree'[n].page /\ o = Open(n)'
         => Unfolding(n)' = UnfoldingOf(n, e, d, p, o)'
  BY <1>5 DEF UnfoldingLaw
<1>7. Unfolding(n)' = UnfoldingOf(n, el, def, page, open)'
  BY <1>4, <1>6
<1> QED BY <1>3, <1>7, PartsStay

(* What is visited for an element are elements.                                   *)
LEMMA GroupsSeq ==
    ASSUME NEW names \in Seq(DOMAIN Lower)
    PROVE  Groups(names) \in Seq(Elements)
<1> DEFINE g == Groups(names)
<1>1. DOMAIN names = 1 .. Len(names) /\ Len(names) \in Nat
  OBVIOUS
<1>2. g = [i \in 1 .. Len(names) |-> GroupFor(names[i])]
  BY <1>1 DEF Groups, GroupFor
<1>3. \A i \in 1 .. Len(names) : GroupFor(names[i]) \in Elements
  BY <1>1 DEF Elements
<1> HIDE DEF g
<1>4. g \in [1 .. Len(names) -> Elements]
  BY <1>2, <1>3
<1> QED BY <1>1, <1>4, SeqDef DEF g

(* So are the elements that an element holds.                                  *)
LEMMA HeldSeq ==
    ASSUME NEW el \in Elements
    PROVE  Held(el) \in Seq(Elements)
<1>1. PaneElements(el) \in Seq(Elements)
  <2> DEFINE P == {name \in ToSet(el.panes) : Lookup(doc, name) # None}
             a == Among(el.panes, P)
  <2>1. a \in Seq(DOMAIN Lower)
    <3>1. el.panes \in Seq(DOMAIN Lower)
      BY ElementsHold
    <3> HIDE DEF P
    <3> QED BY <3>1, AmongSeq
  <2> HIDE DEF a
  <2>2. Groups(a) \in Seq(Elements)
    BY <2>1, GroupsSeq
  <2> QED BY <2>2 DEF PaneElements, a
<1>2. Entries(el) \in Seq(Elements)
  <2> DEFINE P == {k \in DOMAIN doc.def : doc.def[k].id # None /\ doc.def[k].wndtype}
             a == Among(ByName, P)
  <2>1. a \in Seq(DOMAIN Lower)
    <3> HIDE DEF P
    <3> QED BY AmongSeq, NamesAssumption
  <2> HIDE DEF a
  <2>2. Groups(a) \in Seq(Elements)
    BY <2>1, GroupsSeq
  <2>3. Entries(el) = IF el.tag # "componentbucket" THEN <<>> ELSE Groups(a)
    BY DEF Entries, a
  <2> QED BY <2>2, <2>3
<1>3. el.kids \in Seq(Elements)
  BY ElementsHold
<1> DEFINE a == PaneElements(el)
           k == el.kids
           b == Entries(el)
<1>4. Held(el) = IF el.tag = "wasabi_frame" THEN a ELSE k \o b
  BY DEF Held
<1> HIDE DEF a, k, b
<1> QED BY <1>1, <1>2, <1>3, <1>4 DEF a, k, b

-----------------------------------------------------------------------------
(* What is left of a body to be visited, element by element.                      *)
Plain(els) == \A x \in ToSet(els) : ~isScaffolding(x)

(* An empty body puts nothing into a widget.                                   *)
LEMMA PartNil == \A open : Part(<<>>, open) = <<>>
BY AmongNil DEF Part

(* A body puts its first element into it, unless its name is open, and the     *)
(* others.                                                                     *)
LEMMA PartCons ==
    ASSUME NEW x \in Elements, NEW s \in Seq(Elements), NEW open, ~isScaffolding(x)
    PROVE  Part(<<x>> \o s, open)
              = IF Ids(DefOf(doc, x)) \cap open = {} THEN <<x>> \o Part(s, open) ELSE Part(s, open)
<1> DEFINE u == <<x>> \o s
           P == {el \in ToSet(u) : ~isScaffolding(el) /\ Ids(DefOf(doc, el)) \cap open = {}}
           Q == {el \in ToSet(s) : ~isScaffolding(el) /\ Ids(DefOf(doc, el)) \cap open = {}}
<1>1. Part(u, open) = Among(u, P) /\ Part(s, open) = Among(s, Q)
  BY DEF Part
<1>2. ToSet(u) = {x} \cup ToSet(s)
  <2>1. DOMAIN u = 1 .. Len(s) + 1 /\ DOMAIN s = 1 .. Len(s) /\ Len(s) \in Nat
    OBVIOUS
  <2>2. u[1] = x /\ \A i \in 1 .. Len(s) : u[i + 1] = s[i]
    OBVIOUS
  <2> HIDE DEF u
  <2>3. \A i \in DOMAIN u : u[i] \in {x} \cup ToSet(s)
    <3> SUFFICES ASSUME NEW i \in DOMAIN u, i # 1 PROVE u[i] \in ToSet(s)
      BY <2>2
    <3>1. i - 1 \in DOMAIN s /\ i = (i - 1) + 1
      BY <2>1
    <3> QED BY <2>1, <2>2, <3>1 DEF ToSet
  <2>4. x \in ToSet(u) /\ \A i \in DOMAIN s : s[i] \in ToSet(u)
    <3>1. 1 \in DOMAIN u /\ \A i \in DOMAIN s : i + 1 \in DOMAIN u
      BY <2>1
    <3> QED BY <2>1, <2>2, <3>1 DEF ToSet
  <2> QED BY <2>3, <2>4 DEF ToSet
<1>3. ToSet(s) \cap P = ToSet(s) \cap Q
  BY <1>2
<1>4. x \in P <=> Ids(DefOf(doc, x)) \cap open = {}
  BY <1>2
<1> HIDE DEF P, Q
<1>5. Among(s, P) = Among(s, Q)
  BY <1>3, AmongSame
<1>6. Among(u, P) = IF x \in P THEN <<x>> \o Among(s, P) ELSE Among(s, P)
  BY AmongCons
<1> QED BY <1>1, <1>4, <1>5, <1>6

(* So for the rest of a loop.                                                  *)
LEMMA PartTop ==
    ASSUME NEW els \in Seq(Elements), els # <<>>, Plain(els), NEW open
    PROVE  /\ els[1] \in Elements /\ Tail(els) \in Seq(Elements) /\ Plain(Tail(els))
           /\ ~isScaffolding(els[1])
           /\ Part(els, open) = IF Ids(DefOf(doc, els[1])) \cap open = {}
                                THEN <<els[1]>> \o Part(Tail(els), open) ELSE Part(Tail(els), open)
<1>1. els = <<els[1]>> \o Tail(els) /\ els[1] \in Elements /\ Tail(els) \in Seq(Elements)
  BY FirstAndRest
<1> DEFINE x == els[1]
           t == Tail(els)
<1>2. x \in ToSet(els) /\ ToSet(t) \subseteq ToSet(els)
  <2>1. DOMAIN els = 1 .. Len(els) /\ Len(els) \in Nat /\ Len(els) # 0
    OBVIOUS
  <2>2. DOMAIN t = 1 .. Len(els) - 1 /\ \A i \in 1 .. Len(els) - 1 : t[i] = els[i + 1]
    OBVIOUS
  <2>3. 1 \in DOMAIN els /\ \A i \in 1 .. Len(els) - 1 : i + 1 \in DOMAIN els
    BY <2>1
  <2> HIDE DEF t
  <2> QED BY <2>2, <2>3 DEF ToSet
<1>3. ~isScaffolding(x) /\ Plain(t)
  BY <1>2 DEF Plain
<1> HIDE DEF x, t
<1>4. Part(<<x>> \o t, open)
         = IF Ids(DefOf(doc, x)) \cap open = {} THEN <<x>> \o Part(t, open) ELSE Part(t, open)
  BY <1>1, <1>3, PartCons DEF x, t
<1> QED BY <1>1, <1>3, <1>4 DEF x, t

(* The elements that a call visits: all but the scaffolding.                   *)
Visited(els) == Among(els, {el \in ToSet(els) : ~isScaffolding(el)})

(* Leaving out the scaffolding changes nothing of what a body puts into a      *)
(* widget.                                                                     *)
LEMMA PartOfVisit ==
    ASSUME NEW els \in Seq(Elements), NEW open
    PROVE  /\ Visited(els) \in Seq(Elements) /\ Plain(Visited(els))
           /\ Part(Visited(els), open) = Part(els, open)
<1> DEFINE P == {el \in ToSet(els) : ~isScaffolding(el)}
           k == Among(els, P)
           Q == {el \in ToSet(k) : ~isScaffolding(el) /\ Ids(DefOf(doc, el)) \cap open = {}}
           R == {el \in ToSet(els) : ~isScaffolding(el) /\ Ids(DefOf(doc, el)) \cap open = {}}
<1>1. Part(Visited(els), open) = Among(k, Q) /\ Part(els, open) = Among(els, R) /\ Visited(els) = k
  BY DEF Part, Visited
<1>2. k \in Seq(Elements) /\ ToSet(k) = ToSet(els) \cap P
  <2> HIDE DEF P
  <2> QED BY AmongSeq
<1>3. Plain(k)
  <2> HIDE DEF k
  <2> QED BY <1>2 DEF Plain
<1>4. ToSet(els) \cap (P \cap Q) = ToSet(els) \cap R
  <2>1. ToSet(k) = P
    <3> HIDE DEF k
    <3> QED BY <1>2
  <2> HIDE DEF k
  <2> QED BY <2>1
<1>5. Among(k, Q) = Among(els, P \cap Q)
  <2> HIDE DEF P, Q
  <2> QED BY AmongAmong
<1>6. Among(els, P \cap Q) = Among(els, R)
  <2> DEFINE S == P \cap Q
  <2>1. ToSet(els) \cap S = ToSet(els) \cap R
    BY <1>4
  <2> HIDE DEF S, R, P, Q, k
  <2>2. Among(els, S) = Among(els, R)
    BY <2>1, AmongSame
  <2> QED BY <2>2 DEF S
<1> HIDE DEF P, Q, R, k
<1> QED BY <1>1, <1>2, <1>3, <1>5, <1>6

-----------------------------------------------------------------------------
(* The entries of a stack: the rest of a loop, and a call that has yet to start.  *)
Loop(els, into, scope, via) == [op |-> "visit", els |-> els, into |-> into, scope |-> scope, via |-> via]
Call(op, def, into, scope, via) == [op |-> op, def |-> def, into |-> into, scope |-> scope, via |-> via]

IsLoop(e) ==
    /\ e = Loop(e.els, e.into, e.scope, e.via)
    /\ e.els \in Seq(Elements) /\ Plain(e.els)

IsCall(e) ==
    /\ e = Call(e.op, e.def, e.into, e.scope, e.via)
    /\ e.op \in {"inherit", "body", "content"} /\ e.def \in DOMAIN doc.def
    /\ e.op = "inherit" => e.via \subseteq Inherits
    /\ e.op = "content" => e.via = {}

IsEntry(e) == e.op = "leave" \/ IsLoop(e) \/ IsCall(e)

(* What an entry has yet to put into its widget.                                  *)
Owes(e, el, open) ==
    IF e.op = "visit" THEN Part(e.els, open \cup e.via)
    ELSE IF e.op = "inherit" THEN InheritedParts(e.def, open, e.via)
    ELSE IF e.op = "body" THEN Part(doc.def[e.def].kids, open \cup e.via)
    ELSE ContentPart(el, open)

Share(e, n, el, open) ==
    IF e.op # "leave" /\ e.into = n THEN Owes(e, el, open) ELSE <<>>

(* What a stack has yet to put into a widget.                                     *)
Debt(s, n, el, open) == FlattenSeq([i \in DOMAIN s |-> Share(s[i], n, el, open)])

(* Injected content are elements.                                              *)
LEMMA ContentSeq ==
    ASSUME DefsOk(doc.def), NEW el, NEW open
    PROVE  ContentPart(el, open) \in Seq(Elements)
<1> DEFINE d == Lookup(doc, el.content)
<1>1. CASE d = None \/ el.content \in open
  BY <1>1 DEF ContentPart
<1>2. CASE ~(d = None \/ el.content \in open)
  <2>1. d \in DOMAIN doc.def
    BY <1>2, LookupDef
  <2>2. doc.def[d].kids \in Seq(Elements)
    <3> HIDE DEF d
    <3> QED BY <2>1, BodySeq
  <2>3. ContentPart(el, open) = Part(doc.def[d].kids, open \cup {el.content})
    BY <1>2 DEF ContentPart
  <2> HIDE DEF d
  <2> QED BY <2>2, <2>3, PartSeq
<1> QED BY <1>1, <1>2

(* What an entry has yet to put into its widget are elements.                  *)
LEMMA ShareSeq ==
    ASSUME DefsOk(doc.def), NEW e, IsEntry(e), NEW n, NEW el, NEW open
    PROVE  Share(e, n, el, open) \in Seq(Elements)
<1>1. CASE e.op = "leave" \/ e.into # n
  BY <1>1 DEF Share
<1>2. CASE e.op # "leave" /\ e.into = n /\ IsLoop(e)
  <2>1. e.op = "visit" /\ e.els \in Seq(Elements)
    BY <1>2 DEF IsLoop, Loop
  <2>2. Share(e, n, el, open) = Part(e.els, open \cup e.via)
    BY <1>2, <2>1 DEF Share, Owes
  <2> QED BY <2>1, <2>2, PartSeq
<1>3. CASE e.op # "leave" /\ e.into = n /\ IsCall(e)
  <2>1. /\ e.op \in {"inherit", "body", "content"} /\ e.def \in DOMAIN doc.def
        /\ e.op = "inherit" => e.via \in SUBSET Inherits
    BY <1>3 DEF IsCall
  <2>2. Share(e, n, el, open) = Owes(e, el, open)
    BY <1>3 DEF Share
  <2>3. CASE e.op = "inherit"
    <3>1. Owes(e, el, open) = InheritedParts(e.def, open, e.via)
      BY <2>3 DEF Owes
    <3>2. \A d \in DOMAIN doc.def, on \in SUBSET Inherits :
             InheritedParts(d, open, on) \in Seq(Elements)
      BY InheritedUnfolds
    <3>3. InheritedParts(e.def, open, e.via) \in Seq(Elements)
      BY <2>1, <2>3, <3>2
    <3> QED BY <2>2, <3>1, <3>3
  <2>4. CASE e.op = "body"
    <3>1. Owes(e, el, open) = Part(doc.def[e.def].kids, open \cup e.via)
      BY <2>4 DEF Owes
    <3>2. doc.def[e.def].kids \in Seq(Elements)
      BY <2>1, BodySeq
    <3> QED BY <2>2, <3>1, <3>2, PartSeq
  <2>5. CASE e.op = "content"
    <3>1. Owes(e, el, open) = ContentPart(el, open)
      BY <2>5 DEF Owes
    <3> QED BY <2>2, <3>1, ContentSeq
  <2> QED BY <2>1, <2>3, <2>4, <2>5
<1> QED BY <1>1, <1>2, <1>3 DEF IsEntry

(* An empty stack owes nothing.                                                *)
LEMMA DebtNil == \A n, el, open : Debt(<<>>, n, el, open) = <<>>
<1> SUFFICES ASSUME NEW n, NEW el, NEW open PROVE Debt(<<>>, n, el, open) = <<>>
  OBVIOUS
<1> DEFINE f == [i \in DOMAIN <<>> |-> Share(<<>>[i], n, el, open)]
<1>1. f = <<>>
  OBVIOUS
<1>2. FlattenSeq(<<>>) = <<>>
  <2>1. <<>> \in Seq(Elements) /\ <<>> \in Seq(Seq(Elements))
    OBVIOUS
  <2> QED BY <2>1, FlattenCons
<1> QED BY <1>1, <1>2 DEF Debt

(* The entries of a stack are entries.                                            *)
AllEntries(s) == IsList(s) /\ \A x \in ToSet(s) : IsEntry(x)

(* A push adds what the entry owes, in front.                                  *)
LEMMA DebtPushed ==
    ASSUME DefsOk(doc.def), NEW s, AllEntries(s), NEW e, IsEntry(e), NEW n, NEW el, NEW open
    PROVE  /\ Debt(Pushed(e, s), n, el, open) = Share(e, n, el, open) \o Debt(s, n, el, open)
           /\ Debt(s, n, el, open) \in Seq(Elements)
<1> DEFINE u == Pushed(e, s)
           sh(x) == Share(x, n, el, open)
           f == [i \in DOMAIN u |-> sh(u[i])]
           g == [i \in DOMAIN s |-> sh(s[i])]
           T == Seq(Elements)
<1>1. s \in Seq(ToSet(s)) /\ IsList(s)
  BY DEF AllEntries, IsList, ToSet
<1>2. \A x \in ToSet(s) \cup {e} : sh(x) \in T
  BY ShareSeq DEF AllEntries
<1> HIDE DEF sh, T
<1>3. DOMAIN s = 1 .. Len(s) /\ Len(s) \in Nat
  BY <1>1
<1>4. g \in Seq(T)
  <2>1. g \in [1 .. Len(s) -> T]
    BY <1>2, <1>3 DEF ToSet
  <2> QED BY <1>3, <2>1, SeqDef
<1>5. f = <<sh(e)>> \o g
  <2>1. u \in Seq(ToSet(s) \cup {e}) /\ Len(u) = Len(s) + 1 /\ u[1] = e
        /\ \A i \in 1 .. Len(s) : u[i + 1] = s[i]
    <3>1. s \in Seq(ToSet(s) \cup {e}) /\ <<e>> \in Seq(ToSet(s) \cup {e})
      BY <1>1, SeqMonotonic
    <3> DEFINE S == ToSet(s) \cup {e}
    <3> HIDE DEF S
    <3> QED BY <3>1 DEF Pushed, S
  <2> DEFINE h == <<sh(e)>> \o g
             a == <<sh(e)>>
  <2>2. Len(g) = Len(s) /\ DOMAIN g = 1 .. Len(s) /\ \A i \in 1 .. Len(s) : g[i] = sh(s[i])
    BY <1>3
  <2> HIDE DEF g
  <2>3. Len(h) = Len(s) + 1 /\ DOMAIN h = 1 .. Len(s) + 1 /\ h[1] = sh(e)
        /\ \A i \in 1 .. Len(s) : h[i + 1] = g[i]
    <3>1. sh(e) \in T
      BY <1>2
    <3> QED BY <1>3, <1>4, <2>2, <3>1
  <2>4. DOMAIN u = 1 .. Len(s) + 1
    <3> HIDE DEF u
    <3> QED BY <1>3, <2>1
  <2> HIDE DEF u, h
  <2>5. h = [i \in 1 .. Len(s) + 1 |-> h[i]]
    <3>1. h \in Seq(T)
      <4>1. sh(e) \in T
        BY <1>2
      <4> QED BY <1>4, <4>1 DEF h
    <3> QED BY <2>3, <3>1
  <2>6. ASSUME NEW i \in 1 .. Len(s) + 1 PROVE sh(u[i]) = h[i]
    <3>1. CASE i = 1
      BY <2>1, <2>3, <3>1
    <3>2. CASE i # 1
      <4>1. i - 1 \in 1 .. Len(s) /\ i = (i - 1) + 1
        BY <1>3, <3>2
      <4>2. u[(i - 1) + 1] = s[i - 1] /\ h[(i - 1) + 1] = g[i - 1] /\ g[i - 1] = sh(s[i - 1])
        BY <2>1, <2>2, <2>3, <4>1
      <4> QED BY <4>1, <4>2
    <3> QED BY <3>1, <3>2
  <2> QED BY <2>4, <2>5, <2>6 DEF h
<1> HIDE DEF f, g, u
<1>6. FlattenSeq(<<sh(e)>> \o g) = sh(e) \o FlattenSeq(g) /\ FlattenSeq(g) \in T
  <2>1. sh(e) \in T
    BY <1>2
  <2> QED BY <1>4, <2>1, FlattenCons DEF T
<1>7. Debt(u, n, el, open) = FlattenSeq(f) /\ Debt(s, n, el, open) = FlattenSeq(g)
  BY DEF Debt, f, g, sh
<1> QED BY <1>5, <1>6, <1>7 DEF u, sh, T

(* What a stack owes depends on the stack and on the tables only.              *)
LEMMA DebtStays ==
    ASSUME doc' = doc, NEW s, NEW n, NEW el, NEW open
    PROVE  Debt(s, n, el, open)' = Debt(s, n, el, open)
<1>1. ASSUME NEW e PROVE Owes(e, el, open)' = Owes(e, el, open)
  <2>1. /\ (Part(e.els, open \cup e.via))' = Part(e.els, open \cup e.via)
        /\ (InheritedParts(e.def, open, e.via))' = InheritedParts(e.def, open, e.via)
        /\ ContentPart(el, open)' = ContentPart(el, open)
    BY PartsStay
  <2>2. PICK k, on : k = doc.def[e.def].kids /\ on = open \cup e.via
    OBVIOUS
  <2>3. Part(k, on)' = Part(k, on) /\ k = doc'.def[e.def].kids
    BY <2>2, PartsStay
  <2>4. (Part(doc.def[e.def].kids, open \cup e.via))' = Part(doc.def[e.def].kids, open \cup e.via)
    BY <2>2, <2>3
  <2> QED BY <2>1, <2>4 DEF Owes
<1>2. ASSUME NEW e PROVE Share(e, n, el, open)' = Share(e, n, el, open)
  BY <1>1 DEF Share
<1>3. [i \in DOMAIN s |-> Share(s[i], n, el, open)]' = [i \in DOMAIN s |-> Share(s[i], n, el, open)]
  BY <1>2
<1> QED BY <1>3 DEF Debt

-----------------------------------------------------------------------------
(* The instance that is handed down to what is visited into a widget.             *)
Hands(n) ==
    IF Paged(n) THEN None
    ELSE IF tree[n].def # None /\ tree[n].el.iid # None THEN tree[n].el.iid
    ELSE Instance(n)

(* Whether a widget has what sendparams say of it.                                *)
SentOf(id, inst, value, pages) ==
    LET said == IF pages = {} THEN doc.sends ELSE doc.pageSends
    IN  id # None =>
            /\ <<inst, id>> \in DOMAIN said => value = said[<<inst, id>>]
            /\ <<None, id>> \in DOMAIN said /\ <<inst, id>> \notin DOMAIN said
                  => value = said[<<None, id>>]

HasSentLaw ==
    \A n : HasSent(n) <=> SentOf(tree[n].el.id, Instance(n), tree[n].value, Pages(n))

(* HasSent says that.                                                          *)
LEMMA HasSentIs == HasSentLaw
BY DEF HasSentLaw, HasSent, SentOf

(* What stays as it is in a widget that stays in K.                               *)
LEMMA WidgetStays ==
    ASSUME Laws, Laws', doc' = doc, NEW K, SameOn(K), NEW n \in K, tree'[n].page = tree[n].page
    PROVE  /\ n \in DOMAIN tree /\ n \in DOMAIN tree'
           /\ Open(n)' = Open(n) /\ Instance(n)' = Instance(n) /\ Hands(n)' = Hands(n)
           /\ Pages(n)' = Pages(n) /\ Paged(n)' = Paged(n) /\ Unfolding(n)' = Unfolding(n)
           /\ tree'[n].value = tree[n].value => (HasSent(n)' <=> HasSent(n))
<1>1. n \in DOMAIN tree /\ n \in DOMAIN tree'
  BY DEF SameOn
<1>2. Open(n)' = Open(n) /\ Instance(n)' = Instance(n) /\ Pages(n)' = Pages(n)
  BY OpenStays, InstanceStays, PagesStay
<1>3. Unfolding(n)' = Unfolding(n)
  BY UnfoldingStays
<1>4. Paged(n)' = Paged(n)
  BY DEF Paged
<1>5. tree'[n].el = tree[n].el /\ tree'[n].def = tree[n].def
  BY DEF SameOn
<1>6. Hands(n)' = Hands(n)
  BY <1>2, <1>4, <1>5 DEF Hands
<1>7. ASSUME tree'[n].value = tree[n].value PROVE HasSent(n)' <=> HasSent(n)
  <2>1. PICK id, inst, value, pages :
           id = tree[n].el.id /\ inst = Instance(n) /\ value = tree[n].value /\ pages = Pages(n)
    OBVIOUS
  <2>2. HasSent(n) <=> SentOf(id, inst, value, pages)
    BY <2>1, HasSentIs DEF HasSentLaw
  <2>3. HasSentLaw'
    BY HasSentIs, PTL
  <2>4. \A i, a, v, p : i = tree'[n].el.id /\ a = Instance(n)' /\ v = tree'[n].value /\ p = Pages(n)'
           => (HasSent(n)' <=> SentOf(i, a, v, p)')
    BY <2>3 DEF HasSentLaw
  <2>5. HasSent(n)' <=> SentOf(id, inst, value, pages)'
    BY <1>2, <1>5, <1>7, <2>1, <2>4
  <2>6. SentOf(id, inst, value, pages)' <=> SentOf(id, inst, value, pages)
    BY DEF SentOf
  <2> QED BY <2>2, <2>5, <2>6
<1> QED BY <1>1, <1>2, <1>3, <1>4, <1>6, <1>7

-----------------------------------------------------------------------------
(* The children of a widget so far, and what is still to come.                    *)
Grown(n, debt) ==
    \E c \in Seq(Elements) :
        /\ Cardinality(Children(n)) = Len(c)
        /\ \A m \in Children(n) : Nth(m) \in 1 .. Len(c) /\ tree[m].el = c[Nth(m)]
        /\ c \o debt = Unfolding(n)

(* A widget that stays has what it had, and the same to come.                  *)
LEMMA GrownStays ==
    ASSUME Laws, Laws', doc' = doc, NEW K, SameOn(K), NEW n \in K, tree'[n].page = tree[n].page,
           NEW debt, Grown(n, debt), Children(n)' = Children(n), Children(n) \subseteq K
    PROVE  Grown(n, debt)'
<1>1. PICK c \in Seq(Elements) :
          /\ Cardinality(Children(n)) = Len(c)
          /\ \A m \in Children(n) : Nth(m) \in 1 .. Len(c) /\ tree[m].el = c[Nth(m)]
          /\ c \o debt = Unfolding(n)
  BY DEF Grown
<1>2. Unfolding(n)' = Unfolding(n)
  BY WidgetStays
<1>3. Cardinality(Children(n))' = Len(c)
  BY <1>1
<1>4. ASSUME NEW m \in Children(n)' PROVE Nth(m)' = Nth(m) /\ tree'[m].el = tree[m].el
  <2>1. m \in Children(n) /\ m \in K
    BY <1>4
  <2>2. tree[m].up = n /\ tree'[m].up = n /\ tree'[m].el = tree[m].el
    BY <1>4, <2>1 DEF Children, SameOn
  <2>3. Nth(m) = Cardinality({k \in Children(n) : k <= m})
    BY <2>2 DEF Nth
  <2>4. Nth(m)' = Cardinality({k \in Children(n)' : k <= m})
    BY <2>2 DEF Nth, Children
  <2>5. {k \in Children(n)' : k <= m} = {k \in Children(n) : k <= m}
    OBVIOUS
  <2> QED BY <2>2, <2>3, <2>4, <2>5
<1>5. \A m \in Children(n)' : Nth(m)' \in 1 .. Len(c) /\ tree'[m].el = c[Nth(m)']
  BY <1>1, <1>4
<1>6. c \o debt = Unfolding(n)'
  BY <1>1, <1>2
<1> QED BY <1>3, <1>5, <1>6 DEF Grown

(* A widget that is new has all to come.                                          *)
LEMMA GrownNew ==
    ASSUME NEW n, NEW debt, Children(n) = {}, debt \in Seq(Elements), debt = Unfolding(n)
    PROVE  Grown(n, debt)
<1> DEFINE c == <<>>
<1>1. c \in Seq(Elements) /\ Len(c) = 0 /\ c \o debt = debt
  OBVIOUS
<1>2. Cardinality(Children(n)) = 0
  BY FS_EmptySet
<1> HIDE DEF c
<1> QED BY <1>1, <1>2 DEF Grown

(* The same as a law.                                                          *)
GrownNewLaw ==
    \A n, debt : Children(n) = {} /\ debt \in Seq(Elements) /\ debt = Unfolding(n) => Grown(n, debt)

(* It holds.                                                                   *)
LEMMA GrownNews == GrownNewLaw
<1> SUFFICES ASSUME NEW n, NEW debt, Children(n) = {}, debt \in Seq(Elements), debt = Unfolding(n)
             PROVE  Grown(n, debt)
  BY DEF GrownNewLaw
<1> QED BY GrownNew

(* A child that is made takes what it is off what is to come.                     *)
LEMMA GrownMore ==
    ASSUME Laws, Laws', doc' = doc, NEW K, SameOn(K), K = DOMAIN tree,
           NEW n \in K, tree'[n].page = tree[n].page,
           NEW el \in Elements, NEW debt \in Seq(Elements), Grown(n, <<el>> \o debt),
           NEW new \in Nat, \A m \in K : m < new,
           DOMAIN tree' = K \cup {new}, tree'[new].el = el, tree'[new].up = n
    PROVE  Grown(n, debt)'
<1>1. PICK c \in Seq(Elements) :
          /\ Cardinality(Children(n)) = Len(c)
          /\ \A m \in Children(n) : Nth(m) \in 1 .. Len(c) /\ tree[m].el = c[Nth(m)]
          /\ c \o (<<el>> \o debt) = Unfolding(n)
  BY DEF Grown
<1>2. Unfolding(n)' = Unfolding(n)
  BY WidgetStays
<1>3. K \subseteq Nat /\ IsFiniteSet(K) /\ new \notin K
  BY DEF Laws, Trunk
<1> DEFINE ch == Children(n)
           d == Append(c, el)
<1>4. ch \subseteq K /\ Children(n)' = ch \cup {new} /\ IsFiniteSet(ch) /\ new \notin ch
  <2>1. ch \subseteq K
    BY DEF Children
  <2>2. Children(n)' = {m \in K \cup {new} : tree'[m].up = n}
    BY DEF Children
  <2>3. \A m \in K : tree'[m].up = tree[m].up
    BY DEF SameOn
  <2>4. Children(n)' = ch \cup {new}
    BY <2>2, <2>3 DEF Children
  <2> HIDE DEF ch
  <2> QED BY <1>3, <2>1, <2>4, FS_Subset
<1> HIDE DEF ch
<1>5. d \in Seq(Elements) /\ Len(d) = Len(c) + 1 /\ d[Len(c) + 1] = el
      /\ \A i \in 1 .. Len(c) : d[i] = c[i]
  OBVIOUS
<1>6. Cardinality(ch \cup {new}) = Len(d)
  <2>1. Cardinality(ch \cup {new}) = Cardinality(ch) + 1
    BY <1>4, FS_AddElement
  <2> QED BY <1>1, <1>5, <2>1 DEF ch
<1> DEFINE upTo(m) == {k \in Children(n)' : k <= m}
<1>7. \A m \in Children(n)' : Nth(m)' = Cardinality(upTo(m))
  BY DEF Nth, Children
<1>8. ASSUME NEW m \in Children(n)' PROVE Nth(m)' \in 1 .. Len(d) /\ tree'[m].el = d[Nth(m)']
  <2>1. CASE m = new
    <3>1. upTo(m) = ch \cup {new}
      BY <1>3, <1>4, <2>1
    <3>2. Nth(m)' = Len(d)
      BY <1>6, <1>7, <3>1
    <3>3. Len(d) \in 1 .. Len(d) /\ Len(d) = Len(c) + 1
      BY <1>5
    <3> QED BY <1>5, <2>1, <3>2, <3>3
  <2>2. CASE m # new
    <3>1. m \in ch /\ m \in K
      BY <1>4, <2>2
    <3>2. upTo(m) = {k \in ch : k <= m}
      <4>1. m \in Nat /\ m < new
        BY <1>3, <3>1
      <4>2. ~(new <= m)
        BY <4>1
      <4> QED BY <1>4, <4>2
    <3>3. Nth(m) = Cardinality({k \in ch : k <= m})
      BY <3>1 DEF Nth, Children, ch
    <3>4. Nth(m)' = Nth(m)
      BY <1>7, <3>2, <3>3
    <3>5. Nth(m) \in 1 .. Len(c) /\ tree[m].el = c[Nth(m)]
      BY <1>1, <3>1 DEF ch
    <3>6. tree'[m].el = tree[m].el
      BY <3>1 DEF SameOn
    <3>7. Nth(m) \in 1 .. Len(d) /\ d[Nth(m)] = c[Nth(m)]
      <4> HIDE DEF d
      <4> QED BY <1>5, <3>5
    <3> QED BY <3>4, <3>5, <3>6, <3>7
  <2> QED BY <2>1, <2>2
<1>9. d \o debt = Unfolding(n)'
  <2>1. d = c \o <<el>>
    OBVIOUS
  <2>2. (c \o <<el>>) \o debt = c \o (<<el>> \o debt)
    <3>1. <<el>> \in Seq(Elements)
      OBVIOUS
    <3> QED BY <3>1, Regrouped
  <2> QED BY <1>1, <1>2, <2>1, <2>2
<1>10. Cardinality(Children(n))' = Len(d)
  BY <1>4, <1>6
<1> HIDE DEF d
<1> QED BY <1>5, <1>8, <1>9, <1>10 DEF Grown

-----------------------------------------------------------------------------
(* The call that expands the body of the groupdef of widget n itself.          *)
OwnBody(x, n) == x.op = "body" /\ x.via = {} /\ x.into = n

(* An entry above S on the stack: the names in flight are those its widget is     *)
(* inside of, and those it came through; what is spliced in is above what is own. *)
Sound(e, S) ==
    /\ e.into \in DOMAIN tree
    /\ Names(S) = Open(e.into) \cup e.via
    /\ e.scope = Hands(e.into)
    /\ Loaded => Paged(e.into) \/ Pages(e.into) # {}
    /\ e.op # "visit" => tree[e.into].def # None
    /\ e.op = "inherit" \/ (e.op = "body" /\ e.via # {}) => \E x \in S : OwnBody(x, e.into)

(* A stack whose entries are sound, each above those beneath it.               *)
StackOk(s) ==
    /\ AllEntries(s)
    /\ \A i \in 1 .. Len(s) : s[i].op # "leave" => Sound(s[i], Beneath(s, i))

(* A stack with an entry pushed is sound if the entry is sound above a sound   *)
(* stack.                                                                      *)
StackLaw ==
    \A s, e : IsList(s) =>
        (StackOk(Pushed(e, s)) <=> StackOk(s) /\ IsEntry(e) /\ (e.op # "leave" => Sound(e, ToSet(s))))

(* It is.                                                                      *)
LEMMA StackLaws == StackLaw
<1> SUFFICES ASSUME NEW s, NEW e, IsList(s)
             PROVE  StackOk(Pushed(e, s))
                      <=> StackOk(s) /\ IsEntry(e) /\ (e.op # "leave" => Sound(e, ToSet(s)))
  BY DEF StackLaw
<1> DEFINE u == Pushed(e, s)
           n == Len(s)
<1>1. /\ ToSet(u) = {e} \cup ToSet(s) /\ Beneath(u, 1) = ToSet(s)
      /\ \A i \in 1 .. n : Beneath(u, i + 1) = Beneath(s, i)
  BY PushedSet
<1>2. IsList(u) /\ n \in Nat /\ Len(u) = n + 1 /\ u[1] = e /\ \A i \in 2 .. n + 1 : u[i] = s[i - 1]
  BY PushedFacts
<1> HIDE DEF u, n
<1>3. \A i \in 1 .. n : i + 1 \in 2 .. n + 1 /\ (i + 1) - 1 = i
  BY <1>2
<1>4. \A i \in 1 .. n : u[i + 1] = s[i]
  <2> SUFFICES ASSUME NEW i \in 1 .. n PROVE u[i + 1] = s[i]
    OBVIOUS
  <2>1. u[i + 1] = s[(i + 1) - 1]
    BY <1>2, <1>3
  <2> QED BY <1>3, <2>1
<1>5. AllEntries(u) <=> AllEntries(s) /\ IsEntry(e)
  BY <1>1, <1>2 DEF AllEntries
<1> DEFINE Ok(t, i) == t[i].op # "leave" => Sound(t[i], Beneath(t, i))
<1>6. Ok(u, 1) <=> (e.op # "leave" => Sound(e, ToSet(s)))
  BY <1>1, <1>2
<1>7. \A i \in 1 .. n : Ok(u, i + 1) <=> Ok(s, i)
  BY <1>1, <1>4
<1> HIDE DEF Ok
<1>8. (\A i \in 1 .. n + 1 : Ok(u, i)) <=> Ok(u, 1) /\ \A i \in 1 .. n : Ok(s, i)
  <2>1. ASSUME \A i \in 1 .. n + 1 : Ok(u, i) PROVE Ok(u, 1) /\ \A i \in 1 .. n : Ok(s, i)
    <3>1. 1 \in 1 .. n + 1 /\ \A i \in 1 .. n : i + 1 \in 1 .. n + 1
      BY <1>2
    <3> QED BY <1>7, <2>1, <3>1
  <2>2. ASSUME Ok(u, 1), \A i \in 1 .. n : Ok(s, i), NEW j \in 1 .. n + 1 PROVE Ok(u, j)
    <3>1. j = 1 \/ (j - 1 \in 1 .. n /\ j = (j - 1) + 1)
      BY <1>2
    <3> QED BY <1>7, <2>2, <3>1
  <2> QED BY <2>1, <2>2
<1>9. StackOk(u) <=> AllEntries(u) /\ \A i \in 1 .. n + 1 : Ok(u, i)
  BY <1>2 DEF StackOk, Ok
<1>10. StackOk(s) <=> AllEntries(s) /\ \A i \in 1 .. n : Ok(s, i)
  BY DEF StackOk, Ok, n
<1> QED BY <1>5, <1>6, <1>8, <1>9, <1>10 DEF u

(* An entry stays sound while its widget and those around it stay,             *)
LEMMA SoundStays ==
    ASSUME Laws, Laws', doc' = doc, bound' = bound, NEW K, SameOn(K),
           NEW e, e.into \in K, tree'[e.into].page = tree[e.into].page, NEW S, Sound(e, S)
    PROVE  Sound(e, S)'
<1>1. PICK n \in K : n = e.into
  OBVIOUS
<1>2. /\ n \in DOMAIN tree /\ n \in DOMAIN tree'
      /\ Open(n)' = Open(n) /\ Hands(n)' = Hands(n) /\ Pages(n)' = Pages(n) /\ Paged(n)' = Paged(n)
  BY <1>1, WidgetStays
<1>3. \A m : m = e.into => /\ Open(e.into)' = Open(m)' /\ Hands(e.into)' = Hands(m)'
                           /\ Pages(e.into)' = Pages(m)' /\ Paged(e.into)' = Paged(m)'
  OBVIOUS
<1>4. /\ Open(e.into)' = Open(e.into) /\ Hands(e.into)' = Hands(e.into)
      /\ Pages(e.into)' = Pages(e.into) /\ Paged(e.into)' = Paged(e.into)
  BY <1>1, <1>2, <1>3
<1>5. Loaded' <=> Loaded
  BY DEF Loaded
<1>6. (\E x \in S : OwnBody(x, e.into))' <=> (\E x \in S : OwnBody(x, e.into))
  BY DEF OwnBody
<1>7. Names(S)' = Names(S)
  BY DEF Names
<1>8. e.into \in DOMAIN tree'
  BY <1>1, <1>2
<1> QED BY <1>1, <1>4, <1>5, <1>6, <1>7, <1>8 DEF Sound, SameOn

(* and so does a stack.                                                        *)
LEMMA StackStays ==
    ASSUME Laws, Laws', doc' = doc, bound' = bound, NEW K, SameOn(K), K = DOMAIN tree,
           \A m \in K : tree'[m].page = tree[m].page, NEW s, StackOk(s)
    PROVE  StackOk(s)'
<1>1. AllEntries(s)'
  BY DEF StackOk, AllEntries, IsEntry, IsLoop, IsCall, IsList, Inherits
<1>2. ASSUME NEW i \in 1 .. Len(s), s[i].op # "leave" PROVE Sound(s[i], Beneath(s, i))'
  <2>1. PICK e, S : e = s[i] /\ S = Beneath(s, i)
    OBVIOUS
  <2>2. Sound(e, S) /\ e.into \in K
    BY <1>2, <2>1 DEF StackOk, Sound
  <2>3. Sound(e, S)'
    BY <2>2, SoundStays
  <2> QED BY <2>1, <2>3
<1> QED BY <1>1, <1>2 DEF StackOk

-----------------------------------------------------------------------------
(* The widgets of a tree that is being made.                                      *)
Fields == {"el", "def", "up", "scope", "via", "value", "groupid", "page"}

(* Every widget has an element and its groupdef, and is handed what the one    *)
(* around it hands down; the root is the layout.                               *)
Nodes ==
    /\ \A n \in DOMAIN tree :
          /\ DOMAIN tree[n] = Fields /\ tree[n].el \in Elements
          /\ Paged(n) => Loaded /\ tree[n].el.tag = "groupxfade"
          /\ n # Root => tree[n].def = DefOf(doc, tree[n].el) /\ tree[n].scope = Instance(n)
    /\ tree[Root].el.tag = "layout" /\ tree[Root].def = None /\ tree[Root].up = None

(* The tables that the skin was given.                                         *)
Tables == DefsOk(doc.def) /\ LayoutOk(doc.layout)

(* Every widget has its children so far, and the rest is on the stack.         *)
Growths(s) == \A n \in DOMAIN tree : Grown(n, Debt(s, n, tree[n].el, Open(n)))

(* Every widget has what sendparams say of it, or is about to get it with its  *)
(* body.                                                                       *)
Claims(s) == \A n \in DOMAIN tree : n # Root => HasSent(n) \/ \E x \in ToSet(s) : OwnBody(x, n)

(* While anything is visited the sendparams in effect are those of the layout, *)
(* or of the page.                                                             *)
Sends(s) == s # <<>> => sendparams = IF Loaded THEN doc.pageSends ELSE doc.sends

(* The invariant of a tree that is being made or has been made.                *)
TreeOk == Tables /\ Trunk /\ Nodes /\ StackOk(todo) /\ Growths(todo) /\ Claims(todo) /\ Sends(todo)

(* A step that makes no widget and takes none away.                               *)
Steady ==
    /\ doc' = doc /\ bound' = bound
    /\ DOMAIN tree' = DOMAIN tree
    /\ \A m \in DOMAIN tree :
          /\ DOMAIN tree'[m] = Fields
          /\ tree'[m].el = tree[m].el /\ tree'[m].def = tree[m].def /\ tree'[m].up = tree[m].up
          /\ tree'[m].scope = tree[m].scope /\ tree'[m].via = tree[m].via
          /\ tree'[m].page = tree[m].page

(* What such a step leaves as it was.                                          *)
SteadyTree ==
    /\ Laws /\ Laws' /\ Tables' /\ Nodes' /\ (Loaded' <=> Loaded)

(* It leaves that.                                                             *)
LEMMA SteadyFacts ==
    ASSUME Tables, Trunk, Nodes, Steady
    PROVE  /\ SteadyTree
           /\ \A K : K = DOMAIN tree => SameOn(K)
<1>1. Laws
  BY AllLaws
<1>2. Trunk'
  BY DEF Trunk, Steady
<1>3. Laws'
  BY <1>2, LawsNext
<1>4. ASSUME NEW K, K = DOMAIN tree PROVE SameOn(K)
  BY <1>4 DEF SameOn, Steady, Trunk
<1>5. Tables'
  BY DEF Tables, Steady, DefsOk, LayoutOk
<1>6. Loaded' <=> Loaded
  BY DEF Loaded, Steady
<1>7. Nodes'
  <2>1. ASSUME NEW n \in DOMAIN tree'
        PROVE  /\ DOMAIN tree'[n] = Fields /\ tree'[n].el \in Elements
               /\ Paged(n)' => Loaded' /\ tree'[n].el.tag = "groupxfade"
               /\ n # Root => tree'[n].def = DefOf(doc, tree[n].el)' /\ tree'[n].scope = Instance(n)'
    <3>1. PICK K : K = DOMAIN tree
      OBVIOUS
    <3>2. SameOn(K) /\ n \in K /\ tree'[n].page = tree[n].page /\ doc' = doc
      BY <1>4, <3>1, <2>1 DEF Steady
    <3>3. Instance(n)' = Instance(n) /\ Paged(n)' = Paged(n)
      BY <1>1, <1>3, <3>2, WidgetStays
    <3>4. DefOf(doc, tree[n].el)' = DefOf(doc, tree[n].el)
      BY <2>1 DEF DefOf, Lookup, Steady
    <3> QED BY <1>6, <2>1, <3>3, <3>4 DEF Nodes, Steady
  <2>2. tree'[Root].el.tag = "layout" /\ tree'[Root].def = None /\ tree'[Root].up = None
    BY DEF Nodes, Steady, Trunk
  <2> QED BY <2>1, <2>2 DEF Nodes
<1> QED BY <1>1, <1>3, <1>4, <1>5, <1>6, <1>7 DEF SteadyTree

(* Such a step keeps the invariant if the stack owes what it owed.                *)
LEMMA SteadyStep ==
    ASSUME TreeOk, Steady, NEW s, todo' = s, StackOk(s),
           s # <<>> => todo # <<>> /\ sendparams' = sendparams,
           \A n \in DOMAIN tree : Debt(s, n, tree[n].el, Open(n)) = Debt(todo, n, tree[n].el, Open(n)),
           \A n \in DOMAIN tree : n # Root /\ (HasSent(n) \/ \E x \in ToSet(todo) : OwnBody(x, n))
                                     => HasSent(n)' \/ \E x \in ToSet(s) : OwnBody(x, n)
    PROVE  TreeOk'
<1>1. PICK K : K = DOMAIN tree
  OBVIOUS
<1>2. SteadyTree /\ SameOn(K) /\ doc' = doc /\ bound' = bound
      /\ \A m \in K : tree'[m].page = tree[m].page /\ tree'[m].el = tree[m].el
  BY <1>1, SteadyFacts DEF TreeOk, Steady
<1>3. StackOk(s)'
  BY <1>1, <1>2, StackStays DEF SteadyTree
<1>4. Growths(s)'
  <2>1. ASSUME NEW n \in DOMAIN tree' PROVE Grown(n, Debt(s, n, tree[n].el, Open(n)))'
    <3>1. n \in K
      BY <1>1, <2>1 DEF Steady
    <3>2. PICK debt, el, open : debt = Debt(todo, n, tree[n].el, Open(n)) /\ el = tree[n].el /\ open = Open(n)
      OBVIOUS
    <3>3. debt = Debt(s, n, el, open) /\ Grown(n, debt)
      BY <1>1, <3>1, <3>2 DEF TreeOk, Growths
    <3>4. Children(n)' = Children(n) /\ Children(n) \subseteq K
      BY <1>1 DEF Children, Steady
    <3>5. Grown(n, debt)'
      BY <1>2, <3>1, <3>3, <3>4, GrownStays DEF SteadyTree
    <3>6. Open(n)' = open /\ tree'[n].el = el
      BY <1>2, <3>1, <3>2, WidgetStays DEF SteadyTree
    <3>7. Debt(s, n, el, open)' = Debt(s, n, el, open)
      BY <1>2, DebtStays
    <3>8. \A e, o : e = tree'[n].el /\ o = Open(n)' =>
             Debt(s, n, tree[n].el, Open(n))' = Debt(s, n, e, o)'
      OBVIOUS
    <3>9. Debt(s, n, tree[n].el, Open(n))' = debt
      BY <3>3, <3>6, <3>7, <3>8
    <3>10. \A d : d = Debt(s, n, tree[n].el, Open(n))' =>
             (Grown(n, Debt(s, n, tree[n].el, Open(n)))' <=> Grown(n, d)')
      OBVIOUS
    <3> QED BY <3>5, <3>9, <3>10
  <2> QED BY <2>1 DEF Growths
<1>5. Claims(s)'
  <2>1. ASSUME NEW n \in DOMAIN tree', n # Root PROVE HasSent(n)' \/ \E x \in ToSet(s) : OwnBody(x, n)
    BY <2>1 DEF TreeOk, Claims, Steady
  <2> QED BY <2>1 DEF Claims, OwnBody
<1>6. Sends(s)'
  BY <1>2 DEF TreeOk, Sends, SteadyTree
<1>7. Trunk'
  BY <1>2 DEF SteadyTree, Laws
<1>8. StackOk(todo)' /\ Growths(todo)' /\ Claims(todo)' /\ Sends(todo)'
  <2>1. \A t : t = todo' => /\ (StackOk(t)' <=> StackOk(todo)') /\ (Growths(t)' <=> Growths(todo)')
                            /\ (Claims(t)' <=> Claims(todo)') /\ (Sends(t)' <=> Sends(todo)')
    OBVIOUS
  <2> QED BY <1>3, <1>4, <1>5, <1>6, <2>1
<1> QED BY <1>2, <1>7, <1>8 DEF TreeOk, SteadyTree

-----------------------------------------------------------------------------
(* The top of the stack, and what is under it.                                    *)
IsTop(e, r) ==
    /\ e = todo[1] /\ r = Tail(todo) /\ todo = Pushed(e, r)
    /\ IsList(r) /\ StackOk(r) /\ IsEntry(e)
    /\ e.op # "leave" => Sound(e, ToSet(r))
    /\ inflight = Names(ToSet(todo)) /\ ToSet(todo) = {e} \cup ToSet(r)
    /\ \A n, el, open : /\ Debt(todo, n, el, open) = Share(e, n, el, open) \o Debt(r, n, el, open)
                        /\ Debt(r, n, el, open) \in Seq(Elements)

(* A stack that is not empty has a top.                                        *)
LEMMA HasTop ==
    ASSUME TreeOk, CallsInv, todo # <<>>
    PROVE  \E e, r : IsTop(e, r)
<1> DEFINE e == todo[1]
           r == Tail(todo)
<1>1. IsList(todo) /\ inflight = Names(ToSet(todo))
  BY GuardNames DEF CallsInv
<1>2. todo = Pushed(e, r) /\ IsList(r)
  BY <1>1, TopAndRest
<1>3. StackOk(Pushed(e, r))
  BY <1>2 DEF TreeOk
<1> HIDE DEF e, r
<1>4. StackOk(r) /\ IsEntry(e) /\ (e.op # "leave" => Sound(e, ToSet(r)))
  BY <1>2, <1>3, StackLaws DEF StackLaw
<1>5. ToSet(todo) = {e} \cup ToSet(r)
  BY <1>2, PushedSet
<1>6. ASSUME NEW n, NEW el, NEW open
      PROVE  /\ Debt(todo, n, el, open) = Share(e, n, el, open) \o Debt(r, n, el, open)
             /\ Debt(r, n, el, open) \in Seq(Elements)
  <2>1. DefsOk(doc.def) /\ AllEntries(r)
    BY <1>4 DEF TreeOk, Tables, StackOk
  <2> QED BY <1>2, <1>4, <2>1, DebtPushed
<1>7. IsTop(e, r)
  BY <1>1, <1>2, <1>4, <1>5, <1>6 DEF IsTop, e, r
<1> QED BY <1>7

(* A step that changes none of these is steady.                                *)
LEMMA SteadySame == TreeOk /\ UNCHANGED <<doc, bound, tree>> => Steady
BY DEF TreeOk, Nodes, Steady

(* A widget whose value stays has what sendparams say if it had it.            *)
LEMMA SentStays ==
    ASSUME TreeOk, Steady, NEW n \in DOMAIN tree, tree'[n].value = tree[n].value
    PROVE  HasSent(n)' <=> HasSent(n)
<1>1. PICK K : K = DOMAIN tree
  OBVIOUS
<1>2. SteadyTree /\ SameOn(K) /\ doc' = doc /\ n \in K /\ tree'[n].page = tree[n].page
  BY <1>1, SteadyFacts DEF TreeOk, Steady
<1> QED BY <1>2, WidgetStays DEF SteadyTree

(* A step that only changes the stack.                                            *)
LEMMA StackStep ==
    ASSUME TreeOk, UNCHANGED <<doc, bound, tree, sendparams>>, todo # <<>>, NEW s, todo' = s, StackOk(s),
           \A n, el, open : n \in DOMAIN tree /\ el = tree[n].el /\ open = Open(n)
              => Debt(s, n, el, open) = Debt(todo, n, el, open),
           \A n : (\E x \in ToSet(todo) : OwnBody(x, n)) => \E x \in ToSet(s) : OwnBody(x, n)
    PROVE  TreeOk'
<1>1. Steady
  BY SteadySame
<1>2. ASSUME NEW n \in DOMAIN tree, HasSent(n) \/ \E x \in ToSet(todo) : OwnBody(x, n)
      PROVE  HasSent(n)' \/ \E x \in ToSet(s) : OwnBody(x, n)
  <2>1. HasSent(n)' <=> HasSent(n)
    BY <1>1, SentStays
  <2> QED BY <1>2, <2>1
<1> QED BY <1>1, <1>2, SteadyStep

(* The end of a loop: there is nothing left in it that would have been owed.   *)
LEMMA EndLoopTree == ASSUME TreeOk, CallsInv, EndLoop PROVE TreeOk'
<1>1. todo # <<>> /\ todo[1].op = "visit" /\ todo[1].els = <<>> /\ todo' = Tail(todo)
      /\ UNCHANGED <<doc, bound, tree, sendparams>>
  BY DEF EndLoop, Running, Top
<1>2. PICK e, r : IsTop(e, r)
  BY <1>1, HasTop
<1>3. e.op = "visit" /\ e.els = <<>> /\ todo' = r
  BY <1>1, <1>2 DEF IsTop
<1>4. ASSUME NEW n, NEW el, NEW open PROVE Debt(r, n, el, open) = Debt(todo, n, el, open)
  <2>1. Share(e, n, el, open) = <<>>
    BY <1>3, PartNil DEF Share, Owes
  <2>2. Debt(todo, n, el, open) = <<>> \o Debt(r, n, el, open) /\ Debt(r, n, el, open) \in Seq(Elements)
    BY <1>2, <2>1 DEF IsTop
  <2> HIDE DEF Debt
  <2> QED BY <2>2
<1>5. ASSUME NEW n, NEW x \in ToSet(todo), OwnBody(x, n) PROVE x \in ToSet(r)
  BY <1>2, <1>3, <1>5 DEF IsTop, OwnBody
<1>6. StackOk(r)
  BY <1>2 DEF IsTop
<1> QED BY <1>1, <1>3, <1>4, <1>5, <1>6, StackStep

(* The end of a call frees its name, and owes nothing.                         *)
LEMMA LeaveGroupTree == ASSUME TreeOk, CallsInv, LeaveGroup PROVE TreeOk'
<1>1. todo # <<>> /\ todo[1].op = "leave" /\ todo' = Tail(todo)
      /\ UNCHANGED <<doc, bound, tree, sendparams>>
  BY DEF LeaveGroup, Running, Top
<1>2. PICK e, r : IsTop(e, r)
  BY <1>1, HasTop
<1>3. e.op = "leave" /\ todo' = r
  BY <1>1, <1>2 DEF IsTop
<1>4. ASSUME NEW n, NEW el, NEW open PROVE Debt(r, n, el, open) = Debt(todo, n, el, open)
  <2>1. Share(e, n, el, open) = <<>>
    BY <1>3 DEF Share
  <2>2. Debt(todo, n, el, open) = <<>> \o Debt(r, n, el, open) /\ Debt(r, n, el, open) \in Seq(Elements)
    BY <1>2, <2>1 DEF IsTop
  <2> HIDE DEF Debt
  <2> QED BY <2>2
<1>5. ASSUME NEW n, NEW x \in ToSet(todo), OwnBody(x, n) PROVE x \in ToSet(r)
  BY <1>2, <1>3, <1>5 DEF IsTop, OwnBody
<1>6. StackOk(r)
  BY <1>2 DEF IsTop
<1> QED BY <1>1, <1>3, <1>4, <1>5, <1>6, StackStep

-----------------------------------------------------------------------------
(* A push of a sound entry.                                                       *)
Pushes(e, r) ==
    /\ StackOk(Pushed(e, r)) /\ IsList(Pushed(e, r)) /\ Pushed(e, r) # <<>>
    /\ ToSet(Pushed(e, r)) = {e} \cup ToSet(r)
    /\ Names(ToSet(Pushed(e, r))) = IF e.op = "leave" THEN {e.key} \cup Names(ToSet(r)) ELSE Names(ToSet(r))
    /\ \A n, el, open :
          /\ Share(e, n, el, open) \in Seq(Elements) /\ Debt(r, n, el, open) \in Seq(Elements)
          /\ Debt(Pushed(e, r), n, el, open) = Share(e, n, el, open) \o Debt(r, n, el, open)

(* A sound entry pushed on a sound stack makes a sound stack that owes what    *)
(* both did.                                                                   *)
PushLaw ==
    \A e, r : Tables /\ StackOk(r) /\ IsEntry(e) /\ (e.op # "leave" => Sound(e, ToSet(r))) => Pushes(e, r)

(* That is so.                                                                 *)
LEMMA PushLaws == PushLaw
<1> SUFFICES ASSUME NEW e, NEW r, Tables, StackOk(r), IsEntry(e), e.op # "leave" => Sound(e, ToSet(r))
             PROVE  Pushes(e, r)
  BY DEF PushLaw
<1>1. IsList(r) /\ AllEntries(r) /\ DefsOk(doc.def)
  BY DEF StackOk, AllEntries, Tables
<1>2. StackOk(Pushed(e, r))
  BY <1>1, StackLaws DEF StackLaw
<1>3. ToSet(Pushed(e, r)) = {e} \cup ToSet(r)
  BY <1>1, PushedSet
<1>4. IsList(Pushed(e, r)) /\ Len(Pushed(e, r)) = Len(r) + 1 /\ Len(r) \in Nat
  BY <1>1, PushedFacts
<1>5. Pushed(e, r) # <<>>
  BY <1>4
<1>6. ASSUME NEW n, NEW el, NEW open
      PROVE  /\ Share(e, n, el, open) \in Seq(Elements) /\ Debt(r, n, el, open) \in Seq(Elements)
             /\ Debt(Pushed(e, r), n, el, open) = Share(e, n, el, open) \o Debt(r, n, el, open)
  BY <1>1, ShareSeq, DebtPushed
<1>7. Names({e} \cup ToSet(r)) = IF e.op = "leave" THEN {e.key} \cup Names(ToSet(r)) ELSE Names(ToSet(r))
  BY NamesPushed
<1> QED BY <1>2, <1>3, <1>4, <1>5, <1>6, <1>7 DEF Pushes

(* The end of a call of name.                                                  *)
Leave(name) == [op |-> "leave", key |-> name]

(* The fields of a call,                                                       *)
LEMMA CallFacts ==
    ASSUME NEW op, NEW def, NEW into, NEW scope, NEW via
    PROVE  LET e == Call(op, def, into, scope, via)
           IN  /\ e.op = op /\ e.def = def /\ e.into = into /\ e.scope = scope /\ e.via = via
               /\ e = Call(e.op, e.def, e.into, e.scope, e.via)
BY DEF Call

(* and those of a loop.                                                        *)
LEMMA LoopFacts ==
    ASSUME NEW els, NEW into, NEW scope, NEW via
    PROVE  LET e == Loop(els, into, scope, via)
           IN  /\ e.op = "visit" /\ e.els = els /\ e.into = into /\ e.scope = scope /\ e.via = via
               /\ e = Loop(e.els, e.into, e.scope, e.via)
BY DEF Loop

(* A call that becomes another one of the same widget.                         *)
Alter(e, op, def, via) == [e EXCEPT !.op = op, !.def = def, !.via = via]

(* Such a call is a call.                                                      *)
LEMMA Altered ==
    ASSUME NEW e, e = Call(e.op, e.def, e.into, e.scope, e.via), NEW op, NEW def, NEW via
    PROVE  Alter(e, op, def, via) = Call(op, def, e.into, e.scope, via)
<1>1. PICK p, q, i, s, w : p = e.op /\ q = e.def /\ i = e.into /\ s = e.scope /\ w = e.via
  OBVIOUS
<1>2. [Call(p, q, i, s, w) EXCEPT !.op = op, !.def = def, !.via = via] = Call(op, def, i, s, via)
  <2>1. [Call(p, q, i, s, w) EXCEPT !.op = op] = Call(op, q, i, s, w)
    BY DEF Call
  <2>2. [Call(op, q, i, s, w) EXCEPT !.def = def] = Call(op, def, i, s, w)
    BY DEF Call
  <2>3. [Call(op, def, i, s, w) EXCEPT !.via = via] = Call(op, def, i, s, via)
    BY DEF Call
  <2> QED BY <2>1, <2>2, <2>3
<1>3. e = Call(p, q, i, s, w)
  BY <1>1
<1> QED BY <1>1, <1>2, <1>3 DEF Alter

(* What is left of a stack of which the top is through.                           *)
LEMMA DropTop ==
    ASSUME TreeOk, UNCHANGED <<doc, bound, tree, sendparams>>, todo # <<>>,
           NEW e, NEW r, IsTop(e, r), todo' = r,
           \A n : ~OwnBody(e, n),
           \A n, el, open : n \in DOMAIN tree /\ el = tree[n].el /\ open = Open(n)
                               => Share(e, n, el, open) = <<>>
    PROVE  TreeOk'
<1>1. ASSUME NEW n, NEW el, NEW open, n \in DOMAIN tree /\ el = tree[n].el /\ open = Open(n)
      PROVE  Debt(r, n, el, open) = Debt(todo, n, el, open)
  <2>1. Share(e, n, el, open) = <<>>
    BY <1>1
  <2>2. Debt(todo, n, el, open) = <<>> \o Debt(r, n, el, open) /\ Debt(r, n, el, open) \in Seq(Elements)
    BY <2>1 DEF IsTop
  <2> HIDE DEF Debt
  <2> QED BY <2>2
<1>2. ASSUME NEW n, NEW x \in ToSet(todo), OwnBody(x, n) PROVE x \in ToSet(r)
  BY <1>2 DEF IsTop
<1>3. StackOk(r)
  BY DEF IsTop
<1> QED BY <1>1, <1>2, <1>3, StackStep

(* applyInherit: the parts inherited from a groupdef are what that inherits,   *)
(* and its body; both are owed before the step as one call, and after it as    *)
(* two.                                                                        *)
LEMMA ApplyInheritTree == ASSUME TreeOk, CallsInv, ApplyInherit PROVE TreeOk'
<1>1. todo # <<>> /\ UNCHANGED <<doc, bound, tree, sendparams>> /\ todo[1].op = "inherit"
  BY DEF ApplyInherit, Running, Top
<1>2. PICK e, r : IsTop(e, r)
  BY <1>1, HasTop
<1>3. /\ e.op = "inherit" /\ Sound(e, ToSet(r)) /\ IsCall(e) /\ e.def \in DOMAIN doc.def
      /\ e.via \in SUBSET Inherits
  BY <1>1, <1>2 DEF IsTop, IsEntry, IsLoop, Loop, IsCall
<1>4. PICK inh, up, on : inh = doc.def[e.def].inherit /\ up = Lookup(doc, inh) /\ on = e.via \cup {inh}
  OBVIOUS
<1>5. inflight = Names(ToSet(r)) /\ inflight = Open(e.into) \cup e.via
  BY <1>2, <1>3, NamesPushed DEF IsTop, Sound
<1> DEFINE a == Call("inherit", up, e.into, e.scope, on)
           b == Call("body", up, e.into, e.scope, on)
           l == Leave(inh)
<1>6. todo' = IF up = None \/ inh \in inflight THEN r ELSE <<a, b, l>> \o r
  <2>1. Alter(e, "inherit", up, on) = a
    <3>1. e = Call(e.op, e.def, e.into, e.scope, e.via)
      BY <1>3 DEF IsCall
    <3> QED BY <3>1, Altered
  <2>2. Alter(e, "body", up, on) = b
    <3>1. e = Call(e.op, e.def, e.into, e.scope, e.via)
      BY <1>3 DEF IsCall
    <3> QED BY <3>1, Altered
  <2>3. Top = e /\ Tail(todo) = r
    BY <1>2 DEF IsTop, Top
  <2>4. [Top EXCEPT !.op = "inherit", !.def = up, !.via = @ \cup {inh}] = a
    BY <1>4, <2>1, <2>3 DEF Alter
  <2>5. [Top EXCEPT !.op = "body", !.def = up, !.via = @ \cup {inh}] = b
    BY <1>4, <2>2, <2>3 DEF Alter
  <2> HIDE DEF a, b
  <2> QED BY <1>4, <2>3, <2>4, <2>5 DEF ApplyInherit, InFlight, l, Leave
<1>7. ASSUME NEW n, NEW el, NEW open, n \in DOMAIN tree /\ el = tree[n].el /\ open = Open(n), e.into = n
      PROVE  Share(e, n, el, open)
                = IF up = None \/ inh \in inflight THEN <<>>
                  ELSE InheritedParts(up, open, on) \o Part(doc.def[up].kids, open \cup on)
  <2>1. Share(e, n, el, open) = InheritedParts(e.def, open, e.via)
    BY <1>3, <1>7 DEF Share, Owes
  <2>2. inflight = open \cup e.via
    BY <1>5, <1>7
  <2>3. DefsOk(doc.def)
    BY DEF TreeOk, Tables
  <2>4. InheritedParts(e.def, open, e.via)
          = IF up = None \/ inh \in open \cup e.via THEN <<>>
            ELSE InheritedParts(up, open, on) \o Part(doc.def[up].kids, open \cup on)
    <3>1. \A d \in DOMAIN doc.def, o \in SUBSET Inherits :
             InheritedParts(d, open, o) =
                IF Lookup(doc, doc.def[d].inherit) = None \/ doc.def[d].inherit \in open \cup o
                THEN <<>>
                ELSE InheritedParts(Lookup(doc, doc.def[d].inherit), open, o \cup {doc.def[d].inherit})
                     \o Part(doc.def[Lookup(doc, doc.def[d].inherit)].kids,
                             open \cup (o \cup {doc.def[d].inherit}))
      BY <2>3, InheritedUnfolds
    <3> QED BY <1>3, <1>4, <3>1
  <2> QED BY <2>1, <2>2, <2>4
<1>8. CASE up = None \/ inh \in inflight
  <2>1. todo' = r
    BY <1>6, <1>8
  <2>2. \A n, el, open : n \in DOMAIN tree /\ el = tree[n].el /\ open = Open(n)
                            => Share(e, n, el, open) = <<>>
    BY <1>7, <1>8 DEF Share
  <2>3. \A n : ~OwnBody(e, n)
    BY <1>3 DEF OwnBody
  <2> QED BY <1>1, <1>2, <2>1, <2>2, <2>3, DropTop
<1>9. CASE ~(up = None \/ inh \in inflight)
  <2>1. up \in DOMAIN doc.def /\ on \subseteq Inherits /\ Tables /\ StackOk(r) /\ IsList(r)
    BY <1>2, <1>3, <1>4, <1>9, LookupDef DEF Inherits, TreeOk, IsTop
  <2>2. a.op = "inherit" /\ b.op = "body" /\ l.op = "leave" /\ l.key = inh
        /\ a.into = e.into /\ b.into = e.into /\ a.via = on /\ b.via = on
        /\ a.scope = e.scope /\ b.scope = e.scope /\ a.def = up /\ b.def = up
        /\ IsEntry(a) /\ IsEntry(b) /\ IsEntry(l)
    BY <2>1, CallFacts DEF IsEntry, IsCall, Leave
  <2> HIDE DEF a, b, l
  <2>3. Pushes(l, r)
    BY <2>1, <2>2, PushLaws DEF PushLaw
  <2>4. PICK x \in ToSet(r) : OwnBody(x, e.into)
    BY <1>3 DEF Sound
  <2>5. Pushes(b, Pushed(l, r))
    <3>1. Sound(b, ToSet(Pushed(l, r)))
      <4>1. Names(ToSet(Pushed(l, r))) = Open(e.into) \cup on
        BY <1>4, <1>5, <2>2, <2>3 DEF Pushes
      <4>2. x \in ToSet(Pushed(l, r))
        BY <2>3 DEF Pushes
      <4> QED BY <1>3, <2>2, <2>4, <4>1, <4>2 DEF Sound
    <3>2. StackOk(Pushed(l, r))
      BY <2>3 DEF Pushes
    <3> QED BY <2>1, <2>2, <3>1, <3>2, PushLaws DEF PushLaw
  <2>6. Pushes(a, Pushed(b, Pushed(l, r)))
    <3>1. Sound(a, ToSet(Pushed(b, Pushed(l, r))))
      <4>1. Names(ToSet(Pushed(b, Pushed(l, r)))) = Open(e.into) \cup on
        BY <1>4, <1>5, <2>2, <2>3, <2>5 DEF Pushes
      <4>2. x \in ToSet(Pushed(b, Pushed(l, r)))
        BY <2>3, <2>5 DEF Pushes
      <4> QED BY <1>3, <2>2, <2>4, <4>1, <4>2 DEF Sound
    <3>2. StackOk(Pushed(b, Pushed(l, r)))
      BY <2>5 DEF Pushes
    <3> QED BY <2>1, <2>2, <3>1, <3>2, PushLaws DEF PushLaw
  <2> DEFINE s == Pushed(a, Pushed(b, Pushed(l, r)))
  <2>7. todo' = s
    BY <1>6, <1>9, <2>1, Pushed3
  <2>8. StackOk(s)
    BY <2>6 DEF Pushes
  <2>9. ASSUME NEW n, NEW el, NEW open, n \in DOMAIN tree /\ el = tree[n].el /\ open = Open(n)
        PROVE  Debt(s, n, el, open) = Debt(todo, n, el, open)
    <3> DEFINE sa == Share(a, n, el, open)
               sb == Share(b, n, el, open)
               sl == Share(l, n, el, open)
               d == Debt(r, n, el, open)
    <3>1. /\ sa \in Seq(Elements) /\ sb \in Seq(Elements) /\ d \in Seq(Elements)
          /\ Debt(s, n, el, open) = sa \o (sb \o (sl \o d))
      <4>1. d \in Seq(Elements) /\ Debt(Pushed(l, r), n, el, open) = sl \o d
        BY <2>3 DEF Pushes
      <4>2. sb \in Seq(Elements)
            /\ Debt(Pushed(b, Pushed(l, r)), n, el, open) = sb \o Debt(Pushed(l, r), n, el, open)
        BY <2>5 DEF Pushes
      <4>3. sa \in Seq(Elements)
            /\ Debt(s, n, el, open) = sa \o Debt(Pushed(b, Pushed(l, r)), n, el, open)
        BY <2>6 DEF Pushes
      <4> HIDE DEF sa, sb, sl, d, s
      <4> QED BY <4>1, <4>2, <4>3
    <3>2. sl = <<>>
      BY <2>2 DEF Share
    <3>3. Debt(todo, n, el, open) = Share(e, n, el, open) \o d
      BY <1>2 DEF IsTop
    <3>4. Share(e, n, el, open) = sa \o sb
      <4>1. CASE e.into = n
        <5>1. sa = InheritedParts(up, open, on) /\ sb = Part(doc.def[up].kids, open \cup on)
          BY <2>2, <4>1 DEF Share, Owes
        <5>2. Share(e, n, el, open) = InheritedParts(up, open, on) \o Part(doc.def[up].kids, open \cup on)
          BY <1>7, <1>9, <2>9, <4>1
        <5> HIDE DEF sa, sb
        <5> QED BY <5>1, <5>2
      <4>2. CASE e.into # n
        <5>1. Share(e, n, el, open) = <<>> /\ sa = <<>> /\ sb = <<>>
          BY <2>2, <4>2 DEF Share
        <5> HIDE DEF sa, sb
        <5> QED BY <5>1
      <4> QED BY <4>1, <4>2
    <3> HIDE DEF sa, sb, sl, d, s
    <3>5. sl \o d = d
      BY <3>1, <3>2
    <3>6. sa \o (sb \o d) = (sa \o sb) \o d
      BY <3>1, Regrouped
    <3> QED BY <3>1, <3>3, <3>4, <3>5, <3>6
  <2>10. ASSUME NEW n, NEW y \in ToSet(todo), OwnBody(y, n) PROVE y \in ToSet(s)
    <3>1. y \in ToSet(r)
      BY <1>2, <1>3, <2>10 DEF IsTop, OwnBody
    <3> QED BY <2>3, <2>5, <2>6, <3>1 DEF Pushes
  <2> HIDE DEF s
  <2> QED BY <1>1, <2>7, <2>8, <2>9, <2>10, StackStep
<1> QED BY <1>8, <1>9

-----------------------------------------------------------------------------
(* What is visited into a widget.                                                 *)
Visits(e, els, into, scope, via) ==
    /\ e.op = "visit" /\ e.into = into /\ e.scope = scope /\ e.via = via
    /\ IsEntry(e)
    /\ \A n, el, open : Share(e, n, el, open) = IF n = into THEN Part(els, open \cup via) ELSE <<>>

(* visit() of elements visits them.                                            *)
LEMMA VisitFacts ==
    ASSUME NEW els \in Seq(Elements), NEW into, NEW scope, NEW via
    PROVE  Visits(Visit(els, into, scope, via), els, into, scope, via)
<1> DEFINE k == Visited(els)
           e == Loop(k, into, scope, via)
<1>1. Visit(els, into, scope, via) = e
  BY DEF Visit, Loop, Visited
<1>2. k \in Seq(Elements) /\ Plain(k) /\ \A open : Part(k, open) = Part(els, open)
  BY PartOfVisit
<1> HIDE DEF k
<1>3. /\ e.op = "visit" /\ e.els = k /\ e.into = into /\ e.scope = scope /\ e.via = via
      /\ e = Loop(e.els, e.into, e.scope, e.via)
  BY LoopFacts
<1> HIDE DEF e
<1>4. IsEntry(e)
  BY <1>2, <1>3 DEF IsEntry, IsLoop
<1>5. ASSUME NEW n, NEW el, NEW open
      PROVE  Share(e, n, el, open) = IF n = into THEN Part(els, open \cup via) ELSE <<>>
  BY <1>2, <1>3 DEF Share, Owes
<1> QED BY <1>1, <1>3, <1>4, <1>5 DEF Visits

(* The loop at the top, and what is left of it after its first element.           *)
Unrolled(e, r, f) ==
    /\ IsTop(e, r) /\ IsLoop(e) /\ e.op = "visit" /\ Sound(e, ToSet(r))
    /\ Top = e /\ Element \in Elements
    /\ f = Loop(Tail(e.els), e.into, e.scope, e.via)
    /\ f.op = "visit" /\ f.into = e.into /\ f.scope = e.scope /\ f.via = e.via
    /\ IsEntry(f) /\ Sound(f, ToSet(r))
    /\ Rest = Pushed(f, r)
    /\ inflight = Names(ToSet(r)) /\ inflight = Open(e.into) \cup e.via
    /\ \A n, el, open : Share(e, n, el, open)
                           = IF n = e.into /\ Ids(DefOf(doc, Element)) \cap (open \cup e.via) = {}
                             THEN <<Element>> \o Share(f, n, el, open) ELSE Share(f, n, el, open)

(* While a loop is at the top it has a first element.                          *)
LEMMA Unrolls ==
    ASSUME TreeOk, CallsInv, Visiting
    PROVE  \E e, r, f : Unrolled(e, r, f)
<1>1. todo # <<>> /\ todo[1].op = "visit" /\ todo[1].els # <<>>
  BY DEF Visiting, Running, Top
<1>2. PICK e, r : IsTop(e, r)
  BY <1>1, HasTop
<1>3. Top = e /\ e.op = "visit" /\ e.els # <<>> /\ IsLoop(e) /\ Sound(e, ToSet(r))
  BY <1>1, <1>2 DEF Top, IsTop, IsEntry, IsCall
<1>4. e.els \in Seq(Elements) /\ Plain(e.els) /\ e = Loop(e.els, e.into, e.scope, e.via)
  BY <1>3 DEF IsLoop
<1>5. PICK els : els = e.els
  OBVIOUS
<1>6. PICK t : t = Tail(els)
  OBVIOUS
<1>7. /\ Element = els[1] /\ els[1] \in Elements /\ t \in Seq(Elements) /\ Plain(t)
      /\ \A open : Part(els, open) = IF Ids(DefOf(doc, els[1])) \cap open = {}
                                     THEN <<els[1]>> \o Part(t, open) ELSE Part(t, open)
  BY <1>3, <1>4, <1>5, <1>6, PartTop DEF Element
<1> DEFINE f == Loop(t, e.into, e.scope, e.via)
<1>8. /\ f.op = "visit" /\ f.els = t /\ f.into = e.into /\ f.scope = e.scope /\ f.via = e.via
      /\ f = Loop(f.els, f.into, f.scope, f.via)
  BY LoopFacts
<1>9. [Top EXCEPT !.els = Tail(@)] = f
  <2>1. PICK i, s, w : i = e.into /\ s = e.scope /\ w = e.via
    OBVIOUS
  <2>2. [Loop(els, i, s, w) EXCEPT !.els = t] = Loop(t, i, s, w)
    BY DEF Loop
  <2>3. e = Loop(els, i, s, w)
    BY <1>4, <1>5, <2>1
  <2> QED BY <1>3, <1>5, <1>6, <2>1, <2>2, <2>3
<1> HIDE DEF f
<1>10. Rest = Pushed(f, r)
  BY <1>2, <1>9 DEF Rest, Pushed, IsTop
<1>11. IsEntry(f) /\ Sound(f, ToSet(r))
  BY <1>3, <1>7, <1>8 DEF IsEntry, IsLoop, Sound
<1>12. inflight = Names(ToSet(r)) /\ inflight = Open(e.into) \cup e.via
  BY <1>2, <1>3, NamesPushed DEF IsTop, Sound
<1>13. ASSUME NEW n, NEW el, NEW open
       PROVE  Share(e, n, el, open)
                 = IF n = e.into /\ Ids(DefOf(doc, Element)) \cap (open \cup e.via) = {}
                   THEN <<Element>> \o Share(f, n, el, open) ELSE Share(f, n, el, open)
  <2>1. CASE n # e.into
    BY <1>3, <1>8, <2>1 DEF Share
  <2>2. CASE n = e.into
    <3>1. Share(e, n, el, open) = Part(els, open \cup e.via)
      BY <1>3, <1>5, <2>2 DEF Share, Owes
    <3>2. Share(f, n, el, open) = Part(t, open \cup e.via)
      BY <1>8, <2>2 DEF Share, Owes
    <3> QED BY <1>7, <2>2, <3>1, <3>2
  <2> QED BY <2>1, <2>2
<1>14. Unrolled(e, r, f)
  BY <1>2, <1>3, <1>5, <1>6, <1>7, <1>8, <1>10, <1>11, <1>12, <1>13 DEF Unrolled, f
<1> QED BY <1>14

(* An element that the names in flight keep out.                                  *)
LEMMA InFlightTree ==
    ASSUME TreeOk, CallsInv, VisitInstance, InFlight(doc.def[DefOf(doc, Element)].id)
    PROVE  TreeOk'
<1>1. Visiting /\ todo # <<>> /\ todo' = Rest /\ DefOf(doc, Element) # None
      /\ UNCHANGED <<doc, bound, tree, sendparams>>
  BY DEF VisitInstance, Visiting, Running
<1>2. PICK e, r, f : Unrolled(e, r, f)
  BY <1>1, Unrolls
<1>3. IsTop(e, r) /\ todo' = Pushed(f, r)
  BY <1>1, <1>2 DEF Unrolled
<1>4. Pushes(f, r)
  <2>1. Tables /\ StackOk(r) /\ IsEntry(f) /\ Sound(f, ToSet(r))
    BY <1>2 DEF Unrolled, IsTop, TreeOk
  <2> QED BY <2>1, PushLaws DEF PushLaw
<1>5. ASSUME NEW n, NEW el, NEW open, n \in DOMAIN tree /\ el = tree[n].el /\ open = Open(n)
      PROVE  Debt(Pushed(f, r), n, el, open) = Debt(todo, n, el, open)
  <2>1. Share(e, n, el, open) = Share(f, n, el, open)
    <3>1. CASE n # e.into
      BY <1>2, <3>1 DEF Unrolled
    <3>2. CASE n = e.into
      <4>1. doc.def[DefOf(doc, Element)].id \in open \cup e.via
        BY <1>2, <1>5, <3>2 DEF Unrolled, InFlight
      <4>2. doc.def[DefOf(doc, Element)].id \in Ids(DefOf(doc, Element))
        BY <1>1 DEF Ids
      <4> QED BY <1>2, <4>1, <4>2 DEF Unrolled
    <3> QED BY <3>1, <3>2
  <2>2. Debt(Pushed(f, r), n, el, open) = Share(f, n, el, open) \o Debt(r, n, el, open)
    BY <1>4 DEF Pushes
  <2> QED BY <1>3, <2>1, <2>2 DEF IsTop
<1>6. ASSUME NEW n, NEW x \in ToSet(todo), OwnBody(x, n) PROVE x \in ToSet(Pushed(f, r))
  BY <1>2, <1>3, <1>4, <1>6 DEF IsTop, OwnBody, Pushes, Unrolled
<1>7. StackOk(Pushed(f, r))
  BY <1>4 DEF Pushes
<1>8. PICK s : s = Pushed(f, r)
  OBVIOUS
<1> QED BY <1>1, <1>3, <1>5, <1>6, <1>7, <1>8, StackStep

(* injectContent: what is injected are the parts of the groupdef that the      *)
(* content names.                                                              *)
LEMMA InjectContentTree == ASSUME TreeOk, CallsInv, InjectContent PROVE TreeOk'
<1>1. todo # <<>> /\ UNCHANGED <<doc, bound, tree, sendparams>> /\ todo[1].op = "content"
  BY DEF InjectContent, Running, Top
<1>2. PICK e, r : IsTop(e, r)
  BY <1>1, HasTop
<1>3. e.op = "content" /\ Sound(e, ToSet(r)) /\ e.via = {} /\ Top = e /\ Tail(todo) = r
  BY <1>1, <1>2 DEF IsTop, IsEntry, IsLoop, Loop, IsCall, Top
<1>4. PICK into, name, def, scope :
         /\ into = e.into /\ name = tree[e.into].el.content /\ def = Lookup(doc, name) /\ scope = e.scope
  OBVIOUS
<1>5. inflight = Names(ToSet(r)) /\ inflight = Open(into)
  BY <1>2, <1>3, <1>4, NamesPushed DEF IsTop, Sound
<1> DEFINE v == Visit(doc.def[def].kids, into, scope, {name})
           l == Leave(name)
<1>6. todo' = IF def = None \/ name \in inflight THEN r ELSE <<v, l>> \o r
  <2>1. Top.into = into /\ Top.scope = scope /\ tree[Top.into].el.content = name
        /\ Lookup(doc, tree[Top.into].el.content) = def
    BY <1>3, <1>4
  <2> QED BY <1>3, <2>1 DEF InjectContent, InFlight, Leave
<1>7. ASSUME NEW n, NEW el, NEW open, n \in DOMAIN tree /\ el = tree[n].el /\ open = Open(n), into = n
      PROVE  Share(e, n, el, open)
                = IF def = None \/ name \in inflight THEN <<>> ELSE Part(doc.def[def].kids, open \cup {name})
  <2>1. Share(e, n, el, open) = ContentPart(el, open)
    BY <1>3, <1>4, <1>7 DEF Share, Owes
  <2>2. inflight = open /\ name = el.content
    BY <1>4, <1>5, <1>7
  <2> QED BY <1>4, <2>1, <2>2 DEF ContentPart
<1>8. CASE def = None \/ name \in inflight
  <2>1. todo' = r
    BY <1>6, <1>8
  <2>2. \A n, el, open : n \in DOMAIN tree /\ el = tree[n].el /\ open = Open(n)
                            => Share(e, n, el, open) = <<>>
    BY <1>4, <1>7, <1>8 DEF Share
  <2>3. \A n : ~OwnBody(e, n)
    BY <1>3 DEF OwnBody
  <2> QED BY <1>1, <1>2, <2>1, <2>2, <2>3, DropTop
<1>9. CASE ~(def = None \/ name \in inflight)
  <2>1. Tables /\ StackOk(r) /\ IsList(r) /\ doc.def[def].kids \in Seq(Elements)
    <3>1. def \in DOMAIN doc.def /\ DefsOk(doc.def)
      BY <1>4, <1>9, LookupDef DEF TreeOk, Tables
    <3> QED BY <1>2, <3>1, BodySeq DEF TreeOk, IsTop
  <2>2. /\ v.op = "visit" /\ v.into = into /\ v.scope = scope /\ v.via = {name} /\ IsEntry(v)
        /\ \A n, el, open : Share(v, n, el, open)
                               = IF n = into THEN Part(doc.def[def].kids, open \cup {name}) ELSE <<>>
    <3>1. Visits(v, doc.def[def].kids, into, scope, {name})
      BY <2>1, VisitFacts
    <3> HIDE DEF v
    <3> QED BY <3>1 DEF Visits
  <2>3. l.op = "leave" /\ l.key = name /\ IsEntry(l)
    BY DEF Leave, IsEntry
  <2> HIDE DEF v, l
  <2>4. Pushes(l, r)
    BY <2>1, <2>3, PushLaws DEF PushLaw
  <2>5. Pushes(v, Pushed(l, r))
    <3>1. Sound(v, ToSet(Pushed(l, r)))
      <4>1. Names(ToSet(Pushed(l, r))) = Open(into) \cup {name}
        BY <1>5, <2>3, <2>4 DEF Pushes
      <4> QED BY <1>3, <1>4, <2>2, <4>1 DEF Sound
    <3>2. StackOk(Pushed(l, r))
      BY <2>4 DEF Pushes
    <3> QED BY <2>1, <2>2, <3>1, <3>2, PushLaws DEF PushLaw
  <2> DEFINE s == Pushed(v, Pushed(l, r))
  <2>6. todo' = s
    BY <1>6, <1>9, <2>1, Pushed2
  <2>7. StackOk(s)
    BY <2>5 DEF Pushes
  <2>8. ASSUME NEW n, NEW el, NEW open, n \in DOMAIN tree /\ el = tree[n].el /\ open = Open(n)
        PROVE  Debt(s, n, el, open) = Debt(todo, n, el, open)
    <3> DEFINE sv == Share(v, n, el, open)
               sl == Share(l, n, el, open)
               d == Debt(r, n, el, open)
    <3>1. d \in Seq(Elements) /\ Debt(Pushed(l, r), n, el, open) = sl \o d
      BY <2>4 DEF Pushes
    <3>2. Debt(s, n, el, open) = sv \o Debt(Pushed(l, r), n, el, open)
      BY <2>5 DEF Pushes
    <3>3. sl = <<>>
      BY <2>3 DEF Share
    <3>4. Debt(todo, n, el, open) = Share(e, n, el, open) \o d
      BY <1>2 DEF IsTop
    <3>5. Share(e, n, el, open) = sv
      <4>1. CASE into = n
        <5>1. Share(e, n, el, open) = Part(doc.def[def].kids, open \cup {name})
          BY <1>7, <1>9, <2>8, <4>1
        <5> QED BY <2>2, <4>1, <5>1
      <4>2. CASE into # n
        BY <1>4, <2>2, <4>2 DEF Share
      <4> QED BY <4>1, <4>2
    <3> HIDE DEF sv, sl, d, s
    <3>6. sl \o d = d
      BY <3>1, <3>3
    <3> QED BY <3>1, <3>2, <3>4, <3>5, <3>6
  <2>9. ASSUME NEW n, NEW y \in ToSet(todo), OwnBody(y, n) PROVE y \in ToSet(s)
    <3>1. y \in ToSet(r)
      BY <1>2, <1>3, <2>9 DEF IsTop, OwnBody
    <3> QED BY <2>4, <2>5, <3>1 DEF Pushes
  <2> HIDE DEF s
  <2> QED BY <1>1, <2>6, <2>7, <2>8, <2>9, StackStep
<1> QED BY <1>8, <1>9

(* What applySendparams gives is what there is to say.                            *)
LEMMA SentSays ==
    ASSUME NEW inst, NEW el, NEW value, NEW pages, NEW sent,
           sent = IF pages = {} THEN doc.sends ELSE doc.pageSends
    PROVE  SentOf(el.id, inst, Sent(sent, inst, el, value), pages)
BY DEF SentOf, Sent

(* The body of a groupdef: what it holds is visited into its widget, then the  *)
(* content goes there, and its widget now has what sendparams say of it.       *)
LEMMA EnterBodyTree == ASSUME TreeOk, CallsInv, EnterBody PROVE TreeOk'
<1>1. todo # <<>> /\ UNCHANGED <<doc, bound, sendparams>> /\ todo[1].op = "body"
  BY DEF EnterBody, Running, Top
<1>2. PICK e, r : IsTop(e, r)
  BY <1>1, HasTop
<1>3. /\ e.op = "body" /\ Sound(e, ToSet(r)) /\ e.def \in DOMAIN doc.def /\ Top = e /\ Tail(todo) = r
      /\ e.into \in DOMAIN tree
  BY <1>1, <1>2 DEF IsTop, IsEntry, IsLoop, Loop, IsCall, Top, Sound
<1>4. PICK into, def, scope, via : into = e.into /\ def = e.def /\ scope = e.scope /\ via = e.via
  OBVIOUS
<1> DEFINE v == Visit(doc.def[def].kids, into, scope, via)
           value == IF tree[into].value = None THEN doc.def[def].value ELSE tree[into].value
           sent == IF via = {} THEN Sent(sendparams, tree[into].scope, tree[into].el, value) ELSE value
           s == Pushed(v, r)
<1>5. todo' = s /\ tree' = [tree EXCEPT ![into].value = sent]
  BY <1>3, <1>4 DEF EnterBody, Pushed
<1>6. Tables /\ StackOk(r) /\ IsList(r) /\ doc.def[def].kids \in Seq(Elements)
  BY <1>2, <1>3, <1>4, BodySeq DEF TreeOk, IsTop, Tables
<1>7. /\ v.op = "visit" /\ v.into = into /\ v.scope = scope /\ v.via = via /\ IsEntry(v)
      /\ \A n, el, open : Share(v, n, el, open)
                             = IF n = into THEN Part(doc.def[def].kids, open \cup via) ELSE <<>>
  <2>1. Visits(v, doc.def[def].kids, into, scope, via)
    BY <1>6, VisitFacts
  <2> HIDE DEF v
  <2> QED BY <2>1 DEF Visits
<1> HIDE DEF v, sent
<1>8. Steady
  <2>1. \A m \in DOMAIN tree : DOMAIN tree[m] = Fields
    BY DEF TreeOk, Nodes
  <2>2. DOMAIN tree' = DOMAIN tree
    BY <1>5
  <2>3. ASSUME NEW m \in DOMAIN tree
        PROVE  /\ DOMAIN tree'[m] = Fields
               /\ tree'[m].el = tree[m].el /\ tree'[m].def = tree[m].def /\ tree'[m].up = tree[m].up
               /\ tree'[m].scope = tree[m].scope /\ tree'[m].via = tree[m].via
               /\ tree'[m].page = tree[m].page
    <3>1. tree'[m] = IF m = into THEN [tree[into] EXCEPT !.value = sent] ELSE tree[m]
      BY <1>5
    <3> QED BY <2>1, <3>1 DEF Fields
  <2> QED BY <1>1, <2>2, <2>3 DEF Steady
<1>9. Pushes(v, r)
  <2>1. Sound(v, ToSet(r))
    BY <1>3, <1>4, <1>7 DEF Sound
  <2> QED BY <1>6, <1>7, <2>1, PushLaws DEF PushLaw
<1>10. ASSUME NEW n, NEW el, NEW open
       PROVE  Debt(s, n, el, open) = Debt(todo, n, el, open)
  <2>1. Share(e, n, el, open) = Share(v, n, el, open)
    BY <1>3, <1>4, <1>7 DEF Share, Owes
  <2>2. Debt(todo, n, el, open) = Share(e, n, el, open) \o Debt(r, n, el, open)
    BY <1>2 DEF IsTop
  <2>3. Debt(s, n, el, open) = Share(v, n, el, open) \o Debt(r, n, el, open)
    BY <1>9 DEF Pushes
  <2> QED BY <2>1, <2>2, <2>3
<1>11. ASSUME NEW n \in DOMAIN tree, n # into PROVE HasSent(n)' <=> HasSent(n)
  <2>1. tree'[n].value = tree[n].value
    BY <1>5, <1>11
  <2> QED BY <1>8, <2>1, SentStays
<1>12. ASSUME via = {} PROVE HasSent(into)'
  <2>1. PICK K : K = DOMAIN tree
    OBVIOUS
  <2>2. SteadyTree /\ SameOn(K) /\ doc' = doc /\ into \in K /\ tree'[into].page = tree[into].page
    BY <1>3, <1>4, <1>8, <2>1, SteadyFacts DEF TreeOk, Steady
  <2>3. Instance(into)' = Instance(into) /\ Pages(into)' = Pages(into)
    BY <2>2, WidgetStays DEF SteadyTree
  <2>4. tree[into].def # None /\ into # Root
    BY <1>3, <1>4 DEF Sound, TreeOk, Nodes
  <2>5. tree[into].scope = Instance(into) /\ tree[into].el.tag # "groupxfade"
    <3>1. tree[into].def = DefOf(doc, tree[into].el) /\ tree[into].scope = Instance(into)
      BY <1>3, <1>4, <2>4 DEF TreeOk, Nodes
    <3> QED BY <2>4, <3>1 DEF DefOf
  <2>6. sendparams = IF Pages(into) = {} THEN doc.sends ELSE doc.pageSends
    <3>1. ~Paged(into) /\ (Loaded <=> Pages(into) # {})
      <4>1. ~Paged(into)
        BY <1>3, <1>4, <2>5 DEF TreeOk, Nodes
      <4>2. ~Loaded => Pages(into) = {}
        BY DEF TreeOk, Nodes, Pages
      <4> QED BY <1>3, <1>4, <4>1, <4>2 DEF Sound
    <3> QED BY <1>1, <3>1 DEF TreeOk, Sends
  <2>7. PICK el, inst, pages, val, say :
           el = tree[into].el /\ inst = Instance(into) /\ pages = Pages(into) /\ val = value /\ say = sendparams
    OBVIOUS
  <2>8. sent = Sent(say, inst, el, val)
    BY <1>12, <2>5, <2>7 DEF sent
  <2>9. SentOf(el.id, inst, Sent(say, inst, el, val), pages)
    BY <2>6, <2>7, SentSays
  <2>10. PICK is : is = sent
    OBVIOUS
  <2>11. SentOf(el.id, inst, is, pages)'
    BY <1>1, <2>8, <2>9, <2>10 DEF SentOf
  <2>12. tree'[into].value = is /\ tree'[into].el = el
    <3>1. into \in DOMAIN tree /\ DOMAIN tree[into] = Fields
      BY <1>3, <1>4 DEF TreeOk, Nodes
    <3> QED BY <1>5, <1>8, <2>7, <2>10, <3>1 DEF Steady, Fields
  <2>13. HasSentLaw'
    BY HasSentIs, PTL
  <2>14. \A i, a, x, p : i = tree'[into].el.id /\ a = Instance(into)' /\ x = tree'[into].value
                            /\ p = Pages(into)' => (HasSent(into)' <=> SentOf(i, a, x, p)')
    BY <2>13 DEF HasSentLaw
  <2> QED BY <2>3, <2>7, <2>11, <2>12, <2>14
<1>13. ASSUME NEW n \in DOMAIN tree, n # Root, HasSent(n) \/ \E x \in ToSet(todo) : OwnBody(x, n)
       PROVE  HasSent(n)' \/ \E x \in ToSet(s) : OwnBody(x, n)
  <2>1. ToSet(r) \subseteq ToSet(s)
    BY <1>9 DEF Pushes
  <2>2. CASE n = into /\ via = {}
    BY <1>12, <2>2
  <2>3. CASE n = into /\ via # {}
    BY <1>3, <1>4, <2>1, <2>3 DEF Sound
  <2>4. CASE n # into
    BY <1>2, <1>4, <1>11, <1>13, <2>1, <2>4 DEF IsTop, OwnBody
  <2> QED BY <2>2, <2>3, <2>4
<1>14. StackOk(s)
  BY <1>9 DEF Pushes
<1>15. PICK q : q = s
  OBVIOUS
<1> HIDE DEF s
<1> QED BY <1>1, <1>5, <1>8, <1>10, <1>13, <1>14, <1>15, SteadyStep

-----------------------------------------------------------------------------
(* A widget that is made.                                                         *)
Makes(new, node) ==
    /\ doc' = doc /\ bound' = bound
    /\ new = NewNode /\ tree' = Extended(tree, new, node)
    /\ DOMAIN node = Fields /\ node.el \in Elements /\ node.up \in DOMAIN tree /\ node.page = None
    /\ node.def = DefOf(doc, node.el) /\ node.scope = Hands(node.up)

(* The tree with it, in which the others are as they were.                     *)
MadeTree(new, node) ==
    /\ new \in Nat /\ new # Root /\ new \notin DOMAIN tree /\ \A m \in DOMAIN tree : m < new
    /\ DOMAIN tree' = DOMAIN tree \cup {new} /\ tree'[new] = node
    /\ \A m \in DOMAIN tree : tree'[m] = tree[m]
    /\ Laws /\ Laws'

(* That is what it is.                                                         *)
LEMMA MadeFacts ==
    ASSUME Trunk, NEW new, NEW node, Makes(new, node)
    PROVE  /\ MadeTree(new, node)
           /\ \A K : K = DOMAIN tree => SameOn(K)
<1>1. new \in Nat /\ \A m \in DOMAIN tree : m < new
  <2>1. Max(DOMAIN tree) \in Nat /\ \A m \in DOMAIN tree : m <= Max(DOMAIN tree)
    <3>1. DOMAIN tree \subseteq Nat /\ IsFiniteSet(DOMAIN tree) /\ DOMAIN tree # {}
      BY DEF Trunk
    <3>2. Max(DOMAIN tree) \in Nat /\ \A m \in DOMAIN tree : Max(DOMAIN tree) >= m
      BY <3>1, MaxNat
    <3> QED BY <3>1, <3>2
  <2>2. \A m \in DOMAIN tree : m \in Nat
    BY DEF Trunk
  <2>3. new = Max(DOMAIN tree) + 1
    BY DEF Makes, NewNode
  <2> QED BY <2>1, <2>2, <2>3
<1>2. new # Root /\ new \notin DOMAIN tree
  BY <1>1 DEF Trunk
<1>3. DOMAIN tree' = DOMAIN tree \cup {new} /\ tree'[new] = node
      /\ \A m \in DOMAIN tree : tree'[m] = tree[m]
  BY <1>2 DEF Makes, Extended
<1>4. Trunk'
  <2>1. DOMAIN tree' \subseteq Nat /\ IsFiniteSet(DOMAIN tree') /\ Root \in DOMAIN tree'
    BY <1>1, <1>3, FS_AddElement DEF Trunk
  <2>2. ASSUME NEW m \in DOMAIN tree', m # Root PROVE tree'[m].up \in DOMAIN tree' /\ tree'[m].up < m
    BY <1>1, <1>3, <2>2 DEF Trunk, Makes
  <2> QED BY <2>1, <2>2 DEF Trunk
<1>5. Laws /\ Laws'
  BY <1>4, AllLaws, LawsNext
<1>6. ASSUME NEW K, K = DOMAIN tree PROVE SameOn(K)
  BY <1>3, <1>6 DEF SameOn, Trunk
<1> QED BY <1>1, <1>2, <1>3, <1>5, <1>6 DEF MadeTree

(* What the new one is inside of.                                                 *)
MadePlace(new, node) ==
    /\ Open(new)' = Ids(node.def) \cup node.via \cup Open(node.up)
    /\ Instance(new)' = Hands(node.up)
    /\ Hands(new)' = IF node.def # None /\ node.el.iid # None THEN node.el.iid ELSE Hands(node.up)
    /\ ~Paged(new)'
    /\ Pages(new)' = {} <=> ~Paged(node.up) /\ Pages(node.up) = {}
    /\ Children(new)' = {}
    /\ \A m \in DOMAIN tree : m # node.up => Children(m)' = Children(m)

(* It is inside of that.                                                       *)
LEMMA MadePlaced ==
    ASSUME Tables, Trunk, Nodes, NEW new, NEW node, Makes(new, node)
    PROVE  MadePlace(new, node)
<1>1. MadeTree(new, node) /\ \A K : K = DOMAIN tree => SameOn(K)
  BY MadeFacts
<1>2. PICK K, up : K = DOMAIN tree /\ up = node.up
  OBVIOUS
<1>3. doc' = doc /\ SameOn(K) /\ up \in K /\ tree'[up] = tree[up] /\ new \in DOMAIN tree'
      /\ tree'[new] = node /\ Laws /\ Laws' /\ new # Root
  BY <1>1, <1>2 DEF Makes, MadeTree
<1>4. /\ Open(up)' = Open(up) /\ Instance(up)' = Instance(up) /\ Hands(up)' = Hands(up)
      /\ Pages(up)' = Pages(up) /\ Paged(up)' = Paged(up)
  <2>1. tree'[up].page = tree[up].page
    BY <1>3
  <2> QED BY <1>3, <2>1, WidgetStays
<1>5. \A u : u = tree'[new].up => /\ Open(tree[new].up)' = Open(u)' /\ Instance(tree[new].up)' = Instance(u)'
                                  /\ Paged(tree[new].up)' = Paged(u)'
  OBVIOUS
<1>6. /\ Open(tree[new].up)' = Open(up) /\ Instance(tree[new].up)' = Instance(up)
      /\ Paged(tree[new].up)' = Paged(up)
  BY <1>2, <1>3, <1>4, <1>5
<1>7. ~Paged(new)'
  BY <1>3 DEF Paged, Makes
<1>8. Open(new)' = Ids(node.def) \cup node.via \cup Open(up)
  <2>1. Open(new)' = IF new = Root \/ Paged(new)' THEN {}
                     ELSE Ids(tree[new].def)' \cup tree'[new].via \cup Open(tree[new].up)'
    BY <1>3 DEF Laws, OpenLaw
  <2>2. Ids(tree[new].def)' = Ids(node.def)
    BY <1>3 DEF Ids
  <2> QED BY <1>3, <1>6, <1>7, <2>1, <2>2
<1>9. Instance(new)' = Hands(up)
  <2>1. Instance(new)' = IF new = Root \/ Paged(tree[new].up)' THEN None
                         ELSE IF tree'[tree'[new].up].def # None /\ tree'[tree'[new].up].el.iid # None
                              THEN tree'[tree'[new].up].el.iid
                         ELSE Instance(tree[new].up)'
    BY <1>3 DEF Laws, InstanceLaw
  <2>2. tree'[tree'[new].up] = tree[up]
    BY <1>2, <1>3
  <2> QED BY <1>3, <1>6, <2>1, <2>2 DEF Hands
<1>10. Hands(new)' = IF node.def # None /\ node.el.iid # None THEN node.el.iid ELSE Hands(up)
  BY <1>3, <1>7, <1>9 DEF Hands
<1>11. ASSUME NEW x PROVE Within(new, x)' <=> (up = x \/ Within(up, x)')
  <2>1. Within(new, x)' <=> (new # Root /\ (tree'[new].up = x \/ Within(tree[new].up, x)'))
    BY <1>3 DEF Laws, WithinLaw
  <2>2. \A u : u = tree'[new].up => Within(tree[new].up, x)' = Within(u, x)'
    OBVIOUS
  <2> QED BY <1>2, <1>3, <2>1, <2>2
<1>12. Pages(new)' = {} <=> ~Paged(up) /\ Pages(up) = {}
  <2>1. Pages(new)' = {x \in DOMAIN tree' : Paged(x)' /\ Within(new, x)'}
    BY DEF Pages
  <2>2. Pages(up)' = {x \in DOMAIN tree' : Paged(x)' /\ Within(up, x)'}
    BY DEF Pages
  <2>3. up \in DOMAIN tree'
    BY <1>3 DEF SameOn
  <2>4. ASSUME Paged(up) PROVE up \in Pages(new)'
    BY <1>4, <1>11, <2>1, <2>3, <2>4
  <2>5. Pages(up) \subseteq Pages(new)'
    BY <1>4, <1>11, <2>1, <2>2
  <2>6. ASSUME NEW x \in Pages(new)' PROVE Paged(up) \/ x \in Pages(up)
    <3>1. Paged(x)' /\ x \in DOMAIN tree' /\ (up = x \/ Within(up, x)')
      BY <1>11, <2>1, <2>6
    <3>2. CASE up = x
      BY <1>4, <3>1, <3>2
    <3>3. CASE Within(up, x)'
      BY <1>4, <2>2, <3>1, <3>3
    <3> QED BY <3>1, <3>2, <3>3
  <2> QED BY <2>4, <2>5, <2>6
<1>13. Children(new)' = {}
  <2>1. ASSUME NEW m \in DOMAIN tree', tree'[m].up = new PROVE FALSE
    <3>1. CASE m = Root
      <4>1. tree'[m].up = None
        BY <3>1, <1>1 DEF MadeTree, Laws, Trunk, Nodes
      <4> QED BY <1>1, <2>1, <4>1, NamesAssumption DEF MadeTree
    <3>2. CASE m # Root
      BY <1>1, <1>3, <2>1, <3>2 DEF Laws, Trunk, MadeTree
    <3> QED BY <3>1, <3>2
  <2> QED BY <2>1 DEF Children
<1>14. ASSUME NEW m \in DOMAIN tree, m # up PROVE Children(m)' = Children(m)
  <2>1. \A k \in DOMAIN tree : tree'[k].up = tree[k].up
    BY <1>1 DEF MadeTree
  <2>2. DOMAIN tree' = DOMAIN tree \cup {new} /\ tree'[new].up # m
    BY <1>1, <1>2, <1>14 DEF MadeTree
  <2> QED BY <2>1, <2>2 DEF Children
<1> QED BY <1>2, <1>7, <1>8, <1>9, <1>10, <1>12, <1>13, <1>14 DEF MadePlace

(* It is a widget like the others.                                             *)
LEMMA MadeNodes ==
    ASSUME Tables, Trunk, Nodes, NEW new, NEW node, Makes(new, node)
    PROVE  Nodes' /\ Tables' /\ (Loaded' <=> Loaded)
<1>1. MadeTree(new, node) /\ MadePlace(new, node) /\ \A K : K = DOMAIN tree => SameOn(K)
  BY MadeFacts, MadePlaced
<1>2. PICK K : K = DOMAIN tree
  OBVIOUS
<1>3. SameOn(K) /\ Laws /\ Laws' /\ doc' = doc /\ bound' = bound
  BY <1>1, <1>2 DEF MadeTree, Makes
<1>4. Tables'
  BY <1>3 DEF Tables, DefsOk, LayoutOk
<1>5. Loaded' <=> Loaded
  BY <1>3 DEF Loaded
<1>6. ASSUME NEW n \in DOMAIN tree'
      PROVE  /\ DOMAIN tree'[n] = Fields /\ tree'[n].el \in Elements
             /\ Paged(n)' => Loaded' /\ tree'[n].el.tag = "groupxfade"
             /\ n # Root => tree'[n].def = DefOf(doc, tree[n].el)' /\ tree'[n].scope = Instance(n)'
  <2>1. CASE n = new
    <3>1. DefOf(doc, tree[n].el)' = DefOf(doc, node.el)
      BY <1>1, <1>3, <2>1 DEF DefOf, Lookup, MadeTree
    <3> QED BY <1>1, <2>1, <3>1 DEF MadeTree, MadePlace, Makes
  <2>2. CASE n # new
    <3>1. n \in K /\ n \in DOMAIN tree /\ tree'[n] = tree[n]
      BY <1>1, <1>2, <1>6, <2>2 DEF MadeTree
    <3>2. Instance(n)' = Instance(n) /\ Paged(n)' = Paged(n)
      BY <1>3, <3>1, WidgetStays
    <3>3. DefOf(doc, tree[n].el)' = DefOf(doc, tree[n].el)
      BY <1>3, <3>1 DEF DefOf, Lookup
    <3> QED BY <1>5, <3>1, <3>2, <3>3 DEF Nodes
  <2> QED BY <2>1, <2>2
<1>7. tree'[Root].el.tag = "layout" /\ tree'[Root].def = None /\ tree'[Root].up = None
  BY <1>1 DEF MadeTree, Nodes, Trunk
<1> QED BY <1>4, <1>5, <1>6, <1>7 DEF Nodes

(* Making a widget keeps the invariant if it is what the stack owes the one it is *)
(* in, and the stack owes the new one all of it.                                  *)
LEMMA MadeStep ==
    ASSUME TreeOk, todo # <<>>, sendparams' = sendparams, NEW new, NEW node, Makes(new, node),
           NEW s, todo' = s, StackOk(s)', NEW o, o = Open(new)',
           \A n, el, open : n \in DOMAIN tree /\ n # node.up /\ el = tree[n].el /\ open = Open(n)
              => Debt(s, n, el, open) = Debt(todo, n, el, open),
           \A n, el, open : n = node.up /\ el = tree[n].el /\ open = Open(n)
              => /\ Debt(s, n, el, open) \in Seq(Elements)
                 /\ Debt(todo, n, el, open) = <<node.el>> \o Debt(s, n, el, open),
           Debt(s, new, node.el, o) \in Seq(Elements),
           Debt(s, new, node.el, o) = UnfoldingOf(new, node.el, node.def, None, o),
           \A n : \A x \in ToSet(todo) : OwnBody(x, n) => x \in ToSet(s),
           HasSent(new)' \/ \E x \in ToSet(s) : OwnBody(x, new)
    PROVE  TreeOk'
<1>1. MadeTree(new, node) /\ MadePlace(new, node) /\ \A K : K = DOMAIN tree => SameOn(K)
  BY MadeFacts, MadePlaced DEF TreeOk
<1>2. PICK K : K = DOMAIN tree
  OBVIOUS
<1>3. SameOn(K) /\ Laws /\ Laws' /\ doc' = doc /\ bound' = bound
  BY <1>1, <1>2 DEF MadeTree, Makes
<1>4. Nodes' /\ Tables' /\ (Loaded' <=> Loaded)
  BY MadeNodes DEF TreeOk
<1>5. ASSUME NEW n \in DOMAIN tree' PROVE Grown(n, Debt(s, n, tree[n].el, Open(n)))'
  <2>1. PICK el, open : el = tree'[n].el /\ open = Open(n)'
    OBVIOUS
  <2>2. PICK debt : debt = Debt(s, n, el, open)
    OBVIOUS
  <2>3. Debt(s, n, el, open)' = debt
    BY <1>3, <2>2, DebtStays
  <2>4. Debt(s, n, tree[n].el, Open(n))' = debt
    <3>1. \A e, p : e = tree'[n].el /\ p = Open(n)' => Debt(s, n, tree[n].el, Open(n))' = Debt(s, n, e, p)'
      OBVIOUS
    <3> QED BY <2>1, <2>3, <3>1
  <2>5. Grown(n, debt)'
    <3>1. CASE n = new
      <4>1. el = node.el /\ open = o
        BY <1>1, <2>1, <3>1 DEF MadeTree
      <4>2. debt \in Seq(Elements) /\ debt = UnfoldingOf(n, el, node.def, None, open)
        BY <2>2, <3>1, <4>1
      <4>3. PICK def : def = node.def
        OBVIOUS
      <4>4. debt = UnfoldingOf(n, el, def, None, open)'
        BY <1>3, <4>2, <4>3, PartsStay
      <4>5. UnfoldingLaw'
        BY UnfoldingIs, PTL
      <4>6. \A e, d, p, q : e = tree'[n].el /\ d = tree'[n].def /\ p = tree'[n].page /\ q = Open(n)'
               => Unfolding(n)' = UnfoldingOf(n, e, d, p, q)'
        BY <4>5 DEF UnfoldingLaw
      <4>7. tree'[n].page = None /\ tree'[n].def = def
        BY <1>1, <3>1, <4>3 DEF MadeTree, Makes
      <4>8. debt = Unfolding(n)'
        BY <2>1, <4>4, <4>6, <4>7
      <4>9. Children(n)' = {}
        BY <1>1, <3>1 DEF MadePlace
      <4>10. GrownNewLaw'
        BY GrownNews, PTL
      <4> QED BY <4>2, <4>8, <4>9, <4>10 DEF GrownNewLaw
    <3>2. CASE n # new
      <4>1. n \in K /\ n \in DOMAIN tree /\ tree'[n] = tree[n]
        BY <1>1, <1>2, <1>5, <3>2 DEF MadeTree
      <4>2. Open(n) = open /\ tree[n].el = el
        BY <1>3, <2>1, <4>1, WidgetStays
      <4>3. Grown(n, Debt(todo, n, el, open))
        BY <4>1, <4>2 DEF TreeOk, Growths
      <4>4. CASE n = node.up
        <5>1. debt \in Seq(Elements) /\ Debt(todo, n, el, open) = <<node.el>> \o debt
          BY <2>2, <4>2, <4>4
        <5>2. PICK x : x = node.el
          OBVIOUS
        <5>3. Grown(n, <<x>> \o debt) /\ x \in Elements
          BY <4>3, <5>1, <5>2 DEF Makes
        <5>4. new \in Nat /\ (\A m \in K : m < new) /\ DOMAIN tree' = K \cup {new}
              /\ tree'[new].el = x /\ tree'[new].up = n
          BY <1>1, <1>2, <4>4, <5>2 DEF MadeTree
        <5>5. tree'[n].page = tree[n].page
          BY <4>1
        <5> QED BY <1>2, <1>3, <4>1, <5>1, <5>3, <5>4, <5>5, GrownMore
      <4>5. CASE n # node.up
        <5>1. debt = Debt(todo, n, el, open)
          BY <2>2, <4>1, <4>2, <4>5
        <5>2. Children(n)' = Children(n) /\ Children(n) \subseteq K
          BY <1>1, <1>2, <4>1, <4>5 DEF MadePlace, Children
        <5>3. Grown(n, debt) /\ tree'[n].page = tree[n].page
          BY <4>1, <4>3, <5>1
        <5> QED BY <1>3, <4>1, <5>2, <5>3, GrownStays
      <4> QED BY <4>4, <4>5
    <3> QED BY <3>1, <3>2
  <2>6. \A d : d = Debt(s, n, tree[n].el, Open(n))' =>
           (Grown(n, Debt(s, n, tree[n].el, Open(n)))' <=> Grown(n, d)')
    OBVIOUS
  <2> QED BY <2>4, <2>5, <2>6
<1>6. Growths(s)'
  BY <1>5 DEF Growths
<1>7. Claims(s)'
  <2>1. ASSUME NEW n \in DOMAIN tree', n # Root PROVE HasSent(n)' \/ \E x \in ToSet(s) : OwnBody(x, n)
    <3>1. CASE n = new
      BY <3>1
    <3>2. CASE n # new
      <4>1. n \in K /\ n \in DOMAIN tree /\ tree'[n] = tree[n]
        BY <1>1, <1>2, <2>1, <3>2 DEF MadeTree
      <4>2. HasSent(n)' <=> HasSent(n)
        BY <1>3, <4>1, WidgetStays
      <4> QED BY <2>1, <4>1, <4>2 DEF TreeOk, Claims
    <3> QED BY <3>1, <3>2
  <2> QED BY <2>1 DEF Claims, OwnBody
<1>8. Sends(s)'
  BY <1>3, <1>4 DEF TreeOk, Sends
<1>9. Trunk'
  BY <1>3 DEF Laws
<1>10. StackOk(todo)' /\ Growths(todo)' /\ Claims(todo)' /\ Sends(todo)'
  <2>1. \A t : t = todo' => /\ (StackOk(t)' <=> StackOk(todo)') /\ (Growths(t)' <=> Growths(todo)')
                            /\ (Claims(t)' <=> Claims(todo)') /\ (Sends(t)' <=> Sends(todo)')
    OBVIOUS
  <2> QED BY <1>6, <1>7, <1>8, <2>1
<1> QED BY <1>4, <1>9, <1>10 DEF TreeOk

(* A push, and what the stack owes then.                                          *)
Adds(e, s) ==
    /\ AllEntries(Pushed(e, s)) /\ ToSet(Pushed(e, s)) = {e} \cup ToSet(s)
    /\ Names(ToSet(Pushed(e, s))) = IF e.op = "leave" THEN {e.key} \cup Names(ToSet(s)) ELSE Names(ToSet(s))
    /\ \A n, el, open :
          /\ Share(e, n, el, open) \in Seq(Elements) /\ Debt(s, n, el, open) \in Seq(Elements)
          /\ Debt(Pushed(e, s), n, el, open) = Share(e, n, el, open) \o Debt(s, n, el, open)

(* That is what it owes.                                                       *)
LEMMA AddsFacts ==
    ASSUME Tables, NEW s, AllEntries(s), NEW e, IsEntry(e)
    PROVE  Adds(e, s)
<1>1. IsList(s) /\ DefsOk(doc.def)
  BY DEF AllEntries, Tables
<1>2. ToSet(Pushed(e, s)) = {e} \cup ToSet(s) /\ IsList(Pushed(e, s))
  BY <1>1, PushedSet, PushedFacts
<1>3. AllEntries(Pushed(e, s))
  BY <1>2 DEF AllEntries
<1>4. ASSUME NEW n, NEW el, NEW open
      PROVE  /\ Share(e, n, el, open) \in Seq(Elements) /\ Debt(s, n, el, open) \in Seq(Elements)
             /\ Debt(Pushed(e, s), n, el, open) = Share(e, n, el, open) \o Debt(s, n, el, open)
  BY <1>1, ShareSeq, DebtPushed
<1>5. Names({e} \cup ToSet(s)) = IF e.op = "leave" THEN {e.key} \cup Names(ToSet(s)) ELSE Names(ToSet(s))
  BY NamesPushed
<1> QED BY <1>2, <1>3, <1>4, <1>5 DEF Adds

(* A sound stack owes nothing to a widget there is not.                           *)
LEMMA DebtNone ==
    ASSUME NEW s, StackOk(s), NEW n, n \notin DOMAIN tree, NEW el, NEW open
    PROVE  Debt(s, n, el, open) = <<>>
<1>1. IsList(s) /\ \A i \in 1 .. Len(s) : s[i].op # "leave" => Sound(s[i], Beneath(s, i))
  BY DEF StackOk, AllEntries
<1> DEFINE T == {s[i] : i \in DOMAIN s}
<1>2. s \in Seq(T)
  BY <1>1 DEF IsList
<1> HIDE DEF T
<1>3. DOMAIN s = 1 .. Len(s)
  BY <1>2
<1>4. ASSUME NEW i \in DOMAIN s PROVE Share(s[i], n, el, open) = <<>>
  <2>1. s[i].op # "leave" => s[i].into \in DOMAIN tree
    BY <1>1, <1>3 DEF Sound
  <2> QED BY <2>1 DEF Share
<1> DEFINE a == Among(s, {})
           f == [i \in DOMAIN s |-> Share(s[i], n, el, open)]
           g == [i \in DOMAIN s |-> IF s[i] \in {} THEN <<s[i]>> ELSE <<>>]
<1>5. f = g
  BY <1>4
<1>6. Debt(s, n, el, open) = a
  <2>1. Debt(s, n, el, open) = FlattenSeq(f) /\ a = FlattenSeq(g)
    BY DEF Debt, Among
  <2> HIDE DEF f, g, a
  <2> QED BY <1>5, <2>1
<1>7. a \in Seq(T) /\ ToSet(a) = ToSet(s) \cap {}
  BY <1>2, AmongSeq
<1> HIDE DEF a
<1>8. a = <<>>
  <2>1. DOMAIN a = 1 .. Len(a) /\ Len(a) \in Nat /\ DOMAIN a = {}
    <3>1. DOMAIN a = 1 .. Len(a) /\ Len(a) \in Nat
      BY <1>7
    <3>2. \A i \in DOMAIN a : a[i] \in ToSet(a)
      BY DEF ToSet
    <3>3. DOMAIN a = {}
      BY <1>7, <3>2
    <3> QED BY <3>1, <3>3
  <2>2. Len(a) = 0
    <3>1. ASSUME Len(a) # 0 PROVE FALSE
      <4>1. 1 \in DOMAIN a
        BY <2>1, <3>1
      <4> QED BY <2>1, <4>1
    <3> QED BY <3>1
  <2> QED BY <1>7, <2>2
<1> QED BY <1>6, <1>8

(* What soundness depends on: the widget of the entry, and nothing else of the *)
(* tree.                                                                       *)
SoundLaw ==
    \A e, S, n :
       /\ e.into = n /\ n \in DOMAIN tree
       /\ Names(S) = Open(n) \cup e.via
       /\ e.scope = Hands(n)
       /\ Loaded => Paged(n) \/ Pages(n) # {}
       /\ e.op # "visit" => tree[n].def # None
       /\ e.op = "inherit" \/ (e.op = "body" /\ e.via # {}) => \E x \in S : OwnBody(x, n)
       => Sound(e, S)

(* It depends on nothing else.                                                 *)
LEMMA SoundLaws == SoundLaw
BY DEF SoundLaw, Sound

(* The stack as it stands, in the tree with the new widget.                       *)
LEMMA MadeStack ==
    ASSUME Trunk, NEW new, NEW node, Makes(new, node), NEW s, StackOk(s)
    PROVE  StackOk(s)'
<1>1. MadeTree(new, node) /\ \A K : K = DOMAIN tree => SameOn(K)
  BY MadeFacts
<1>2. PICK K : K = DOMAIN tree
  OBVIOUS
<1>3. SameOn(K) /\ Laws /\ Laws' /\ doc' = doc /\ bound' = bound
      /\ \A m \in K : tree'[m].page = tree[m].page
  BY <1>1, <1>2 DEF MadeTree, Makes
<1> QED BY <1>2, <1>3, StackStays

(* What an entry for the new widget has to be.                                    *)
LEMMA MadeSound ==
    ASSUME TreeOk, NEW new, NEW node, Makes(new, node),
           NEW o, o = Open(new)', NEW e, NEW S, e.into = new, Names(S) = o \cup e.via,
           e.scope = IF node.def # None /\ node.el.iid # None THEN node.el.iid ELSE node.scope,
           Loaded => Paged(node.up) \/ Pages(node.up) # {},
           e.op # "visit" => node.def # None,
           e.op = "inherit" \/ (e.op = "body" /\ e.via # {}) => \E x \in S : OwnBody(x, new)
    PROVE  Sound(e, S)'
<1>1. MadeTree(new, node) /\ MadePlace(new, node) /\ (Loaded' <=> Loaded)
  BY MadeFacts, MadePlaced, MadeNodes DEF TreeOk
<1>2. new \in DOMAIN tree' /\ tree'[new] = node
  BY <1>1 DEF MadeTree
<1>3. e.scope = Hands(new)'
  BY <1>1 DEF MadePlace, Makes
<1>4. Loaded' => Paged(new)' \/ Pages(new)' # {}
  BY <1>1 DEF MadePlace
<1>5. Names(S)' = Names(S)
  BY DEF Names
<1>6. (\E x \in S : OwnBody(x, new))' <=> \E x \in S : OwnBody(x, new)
  BY DEF OwnBody
<1>7. SoundLaw'
  BY SoundLaws, PTL
<1>8. \A f, T, n :
         /\ f.into = n /\ n \in DOMAIN tree'
         /\ Names(T)' = Open(n)' \cup f.via
         /\ f.scope = Hands(n)'
         /\ Loaded' => Paged(n)' \/ Pages(n)' # {}
         /\ f.op # "visit" => tree'[n].def # None
         /\ f.op = "inherit" \/ (f.op = "body" /\ f.via # {}) => (\E x \in T : OwnBody(x, n))'
         => Sound(f, T)'
  BY <1>7 DEF SoundLaw
<1> QED BY <1>2, <1>3, <1>4, <1>5, <1>6, <1>8

(* A push after the widget is made.                                            *)
LEMMA PushMade ==
    ASSUME PushLaw', Tables', NEW e, NEW r, StackOk(r)', IsEntry(e)', e.op # "leave" => Sound(e, ToSet(r))'
    PROVE  StackOk(Pushed(e, r))'
<1>1. \A f, s : Tables' /\ StackOk(s)' /\ IsEntry(f)' /\ (f.op # "leave" => Sound(f, ToSet(s))')
                   => StackOk(Pushed(f, s))'
  BY DEF PushLaw, Pushes
<1> QED BY <1>1

(* An entry is one for as long as the tables stay.                             *)
LEMMA EntriesStay ==
    ASSUME doc' = doc, NEW e
    PROVE  IsEntry(e)' <=> IsEntry(e)
BY DEF IsEntry, IsLoop, IsCall, Inherits

(* An element that names a groupdef that is not in flight.                        *)
LEMMA InstanceTree ==
    ASSUME TreeOk, CallsInv, VisitInstance, ~InFlight(doc.def[DefOf(doc, Element)].id)
    PROVE  TreeOk'
<1>1. Visiting /\ todo # <<>> /\ DefOf(doc, Element) # None
      /\ UNCHANGED <<doc, bound, sendparams>>
  BY DEF VisitInstance, Visiting, Running
<1>2. PICK e, r, f : Unrolled(e, r, f)
  BY <1>1, Unrolls
<1>3. PICK el, def, gid, new, into, scope :
         /\ el = Element /\ def = DefOf(doc, Element) /\ gid = doc.def[def].id /\ new = NewNode
         /\ into = e.into /\ scope = IF el.iid = None THEN e.scope ELSE el.iid
  OBVIOUS
<1> DEFINE node == Node(el, def, into, e.scope, e.via, el.value)
           a == Call("inherit", def, new, scope, {})
           b == Call("body", def, new, scope, {})
           c == Call("content", def, new, scope, {})
           l == Leave(gid)
           rest == Pushed(f, r)
<1>4. IsTop(e, r) /\ Top = e /\ Rest = rest /\ Sound(e, ToSet(r)) /\ e.op = "visit" /\ el \in Elements
      /\ f.into = into /\ f.op = "visit" /\ inflight = Names(ToSet(r)) /\ inflight = Open(into) \cup e.via
  BY <1>2, <1>3 DEF Unrolled
<1>5. tree' = Extended(tree, new, node) /\ todo' = <<a, b, c, l>> \o rest /\ gid \notin inflight
  <2>1. Top = e /\ Rest = rest
    BY <1>4
  <2> HIDE DEF rest
  <2>2. tree' = Extended(tree, NewNode, Node(Element, DefOf(doc, Element), Top.into, Top.scope, Top.via, Element.value))
    BY <1>3 DEF VisitInstance
  <2>3. todo' = <<a, b, c, l>> \o rest
    BY <1>3, <2>1 DEF VisitInstance, Call, Leave
  <2> QED BY <1>3, <2>1, <2>2, <2>3 DEF InFlight
<1>6. /\ DOMAIN node = Fields /\ node.el = el /\ node.def = def /\ node.up = into
      /\ node.scope = e.scope /\ node.via = e.via /\ node.page = None
  BY DEF Node, Fields
<1>7. /\ a.op = "inherit" /\ b.op = "body" /\ c.op = "content" /\ l.op = "leave" /\ l.key = gid
      /\ a.into = new /\ b.into = new /\ c.into = new /\ a.via = {} /\ b.via = {} /\ c.via = {}
      /\ a.scope = scope /\ b.scope = scope /\ c.scope = scope
      /\ a.def = def /\ b.def = def /\ c.def = def
      /\ a = Call(a.op, a.def, a.into, a.scope, a.via) /\ b = Call(b.op, b.def, b.into, b.scope, b.via)
      /\ c = Call(c.op, c.def, c.into, c.scope, c.via)
  BY CallFacts DEF Leave
<1> HIDE DEF node, a, b, c, l
<1>8. def \in DOMAIN doc.def /\ def # None /\ Tables /\ Trunk /\ Nodes
  <2>1. def \in DOMAIN doc.def /\ def # None
    BY <1>1, <1>3, LookupDef DEF DefOf
  <2> QED BY <2>1 DEF TreeOk
<1>9. Makes(new, node)
  <2>1. into \in DOMAIN tree /\ e.scope = Hands(into)
    BY <1>3, <1>4 DEF Sound
  <2> QED BY <1>1, <1>3, <1>4, <1>5, <1>6, <2>1 DEF Makes
<1>10. PICK o : o = Open(new)'
  OBVIOUS
<1>11. o = {gid} \cup inflight /\ Ids(def) = {gid} /\ new \notin DOMAIN tree /\ new # Root /\ into # new
  <2>1. MadeTree(new, node) /\ MadePlace(new, node)
    BY <1>8, <1>9, MadeFacts, MadePlaced
  <2>2. Ids(def) = {gid}
    BY <1>3, <1>8 DEF Ids
  <2>3. o = Ids(def) \cup e.via \cup Open(into)
    BY <1>6, <1>10, <2>1 DEF MadePlace
  <2>4. into \in DOMAIN tree
    BY <1>3, <1>4 DEF Sound
  <2> QED BY <1>4, <2>1, <2>2, <2>3, <2>4 DEF MadeTree
<1>12. IsEntry(a) /\ IsEntry(b) /\ IsEntry(c) /\ IsEntry(l)
  BY <1>7, <1>8 DEF IsEntry, IsCall
<1>13. Pushes(f, r)
  <2>1. StackOk(r) /\ IsEntry(f) /\ Sound(f, ToSet(r))
    BY <1>2 DEF Unrolled, IsTop
  <2> QED BY <1>8, <2>1, PushLaws DEF PushLaw
<1>14. StackOk(rest) /\ AllEntries(rest) /\ IsList(rest) /\ ToSet(rest) = {f} \cup ToSet(r)
       /\ Names(ToSet(rest)) = inflight
  BY <1>4, <1>13 DEF Pushes, StackOk, AllEntries
<1> HIDE DEF rest
<1> DEFINE s3 == Pushed(l, rest)
           s2 == Pushed(c, s3)
           s1 == Pushed(b, s2)
           s == Pushed(a, s1)
<1>15. todo' = s
  BY <1>5, <1>14, Pushed4
<1>16. Adds(l, rest)
  BY <1>8, <1>12, <1>14, AddsFacts
<1>17. Adds(c, s3)
  <2>1. AllEntries(s3)
    BY <1>16 DEF Adds
  <2> QED BY <1>8, <1>12, <2>1, AddsFacts
<1>18. Adds(b, s2)
  <2>1. AllEntries(s2)
    BY <1>17 DEF Adds
  <2> QED BY <1>8, <1>12, <2>1, AddsFacts
<1>19. Adds(a, s1)
  <2>1. AllEntries(s1)
    BY <1>18 DEF Adds
  <2> QED BY <1>8, <1>12, <2>1, AddsFacts
<1>20. /\ ToSet(s1) = {b} \cup ToSet(s2) /\ ToSet(rest) \subseteq ToSet(s) /\ b \in ToSet(s)
       /\ Names(ToSet(s3)) = o /\ Names(ToSet(s2)) = o /\ Names(ToSet(s1)) = o
  BY <1>7, <1>11, <1>14, <1>16, <1>17, <1>18, <1>19 DEF Adds
<1>21. ASSUME NEW n, NEW e1, NEW open
       PROVE  /\ Debt(s, n, e1, open) = Share(a, n, e1, open) \o (Share(b, n, e1, open)
                                           \o (Share(c, n, e1, open) \o Debt(rest, n, e1, open)))
              /\ Share(a, n, e1, open) \in Seq(Elements) /\ Share(b, n, e1, open) \in Seq(Elements)
              /\ Share(c, n, e1, open) \in Seq(Elements) /\ Debt(rest, n, e1, open) \in Seq(Elements)
              /\ Debt(rest, n, e1, open) = Share(f, n, e1, open) \o Debt(r, n, e1, open)
              /\ Share(f, n, e1, open) \in Seq(Elements) /\ Debt(r, n, e1, open) \in Seq(Elements)
  <2>1. Debt(rest, n, e1, open) \in Seq(Elements)
        /\ Debt(s3, n, e1, open) = Share(l, n, e1, open) \o Debt(rest, n, e1, open)
    BY <1>16 DEF Adds
  <2>2. Share(c, n, e1, open) \in Seq(Elements)
        /\ Debt(s2, n, e1, open) = Share(c, n, e1, open) \o Debt(s3, n, e1, open)
    BY <1>17 DEF Adds
  <2>3. Share(b, n, e1, open) \in Seq(Elements)
        /\ Debt(s1, n, e1, open) = Share(b, n, e1, open) \o Debt(s2, n, e1, open)
    BY <1>18 DEF Adds
  <2>4. Share(a, n, e1, open) \in Seq(Elements)
        /\ Debt(s, n, e1, open) = Share(a, n, e1, open) \o Debt(s1, n, e1, open)
    BY <1>19 DEF Adds
  <2>5. Share(l, n, e1, open) = <<>>
    BY <1>7 DEF Share
  <2>6. /\ Debt(rest, n, e1, open) = Share(f, n, e1, open) \o Debt(r, n, e1, open)
        /\ Share(f, n, e1, open) \in Seq(Elements) /\ Debt(r, n, e1, open) \in Seq(Elements)
    BY <1>13 DEF Pushes, rest
  <2>7. <<>> \o Debt(rest, n, e1, open) = Debt(rest, n, e1, open)
    <3> DEFINE d == Debt(rest, n, e1, open)
    <3>1. d \in Seq(Elements)
      BY <2>1
    <3> HIDE DEF d
    <3>2. <<>> \o d = d
      BY <3>1
    <3> QED BY <3>2 DEF d
  <2> QED BY <2>1, <2>2, <2>3, <2>4, <2>5, <2>6, <2>7
<1>22. StackOk(s)'
  <2>1. StackOk(rest)'
    <3>1. PICK x : x = rest
      OBVIOUS
    <3> QED BY <1>8, <1>9, <1>14, <3>1, MadeStack
  <2>2. PushLaw' /\ Tables'
    <3>1. PushLaw'
      BY PushLaws, PTL
    <3> QED BY <1>8, <1>9, <3>1, MadeNodes
  <2>3. IsEntry(a)' /\ IsEntry(b)' /\ IsEntry(c)' /\ IsEntry(l)'
    BY <1>1, <1>12, EntriesStay
  <2>4. scope = IF node.def # None /\ node.el.iid # None THEN node.el.iid ELSE node.scope
    BY <1>3, <1>6, <1>8
  <2>5. Loaded => Paged(node.up) \/ Pages(node.up) # {}
    BY <1>3, <1>4, <1>6 DEF Sound
  <2>6. StackOk(s3)'
    BY <1>7, <2>1, <2>2, <2>3, PushMade
  <2>7. StackOk(s2)'
    <3>1. Sound(c, ToSet(s3))'
      <4>1. PICK S : S = ToSet(s3)
        OBVIOUS
      <4>2. Sound(c, S)'
        BY <1>6, <1>7, <1>8, <1>9, <1>10, <1>20, <2>4, <2>5, <4>1, MadeSound
      <4> QED BY <4>1, <4>2
    <3> HIDE DEF s3
    <3> QED BY <2>2, <2>3, <2>6, <3>1, PushMade
  <2>8. StackOk(s1)'
    <3>1. Sound(b, ToSet(s2))'
      <4>1. PICK S : S = ToSet(s2)
        OBVIOUS
      <4>2. Sound(b, S)'
        BY <1>6, <1>7, <1>8, <1>9, <1>10, <1>20, <2>4, <2>5, <4>1, MadeSound
      <4> QED BY <4>1, <4>2
    <3> HIDE DEF s2
    <3> QED BY <2>2, <2>3, <2>7, <3>1, PushMade
  <2> HIDE DEF s2
  <2>9. Sound(a, ToSet(s1))'
    <3>1. PICK S : S = ToSet(s1)
      OBVIOUS
    <3>2. b \in S /\ OwnBody(b, new)
      BY <1>7, <1>20, <3>1 DEF OwnBody
    <3>3. Sound(a, S)'
      BY <1>6, <1>7, <1>8, <1>9, <1>10, <1>20, <2>4, <2>5, <3>1, <3>2, MadeSound
    <3> QED BY <3>1, <3>3
  <2> HIDE DEF s1
  <2> QED BY <2>2, <2>3, <2>8, <2>9, PushMade
<1> HIDE DEF s, s1, s2, s3
<1>23. ASSUME NEW n, NEW e1, NEW open, n \in DOMAIN tree /\ n # node.up /\ e1 = tree[n].el /\ open = Open(n)
       PROVE  Debt(s, n, e1, open) = Debt(todo, n, e1, open)
  <2>1. Share(a, n, e1, open) = <<>> /\ Share(b, n, e1, open) = <<>> /\ Share(c, n, e1, open) = <<>>
    BY <1>7, <1>11, <1>23 DEF Share
  <2>2. Share(e, n, e1, open) = Share(f, n, e1, open)
    BY <1>2, <1>3, <1>6, <1>23 DEF Unrolled
  <2>3. Debt(todo, n, e1, open) = Share(e, n, e1, open) \o Debt(r, n, e1, open)
    BY <1>4 DEF IsTop
  <2> DEFINE d == Debt(rest, n, e1, open)
  <2>4. d \in Seq(Elements) /\ Debt(s, n, e1, open) = <<>> \o (<<>> \o (<<>> \o d))
    BY <1>21, <2>1
  <2>5. Debt(todo, n, e1, open) = d
    BY <1>21, <2>2, <2>3
  <2> HIDE DEF d
  <2> QED BY <2>4, <2>5
<1>24. ASSUME NEW n, NEW e1, NEW open, n = node.up /\ e1 = tree[n].el /\ open = Open(n)
       PROVE  /\ Debt(s, n, e1, open) \in Seq(Elements)
              /\ Debt(todo, n, e1, open) = <<node.el>> \o Debt(s, n, e1, open)
  <2>1. Share(a, n, e1, open) = <<>> /\ Share(b, n, e1, open) = <<>> /\ Share(c, n, e1, open) = <<>>
    BY <1>6, <1>7, <1>11, <1>24 DEF Share
  <2>2. Share(e, n, e1, open) = <<el>> \o Share(f, n, e1, open)
    <3>1. Ids(DefOf(doc, Element)) \cap (open \cup e.via) = {}
      BY <1>3, <1>4, <1>5, <1>6, <1>11, <1>24
    <3> QED BY <1>2, <1>3, <1>6, <1>24, <3>1 DEF Unrolled
  <2>3. Debt(todo, n, e1, open) = Share(e, n, e1, open) \o Debt(r, n, e1, open)
    BY <1>4 DEF IsTop
  <2> DEFINE d == Debt(rest, n, e1, open)
             sf == Share(f, n, e1, open)
             dr == Debt(r, n, e1, open)
  <2>4. d \in Seq(Elements) /\ Debt(s, n, e1, open) = <<>> \o (<<>> \o (<<>> \o d))
        /\ d = sf \o dr /\ sf \in Seq(Elements) /\ dr \in Seq(Elements)
    BY <1>21, <2>1
  <2>5. Debt(todo, n, e1, open) = (<<el>> \o sf) \o dr
    BY <2>2, <2>3
  <2> HIDE DEF d, sf, dr
  <2>6. (<<el>> \o sf) \o dr = <<el>> \o (sf \o dr)
    <3>1. <<el>> \in Seq(Elements)
      BY <1>4
    <3> QED BY <2>4, <3>1, Regrouped
  <2>7. Debt(s, n, e1, open) = d
    BY <2>4
  <2> QED BY <1>6, <2>4, <2>5, <2>6, <2>7
<1>25. Debt(s, new, el, o) \in Seq(Elements) /\ Debt(s, new, el, o) = UnfoldingOf(new, el, def, None, o)
  <2> DEFINE x == InheritedParts(def, o, {})
             y == Part(doc.def[def].kids, o)
             z == ContentPart(el, o)
  <2>1. Share(a, new, el, o) = x /\ Share(b, new, el, o) = y /\ Share(c, new, el, o) = z
    <3>1. o \cup {} = o
      OBVIOUS
    <3> QED BY <1>7, <3>1 DEF Share, Owes
  <2>2. Debt(rest, new, el, o) = <<>>
    BY <1>11, <1>14, DebtNone
  <2>3. Debt(s, new, el, o) = x \o (y \o (z \o <<>>)) /\ x \in Seq(Elements) /\ y \in Seq(Elements)
        /\ z \in Seq(Elements)
    BY <1>21, <2>1, <2>2
  <2>4. UnfoldingOf(new, el, def, None, o) = (x \o y) \o z
    BY <1>8, <1>11 DEF UnfoldingOf
  <2> HIDE DEF x, y, z
  <2>5. z \o <<>> = z /\ y \o z \in Seq(Elements) /\ x \o (y \o z) \in Seq(Elements)
    BY <2>3
  <2>6. (x \o y) \o z = x \o (y \o z)
    BY <2>3, Regrouped
  <2> QED BY <2>3, <2>4, <2>5, <2>6
<1>26. \A n : \A x \in ToSet(todo) : OwnBody(x, n) => x \in ToSet(s)
  BY <1>4, <1>14, <1>20 DEF IsTop, OwnBody
<1>27. OwnBody(b, new) /\ b \in ToSet(s)
  BY <1>7, <1>20 DEF OwnBody
<1>28. PICK q, nd : q = s /\ nd = node
  OBVIOUS
<1>29. Debt(q, new, nd.el, o) \in Seq(Elements)
       /\ Debt(q, new, nd.el, o) = UnfoldingOf(new, nd.el, nd.def, None, o)
  BY <1>6, <1>25, <1>28
<1> QED BY <1>1, <1>9, <1>10, <1>15, <1>22, <1>23, <1>24, <1>26, <1>27, <1>28, <1>29, MadeStep

(* An element that stands for itself.                                             *)
LEMMA PlainTree ==
    ASSUME TreeOk, CallsInv, VisitPlain
    PROVE  TreeOk'
<1>1. Visiting /\ todo # <<>> /\ DefOf(doc, Element) = None
      /\ UNCHANGED <<doc, bound, sendparams>>
  BY DEF VisitPlain, Visiting, Running
<1>2. PICK e, r, f : Unrolled(e, r, f)
  BY <1>1, Unrolls
<1>3. PICK el, new, into, scope :
         el = Element /\ new = NewNode /\ into = e.into /\ scope = e.scope
  OBVIOUS
<1>29. PICK value, v : value = Sent(sendparams, scope, el, el.value) /\ v = Visit(Held(el), new, scope, {})
  OBVIOUS
<1> DEFINE node == Node(el, None, into, scope, e.via, value)
           rest == Pushed(f, r)
<1>4. IsTop(e, r) /\ Top = e /\ Rest = rest /\ Sound(e, ToSet(r)) /\ e.op = "visit" /\ el \in Elements
      /\ f.into = into /\ f.op = "visit" /\ inflight = Names(ToSet(r)) /\ inflight = Open(into) \cup e.via
  BY <1>2, <1>3 DEF Unrolled
<1>5. tree' = Extended(tree, new, node) /\ todo' = <<v>> \o rest
  <2>1. Top = e /\ Rest = rest
    BY <1>4
  <2> HIDE DEF rest
  <2>2. tree' = Extended(tree, NewNode, Node(Element, None, Top.into, Top.scope, Top.via,
                                             Sent(sendparams, Top.scope, Element, Element.value)))
    BY DEF VisitPlain
  <2>3. todo' = <<Visit(Held(Element), NewNode, Top.scope, {})>> \o rest
    BY <2>1 DEF VisitPlain
  <2> QED BY <1>3, <1>29, <2>1, <2>2, <2>3
<1>6. /\ DOMAIN node = Fields /\ node.el = el /\ node.def = None /\ node.up = into
      /\ node.scope = scope /\ node.via = e.via /\ node.page = None /\ node.value = value
  BY DEF Node, Fields
<1>7. Held(el) \in Seq(Elements)
  BY <1>4, HeldSeq
<1>8. Visits(v, Held(el), new, scope, {})
  BY <1>7, <1>29, VisitFacts
<1> HIDE DEF node
<1>9. v.op = "visit" /\ v.into = new /\ v.scope = scope /\ v.via = {} /\ IsEntry(v)
  BY <1>8 DEF Visits
<1>10. Tables /\ Trunk /\ Nodes /\ into \in DOMAIN tree /\ scope = Hands(into)
       /\ (Loaded => Paged(into) \/ Pages(into) # {})
  BY <1>3, <1>4 DEF TreeOk, Sound
<1>11. Makes(new, node)
  BY <1>1, <1>3, <1>4, <1>5, <1>6, <1>10 DEF Makes
<1>12. MadeTree(new, node) /\ MadePlace(new, node)
  BY <1>10, <1>11, MadeFacts, MadePlaced
<1>13. PICK o : o = Open(new)'
  OBVIOUS
<1>14. o = inflight /\ new \notin DOMAIN tree /\ new # Root /\ into # new
  <2>1. Ids(None) = {}
    BY DEF Ids
  <2>2. o = Ids(node.def) \cup node.via \cup Open(node.up)
    BY <1>12, <1>13 DEF MadePlace
  <2> QED BY <1>4, <1>6, <1>10, <1>12, <2>1, <2>2 DEF MadeTree
<1>15. Pushes(f, r)
  <2>1. StackOk(r) /\ IsEntry(f) /\ Sound(f, ToSet(r))
    BY <1>2 DEF Unrolled, IsTop
  <2> QED BY <1>10, <2>1, PushLaws DEF PushLaw
<1>16. StackOk(rest) /\ AllEntries(rest) /\ IsList(rest) /\ ToSet(rest) = {f} \cup ToSet(r)
       /\ Names(ToSet(rest)) = inflight
  BY <1>4, <1>15 DEF Pushes, StackOk, AllEntries
<1> HIDE DEF rest
<1> DEFINE s == Pushed(v, rest)
<1>17. todo' = s
  BY <1>5 DEF Pushed
<1>18. Adds(v, rest)
  BY <1>9, <1>10, <1>16, AddsFacts
<1>19. ASSUME NEW n, NEW e1, NEW open
       PROVE  /\ Debt(s, n, e1, open) = Share(v, n, e1, open) \o Debt(rest, n, e1, open)
              /\ Share(v, n, e1, open) \in Seq(Elements) /\ Debt(rest, n, e1, open) \in Seq(Elements)
              /\ Debt(rest, n, e1, open) = Share(f, n, e1, open) \o Debt(r, n, e1, open)
              /\ Share(f, n, e1, open) \in Seq(Elements) /\ Debt(r, n, e1, open) \in Seq(Elements)
  BY <1>15, <1>18 DEF Adds, Pushes, rest
<1>20. StackOk(s)'
  <2>1. StackOk(rest)'
    <3>1. PICK x : x = rest
      OBVIOUS
    <3> QED BY <1>10, <1>11, <1>16, <3>1, MadeStack
  <2>2. PushLaw' /\ Tables'
    <3>1. PushLaw'
      BY PushLaws, PTL
    <3> QED BY <1>10, <1>11, <3>1, MadeNodes
  <2>3. PICK x : x = v
    OBVIOUS
  <2>4. IsEntry(x)'
    BY <1>1, <1>9, <2>3, EntriesStay
  <2>5. Sound(x, ToSet(rest))'
    <3>1. PICK S : S = ToSet(rest)
      OBVIOUS
    <3>2. x.into = new /\ Names(S) = o \cup x.via /\ x.op = "visit" /\ x.scope = node.scope
      BY <1>6, <1>9, <1>14, <1>16, <2>3, <3>1
    <3>3. Sound(x, S)'
      BY <1>6, <1>10, <1>11, <1>13, <3>2, MadeSound
    <3> QED BY <3>1, <3>3
  <2>6. StackOk(Pushed(x, rest))'
    BY <2>1, <2>2, <2>4, <2>5, PushMade
  <2>7. PICK q : q = rest
    OBVIOUS
  <2> QED BY <2>3, <2>6, <2>7
<1>21. ToSet(s) = {v} \cup ToSet(rest)
  BY <1>18 DEF Adds
<1> HIDE DEF s
<1>22. ASSUME NEW n, NEW e1, NEW open, n \in DOMAIN tree /\ n # node.up /\ e1 = tree[n].el /\ open = Open(n)
       PROVE  Debt(s, n, e1, open) = Debt(todo, n, e1, open)
  <2>1. Share(v, n, e1, open) = <<>>
    BY <1>9, <1>14, <1>22 DEF Share
  <2>2. Share(e, n, e1, open) = Share(f, n, e1, open)
    BY <1>2, <1>3, <1>6, <1>22 DEF Unrolled
  <2>3. Debt(todo, n, e1, open) = Share(e, n, e1, open) \o Debt(r, n, e1, open)
    BY <1>4 DEF IsTop
  <2> DEFINE d == Debt(rest, n, e1, open)
  <2>4. d \in Seq(Elements) /\ Debt(s, n, e1, open) = <<>> \o d
    BY <1>19, <2>1
  <2>5. Debt(todo, n, e1, open) = d
    BY <1>19, <2>2, <2>3
  <2> HIDE DEF d
  <2> QED BY <2>4, <2>5
<1>23. ASSUME NEW n, NEW e1, NEW open, n = node.up /\ e1 = tree[n].el /\ open = Open(n)
       PROVE  /\ Debt(s, n, e1, open) \in Seq(Elements)
              /\ Debt(todo, n, e1, open) = <<node.el>> \o Debt(s, n, e1, open)
  <2>1. Share(v, n, e1, open) = <<>>
    BY <1>6, <1>9, <1>14, <1>23 DEF Share
  <2>2. Share(e, n, e1, open) = <<el>> \o Share(f, n, e1, open)
    <3>1. Ids(DefOf(doc, Element)) = {}
      BY <1>1 DEF Ids
    <3> QED BY <1>2, <1>3, <1>6, <1>23, <3>1 DEF Unrolled
  <2>3. Debt(todo, n, e1, open) = Share(e, n, e1, open) \o Debt(r, n, e1, open)
    BY <1>4 DEF IsTop
  <2> DEFINE d == Debt(rest, n, e1, open)
             sf == Share(f, n, e1, open)
             dr == Debt(r, n, e1, open)
  <2>4. d \in Seq(Elements) /\ Debt(s, n, e1, open) = <<>> \o d
        /\ d = sf \o dr /\ sf \in Seq(Elements) /\ dr \in Seq(Elements)
    BY <1>19, <2>1
  <2>5. Debt(todo, n, e1, open) = (<<el>> \o sf) \o dr
    BY <2>2, <2>3
  <2> HIDE DEF d, sf, dr
  <2>6. (<<el>> \o sf) \o dr = <<el>> \o (sf \o dr)
    <3>1. <<el>> \in Seq(Elements)
      BY <1>4
    <3> QED BY <2>4, <3>1, Regrouped
  <2>7. Debt(s, n, e1, open) = d
    BY <2>4
  <2> QED BY <1>6, <2>4, <2>5, <2>6, <2>7
<1>24. Debt(s, new, el, o) \in Seq(Elements) /\ Debt(s, new, el, o) = UnfoldingOf(new, el, None, None, o)
  <2> DEFINE x == Part(Held(el), o)
  <2>1. Share(v, new, el, o) = x
    <3>1. o \cup {} = o
      OBVIOUS
    <3> QED BY <1>8, <3>1 DEF Visits
  <2>2. Debt(rest, new, el, o) = <<>>
    BY <1>14, <1>16, DebtNone
  <2>3. Debt(s, new, el, o) = x \o <<>> /\ x \in Seq(Elements)
    BY <1>19, <2>1, <2>2
  <2>4. UnfoldingOf(new, el, None, None, o) = x
    BY <1>14 DEF UnfoldingOf
  <2> HIDE DEF x
  <2>5. x \o <<>> = x
    BY <2>3
  <2> QED BY <2>3, <2>4, <2>5
<1>25. \A n : \A x \in ToSet(todo) : OwnBody(x, n) => x \in ToSet(s)
  BY <1>4, <1>16, <1>21 DEF IsTop, OwnBody
<1>26. HasSent(new)'
  <2>1. tree'[new] = node /\ Instance(new)' = scope
        /\ (Pages(new)' = {} <=> ~Paged(into) /\ Pages(into) = {})
    BY <1>6, <1>10, <1>12 DEF MadeTree, MadePlace
  <2>2. PICK pages : pages = Pages(new)'
    OBVIOUS
  <2>3. ~Loaded => ~Paged(into) /\ Pages(into) = {}
    BY <1>10 DEF Nodes, Pages
  <2>4. sendparams = IF Loaded THEN doc.pageSends ELSE doc.sends
    BY <1>1 DEF TreeOk, Sends
  <2>5. sendparams = IF pages = {} THEN doc.sends ELSE doc.pageSends
    BY <1>10, <2>1, <2>2, <2>3, <2>4
  <2>6. PICK say, val, is : say = sendparams /\ val = el.value /\ is = value
    OBVIOUS
  <2>7. is = Sent(say, scope, el, val)
    BY <1>29, <2>6
  <2>8. SentOf(el.id, scope, Sent(say, scope, el, val), pages)
    BY <2>5, <2>6, SentSays
  <2>9. SentOf(el.id, scope, is, pages)'
    BY <1>1, <2>7, <2>8 DEF SentOf
  <2>10. tree'[new].value = is /\ tree'[new].el = el
    BY <1>6, <2>1, <2>6
  <2>11. HasSentLaw'
    BY HasSentIs, PTL
  <2>12. \A i, a, x, p : i = tree'[new].el.id /\ a = Instance(new)' /\ x = tree'[new].value
                            /\ p = Pages(new)' => (HasSent(new)' <=> SentOf(i, a, x, p)')
    BY <2>11 DEF HasSentLaw
  <2> QED BY <2>1, <2>2, <2>9, <2>10, <2>12
<1>27. PICK q, nd : q = s /\ nd = node
  OBVIOUS
<1>28. Debt(q, new, nd.el, o) \in Seq(Elements)
       /\ Debt(q, new, nd.el, o) = UnfoldingOf(new, nd.el, nd.def, None, o)
  BY <1>6, <1>24, <1>27
<1> QED BY <1>1, <1>11, <1>13, <1>17, <1>20, <1>22, <1>23, <1>25, <1>26, <1>27, <1>28, MadeStep

(* An empty stack owes nothing, as a law.                                      *)
DebtNilLaw == \A t, n, el, open : t = <<>> => Debt(t, n, el, open) = <<>>

(* It does not.                                                                *)
LEMMA DebtNils == DebtNilLaw
BY DebtNil DEF DebtNilLaw

(* setGroupId: the groupid a script gives a widget is none of what it unfolds  *)
(* to.                                                                         *)
LEMMA SetGroupIdTree ==
    ASSUME TreeOk, NEW n \in DOMAIN tree, NEW name, SetGroupId(n, name)
    PROVE  TreeOk'
<1>1. todo = <<>> /\ UNCHANGED <<doc, bound, todo, sendparams>>
      /\ tree' = [tree EXCEPT ![n].groupid = name]
  BY DEF SetGroupId
<1>2. Steady /\ \A m \in DOMAIN tree : tree'[m].value = tree[m].value
  <2>1. \A m \in DOMAIN tree : DOMAIN tree[m] = Fields
    BY DEF TreeOk, Nodes
  <2>2. DOMAIN tree' = DOMAIN tree
    BY <1>1
  <2>3. ASSUME NEW m \in DOMAIN tree
        PROVE  /\ DOMAIN tree'[m] = Fields /\ tree'[m].value = tree[m].value
               /\ tree'[m].el = tree[m].el /\ tree'[m].def = tree[m].def /\ tree'[m].up = tree[m].up
               /\ tree'[m].scope = tree[m].scope /\ tree'[m].via = tree[m].via
               /\ tree'[m].page = tree[m].page
    <3>1. tree'[m] = IF m = n THEN [tree[n] EXCEPT !.groupid = name] ELSE tree[m]
      BY <1>1
    <3> QED BY <2>1, <3>1 DEF Fields
  <2> QED BY <1>1, <2>2, <2>3 DEF Steady
<1>3. PICK s : s = todo
  OBVIOUS
<1>4. StackOk(s) /\ todo' = s /\ s = <<>>
  BY <1>1, <1>3 DEF TreeOk
<1>5. \A m \in DOMAIN tree : Debt(s, m, tree[m].el, Open(m)) = Debt(todo, m, tree[m].el, Open(m))
  BY <1>3
<1>6. ASSUME NEW m \in DOMAIN tree, m # Root /\ (HasSent(m) \/ \E x \in ToSet(todo) : OwnBody(x, m))
      PROVE  HasSent(m)' \/ \E x \in ToSet(s) : OwnBody(x, m)
  <2>1. HasSent(m)' <=> HasSent(m)
    BY <1>2, SentStays
  <2> QED BY <1>3, <1>6, <2>1
<1> QED BY <1>2, <1>4, <1>5, <1>6, SteadyStep

(* Loading the scripts leaves a tree that is finished, in which everything has *)
(* been put.                                                                   *)
LEMMA LoadScriptsTree ==
    ASSUME TreeOk, LoadScripts
    PROVE  TreeOk'
<1>1. todo = <<>> /\ ~Loaded /\ UNCHANGED <<doc, todo, sendparams, tree>>
  BY DEF LoadScripts
<1>2. PICK K : K = DOMAIN tree
  OBVIOUS
<1>3. Laws /\ Laws' /\ Trunk'
  <2>1. Trunk /\ Trunk'
    BY <1>1 DEF TreeOk, Trunk
  <2> QED BY <2>1, AllLaws, LawsNext
<1>4. SameOn(K) /\ doc' = doc /\ \A m \in K : tree'[m] = tree[m]
  BY <1>1, <1>2 DEF SameOn, TreeOk, Trunk
<1>5. Tables'
  BY <1>1 DEF TreeOk, Tables, DefsOk, LayoutOk
<1>6. Nodes'
  <2>1. ASSUME NEW n \in DOMAIN tree'
        PROVE  /\ DOMAIN tree'[n] = Fields /\ tree'[n].el \in Elements
               /\ ~Paged(n)'
               /\ n # Root => tree'[n].def = DefOf(doc, tree[n].el)' /\ tree'[n].scope = Instance(n)'
    <3>1. n \in K /\ n \in DOMAIN tree /\ tree'[n] = tree[n]
      BY <1>1, <1>2, <2>1
    <3>2. Instance(n)' = Instance(n) /\ Paged(n)' = Paged(n)
      BY <1>3, <1>4, <3>1, WidgetStays
    <3>3. DefOf(doc, tree[n].el)' = DefOf(doc, tree[n].el)
      BY <1>1 DEF DefOf, Lookup
    <3> QED BY <1>1, <3>1, <3>2, <3>3 DEF TreeOk, Nodes
  <2>2. tree'[Root].el.tag = "layout" /\ tree'[Root].def = None /\ tree'[Root].up = None
    BY <1>1 DEF TreeOk, Nodes
  <2> QED BY <2>1, <2>2 DEF Nodes
<1>7. PICK s : s = todo
  OBVIOUS
<1>8. s = <<>> /\ todo' = s /\ ToSet(s) = {} /\ AllEntries(s)
  BY <1>1, <1>7 DEF ToSet, TreeOk, StackOk
<1>9. StackOk(s)'
  <2>1. AllEntries(s)' /\ Len(s) = 0
    BY <1>1, <1>8 DEF AllEntries, IsList, ToSet
  <2> QED BY <2>1 DEF StackOk
<1>10. Growths(s)'
  <2>1. ASSUME NEW n \in DOMAIN tree' PROVE Grown(n, Debt(s, n, tree[n].el, Open(n)))'
    <3>1. n \in K /\ n \in DOMAIN tree /\ tree'[n] = tree[n]
      BY <1>1, <1>2, <2>1
    <3>2. PICK debt : debt = <<>>
      OBVIOUS
    <3>3. Debt(s, n, tree[n].el, Open(n)) = debt /\ Debt(s, n, tree[n].el, Open(n))' = debt
      <4>1. DebtNilLaw'
        BY DebtNils, PTL
      <4>2. \A t, m, el, open : t = <<>> => Debt(t, m, el, open)' = <<>>
        BY <4>1 DEF DebtNilLaw
      <4>3. \A e, p : e = tree'[n].el /\ p = Open(n)' => Debt(s, n, tree[n].el, Open(n))' = Debt(s, n, e, p)'
        OBVIOUS
      <4> QED BY <1>8, <3>2, <4>2, <4>3, DebtNil
    <3>4. Grown(n, debt)
      BY <1>7, <3>1, <3>3 DEF TreeOk, Growths
    <3>5. Children(n)' = Children(n) /\ Children(n) \subseteq K
      BY <1>1, <1>2 DEF Children
    <3>6. Grown(n, debt)'
      BY <1>3, <1>4, <3>1, <3>4, <3>5, GrownStays
    <3>7. \A d : d = Debt(s, n, tree[n].el, Open(n))' =>
             (Grown(n, Debt(s, n, tree[n].el, Open(n)))' <=> Grown(n, d)')
      OBVIOUS
    <3> QED BY <3>3, <3>6, <3>7
  <2> QED BY <2>1 DEF Growths
<1>11. Claims(s)'
  <2>1. ASSUME NEW n \in DOMAIN tree', n # Root PROVE HasSent(n)'
    <3>1. n \in K /\ n \in DOMAIN tree /\ tree'[n] = tree[n]
      BY <1>1, <1>2, <2>1
    <3>2. HasSent(n)
      BY <1>7, <1>8, <2>1, <3>1 DEF TreeOk, Claims
    <3> QED BY <1>3, <1>4, <3>1, <3>2, WidgetStays
  <2> QED BY <2>1 DEF Claims
<1>12. Sends(s)'
  BY <1>8 DEF Sends
<1>13. \A t : t = todo' => /\ (StackOk(t)' <=> StackOk(todo)') /\ (Growths(t)' <=> Growths(todo)')
                           /\ (Claims(t)' <=> Claims(todo)') /\ (Sends(t)' <=> Sends(todo)')
  OBVIOUS
<1> QED BY <1>3, <1>5, <1>6, <1>8, <1>9, <1>10, <1>11, <1>12, <1>13 DEF TreeOk

-----------------------------------------------------------------------------
(* What is within a widget came after it.                                         *)
LEMMA WithinLater ==
    ASSUME Laws, NEW top, NEW n \in DOMAIN tree, top \in Nat, Within(n, top)
    PROVE  top < n
<1> DEFINE P == {m \in DOMAIN tree : Within(m, top) => top < m}
<1>1. ASSUME NEW m \in DOMAIN tree, m # Root /\ tree[m].up \in DOMAIN tree => tree[m].up \in P
      PROVE  m \in P
  <2>1. Within(m, top) <=> (m # Root /\ (tree[m].up = top \/ Within(tree[m].up, top)))
    BY DEF Laws, WithinLaw
  <2>2. m # Root => tree[m].up \in DOMAIN tree /\ tree[m].up < m
    BY DEF Laws, Trunk
  <2>3. m \in Nat /\ (m # Root => tree[m].up \in Nat)
    BY <2>2 DEF Laws, Trunk
  <2> QED BY <1>1, <2>1, <2>2, <2>3
<1>2. DOMAIN tree \subseteq P
  <2>1. PICK K : K = DOMAIN tree
    OBVIOUS
  <2>2. Trunk /\ K \subseteq DOMAIN tree
    BY <2>1 DEF Laws
  <2> HIDE DEF P
  <2>3. \A m \in K : (m # Root /\ tree[m].up \in K => tree[m].up \in P) => m \in P
    BY <1>1, <2>1
  <2>4. K \subseteq P
    BY <2>2, <2>3, TreeInduction
  <2> QED BY <2>1, <2>4
<1> QED BY <1>2

(* A groupxfade that has to show another page.                                    *)
Turns(n, page, kept) ==
    /\ n \in DOMAIN tree /\ n # Root /\ n \in kept
    /\ tree[n].el.tag = "groupxfade" /\ tree[n].def = None
    /\ page = tree[n].groupid /\ page # None
    /\ kept = {m \in DOMAIN tree : ~Within(m, n)}
    /\ \A m \in kept : m # Root => tree[m].up \in kept /\ tree[m].up # n
    /\ Root \in kept
    /\ DOMAIN tree' = kept /\ tree'[n] = [tree[n] EXCEPT !.page = page]
    /\ \A m \in kept : m # n => tree'[m] = tree[m]
    /\ \A m \in kept : m # n => Children(m) \subseteq kept

(* resolvePage turns the first page that is stale.                             *)
LEMMA PageTurns ==
    ASSUME TreeOk, ResolvePage
    PROVE  \E page, kept : Turns(Min(Stale), page, kept)
<1>1. Stale # {} /\ Stale \subseteq DOMAIN tree
  BY DEF ResolvePage, Stale
<1>2. Laws /\ Trunk
  BY AllLaws DEF TreeOk
<1>3. Min(Stale) \in Stale
  <2>1. Stale \subseteq Nat
    BY <1>1, <1>2 DEF Trunk
  <2> QED BY <1>1, <2>1, LeastNat DEF Min
<1>4. PICK n, page, kept : n = Min(Stale) /\ page = tree[n].groupid /\ kept = {m \in DOMAIN tree : ~Within(m, n)}
  OBVIOUS
<1>5. n \in DOMAIN tree /\ n \in Nat /\ tree[n].el.tag = "groupxfade" /\ page # None
  BY <1>1, <1>2, <1>3, <1>4 DEF Stale, Trunk
<1>6. n # Root /\ tree[n].def = None
  BY <1>5 DEF TreeOk, Nodes, DefOf
<1>7. \A m \in DOMAIN tree : Within(m, n) <=> (m # Root /\ (tree[m].up = n \/ Within(tree[m].up, n)))
  BY <1>2 DEF Laws, WithinLaw
<1>8. n \in kept /\ Root \in kept
  <2>1. ~Within(n, n)
    <3>1. ~(n < n)
      BY <1>5
    <3> QED BY <1>2, <1>5, <3>1, WithinLater
  <2> QED BY <1>2, <1>4, <1>5, <1>7, <2>1 DEF Trunk
<1>9. \A m \in kept : m # Root => tree[m].up \in kept /\ tree[m].up # n
  BY <1>2, <1>4, <1>7 DEF Trunk
<1>10. ASSUME NEW m \in kept, m # n PROVE Children(m) \subseteq kept
  <2>1. ASSUME NEW k \in Children(m) PROVE k \in kept
    <3>1. k \in DOMAIN tree /\ tree[k].up = m
      BY <2>1 DEF Children
    <3>2. ~Within(m, n)
      BY <1>4, <1>10
    <3>3. ~Within(k, n)
      BY <1>7, <1>10, <3>1, <3>2
    <3> QED BY <1>4, <3>1, <3>3
  <2> QED BY <2>1
<1>11. tree' = [m \in kept |-> IF m = n THEN [tree[n] EXCEPT !.page = page] ELSE tree[m]]
  BY <1>4 DEF ResolvePage
<1>12. Turns(n, page, kept)
  BY <1>4, <1>5, <1>6, <1>8, <1>9, <1>10, <1>11 DEF Turns
<1> QED BY <1>4, <1>12

(* What that changes, and what not.                                               *)
Turned(n, page, kept) ==
    /\ Laws /\ Laws' /\ SameOn(kept)
    /\ tree'[n].page = page /\ tree'[n].value = tree[n].value /\ tree'[n].el = tree[n].el
    /\ tree'[n].def = None /\ DOMAIN tree'[n] = Fields /\ tree'[n].scope = tree[n].scope
    /\ Paged(n)' /\ Open(n)' = {} /\ Hands(n)' = None
    /\ Instance(n)' = Instance(n) /\ Pages(n)' = Pages(n)
    /\ Children(n)' = {}
    /\ \A m \in kept : m # n => Children(m)' = Children(m)

(* That is what it changes.                                                    *)
LEMMA TurnFacts ==
    ASSUME TreeOk, doc' = doc, NEW n, NEW page, NEW kept, Turns(n, page, kept)
    PROVE  Turned(n, page, kept)
<1>1. /\ n \in DOMAIN tree /\ n # Root /\ n \in kept /\ kept \subseteq DOMAIN tree /\ Root \in kept
      /\ DOMAIN tree' = kept
  BY DEF Turns
<1>2. Laws /\ Trunk /\ DOMAIN tree[n] = Fields
  BY <1>1, AllLaws DEF TreeOk, Nodes
<1>3. /\ tree'[n].page = page /\ tree'[n].value = tree[n].value /\ tree'[n].el = tree[n].el
      /\ tree'[n].def = tree[n].def /\ tree'[n].up = tree[n].up /\ tree'[n].via = tree[n].via
      /\ tree'[n].scope = tree[n].scope /\ DOMAIN tree'[n] = Fields
  <2>1. tree'[n] = [tree[n] EXCEPT !.page = page]
    BY DEF Turns
  <2> QED BY <1>2, <2>1 DEF Fields
<1>4. \A m \in kept : m # n => tree'[m] = tree[m]
  BY DEF Turns
<1>5. Trunk'
  <2>1. DOMAIN tree' \subseteq Nat /\ IsFiniteSet(DOMAIN tree')
    BY <1>1, <1>2, FS_Subset DEF Trunk
  <2>2. ASSUME NEW m \in DOMAIN tree', m # Root PROVE tree'[m].up \in DOMAIN tree' /\ tree'[m].up < m
    BY <1>1, <1>2, <1>3, <1>4, <2>2 DEF Trunk, Turns
  <2> QED BY <1>1, <2>1, <2>2 DEF Trunk
<1>6. Laws'
  BY <1>5, LawsNext
<1>7. SameOn(kept)
  <2>1. ASSUME NEW m \in kept
        PROVE  /\ tree'[m].el = tree[m].el /\ tree'[m].def = tree[m].def
               /\ tree'[m].up = tree[m].up /\ tree'[m].via = tree[m].via
    BY <1>3, <1>4
  <2>2. ASSUME NEW m \in kept, m # Root
        PROVE  tree[m].up \in kept /\ tree'[tree[m].up].page = tree[tree[m].up].page
    BY <1>4, <2>2 DEF Turns
  <2> QED BY <1>1, <2>1, <2>2 DEF SameOn
<1>8. Paged(n)'
  BY <1>3 DEF Paged, Turns
<1>9. Open(n)' = {} /\ Hands(n)' = None
  BY <1>1, <1>6, <1>8 DEF Laws, OpenLaw, Hands
<1>10. Instance(n)' = Instance(n) /\ Pages(n)' = Pages(n)
  BY <1>1, <1>2, <1>6, <1>7, InstanceStays, PagesStay
<1>11. Children(n)' = {}
  <2>1. ASSUME NEW k \in DOMAIN tree', tree'[k].up = n PROVE FALSE
    <3>1. k \in kept /\ tree[k].up = n
      BY <1>1, <1>7, <2>1 DEF SameOn
    <3>2. CASE k = Root
      <4>1. tree[Root].up = None /\ n \in Nat
        BY <1>1, <1>2 DEF TreeOk, Nodes, Trunk
      <4> QED BY <3>1, <3>2, <4>1, NamesAssumption
    <3>3. CASE k # Root
      BY <3>1, <3>3 DEF Turns
    <3> QED BY <3>2, <3>3
  <2> QED BY <2>1 DEF Children
<1>12. ASSUME NEW m \in kept, m # n PROVE Children(m)' = Children(m)
  <2>1. Children(m) \subseteq kept
    BY <1>12 DEF Turns
  <2>2. Children(m)' = {k \in kept : tree'[k].up = m}
    BY <1>1 DEF Children
  <2>3. \A k \in kept : tree'[k].up = tree[k].up
    BY <1>7 DEF SameOn
  <2> QED BY <1>1, <2>1, <2>2, <2>3 DEF Children
<1>13. tree[n].def = None
  BY DEF Turns
<1> QED BY <1>2, <1>3, <1>6, <1>7, <1>8, <1>9, <1>10, <1>11, <1>12, <1>13 DEF Turned

(* An empty stack is sound, and nothing is in flight on it.                    *)
NilLaw == \A s : s = <<>> => StackOk(s) /\ AllEntries(s) /\ IsList(s) /\ ToSet(s) = {} /\ Names(ToSet(s)) = {}

(* It is.                                                                      *)
LEMMA NilStack == NilLaw
<1> SUFFICES ASSUME NEW s, s = <<>>
             PROVE  StackOk(s) /\ AllEntries(s) /\ IsList(s) /\ ToSet(s) = {} /\ Names(ToSet(s)) = {}
  BY DEF NilLaw
<1>1. IsList(s) /\ Len(s) = 0 /\ ToSet(s) = {}
  BY DEF IsList, ToSet
<1>2. AllEntries(s) /\ Names(ToSet(s)) = {}
  BY <1>1 DEF AllEntries, Names
<1> QED BY <1>1, <1>2 DEF StackOk

(* The page of a groupxfade.                                                      *)
LEMMA ResolvePageTree ==
    ASSUME TreeOk, ResolvePage
    PROVE  TreeOk'
<1>1. /\ todo = <<>> /\ Loaded /\ doc' = doc /\ bound' = bound /\ sendparams' = doc.pageSends
      /\ (Loaded' <=> Loaded)
  BY DEF ResolvePage, Loaded
<1>2. PICK n, page, kept : n = Min(Stale) /\ Turns(n, page, kept)
  BY PageTurns
<1>3. PICK def, s : def = Lookup(doc, page) /\ s = todo'
  OBVIOUS
<1>4. PICK v : v = Visit(doc.def[def].kids, n, None, {})
  OBVIOUS
<1>5. s = IF def = None THEN <<>> ELSE <<v>>
  BY <1>2, <1>3, <1>4 DEF ResolvePage, Turns
<1>6. /\ n \in DOMAIN tree /\ n # Root /\ n \in kept /\ kept \subseteq DOMAIN tree /\ Root \in kept
      /\ DOMAIN tree' = kept /\ page # None /\ \A m \in kept : m # n => tree'[m] = tree[m]
      /\ tree[n].el.tag = "groupxfade" /\ tree[n].def = None
  BY <1>2 DEF Turns
<1>7. Turned(n, page, kept) /\ Laws /\ Laws' /\ SameOn(kept) /\ Trunk'
  BY <1>1, <1>2, TurnFacts DEF Turned, Laws
<1>8. Tables'
  BY <1>1 DEF TreeOk, Tables, DefsOk, LayoutOk
<1>9. Nodes'
  <2>1. ASSUME NEW m \in DOMAIN tree'
        PROVE  /\ DOMAIN tree'[m] = Fields /\ tree'[m].el \in Elements
               /\ Paged(m)' => Loaded' /\ tree'[m].el.tag = "groupxfade"
               /\ m # Root => tree'[m].def = DefOf(doc, tree[m].el)' /\ tree'[m].scope = Instance(m)'
    <3>1. m \in kept /\ tree'[m].el = tree[m].el /\ tree'[m].def = tree[m].def
          /\ tree'[m].scope = tree[m].scope /\ DOMAIN tree'[m] = Fields /\ m \in DOMAIN tree
      BY <1>6, <1>7, <2>1 DEF Turned, SameOn, TreeOk, Nodes
    <3>2. Instance(m)' = Instance(m)
      BY <1>7, <3>1, InstanceStays
    <3>3. DefOf(doc, tree[m].el)' = DefOf(doc, tree[m].el)
      BY <1>1, <3>1 DEF DefOf, Lookup
    <3>4. Paged(m)' => tree'[m].el.tag = "groupxfade"
      BY <1>6, <3>1 DEF Paged, TreeOk, Nodes
    <3> QED BY <1>1, <3>1, <3>2, <3>3, <3>4 DEF TreeOk, Nodes
  <2>2. tree'[Root].el.tag = "layout" /\ tree'[Root].def = None /\ tree'[Root].up = None
    BY <1>6 DEF TreeOk, Nodes
  <2> QED BY <2>1, <2>2 DEF Nodes
<1>10. ASSUME def # None
       PROVE  doc.def[def].kids \in Seq(Elements) /\ Visits(v, doc.def[def].kids, n, None, {})
              /\ s = Pushed(v, <<>>)
  <2>1. def \in DOMAIN doc.def /\ DefsOk(doc.def)
    BY <1>3, <1>10, LookupDef DEF TreeOk, Tables
  <2>2. doc.def[def].kids \in Seq(Elements)
    BY <2>1, BodySeq
  <2>3. <<v>> = <<v>> \o <<>>
    OBVIOUS
  <2> QED BY <1>4, <1>5, <1>10, <2>2, <2>3, VisitFacts DEF Pushed
<1>11. ASSUME NEW m, NEW el, NEW open
       PROVE  /\ Debt(s, m, el, open) \in Seq(Elements)
              /\ Debt(s, m, el, open) = IF def # None /\ m = n THEN Part(doc.def[def].kids, open) ELSE <<>>
  <2>1. CASE def = None
    <3>1. Debt(s, m, el, open) = <<>>
      BY <1>5, <2>1, DebtNil
    <3> QED BY <2>1, <3>1
  <2>2. CASE def # None
    <3> DEFINE x == Share(v, m, el, open)
               q == <<>>
    <3>1. IsEntry(v) /\ x = IF m = n THEN Part(doc.def[def].kids, open) ELSE <<>>
      <4>1. open \cup {} = open
        OBVIOUS
      <4> QED BY <1>10, <2>2, <4>1 DEF Visits
    <3>2. AllEntries(q) /\ DefsOk(doc.def)
      BY NilStack DEF NilLaw, TreeOk, Tables
    <3> HIDE DEF q
    <3>3. Debt(Pushed(v, q), m, el, open) = x \o Debt(q, m, el, open)
      BY <3>1, <3>2, DebtPushed
    <3>4. x \in Seq(Elements)
      BY <3>1, <3>2, ShareSeq
    <3>5. Debt(q, m, el, open) = <<>>
      BY DebtNil DEF q
    <3>6. s = Pushed(v, q)
      BY <1>10, <2>2 DEF q
    <3> HIDE DEF x
    <3>7. Debt(s, m, el, open) = x \o <<>> /\ x \o <<>> = x
      BY <3>3, <3>4, <3>5, <3>6
    <3> QED BY <2>2, <3>1, <3>4, <3>7
  <2> QED BY <2>1, <2>2
<1>12. NilLaw'
  BY NilStack, PTL
<1>13. StackOk(s)'
  <2>1. CASE def = None
    <3>1. \A t : t = <<>> => StackOk(t)'
      BY <1>12 DEF NilLaw
    <3> QED BY <1>5, <2>1, <3>1
  <2>2. CASE def # None
    <3>1. PICK q : q = <<>>
      OBVIOUS
    <3>2. StackOk(q)' /\ ToSet(q) = {}
      <4>1. \A t : t = <<>> => StackOk(t)'
        BY <1>12 DEF NilLaw
      <4> QED BY <3>1, <4>1, NilStack DEF NilLaw
    <3>3. v.op = "visit" /\ v.into = n /\ v.scope = None /\ v.via = {} /\ IsEntry(v)
      BY <1>10, <2>2 DEF Visits
    <3>4. IsEntry(v)'
      BY <1>1, <3>3, EntriesStay
    <3>5. Sound(v, ToSet(q))'
      <4>1. PICK S : S = ToSet(q)
        OBVIOUS
      <4>2. SoundLaw'
        BY SoundLaws, PTL
      <4>3. \A f, T, m :
               /\ f.into = m /\ m \in DOMAIN tree'
               /\ Names(T)' = Open(m)' \cup f.via
               /\ f.scope = Hands(m)'
               /\ Loaded' => Paged(m)' \/ Pages(m)' # {}
               /\ f.op # "visit" => tree'[m].def # None
               /\ f.op = "inherit" \/ (f.op = "body" /\ f.via # {}) => (\E x \in T : OwnBody(x, m))'
               => Sound(f, T)'
        BY <4>2 DEF SoundLaw
      <4>4. Names(S)' = {} /\ Open(n)' = {} /\ Hands(n)' = None /\ Paged(n)'
        BY <1>7, <3>2, <4>1 DEF Names, Turned
      <4>5. Sound(v, S)'
        BY <1>6, <3>3, <4>3, <4>4
      <4> QED BY <4>1, <4>5
    <3>6. PushLaw'
      BY PushLaws, PTL
    <3>7. StackOk(Pushed(v, q))'
      BY <1>8, <3>2, <3>4, <3>5, <3>6, PushMade
    <3>8. s = Pushed(v, q)
      BY <1>10, <2>2, <3>1
    <3>9. \A t : t = Pushed(v, q) => (StackOk(t)' <=> StackOk(Pushed(v, q))')
      OBVIOUS
    <3> QED BY <3>7, <3>8, <3>9
  <2> QED BY <2>1, <2>2
<1>14. Growths(s)'
  <2>1. ASSUME NEW m \in DOMAIN tree' PROVE Grown(m, Debt(s, m, tree[m].el, Open(m)))'
    <3>1. PICK el, open : el = tree'[m].el /\ open = Open(m)'
      OBVIOUS
    <3>2. PICK debt : debt = Debt(s, m, el, open)
      OBVIOUS
    <3>3. Debt(s, m, el, open)' = debt
      BY <1>1, <3>2, DebtStays
    <3>4. Debt(s, m, tree[m].el, Open(m))' = debt
      <4>1. \A e, p : e = tree'[m].el /\ p = Open(m)' => Debt(s, m, tree[m].el, Open(m))' = Debt(s, m, e, p)'
        OBVIOUS
      <4> QED BY <3>1, <3>3, <4>1
    <3>5. Grown(m, debt)'
      <4>1. CASE m = n
        <5>1. open = {} /\ tree'[n].def = None /\ tree'[n].page = page /\ Children(n)' = {}
          BY <1>7, <3>1, <4>1 DEF Turned
        <5>2. debt \in Seq(Elements) /\ debt = UnfoldingOf(n, el, None, page, open)
          BY <1>3, <1>6, <1>11, <3>2, <4>1, <5>1 DEF UnfoldingOf
        <5>3. debt = UnfoldingOf(n, el, None, page, open)'
          BY <1>1, <5>2, PartsStay
        <5>4. UnfoldingLaw'
          BY UnfoldingIs, PTL
        <5>5. \A e, d, p, q : e = tree'[n].el /\ d = tree'[n].def /\ p = tree'[n].page /\ q = Open(n)'
                 => Unfolding(n)' = UnfoldingOf(n, e, d, p, q)'
          BY <5>4 DEF UnfoldingLaw
        <5>6. debt = Unfolding(n)'
          BY <3>1, <4>1, <5>1, <5>3, <5>5
        <5>7. GrownNewLaw'
          BY GrownNews, PTL
        <5> QED BY <4>1, <5>1, <5>2, <5>6, <5>7 DEF GrownNewLaw
      <4>2. CASE m # n
        <5>1. m \in kept /\ m \in DOMAIN tree /\ tree'[m] = tree[m]
          BY <1>6, <2>1, <4>2
        <5>2. debt = <<>>
          BY <1>11, <3>2, <4>2
        <5>3. Debt(todo, m, tree[m].el, Open(m)) = debt
          BY <1>1, <5>2, DebtNil
        <5>4. Grown(m, debt)
          BY <5>1, <5>3 DEF TreeOk, Growths
        <5>5. Children(m)' = Children(m) /\ Children(m) \subseteq kept
          BY <1>2, <1>7, <4>2, <5>1 DEF Turned, Turns
        <5> QED BY <1>1, <1>7, <5>1, <5>4, <5>5, GrownStays
      <4> QED BY <4>1, <4>2
    <3>6. \A d : d = Debt(s, m, tree[m].el, Open(m))' =>
             (Grown(m, Debt(s, m, tree[m].el, Open(m)))' <=> Grown(m, d)')
      OBVIOUS
    <3> QED BY <3>4, <3>5, <3>6
  <2> QED BY <2>1 DEF Growths
<1>15. Claims(s)'
  <2>1. ASSUME NEW m \in DOMAIN tree', m # Root PROVE HasSent(m)'
    <3>1. m \in kept /\ m \in DOMAIN tree /\ HasSent(m)
      BY <1>1, <1>6, <2>1, NilStack DEF TreeOk, Claims, NilLaw
    <3>2. CASE m # n
      BY <1>1, <1>6, <1>7, <3>1, <3>2, WidgetStays
    <3>3. CASE m = n
      <4>1. PICK id, inst, value, pages :
               id = tree[n].el.id /\ inst = Instance(n) /\ value = tree[n].value /\ pages = Pages(n)
        OBVIOUS
      <4>2. SentOf(id, inst, value, pages)
        BY <3>1, <3>3, <4>1, HasSentIs DEF HasSentLaw
      <4>3. SentOf(id, inst, value, pages)'
        BY <1>1, <4>2 DEF SentOf
      <4>4. HasSentLaw'
        BY HasSentIs, PTL
      <4>5. \A i, a, x, p : i = tree'[n].el.id /\ a = Instance(n)' /\ x = tree'[n].value
                               /\ p = Pages(n)' => (HasSent(n)' <=> SentOf(i, a, x, p)')
        BY <4>4 DEF HasSentLaw
      <4> QED BY <1>7, <3>3, <4>1, <4>3, <4>5 DEF Turned
    <3> QED BY <3>2, <3>3
  <2> QED BY <2>1 DEF Claims
<1>16. Sends(s)'
  BY <1>1 DEF Sends
<1>17. \A t : t = todo' => /\ (StackOk(t)' <=> StackOk(todo)') /\ (Growths(t)' <=> Growths(todo)')
                           /\ (Claims(t)' <=> Claims(todo)') /\ (Sends(t)' <=> Sends(todo)')
  OBVIOUS
<1> QED BY <1>3, <1>7, <1>8, <1>9, <1>13, <1>14, <1>15, <1>16, <1>17 DEF TreeOk

-----------------------------------------------------------------------------
(* A layout before any of it is visited.                                          *)
Bud(layout, v) ==
    /\ Tables /\ doc.layout = layout /\ ~Loaded
    /\ DOMAIN tree = {Root} /\ tree[Root] = Node(layout, None, None, None, {}, None)
    /\ v = Visit(layout.kids, Root, None, {}) /\ sendparams = doc.sends

(* Such a layout satisfies the invariant: all that the root unfolds to is on   *)
(* the stack.                                                                  *)
BudLaw == \A layout, v, s : Bud(layout, v) /\ s = <<v>> /\ todo = s => TreeOk

(* It does.                                                                    *)
LEMMA BudGrows == BudLaw
<1> SUFFICES ASSUME NEW layout, NEW v, NEW s, Bud(layout, v), s = <<v>>, todo = s PROVE TreeOk
  BY DEF BudLaw
<1>1. /\ Tables /\ doc.layout = layout /\ ~Loaded
      /\ DOMAIN tree = {Root} /\ tree[Root] = Node(layout, None, None, None, {}, None)
      /\ v = Visit(layout.kids, Root, None, {}) /\ sendparams = doc.sends
  BY DEF Bud
<1>2. layout \in Elements /\ layout.tag = "layout" /\ layout.kids \in Seq(Elements)
  BY <1>1, ElementsHold DEF Tables, LayoutOk
<1>3. /\ DOMAIN tree[Root] = Fields /\ tree[Root].el = layout /\ tree[Root].def = None
      /\ tree[Root].up = None /\ tree[Root].page = None
  BY <1>1 DEF Node, Fields
<1>4. Trunk
  <2>1. Root \in Nat /\ IsFiniteSet({Root})
    BY FS_Singleton DEF Root
  <2> QED BY <1>1, <2>1 DEF Trunk
<1>5. Laws
  BY <1>4, AllLaws
<1>6. ~Paged(Root) /\ Open(Root) = {} /\ Instance(Root) = None /\ Hands(Root) = None /\ Children(Root) = {}
  <2>1. ~Paged(Root) /\ Root \in DOMAIN tree
    BY <1>1, <1>3 DEF Paged
  <2>2. Open(Root) = {} /\ Instance(Root) = None
    BY <1>5, <2>1 DEF Laws, OpenLaw, InstanceLaw
  <2>3. Root # None
    BY NamesAssumption DEF Root
  <2> QED BY <1>1, <1>3, <2>1, <2>2, <2>3 DEF Hands, Children
<1>7. Nodes
  BY <1>1, <1>2, <1>3, <1>6 DEF Nodes
<1>8. Visits(v, layout.kids, Root, None, {})
  BY <1>1, <1>2, VisitFacts
<1>9. v.op = "visit" /\ v.into = Root /\ v.scope = None /\ v.via = {} /\ IsEntry(v)
  BY <1>8 DEF Visits
<1>10. PICK q : q = <<>>
  OBVIOUS
<1>11. s = Pushed(v, q)
  BY <1>10 DEF Pushed
<1>12. Pushes(v, q)
  <2>1. StackOk(q) /\ Names(ToSet(q)) = {}
    BY <1>10, NilStack DEF NilLaw
  <2>2. Sound(v, ToSet(q))
    BY <1>1, <1>6, <1>9, <2>1 DEF Sound
  <2> QED BY <1>1, <1>9, <2>1, <2>2, PushLaws DEF PushLaw
<1>13. StackOk(s)
  BY <1>11, <1>12 DEF Pushes
<1>14. Growths(s)
  <2> DEFINE d == Debt(s, Root, tree[Root].el, Open(Root))
             x == Part(layout.kids, {})
  <2>1. Share(v, Root, layout, {}) = x
    <3>1. {} \cup {} = {}
      OBVIOUS
    <3>2. Share(v, Root, layout, {}) = Part(layout.kids, {} \cup {})
      BY <1>8 DEF Visits
    <3> QED BY <3>1, <3>2
  <2>2. d = x \o Debt(q, Root, layout, {}) /\ x \in Seq(Elements)
    BY <1>3, <1>6, <1>11, <1>12, <2>1 DEF Pushes
  <2>3. Debt(q, Root, layout, {}) = <<>>
    BY <1>10, DebtNil
  <2>4. Unfolding(Root) = x
    BY <1>1 DEF Unfolding
  <2>7. d = x \o <<>> /\ x \in Seq(Elements)
    BY <2>2, <2>3
  <2> HIDE DEF d, x
  <2>8. x \o <<>> = x
    BY <2>7
  <2>5. d = x /\ d \in Seq(Elements)
    BY <2>7, <2>8
  <2>6. Grown(Root, d)
    BY <1>6, <2>4, <2>5, GrownNew
  <2> QED BY <1>1, <2>6 DEF Growths, d
<1>15. Claims(s)
  BY <1>1 DEF Claims
<1>16. Sends(s)
  BY <1>1 DEF Sends
<1> QED BY <1>1, <1>4, <1>7, <1>13, <1>14, <1>15, <1>16 DEF TreeOk

(* Expand: the tables are those of a skin that has been read (FilesSplice), so *)
(* what they give is elements all the way down.                                *)
LEMMA ExpandLayoutTree ==
    ASSUME skin \in Skins, FilesAreSpliced, bound = None, ExpandLayout
    PROVE  TreeOk' /\ doc' # <<>>
<1>1. PICK document : document = Document
  OBVIOUS
<1>2. PICK layout : layout = findLayout(findContainer(document)[1])[1]
  OBVIOUS
<1>3. PICK v : v = Visit(layout.kids, Root, None, {})
  OBVIOUS
<1>4. PICK d \in Nat : document.kids \in Seq(Leveled(skin, d))
  BY <1>1, DocumentIn DEF ExpandLayout
<1>5. PICK defs : defs = collectGroupdefs(document)
  OBVIOUS
<1>6. DefsOk(defs) /\ LayoutOk(layout)
  <2>1. PICK s \in Skins : s = skin
    OBVIOUS
  <2>2. document.kids \in Seq(Leveled(s, d))
    BY <1>4, <2>1
  <2>3. findContainer(document) # <<>> /\ findLayout(findContainer(document)[1]) # <<>>
    BY <1>1 DEF ExpandLayout
  <2> QED BY <1>2, <1>5, <2>2, <2>3, DefsTable, LayoutFound
<1>7. PICK sends, more : sends = LayoutSends(document, layout)
                         /\ more = collectSendparams(Tagged(document, "sendparams"), <<>>)
  OBVIOUS
<1>8. /\ doc' = [def |-> defs, layout |-> layout, sends |-> sends, pageSends |-> more]
      /\ sendparams' = doc'.sends /\ todo' = <<v>>
      /\ tree' = Extended(<<>>, Root, Node(layout, None, None, None, {}, None)) /\ bound' = bound
  BY <1>1, <1>2, <1>3, <1>5, <1>7 DEF ExpandLayout
<1>9. doc'.def = defs /\ doc'.layout = layout /\ doc' # <<>>
  <2>1. DOMAIN doc' = {"def", "layout", "sends", "pageSends"}
    BY <1>8
  <2>2. DOMAIN <<>> = {}
    OBVIOUS
  <2> QED BY <1>8, <2>1, <2>2
<1>10. Tables'
  BY <1>6, <1>9 DEF Tables, DefsOk, LayoutOk
<1>11. DOMAIN tree' = {Root} /\ tree'[Root] = Node(layout, None, None, None, {}, None)
  BY <1>8 DEF Extended
<1>12. Bud(layout, v)'
  BY <1>3, <1>8, <1>9, <1>10, <1>11 DEF Bud, Loaded
<1>13. PICK s : s = todo'
  OBVIOUS
<1>14. s = <<v>>
  BY <1>8, <1>13
<1>15. BudLaw'
  BY BudGrows, PTL
<1>16. \A l, x, t : Bud(l, x)' /\ t = <<x>> /\ todo' = t => TreeOk'
  BY <1>15 DEF BudLaw
<1>17. TreeOk'
  BY <1>12, <1>13, <1>14, <1>16
<1> QED BY <1>9, <1>17

(* Before a layout is expanded there is neither a stack nor a binding.         *)
TreeInv ==
    /\ doc = <<>> => todo = <<>> /\ bound = None
    /\ doc # <<>> => TreeOk

(* Steps of the other parts leave the tree alone.                              *)
LEMMA TreeOkSame == TreeOk /\ UNCHANGED expansionVars => TreeOk'
<1> SUFFICES ASSUME TreeOk, UNCHANGED expansionVars PROVE TreeOk'
  OBVIOUS
<1>1. UNCHANGED <<doc, bound, tree, todo, sendparams>> /\ Steady
  BY SteadySame DEF expansionVars
<1>2. PICK s : s = todo
  OBVIOUS
<1>3. StackOk(s) /\ todo' = s
  BY <1>1, <1>2 DEF TreeOk
<1>4. \A n \in DOMAIN tree : Debt(s, n, tree[n].el, Open(n)) = Debt(todo, n, tree[n].el, Open(n))
  BY <1>2
<1>5. s # <<>> => todo # <<>> /\ sendparams' = sendparams
  BY <1>1, <1>2
<1>6. ASSUME NEW n \in DOMAIN tree, n # Root /\ (HasSent(n) \/ \E x \in ToSet(todo) : OwnBody(x, n))
      PROVE  HasSent(n)' \/ \E x \in ToSet(s) : OwnBody(x, n)
  <2>1. HasSent(n)' <=> HasSent(n)
    BY <1>1, SentStays
  <2> QED BY <1>2, <1>6, <2>1
<1> QED BY <1>1, <1>3, <1>4, <1>5, <1>6, SteadyStep

(* Each step of the Expander keeps the invariant.                              *)
LEMMA ExpanderTree == TreeOk /\ CallsInv /\ ExpanderStep => TreeOk' /\ doc' = doc
<1> SUFFICES ASSUME TreeOk, CallsInv, ExpanderStep PROVE TreeOk' /\ doc' = doc
  OBVIOUS
<1>1. CASE EndLoop
  BY <1>1, EndLoopTree DEF EndLoop
<1>2. CASE VisitInstance
  BY <1>2, InFlightTree, InstanceTree DEF VisitInstance
<1>3. CASE ApplyInherit
  BY <1>3, ApplyInheritTree DEF ApplyInherit
<1>4. CASE EnterBody
  BY <1>4, EnterBodyTree DEF EnterBody
<1>5. CASE InjectContent
  BY <1>5, InjectContentTree DEF InjectContent
<1>6. CASE LeaveGroup
  BY <1>6, LeaveGroupTree DEF LeaveGroup
<1>7. CASE VisitPlain
  BY <1>7, PlainTree DEF VisitPlain
<1> QED BY <1>1, <1>2, <1>3, <1>4, <1>5, <1>6, <1>7 DEF ExpanderStep

(* Every step keeps it.                                                        *)
LEMMA TreeStep ==
    ASSUME TreeInv, CallsInv, skin \in Skins, FilesAreSpliced, [Next]_vars
    PROVE  TreeInv'
<1>1. ASSUME UNCHANGED expansionVars PROVE TreeInv'
  BY <1>1, TreeOkSame DEF TreeInv, expansionVars
<1>2. CASE ExpandLayout
  BY <1>2, ExpandLayoutTree DEF TreeInv, ExpandLayout
<1>3. ASSUME ExpanderStep PROVE TreeInv'
  <2>1. todo # <<>>
    BY <1>3 DEF ExpanderStep, EndLoop, VisitInstance, ApplyInherit, EnterBody, InjectContent, LeaveGroup,
                VisitPlain, Visiting, Running
  <2>2. doc # <<>> /\ TreeOk
    BY <2>1 DEF TreeInv
  <2>3. TreeOk' /\ doc' = doc
    BY <1>3, <2>2, ExpanderTree
  <2> QED BY <2>2, <2>3 DEF TreeInv
<1>4. CASE LoadScripts
  <2>1. doc # <<>> /\ doc' = doc
    BY <1>4 DEF LoadScripts
  <2> QED BY <1>4, <2>1, LoadScriptsTree DEF TreeInv
<1>5. CASE Paging
  <2>1. PICK n \in DOMAIN tree, name \in GroupIds : SetGroupId(n, name)
    BY <1>5 DEF Paging
  <2>2. doc # <<>> /\ doc' = doc
    BY <2>1 DEF SetGroupId, TreeInv, Loaded
  <2> QED BY <2>1, <2>2, SetGroupIdTree DEF TreeInv
<1>6. CASE ResolvePage
  <2>1. doc # <<>> /\ doc' = doc
    BY <1>6 DEF ResolvePage, TreeInv, Loaded
  <2> QED BY <1>6, <2>1, ResolvePageTree DEF TreeInv
<1>7. CASE MakeFrame
  BY <1>3, <1>7 DEF MakeFrame, ExpanderStep
<1> QED BY <1>1, <1>2, <1>3, <1>4, <1>5, <1>6, <1>7
        DEF Next, vars, Parse, Expand, Script, Paint

(* When the stack is empty every widget has all that it unfolds to: nothing is *)
(* owed.                                                                       *)
LEMMA TreeUnfolds == TreeInv => TreeIsTheUnfolding
<1> SUFFICES ASSUME TreeInv, doc # <<>>, todo = <<>>, NEW n \in DOMAIN tree
             PROVE  /\ Cardinality(Children(n)) = Len(Unfolding(n))
                    /\ \A m \in Children(n) : tree[m].el = Unfolding(n)[Nth(m)]
                    /\ n # Root => HasSent(n)
  BY DEF TreeIsTheUnfolding
<1>1. TreeOk
  BY DEF TreeInv
<1> DEFINE u == Unfolding(n)
           ch == Children(n)
<1>2. Grown(n, <<>>)
  <2>1. Debt(todo, n, tree[n].el, Open(n)) = <<>>
    BY DebtNil
  <2> QED BY <1>1, <2>1 DEF TreeOk, Growths
<1>3. PICK c \in Seq(Elements) :
         /\ Cardinality(ch) = Len(c)
         /\ \A m \in ch : Nth(m) \in 1 .. Len(c) /\ tree[m].el = c[Nth(m)]
         /\ c \o <<>> = u
  BY <1>2 DEF Grown
<1> HIDE DEF u, ch
<1>4. c = u
  BY <1>3
<1>5. n # Root => HasSent(n)
  <2>1. ToSet(todo) = {}
    BY DEF ToSet
  <2> QED BY <1>1, <2>1 DEF TreeOk, Claims
<1> QED BY <1>3, <1>4, <1>5 DEF u, ch

(* Whatever groupdefs, xui tags, content, frames, pages and sendparams a skin     *)
(* has, the tree of a layout is what its elements unfold to once nothing is left  *)
(* on the Expander's stack (TreeIsTheUnfolding): every widget has the children    *)
(* its element, the body of its groupdef, what that inherits and what is injected *)
(* into it say, in document order and each once, except those whose name is open  *)
(* around it; and it has what the sendparams for its instance say (visit(),       *)
(* applyInherit() and injectContent() of Layout.cpp, and the page change of       *)
(* groupxfades).                                                                  *)
THEOREM SkinUnfolds == Spec => []TreeIsTheUnfolding
<1>1. Init => TreeInv /\ ReadsOn
  BY ParserBegins DEF Init, ExpansionInit, TreeInv
<1>2. ReadsOn => skin \in Skins /\ FilesAreSpliced
  BY ParserSplices DEF ReadsOn, Knows
<1>3. TreeInv /\ CallsInv /\ ReadsOn /\ [Next]_vars => TreeInv'
  BY <1>2, TreeStep
<1>4. Spec => []ReadsOn
  <2>1. ReadsOn /\ [Next]_vars => ReadsOn'
    <3> SUFFICES ASSUME ReadsOn, [Next]_vars
                 PROVE  ReadsOn'
      OBVIOUS
    <3>1. ParserStep \/ UNCHANGED parserVars
      BY DEF Next, vars, Parse, MakeFrame, Expand, Script, Paint
    <3> QED BY <3>1, ParserReads
  <2> QED BY <1>1, <2>1, PTL DEF Spec
<1> QED BY <1>1, <1>3, <1>4, CallsAlways, TreeUnfolds, PTL DEF Spec
===============================================================================
