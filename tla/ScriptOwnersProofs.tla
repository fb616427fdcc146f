------------------------- MODULE ScriptOwnersProofs -------------------------
(* Proofs about the scripts of a layout, for any skin: those that the parser noted *)
(* are those of the document, each with the scope around it; the widgets are made *)
(* of the document's elements; and every instance is given its own.               *)
EXTENDS LayoutTreeProofs

-----------------------------------------------------------------------------
(* The scripts of a text, found along paths.                                      *)

(* What holds at the start of all paths, and one step further, holds of them all. *)
LEMMA PathInduction ==
    ASSUME NEW P, <<>> \in P, \A path \in Seq(Nat), i \in Nat : path \in P => Append(path, i) \in P
    PROVE  Seq(Nat) \subseteq P
<1> DEFINE S == {n \in Nat : \A q \in Seq(Nat) : Len(q) = n => q \in P}
<1>1. 0 \in S
  <2>1. ASSUME NEW q \in Seq(Nat), Len(q) = 0 PROVE q = <<>>
    BY <2>1
  <2> QED BY <2>1
<1>2. ASSUME NEW n \in Nat, n \in S PROVE n + 1 \in S
  <2>1. ASSUME NEW q \in Seq(Nat), Len(q) = n + 1 PROVE q \in P
    <3> DEFINE f == SubSeq(q, 1, n)
               i == q[n + 1]
    <3>1. f \in Seq(Nat) /\ Len(f) = n /\ i \in Nat
      BY <2>1
    <3>2. q = Append(f, i)
      BY <2>1, <3>1
    <3> HIDE DEF f, i
    <3>3. f \in P
      BY <1>2, <3>1
    <3> QED BY <3>1, <3>2, <3>3
  <2> QED BY <2>1
<1>3. Nat \subseteq S
  <2> HIDE DEF S
  <2> QED BY <1>1, <1>2, NatSet
<1>4. \A q \in Seq(Nat) : Len(q) \in Nat
  OBVIOUS
<1> QED BY <1>3, <1>4

(* The texts along a path do not depend on the scope around it, and the scopes    *)
(* only as long as the path enters none.                                          *)
LEMMA SameText ==
    ASSUME NEW L, \A e \in L : e.kids \in Seq(L), NEW text \in Seq(L), NEW scope
    PROVE  \A path \in Seq(Nat) :
              LET in  == Descend(text, scope, path)
                  out == Descend(text, None, path)
              IN  in.els = out.els /\ in.scope = IF out.scope = None THEN scope ELSE out.scope
<1> DEFINE Same(path) ==
              LET in  == Descend(text, scope, path)
                  out == Descend(text, None, path)
              IN  in.els = out.els /\ in.scope = IF out.scope = None THEN scope ELSE out.scope
           P == {path \in Seq(Nat) : Same(path)}
<1>1. <<>> \in P
  <2> DEFINE none == <<>>
             c == [els |-> text, scope |-> scope]
             d == [els |-> text, scope |-> None]
  <2>1. 0 \in Nat /\ none \in Seq(Nat)
    OBVIOUS
  <2>2. Descend(text, scope, none) = c /\ Descend(text, None, none) = d
    BY <2>1, DescendFurther
  <2> HIDE DEF none
  <2>3. Same(none)
    BY <2>2
  <2> QED BY <2>1, <2>3 DEF none
<1>2. ASSUME NEW path \in Seq(Nat), NEW i \in Nat, path \in P PROVE Append(path, i) \in P
  <2> DEFINE in == Descend(text, scope, path)
             out == Descend(text, None, path)
             next == Append(path, i)
  <2>1. Descend(text, scope, next) = Into(in, i) /\ Descend(text, None, next) = Into(out, i)
    BY DescendFurther
  <2>2. in.els = out.els /\ in.scope = IF out.scope = None THEN scope ELSE out.scope
    BY <1>2
  <2> HIDE DEF in, out
  <2>3. \A el : IsScope(el) => el.id # None
    BY DEF IsScope
  <2>4. /\ Into(in, i).els = Into(out, i).els
        /\ Into(in, i).scope = IF Into(out, i).scope = None THEN scope ELSE Into(out, i).scope
    BY <2>2, <2>3 DEF Into
  <2>5. next \in Seq(Nat)
    OBVIOUS
  <2> HIDE DEF next
  <2>6. Same(next)
    BY <2>1, <2>4
  <2> QED BY <2>5, <2>6 DEF next
<1> HIDE DEF P
<1>3. Seq(Nat) \subseteq P
  BY <1>1, <1>2, PathInduction
<1> QED BY <1>3 DEF P

(* The same as a law for all texts of such elements.                              *)
LEMMA Descends ==
    ASSUME NEW L, \A e \in L : e.kids \in Seq(L)
    PROVE  \A text \in Seq(L) : \A scope : \A path \in Seq(Nat) : \A i \in Nat :
              Descend(text, scope, Append(path, i)) = Into(Descend(text, scope, path), i)
BY DescendFurther

(* A path on is a path from where it goes on.                                     *)
LEMMA DescendOn ==
    ASSUME NEW L, \A e \in L : e.kids \in Seq(L), NEW text \in Seq(L), NEW scope,
           NEW path \in Seq(Nat), NEW i \in Nat
    PROVE  \A q \in Seq(Nat) :
              LET at == Into(Descend(text, scope, path), i)
              IN  Descend(text, scope, Append(path, i) \o q) = Descend(at.els, at.scope, q)
<1> DEFINE from == Append(path, i)
           at == Into(Descend(text, scope, path), i)
           P == {q \in Seq(Nat) : Descend(text, scope, from \o q) = Descend(at.els, at.scope, q)}
<1>0. \A t \in Seq(L) : \A c : \A p \in Seq(Nat) : \A n \in Nat :
         Descend(t, c, Append(p, n)) = Into(Descend(t, c, p), n)
  BY Descends
<1>1. from \in Seq(Nat)
  OBVIOUS
<1>2. Descend(text, scope, from) = at /\ at.els \in Seq(L)
  <2>1. Descend(text, scope, Append(path, i)) = Into(Descend(text, scope, path), i)
    <3> HIDE DEF P
    <3> QED BY DescendFurther
  <2>3. Descend(text, scope, from) = at
    BY <2>1
  <2> HIDE DEF at
  <2>2. Descend(text, scope, from).els \in Seq(L)
    BY <1>1, DescendFurther
  <2> QED BY <2>2, <2>3
<1>3. at = [els |-> at.els, scope |-> at.scope]
  BY DEF Into
<1> HIDE DEF from, at
<1>4. <<>> \in P
  <2> DEFINE none == <<>>
  <2>1. 0 \in Nat /\ none \in Seq(Nat) /\ from \o none = from
    BY <1>1
  <2>2. Descend(at.els, at.scope, none) = [els |-> at.els, scope |-> at.scope]
    BY <1>2, <2>1, DescendFurther
  <2> HIDE DEF none
  <2>3. Descend(text, scope, from \o none) = Descend(at.els, at.scope, none)
    BY <1>2, <1>3, <2>1, <2>2
  <2> QED BY <2>1, <2>3 DEF none
<1>5. ASSUME NEW q \in Seq(Nat), NEW j \in Nat, q \in P PROVE Append(q, j) \in P
  <2> DEFINE on == from \o q
             a == at.els
             b == at.scope
  <2>1. from \o Append(q, j) = Append(on, j) /\ on \in Seq(Nat) /\ Append(q, j) \in Seq(Nat)
    BY <1>1
  <2>2. Descend(text, scope, on) = Descend(a, b, q)
    BY <1>5
  <2>6. on \in Seq(Nat)
    BY <2>1
  <2> HIDE DEF on, a, b, P
  <2>3. Descend(text, scope, Append(on, j)) = Into(Descend(text, scope, on), j)
    BY <2>6, <1>0, Zenon
  <2>4. Descend(a, b, Append(q, j)) = Into(Descend(a, b, q), j)
    <3>1. a \in Seq(L)
      BY <1>2 DEF a
    <3> QED BY <3>1, <1>0, Zenon
  <2>5. Descend(text, scope, from \o Append(q, j)) = Descend(a, b, Append(q, j))
    BY <2>1, <2>2, <2>3, <2>4
  <2> QED BY <2>1, <2>5 DEF a, b, P
<1> HIDE DEF P
<1>6. Seq(Nat) \subseteq P
  BY <1>4, <1>5, PathInduction
<1> QED BY <1>6 DEF P, from, at

(* From an empty text paths lead nowhere.                                         *)
LEMMA DescendNowhere ==
    ASSUME NEW scope
    PROVE  \A q \in Seq(Nat) : Descend(<<>>, scope, q).els = <<>>
<1> DEFINE nil == <<>>
           P == {q \in Seq(Nat) : Descend(nil, scope, q).els = <<>>}
           L == {}
<1>0. nil \in Seq(L) /\ \A e \in L : e.kids \in Seq(L)
  OBVIOUS
<1>1. <<>> \in P
  <2> DEFINE none == <<>>
  <2>1. 0 \in Nat /\ none \in Seq(Nat)
    OBVIOUS
  <2> HIDE DEF nil, L
  <2>2. Descend(nil, scope, none) = [els |-> nil, scope |-> scope]
    BY <1>0, <2>1, DescendFurther
  <2> HIDE DEF none
  <2>3. Descend(nil, scope, none).els = <<>>
    BY <2>2 DEF nil
  <2> QED BY <2>1, <2>3 DEF none
<1>2. ASSUME NEW q \in Seq(Nat), NEW j \in Nat, q \in P PROVE Append(q, j) \in P
  <2> DEFINE at == Descend(nil, scope, q)
  <2>1. at.els = <<>>
    BY <1>2
  <2>2. Descend(nil, scope, Append(q, j)) = Into(at, j)
    <3> HIDE DEF nil, L
    <3> QED BY <1>0, DescendFurther
  <2> HIDE DEF at, nil
  <2>3. Into(at, j).els = <<>>
    BY <2>1 DEF Into, Bare
  <2>4. Append(q, j) \in Seq(Nat)
    OBVIOUS
  <2> QED BY <2>2, <2>3, <2>4
<1> HIDE DEF P
<1>3. Seq(Nat) \subseteq P
  BY <1>1, <1>2, PathInduction
<1> QED BY <1>3 DEF P

(* What is gathered going down every path: own at each place, and at those below. *)
Gathers(gathered, places, own) ==
    \A path \in Seq(Nat) : \A x :
        x \in gathered[path] <=>
            \E i \in places[path] : x \in own[path][i] \/ x \in gathered[Append(path, i)]

Ranked(places, rank) ==
    /\ rank \in [Seq(Nat) -> Nat]
    /\ \A path \in Seq(Nat) : \A i \in places[path] : i \in Nat /\ rank[Append(path, i)] < rank[path]
    /\ \A path \in Seq(Nat), i \in Nat : i \notin places[path] => places[Append(path, i)] = {}

GathersAll(got, places, own) ==
    \A x : x \in got <=> \E path \in Seq(Nat) : \E i \in places[path] : x \in own[path][i]

(* What is gathered at all paths is what some path has.                           *)
LEMMA Gathered ==
    ASSUME NEW places, NEW own, NEW gathered, NEW rank, Ranked(places, rank),
           Gathers(gathered, places, own)
    PROVE  GathersAll(gathered[<<>>], places, own)
<1> USE DEF Ranked, GathersAll
<1> DEFINE none == <<>>
<1>0. none \in Seq(Nat)
  OBVIOUS
<1> SUFFICES ASSUME NEW x
             PROVE  x \in gathered[none] <=>
                        \E path \in Seq(Nat) : \E i \in places[path] : x \in own[path][i]
  OBVIOUS
<1> DEFINE Found == \E path \in Seq(Nat) : \E i \in places[path] : x \in own[path][i]
           P == {path \in Seq(Nat) : x \in gathered[path] => Found}
           Q == {path \in Seq(Nat) : places[path] # {} /\ x \in gathered[path] => x \in gathered[none]}
<1>1. Seq(Nat) \subseteq P
  <2> DEFINE Dom == Seq(Nat)
  <2>1. ASSUME NEW path \in Dom, \A y \in Dom : rank[y] < rank[path] => y \in P PROVE path \in P
    <3> SUFFICES ASSUME x \in gathered[path] PROVE Found
      BY <2>1
    <3>1. PICK i \in places[path] : x \in own[path][i] \/ x \in gathered[Append(path, i)]
      BY DEF Gathers
    <3>2. i \in Nat /\ rank[Append(path, i)] < rank[path] /\ Append(path, i) \in Dom
      <4>1. i \in Nat
        OBVIOUS
      <4> QED BY <4>1
    <3>3. CASE x \in own[path][i]
      BY <3>3
    <3>4. CASE x \in gathered[Append(path, i)]
      BY <2>1, <3>2, <3>4
    <3> QED BY <3>1, <3>3, <3>4
  <2> HIDE DEF P
  <2>2. rank \in [Dom -> Nat]
    OBVIOUS
  <2> HIDE DEF Dom
  <2>3. Dom \subseteq P
    BY <2>1, <2>2, RankedInduction
  <2> QED BY <2>3 DEF Dom
<1>2. Seq(Nat) \subseteq Q
  <2>1. <<>> \in Q
    BY <1>0
  <2>2. ASSUME NEW path \in Seq(Nat), NEW i \in Nat, path \in Q PROVE Append(path, i) \in Q
    <3> DEFINE next == Append(path, i)
    <3>1. next \in Seq(Nat)
      OBVIOUS
    <3> SUFFICES ASSUME places[next] # {}, x \in gathered[next] PROVE x \in gathered[none]
      BY <3>1
    <3>2. i \in places[path]
      OBVIOUS
    <3>3. x \in gathered[path]
      BY <3>2 DEF Gathers
    <3> QED BY <2>2, <3>2, <3>3
  <2> HIDE DEF Q
  <2> QED BY <2>1, <2>2, PathInduction
<1>3. ASSUME Found PROVE x \in gathered[none]
  <2>1. PICK path \in Seq(Nat) : \E i \in places[path] : x \in own[path][i]
    BY <1>3
  <2>2. x \in gathered[path] /\ places[path] # {}
    BY <2>1 DEF Gathers
  <2> QED BY <1>2, <2>2
<1> QED BY <1>0, <1>1, <1>3

-----------------------------------------------------------------------------
(* The elements that paths lead to, each with the scope it is in.                 *)
Scoped(el, scope) == IF IsScope(el) THEN el.id ELSE scope
Meets(at, el, sc) == at.scope = sc /\ \E i \in DOMAIN at.els : el = at.els[i]
Reach(text, scope, el, sc) == \E path \in Seq(Nat) : Meets(Descend(text, scope, path), el, sc)

(* A path begins with a step into the text, and goes on in the kids found there.  *)
LEMMA DescendFrom ==
    ASSUME NEW L, \A e \in L : e.kids \in Seq(L), NEW text \in Seq(L), NEW scope,
           NEW i \in Nat, NEW q \in Seq(Nat)
    PROVE  /\ i \in DOMAIN text =>
                  Descend(text, scope, <<i>> \o q) = Descend(text[i].kids, Scoped(text[i], scope), q)
           /\ i \notin DOMAIN text => Descend(text, scope, <<i>> \o q).els = <<>>
<1> DEFINE none == <<>>
           from == Append(none, i)
<1>1. none \in Seq(Nat) /\ from = <<i>> /\ 0 \in Nat
  OBVIOUS
<1> HIDE DEF none
<1>2. Descend(text, scope, none) = [els |-> text, scope |-> scope]
  <2>1. Descend(text, scope, <<>>) = [els |-> text, scope |-> scope]
    BY <1>1, DescendFurther
  <2> QED BY <2>1 DEF none
<1>3. PICK at : at = Into(Descend(text, scope, none), i)
  OBVIOUS
<1>4. Descend(text, scope, from \o q) = Descend(at.els, at.scope, q)
  <2>1. \A p \in Seq(Nat) :
           Descend(text, scope, Append(none, i) \o p)
             = Descend(Into(Descend(text, scope, none), i).els, Into(Descend(text, scope, none), i).scope, p)
    <3>1. none \in Seq(Nat)
      BY <1>1
    <3> HIDE DEF from
    <3> QED BY <3>1, DescendOn
  <2> QED BY <2>1, <1>3
<1>5. ASSUME i \in DOMAIN text
      PROVE  Descend(text, scope, <<i>> \o q) = Descend(text[i].kids, Scoped(text[i], scope), q)
  <2>1. at.els = text[i].kids /\ at.scope = Scoped(text[i], scope)
    <3> HIDE DEF from
    <3> QED BY <1>2, <1>3, <1>5 DEF Into, Scoped
  <2> QED BY <1>1, <1>4, <2>1
<1>6. ASSUME i \notin DOMAIN text
      PROVE  Descend(text, scope, <<i>> \o q).els = <<>>
  <2>1. at.els = <<>>
    <3> HIDE DEF from
    <3> QED BY <1>2, <1>3, <1>6 DEF Into, Bare
  <2>2. Descend(<<>>, at.scope, q).els = <<>>
    BY DescendNowhere
  <2>3. Descend(text, scope, from \o q) = Descend(<<>>, at.scope, q)
    BY <1>4, <2>1
  <2> QED BY <1>1, <2>2, <2>3
<1> QED BY <1>5, <1>6

(* From an element of the text, so the path goes on in its kids.                  *)
GoesInto(text, scope, i, q) ==
    Descend(text, scope, <<i>> \o q) = Descend(text[i].kids, Scoped(text[i], scope), q)

(* It does.                                                                       *)
LEMMA GoingInto ==
    ASSUME NEW L, \A e \in L : e.kids \in Seq(L), NEW text \in Seq(L), NEW scope,
           NEW i \in DOMAIN text, NEW q \in Seq(Nat)
    PROVE  GoesInto(text, scope, i, q)
<1>1. i \in Nat
  OBVIOUS
<1>2. Descend(text, scope, <<i>> \o q) = Descend(text[i].kids, Scoped(text[i], scope), q)
  BY <1>1, DescendFrom
<1> QED BY <1>2 DEF GoesInto

(* What is reached is in the text, or is reached from the kids of what is in it.  *)
LEMMA ReachFirst ==
    ASSUME NEW L, \A e \in L : e.kids \in Seq(L), NEW text \in Seq(L), NEW scope, NEW el, NEW sc
    PROVE  Reach(text, scope, el, sc) <=>
              \E i \in DOMAIN text : \/ el = text[i] /\ sc = scope
                                     \/ Reach(text[i].kids, Scoped(text[i], scope), el, sc)
<1> DEFINE none == <<>>
<1>0. none \in Seq(Nat) /\ DOMAIN text \subseteq Nat
  OBVIOUS
<1>1. Descend(text, scope, none) = [els |-> text, scope |-> scope]
  <2>1. 0 \in Nat
    OBVIOUS
  <2> QED BY <1>0, <2>1, DescendFurther
<1>2. Meets(Descend(text, scope, none), el, sc) <=> sc = scope /\ \E i \in DOMAIN text : el = text[i]
  BY <1>1 DEF Meets
<1>3. ASSUME Reach(text, scope, el, sc)
      PROVE  \E i \in DOMAIN text : \/ el = text[i] /\ sc = scope
                                    \/ Reach(text[i].kids, Scoped(text[i], scope), el, sc)
  <2>1. PICK path \in Seq(Nat) : Meets(Descend(text, scope, path), el, sc)
    BY <1>3 DEF Reach
  <2>2. CASE path = none
    BY <1>2, <2>1, <2>2
  <2>3. CASE path # none
    <3>1. path = <<path[1]>> \o Tail(path) /\ path[1] \in Nat /\ Tail(path) \in Seq(Nat)
      <4>1. path # <<>>
        BY <2>3
      <4> QED BY <4>1, FirstAndRest
    <3>2. PICK i \in Nat : i = path[1]
      BY <3>1
    <3>3. PICK q \in Seq(Nat) : q = Tail(path)
      BY <3>1
    <3>4. Meets(Descend(text, scope, <<i>> \o q), el, sc)
      BY <2>1, <3>1, <3>2, <3>3
    <3>5. CASE i \in DOMAIN text
      <4>1. PICK at : at = Descend(text, scope, <<i>> \o q)
        OBVIOUS
      <4>2. at = Descend(text[i].kids, Scoped(text[i], scope), q)
        <5>1. GoesInto(text, scope, i, q)
          BY <3>5, GoingInto
        <5> QED BY <4>1, <5>1 DEF GoesInto
      <4>3. Meets(Descend(text[i].kids, Scoped(text[i], scope), q), el, sc)
        BY <3>4, <4>1, <4>2
      <4> QED BY <3>5, <4>3 DEF Reach
    <3>6. CASE i \notin DOMAIN text
      <4>1. PICK at : at = Descend(text, scope, <<i>> \o q)
        OBVIOUS
      <4>2. at.els = <<>>
        BY <3>6, <4>1, DescendFrom
      <4>3. DOMAIN at.els = {}
        BY <4>2
      <4> QED BY <3>4, <4>1, <4>3 DEF Meets
    <3> QED BY <3>5, <3>6
  <2> QED BY <2>2, <2>3
<1>4. ASSUME NEW i \in DOMAIN text, el = text[i], sc = scope
      PROVE  Reach(text, scope, el, sc)
  BY <1>0, <1>2, <1>4 DEF Reach
<1>5. ASSUME NEW i \in DOMAIN text, Reach(text[i].kids, Scoped(text[i], scope), el, sc)
      PROVE  Reach(text, scope, el, sc)
  <2>1. PICK q \in Seq(Nat) : Meets(Descend(text[i].kids, Scoped(text[i], scope), q), el, sc)
    BY <1>5 DEF Reach
  <2>2. Descend(text, scope, <<i>> \o q) = Descend(text[i].kids, Scoped(text[i], scope), q)
    BY <1>0, DescendFrom
  <2>3. <<i>> \o q \in Seq(Nat)
    BY <1>0
  <2> QED BY <2>1, <2>2, <2>3 DEF Reach
<1> QED BY <1>3, <1>4, <1>5

(* The scope around a text matters only where there is none on the way.           *)
LEMMA ReachIn ==
    ASSUME NEW L, \A e \in L : e.kids \in Seq(L), NEW text \in Seq(L), NEW scope, NEW el, NEW sc
    PROVE  Reach(text, scope, el, sc) <=>
              \E out : Reach(text, None, el, out) /\ sc = IF out = None THEN scope ELSE out
<1>1. ASSUME NEW path \in Seq(Nat), NEW in, in = Descend(text, scope, path),
             NEW out, out = Descend(text, None, path)
      PROVE  in.els = out.els /\ in.scope = IF out.scope = None THEN scope ELSE out.scope
  BY <1>1, SameText
<1>2. ASSUME Reach(text, scope, el, sc)
      PROVE  \E out : Reach(text, None, el, out) /\ sc = IF out = None THEN scope ELSE out
  <2>1. PICK path \in Seq(Nat) : Meets(Descend(text, scope, path), el, sc)
    BY <1>2 DEF Reach
  <2>2. PICK in : in = Descend(text, scope, path)
    OBVIOUS
  <2>3. PICK out : out = Descend(text, None, path)
    OBVIOUS
  <2>4. Meets(out, el, out.scope) /\ sc = IF out.scope = None THEN scope ELSE out.scope
    BY <1>1, <2>1, <2>2, <2>3 DEF Meets
  <2> QED BY <2>3, <2>4 DEF Reach
<1>3. ASSUME NEW o, Reach(text, None, el, o), sc = IF o = None THEN scope ELSE o
      PROVE  Reach(text, scope, el, sc)
  <2>1. PICK path \in Seq(Nat) : Meets(Descend(text, None, path), el, o)
    BY <1>3 DEF Reach
  <2>2. PICK in : in = Descend(text, scope, path)
    OBVIOUS
  <2>3. PICK out : out = Descend(text, None, path)
    OBVIOUS
  <2>4. Meets(in, el, sc)
    BY <1>1, <1>3, <2>1, <2>2, <2>3 DEF Meets
  <2> QED BY <2>2, <2>4 DEF Reach
<1> QED BY <1>2, <1>3

(* What is reached from the kids of what is reached is reached.                   *)
LEMMA ReachOn ==
    ASSUME NEW L, \A e \in L : e.kids \in Seq(L), NEW text \in Seq(L), NEW scope,
           NEW top, NEW in, Reach(text, scope, top, in),
           NEW el, NEW sc, Reach(top.kids, Scoped(top, in), el, sc)
    PROVE  Reach(text, scope, el, sc)
<1>1. PICK path \in Seq(Nat) : Meets(Descend(text, scope, path), top, in)
  BY DEF Reach
<1>2. PICK at : at = Descend(text, scope, path)
  OBVIOUS
<1>3. at.els \in Seq(L)
  <2>1. 0 \in Nat
    OBVIOUS
  <2> QED BY <1>2, <2>1, DescendFurther
<1>4. PICK i \in DOMAIN at.els : top = at.els[i] /\ at.scope = in
  BY <1>1, <1>2 DEF Meets
<1>5. i \in Nat
  BY <1>3
<1>6. Into(at, i).els = top.kids /\ Into(at, i).scope = Scoped(top, in)
  BY <1>4 DEF Into, Scoped
<1>7. PICK q \in Seq(Nat) : Meets(Descend(top.kids, Scoped(top, in), q), el, sc)
  BY DEF Reach
<1>8. \A p \in Seq(Nat) :
         Descend(text, scope, Append(path, i) \o p)
           = Descend(Into(Descend(text, scope, path), i).els, Into(Descend(text, scope, path), i).scope, p)
  BY <1>5, DescendOn
<1>9. Descend(text, scope, Append(path, i) \o q) = Descend(top.kids, Scoped(top, in), q)
  BY <1>2, <1>6, <1>8
<1>10. Append(path, i) \o q \in Seq(Nat)
  BY <1>5
<1> QED BY <1>7, <1>9, <1>10 DEF Reach

-----------------------------------------------------------------------------
(* The scripts of a text: those of the elements that paths lead to.               *)
Refs(L, scope) == [file : {e.of : e \in L}, owner : {scope, None} \cup {e.id : e \in L}]

NotedAt(f, text, scope, path) ==
    [i \in DOMAIN Descend(text, scope, path).els |->
        f[Append(path, i)] \o Noted(Descend(text, scope, path).els[i], Descend(text, scope, path).scope)]

(* What is noted of an element is a reference with its owner.                     *)
LEMMA NotedFacts ==
    ASSUME NEW L, NEW scope, NEW el \in L, NEW owner \in {scope, None} \cup {e.id : e \in L}
    PROVE  /\ Noted(el, owner) \in Seq(Refs(L, scope))
           /\ \A r : r \in ToSet(Noted(el, owner)) <=>
                        el.tag = "script" /\ el.of # None /\ r = [file |-> el.of, owner |-> owner]
<1> DEFINE r0 == [file |-> el.of, owner |-> owner]
<1>1. r0 \in Refs(L, scope)
  BY DEF Refs
<1> HIDE DEF r0
<1>2. <<r0>> \in Seq(Refs(L, scope)) /\ ToSet(<<r0>>) = {r0} /\ <<>> \in Seq(Refs(L, scope)) /\ ToSet(<<>>) = {}
  BY <1>1 DEF ToSet
<1>3. Noted(el, owner) = IF el.tag = "script" /\ el.of # None THEN <<r0>> ELSE <<>>
  BY DEF Noted, r0
<1> QED BY <1>2, <1>3 DEF r0

(* The spot a path leads to.                                                      *)
LEMMA SpotFacts ==
    ASSUME NEW L, \A e \in L : e.kids \in Seq(L), NEW text \in Seq(L), NEW scope,
           NEW path \in Seq(Nat)
    PROVE  /\ Descend(text, scope, path).els \in Seq(L)
           /\ Descend(text, scope, path).scope \in {scope, None} \cup {e.id : e \in L}
<1>1. PICK at : Walked(at, L, text, scope, path)
  BY DescendWalks
<1>2. Len(path) \in 0 .. Len(path)
  OBVIOUS
<1>3. Descend(text, scope, path) \in Spot0(L, scope)
  BY <1>1, <1>2 DEF Walked
<1> QED BY <1>3 DEF Spot0

(* Each piece is a sequence of references, and has what is noted of an element    *)
(* and what comes from below it.                                                  *)
LEMMA NotedAtSeq ==
    ASSUME NEW L, \A e \in L : e.kids \in Seq(L), NEW text \in Seq(L), NEW scope,
           NEW path \in Seq(Nat), NEW f,
           \A i \in DOMAIN Descend(text, scope, path).els : f[Append(path, i)] \in Seq(Refs(L, scope))
    PROVE  /\ FlattenSeq(NotedAt(f, text, scope, path)) \in Seq(Refs(L, scope))
           /\ \A r : r \in ToSet(FlattenSeq(NotedAt(f, text, scope, path))) <=>
                 \E i \in DOMAIN Descend(text, scope, path).els :
                    \/ r \in ToSet(Noted(Descend(text, scope, path).els[i], Descend(text, scope, path).scope))
                    \/ r \in ToSet(f[Append(path, i)])
<1> DEFINE T == Refs(L, scope)
<1>1. PICK at : at = Descend(text, scope, path)
  OBVIOUS
<1>2. at.els \in Seq(L) /\ at.scope \in {scope, None} \cup {e.id : e \in L}
  BY <1>1, SpotFacts
<1>3. PICK g : g = [i \in DOMAIN at.els |-> f[Append(path, i)]]
  OBVIOUS
<1>4. PICK h : h = [i \in DOMAIN at.els |-> Noted(at.els[i], at.scope)]
  OBVIOUS
<1>5. PICK seqs : seqs = [i \in DOMAIN at.els |-> g[i] \o h[i]]
  OBVIOUS
<1>6. NotedAt(f, text, scope, path) = seqs
  BY <1>1, <1>3, <1>4, <1>5 DEF NotedAt
<1>7. ASSUME NEW i \in DOMAIN at.els
      PROVE  g[i] \in Seq(T) /\ h[i] \in Seq(T)
  <2>1. at.els[i] \in L
    BY <1>2
  <2>2. Noted(at.els[i], at.scope) \in Seq(T)
    BY <1>2, <2>1, NotedFacts
  <2> HIDE DEF T
  <2> QED BY <1>1, <1>3, <1>4, <2>2 DEF T
<1> HIDE DEF T
<1>8. ASSUME NEW i \in DOMAIN at.els
      PROVE  seqs[i] \in Seq(T) /\ ToSet(seqs[i]) = ToSet(g[i]) \cup ToSet(h[i])
  <2>1. PICK a \in Seq(T) : a = g[i]
    BY <1>7
  <2>2. PICK b \in Seq(T) : b = h[i]
    BY <1>7
  <2>3. a \o b \in Seq(T) /\ ToSet(a \o b) = ToSet(a) \cup ToSet(b)
    BY ConcatFacts
  <2>4. seqs[i] = a \o b
    BY <1>5, <2>1, <2>2
  <2> QED BY <2>1, <2>2, <2>3, <2>4
<1>9. seqs \in Seq(Seq(T))
  <2>1. DOMAIN at.els = 1 .. Len(at.els) /\ Len(at.els) \in Nat
    BY <1>2
  <2>2. DOMAIN seqs = 1 .. Len(at.els) /\ seqs = [i \in 1 .. Len(at.els) |-> seqs[i]]
    BY <1>5, <2>1
  <2>3. seqs \in [1 .. Len(at.els) -> Seq(T)]
    BY <1>8, <2>1, <2>2
  <2> QED BY <2>1, <2>3, SeqDef
<1>10. /\ FlattenSeq(seqs) \in Seq(T)
       /\ ToSet(FlattenSeq(seqs)) = UNION {ToSet(seqs[i]) : i \in DOMAIN seqs}
  BY <1>9, FlattenFacts
<1>11. ASSUME NEW r
       PROVE  r \in ToSet(FlattenSeq(seqs)) <=>
                \E i \in DOMAIN at.els : \/ r \in ToSet(Noted(at.els[i], at.scope))
                                         \/ r \in ToSet(f[Append(path, i)])
  <2>1. DOMAIN seqs = DOMAIN at.els
    BY <1>5
  <2>2. r \in ToSet(FlattenSeq(seqs)) <=> \E i \in DOMAIN at.els : r \in ToSet(seqs[i])
    BY <1>10, <2>1
  <2>3. \A i \in DOMAIN at.els : ToSet(seqs[i]) = ToSet(f[Append(path, i)]) \cup ToSet(Noted(at.els[i], at.scope))
    BY <1>8, <1>3, <1>4
  <2> QED BY <2>2, <2>3, Zenon
<1> QED BY <1>1, <1>6, <1>10, <1>11 DEF T

ScriptsFrom(f, text, scope) ==
    \A path \in Seq(Nat) : f[path] = FlattenSeq(NotedAt(f, text, scope, path))

(* How far it is from a place in a text to the last below it, in any scope.       *)
LEMMA ScopedRanks ==
    ASSUME NEW s \in Skins, NEW d \in Nat, NEW text \in Seq(Leveled(s, d)), NEW scope
    PROVE  \E rank \in [Seq(Nat) -> Nat] :
              \A path \in Seq(Nat) : \A i \in DOMAIN Descend(text, scope, path).els :
                 i \in Nat /\ rank[Append(path, i)] < rank[path]
<1>1. PICK rank \in [Seq(Nat) -> Nat] :
          \A path \in Seq(Nat) :
             /\ ElementsAt(text, path) \in Seq(Leveled(s, d))
             /\ \A i \in DOMAIN ElementsAt(text, path) : rank[Append(path, i)] < rank[path]
  BY PathRanks
<1>2. \A e \in Leveled(s, d) : e.kids \in Seq(Leveled(s, d))
  BY LeveledClosed
<1>3. ASSUME NEW path \in Seq(Nat), NEW i \in DOMAIN Descend(text, scope, path).els
      PROVE  i \in Nat /\ rank[Append(path, i)] < rank[path]
  <2>1. Descend(text, scope, path).els = Descend(text, None, path).els
    BY <1>2, SameText
  <2>2. Descend(text, scope, path).els = ElementsAt(text, path)
    BY <2>1 DEF ElementsAt
  <2>3. PICK els \in Seq(Leveled(s, d)) : els = ElementsAt(text, path)
    BY <1>1
  <2>4. i \in DOMAIN els /\ DOMAIN els \subseteq Nat
    BY <1>3, <2>2, <2>3
  <2> QED BY <1>1, <2>3, <2>4
<1> QED BY <1>3

(* The scripts of a text are found by going down every path.                      *)
LEMMA ScriptsUnfold ==
    ASSUME NEW s \in Skins, NEW d \in Nat, NEW text \in Seq(Leveled(s, d)), NEW scope
    PROVE  \E f \in [Seq(Nat) -> Seq(Refs(Leveled(s, d), scope))] :
              ScriptsFrom(f, text, scope) /\ ScriptsIn(text, scope) = f[<<>>]
<1> DEFINE L == Leveled(s, d)
           V == Seq(Refs(L, scope))
           Dom == Seq(Nat)
           c == <<>>
           At(path) == Descend(text, scope, path).els
           step == [f \in [Dom -> V] |-> [path \in Dom |-> FlattenSeq(NotedAt(f, text, scope, path))]]
           Eq(f) == f = [path \in Seq(Nat) |->
                            LET at == Descend(text, scope, path)
                            IN  FlattenSeq([i \in DOMAIN at.els |->
                                    f[Append(path, i)] \o Noted(at.els[i], at.scope)])]
<1>0. \A e \in L : e.kids \in Seq(L)
  BY LeveledClosed
<1>1. PICK rank \in [Dom -> Nat] :
          \A path \in Dom : \A i \in DOMAIN At(path) : i \in Nat /\ rank[Append(path, i)] < rank[path]
  BY ScopedRanks
<1>2. ASSUME NEW path \in Dom, NEW i \in DOMAIN At(path) PROVE Append(path, i) \in Dom
  <2>1. i \in Nat
    BY <1>1
  <2> QED BY <2>1
<1>3. ASSUME NEW f, NEW path \in Dom, \A i \in DOMAIN At(path) : f[Append(path, i)] \in V
      PROVE  FlattenSeq(NotedAt(f, text, scope, path)) \in V
  <2> HIDE DEF L
  <2>1. text \in Seq(L)
    BY DEF L
  <2> QED BY <1>0, <1>3, <2>1, NotedAtSeq
<1>4. step \in [[Dom -> V] -> [Dom -> V]]
  <2>1. ASSUME NEW f \in [Dom -> V], NEW path \in Dom
        PROVE  FlattenSeq(NotedAt(f, text, scope, path)) \in V
    <3> HIDE DEF V, At
    <3>1. \A i \in DOMAIN At(path) : f[Append(path, i)] \in V
      <4> HIDE DEF Dom
      <4> QED BY <1>2
    <3> QED BY <1>3, <3>1
  <2> HIDE DEF V, Dom
  <2> QED BY <2>1
<1>5. ASSUME NEW f \in [Dom -> V], NEW g \in [Dom -> V], NEW x \in Dom, SameBelow(f, g, Dom, rank, x)
      PROVE  step[f][x] = step[g][x]
  <2>1. ASSUME NEW i \in DOMAIN At(x) PROVE f[Append(x, i)] = g[Append(x, i)]
    <3>1. Append(x, i) \in Dom /\ rank[Append(x, i)] < rank[x]
      BY <1>1, <1>2
    <3> QED BY <1>5, <3>1 DEF SameBelow
  <2>2. NotedAt(f, text, scope, x) = NotedAt(g, text, scope, x)
    BY <2>1 DEF NotedAt
  <2> HIDE DEF V, Dom
  <2> QED BY <2>2
<1>6. PICK u \in [Dom -> V] : u = step[u]
  <2>1. c \in V
    OBVIOUS
  <2>2. Localised(step, Dom, V, rank)
    <3> HIDE DEF V, Dom, step
    <3> QED BY <1>4, <1>5 DEF Localised
  <2> HIDE DEF V, Dom, c, step, L, At, Eq
  <2>5. HasFixed(step, Dom, V)
    BY <2>1, <2>2, RankedRecursion
  <2> QED BY <2>5 DEF HasFixed
<1>7. Eq(u)
  <2>1. u = [path \in Dom |-> FlattenSeq(NotedAt(u, text, scope, path))]
    <3> HIDE DEF V, Dom
    <3> QED BY <1>6
  <2> QED BY <2>1 DEF NotedAt
<1> DEFINE f == CHOOSE f : Eq(f)
<1>8. Eq(f)
  <2> HIDE DEF Eq
  <2> QED BY <1>7
<1>9. ScriptsIn(text, scope) = f[<<>>]
  BY DEF ScriptsIn
<1> HIDE DEF f
<1>10. \A path \in Dom : f[path] = FlattenSeq(NotedAt(f, text, scope, path))
  BY <1>8 DEF NotedAt
<1>11. f = [path \in Dom |-> f[path]]
  BY <1>8
<1> HIDE DEF Eq
<1> DEFINE P == {path \in Dom : f[path] \in V}
<1>12. ASSUME NEW x \in Dom, \A y \in Dom : rank[y] < rank[x] => y \in P PROVE x \in P
  <2>1. ASSUME NEW i \in DOMAIN At(x) PROVE f[Append(x, i)] \in V
    <3>1. Append(x, i) \in Dom /\ rank[Append(x, i)] < rank[x]
      BY <1>1, <1>2
    <3> QED BY <1>12, <3>1
  <2>2. FlattenSeq(NotedAt(f, text, scope, x)) \in V
    <3> HIDE DEF V, Dom, At
    <3> QED BY <1>3, <2>1
  <2> HIDE DEF V, Dom
  <2> QED BY <1>10, <2>2
<1>13. Dom \subseteq P
  <2> HIDE DEF P, Dom
  <2> QED BY <1>12, RankedInduction
<1>14. f \in [Dom -> V]
  <2> HIDE DEF V, Dom
  <2> QED BY <1>11, <1>13
<1> QED BY <1>9, <1>10, <1>14 DEF ScriptsFrom

(* Nothing is below what there is not.                                            *)
LEMMA DescendOff ==
    ASSUME NEW L, \A e \in L : e.kids \in Seq(L), NEW text \in Seq(L), NEW scope,
           NEW path \in Seq(Nat), NEW i \in Nat, i \notin DOMAIN Descend(text, scope, path).els
    PROVE  DOMAIN Descend(text, scope, Append(path, i)).els = {}
<1>1. PICK at : at = Descend(text, scope, path)
  OBVIOUS
<1>2. Descend(text, scope, Append(path, i)) = Into(at, i)
  BY <1>1, Descends
<1>3. Into(at, i).els = <<>>
  BY <1>1 DEF Into, Bare
<1> QED BY <1>2, <1>3

(* A path that is longer by one is a path.                                        *)
LEMMA AppendNat ==
    ASSUME NEW path \in Seq(Nat), NEW i \in Nat
    PROVE  Append(path, i) \in Seq(Nat)
OBVIOUS

(* What goes down all paths reaches what paths lead to: x comes of an element and *)
(* its scope as `own` says.                                                       *)
Spots(text, scope) == [path \in Seq(Nat) |-> DOMAIN Descend(text, scope, path).els]

(* So what is gathered below the beginning is of all paths.                       *)
LEMMA GatheredReach ==
    ASSUME NEW s \in Skins, NEW d \in Nat, NEW text \in Seq(Leveled(s, d)), NEW scope,
           NEW own, NEW gathered, Gathers(gathered, Spots(text, scope), own)
    PROVE  GathersAll(gathered[<<>>], Spots(text, scope), own)
<1> DEFINE L == Leveled(s, d)
           places == Spots(text, scope)
<1>0. \A e \in L : e.kids \in Seq(L)
  BY LeveledClosed
<1>1. PICK rank \in [Seq(Nat) -> Nat] :
          \A path \in Seq(Nat) : \A i \in DOMAIN Descend(text, scope, path).els :
             i \in Nat /\ rank[Append(path, i)] < rank[path]
  BY ScopedRanks
<1>3. \A path \in Seq(Nat) : places[path] = DOMAIN Descend(text, scope, path).els
  BY DEF Spots
<1>4. \A path \in Seq(Nat) : \A i \in places[path] : i \in Nat /\ rank[Append(path, i)] < rank[path]
  BY <1>1, <1>3
<1>5. ASSUME NEW path \in Seq(Nat), NEW i \in Nat, i \notin places[path] PROVE places[Append(path, i)] = {}
  <2> HIDE DEF L
  <2>1. text \in Seq(L)
    BY DEF L
  <2>2. i \notin DOMAIN Descend(text, scope, path).els
    BY <1>3, <1>5
  <2>3. DOMAIN Descend(text, scope, Append(path, i)).els = {}
    BY <1>0, <2>1, <2>2, DescendOff
  <2>4. PICK p \in Seq(Nat) : p = Append(path, i)
    BY AppendNat, Zenon
  <2> QED BY <1>3, <2>3, <2>4
<1> HIDE DEF places
<1>6. Ranked(places, rank)
  BY <1>4, <1>5 DEF Ranked
<1>7. Gathers(gathered, places, own)
  BY DEF places
<1> QED BY <1>6, <1>7, Gathered DEF places

(* The scripts of a text are what is noted of the elements that can be reached.   *)
LEMMA ScriptsReach ==
    ASSUME NEW s \in Skins, NEW d \in Nat, NEW text \in Seq(Leveled(s, d)), NEW scope, NEW r
    PROVE  r \in ToSet(ScriptsIn(text, scope)) <=>
              \E el, sc : Reach(text, scope, el, sc) /\ r \in ToSet(Noted(el, sc))
<1> DEFINE L == Leveled(s, d)
<1>0. \A e \in L : e.kids \in Seq(L)
  BY LeveledClosed
<1>1. PICK f \in [Seq(Nat) -> Seq(Refs(L, scope))] :
          ScriptsFrom(f, text, scope) /\ ScriptsIn(text, scope) = f[<<>>]
  BY ScriptsUnfold
<1>2. PICK own : own = [path \in Seq(Nat) |-> [i \in DOMAIN Descend(text, scope, path).els |->
                          ToSet(Noted(Descend(text, scope, path).els[i], Descend(text, scope, path).scope))]]
  OBVIOUS
<1>3. PICK gathered : gathered = [path \in Seq(Nat) |-> ToSet(f[path])]
  OBVIOUS
<1>4. ASSUME NEW path \in Seq(Nat), NEW i \in DOMAIN Descend(text, scope, path).els
      PROVE  Append(path, i) \in Seq(Nat)
  <2>1. text \in Seq(L)
    OBVIOUS
  <2> HIDE DEF L
  <2>2. PICK els \in Seq(L) : els = Descend(text, scope, path).els
    BY <1>0, <2>1, SpotFacts
  <2>3. i \in Nat
    BY <1>4, <2>2
  <2> QED BY <2>3
<1>5. ASSUME NEW path \in Seq(Nat), NEW x
      PROVE  x \in gathered[path] <=>
                \E i \in DOMAIN Descend(text, scope, path).els :
                    x \in own[path][i] \/ x \in gathered[Append(path, i)]
  <2>1. text \in Seq(L)
    OBVIOUS
  <2> HIDE DEF L
  <2>2. \A i \in DOMAIN Descend(text, scope, path).els : f[Append(path, i)] \in Seq(Refs(L, scope))
    BY <1>1, <1>4
  <2>3. x \in ToSet(FlattenSeq(NotedAt(f, text, scope, path))) <=>
            \E i \in DOMAIN Descend(text, scope, path).els :
                \/ x \in ToSet(Noted(Descend(text, scope, path).els[i], Descend(text, scope, path).scope))
                \/ x \in ToSet(f[Append(path, i)])
    BY <1>0, <2>1, <2>2, NotedAtSeq
  <2>4. gathered[path] = ToSet(FlattenSeq(NotedAt(f, text, scope, path)))
    BY <1>1, <1>3 DEF ScriptsFrom
  <2>5. \A i \in DOMAIN Descend(text, scope, path).els :
            /\ own[path][i] = ToSet(Noted(Descend(text, scope, path).els[i], Descend(text, scope, path).scope))
            /\ gathered[Append(path, i)] = ToSet(f[Append(path, i)])
    BY <1>2, <1>3, <1>4
  <2> QED BY <2>3, <2>4, <2>5, Zenon
<1>6. r \in gathered[<<>>] <=>
          \E path \in Seq(Nat) : \E i \in DOMAIN Descend(text, scope, path).els : r \in own[path][i]
  <2>1. \A path \in Seq(Nat) : Spots(text, scope)[path] = DOMAIN Descend(text, scope, path).els
    BY DEF Spots
  <2>2. Gathers(gathered, Spots(text, scope), own)
    <3>1. ASSUME NEW path \in Seq(Nat), NEW x
          PROVE  x \in gathered[path] <=>
                    \E i \in Spots(text, scope)[path] : x \in own[path][i] \/ x \in gathered[Append(path, i)]
      <4>1. PICK D : D = DOMAIN Descend(text, scope, path).els
        OBVIOUS
      <4>2. Spots(text, scope)[path] = D
        BY <2>1, <4>1
      <4>3. x \in gathered[path] <=> \E i \in D : x \in own[path][i] \/ x \in gathered[Append(path, i)]
        BY <1>5, <4>1
      <4> QED BY <4>2, <4>3
    <3> QED BY <3>1, Zenon DEF Gathers
  <2>3. GathersAll(gathered[<<>>], Spots(text, scope), own)
    BY <2>2, GatheredReach
  <2>4. r \in gathered[<<>>] <=>
            \E path \in Seq(Nat) : \E i \in Spots(text, scope)[path] : r \in own[path][i]
    BY <2>3, Zenon DEF GathersAll
  <2>5. ASSUME NEW path \in Seq(Nat)
        PROVE  (\E i \in Spots(text, scope)[path] : r \in own[path][i]) <=>
                  \E i \in DOMAIN Descend(text, scope, path).els : r \in own[path][i]
    <3>1. PICK D : D = DOMAIN Descend(text, scope, path).els
      OBVIOUS
    <3>2. Spots(text, scope)[path] = D
      BY <2>1, <3>1
    <3> QED BY <3>1, <3>2
  <2> QED BY <2>4, <2>5
<1>7. gathered[<<>>] = ToSet(ScriptsIn(text, scope))
  BY <1>1, <1>3
<1>8. (\E path \in Seq(Nat) : \E i \in DOMAIN Descend(text, scope, path).els : r \in own[path][i]) <=>
          \E el, sc : Reach(text, scope, el, sc) /\ r \in ToSet(Noted(el, sc))
  <2>1. ASSUME NEW path \in Seq(Nat), NEW i \in DOMAIN Descend(text, scope, path).els, r \in own[path][i]
        PROVE  \E el, sc : Reach(text, scope, el, sc) /\ r \in ToSet(Noted(el, sc))
    <3>1. PICK at : at = Descend(text, scope, path)
      OBVIOUS
    <3>2. Meets(at, at.els[i], at.scope)
      BY <2>1, <3>1 DEF Meets
    <3>3. r \in ToSet(Noted(at.els[i], at.scope))
      BY <1>2, <2>1, <3>1
    <3> QED BY <3>1, <3>2, <3>3 DEF Reach
  <2>2. ASSUME NEW el, NEW sc, Reach(text, scope, el, sc), r \in ToSet(Noted(el, sc))
        PROVE  \E path \in Seq(Nat) : \E i \in DOMAIN Descend(text, scope, path).els : r \in own[path][i]
    <3>1. PICK path \in Seq(Nat) : Meets(Descend(text, scope, path), el, sc)
      BY <2>2 DEF Reach
    <3>2. PICK i \in DOMAIN Descend(text, scope, path).els :
              el = Descend(text, scope, path).els[i] /\ sc = Descend(text, scope, path).scope
      BY <3>1 DEF Meets
    <3> QED BY <1>2, <2>2, <3>2
  <2> QED BY <2>1, <2>2
<1> QED BY <1>6, <1>7, <1>8

(* What is under the elements of a text: they, and what is under each of them.    *)
LEMMA UnderAtHas ==
    ASSUME NEW L, NEW text, NEW path \in Seq(Nat), ElementsAt(text, path) \in Seq(L), NEW f,
           \A i \in DOMAIN ElementsAt(text, path) : f[Append(path, i)] \in Seq(L), NEW x
    PROVE  x \in ToSet(FlattenSeq(UnderAt(f, text, path))) <=>
              \E i \in DOMAIN ElementsAt(text, path) :
                 x = ElementsAt(text, path)[i] \/ x \in ToSet(f[Append(path, i)])
<1>1. PICK els \in Seq(L) : els = ElementsAt(text, path)
  OBVIOUS
<1>2. PICK g : g = [i \in DOMAIN els |-> f[Append(path, i)]]
  OBVIOUS
<1>3. PICK seqs : seqs = [i \in DOMAIN els |-> <<els[i]>> \o g[i]]
  OBVIOUS
<1>4. UnderAt(f, text, path) = seqs
  BY <1>1, <1>2, <1>3 DEF UnderAt
<1>5. ASSUME NEW i \in DOMAIN els
      PROVE  seqs[i] \in Seq(L) /\ ToSet(seqs[i]) = {els[i]} \cup ToSet(g[i])
  <2>1. PICK b \in Seq(L) : b = g[i]
    BY <1>1, <1>2
  <2>2. els[i] \in L
    OBVIOUS
  <2>3. PICK a : a = <<els[i]>>
    OBVIOUS
  <2>4. a \in Seq(L) /\ ToSet(a) = {els[i]}
    BY <2>2, <2>3 DEF ToSet
  <2>5. a \o b \in Seq(L) /\ ToSet(a \o b) = ToSet(a) \cup ToSet(b)
    BY <2>4, ConcatFacts
  <2>6. seqs[i] = a \o b
    BY <1>3, <2>1, <2>3
  <2> QED BY <2>1, <2>4, <2>5, <2>6
<1>6. seqs \in Seq(Seq(L))
  <2>1. DOMAIN els = 1 .. Len(els) /\ Len(els) \in Nat
    OBVIOUS
  <2>2. DOMAIN seqs = 1 .. Len(els) /\ seqs = [i \in 1 .. Len(els) |-> seqs[i]]
    BY <1>3, <2>1
  <2>3. seqs \in [1 .. Len(els) -> Seq(L)]
    BY <1>5, <2>1, <2>2
  <2> QED BY <2>1, <2>3, SeqDef
<1>7. ToSet(FlattenSeq(seqs)) = UNION {ToSet(seqs[i]) : i \in DOMAIN seqs}
  BY <1>6, FlattenFacts
<1>8. DOMAIN seqs = DOMAIN els
  BY <1>3
<1>9. x \in ToSet(FlattenSeq(seqs)) <=> \E i \in DOMAIN els : x \in ToSet(seqs[i])
  BY <1>7, <1>8
<1>10. \A i \in DOMAIN els : ToSet(seqs[i]) = {els[i]} \cup ToSet(f[Append(path, i)])
  BY <1>2, <1>5
<1>11. x \in ToSet(FlattenSeq(seqs)) <=>
          \E i \in DOMAIN els : x = els[i] \/ x \in ToSet(f[Append(path, i)])
  BY <1>9, <1>10
<1> QED BY <1>1, <1>4, <1>11

(* What is under an element are the elements that can be reached from it.         *)
LEMMA UnderReach ==
    ASSUME NEW s \in Skins, NEW d \in Nat, NEW top, top.kids \in Seq(Leveled(s, d)), NEW e
    PROVE  e \in ToSet(Under(top)) <=> \E sc : Reach(top.kids, None, e, sc)
<1> DEFINE L == Leveled(s, d)
<1>1. PICK text \in Seq(L) : text = top.kids
  OBVIOUS
<1>2. PICK u \in [Seq(Nat) -> Seq(L)] : UnderFrom(u, text) /\ Under(top) = u[<<>>]
  BY <1>1, UnderUnfolds
<1>3. \A path \in Seq(Nat) : Spots(text, None)[path] = DOMAIN ElementsAt(text, path)
  BY DEF Spots, ElementsAt
<1>4. PICK own : own = [path \in Seq(Nat) |-> [i \in DOMAIN ElementsAt(text, path) |-> {ElementsAt(text, path)[i]}]]
  OBVIOUS
<1>5. PICK gathered : gathered = [path \in Seq(Nat) |-> ToSet(u[path])]
  OBVIOUS
<1>6. Gathers(gathered, Spots(text, None), own)
  <2>1. ASSUME NEW path \in Seq(Nat), NEW x
        PROVE  x \in gathered[path] <=>
                  \E i \in Spots(text, None)[path] : x \in own[path][i] \/ x \in gathered[Append(path, i)]
    <3>1. ElementsAt(text, path) \in Seq(L)
      <4>1. \A el \in L : el.kids \in Seq(L)
        BY LeveledClosed
      <4> HIDE DEF L
      <4> QED BY <4>1, SpotFacts DEF ElementsAt
    <3>2. PICK els \in Seq(L) : els = ElementsAt(text, path)
      BY <3>1
    <3>3. \A i \in DOMAIN els : Append(path, i) \in Seq(Nat)
      <4>1. \A i \in DOMAIN els : i \in Nat
        OBVIOUS
      <4> QED BY <4>1, AppendNat
    <3>4. \A i \in DOMAIN ElementsAt(text, path) : u[Append(path, i)] \in Seq(L)
      <4> HIDE DEF L
      <4> QED BY <1>2, <3>2, <3>3
    <3>5. x \in ToSet(FlattenSeq(UnderAt(u, text, path))) <=>
              \E i \in DOMAIN ElementsAt(text, path) :
                 x = ElementsAt(text, path)[i] \/ x \in ToSet(u[Append(path, i)])
      <4> HIDE DEF L
      <4> QED BY <3>1, <3>4, UnderAtHas
    <3>6. gathered[path] = ToSet(FlattenSeq(UnderAt(u, text, path)))
      BY <1>2, <1>5 DEF UnderFrom
    <3>7. \A i \in DOMAIN els : own[path][i] = {els[i]} /\ gathered[Append(path, i)] = ToSet(u[Append(path, i)])
      BY <1>4, <1>5, <3>2, <3>3
    <3>8. x \in gathered[path] <=> \E i \in DOMAIN els : x = els[i] \/ x \in ToSet(u[Append(path, i)])
      BY <3>2, <3>5, <3>6
    <3>9. PICK D : D = DOMAIN els
      OBVIOUS
    <3>10. x \in gathered[path] <=> \E i \in D : x \in own[path][i] \/ x \in gathered[Append(path, i)]
      BY <3>7, <3>8, <3>9
    <3>11. Spots(text, None)[path] = D
      BY <1>3, <3>2, <3>9
    <3> QED BY <3>10, <3>11
  <2> QED BY <2>1, Zenon DEF Gathers
<1>7. GathersAll(gathered[<<>>], Spots(text, None), own)
  BY <1>6, GatheredReach
<1>8. e \in gathered[<<>>] <=> \E path \in Seq(Nat) : \E i \in Spots(text, None)[path] : e \in own[path][i]
  BY <1>7, Zenon DEF GathersAll
<1>9. gathered[<<>>] = ToSet(Under(top))
  BY <1>2, <1>5
<1>10. ASSUME NEW path \in Seq(Nat), NEW i \in Spots(text, None)[path], e \in own[path][i]
       PROVE  \E sc : Reach(text, None, e, sc)
  <2>1. PICK at : at = Descend(text, None, path)
    OBVIOUS
  <2>2. i \in DOMAIN at.els /\ e = at.els[i]
    BY <1>3, <1>4, <1>10, <2>1 DEF ElementsAt
  <2>3. Meets(at, e, at.scope)
    BY <2>2 DEF Meets
  <2> QED BY <2>1, <2>3 DEF Reach
<1>11. ASSUME NEW sc, Reach(text, None, e, sc)
       PROVE  \E path \in Seq(Nat) : \E i \in Spots(text, None)[path] : e \in own[path][i]
  <2>1. PICK path \in Seq(Nat) : Meets(Descend(text, None, path), e, sc)
    BY <1>11 DEF Reach
  <2>2. PICK i \in DOMAIN Descend(text, None, path).els : e = Descend(text, None, path).els[i]
    BY <2>1 DEF Meets
  <2>3. i \in Spots(text, None)[path] /\ e \in own[path][i]
    BY <1>3, <1>4, <2>2 DEF ElementsAt
  <2> QED BY <2>3
<1> QED BY <1>1, <1>8, <1>9, <1>10, <1>11

-----------------------------------------------------------------------------
(* What that says of scripts and their owners.                                    *)
(* A script that names a file is noted with the owner.                            *)
LEMMA NotedIs ==
    ASSUME NEW el, NEW owner, NEW r
    PROVE  r \in ToSet(Noted(el, owner)) <=>
              el.tag = "script" /\ el.of # None /\ r = [file |-> el.of, owner |-> owner]
<1> DEFINE r0 == [file |-> el.of, owner |-> owner]
<1> HIDE DEF r0
<1>1. ToSet(<<r0>>) = {r0} /\ ToSet(<<>>) = {}
  BY DEF ToSet
<1>2. Noted(el, owner) = IF el.tag = "script" /\ el.of # None THEN <<r0>> ELSE <<>>
  BY DEF Noted, r0
<1> QED BY <1>1, <1>2 DEF r0

(* The scripts of a text are those of its elements and of their kids.             *)
LEMMA ScriptsFirst ==
    ASSUME NEW s \in Skins, NEW d \in Nat, NEW text \in Seq(Leveled(s, d)), NEW scope, NEW r
    PROVE  r \in ToSet(ScriptsIn(text, scope)) <=>
              \E i \in DOMAIN text :
                 \/ r \in ToSet(Noted(text[i], scope))
                 \/ r \in ToSet(ScriptsIn(text[i].kids, Scoped(text[i], scope)))
<1> DEFINE L == Leveled(s, d)
<1>1. \A e \in L : e.kids \in Seq(L)
  BY LeveledClosed
<1>2. ASSUME NEW i \in DOMAIN text
      PROVE  r \in ToSet(ScriptsIn(text[i].kids, Scoped(text[i], scope))) <=>
                \E el, sc : Reach(text[i].kids, Scoped(text[i], scope), el, sc) /\ r \in ToSet(Noted(el, sc))
  <2>1. text[i].kids \in Seq(L)
    <3>1. text[i] \in L
      OBVIOUS
    <3> HIDE DEF L
    <3> QED BY <1>1, <3>1
  <2> QED BY <2>1, ScriptsReach
<1>3. r \in ToSet(ScriptsIn(text, scope)) <=>
          \E el, sc : Reach(text, scope, el, sc) /\ r \in ToSet(Noted(el, sc))
  BY ScriptsReach
<1>4. ASSUME NEW el, NEW sc
      PROVE  Reach(text, scope, el, sc) <=>
                \E i \in DOMAIN text : \/ el = text[i] /\ sc = scope
                                       \/ Reach(text[i].kids, Scoped(text[i], scope), el, sc)
  <2>1. text \in Seq(L)
    OBVIOUS
  <2> HIDE DEF L
  <2> QED BY <1>1, <2>1, ReachFirst
<1>5. ASSUME r \in ToSet(ScriptsIn(text, scope))
      PROVE  \E i \in DOMAIN text :
                 \/ r \in ToSet(Noted(text[i], scope))
                 \/ r \in ToSet(ScriptsIn(text[i].kids, Scoped(text[i], scope)))
  <2>1. PICK el, sc : Reach(text, scope, el, sc) /\ r \in ToSet(Noted(el, sc))
    BY <1>3, <1>5
  <2>2. PICK i \in DOMAIN text : \/ el = text[i] /\ sc = scope
                                 \/ Reach(text[i].kids, Scoped(text[i], scope), el, sc)
    BY <1>4, <2>1
  <2> QED BY <1>2, <2>1, <2>2
<1>6. ASSUME NEW i \in DOMAIN text, r \in ToSet(Noted(text[i], scope))
      PROVE  r \in ToSet(ScriptsIn(text, scope))
  <2>1. Reach(text, scope, text[i], scope)
    BY <1>4
  <2> QED BY <1>3, <1>6, <2>1
<1>7. ASSUME NEW i \in DOMAIN text, r \in ToSet(ScriptsIn(text[i].kids, Scoped(text[i], scope)))
      PROVE  r \in ToSet(ScriptsIn(text, scope))
  <2>1. PICK el, sc : Reach(text[i].kids, Scoped(text[i], scope), el, sc) /\ r \in ToSet(Noted(el, sc))
    BY <1>2, <1>7
  <2>2. Reach(text, scope, el, sc)
    BY <1>4, <2>1
  <2> QED BY <1>3, <2>1, <2>2
<1> QED BY <1>5, <1>6, <1>7

(* What has no owner in a text has the scope around the text for its owner.       *)
LEMMA OwnerAround ==
    ASSUME NEW s \in Skins, NEW d \in Nat, NEW text \in Seq(Leveled(s, d)), NEW scope, NEW f,
           [file |-> f, owner |-> None] \in ToSet(ScriptsIn(text, None))
    PROVE  [file |-> f, owner |-> scope] \in ToSet(ScriptsIn(text, scope))
<1> DEFINE L == Leveled(s, d)
<1>1. PICK el, sc : Reach(text, None, el, sc) /\ [file |-> f, owner |-> None] \in ToSet(Noted(el, sc))
  BY ScriptsReach
<1>2. el.tag = "script" /\ el.of # None /\ f = el.of /\ sc = None
  <2>1. el.tag = "script" /\ el.of # None /\ [file |-> f, owner |-> None] = [file |-> el.of, owner |-> sc]
    BY <1>1, NotedIs
  <2> QED BY <2>1
<1>3. Reach(text, scope, el, scope)
  <2>1. \A e \in L : e.kids \in Seq(L)
    BY LeveledClosed
  <2>2. text \in Seq(L)
    OBVIOUS
  <2> HIDE DEF L
  <2> QED BY <1>1, <1>2, <2>1, <2>2, ReachIn
<1>4. [file |-> f, owner |-> scope] \in ToSet(Noted(el, scope))
  BY <1>2, NotedIs
<1> QED BY <1>3, <1>4, ScriptsReach

(* The scripts within a scope are scripts of what the scope is in.                *)
LEMMA ScriptsWithin ==
    ASSUME NEW s \in Skins, NEW d \in Nat, NEW top, top.kids \in Seq(Leveled(s, d)),
           NEW e \in ToSet(Under(top)), IsScope(e), NEW r \in ToSet(ScriptsIn(e.kids, e.id))
    PROVE  r \in ToSet(ScriptsIn(top.kids, None))
<1> DEFINE L == Leveled(s, d)
<1>1. PICK in : Reach(top.kids, None, e, in)
  BY UnderReach
<1>2. \A x \in L : x.kids \in Seq(L)
  BY LeveledClosed
<1>3. e \in L
  <2>1. Under(top) \in Seq(L)
    BY UnderSeq
  <2> HIDE DEF L
  <2> QED BY <2>1 DEF ToSet
<1>4. e.kids \in Seq(L)
  BY <1>2, <1>3
<1>5. PICK el, sc : Reach(e.kids, e.id, el, sc) /\ r \in ToSet(Noted(el, sc))
  BY <1>4, ScriptsReach
<1>6. Scoped(e, in) = e.id
  BY DEF Scoped
<1>7. Reach(top.kids, None, el, sc)
  <2>1. top.kids \in Seq(L)
    OBVIOUS
  <2>2. Reach(e.kids, Scoped(e, in), el, sc)
    BY <1>5, <1>6
  <2> HIDE DEF L
  <2> QED BY <1>1, <1>2, <2>1, <2>2, ReachOn
<1> QED BY <1>5, <1>7, ScriptsReach

(* What is reached in a scope is reached without one from the nearest scope.      *)
Nearest(text, el, sc) ==
    \E e, o : Reach(text, None, e, o) /\ IsScope(e) /\ e.id = sc /\ Reach(e.kids, None, el, None)

(* The scope an element is reached in is one of those that are passed.            *)
LEMMA NearestScope ==
    ASSUME NEW s \in Skins
    PROVE  \A d \in Nat : \A text \in Seq(Leveled(s, d)) : \A el, sc :
              Reach(text, None, el, sc) /\ sc # None => Nearest(text, el, sc)
<1> DEFINE P == {d \in Nat : \A text \in Seq(Leveled(s, d)) : \A el, sc :
                    Reach(text, None, el, sc) /\ sc # None => Nearest(text, el, sc)}
<1>1. 0 \in P
  <2>1. ASSUME NEW text \in Seq(Leveled(s, 0)), NEW el, NEW sc, Reach(text, None, el, sc)
        PROVE  FALSE
    <3>1. Leveled(s, 0) = {}
      BY NoneBelow
    <3>2. PICK L : L = Leveled(s, 0)
      OBVIOUS
    <3>3. text \in Seq(L) /\ L = {}
      BY <3>1, <3>2
    <3>4. DOMAIN text = {}
      BY <3>3
    <3>5. \A e \in L : e.kids \in Seq(L)
      BY <3>3
    <3>6. \E i \in DOMAIN text : \/ el = text[i] /\ sc = None
                                 \/ Reach(text[i].kids, Scoped(text[i], None), el, sc)
      BY <2>1, <3>3, <3>5, ReachFirst
    <3> QED BY <3>4, <3>6
  <2> QED BY <2>1
<1>2. ASSUME NEW d \in Nat, d \in P PROVE d + 1 \in P
  <2>1. ASSUME NEW text \in Seq(Leveled(s, d + 1)), NEW el, NEW sc, Reach(text, None, el, sc), sc # None
        PROVE  Nearest(text, el, sc)
    <3>1. PICK L : L = Leveled(s, d + 1)
      OBVIOUS
    <3>2. text \in Seq(L)
      BY <3>1
    <3>3. \A e \in L : e.kids \in Seq(L)
      <4>1. d + 1 \in Nat
        OBVIOUS
      <4> QED BY <3>1, <4>1, LeveledClosed
    <3>4. \A x, o : Reach(text, None, x, o) <=>
              \E i \in DOMAIN text : \/ x = text[i] /\ o = None
                                     \/ Reach(text[i].kids, Scoped(text[i], None), x, o)
      BY <3>2, <3>3, ReachFirst
    <3>5. PICK i \in DOMAIN text : \/ el = text[i] /\ sc = None
                                   \/ Reach(text[i].kids, Scoped(text[i], None), el, sc)
      BY <2>1, <3>4
    <3>6. PICK top \in L : top = text[i]
      BY <3>2
    <3>7. Reach(top.kids, Scoped(top, None), el, sc)
      BY <2>1, <3>5, <3>6
    <3>8. top.kids \in Seq(Leveled(s, d))
      BY <3>1, LeveledKids
    <3>9. \A x, o, scope : Reach(top.kids, scope, x, o) <=>
              \E out : Reach(top.kids, None, x, out) /\ o = IF out = None THEN scope ELSE out
      BY <3>3, ReachIn
    <3>10. PICK out : Reach(top.kids, None, el, out) /\ sc = IF out = None THEN Scoped(top, None) ELSE out
      BY <3>7, <3>9
    <3>11. CASE out = None
      <4>1. IsScope(top) /\ top.id = sc
        BY <2>1, <3>10, <3>11 DEF Scoped
      <4>2. Reach(text, None, top, None)
        BY <3>4, <3>6
      <4> QED BY <3>10, <3>11, <4>1, <4>2 DEF Nearest
    <3>12. CASE out # None
      <4>1. Nearest(top.kids, el, sc)
        <5>1. \A t \in Seq(Leveled(s, d)) : \A x, o : Reach(t, None, x, o) /\ o # None => Nearest(t, x, o)
          BY <1>2
        <5> QED BY <3>8, <3>10, <3>12, <5>1
      <4>2. PICK e, o : Reach(top.kids, None, e, o) /\ IsScope(e) /\ e.id = sc /\ Reach(e.kids, None, el, None)
        BY <4>1 DEF Nearest
      <4>3. \E o1 : Reach(top.kids, Scoped(top, None), e, o1)
        BY <3>9, <4>2
      <4>4. \E o1 : Reach(text, None, e, o1)
        BY <3>4, <3>6, <4>3
      <4> QED BY <4>2, <4>4 DEF Nearest
    <3> QED BY <3>11, <3>12
  <2>2. d + 1 \in Nat
    OBVIOUS
  <2> QED BY <2>1, <2>2
<1>3. Nat \subseteq P
  <2> HIDE DEF P
  <2> QED BY <1>1, <1>2, NatSet
<1> QED BY <1>3

(* A script that has an owner is one of its own in a scope of that id.            *)
LEMMA OwnerScope ==
    ASSUME NEW s \in Skins, NEW d \in Nat, NEW top, top.kids \in Seq(Leveled(s, d)),
           NEW r \in ToSet(ScriptsIn(top.kids, None)), r.owner # None
    PROVE  \E e \in ToSet(Under(top)) : IsScope(e) /\ e.id = r.owner /\ r.file \in OwnScripts(e)
<1> DEFINE L == Leveled(s, d)
<1>1. PICK el, sc : Reach(top.kids, None, el, sc) /\ r \in ToSet(Noted(el, sc))
  BY ScriptsReach
<1>2. el.tag = "script" /\ el.of # None /\ r = [file |-> el.of, owner |-> sc]
  BY <1>1, NotedIs
<1>3. sc # None /\ sc = r.owner /\ r.file = el.of
  BY <1>2
<1>4. Nearest(top.kids, el, sc)
  BY <1>1, <1>3, NearestScope
<1>5. PICK e, o : Reach(top.kids, None, e, o) /\ IsScope(e) /\ e.id = sc /\ Reach(e.kids, None, el, None)
  BY <1>4 DEF Nearest
<1>6. e \in ToSet(Under(top))
  BY <1>5, UnderReach
<1>7. e \in L
  <2>1. Under(top) \in Seq(L)
    BY UnderSeq
  <2> HIDE DEF L
  <2> QED BY <1>6, <2>1 DEF ToSet
<1>8. e.kids \in Seq(L)
  BY <1>7, LeveledClosed
<1>9. PICK own : own = [file |-> el.of, owner |-> None]
  OBVIOUS
<1>10. own \in ToSet(Noted(el, None))
  BY <1>2, <1>9, NotedIs
<1>11. own \in ToSet(ScriptsIn(e.kids, None))
  BY <1>5, <1>8, <1>10, ScriptsReach
<1>12. r.file \in OwnScripts(e)
  BY <1>3, <1>9, <1>11 DEF OwnScripts
<1> QED BY <1>3, <1>5, <1>6, <1>12

(* What an element holds is under whatever the element is under.                  *)
LEMMA UnderKids ==
    ASSUME NEW s \in Skins, NEW d \in Nat, NEW top, top.kids \in Seq(Leveled(s, d))
    PROVE  /\ ToSet(top.kids) \subseteq ToSet(Under(top))
           /\ \A e \in ToSet(Under(top)) : ToSet(e.kids) \subseteq ToSet(Under(top))
<1> DEFINE L == Leveled(s, d)
<1>1. \A x \in L : x.kids \in Seq(L)
  BY LeveledClosed
<1>2. ASSUME NEW text \in Seq(L), NEW scope, NEW k \in ToSet(text) PROVE Reach(text, scope, k, scope)
  <2> HIDE DEF L
  <2>1. PICK i \in DOMAIN text : k = text[i]
    BY DEF ToSet
  <2> QED BY <1>1, <2>1, ReachFirst
<1>3. ASSUME NEW k \in ToSet(top.kids) PROVE k \in ToSet(Under(top))
  <2>1. PICK text \in Seq(L) : text = top.kids
    OBVIOUS
  <2>2. Reach(top.kids, None, k, None)
    <3> HIDE DEF L
    <3> QED BY <1>2, <1>3, <2>1
  <2> QED BY <2>2, UnderReach
<1>4. ASSUME NEW e \in ToSet(Under(top)), NEW k \in ToSet(e.kids) PROVE k \in ToSet(Under(top))
  <2>1. PICK in : Reach(top.kids, None, e, in)
    BY UnderReach
  <2>2. e \in L
    <3>1. Under(top) \in Seq(L)
      BY UnderSeq
    <3> HIDE DEF L
    <3> QED BY <3>1 DEF ToSet
  <2>3. PICK sc : sc = Scoped(e, in)
    OBVIOUS
  <2>4. Reach(e.kids, sc, k, sc)
    <3> HIDE DEF L
    <3> QED BY <1>1, <1>2, <1>4, <2>2
  <2>5. Reach(top.kids, None, k, sc)
    <3>1. top.kids \in Seq(L)
      OBVIOUS
    <3> HIDE DEF L
    <3> QED BY <1>1, <2>1, <2>3, <2>4, <3>1, ReachOn
  <2> QED BY <2>5, UnderReach
<1> QED BY <1>3, <1>4

-----------------------------------------------------------------------------
(* The scripts that were noted on the way are those of the text that was read.    *)
Tells(c, scope) == ToSet(c.refs) = ToSet(ScriptsIn(c.els, scope))

(* A list has what its halves have.                                               *)
LEMMA ListConcat ==
    ASSUME NEW a, NEW b, IsList(a), IsList(b)
    PROVE  ToSet(a \o b) = ToSet(a) \cup ToSet(b)
<1> DEFINE A == {a[i] : i \in DOMAIN a}
           B == {b[i] : i \in DOMAIN b}
           U == A \cup B
<1>1. a \in Seq(A) /\ b \in Seq(B)
  BY DEF IsList
<1>2. A \subseteq U /\ B \subseteq U
  OBVIOUS
<1> HIDE DEF A, B, U
<1>3. a \in Seq(U) /\ b \in Seq(U)
  BY <1>1, <1>2, SeqMonotonic
<1> QED BY <1>3, ConcatFacts

(* The scripts of two texts.                                                      *)
LEMMA ScriptsConcat ==
    ASSUME NEW s \in Skins, NEW d \in Nat, NEW a \in Seq(Leveled(s, d)), NEW b \in Seq(Leveled(s, d)),
           NEW scope
    PROVE  ToSet(ScriptsIn(a \o b, scope)) = ToSet(ScriptsIn(a, scope)) \cup ToSet(ScriptsIn(b, scope))
<1> SUFFICES ASSUME NEW r
             PROVE  r \in ToSet(ScriptsIn(a \o b, scope)) <=>
                       r \in ToSet(ScriptsIn(a, scope)) \/ r \in ToSet(ScriptsIn(b, scope))
  OBVIOUS
<1> DEFINE L == Leveled(s, d)
           P == {el \in L : r \in ToSet(Noted(el, scope))
                            \/ r \in ToSet(ScriptsIn(el.kids, Scoped(el, scope)))}
<1>1. ASSUME NEW t \in Seq(L)
      PROVE  r \in ToSet(ScriptsIn(t, scope)) <=> ToSet(t) \cap P # {}
  <2>1. r \in ToSet(ScriptsIn(t, scope)) <=>
              \E i \in DOMAIN t :
                 \/ r \in ToSet(Noted(t[i], scope))
                 \/ r \in ToSet(ScriptsIn(t[i].kids, Scoped(t[i], scope)))
    BY ScriptsFirst
  <2>2. \A i \in DOMAIN t : t[i] \in L
    <3> HIDE DEF L
    <3> QED OBVIOUS
  <2>3. \A x \in L : x \in P <=> \/ r \in ToSet(Noted(x, scope))
                                 \/ r \in ToSet(ScriptsIn(x.kids, Scoped(x, scope)))
    OBVIOUS
  <2> HIDE DEF P, L
  <2> QED BY <2>1, <2>2, <2>3 DEF ToSet
<1>2. a \in Seq(L) /\ b \in Seq(L)
  OBVIOUS
<1> HIDE DEF L, P
<1>3. a \o b \in Seq(L) /\ ToSet(a \o b) = ToSet(a) \cup ToSet(b)
  BY <1>2, ConcatFacts
<1> QED BY <1>1, <1>2, <1>3

(* What follows, and what stands there, is told of.                               *)
LEMMA TellsFollowed ==
    ASSUME NEW s \in Skins, NEW d \in Nat, NEW scope, NEW a, NEW b, Good(a), Good(b),
           a.els \in Seq(Leveled(s, d)), b.els \in Seq(Leveled(s, d)),
           Tells(a, scope), Tells(b, scope)
    PROVE  Tells(Followed(a, b), scope)
<1>1. CASE a.broken
  BY <1>1 DEF Followed
<1>2. CASE ~a.broken
  <2> DEFINE A == a.els
             B == b.els
             R == a.refs
             Q == b.refs
  <2>1. Followed(a, b) = [els |-> A \o B, refs |-> R \o Q, broken |-> b.broken]
    BY <1>2 DEF Followed
  <2>2. IsList(R) /\ IsList(Q)
    BY DEF Good
  <2>3. ToSet(R \o Q) = ToSet(R) \cup ToSet(Q)
    <3> HIDE DEF R, Q
    <3> QED BY <2>2, ListConcat
  <2>4. ToSet(ScriptsIn(A \o B, scope)) = ToSet(ScriptsIn(A, scope)) \cup ToSet(ScriptsIn(B, scope))
    BY ScriptsConcat
  <2>5. ToSet(R) = ToSet(ScriptsIn(A, scope)) /\ ToSet(Q) = ToSet(ScriptsIn(B, scope))
    BY DEF Tells
  <2> HIDE DEF A, B, R, Q
  <2>6. Followed(a, b).els = A \o B /\ Followed(a, b).refs = R \o Q
    BY <2>1
  <2> QED BY <2>3, <2>4, <2>5, <2>6 DEF Tells
<1> QED BY <1>1, <1>2

(* An empty text has no scripts.                                                  *)
LEMMA TellsNothing ==
    ASSUME NEW s \in Skins, NEW scope, NEW c, c.els = <<>>, c.refs = <<>>
    PROVE  Tells(c, scope)
<1>1. \A r : r \notin ToSet(ScriptsIn(<<>>, scope))
  <2> SUFFICES ASSUME NEW r PROVE r \notin ToSet(ScriptsIn(<<>>, scope))
    OBVIOUS
  <2>1. <<>> \in Seq(Leveled(s, 0)) /\ DOMAIN <<>> = {}
    OBVIOUS
  <2>2. PICK t : t = <<>>
    OBVIOUS
  <2>3. r \in ToSet(ScriptsIn(t, scope)) <=>
              \E i \in DOMAIN t :
                 \/ r \in ToSet(Noted(t[i], scope))
                 \/ r \in ToSet(ScriptsIn(t[i].kids, Scoped(t[i], scope)))
    BY <2>1, <2>2, ScriptsFirst
  <2> QED BY <2>1, <2>2, <2>3
<1>2. ToSet(<<>>) = {}
  BY DEF ToSet
<1> QED BY <1>1, <1>2 DEF Tells

(* So are joined parts.                                                           *)
LEMMA JoinedTells ==
    ASSUME NEW s \in Skins, NEW d \in Nat, NEW scope, NEW n \in Nat, NEW parts, DOMAIN parts = 1 .. n,
           \A i \in 1 .. n : /\ Good(parts[i]) /\ parts[i].els \in Seq(Leveled(s, d))
                             /\ Tells(parts[i], scope)
    PROVE  Tells(Joined(parts), scope)
<1>1. PICK f : Joined(parts) = f[1] /\ \A k \in Nat : Onward(parts, f, k)
  BY JoinedFrom
<1> DEFINE L == Leveled(s, d)
           Fine(c) == Good(c) /\ c.els \in Seq(L) /\ Tells(c, scope)
           S == {m \in Nat : \A k \in Nat : k + m >= n + 1 => Fine(f[k])}
<1>5. Fine(Nothing)
  <2>1. Nothing.els = <<>> /\ Nothing.refs = <<>> /\ Nothing.els \in Seq(L)
    BY DEF Nothing
  <2> QED BY <2>1, TellsNothing, GoodOnes
<1>6. ASSUME NEW a, NEW b, Fine(a), Fine(b) PROVE Fine(Followed(a, b))
  <2>1. Good(Followed(a, b)) /\ Tells(Followed(a, b), scope)
    BY <1>6, TellsFollowed, GoodOnes
  <2>2. Followed(a, b).els \in Seq(L)
    <3>1. CASE a.broken
      BY <1>6, <3>1 DEF Followed
    <3>2. CASE ~a.broken
      <4> DEFINE A == a.els
                 B == b.els
                 R == a.refs \o b.refs
      <4>1. Followed(a, b) = [els |-> A \o B, refs |-> R, broken |-> b.broken]
        BY <3>2 DEF Followed
      <4>2. A \in Seq(L) /\ B \in Seq(L)
        BY <1>6
      <4> HIDE DEF A, B, R, L
      <4> QED BY <4>1, <4>2
    <3> QED BY <3>1, <3>2
  <2> QED BY <2>1, <2>2
<1>2. 0 \in S
  <2>1. ASSUME NEW k \in Nat, k >= n + 1 PROVE Fine(f[k])
    <3>1. Onward(parts, f, k) /\ k \notin DOMAIN parts
      BY <1>1, <2>1
    <3>2. f[k] = Nothing
      BY <3>1 DEF Onward
    <3> HIDE DEF Fine
    <3> QED BY <1>5, <3>2
  <2> HIDE DEF Fine
  <2> QED BY <2>1
<1>3. ASSUME NEW m \in Nat, m \in S PROVE m + 1 \in S
  <2>1. ASSUME NEW k \in Nat, k + (m + 1) >= n + 1 PROVE Fine(f[k])
    <3>1. Onward(parts, f, k) /\ Fine(f[k + 1])
      <4> HIDE DEF Fine
      <4> QED BY <1>1, <1>3, <2>1
    <3>2. CASE k \in DOMAIN parts
      <4>1. f[k] = Followed(parts[k], f[k + 1])
        BY <3>1, <3>2 DEF Onward
      <4>2. Fine(parts[k])
        BY <3>2
      <4> HIDE DEF Fine
      <4> QED BY <1>6, <3>1, <4>1, <4>2
    <3>3. CASE k \notin DOMAIN parts
      <4>1. f[k] = Nothing
        BY <3>1, <3>3 DEF Onward
      <4> HIDE DEF Fine
      <4> QED BY <1>5, <4>1
    <3> QED BY <3>2, <3>3
  <2> HIDE DEF S, Fine
  <2> QED BY <2>1 DEF S
<1>4. n \in S
  <2> HIDE DEF S
  <2>1. Nat \subseteq S
    BY <1>2, <1>3, NatSet
  <2> QED BY <2>1
<1>7. Fine(f[1])
  <2> HIDE DEF Fine
  <2> QED BY <1>4
<1> QED BY <1>1, <1>7

(* An element is kept as the scope and the script it is.                          *)
LEMMA KeptScope ==
    ASSUME NEW el \in Nested[Nesting], NEW text, NEW scope
    PROVE  /\ Scoped(Kept(el, text), scope) = IF IsScope(el) THEN el.id ELSE scope
           /\ IsScope(Kept(el, text)) <=> IsScope(el)
           /\ Noted(Kept(el, text), scope) = Noted(Canonised(el), scope)
           /\ IsList(Noted(Canonised(el), scope))
<1>1. DOMAIN el = DOMAIN Bare("error")
  BY AttributesOf
<1>2. /\ Kept(el, text).id = el.id /\ Kept(el, text).of = el.of
      /\ Kept(el, text).tag = canonicalTag(el.tag)
      /\ Canonised(el).of = el.of /\ Canonised(el).tag = canonicalTag(el.tag)
  BY <1>1 DEF Kept, Canonised, Bare
<1>3. canonicalTag(el.tag) \in {"groupdef", "group", "container", "layout"}
          <=> el.tag \in {"groupdef", "group", "container", "layout"}
  BY DEF canonicalTag
<1>4. IsList(Noted(Canonised(el), scope))
  BY Singles, EmptyStack DEF Noted, Guards
<1> QED BY <1>2, <1>3, <1>4 DEF Scoped, IsScope, Noted

(* What a text comes to tells of its scripts.                                     *)
LEMMA ContentTells ==
    ASSUME NEW s \in Skins
    PROVE  \A d \in Nat : \A p \in Below(s, d) : Tells(Content(s)[p], p.scope)
<1> DEFINE c == Content(s)
           S == {d \in Nat : \A p \in Below(s, d) : Tells(c[p], p.scope)}
<1>1. ASSUME NEW d \in Nat, NEW p \in Below(s, d + 1),
             \A q \in Below(s, d) : Tells(c[q], q.scope)
      PROVE  Tells(c[p], p.scope)
  <2> DEFINE parts == [i \in DOMAIN p.text |-> PartOf(s, c, p, p.text[i])]
             n == Len(p.text)
  <2>1. p \in Passage(s) /\ p.text \in Seq(Nested[Nesting])
    BY DEF Below, Passage, Text
  <2>2. DOMAIN p.text = 1 .. n /\ n \in Nat /\ DOMAIN parts = 1 .. n
    BY <2>1
  <2>3. c[p] = Joined(parts)
    BY <2>1, ContentUnfolds DEF Unfolds
  <2>4. ASSUME NEW i \in 1 .. n
        PROVE  /\ Good(parts[i]) /\ parts[i].els \in Seq(Leveled(s, d))
               /\ Tells(parts[i], p.scope)
    <3> DEFINE el == p.text[i]
               in == c[Inner(p, el)]
               out == c[Outer(s, p, el)]
    <3>1. el \in Nested[Nesting] /\ i \in DOMAIN p.text
      BY <2>1, <2>2
    <3>2. Inner(p, el) \in Below(s, d) /\ (Includes(s, p, el) => Outer(s, p, el) \in Below(s, d))
      BY <3>1, PlacesBelow
    <3>3. Good(in) /\ (Includes(s, p, el) => Good(out))
      BY <3>2, ContentGood DEF Below
    <3>4. parts[i] = CASE el.tag = "error" -> Break
                       [] el.tag = "include" -> IF Includes(s, p, el) THEN Unbroken(out) ELSE Nothing
                       [] OTHER -> KeptIn(el, in, p.scope)
      <4>1. parts[i] = PartOf(s, c, p, el)
        BY <3>1
      <4> HIDE DEF el, parts
      <4> QED BY <3>3, <4>1, PartForms
    <3>9. /\ Break.els = <<>> /\ Nothing.els = <<>> /\ <<>> \in Seq(Leveled(s, d))
          /\ Break.refs = <<>> /\ Nothing.refs = <<>>
      BY DEF Break, Nothing
    <3>10. \A q \in Below(s, d) : c[q].els \in Seq(Leveled(s, d))
      <4> SUFFICES ASSUME NEW q \in Below(s, d) PROVE c[q].els \in Seq(Leveled(s, d))
        OBVIOUS
      <4>1. q \in Below(s, d + 1)
        BY BelowMore
      <4> QED BY <4>1, ContentIn
    <3>11. p \in Passage(s) => p = [files |-> p.files, text |-> p.text, scope |-> p.scope]
      BY DEF Passage
    <3>12. /\ Inner(p, el).scope = IF IsScope(el) THEN el.id ELSE p.scope
           /\ Outer(s, p, el).scope = p.scope
      BY <2>1, <3>11 DEF Inner, Outer
    <3>5. CASE parts[i] \in {Break, Nothing}
      <4>1. parts[i].els = <<>> /\ parts[i].refs = <<>> /\ Good(parts[i])
        BY <3>5, <3>9, GoodOnes
      <4> HIDE DEF parts
      <4>2. Tells(parts[i], p.scope)
        BY <4>1, TellsNothing
      <4> QED BY <3>9, <4>1, <4>2
    <3>6. CASE Includes(s, p, el) /\ parts[i] = Unbroken(out)
      <4>1. parts[i].els = out.els /\ parts[i].refs = out.refs
        BY <3>6 DEF Unbroken
      <4>2. Good(parts[i])
        BY <3>3, <3>6, GoodOnes
      <4>3. out.els \in Seq(Leveled(s, d)) /\ Tells(out, p.scope)
        BY <1>1, <3>2, <3>6, <3>10, <3>12
      <4> QED BY <4>1, <4>2, <4>3 DEF Tells
    <3>8. CASE parts[i] = KeptIn(el, in, p.scope)
      <4> DEFINE k == Kept(el, in.els)
                 o == Noted(Canonised(el), p.scope)
      <4>1. parts[i].els = <<k>> /\ parts[i].refs = in.refs \o o
        <5> DEFINE R == in.refs \o o
        <5>1. parts[i] = [els |-> <<k>>, refs |-> R, broken |-> in.broken]
          BY <3>8 DEF KeptIn
        <5> HIDE DEF parts, R, k, in
        <5>2. parts[i].els = <<k>> /\ parts[i].refs = R
          BY <5>1
        <5> QED BY <5>2 DEF R
      <4>2. k \in Leveled(s, d) /\ k.kids = in.els
        BY <3>1, <3>2, KeptKids DEF Leveled
      <4>3. Good(parts[i])
        BY <3>3, <3>8, GoodOnes
      <4>4. /\ Scoped(k, p.scope) = Inner(p, el).scope
            /\ Noted(k, p.scope) = o
            /\ IsList(o)
        BY <3>1, <3>12, KeptScope
      <4>5. Tells(in, Inner(p, el).scope)
        BY <1>1, <3>2
      <4>6. IsList(in.refs)
        BY <3>3 DEF Good
      <4>7. ToSet(in.refs \o o) = ToSet(in.refs) \cup ToSet(o)
        <5> DEFINE R == in.refs
        <5>1. IsList(R) /\ IsList(o)
          BY <4>4, <4>6
        <5> HIDE DEF R, o
        <5>2. ToSet(R \o o) = ToSet(R) \cup ToSet(o)
          BY <5>1, ListConcat
        <5> QED BY <5>2 DEF R
      <4>8. ASSUME NEW r
            PROVE  r \in ToSet(ScriptsIn(<<k>>, p.scope)) <=>
                     r \in ToSet(o) \/ r \in ToSet(ScriptsIn(in.els, Inner(p, el).scope))
        <5>1. PICK t : t = <<k>>
          OBVIOUS
        <5>2. t \in Seq(Leveled(s, d)) /\ DOMAIN t = {1} /\ t[1] = k
          <6> HIDE DEF k
          <6> QED BY <4>2, <5>1
        <5>3. r \in ToSet(ScriptsIn(t, p.scope)) <=>
              \E j \in DOMAIN t :
                 \/ r \in ToSet(Noted(t[j], p.scope))
                 \/ r \in ToSet(ScriptsIn(t[j].kids, Scoped(t[j], p.scope)))
          BY <5>2, ScriptsFirst
        <5> HIDE DEF k, o, in
        <5> QED BY <4>2, <4>4, <5>1, <5>2, <5>3
      <4>9. parts[i].els \in Seq(Leveled(s, d))
        <5> HIDE DEF k, parts
        <5> QED BY <4>1, <4>2
      <4> HIDE DEF k, o, in, parts
      <4> QED BY <4>1, <4>3, <4>5, <4>7, <4>8, <4>9 DEF Tells
    <3> HIDE DEF parts
    <3> QED BY <3>4, <3>5, <3>6, <3>8
  <2> HIDE DEF parts, n, c
  <2>5. Tells(Joined(parts), p.scope)
    BY <2>2, <2>4, JoinedTells
  <2> QED BY <2>3, <2>5
<1>2. 0 \in S
  BY NoneBelow
<1>3. ASSUME NEW d \in Nat, d \in S PROVE d + 1 \in S
  <2> HIDE DEF c
  <2> QED BY <1>1, <1>3
<1>4. Nat \subseteq S
  <2> HIDE DEF S
  <2> QED BY <1>2, <1>3, NatSet
<1> QED BY <1>4

(* The parser noted the scripts of the document, each with the scope around it.   *)
LEMMA DocumentScripts ==
    ASSUME skin \in Skins, FilesAreSpliced, Parsed
    PROVE  ToSet(refs) = ToSet(ScriptsIn(Document.kids, None))
<1>1. Document.kids = Content(skin)[Whole(skin)].els /\ refs = Content(skin)[Whole(skin)].refs
  BY DEF FilesAreSpliced
<1>2. Whole(skin) \in Passage(skin)
  BY SkinsAssumption DEF Whole, Passage, Text, Scope
<1>3. PICK d \in Nat : Passage(skin) = Below(skin, d)
  BY AllBelow
<1>4. Whole(skin).scope = None
  BY DEF Whole
<1>5. Tells(Content(skin)[Whole(skin)], None)
  BY <1>2, <1>3, <1>4, ContentTells
<1> QED BY <1>1, <1>5 DEF Tells

-----------------------------------------------------------------------------
(* What a tree is made of.                                                        *)
(* A set of elements that has what they hold, and a group of every name.          *)
Complete(K) ==
    /\ \A e \in K : ToSet(e.kids) \subseteq K
    /\ \A name \in DOMAIN Lower : GroupFor(name) \in K

(* Those of them that are visited.                                                *)
Fit(K) == {e \in K : ~isScaffolding(e)}

(* What is put into a widget is visited.                                          *)
LEMMA PartFits ==
    ASSUME NEW els \in Seq(Elements), NEW K, ToSet(els) \subseteq K, NEW open
    PROVE  ToSet(Part(els, open)) \subseteq Fit(K)
<1> DEFINE P == {el \in ToSet(els) : ~isScaffolding(el) /\ Ids(DefOf(doc, el)) \cap open = {}}
<1>1. Part(els, open) = Among(els, P)
  BY DEF Part
<1>2. P \subseteq Fit(K)
  BY DEF Fit
<1> HIDE DEF P
<1>3. ToSet(Among(els, P)) = ToSet(els) \cap P
  BY AmongSeq
<1> QED BY <1>1, <1>2, <1>3

(* So is what a groupdef inherits.                                                *)
LEMMA InheritedFits ==
    ASSUME DefsOk(doc.def), NEW K, Complete(K), \A d \in DOMAIN doc.def : doc.def[d] \in K, NEW open
    PROVE  \A d \in DOMAIN doc.def : ToSet(InheritedParts(d, open, {})) \subseteq Fit(K)
<1> DEFINE Dom == (DOMAIN doc.def) \X (SUBSET Inherits)
           rank == [at \in Dom |-> Cardinality(Inherits \ at[2])]
           P == {at \in Dom : ToSet(InheritedParts(at[1], open, at[2])) \subseteq Fit(K)}
<1>1. IsFiniteSet(Inherits)
  <2> DEFINE f == [e \in DOMAIN doc.def |-> doc.def[e].inherit]
             R == {f[x] : x \in DOMAIN f}
  <2>1. IsFiniteSet(DOMAIN f)
    BY DEF DefsOk
  <2>2. Inherits = R
    BY DEF Inherits
  <2>3. IsFiniteSet(R)
    <3> HIDE DEF f
    <3> QED BY <2>1, FiniteImage
  <2> QED BY <2>2, <2>3
<1>2. ASSUME NEW at \in Dom PROVE rank[at] \in Nat
  BY <1>1, FS_Subset, FS_CardinalityType
<1>3. ASSUME NEW at \in Dom, \A y \in Dom : rank[y] < rank[at] => y \in P PROVE at \in P
  <2> DEFINE d == at[1]
             on == at[2]
             h == doc.def[d].inherit
             u == Lookup(doc, h)
             more == on \cup {h}
             a == InheritedParts(u, open, more)
             b == Part(doc.def[u].kids, open \cup more)
             next == <<u, more>>
  <2>1. d \in DOMAIN doc.def /\ on \in SUBSET Inherits /\ at = <<d, on>>
    OBVIOUS
  <2>2. InheritedParts(d, open, on) = IF u = None \/ h \in open \cup on THEN <<>> ELSE a \o b
    <3>1. d \in DOMAIN doc.def /\ on \in SUBSET Inherits
      BY <2>1
    <3> HIDE DEF d, on
    <3> QED BY <3>1, InheritedUnfolds
  <2>3. CASE u = None \/ h \in open \cup on
    <3>1. ToSet(InheritedParts(d, open, on)) = {}
      <4> HIDE DEF u, h, on, d, a, b
      <4> QED BY <2>2, <2>3 DEF ToSet
    <3> QED BY <3>1
  <2>4. CASE ~(u = None \/ h \in open \cup on)
    <3>1. u \in DOMAIN doc.def /\ h \in Inherits /\ h \notin on
      BY <2>1, <2>4, LookupDef DEF Inherits
    <3>2. next \in Dom /\ next[1] = u /\ next[2] = more
      <4>1. more \in SUBSET Inherits
        BY <2>1, <3>1
      <4> HIDE DEF u, more
      <4> QED BY <3>1, <4>1
    <3>3. Cardinality(Inherits \ more) < Cardinality(Inherits \ on)
      <4> DEFINE S == Inherits \ on
      <4>1. IsFiniteSet(S) /\ h \in S /\ Inherits \ more = S \ {h}
        BY <1>1, <3>1, FS_Subset
      <4> HIDE DEF S, h
      <4>2. Cardinality(S \ {h}) = Cardinality(S) - 1 /\ Cardinality(S) \in Nat
        BY <4>1, FS_RemoveElement, FS_CardinalityType
      <4>3. Cardinality(S \ {h}) < Cardinality(S)
        BY <4>2
      <4> QED BY <4>1, <4>3 DEF S
    <3>4. rank[next] = Cardinality(Inherits \ more) /\ rank[at] = Cardinality(Inherits \ on)
      <4> HIDE DEF next, Dom, more
      <4> QED BY <3>2
    <3>5. next \in P
      <4> HIDE DEF next, Dom, P, rank
      <4> QED BY <1>3, <3>2, <3>3, <3>4
    <3>6. ToSet(a) \subseteq Fit(K)
      <4> HIDE DEF next, Dom, a, u, more
      <4> QED BY <3>2, <3>5 DEF a
    <3>7. ToSet(b) \subseteq Fit(K)
      <4>1. doc.def[u].kids \in Seq(Elements)
        BY <3>1, BodySeq
      <4>2. ToSet(doc.def[u].kids) \subseteq K
        BY <3>1 DEF Complete
      <4> HIDE DEF u, more
      <4> QED BY <4>1, <4>2, PartFits
    <3>8. a \in Seq(Elements) /\ b \in Seq(Elements)
      <4>1. doc.def[u].kids \in Seq(Elements)
        BY <3>1, BodySeq
      <4>2. more \in SUBSET Inherits
        BY <2>1, <3>1
      <4> HIDE DEF u, more
      <4> QED BY <3>1, <4>1, <4>2, PartSeq, InheritedUnfolds
    <3>9. ToSet(a \o b) = ToSet(a) \cup ToSet(b)
      <4> HIDE DEF a, b
      <4> QED BY <3>8, ConcatFacts
    <3>10. InheritedParts(d, open, on) = a \o b
      BY <2>2, <2>4
    <3> HIDE DEF a, b, d, on
    <3> QED BY <3>6, <3>7, <3>9, <3>10 DEF d, on
  <2> QED BY <2>3, <2>4
<1>4. Dom \subseteq P
  <2>1. rank \in [Dom -> Nat]
    <3> HIDE DEF Dom
    <3> QED BY <1>2
  <2> HIDE DEF P, Dom, rank
  <2> QED BY <1>3, <2>1, RankedInduction
<1>5. ASSUME NEW d \in DOMAIN doc.def PROVE ToSet(InheritedParts(d, open, {})) \subseteq Fit(K)
  <2> DEFINE at == <<d, {}>>
  <2>1. at \in Dom /\ at[1] = d /\ at[2] = {}
    OBVIOUS
  <2> HIDE DEF at, Dom
  <2> QED BY <1>4, <2>1
<1> QED BY <1>5

(* The groups of some names are groups of names.                                  *)
LEMMA GroupsFit ==
    ASSUME NEW names \in Seq(DOMAIN Lower), NEW K, Complete(K)
    PROVE  ToSet(Groups(names)) \subseteq K
<1> DEFINE g == Groups(names)
<1>1. DOMAIN names = 1 .. Len(names) /\ Len(names) \in Nat
  OBVIOUS
<1>2. g = [i \in 1 .. Len(names) |-> GroupFor(names[i])]
  BY <1>1 DEF Groups, GroupFor
<1>3. \A i \in 1 .. Len(names) : GroupFor(names[i]) \in K
  BY <1>1 DEF Complete
<1> HIDE DEF g
<1>4. ToSet(g) \subseteq K
  BY <1>2, <1>3 DEF ToSet
<1> QED BY <1>4 DEF g

(* What an element holds is in the set.                                           *)
LEMMA HeldFits ==
    ASSUME NEW K, Complete(K), NEW el \in Elements, el \in K
    PROVE  ToSet(Held(el)) \subseteq K
<1>1. PaneElements(el) \in Seq(Elements) /\ ToSet(PaneElements(el)) \subseteq K
  <2> DEFINE P == {name \in ToSet(el.panes) : Lookup(doc, name) # None}
             a == Among(el.panes, P)
  <2>1. a \in Seq(DOMAIN Lower)
    <3>1. el.panes \in Seq(DOMAIN Lower)
      BY ElementsHold
    <3> HIDE DEF P
    <3> QED BY <3>1, AmongSeq
  <2> HIDE DEF a
  <2>2. Groups(a) \in Seq(Elements) /\ ToSet(Groups(a)) \subseteq K
    BY <2>1, GroupsSeq, GroupsFit
  <2> QED BY <2>2 DEF PaneElements, a
<1>2. Entries(el) \in Seq(Elements) /\ ToSet(Entries(el)) \subseteq K
  <2> DEFINE P == {k \in DOMAIN doc.def : doc.def[k].id # None /\ doc.def[k].wndtype}
             a == Among(ByName, P)
  <2>1. a \in Seq(DOMAIN Lower)
    <3> HIDE DEF P
    <3> QED BY AmongSeq, NamesAssumption
  <2> HIDE DEF a
  <2>2. Groups(a) \in Seq(Elements) /\ ToSet(Groups(a)) \subseteq K
    BY <2>1, GroupsSeq, GroupsFit
  <2>3. Entries(el) = IF el.tag # "componentbucket" THEN <<>> ELSE Groups(a)
    BY DEF Entries, a
  <2>4. ToSet(<<>>) = {} /\ <<>> \in Seq(Elements)
    BY DEF ToSet
  <2> QED BY <2>2, <2>3, <2>4
<1>3. el.kids \in Seq(Elements) /\ ToSet(el.kids) \subseteq K
  BY ElementsHold DEF Complete
<1> DEFINE a == PaneElements(el)
           k == el.kids
           b == Entries(el)
<1>4. Held(el) = IF el.tag = "wasabi_frame" THEN a ELSE k \o b
  BY DEF Held
<1>5. ToSet(k \o b) = ToSet(k) \cup ToSet(b)
  <2>1. k \in Seq(Elements) /\ b \in Seq(Elements)
    BY <1>2, <1>3
  <2> HIDE DEF k, b
  <2> QED BY <2>1, ConcatFacts
<1>6. ToSet(a) \subseteq K /\ ToSet(b) \subseteq K /\ ToSet(k) \subseteq K
  BY <1>1, <1>2, <1>3
<1> HIDE DEF a, k, b
<1> QED BY <1>4, <1>5, <1>6

(* The tables have only such elements.                                            *)
Holds(K) == Complete(K) /\ doc.layout \in K /\ \A d \in DOMAIN doc.def : doc.def[d] \in K

(* A widget that shows no page unfolds to such elements.                          *)
LEMMA UnfoldingFits ==
    ASSUME Tables, NEW K, Holds(K), NEW n \in DOMAIN tree, ~Paged(n), tree[n].el \in Elements, tree[n].el \in K,
           n # Root => tree[n].def = DefOf(doc, tree[n].el)
    PROVE  ToSet(Unfolding(n)) \subseteq Fit(K)
<1>1. PICK el, def, open : el = tree[n].el /\ def = tree[n].def /\ open = Open(n)
  OBVIOUS
<1>2. Unfolding(n) = UnfoldingOf(n, el, def, None, open)
  BY <1>1, UnfoldingIs DEF UnfoldingLaw, Paged
<1>9. DefsOk(doc.def) /\ LayoutOk(doc.layout) /\ Complete(K)
  BY DEF Tables, Holds
<1>10. ASSUME NEW d \in DOMAIN doc.def
       PROVE  /\ \A o : ToSet(Part(doc.def[d].kids, o)) \subseteq Fit(K)
              /\ \A o : Part(doc.def[d].kids, o) \in Seq(Elements)
  <2>1. doc.def[d].kids \in Seq(Elements) /\ ToSet(doc.def[d].kids) \subseteq K
    BY <1>9, BodySeq DEF Holds, Complete
  <2> QED BY <2>1, PartFits, PartSeq
<1>3. CASE n = Root
  <2>1. doc.layout.kids \in Seq(Elements) /\ ToSet(doc.layout.kids) \subseteq K
    BY <1>9, ElementsHold DEF Holds, Complete, LayoutOk
  <2>2. Unfolding(n) = Part(doc.layout.kids, {})
    BY <1>2, <1>3 DEF UnfoldingOf
  <2> QED BY <2>1, <2>2, PartFits
<1>4. CASE n # Root /\ def # None
  <2>1. def \in DOMAIN doc.def
    BY <1>1, <1>4, LookupDef DEF DefOf
  <2> DEFINE a == InheritedParts(def, open, {})
             b == Part(doc.def[def].kids, open)
             c == ContentPart(el, open)
  <2>2. Unfolding(n) = a \o b \o c
    BY <1>2, <1>4 DEF UnfoldingOf
  <2>3. a \in Seq(Elements) /\ ToSet(a) \subseteq Fit(K)
    <3>1. {} \in SUBSET Inherits
      OBVIOUS
    <3> QED BY <1>9, <2>1, <3>1, InheritedUnfolds, InheritedFits DEF Holds
  <2>4. b \in Seq(Elements) /\ ToSet(b) \subseteq Fit(K)
    BY <1>10, <2>1
  <2>5. c \in Seq(Elements) /\ ToSet(c) \subseteq Fit(K)
    <3>1. c \in Seq(Elements)
      BY <1>9, ContentSeq
    <3>2. PICK u : u = Lookup(doc, el.content)
      OBVIOUS
    <3>3. CASE u = None \/ el.content \in open
      <4>1. c = <<>>
        BY <3>2, <3>3 DEF ContentPart
      <4> HIDE DEF c
      <4> QED BY <3>1, <4>1 DEF ToSet
    <3>4. CASE ~(u = None \/ el.content \in open)
      <4>1. u \in DOMAIN doc.def
        BY <3>2, <3>4, LookupDef
      <4>2. c = Part(doc.def[u].kids, open \cup {el.content})
        BY <3>2, <3>4 DEF ContentPart
      <4> HIDE DEF c
      <4> QED BY <1>10, <3>1, <4>1, <4>2
    <3> QED BY <3>3, <3>4
  <2> HIDE DEF a, b, c
  <2>6. a \o b \in Seq(Elements) /\ ToSet(a \o b) = ToSet(a) \cup ToSet(b)
    BY <2>3, <2>4, ConcatFacts
  <2> DEFINE ab == a \o b
  <2>7. ToSet(ab \o c) = ToSet(ab) \cup ToSet(c)
    <3>1. ab \in Seq(Elements)
      BY <2>6
    <3> HIDE DEF ab
    <3> QED BY <2>5, <3>1, ConcatFacts
  <2> QED BY <2>2, <2>3, <2>4, <2>5, <2>6, <2>7
<1>5. CASE n # Root /\ def = None
  <2>1. Unfolding(n) = Part(Held(el), open)
    BY <1>2, <1>5 DEF UnfoldingOf
  <2>2. Held(el) \in Seq(Elements) /\ ToSet(Held(el)) \subseteq K
    BY <1>1, <1>9, HeldSeq, HeldFits
  <2> QED BY <2>1, <2>2, PartFits
<1> QED BY <1>3, <1>4, <1>5

(* What is tagged is under the element.                                           *)
LEMMA TaggedUnder ==
    ASSUME NEW s \in Skins, NEW d \in Nat, NEW el, el.kids \in Seq(Leveled(s, d)), NEW tag
    PROVE  Tagged(el, tag) \in Seq(Elements) /\ ToSet(Tagged(el, tag)) \subseteq ToSet(Under(el))
<1> DEFINE u == Under(el)
           P == {e \in ToSet(u) : e.tag = tag}
<1>1. u \in Seq(Elements)
  BY UnderSeq
<1> HIDE DEF u
<1>2. Among(u, P) \in Seq(Elements) /\ ToSet(Among(u, P)) = ToSet(u) \cap P
  <2> HIDE DEF P
  <2> QED BY <1>1, AmongSeq
<1> QED BY <1>2 DEF Tagged, u

(* So are the groupdefs that are collected,                                       *)
LEMMA DefsUnder ==
    ASSUME NEW s \in Skins, NEW d \in Nat, NEW el, el.kids \in Seq(Leveled(s, d))
    PROVE  \A key \in DOMAIN collectGroupdefs(el) : collectGroupdefs(el)[key] \in ToSet(Under(el))
<1> DEFINE defs == Tagged(el, "groupdef")
           of(key) == {i \in DOMAIN defs : DefKey(defs[i]) = key}
           keys == {DefKey(defs[i]) : i \in DOMAIN defs} \ {None}
           def == collectGroupdefs(el)
<1>1. defs \in Seq(Elements) /\ ToSet(defs) \subseteq ToSet(Under(el))
  BY TaggedUnder
<1>2. def = [key \in keys |-> defs[Max(of(key))]]
  BY DEF collectGroupdefs
<1> HIDE DEF def, defs
<1>3. DOMAIN defs = 1 .. Len(defs) /\ Len(defs) \in Nat /\ IsFiniteSet(DOMAIN defs)
  BY <1>1, FS_Interval
<1>5. ASSUME NEW key \in keys PROVE def[key] \in ToSet(Under(el))
  <2>1. of(key) # {} /\ of(key) \subseteq DOMAIN defs
    OBVIOUS
  <2> DEFINE S == of(key)
  <2> HIDE DEF of
  <2>2. S \subseteq Nat /\ IsFiniteSet(S) /\ S # {}
    <3>1. DOMAIN defs \subseteq Nat
      BY <1>3
    <3> QED BY <1>3, <2>1, <3>1, FS_Subset
  <2>3. Max(S) \in S
    <3> HIDE DEF S
    <3> QED BY <2>2, MaxNat
  <2>4. Max(S) \in DOMAIN defs
    BY <2>1, <2>3
  <2>5. def[key] = defs[Max(S)]
    BY <1>2
  <2>6. defs[Max(S)] \in ToSet(defs)
    <3> HIDE DEF S
    <3> QED BY <2>4 DEF ToSet
  <2> HIDE DEF S
  <2> QED BY <1>1, <2>5, <2>6
<1>6. DOMAIN def = keys
  BY <1>2
<1> HIDE DEF keys
<1> QED BY <1>5, <1>6 DEF def

(* and the layout that is found.                                                  *)
LEMMA LayoutUnder ==
    ASSUME NEW s \in Skins, NEW d \in Nat, NEW el, el.kids \in Seq(Leveled(s, d)),
           findContainer(el) # <<>>, findLayout(findContainer(el)[1]) # <<>>
    PROVE  findLayout(findContainer(el)[1])[1] \in ToSet(Under(el))
<1> DEFINE c == findContainer(el)
           t == Tagged(el, "container")
           x == c[1]
           U == ToSet(Under(el))
<1>1. c \in Seq(Elements) /\ ToSet(c) \subseteq U
  <2>1. t \in Seq(Elements) /\ ToSet(t) \subseteq U
    BY TaggedUnder
  <2> DEFINE P == {e \in ToSet(t) : e.id # None /\ Lower[e.id] = ContainerId}
  <2>2. c = Among(t, P)
    BY DEF findContainer, Called
  <2> HIDE DEF t, P, c, U
  <2>3. c \in Seq(Elements) /\ ToSet(c) = ToSet(t) \cap P
    BY <2>1, <2>2, AmongSeq
  <2> QED BY <2>1, <2>3
<1>2. x \in Elements /\ x \in U
  <2>1. c # <<>>
    OBVIOUS
  <2> HIDE DEF c, U
  <2> QED BY <1>1, <2>1 DEF ToSet
<1>9. ToSet(x.kids) \subseteq U
  BY <1>2, UnderKids
<1> HIDE DEF x, U
<1> DEFINE P == {e \in ToSet(x.kids) : e.tag = "layout"}
           layouts == Among(x.kids, P)
<1>3. layouts \in Seq(Elements) /\ ToSet(layouts) \subseteq U
  <2>1. x.kids \in Seq(Elements)
    BY <1>2, ElementsHold
  <2> DEFINE k == x.kids
  <2>2. layouts \in Seq(Elements) /\ ToSet(layouts) = ToSet(k) \cap P
    <3> HIDE DEF P
    <3> QED BY <2>1, AmongSeq
  <2> HIDE DEF layouts
  <2> QED BY <1>9, <2>2
<1> DEFINE Q == {e \in ToSet(layouts) : e.id # None /\ Lower[e.id] = LayoutId}
           a == Among(layouts, Q)
           all == findLayout(x)
<1>4. all = a \o layouts
  BY DEF findLayout, Called
<1>5. a \in Seq(Elements) /\ ToSet(a) \subseteq ToSet(layouts)
  <2> HIDE DEF layouts, Q
  <2> QED BY <1>3, AmongSeq
<1>6. all \in Seq(Elements) /\ ToSet(all) \subseteq U
  <2> HIDE DEF layouts, a, all
  <2> QED BY <1>3, <1>4, <1>5, ConcatFacts
<1>7. all # <<>>
  BY DEF x
<1>8. all[1] \in U
  <2> HIDE DEF all
  <2> QED BY <1>6, <1>7 DEF ToSet
<1> QED BY <1>8 DEF x, U

-----------------------------------------------------------------------------
(* The elements of the document, and the groups of names.                         *)
Known == ToSet(Under(Document)) \cup {GroupFor(name) : name \in DOMAIN Lower}

(* They hold each other.                                                          *)
LEMMA KnownClosed ==
    ASSUME skin \in Skins, FilesAreSpliced, Parsed
    PROVE  Complete(Known)
<1>1. PICK s, top : s = skin /\ top = Document
  OBVIOUS
<1>2. PICK d \in Nat : top.kids \in Seq(Leveled(s, d))
  BY <1>1, DocumentIn
<1>3. \A e \in ToSet(Under(top)) : ToSet(e.kids) \subseteq ToSet(Under(top))
  BY <1>1, <1>2, UnderKids
<1>4. \A name \in DOMAIN Lower : ToSet(GroupFor(name).kids) = {}
  BY DEF GroupFor, Bare, ToSet
<1> QED BY <1>1, <1>3, <1>4 DEF Known, Complete

(* The tables of a layout, and its root, are of the document.                     *)
Rooted == doc # <<>> => Parsed /\ Holds(Known) /\ tree[Root].el = doc.layout

(* They are from the beginning.                                                   *)
LEMMA ExpandLayoutRoots ==
    ASSUME skin \in Skins, FilesAreSpliced, ExpandLayout, reading' = reading
    PROVE  Rooted'
<1>1. PICK s, top : s = skin /\ top = Document
  OBVIOUS
<1>2. PICK d \in Nat : top.kids \in Seq(Leveled(s, d))
  BY <1>1, DocumentIn DEF ExpandLayout
<1>3. PICK layout : layout = findLayout(findContainer(top)[1])[1]
  OBVIOUS
<1>4. PICK defs : defs = collectGroupdefs(top)
  OBVIOUS
<1>5. PICK sends, more : sends = LayoutSends(top, layout)
                         /\ more = collectSendparams(Tagged(top, "sendparams"), <<>>)
  OBVIOUS
<1>6. /\ doc' = [def |-> defs, layout |-> layout, sends |-> sends, pageSends |-> more]
      /\ tree' = Extended(<<>>, Root, Node(layout, None, None, None, {}, None))
      /\ Parsed
  BY <1>1, <1>3, <1>4, <1>5 DEF ExpandLayout
<1>7. doc'.def = defs /\ doc'.layout = layout
  BY <1>6
<1>8. tree'[Root].el = layout
  BY <1>6 DEF Extended, Node
<1>9. Parsed' /\ Known' = Known
  BY <1>6 DEF Parsed, Known, Document
<1>10. layout \in Known /\ \A key \in DOMAIN defs : defs[key] \in Known
  <2>1. findContainer(top) # <<>> /\ findLayout(findContainer(top)[1]) # <<>>
    BY <1>1 DEF ExpandLayout
  <2>2. layout \in ToSet(Under(top))
    BY <1>1, <1>2, <1>3, <2>1, LayoutUnder
  <2>3. \A key \in DOMAIN defs : defs[key] \in ToSet(Under(top))
    BY <1>1, <1>2, <1>4, DefsUnder
  <2> QED BY <1>1, <2>2, <2>3 DEF Known
<1>11. Complete(Known)
  BY <1>6, KnownClosed
<1>12. Holds(Known)'
  BY <1>7, <1>9, <1>10, <1>11 DEF Holds, Complete
<1> QED BY <1>7, <1>8, <1>9, <1>12 DEF Rooted

-----------------------------------------------------------------------------
(* What a step leaves of a tree.                                                  *)
(* A widget that is made while a page is shown is in a page.                      *)
MadeWidget(new, node) == Makes(new, node) /\ (Loaded => Paged(node.up) \/ Pages(node.up) # {})

(* visit() makes one widget, or none.                                             *)
LEMMA VisitMakes ==
    ASSUME TreeOk, CallsInv, VisitPlain \/ (VisitInstance /\ ~InFlight(doc.def[DefOf(doc, Element)].id))
    PROVE  \E new, node : MadeWidget(new, node)
<1>1. Visiting /\ UNCHANGED <<doc, bound>>
  BY DEF VisitPlain, VisitInstance
<1>2. PICK e, r, f : Unrolled(e, r, f)
  BY <1>1, Unrolls
<1>3. PICK el, def, new, into :
         el = Element /\ def = DefOf(doc, Element) /\ new = NewNode /\ into = e.into
  OBVIOUS
<1>4. Top = e /\ Sound(e, ToSet(r)) /\ el \in Elements
  BY <1>2, <1>3 DEF Unrolled
<1>5. PICK value : tree' = Extended(tree, new, Node(el, def, into, e.scope, e.via, value))
  <2>1. CASE VisitPlain
    <3>1. tree' = Extended(tree, NewNode, Node(Element, None, Top.into, Top.scope, Top.via,
                                             Sent(sendparams, Top.scope, Element, Element.value)))
          /\ def = None
      BY <1>3, <2>1 DEF VisitPlain
    <3> QED BY <1>3, <1>4, <3>1
  <2>2. CASE VisitInstance /\ ~InFlight(doc.def[DefOf(doc, Element)].id)
    <3>1. tree' = Extended(tree, NewNode, Node(Element, DefOf(doc, Element), Top.into, Top.scope, Top.via, Element.value))
      BY <2>2 DEF VisitInstance
    <3> QED BY <1>3, <1>4, <3>1
  <2> QED BY <2>1, <2>2
<1> DEFINE node == Node(el, def, into, e.scope, e.via, value)
<1>6. /\ DOMAIN node = Fields /\ node.el = el /\ node.def = def /\ node.up = into
      /\ node.scope = e.scope /\ node.page = None
  BY DEF Node, Fields
<1> HIDE DEF node
<1>7. Makes(new, node)
  <2>1. into \in DOMAIN tree /\ e.scope = Hands(into)
    BY <1>3, <1>4 DEF Sound
  <2> QED BY <1>1, <1>3, <1>4, <1>5, <1>6, <2>1 DEF Makes, node
<1>8. Loaded => Paged(node.up) \/ Pages(node.up) # {}
  BY <1>3, <1>4, <1>6 DEF Sound
<1> QED BY <1>7, <1>8 DEF MadeWidget

(* Every widget stays, and what is new is in a page once the scripts are loaded.  *)
Keeps ==
    /\ doc' = doc /\ bound' = bound /\ Laws /\ Laws'
    /\ \A K : K = DOMAIN tree => SameOn(K)
    /\ \A m \in DOMAIN tree' : m \notin DOMAIN tree /\ Loaded => Pages(m)' # {}

(* A steady step keeps all,                                                       *)
LEMMA SteadyKeeps == TreeOk /\ Steady => Keeps
<1> SUFFICES ASSUME TreeOk, Steady PROVE Keeps
  OBVIOUS
<1>1. SteadyTree /\ \A K : K = DOMAIN tree => SameOn(K)
  BY SteadyFacts DEF TreeOk
<1> QED BY <1>1 DEF Keeps, Steady, SteadyTree

(* and so does every step of the Expander.                                        *)
LEMMA ExpanderKeepsTree == TreeOk /\ CallsInv /\ ExpanderStep => Keeps
<1> SUFFICES ASSUME TreeOk, CallsInv, ExpanderStep PROVE Keeps
  OBVIOUS
<1>1. CASE UNCHANGED <<doc, bound, tree>>
  BY <1>1, SteadySame, SteadyKeeps
<1>2. CASE EnterBody
  <2>1. todo # <<>> /\ UNCHANGED <<doc, bound>> /\ todo[1].op = "body"
    BY <1>2 DEF EnterBody, Running, Top
  <2>2. PICK n, value : tree' = [tree EXCEPT ![n].value = value]
    BY <1>2 DEF EnterBody
  <2>3. \A m \in DOMAIN tree : DOMAIN tree[m] = Fields
    BY DEF TreeOk, Nodes
  <2>4. DOMAIN tree' = DOMAIN tree
    BY <2>2
  <2>5. ASSUME NEW m \in DOMAIN tree
        PROVE  /\ DOMAIN tree'[m] = Fields
               /\ tree'[m].el = tree[m].el /\ tree'[m].def = tree[m].def /\ tree'[m].up = tree[m].up
               /\ tree'[m].scope = tree[m].scope /\ tree'[m].via = tree[m].via
               /\ tree'[m].page = tree[m].page
    <3>1. tree'[m] = IF m = n THEN [tree[n] EXCEPT !.value = value] ELSE tree[m]
      BY <2>2
    <3> QED BY <2>3, <3>1 DEF Fields
  <2>6. Steady
    BY <2>1, <2>4, <2>5 DEF Steady
  <2> QED BY <2>6, SteadyKeeps
<1>3. CASE VisitPlain \/ (VisitInstance /\ ~InFlight(doc.def[DefOf(doc, Element)].id))
  <2>1. PICK new, node : MadeWidget(new, node)
    BY <1>3, VisitMakes
  <2>2. Makes(new, node) /\ Tables /\ Trunk /\ Nodes
    BY <2>1 DEF MadeWidget, TreeOk
  <2>3. MadeTree(new, node) /\ (\A K : K = DOMAIN tree => SameOn(K)) /\ MadePlace(new, node)
    BY <2>2, MadeFacts, MadePlaced
  <2>4. Loaded => Pages(new)' # {}
    BY <2>1, <2>3 DEF MadePlace, MadeWidget
  <2> QED BY <2>2, <2>3, <2>4 DEF Keeps, MadeTree, Makes
<1>4. \/ UNCHANGED <<doc, bound, tree>> \/ EnterBody
      \/ VisitPlain \/ (VisitInstance /\ ~InFlight(doc.def[DefOf(doc, Element)].id))
  BY DEF ExpanderStep, EndLoop, VisitInstance, ApplyInherit, InjectContent, LeaveGroup
<1> QED BY <1>1, <1>2, <1>3, <1>4

(* What scripts and pages leave.                                                  *)
LEMMA SetGroupIdKeeps ==
    ASSUME TreeOk, NEW n \in DOMAIN tree, NEW name, SetGroupId(n, name)
    PROVE  Keeps
<1>1. UNCHANGED <<doc, bound>> /\ tree' = [tree EXCEPT ![n].groupid = name]
  BY DEF SetGroupId
<1>2. \A m \in DOMAIN tree : DOMAIN tree[m] = Fields
  BY DEF TreeOk, Nodes
<1>3. DOMAIN tree' = DOMAIN tree
  BY <1>1
<1>4. ASSUME NEW m \in DOMAIN tree
      PROVE  /\ DOMAIN tree'[m] = Fields
             /\ tree'[m].el = tree[m].el /\ tree'[m].def = tree[m].def /\ tree'[m].up = tree[m].up
             /\ tree'[m].scope = tree[m].scope /\ tree'[m].via = tree[m].via
             /\ tree'[m].page = tree[m].page
  <2>1. tree'[m] = IF m = n THEN [tree[n] EXCEPT !.groupid = name] ELSE tree[m]
    BY <1>1
  <2> QED BY <1>2, <2>1 DEF Fields
<1> QED BY <1>1, <1>3, <1>4, SteadyKeeps DEF Steady

(* A page that is turned leaves what was not in it.                               *)
KeepsOn(K) == doc' = doc /\ bound' = bound /\ Laws /\ Laws' /\ SameOn(K) /\ DOMAIN tree' = K /\ Root \in K

(* ResolvePage leaves exactly what was not within the groupxfade.                 *)
LEMMA ResolvePageKeeps ==
    ASSUME TreeOk, ResolvePage
    PROVE  \E n \in DOMAIN tree : \E K : /\ KeepsOn(K) /\ n \in K /\ tree[n].el.tag = "groupxfade"
                                         /\ tree[n].def = None /\ n # Root
                                         /\ K = {m \in DOMAIN tree : ~Within(m, n)}
<1>1. PICK n, page, kept : n = Min(Stale) /\ Turns(n, page, kept)
  BY PageTurns
<1>2. doc' = doc /\ bound' = bound
  BY DEF ResolvePage
<1>3. Turned(n, page, kept)
  BY <1>1, <1>2, TurnFacts
<1> QED BY <1>1, <1>2, <1>3 DEF Turns, Turned, KeepsOn

(* A skin that has been read is not read any further.                             *)
LEMMA ReadOnce ==
    ASSUME Parsed, [Next]_vars
    PROVE  UNCHANGED parserVars
<1>1. ~ParserStep
  BY DEF ParserStep, ReadElement, ReadInclude, ReadError, EndElement, EndFile, AtTag, AtEnd
<1> QED BY <1>1 DEF Next, vars, Parse, MakeFrame, Expand, Script, Paint

(* Once a layout is expanded, its skin and its tables stay, and its root does.    *)
LEMMA RootStays ==
    ASSUME TreeInv, CallsInv, doc # <<>>, [Next]_vars
    PROVE  doc' = doc /\ tree'[Root].el = tree[Root].el
<1>1. TreeOk /\ Root \in DOMAIN tree
  BY DEF TreeInv, TreeOk, Trunk
<1>2. ASSUME Keeps PROVE doc' = doc /\ tree'[Root].el = tree[Root].el
  <2>1. PICK K : K = DOMAIN tree
    OBVIOUS
  <2> QED BY <1>1, <1>2, <2>1 DEF Keeps, SameOn
<1>3. CASE UNCHANGED expansionVars
  BY <1>3 DEF expansionVars
<1>4. CASE ExpanderStep
  BY <1>1, <1>2, <1>4, ExpanderKeepsTree
<1>5. CASE LoadScripts
  BY <1>5 DEF LoadScripts
<1>6. CASE Paging
  <2>1. PICK n \in DOMAIN tree, name \in GroupIds : SetGroupId(n, name)
    BY <1>6 DEF Paging
  <2> QED BY <1>1, <1>2, <2>1, SetGroupIdKeeps
<1>7. CASE ResolvePage
  <2>1. PICK K : KeepsOn(K)
    BY <1>1, <1>7, ResolvePageKeeps
  <2> QED BY <2>1 DEF KeepsOn, SameOn
<1>8. ~ExpandLayout
  BY DEF ExpandLayout
<1>9. CASE MakeFrame
  BY <1>4, <1>9 DEF MakeFrame, ExpanderStep
<1> QED BY <1>3, <1>4, <1>5, <1>6, <1>7, <1>8, <1>9
        DEF Next, vars, Parse, Expand, Script, Paint

(* So the tables and the root are of the document in every state.                 *)
LEMMA RootedStep ==
    ASSUME Rooted, TreeInv, CallsInv, skin \in Skins, FilesAreSpliced, [Next]_vars
    PROVE  Rooted'
<1>1. CASE doc # <<>>
  <2>1. Parsed /\ Holds(Known) /\ tree[Root].el = doc.layout
    BY <1>1 DEF Rooted
  <2>2. doc' = doc /\ tree'[Root].el = tree[Root].el /\ reading' = reading
    BY <1>1, <2>1, RootStays, ReadOnce DEF parserVars
  <2>3. Parsed' /\ Known' = Known
    BY <2>1, <2>2 DEF Parsed, Known, Document
  <2>4. Holds(Known)'
    BY <2>1, <2>2, <2>3 DEF Holds, Complete
  <2> QED BY <2>1, <2>2, <2>3, <2>4 DEF Rooted
<1>2. CASE doc = <<>>
  <2>1. CASE ExpandLayout
    <3>1. UNCHANGED parserVars
      BY <2>1, ReadOnce DEF ExpandLayout
    <3> QED BY <2>1, <3>1, ExpandLayoutRoots DEF parserVars
  <2>2. CASE ~ExpandLayout
    <3>1. ~ExpanderStep
      BY <1>2 DEF TreeInv, ExpanderStep, EndLoop, VisitInstance, ApplyInherit, EnterBody, InjectContent, LeaveGroup,
                VisitPlain, Visiting, Running
    <3>2. doc' = doc
      BY <2>2, <3>1 DEF Next, vars, Parse, MakeFrame, Expand, ExpanderStep, Script, Paint, LoadScripts, Paging,
                        SetGroupId, ResolvePage, expansionVars
    <3> QED BY <1>2, <3>2 DEF Rooted
  <2> QED BY <2>1, <2>2
<1> QED BY <1>1, <1>2

-----------------------------------------------------------------------------
(* What is in a finished tree.                                                    *)
(* Every widget is one that the one around it unfolds to.                         *)
LEMMA ChildUnfolds ==
    ASSUME TreeOk, todo = <<>>, NEW n \in DOMAIN tree, NEW m \in Children(n)
    PROVE  tree[m].el \in ToSet(Unfolding(n))
<1> DEFINE u == Unfolding(n)
           ch == Children(n)
<1>2. Grown(n, <<>>)
  <2>1. Debt(todo, n, tree[n].el, Open(n)) = <<>>
    BY DebtNil
  <2> QED BY <2>1 DEF TreeOk, Growths
<1>3. PICK c \in Seq(Elements) :
         /\ Cardinality(ch) = Len(c)
         /\ \A k \in ch : Nth(k) \in 1 .. Len(c) /\ tree[k].el = c[Nth(k)]
         /\ c \o <<>> = u
  BY <1>2 DEF Grown
<1> HIDE DEF u, ch
<1>4. c = u /\ DOMAIN c = 1 .. Len(c)
  BY <1>3
<1>5. m \in ch
  BY DEF ch
<1>6. tree[m].el \in ToSet(c)
  BY <1>3, <1>4, <1>5 DEF ToSet
<1> QED BY <1>4, <1>6 DEF u

(* What is in the tree before any page is shown is of the document, and visited.  *)
LEMMA TreeFits ==
    ASSUME TreeOk, todo = <<>>, \A n \in DOMAIN tree : ~Paged(n), NEW K, Holds(K), tree[Root].el = doc.layout
    PROVE  \A n \in DOMAIN tree : tree[n].el \in Fit(K)
<1> DEFINE P == {n \in DOMAIN tree : tree[n].el \in Fit(K)}
<1>1. Tables /\ Trunk /\ Nodes /\ Root \in DOMAIN tree
  BY DEF TreeOk, Trunk
<1>2. Root \in P
  BY <1>1 DEF Fit, Holds, Tables, LayoutOk, isScaffolding
<1>3. ASSUME NEW m \in DOMAIN tree, m # Root /\ tree[m].up \in DOMAIN tree => tree[m].up \in P
      PROVE  m \in P
  <2>1. CASE m = Root
    BY <1>2, <2>1
  <2>2. CASE m # Root
    <3> DEFINE n == tree[m].up
    <3>1. n \in P /\ n \in DOMAIN tree /\ m \in Children(n)
      BY <1>1, <1>3, <2>2 DEF Trunk, Children
    <3>2. tree[n].el \in K /\ tree[n].el \in Elements /\ ~Paged(n)
          /\ (n # Root => tree[n].def = DefOf(doc, tree[n].el))
      <4> HIDE DEF n
      <4> QED BY <1>1, <3>1 DEF Fit, Nodes
    <3> HIDE DEF n
    <3>3. ToSet(Unfolding(n)) \subseteq Fit(K)
      BY <1>1, <3>1, <3>2, UnfoldingFits
    <3>4. tree[m].el \in ToSet(Unfolding(n))
      BY <3>1, ChildUnfolds
    <3> QED BY <3>3, <3>4
  <2> QED BY <2>1, <2>2
<1>4. DOMAIN tree \subseteq P
  <2> HIDE DEF P
  <2>1. PICK D : D = DOMAIN tree
    OBVIOUS
  <2>2. D \subseteq P
    BY <1>1, <1>3, <2>1, TreeInduction
  <2> QED BY <2>1, <2>2
<1> QED BY <1>4

-----------------------------------------------------------------------------
(* Whom the scripts are bound to.                                                 *)
(* The least of some widgets is one of them, and it is a widget.                  *)
LEMMA LeastWidget ==
    ASSUME Trunk, NEW I, I \subseteq DOMAIN tree, I # {}
    PROVE  Min(I) \in I /\ Min(I) \in DOMAIN tree /\ Min(I) # None
<1>1. I \subseteq Nat /\ None \notin Nat
  BY NamesAssumption DEF Trunk
<1>2. \E m \in I : \A k \in I : m <= k
  BY <1>1, LeastNat
<1>3. Min(I) \in I
  BY <1>2 DEF Min
<1> QED BY <1>1, <1>3

(* What an owner is looked for by finds: a widget that has the name for its id,   *)
(* its tag or its inherit_group, or else, if none has it for an id, one that was  *)
(* made of the name.                                                              *)
Finds(name, k) ==
    /\ k \in DOMAIN tree /\ k # None
    /\ \/ k \in Named(name) \cup OfTag(name) \cup Inheriting(name)
       \/ Named(name) = {} /\ k \in MadeOf(name)

(* findOwnerWidget finds so, whenever there is something to find.                 *)
LEMMA OwnerFinds ==
    ASSUME Trunk, NEW name
    PROVE  /\ findOwnerWidget(name) # None => Finds(name, findOwnerWidget(name))
           /\ name # None /\ Named(name) \cup MadeOf(name) # {} => findOwnerWidget(name) # None
           /\ findOwnerWidget(name) # None => name # None
<1> DEFINE I == Bearing(name)
<1>1. I \subseteq DOMAIN tree /\ (Named(name) \cup MadeOf(name) # {} => I # {})
  BY DEF Bearing, Named, OfTag, Inheriting, MadeOf
<1>2. findOwnerWidget(name) = IF name = None \/ I = {} THEN None ELSE Min(I)
  BY DEF findOwnerWidget
<1>3. \A k \in I : \/ k \in Named(name) \cup OfTag(name) \cup Inheriting(name)
                   \/ Named(name) = {} /\ k \in MadeOf(name)
  BY DEF Bearing
<1> HIDE DEF I
<1>4. I # {} => Min(I) \in I /\ Min(I) \in DOMAIN tree /\ Min(I) # None
  BY <1>1, LeastWidget
<1> QED BY <1>1, <1>2, <1>3, <1>4 DEF Finds

(* Two of some things are more than one.                                          *)
LEMMA TwoAreMore ==
    ASSUME NEW I, IsFiniteSet(I), NEW x \in I, NEW y \in I, x # y
    PROVE  Cardinality(I) > 1
<1>1. Cardinality(I \ {x}) = Cardinality(I) - 1 /\ IsFiniteSet(I \ {x})
  BY FS_RemoveElement
<1>2. Cardinality(I \ {x}) # 0
  BY <1>1, FS_EmptySet
<1>3. Cardinality(I \ {x}) \in Nat /\ Cardinality(I) \in Nat
  BY <1>1, FS_CardinalityType
<1> QED BY <1>1, <1>2, <1>3

-----------------------------------------------------------------------------
(* A tree in which no page has been shown.                                        *)
Fresh ==
    /\ Trunk /\ Standing = DOMAIN tree
    /\ \A n \in DOMAIN tree : /\ tree[n].el \in Known /\ tree[n].el.tag # "groupdef"
                              /\ tree[n].def # None => tree[n].def \in DOMAIN doc.def
    /\ \A d \in DOMAIN doc.def : doc.def[d] \in Known /\ doc.def[d].tag = "groupdef"

(* The scripts of an element that is in the tree, or a groupdef, are the skin's.  *)
LEMMA KnownScripted ==
    ASSUME skin \in Skins, FilesAreSpliced, Parsed,
           NEW S \in Known, IsScope(S), OwnScripts(S) # {}
    PROVE  S \in Scripted
<1>1. ASSUME S \notin ToSet(Under(Document)) PROVE FALSE
  <2>1. S.kids = <<>>
    BY <1>1 DEF Known, GroupFor, Bare
  <2>2. PICK r : r \in ToSet(ScriptsIn(<<>>, None))
    BY <2>1 DEF OwnScripts
  <2>3. PICK s : s = skin
    OBVIOUS
  <2>4. <<>> \in Seq(Leveled(s, 0)) /\ DOMAIN <<>> = {} /\ s \in Skins /\ 0 \in Nat
    BY <2>3
  <2>5. PICK i \in DOMAIN <<>> : TRUE
    <3> HIDE DEF Leveled
    <3> QED BY <2>2, <2>4, ScriptsFirst
  <2> QED BY <2>4, <2>5
<1> QED BY <1>1 DEF Scripted

(* What a scope has for its own is noted with its id,                             *)
LEMMA ScriptedNoted ==
    ASSUME skin \in Skins, FilesAreSpliced, Parsed,
           NEW S \in Scripted, NEW f \in OwnScripts(S)
    PROVE  [file |-> f, owner |-> S.id] \in ToSet(refs)
<1>1. PICK s, doct : s = skin /\ doct = Document
  OBVIOUS
<1>2. PICK d \in Nat : doct.kids \in Seq(Leveled(s, d))
  BY <1>1, DocumentIn
<1>3. S \in ToSet(Under(doct)) /\ IsScope(S) /\ s \in Skins
  BY <1>1 DEF Scripted
<1>4. S.kids \in Seq(Leveled(s, d))
  <2>1. Under(doct) \in Seq(Leveled(s, d))
    BY <1>2, <1>3, UnderSeq
  <2>2. S \in Leveled(s, d)
    <3> DEFINE L == Leveled(s, d)
    <3>1. Under(doct) \in Seq(L)
      BY <2>1
    <3> HIDE DEF L
    <3>2. ToSet(Under(doct)) \subseteq L
      BY <3>1 DEF ToSet
    <3> QED BY <1>3, <3>2 DEF L
  <2> QED BY <1>3, <2>2, LeveledClosed
<1>5. PICK r : r \in ToSet(ScriptsIn(S.kids, None)) /\ r.owner = None /\ f = r.file
  BY DEF OwnScripts
<1>6. r = [file |-> f, owner |-> None]
  <2>1. PICK el, sc : r \in ToSet(Noted(el, sc))
    BY <1>3, <1>4, <1>5, ScriptsReach
  <2> QED BY <1>5, <2>1, NotedIs
<1>7. [file |-> f, owner |-> S.id] \in ToSet(ScriptsIn(S.kids, S.id))
  BY <1>3, <1>4, <1>5, <1>6, OwnerAround
<1>8. [file |-> f, owner |-> S.id] \in ToSet(ScriptsIn(doct.kids, None))
  BY <1>2, <1>3, <1>7, ScriptsWithin
<1> QED BY <1>1, <1>8, DocumentScripts

(* and what is noted with an id is such a scope's own.                            *)
LEMMA NotedScripted ==
    ASSUME skin \in Skins, FilesAreSpliced, Parsed,
           NEW r \in ToSet(refs), r.owner # None
    PROVE  \E S \in Scripted : S.id = r.owner /\ r.file \in OwnScripts(S)
<1>1. PICK s, doct : s = skin /\ doct = Document
  OBVIOUS
<1>2. PICK d \in Nat : doct.kids \in Seq(Leveled(s, d))
  BY <1>1, DocumentIn
<1>3. r \in ToSet(ScriptsIn(doct.kids, None)) /\ s \in Skins
  BY <1>1, DocumentScripts
<1>4. PICK e \in ToSet(Under(doct)) : IsScope(e) /\ e.id = r.owner /\ r.file \in OwnScripts(e)
  BY <1>2, <1>3, OwnerScope
<1> QED BY <1>1, <1>4 DEF Scripted

-----------------------------------------------------------------------------
(* Where the scripts of one scope go, in a tree in which no page was shown.       *)

(* The object that scripts get for a widget is the one of the first of its id,    *)
LEMMA HandleIsFirst ==
    ASSUME Fresh, NEW m \in DOMAIN tree
    PROVE  Handle(m) = FirstOf(m) /\ FirstOf(m) \in DOMAIN tree
<1>1. CASE tree[m].el.id = None
  BY <1>1 DEF Handle, FirstOf
<1>2. CASE tree[m].el.id # None
  <2> DEFINE I == Named(tree[m].el.id)
  <2>1. I \subseteq DOMAIN tree /\ I # {} /\ Handle(m) = Min(I)
    BY <1>2 DEF Handle, Named
  <2>2. I = {k \in Standing : tree[k].el.id = tree[m].el.id}
    BY DEF Named, Fresh
  <2>3. FirstOf(m) = Min(I)
    BY <1>2, <2>2 DEF FirstOf
  <2> HIDE DEF I
  <2>4. Min(I) \in DOMAIN tree
    BY <2>1, LeastWidget DEF Fresh
  <2> QED BY <2>1, <2>3, <2>4
<1> QED BY <1>1, <1>2

(* the same for all that have the id,                                             *)
LEMMA SameFirst ==
    ASSUME NEW m \in DOMAIN tree, NEW k \in DOMAIN tree,
           tree[m].el.id # None, tree[k].el.id = tree[m].el.id
    PROVE  FirstOf(k) = FirstOf(m)
BY DEF FirstOf

(* and it is found by the id.                                                     *)
LEMMA FoundById ==
    ASSUME Fresh, NEW m \in DOMAIN tree, tree[m].el.id # None
    PROVE  Handle(findOwnerWidget(tree[m].el.id)) = FirstOf(m)
<1> DEFINE name == tree[m].el.id
           k == findOwnerWidget(name)
<1>1. m \in Named(name) /\ name # None
  BY DEF Named
<1>2. Bearing(name) = Named(name) /\ k = Min(Named(name))
  BY <1>1 DEF Bearing, findOwnerWidget
<1>3. Named(name) \subseteq DOMAIN tree /\ Named(name) # {}
  BY <1>1 DEF Named
<1>4. k \in Named(name) /\ k \in DOMAIN tree
  <2> HIDE DEF name
  <2> QED BY <1>2, <1>3, LeastWidget DEF Fresh
<1>5. tree[k].el.id = tree[m].el.id
  BY <1>4 DEF Named
<1> HIDE DEF k
<1>6. Handle(k) = FirstOf(m)
  BY <1>4, <1>5, HandleIsFirst, SameFirst
<1> QED BY <1>6 DEF k

(* The instances of a groupdef that have ids.                                     *)
InstancesOf(name) ==
    {n \in DOMAIN tree : tree[n].def # None /\ doc.def[tree[n].def].id = name /\ tree[n].el.id # None}

(* Owners has their ids if there are several, and else the name.                  *)
LEMMA OwnersAre ==
    ASSUME NEW name
    PROVE  Owners(name) = IF Cardinality(InstancesOf(name)) > 1
                          THEN {tree[n].el.id : n \in InstancesOf(name)} ELSE {name}
BY DEF Owners, InstancesOf

(* They are of the scope that has scripts, if that is clear.                      *)
LEMMA InstancesMatch ==
    ASSUME Fresh, NEW S \in Scripted, Clear(S)
    PROVE  /\ \A n \in DOMAIN tree : S.id \in NamesOf(n) => Source(n) = S
           /\ \A n \in InstancesOf(S.id) : Source(n) = S /\ n \in DOMAIN tree /\ tree[n].el.id # None
           /\ \A n \in DOMAIN tree : Source(n) = S => tree[n].el.id # None
           /\ \A n \in DOMAIN tree : Source(n) = S /\ tree[n].def # None => n \in InstancesOf(S.id)
           /\ \A n \in DOMAIN tree : ContentOf(n) = S.id => S \in Injected(n)
           /\ (\E m, n \in DOMAIN tree : Source(m) = S /\ ContentOf(n) = S.id) => Named(S.id) # {}
<1>1. Standing = DOMAIN tree
  BY DEF Fresh
<1>2. \A n \in DOMAIN tree : S.id \in NamesOf(n) => Source(n) = S
  BY <1>1 DEF Clear
<1>3. \A n \in DOMAIN tree : Source(n) = S => tree[n].el.id # None
  BY <1>1 DEF Clear
<1>4. \A n \in InstancesOf(S.id) : Source(n) = S /\ n \in DOMAIN tree /\ tree[n].el.id # None
  BY <1>2 DEF InstancesOf, NamesOf, Ids
<1>5. \A n \in DOMAIN tree : Source(n) = S /\ tree[n].def # None => n \in InstancesOf(S.id)
  BY <1>3 DEF InstancesOf, Source
<1>6. \A n \in DOMAIN tree : ContentOf(n) = S.id => S \in Injected(n)
  BY <1>1 DEF Clear
<1>7. (\E m, n \in DOMAIN tree : Source(m) = S /\ ContentOf(n) = S.id) => \E n \in DOMAIN tree : tree[n].el.id = S.id
  <2> DEFINE insts == {n \in DOMAIN tree : Source(n) = S}
             holders == {n \in DOMAIN tree : ContentOf(n) = S.id}
  <2>1. insts # {} /\ holders # {} => \E n \in insts : tree[n].el.id = S.id
    BY <1>1 DEF Clear
  <2>2. ASSUME NEW m \in DOMAIN tree, NEW n \in DOMAIN tree, Source(m) = S, ContentOf(n) = S.id
        PROVE  \E k \in DOMAIN tree : tree[k].el.id = S.id
    <3>1. m \in insts /\ n \in holders
      BY <2>2
    <3> QED BY <2>1, <3>1
  <2> QED BY <2>2
<1> QED BY <1>2, <1>3, <1>4, <1>5, <1>6, <1>7 DEF Named

(* Whoever has the scripts of a scope for its group is called like it.            *)
CalledLike(m, S) ==
    /\ S.id \in NamesOf(m) \cup {ContentOf(m)}
    /\ Clear(S) => Source(m) = S \/ S \in Injected(m)

(* In a clear scope, it is an instance of it or has it for its content.           *)
LEMMA OwnerIsInstance ==
    ASSUME Fresh, NEW S \in Scripted, findOwnerWidget(S.id) # None, NEW o \in Owners(S.id)
    PROVE  \E m \in DOMAIN tree : Handle(findOwnerWidget(o)) = FirstOf(m) /\ CalledLike(m, S)
<1>0. ASSUME NEW m \in DOMAIN tree, S.id \in NamesOf(m) \cup {ContentOf(m)} PROVE CalledLike(m, S)
  BY <1>0, InstancesMatch DEF CalledLike
<1>1. CASE Cardinality(InstancesOf(S.id)) > 1
  <2>1. PICK m \in InstancesOf(S.id) : o = tree[m].el.id
    BY <1>1, OwnersAre
  <2>2. S.id \in NamesOf(m) /\ m \in DOMAIN tree /\ tree[m].el.id # None
    BY DEF InstancesOf, NamesOf, Ids
  <2>3. Handle(findOwnerWidget(tree[m].el.id)) = FirstOf(m)
    BY <2>2, FoundById
  <2> QED BY <1>0, <2>1, <2>2, <2>3
<1>2. CASE ~(Cardinality(InstancesOf(S.id)) > 1)
  <2>1. o = S.id
    BY <1>2, OwnersAre
  <2>2. PICK k : k = findOwnerWidget(S.id)
    OBVIOUS
  <2>3. Finds(S.id, k)
    BY <2>2, OwnerFinds DEF Fresh
  <2>4. k \in DOMAIN tree /\ S.id \in NamesOf(k) \cup {ContentOf(k)}
    BY <2>3 DEF Finds, Named, OfTag, Inheriting, MadeOf, NamesOf, ContentOf, Ids
  <2>5. Handle(k) = FirstOf(k)
    BY <2>4, HandleIsFirst
  <2> QED BY <1>0, <2>1, <2>2, <2>4, <2>5
<1> QED BY <1>1, <1>2

(* And every instance is found, by the first of its id.                           *)
LEMMA InstanceIsOwner ==
    ASSUME Fresh, NEW S \in Scripted, Clear(S), NEW n \in DOMAIN tree, Source(n) = S
    PROVE  /\ findOwnerWidget(S.id) # None
           /\ \E o \in Owners(S.id) : Handle(findOwnerWidget(o)) = FirstOf(n)
<1>1. S.id # None /\ tree[n].el.id # None /\ Trunk
  BY InstancesMatch DEF Scripted, IsScope, Fresh
<1>2. findOwnerWidget(S.id) # None
  <2>1. n \in Named(S.id) \cup MadeOf(S.id)
    BY DEF Source, Named, MadeOf
  <2> QED BY <1>1, <2>1, OwnerFinds
<1>3. tree[n].def # None <=> S.tag = "groupdef"
  BY DEF Source, Fresh
<1>4. CASE Cardinality(InstancesOf(S.id)) > 1
  <2>1. PICK m : m \in InstancesOf(S.id)
    <3>1. InstancesOf(S.id) # {}
      BY <1>4, FS_EmptySet
    <3> QED BY <3>1
  <2>2. S.tag = "groupdef"
    <3>1. Source(m) = S /\ m \in DOMAIN tree /\ tree[m].def # None
      BY <2>1, InstancesMatch DEF InstancesOf
    <3> QED BY <3>1 DEF Source, Fresh
  <2>3. n \in InstancesOf(S.id)
    BY <1>3, <2>2, InstancesMatch
  <2>4. tree[n].el.id \in Owners(S.id)
    BY <1>4, <2>3, OwnersAre
  <2>5. Handle(findOwnerWidget(tree[n].el.id)) = FirstOf(n)
    BY <1>1, FoundById
  <2> QED BY <1>2, <2>4, <2>5
<1>5. CASE ~(Cardinality(InstancesOf(S.id)) > 1)
  <2>1. S.id \in Owners(S.id)
    BY <1>5, OwnersAre
  <2>2. PICK k : k = findOwnerWidget(S.id)
    OBVIOUS
  <2>3. Finds(S.id, k) /\ k \in DOMAIN tree
    BY <1>1, <1>2, <2>2, OwnerFinds DEF Finds
  <2>4. Source(k) = S
    <3>1. CASE k \in Named(S.id) \cup OfTag(S.id) \cup Inheriting(S.id)
      BY <2>3, <3>1, InstancesMatch DEF Named, OfTag, Inheriting, NamesOf
    <3>2. CASE Named(S.id) = {} /\ k \in MadeOf(S.id)
      <4>1. S.id \in NamesOf(k) \/ ContentOf(k) = S.id
        BY <3>2 DEF MadeOf, NamesOf, ContentOf, Ids
      <4>2. ContentOf(k) # S.id
        BY <2>3, <3>2, InstancesMatch
      <4> QED BY <2>3, <4>1, <4>2, InstancesMatch
    <3> QED BY <2>3, <3>1, <3>2 DEF Finds
  <2>5. FirstOf(k) = FirstOf(n)
    <3>1. CASE tree[n].def = None
      <4>1. tree[k].def = None
        BY <1>3, <2>3, <2>4, <3>1 DEF Source, Fresh
      <4>2. tree[k].el.id = tree[n].el.id
        BY <2>4, <3>1, <4>1 DEF Source
      <4> QED BY <1>1, <2>3, <4>2, SameFirst
    <3>2. CASE tree[n].def # None
      <4>1. tree[k].def # None
        BY <1>3, <2>3, <2>4, <3>2 DEF Source, Fresh
      <4>2. n \in InstancesOf(S.id) /\ k \in InstancesOf(S.id)
        BY <2>3, <2>4, <3>2, <4>1, InstancesMatch
      <4>3. IsFiniteSet(InstancesOf(S.id))
        BY <1>1, FS_Subset DEF InstancesOf, Trunk
      <4>4. k = n
        BY <1>5, <4>2, <4>3, TwoAreMore
      <4> QED BY <4>4
    <3> QED BY <3>1, <3>2
  <2>6. Handle(k) = FirstOf(n)
    BY <2>3, <2>5, HandleIsFirst
  <2> QED BY <1>2, <2>1, <2>2, <2>6
<1> QED BY <1>4, <1>5

(* Each instance of a clear scope has its scripts among some bindings, and each   *)
(* of the bindings is of a script to what is called like its scope.               *)
ServedBy(B) ==
    \A n \in Standing :
        IsScope(Source(n)) /\ tree[n].el.id # None /\ Clear(Source(n)) =>
            \A script \in OwnScripts(Source(n)) : <<script, FirstOf(n)>> \in B
AnsweredBy(B) ==
    \A b \in B : \E scope \in Scripted, n \in Standing :
        b[1] \in OwnScripts(scope) /\ b[2] = FirstOf(n) /\ CalledLike(n, scope)

(* What the widgets have for scripts stays with them.                             *)
Stable ==
    /\ doc' = doc /\ reading' = reading /\ Standing' = Standing
    /\ \A m \in Standing : tree'[m].el = tree[m].el /\ tree'[m].def = tree[m].def

(* So what is clear, served and answered stays that.                              *)
LEMMA StableScripts ==
    ASSUME Stable, NEW B
    PROVE  PagesComeLater' = PagesComeLater /\ ServedBy(B)' = ServedBy(B) /\ AnsweredBy(B)' = AnsweredBy(B)
<1>1. \A n \in Standing : /\ tree'[n].el = tree[n].el
                          /\ Source(n)' = Source(n) /\ NamesOf(n)' = NamesOf(n)
                          /\ ContentOf(n)' = ContentOf(n) /\ Injected(n)' = Injected(n)
  BY DEF Stable, Source, NamesOf, MadeTag, Ids, ContentOf, Injected, Lookup
<1>2. Scripted' = Scripted
  BY DEF Stable, Scripted, Document
<1>3. Standing' = Standing
  BY DEF Stable
<1>4. PagesComeLater' = PagesComeLater
  BY <1>1, <1>3 DEF PagesComeLater
<1>5. \A S : Clear(S)' = Clear(S)
  BY <1>1, <1>3 DEF Clear
<1>6. \A n \in Standing : FirstOf(n)' = FirstOf(n)
  <2> SUFFICES ASSUME NEW n \in Standing PROVE FirstOf(n)' = FirstOf(n)
    OBVIOUS
  <2>1. {m \in Standing : tree[m].el.id = tree[n].el.id}'
          = {m \in Standing : tree[m].el.id = tree[n].el.id}
    BY <1>1, <1>3
  <2> QED BY <1>1, <2>1 DEF FirstOf
<1>7. ServedBy(B)' = ServedBy(B)
  BY <1>1, <1>3, <1>5, <1>6 DEF ServedBy
<1>8. \A n \in Standing : \A S : CalledLike(n, S)' = CalledLike(n, S)
  BY <1>1, <1>5 DEF CalledLike
<1>9. AnsweredBy(B)' = AnsweredBy(B)
  BY <1>2, <1>3, <1>6, <1>8 DEF AnsweredBy
<1> QED BY <1>4, <1>7, <1>9

(* When scripts are loaded, the tree is fresh.                                    *)
LEMMA LoadedFresh ==
    ASSUME TreeOk, Rooted, doc # <<>>, todo = <<>>, ~Loaded
    PROVE  Fresh /\ Parsed
<1>1. Parsed /\ Holds(Known) /\ tree[Root].el = doc.layout
  BY DEF Rooted
<1>2. Tables /\ Trunk /\ Nodes
  BY DEF TreeOk
<1>3. \A n \in DOMAIN tree : ~Paged(n)
  BY <1>2 DEF Nodes
<1>4. Standing = DOMAIN tree
  BY <1>3 DEF Standing, Pages
<1>5. PICK K : K = Known
  OBVIOUS
<1>6. \A n \in DOMAIN tree : tree[n].el \in Fit(K)
  <2>1. Holds(K)
    BY <1>1, <1>5
  <2> QED BY <1>1, <1>3, <2>1, TreeFits
<1>7. \A n \in DOMAIN tree : tree[n].def # None => tree[n].def \in DOMAIN doc.def
  BY <1>2 DEF Nodes, DefOf, Lookup
<1>8. \A d \in DOMAIN doc.def : doc.def[d] \in Known /\ doc.def[d].tag = "groupdef"
  BY <1>1, <1>2 DEF Holds, Tables, DefsOk
<1> QED BY <1>1, <1>2, <1>4, <1>5, <1>6, <1>7, <1>8 DEF Fresh, Fit, isScaffolding

(* What scripts are bound to.                                                     *)
Bindings == UNION {{<<r.file, Handle(findOwnerWidget(o))>> : o \in Owners(r.owner)} : r \in InWindow}

(* Every instance gets its own scripts by them,                                   *)
LEMMA BindingsServe ==
    ASSUME Fresh, skin \in Skins, FilesAreSpliced, Parsed
    PROVE  ServedBy(Bindings)
<1> SUFFICES ASSUME NEW n \in Standing, IsScope(Source(n)), Clear(Source(n)), NEW f \in OwnScripts(Source(n))
             PROVE  <<f, FirstOf(n)>> \in Bindings
  BY DEF ServedBy
<1>1. PICK S : S = Source(n)
  OBVIOUS
<1>2. n \in DOMAIN tree
  BY DEF Standing
<1>3. S \in Known /\ IsScope(S) /\ f \in OwnScripts(S) /\ Clear(S)
  BY <1>1, <1>2 DEF Source, Fresh
<1>4. S \in Scripted
  BY <1>3, KnownScripted
<1>5. PICK r : r = [file |-> f, owner |-> S.id]
  OBVIOUS
<1>6. r \in ToSet(refs) /\ r.owner = S.id /\ r.file = f
  BY <1>3, <1>4, <1>5, ScriptedNoted
<1>7. findOwnerWidget(S.id) # None /\ \E o \in Owners(S.id) : Handle(findOwnerWidget(o)) = FirstOf(n)
  BY <1>1, <1>2, <1>3, <1>4, InstanceIsOwner
<1>8. r \in InWindow
  BY <1>6, <1>7 DEF InWindow
<1>9. PICK o \in Owners(r.owner) : Handle(findOwnerWidget(o)) = FirstOf(n)
  BY <1>6, <1>7
<1> QED BY <1>6, <1>8, <1>9 DEF Bindings

(* and whatever script a widget gets is of a scope it is called like.             *)
LEMMA BindingsAnswer ==
    ASSUME Fresh, skin \in Skins, FilesAreSpliced, Parsed
    PROVE  AnsweredBy(Bindings)
<1> SUFFICES ASSUME NEW r \in InWindow, NEW o \in Owners(r.owner), NEW b, b = <<r.file, Handle(findOwnerWidget(o))>>
             PROVE  \E scope \in Scripted, n \in Standing :
                        b[1] \in OwnScripts(scope) /\ b[2] = FirstOf(n) /\ CalledLike(n, scope)
  BY DEF AnsweredBy, Bindings
<1>1. r \in ToSet(refs) /\ findOwnerWidget(r.owner) # None
  BY DEF InWindow
<1>2. r.owner # None
  BY <1>1, OwnerFinds DEF Fresh
<1>3. PICK S \in Scripted : S.id = r.owner /\ r.file \in OwnScripts(S)
  BY <1>1, <1>2, NotedScripted
<1>4. PICK m \in DOMAIN tree : Handle(findOwnerWidget(o)) = FirstOf(m) /\ CalledLike(m, S)
  BY <1>1, <1>3, OwnerIsInstance
<1>5. m \in Standing
  BY DEF Fresh
<1> QED BY <1>3, <1>4, <1>5

-----------------------------------------------------------------------------
(* The scripts of each instance are its own,                                      *)
Owned == Loaded /\ PagesComeLater => ServedBy(bound) /\ AnsweredBy(bound)

(* from when they are loaded.                                                     *)
LEMMA LoadScriptsOwn ==
    ASSUME TreeOk, TreeOk', Rooted, skin \in Skins, FilesAreSpliced, LoadScripts, reading' = reading
    PROVE  Owned'
<1>1. doc # <<>> /\ todo = <<>> /\ ~Loaded /\ doc' = doc /\ tree' = tree
  BY DEF LoadScripts
<1>2. PICK B : B = bound'
  OBVIOUS
<1>3. B = Bindings
  BY <1>2 DEF LoadScripts, Bindings
<1>4. Fresh /\ Parsed
  BY <1>1, LoadedFresh
<1>5. Stable
  <2>1. Laws /\ Laws'
    BY AllLaws, PTL DEF TreeOk
  <2>2. PICK K : K = DOMAIN tree
    OBVIOUS
  <2>3. SameOn(K)
    BY <1>1, <2>2 DEF SameOn, TreeOk, Trunk
  <2>4. \A n \in K : Pages(n)' = Pages(n)
    BY <2>1, <2>3, PagesStay
  <2>5. Standing' = Standing
    BY <1>1, <2>2, <2>4 DEF Standing
  <2> QED BY <1>1, <2>5 DEF Stable
<1>6. ServedBy(B) /\ AnsweredBy(B)
  BY <1>3, <1>4, BindingsServe, BindingsAnswer
<1>7. PagesComeLater' = PagesComeLater /\ ServedBy(B)' = ServedBy(B) /\ AnsweredBy(B)' = AnsweredBy(B)
  BY <1>5, StableScripts
<1>8. PagesComeLater' => ServedBy(B)' /\ AnsweredBy(B)'
  BY <1>6, <1>7
<1>9. ServedBy(B)' => ServedBy(bound)'
  BY <1>2 DEF ServedBy
<1>10. AnsweredBy(B)' => AnsweredBy(bound)'
  BY <1>2 DEF AnsweredBy
<1> QED BY <1>8, <1>9, <1>10 DEF Owned

(* A step that leaves every widget leaves the scripts where they are.             *)
LEMMA KeepsOwned ==
    ASSUME Keeps, Loaded, Owned, reading' = reading
    PROVE  Owned'
<1>1. PICK K : K = DOMAIN tree
  OBVIOUS
<1>2. Laws /\ Laws' /\ SameOn(K) /\ doc' = doc /\ bound' = bound
  BY <1>1 DEF Keeps
<1>3. \A n \in K : Pages(n)' = Pages(n)
  BY <1>2, PagesStay
<1>4. Standing' = Standing
  <2>1. K \subseteq DOMAIN tree'
    BY <1>2 DEF SameOn
  <2>2. \A m \in DOMAIN tree' : m \notin K => Pages(m)' # {}
    BY <1>1 DEF Keeps
  <2> QED BY <1>1, <1>3, <2>1, <2>2 DEF Standing
<1>5. \A m \in Standing : m \in K
  BY <1>1 DEF Standing
<1>6. Stable
  BY <1>2, <1>4, <1>5 DEF Stable, SameOn
<1>7. PICK B : B = bound
  OBVIOUS
<1>8. PagesComeLater' = PagesComeLater /\ ServedBy(B)' = ServedBy(B) /\ AnsweredBy(B)' = AnsweredBy(B)
  BY <1>6, StableScripts
<1>9. PagesComeLater => ServedBy(B) /\ AnsweredBy(B)
  BY <1>7 DEF Owned
<1>10. ServedBy(B)' => ServedBy(bound)'
  BY <1>2, <1>7 DEF ServedBy
<1>11. AnsweredBy(B)' => AnsweredBy(bound)'
  BY <1>2, <1>7 DEF AnsweredBy
<1> QED BY <1>8, <1>9, <1>10, <1>11 DEF Owned

(* What is within a widget is within all that this is within,                     *)
LEMMA WithinFurther ==
    ASSUME Trunk, NEW n \in DOMAIN tree, NEW x, Within(n, x)
    PROVE  \A m \in DOMAIN tree : Within(m, n) => Within(m, x)
<1> DEFINE P == {m \in DOMAIN tree : Within(m, n) => Within(m, x)}
<1>1. Laws
  BY AllLaws
<1>2. ASSUME NEW m \in DOMAIN tree, m # Root /\ tree[m].up \in DOMAIN tree => tree[m].up \in P
      PROVE  m \in P
  <2>1. /\ Within(m, n) <=> (m # Root /\ (tree[m].up = n \/ Within(tree[m].up, n)))
        /\ Within(m, x) <=> (m # Root /\ (tree[m].up = x \/ Within(tree[m].up, x)))
    BY <1>1 DEF Laws, WithinLaw
  <2>2. m # Root => tree[m].up \in P
    BY <1>2 DEF Trunk
  <2> QED BY <2>1, <2>2
<1>3. DOMAIN tree \subseteq P
  <2> HIDE DEF P
  <2>1. PICK D : D = DOMAIN tree
    OBVIOUS
  <2> QED BY <1>2, <2>1, TreeInduction
<1> QED BY <1>3

(* and nothing is within a widget that has no children.                           *)
LEMMA WithinNone ==
    ASSUME Trunk, NEW n \in DOMAIN tree, Children(n) = {}
    PROVE  \A m \in DOMAIN tree : ~Within(m, n)
<1> DEFINE P == {m \in DOMAIN tree : ~Within(m, n)}
<1>1. Laws
  BY AllLaws
<1>2. ASSUME NEW m \in DOMAIN tree, m # Root /\ tree[m].up \in DOMAIN tree => tree[m].up \in P
      PROVE  m \in P
  <2>1. Within(m, n) <=> (m # Root /\ (tree[m].up = n \/ Within(tree[m].up, n)))
    BY <1>1 DEF Laws, WithinLaw
  <2>2. tree[m].up # n
    BY DEF Children
  <2>3. m # Root => tree[m].up \in P
    BY <1>2 DEF Trunk
  <2> QED BY <2>1, <2>2, <2>3
<1>3. DOMAIN tree \subseteq P
  <2> HIDE DEF P
  <2>1. PICK D : D = DOMAIN tree
    OBVIOUS
  <2> QED BY <1>2, <2>1, TreeInduction
<1> QED BY <1>3

(* A groupxfade that shows no page, and has nothing in it, has no children.       *)
LEMMA EmptyFade ==
    ASSUME TreeOk, todo = <<>>, NEW n \in DOMAIN tree, n # Root, ~Paged(n), tree[n].def = None,
           tree[n].el.tag = "groupxfade", tree[n].el.kids = <<>>
    PROVE  Children(n) = {}
<1>1. Held(tree[n].el) = <<>>
  BY DEF Held, Entries
<1>2. Unfolding(n) = Part(<<>>, Open(n))
  BY <1>1 DEF Unfolding
<1>3. ToSet(Unfolding(n)) = {}
  <2>1. PICK open : open = Open(n)
    OBVIOUS
  <2>2. <<>> \in Seq(Elements) /\ ToSet(<<>>) = {}
    BY DEF ToSet
  <2>3. ToSet(Part(<<>>, open)) \subseteq Fit({})
    BY <2>2, PartFits
  <2> QED BY <1>2, <2>1, <2>3 DEF Fit
<1> QED BY <1>3, ChildUnfolds

(* The page that is turned is no widget's that a script found.                    *)
LEMMA PageTurnOwned ==
    ASSUME TreeOk, ResolvePage, Owned, reading' = reading
    PROVE  Owned'
<1>1. todo = <<>> /\ Loaded /\ Trunk
  BY DEF ResolvePage, TreeOk
<1>2. PICK n \in DOMAIN tree : \E K : /\ KeepsOn(K) /\ n \in K /\ tree[n].el.tag = "groupxfade"
                                      /\ tree[n].def = None /\ n # Root
                                      /\ K = {m \in DOMAIN tree : ~Within(m, n)}
  BY ResolvePageKeeps
<1>3. PICK K : /\ KeepsOn(K) /\ n \in K /\ tree[n].el.tag = "groupxfade"
               /\ tree[n].def = None /\ n # Root
               /\ K = {m \in DOMAIN tree : ~Within(m, n)}
  BY <1>2
<1>4. Laws /\ Laws' /\ SameOn(K) /\ doc' = doc /\ bound' = bound /\ DOMAIN tree' = K /\ K \subseteq DOMAIN tree
  BY <1>3 DEF KeepsOn, SameOn
<1>5. \A m \in K : Pages(m)' = Pages(m)
  BY <1>4, PagesStay
<1>6. Standing' = {m \in K : Pages(m) = {}}
  BY <1>4, <1>5 DEF Standing
<1>7. ASSUME PagesComeLater' PROVE Standing \subseteq K
  <2> SUFFICES ASSUME NEW m \in DOMAIN tree, Pages(m) = {}, Within(m, n)
               PROVE  FALSE
    BY <1>3, <1>4 DEF Standing, Laws, WithinLaw
  <2>1. ~Paged(n)
    BY DEF Pages
  <2>2. Pages(n) = {}
    <3>1. ASSUME NEW x \in Pages(n) PROVE FALSE
      <4>1. x \in DOMAIN tree /\ Paged(x) /\ Within(n, x)
        BY <3>1 DEF Pages
      <4>2. Within(m, x)
        BY <1>1, <4>1, WithinFurther
      <4> QED BY <4>1, <4>2 DEF Pages
    <3> QED BY <3>1
  <2>3. tree[n].el.kids = <<>>
    <3>1. n \in Standing' /\ tree'[n].el = tree[n].el
      BY <1>3, <1>4, <1>6, <2>2 DEF SameOn
    <3> QED BY <1>3, <1>7, <3>1 DEF PagesComeLater
  <2>4. Children(n) = {}
    BY <1>1, <1>3, <2>1, <2>3, EmptyFade
  <2> QED BY <1>1, <2>4, WithinNone
<1>8. ASSUME PagesComeLater' PROVE Stable
  <2>1. Standing \subseteq K
    BY <1>7, <1>8
  <2>2. Standing' = Standing
    BY <1>4, <1>6, <2>1 DEF Standing
  <2> QED BY <1>4, <2>1, <2>2 DEF Stable, SameOn
<1>9. PICK B : B = bound
  OBVIOUS
<1>10. ASSUME PagesComeLater' PROVE ServedBy(B)' /\ AnsweredBy(B)'
  <2>1. PagesComeLater' = PagesComeLater /\ ServedBy(B)' = ServedBy(B) /\ AnsweredBy(B)' = AnsweredBy(B)
    BY <1>8, <1>10, StableScripts
  <2> QED BY <1>1, <1>9, <1>10, <2>1 DEF Owned
<1>11. ServedBy(B)' => ServedBy(bound)'
  BY <1>4, <1>9 DEF ServedBy
<1>12. AnsweredBy(B)' => AnsweredBy(bound)'
  BY <1>4, <1>9 DEF AnsweredBy
<1> QED BY <1>10, <1>11, <1>12 DEF Owned

(* So it is after every step.                                                     *)
LEMMA OwnedStep ==
    ASSUME Owned, TreeInv, TreeInv', CallsInv, Rooted, skin \in Skins, FilesAreSpliced, [Next]_vars
    PROVE  Owned'
<1>1. CASE ~Loaded /\ ~LoadScripts
  <2>1. bound' = bound
    BY <1>1 DEF Next, vars, Parse, MakeFrame, Expand, ExpandLayout, ExpanderStep, EndLoop, VisitInstance, ApplyInherit,
                EnterBody, InjectContent, LeaveGroup, VisitPlain, Script, Paint, Paging, SetGroupId,
                ResolvePage, expansionVars
  <2> QED BY <1>1, <2>1 DEF Owned, Loaded
<1>2. ASSUME doc # <<>>
      PROVE  reading' = reading /\ TreeOk
  BY <1>2, ReadOnce DEF Rooted, TreeInv, parserVars
<1>3. CASE LoadScripts
  <2>1. doc # <<>> /\ doc' # <<>>
    BY <1>3 DEF LoadScripts
  <2>2. TreeOk'
    BY <2>1 DEF TreeInv
  <2> QED BY <1>2, <1>3, <2>1, <2>2, LoadScriptsOwn
<1>4. CASE Loaded
  <2>1. doc # <<>> /\ TreeOk /\ reading' = reading
    BY <1>2, <1>4 DEF TreeInv, Loaded
  <2>2. Keeps => Owned'
    BY <1>4, <2>1, KeepsOwned
  <2>3. CASE UNCHANGED expansionVars
    BY <2>1, <2>2, <2>3, SteadySame, SteadyKeeps DEF expansionVars
  <2>4. CASE ExpanderStep
    BY <2>1, <2>2, <2>4, ExpanderKeepsTree
  <2>5. CASE Paging
    <3>1. PICK n \in DOMAIN tree, name \in GroupIds : SetGroupId(n, name)
      BY <2>5 DEF Paging
    <3> QED BY <2>1, <2>2, <3>1, SetGroupIdKeeps
  <2>6. CASE ResolvePage
    BY <2>1, <2>6, PageTurnOwned
  <2>7. ~ExpandLayout /\ ~LoadScripts
    BY <1>4, <2>1 DEF ExpandLayout, LoadScripts
  <2>8. CASE MakeFrame
    BY <2>4, <2>8 DEF MakeFrame, ExpanderStep
  <2> QED BY <2>3, <2>4, <2>5, <2>6, <2>7, <2>8
          DEF Next, vars, Parse, Expand, Script, Paint
<1> QED BY <1>1, <1>3, <1>4

(* That is what OwnScript says.                                                   *)
LEMMA OwnedIsOwn == Owned => OwnScript
BY DEF Owned, OwnScript, ServedBy, AnsweredBy, CalledLike

(* OwnScript: every instance of a scope has its scripts, and they run on nothing  *)
(* that is not called like their scope, whatever ids a tree has and however often *)
(* (SkinRuntime::loadScripts, findOwnerWidget).                                   *)
THEOREM ScriptsAreOwned == Spec => []OwnScript
<1>1. Init => TreeInv /\ ReadsOn /\ Rooted /\ Owned
  BY ParserBegins DEF Init, ExpansionInit, TreeInv, Rooted, Owned, Loaded
<1>2. ReadsOn => skin \in Skins /\ FilesAreSpliced
  BY ParserSplices DEF ReadsOn, Knows
<1>3. TreeInv /\ CallsInv /\ ReadsOn /\ [Next]_vars => TreeInv'
  BY <1>2, TreeStep
<1>4. Spec => []ReadsOn
  <2>1. ReadsOn /\ [Next]_vars => ReadsOn'
    <3> SUFFICES ASSUME ReadsOn, [Next]_vars
                 PROVE  ReadsOn'
      OBVIOUS
    <3>1. ParserStep \/ UNCHANGED parserVars
      BY DEF Next, vars, Parse, MakeFrame, Expand, Script, Paint
    <3> QED BY <3>1, ParserReads
  <2> QED BY <1>1, <2>1, PTL DEF Spec
<1>5. Rooted /\ TreeInv /\ CallsInv /\ ReadsOn /\ [Next]_vars => Rooted'
  BY <1>2, RootedStep
<1>6. Owned /\ TreeInv /\ TreeInv' /\ CallsInv /\ ReadsOn /\ Rooted /\ [Next]_vars => Owned'
  BY <1>2, OwnedStep
<1> QED BY <1>1, <1>3, <1>4, <1>5, <1>6, CallsAlways, OwnedIsOwn, PTL DEF Spec
===============================================================================
