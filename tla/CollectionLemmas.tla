-------------------------- MODULE CollectionLemmas --------------------------
(* Facts about numbers, recursive functions, sequences and finite sets that the  *)
(* proofs about the lists and the scripts share.  Induction is over sets, from   *)
(* the library's theorem that < is well founded: a set of naturals that has 0    *)
(* and every successor has them all.                                             *)
EXTENDS SequencesExt, SequenceTheorems, FiniteSetTheorems, WellFoundedInduction, TLAPS

(* A set of natural numbers has a least element.                                 *)
LEMMA LeastNat ==
    ASSUME NEW T, T \subseteq Nat, T # {}
    PROVE  \E m \in T : \A k \in T : m <= k
<1> DEFINE R == OpToRel(<, Nat)
<1>1. \A x, y \in Nat : x < y => <<x, y>> \in R
  BY SMT DEF OpToRel
<1>2. IsWellFoundedOn(R, Nat)
  BY NatLessThanWellFounded
<1> HIDE DEF R
<1>3. \E x \in T : \A y \in T : ~ (<<y, x>> \in R)
  BY <1>2, WFMin
<1>4. PICK m \in T : \A y \in T : ~ (<<y, m>> \in R)
  BY <1>3, Zenon
<1>5. ASSUME NEW y \in T PROVE m <= y
  <2>1. m \in Nat /\ y \in Nat
    OBVIOUS
  <2>2. y < m => <<y, m>> \in R
    BY <1>1, <2>1, Zenon
  <2>3. <<y, m>> \notin R
    BY <1>4, Zenon
  <2>4. ~ (y < m)
    BY <2>2, <2>3, Zenon
  <2> QED BY <2>1, <2>4
<1> QED BY <1>5

(* Induction, for a set.                                                         *)
LEMMA NatSet ==
    ASSUME NEW S, 0 \in S, \A n \in Nat : n \in S => n + 1 \in S
    PROVE  Nat \subseteq S
<1> SUFFICES ASSUME Nat \ S # {} PROVE FALSE
  OBVIOUS
<1>1. PICK m \in Nat \ S : \A k \in Nat \ S : m <= k
  BY LeastNat
<1>2. m # 0 /\ m - 1 \in Nat /\ m - 1 < m
  BY <1>1
<1>3. m - 1 \in S
  BY <1>1, <1>2
<1> QED BY <1>1, <1>2, <1>3

(* A function may be defined by primitive recursion: g begins one of n steps.     *)
Begins(g, n, V, c, step) ==
    /\ g \in [0..n -> V]
    /\ g[0] = c
    /\ \A i \in 0..n - 1 : g[i + 1] = step[i][g[i]]

LEMMA BeginsOneMore ==
    ASSUME NEW V, NEW c \in V, NEW step \in [Nat -> [V -> V]], NEW n \in Nat,
           NEW g, Begins(g, n, V, c, step)
    PROVE  \E h : Begins(h, n + 1, V, c, step)
<1> DEFINE last == step[n][g[n]]
           h == [i \in 0..n + 1 |-> IF i = n + 1 THEN last ELSE g[i]]
<1>1. /\ g \in [0..n -> V] /\ g[0] = c
      /\ \A i \in 0..n - 1 : g[i + 1] = step[i][g[i]]
  BY DEF Begins
<1>2. step[n] \in [V -> V] /\ g[n] \in V
  BY <1>1
<1>3. last \in V
  BY <1>2
<1> HIDE DEF last
<1>4. h \in [0..n + 1 -> V] /\ h[0] = c
  BY <1>1, <1>3
<1>5. ASSUME NEW i \in 0..n PROVE h[i + 1] = step[i][h[i]]
  <2>1. h[i] = g[i]
    OBVIOUS
  <2>2. CASE i = n
    BY <2>1, <2>2 DEF last
  <2>3. CASE i # n
    <3>1. i \in 0..n - 1 /\ i + 1 \in 0..n + 1 /\ i + 1 # n + 1
      BY <2>3
    <3>2. h[i + 1] = g[i + 1]
      BY <3>1
    <3> QED BY <2>1, <3>1, <3>2, <1>1
  <2> QED BY <2>2, <2>3
<1>6. 0..(n + 1) - 1 = 0..n
  OBVIOUS
<1> HIDE DEF h
<1> QED BY <1>4, <1>5, <1>6 DEF Begins

LEMMA BeginsAlike ==
    ASSUME NEW V, NEW c \in V, NEW step \in [Nat -> [V -> V]],
           NEW m \in Nat, NEW g, Begins(g, m, V, c, step),
           NEW k \in Nat, NEW h, Begins(h, k, V, c, step)
    PROVE  \A n \in Nat : n <= m /\ n <= k => g[n] = h[n]
<1> DEFINE S == {n \in Nat : n <= m /\ n <= k => g[n] = h[n]}
<1>1. 0 \in S
  BY DEF Begins
<1>2. ASSUME NEW n \in Nat, n \in S PROVE n + 1 \in S
  <2> SUFFICES ASSUME n + 1 <= m, n + 1 <= k PROVE g[n + 1] = h[n + 1]
    OBVIOUS
  <2>1. g[n] = h[n]
    BY <1>2
  <2>2. n \in 0..m - 1 /\ n \in 0..k - 1
    OBVIOUS
  <2> QED BY <2>1, <2>2 DEF Begins
<1> HIDE DEF S
<1>3. Nat \subseteq S
  BY <1>1, <1>2, NatSet
<1> QED BY <1>3 DEF S

Recursion(g, V, c, step) ==
    /\ g \in [Nat -> V]
    /\ g[0] = c
    /\ \A n \in Nat : g[n + 1] = step[n][g[n]]

LEMMA PrimitiveRecursion ==
    ASSUME NEW V, NEW c \in V, NEW step \in [Nat -> [V -> V]]
    PROVE  \E g : Recursion(g, V, c, step)
<1> DEFINE B(g, n) == Begins(g, n, V, c, step)
           S == {n \in Nat : \E g : B(g, n)}
<1>1. Nat \subseteq S
  <2>1. 0 \in S
    <3>1. Begins([i \in 0..0 |-> c], 0, V, c, step)
      BY DEF Begins
    <3> QED BY <3>1
  <2>2. ASSUME NEW n \in Nat, n \in S PROVE n + 1 \in S
    <3>1. PICK g : B(g, n)
      BY <2>2
    <3>2. \E h : B(h, n + 1)
      BY <3>1, BeginsOneMore
    <3> QED BY <3>2
  <2> HIDE DEF S
  <2> QED BY <2>1, <2>2, NatSet
<1> DEFINE first(n) == CHOOSE g : B(g, n)
           G == [n \in Nat |-> first(n)[n]]
<1>2. \A n \in Nat : B(first(n), n)
  BY <1>1
<1> HIDE DEF first, S
<1>3. \A n \in Nat : G[n] = first(n)[n]
  OBVIOUS
<1>4. G \in [Nat -> V]
  BY <1>2 DEF Begins
<1>5. G[0] = c
  BY <1>2, <1>3 DEF Begins
<1> HIDE DEF G
<1>6. ASSUME NEW n \in Nat PROVE G[n + 1] = step[n][G[n]]
  <2> DEFINE f == first(n)
             h == first(n + 1)
  <2>1. B(f, n) /\ B(h, n + 1)
    BY <1>2
  <2> HIDE DEF f, h
  <2>2. f[n] = h[n]
    BY <2>1, BeginsAlike
  <2>3. h[n + 1] = step[n][h[n]]
    BY <2>1 DEF Begins
  <2> QED BY <1>3, <2>2, <2>3 DEF f, h
<1> QED BY <1>4, <1>5, <1>6 DEF Recursion

RecursionUpTo(g, m, V, c, step) ==
    /\ g \in [0..m -> V]
    /\ g[0] = c
    /\ \A n \in 1..m : g[n] = step[n - 1][g[n - 1]]

LEMMA RecursionTo ==
    ASSUME NEW V, NEW c \in V, NEW step \in [Nat -> [V -> V]], NEW m \in Nat
    PROVE  \E g : RecursionUpTo(g, m, V, c, step)
<1>1. PICK f : f \in [Nat -> V] /\ f[0] = c /\ \A n \in Nat : f[n + 1] = step[n][f[n]]
  <2>1. \E f : Recursion(f, V, c, step)
    BY PrimitiveRecursion
  <2> QED BY <2>1 DEF Recursion
<1> DEFINE g == [n \in 0..m |-> f[n]]
<1>2. g \in [0..m -> V] /\ g[0] = c
  BY <1>1
<1>3. ASSUME NEW n \in 1..m PROVE g[n] = step[n - 1][g[n - 1]]
  <2>1. n - 1 \in Nat /\ n - 1 \in 0..m /\ n \in 0..m /\ (n - 1) + 1 = n
    OBVIOUS
  <2>2. f[(n - 1) + 1] = step[n - 1][f[n - 1]]
    BY <1>1, <2>1
  <2> QED BY <2>1, <2>2
<1> HIDE DEF g
<1> QED BY <1>2, <1>3 DEF RecursionUpTo

-----------------------------------------------------------------------------
(* Finite sets as sequences.                                                     *)

(* A sequence of different elements of a finite set, as many as it has, has them *)
(* all.                                                                          *)
LEMMA Enumerates ==
    ASSUME NEW S, IsFiniteSet(S), NEW s \in [1..Cardinality(S) -> S], IsInjective(s)
    PROVE  /\ s \in Seq(S) /\ Len(s) = Cardinality(S) /\ Len(s) \in Nat
           /\ DOMAIN s = 1..Len(s)
           /\ ToSet(s) = S
<1>1. Cardinality(S) \in Nat
  BY FS_CardinalityType
<1>2. s \in Seq(S) /\ Len(s) = Cardinality(S)
  BY <1>1
<1>3. s \in Injection(1..Cardinality(S), S)
  BY DEF Injection
<1>4. Cardinality(1..Cardinality(S)) = Cardinality(S)
  BY <1>1, FS_Interval
<1>5. s \in Surjection(1..Cardinality(S), S)
  BY <1>3, <1>4, FS_Injection
<1>6. ToSet(s) = S
  BY <1>5 DEF Surjection, ToSet
<1> QED BY <1>1, <1>2, <1>6

LEMMA SetToSeqFacts ==
    ASSUME NEW S, IsFiniteSet(S)
    PROVE  /\ SetToSeq(S) \in Seq(S)
           /\ Len(SetToSeq(S)) = Cardinality(S) /\ Cardinality(S) \in Nat
           /\ DOMAIN SetToSeq(S) = 1..Cardinality(S)
           /\ ToSet(SetToSeq(S)) = S
<1>1. ExistsBijection(1..Cardinality(S), S) /\ Cardinality(S) \in Nat
  BY FS_CardinalityType
<1>2. \E f \in [1..Cardinality(S) -> S] : IsInjective(f)
  BY <1>1 DEF ExistsBijection, Bijection, Injection
<1>3. SetToSeq(S) \in [1..Cardinality(S) -> S] /\ IsInjective(SetToSeq(S))
  BY <1>2 DEF SetToSeq
<1> QED BY <1>1, <1>3, Enumerates

LEMMA SetToSeqsFacts ==
    ASSUME NEW S, IsFiniteSet(S), NEW s \in SetToSeqs(S)
    PROVE  /\ s \in Seq(S)
           /\ Len(s) = Cardinality(S) /\ Cardinality(S) \in Nat
           /\ DOMAIN s = 1..Cardinality(S)
           /\ ToSet(s) = S
           /\ IsInjective(s)
<1>1. s \in [1..Cardinality(S) -> S]
  BY DEF SetToSeqs
<1>2. \A i, j \in 1..Cardinality(S) : i # j => s[i] # s[j]
  BY DEF SetToSeqs
<1>3. IsInjective(s)
  BY <1>1, <1>2 DEF IsInjective
<1>4. Cardinality(S) \in Nat
  BY FS_CardinalityType
<1> QED BY <1>1, <1>3, <1>4, Enumerates

-----------------------------------------------------------------------------
(* Sequences.                                                                    *)

(* Flattening gives a sequence, and nothing but what the pieces had.             *)
LEMMA FlattenFacts ==
    ASSUME NEW T, NEW seqs \in Seq(Seq(T))
    PROVE  /\ FlattenSeq(seqs) \in Seq(T)
           /\ ToSet(FlattenSeq(seqs)) = UNION {ToSet(seqs[i]) : i \in DOMAIN seqs}
<1> DEFINE n == Len(seqs)
           flat == CHOOSE f : f = [i \in 1..n |-> IF i = 1 THEN seqs[i] ELSE f[i - 1] \o seqs[i]]
<1>1. n \in Nat /\ DOMAIN seqs = 1..n /\ \A i \in 1..n : seqs[i] \in Seq(T)
  OBVIOUS
<1>2. CASE n = 0
  <2>1. seqs = <<>>
    BY <1>1, <1>2
  <2>2. FlattenSeq(seqs) = <<>>
    BY <2>1, <1>2 DEF FlattenSeq
  <2>3. DOMAIN seqs = {} /\ ToSet(<<>>) = {} /\ <<>> \in Seq(T)
    BY <1>1, <1>2 DEF ToSet
  <2> QED BY <2>2, <2>3
<1>3. CASE n # 0
  <2> DEFINE step == [i \in Nat |-> [v \in Seq(T) |->
                         IF i + 2 \in 1..n THEN v \o seqs[i + 2] ELSE v]]
  <2>1. step \in [Nat -> [Seq(T) -> Seq(T)]]
    BY <1>1
  <2>2. seqs[1] \in Seq(T) /\ 1 \in 1..n
    BY <1>1, <1>3
  <2>3. PICK g \in [Nat -> Seq(T)] : g[0] = seqs[1] /\ \A i \in Nat : g[i + 1] = step[i][g[i]]
    <3> HIDE DEF step
    <3>1. \E g : Recursion(g, Seq(T), seqs[1], step)
      BY <2>1, <2>2, PrimitiveRecursion
    <3> QED BY <3>1 DEF Recursion
  <2> DEFINE f == [i \in 1..n |-> g[i - 1]]
  <2>4. ASSUME NEW i \in 1..n, i # 1
        PROVE  f[i] = f[i - 1] \o seqs[i]
    <3>1. i - 2 \in Nat /\ (i - 2) + 1 = i - 1 /\ (i - 2) + 2 = i /\ i - 1 \in 1..n
      BY <2>4
    <3>2. g[(i - 2) + 1] = step[i - 2][g[i - 2]] /\ g[i - 2] \in Seq(T)
      BY <2>3, <3>1
    <3>3. g[i - 1] = g[i - 2] \o seqs[i]
      BY <3>1, <3>2
    <3>4. f[i] = g[i - 1] /\ f[i - 1] = g[i - 2]
      BY <3>1
    <3> QED BY <3>3, <3>4
  <2>5. f[1] = seqs[1]
    BY <2>2, <2>3
  <2>6. f = [i \in 1..n |-> IF i = 1 THEN seqs[i] ELSE f[i - 1] \o seqs[i]]
    <3> HIDE DEF n
    <3>1. \A i \in 1..n : f[i] = IF i = 1 THEN seqs[i] ELSE f[i - 1] \o seqs[i]
      BY <2>4, <2>5
    <3>2. DOMAIN f = 1..n /\ f = [i \in DOMAIN f |-> f[i]]
      OBVIOUS
    <3> HIDE DEF f
    <3> QED BY <3>1, <3>2
  <2> HIDE DEF f
  <2>7. flat = [i \in 1..n |-> IF i = 1 THEN seqs[i] ELSE flat[i - 1] \o seqs[i]]
    BY <2>6, Zenon
  <2>8. FlattenSeq(seqs) = flat[n]
    BY <1>3 DEF FlattenSeq
  <2> HIDE DEF flat
  <2> DEFINE Got(i) == UNION {ToSet(seqs[j]) : j \in 1..i}
             S == {i \in Nat : i + 1 \in 1..n =>
                                  flat[i + 1] \in Seq(T) /\ ToSet(flat[i + 1]) = Got(i + 1)}
  <2>9. 0 \in S
    <3>1. flat[1] = seqs[1]
      BY <2>2, <2>7
    <3>2. Got(1) = ToSet(seqs[1]) /\ 0 + 1 = 1
      OBVIOUS
    <3> HIDE DEF Got, f
    <3> QED BY <3>1, <3>2, <2>2
  <2>10. ASSUME NEW i \in Nat, i \in S PROVE i + 1 \in S
    <3> SUFFICES ASSUME i + 2 \in 1..n
                 PROVE  flat[i + 2] \in Seq(T) /\ ToSet(flat[i + 2]) = Got(i + 2)
      <4> HIDE DEF Got
      <4>1. (i + 1) + 1 = i + 2
        OBVIOUS
      <4> QED BY <4>1
    <3>1. i + 1 \in 1..n /\ i + 2 \in 1..n /\ (i + 2) - 1 = i + 1 /\ i + 2 # 1
      BY <1>1
    <3>2. flat[i + 2] = flat[i + 1] \o seqs[i + 2]
      BY <2>7, <3>1
    <3>3. flat[i + 1] \in Seq(T) /\ ToSet(flat[i + 1]) = Got(i + 1)
      BY <2>10, <3>1
    <3>4. seqs[i + 2] \in Seq(T)
      BY <1>1, <3>1
    <3>5. /\ flat[i + 2] \in Seq(T)
          /\ Range(flat[i + 2]) = Range(flat[i + 1]) \cup Range(seqs[i + 2])
      <4> DEFINE a == flat[i + 1]
                 b == seqs[i + 2]
      <4>1. a \in Seq(T) /\ b \in Seq(T)
        BY <3>3, <3>4
      <4> HIDE DEF a, b
      <4>2. a \o b \in Seq(T) /\ Range(a \o b) = Range(a) \cup Range(b)
        BY <4>1, RangeConcatenation
      <4> QED BY <3>2, <4>2 DEF a, b
    <3>6. 1..i + 2 = (1..i + 1) \cup {i + 2}
      <4> HIDE DEF Got, n, f
      <4>1. \A j \in Int : j \in 1..i + 2 <=> j \in 1..i + 1 \/ j = i + 2
        OBVIOUS
      <4> QED BY <4>1
    <3>7. Got(i + 2) = Got(i + 1) \cup ToSet(seqs[i + 2])
      BY <3>6
    <3> QED BY <3>3, <3>5, <3>7 DEF Range, ToSet
  <2>11. Nat \subseteq S
    <3> HIDE DEF S
    <3> QED BY <2>9, <2>10, NatSet
  <2>12. n - 1 \in Nat /\ (n - 1) + 1 = n /\ n \in 1..n
    BY <1>1, <1>3
  <2>13. flat[n] \in Seq(T) /\ ToSet(flat[n]) = Got(n)
    BY <2>11, <2>12
  <2> QED BY <2>8, <2>13, <1>1
<1> QED BY <1>2, <1>3

(* One element more, and two sequences after one another.                        *)
LEMMA AppendFacts ==
    ASSUME NEW T, NEW s \in Seq(T), NEW e \in T
    PROVE  /\ Append(s, e) \in Seq(T) /\ Len(Append(s, e)) = Len(s) + 1
           /\ DOMAIN Append(s, e) = 1..Len(s) + 1
           /\ \A i \in 1..Len(s) : Append(s, e)[i] = s[i]
           /\ Append(s, e)[Len(s) + 1] = e
           /\ ToSet(Append(s, e)) = ToSet(s) \cup {e}
           /\ IsInjective(s) /\ e \notin ToSet(s) => IsInjective(Append(s, e))
<1> DEFINE a == Append(s, e)
           n == Len(s)
<1>1. /\ a \in Seq(T) /\ Len(a) = n + 1 /\ n \in Nat
      /\ \A i \in 1..n : a[i] = s[i]
      /\ a[n + 1] = e
  BY AppendProperties
<1>2. DOMAIN a = 1..n + 1 /\ DOMAIN s = 1..n
  BY <1>1
<1> HIDE DEF a, n
<1>3. \A i \in 1..n + 1 : i \in 1..n \/ i = n + 1
  BY <1>1
<1>4. n + 1 \in 1..n + 1 /\ \A i \in 1..n : i \in 1..n + 1
  BY <1>1
<1>5. ToSet(a) = ToSet(s) \cup {e}
  BY <1>1, <1>2, <1>3, <1>4 DEF ToSet
<1>6. IsInjective(s) /\ e \notin ToSet(s) => IsInjective(a)
  BY <1>1, <1>2, <1>3 DEF ToSet, IsInjective
<1> QED BY <1>1, <1>2, <1>5, <1>6 DEF a, n

LEMMA ConcatFacts ==
    ASSUME NEW T, NEW s \in Seq(T), NEW t \in Seq(T)
    PROVE  /\ s \o t \in Seq(T)
           /\ ToSet(s \o t) = ToSet(s) \cup ToSet(t)
           /\ IsInjective(s) /\ IsInjective(t) /\ ToSet(s) \cap ToSet(t) = {}
                => IsInjective(s \o t)
<1> DEFINE a == s \o t
           m == Len(s)
           n == Len(t)
<1>1. /\ a \in Seq(T) /\ Len(a) = m + n /\ m \in Nat /\ n \in Nat
      /\ \A i \in 1..m + n : a[i] = IF i <= m THEN s[i] ELSE t[i - m]
      /\ DOMAIN s = 1..m /\ DOMAIN t = 1..n /\ DOMAIN a = 1..m + n
  BY ConcatProperties
<1>2. Range(a) = Range(s) \cup Range(t)
  BY RangeConcatenation
<1> HIDE DEF a, m, n
<1>3. ASSUME IsInjective(s), IsInjective(t), ToSet(s) \cap ToSet(t) = {},
             NEW i \in 1..m + n, NEW j \in 1..m + n, a[i] = a[j]
      PROVE  i = j
  <2>1. CASE i <= m /\ j <= m
    <3>1. i \in 1..m /\ j \in 1..m /\ s[i] = s[j]
      BY <1>1, <1>3, <2>1
    <3> QED BY <3>1, <1>1, <1>3 DEF IsInjective
  <2>2. CASE i <= m /\ ~ (j <= m)
    <3>1. i \in 1..m /\ j - m \in 1..n /\ s[i] = t[j - m]
      BY <1>1, <1>3, <2>2
    <3> QED BY <3>1, <1>1, <1>3 DEF ToSet
  <2>3. CASE ~ (i <= m) /\ j <= m
    <3>1. j \in 1..m /\ i - m \in 1..n /\ s[j] = t[i - m]
      BY <1>1, <1>3, <2>3
    <3> QED BY <3>1, <1>1, <1>3 DEF ToSet
  <2>4. CASE ~ (i <= m) /\ ~ (j <= m)
    <3>1. i - m \in 1..n /\ j - m \in 1..n /\ t[i - m] = t[j - m]
      BY <1>1, <1>3, <2>4
    <3>2. i - m = j - m
      BY <3>1, <1>1, <1>3 DEF IsInjective
    <3> QED BY <3>2, <1>1
  <2> QED BY <2>1, <2>2, <2>3, <2>4
<1>4. IsInjective(s) /\ IsInjective(t) /\ ToSet(s) \cap ToSet(t) = {} => IsInjective(a)
  BY <1>1, <1>3 DEF IsInjective
<1> QED BY <1>1, <1>2, <1>4 DEF a, Range, ToSet

(* A function may be defined by recursion to arguments of a lower rank.           *)
SameBelow(f, g, Dom, rank, x) == \A y \in Dom : rank[y] < rank[x] => f[y] = g[y]

Localised(step, Dom, V, rank) ==
    /\ rank \in [Dom -> Nat] /\ step \in [[Dom -> V] -> [Dom -> V]]
    /\ \A f, g \in [Dom -> V] : \A x \in Dom : SameBelow(f, g, Dom, rank, x) => step[f][x] = step[g][x]

HasFixed(step, Dom, V) == \E f \in [Dom -> V] : f = step[f]

LEMMA RankedRecursion ==
    ASSUME NEW Dom, NEW V, NEW c \in V, NEW rank, NEW step, Localised(step, Dom, V, rank)
    PROVE  HasFixed(step, Dom, V)
<1>0. rank \in [Dom -> Nat] /\ step \in [[Dom -> V] -> [Dom -> V]]
  BY DEF Localised
<1> USE <1>0
<1> DEFINE F == [Dom -> V]
           base == [x \in Dom |-> c]
<1>1. base \in F
  OBVIOUS
<1>2. PICK G : Recursion(G, F, base, [n \in Nat |-> step])
  <2>1. [n \in Nat |-> step] \in [Nat -> [F -> F]]
    OBVIOUS
  <2> HIDE DEF F, base
  <2> QED BY <1>1, <2>1, PrimitiveRecursion
<1>3. G \in [Nat -> F] /\ \A n \in Nat : G[n + 1] = step[G[n]]
  BY <1>2 DEF Recursion
<1> DEFINE f == [x \in Dom |-> G[rank[x] + 1][x]]
           S == {k \in Nat : \A x \in Dom : rank[x] < k =>
                                 \A m \in Nat : m >= rank[x] + 1 => G[m][x] = f[x]}
<1>4. f \in F
  <2>1. ASSUME NEW x \in Dom PROVE G[rank[x] + 1][x] \in V
    <3>1. rank[x] + 1 \in Nat
      OBVIOUS
    <3>2. G[rank[x] + 1] \in F
      BY <1>3, <3>1
    <3> QED BY <3>2
  <2> QED BY <2>1
<1>5. 0 \in S
  OBVIOUS
<1>6. ASSUME NEW k \in Nat, k \in S PROVE k + 1 \in S
  <2>1. ASSUME NEW x \in Dom, rank[x] = k, NEW m \in Nat, m >= k + 1 PROVE G[m][x] = f[x]
    <3>1. m - 1 \in Nat /\ (m - 1) + 1 = m
      BY <2>1
    <3>2. G[m] = step[G[m - 1]] /\ G[m - 1] \in F /\ G[k] \in F /\ G[k + 1] = step[G[k]]
      BY <1>3, <3>1
    <3>3. SameBelow(G[m - 1], G[k], Dom, rank, x)
      <4>1. ASSUME NEW y \in Dom, rank[y] < rank[x] PROVE G[m - 1][y] = G[k][y]
        <5>1. rank[y] < k /\ k >= rank[y] + 1 /\ m - 1 >= rank[y] + 1
          BY <2>1, <4>1
        <5>2. G[m - 1][y] = f[y] /\ G[k][y] = f[y]
          BY <1>6, <3>1, <5>1
        <5> QED BY <5>2
      <4> QED BY <4>1 DEF SameBelow
    <3>4. G[m][x] = G[k + 1][x]
      BY <3>2, <3>3 DEF Localised
    <3>5. f[x] = G[k + 1][x]
      BY <2>1
    <3> QED BY <3>4, <3>5
  <2>2. ASSUME NEW x \in Dom, rank[x] < k + 1, NEW m \in Nat, m >= rank[x] + 1 PROVE G[m][x] = f[x]
    <3>1. CASE rank[x] = k
      BY <2>1, <2>2, <3>1
    <3>2. CASE rank[x] < k
      BY <1>6, <2>2, <3>2
    <3>3. rank[x] \in Nat /\ (rank[x] = k \/ rank[x] < k)
      BY <2>2
    <3> QED BY <3>1, <3>2, <3>3
  <2> HIDE DEF f
  <2> QED BY <2>2
<1>7. Nat \subseteq S
  <2> HIDE DEF S
  <2> QED BY <1>5, <1>6, NatSet
<1>8. ASSUME NEW x \in Dom PROVE f[x] = step[f][x]
  <2> DEFINE k == rank[x]
  <2>1. k \in Nat /\ k + 1 \in Nat
    OBVIOUS
  <2>2. G[k] \in F /\ G[k + 1] = step[G[k]]
    BY <1>3, <2>1
  <2>3. SameBelow(G[k], f, Dom, rank, x)
    <3>1. ASSUME NEW y \in Dom, rank[y] < rank[x] PROVE G[k][y] = f[y]
      <4>1. rank[y] + 1 <= k /\ k \in S /\ rank[y] < k
        BY <1>7, <2>1, <3>1
      <4> HIDE DEF f
      <4> QED BY <4>1, <2>1
    <3> HIDE DEF f
    <3> QED BY <3>1 DEF SameBelow
  <2>4. step[G[k]][x] = step[f][x]
    <3> HIDE DEF f, k
    <3> QED BY <1>4, <2>2, <2>3 DEF Localised
  <2>5. f[x] = G[k + 1][x]
    OBVIOUS
  <2> QED BY <2>2, <2>4, <2>5
<1>9. f = step[f]
  <2>1. step[f] \in F
    <3> HIDE DEF f
    <3> QED BY <1>4
  <2> HIDE DEF f
  <2> QED BY <1>4, <1>8, <2>1
<1> HIDE DEF f
<1> QED BY <1>4, <1>9 DEF HasFixed

(* What holds of an argument if it holds of those of a lower rank holds of all.   *)
LEMMA RankedInduction ==
    ASSUME NEW Dom, NEW rank \in [Dom -> Nat], NEW P,
           \A x \in Dom : (\A y \in Dom : rank[y] < rank[x] => y \in P) => x \in P
    PROVE  Dom \subseteq P
<1> DEFINE S == {k \in Nat : \A x \in Dom : rank[x] < k => x \in P}
<1>1. 0 \in S
  OBVIOUS
<1>2. ASSUME NEW k \in Nat, k \in S PROVE k + 1 \in S
  <2>1. ASSUME NEW x \in Dom, rank[x] < k + 1 PROVE x \in P
    <3>1. \A y \in Dom : rank[y] < rank[x] => rank[y] < k
      BY <2>1
    <3>2. \A y \in Dom : rank[y] < rank[x] => y \in P
      BY <1>2, <3>1
    <3> QED BY <3>2
  <2> QED BY <2>1
<1>3. Nat \subseteq S
  <2> HIDE DEF S
  <2> QED BY <1>1, <1>2, NatSet
<1>4. ASSUME NEW x \in Dom PROVE x \in P
  <2>1. rank[x] + 1 \in S
    BY <1>3
  <2> QED BY <2>1
<1> QED BY <1>4

-----------------------------------------------------------------------------
(* Flattening goes by the pieces in front of each other.                          *)
Flat(f, seqs, n, T) ==
    /\ FlattenSeq(seqs) = f[n]
    /\ \A i \in 1 .. n : f[i] \in Seq(T)
    /\ f[1] = seqs[1]
    /\ \A i \in 2 .. n : f[i] = f[i - 1] \o seqs[i]

LEMMA FlatFacts ==
    ASSUME NEW T, NEW seqs \in Seq(Seq(T))
    PROVE  /\ Len(seqs) = 0 => FlattenSeq(seqs) = <<>>
           /\ Len(seqs) # 0 => \E f : Flat(f, seqs, Len(seqs), T)
<1> DEFINE n == Len(seqs)
           flat == CHOOSE f : f = [i \in 1..n |-> IF i = 1 THEN seqs[i] ELSE f[i - 1] \o seqs[i]]
<1>1. n \in Nat /\ DOMAIN seqs = 1..n /\ \A i \in 1..n : seqs[i] \in Seq(T)
  OBVIOUS
<1>2. CASE n = 0
  <2>1. seqs = <<>>
    BY <1>1, <1>2
  <2>2. FlattenSeq(seqs) = <<>>
    BY <2>1, <1>2 DEF FlattenSeq
  <2> QED BY <1>2, <2>2
<1>3. CASE n # 0
  <2> DEFINE step == [i \in Nat |-> [v \in Seq(T) |->
                         IF i + 2 \in 1..n THEN v \o seqs[i + 2] ELSE v]]
  <2>1. step \in [Nat -> [Seq(T) -> Seq(T)]]
    BY <1>1
  <2>2. seqs[1] \in Seq(T) /\ 1 \in 1..n
    BY <1>1, <1>3
  <2>3. PICK g \in [Nat -> Seq(T)] : g[0] = seqs[1] /\ \A i \in Nat : g[i + 1] = step[i][g[i]]
    <3> HIDE DEF step
    <3>1. \E g : Recursion(g, Seq(T), seqs[1], step)
      BY <2>1, <2>2, PrimitiveRecursion
    <3> QED BY <3>1 DEF Recursion
  <2> DEFINE f == [i \in 1..n |-> g[i - 1]]
  <2>4. ASSUME NEW i \in 1..n, i # 1
        PROVE  f[i] = f[i - 1] \o seqs[i]
    <3>1. i - 2 \in Nat /\ (i - 2) + 1 = i - 1 /\ (i - 2) + 2 = i /\ i - 1 \in 1..n
      BY <2>4
    <3>2. g[(i - 2) + 1] = step[i - 2][g[i - 2]] /\ g[i - 2] \in Seq(T)
      BY <2>3, <3>1
    <3>3. g[i - 1] = g[i - 2] \o seqs[i]
      BY <3>1, <3>2
    <3>4. f[i] = g[i - 1] /\ f[i - 1] = g[i - 2]
      BY <3>1
    <3> QED BY <3>3, <3>4
  <2>5. f[1] = seqs[1]
    BY <2>2, <2>3
  <2>6. f = [i \in 1..n |-> IF i = 1 THEN seqs[i] ELSE f[i - 1] \o seqs[i]]
    <3> HIDE DEF n
    <3>1. \A i \in 1..n : f[i] = IF i = 1 THEN seqs[i] ELSE f[i - 1] \o seqs[i]
      BY <2>4, <2>5
    <3>2. DOMAIN f = 1..n /\ f = [i \in DOMAIN f |-> f[i]]
      OBVIOUS
    <3> HIDE DEF f
    <3> QED BY <3>1, <3>2
  <2> HIDE DEF f
  <2>7. flat = [i \in 1..n |-> IF i = 1 THEN seqs[i] ELSE flat[i - 1] \o seqs[i]]
    BY <2>6, Zenon
  <2>8. FlattenSeq(seqs) = flat[n]
    BY <1>3 DEF FlattenSeq
  <2> HIDE DEF flat
  <2>9. flat[1] = seqs[1] /\ \A i \in 2 .. n : flat[i] = flat[i - 1] \o seqs[i]
    <3>1. flat[1] = seqs[1]
      BY <2>2, <2>7
    <3>2. ASSUME NEW i \in 2 .. n PROVE flat[i] = flat[i - 1] \o seqs[i]
      <4>1. i \in 1 .. n /\ i # 1
        BY <1>1
      <4> QED BY <2>7, <4>1
    <3> QED BY <3>1, <3>2
  <2> DEFINE S == {i \in Nat : i + 1 \in 1..n => flat[i + 1] \in Seq(T)}
  <2>10. 0 \in S
    BY <2>9, <2>2
  <2>11. ASSUME NEW i \in Nat, i \in S PROVE i + 1 \in S
    <3> SUFFICES ASSUME i + 2 \in 1..n PROVE  flat[i + 2] \in Seq(T)
      <4>1. (i + 1) + 1 = i + 2
        OBVIOUS
      <4> QED BY <4>1
    <3>1. i + 1 \in 1..n /\ i + 2 \in 2..n /\ (i + 2) - 1 = i + 1
      BY <1>1
    <3>2. flat[i + 2] = flat[i + 1] \o seqs[i + 2]
      BY <2>9, <3>1
    <3>3. flat[i + 1] \in Seq(T) /\ seqs[i + 2] \in Seq(T)
      BY <1>1, <2>11, <3>1
    <3> QED BY <3>2, <3>3
  <2>12. Nat \subseteq S
    <3> HIDE DEF S
    <3> QED BY <2>10, <2>11, NatSet
  <2>13. ASSUME NEW i \in 1 .. n PROVE flat[i] \in Seq(T)
    <3>1. i - 1 \in Nat /\ (i - 1) + 1 = i
      BY <1>1
    <3>2. i - 1 \in S
      BY <2>12, <3>1
    <3> QED BY <3>1, <3>2
  <2>14. Flat(flat, seqs, n, T)
    BY <2>8, <2>9, <2>13 DEF Flat
  <2> QED BY <1>3, <2>14
<1> QED BY <1>2, <1>3

LEMMA Regrouped ==
    ASSUME NEW T, NEW p \in Seq(T), NEW q \in Seq(T), NEW r \in Seq(T)
    PROVE  (p \o q) \o r = p \o (q \o r)
BY ConcatAssociative

(* A piece in front of others comes first.                                        *)
LEMMA FlattenCons ==
    ASSUME NEW T, NEW x \in Seq(T), NEW rest \in Seq(Seq(T))
    PROVE  /\ FlattenSeq(<<x>> \o rest) = x \o FlattenSeq(rest)
           /\ FlattenSeq(<<>>) = <<>>
           /\ FlattenSeq(rest) \in Seq(T)
<1> DEFINE all == <<x>> \o rest
           n == Len(rest)
<1>1. FlattenSeq(rest) \in Seq(T)
  BY FlattenFacts
<1>2. FlattenSeq(<<>>) = <<>>
  <2>1. <<>> \in Seq(Seq(T)) /\ Len(<<>>) = 0
    OBVIOUS
  <2> QED BY <2>1, FlatFacts
<1>3. /\ all \in Seq(Seq(T)) /\ Len(all) = n + 1 /\ n \in Nat /\ all[1] = x
      /\ \A i \in 1 .. n : all[i + 1] = rest[i]
  OBVIOUS
<1> HIDE DEF all
<1>4. PICK f : Flat(f, all, n + 1, T)
  <2>1. Len(all) # 0 /\ Len(all) = n + 1
    BY <1>3
  <2>2. \E f : Flat(f, all, Len(all), T)
    BY <1>3, <2>1, FlatFacts
  <2> QED BY <2>1, <2>2
<1>5. CASE n = 0
  <2>1. FlattenSeq(rest) = <<>>
    BY <1>5, FlatFacts
  <2>2. FlattenSeq(all) = x /\ x \o <<>> = x
    BY <1>3, <1>4, <1>5 DEF Flat
  <2> QED BY <1>1, <1>2, <2>1, <2>2 DEF all
<1>6. CASE n # 0
  <2>1. PICK g : Flat(g, rest, n, T)
    BY <1>6, FlatFacts
  <2> DEFINE S == {i \in Nat : i + 1 <= n => f[i + 2] = x \o g[i + 1]}
  <2>2. 0 \in S
    <3>1. 2 \in 2 .. n + 1 /\ 1 \in 1 .. n
      BY <1>3, <1>6
    <3>2. f[2] = f[1] \o all[2] /\ all[1 + 1] = rest[1]
      <4>1. f[2] = f[2 - 1] \o all[2]
        BY <1>4, <3>1 DEF Flat
      <4> QED BY <1>3, <3>1, <4>1
    <3>3. f[1] = x /\ g[1] = rest[1]
      BY <1>3, <1>4, <2>1 DEF Flat
    <3>4. f[0 + 2] = x \o g[0 + 1]
      BY <3>2, <3>3
    <3> QED BY <3>4
  <2>3. ASSUME NEW i \in Nat, i \in S PROVE i + 1 \in S
    <3> SUFFICES ASSUME i + 2 <= n PROVE f[i + 3] = x \o g[i + 2]
      OBVIOUS
    <3>1. /\ i + 3 \in 2 .. n + 1 /\ i + 2 \in 2 .. n /\ i + 2 \in 1 .. n /\ i + 1 \in 1 .. n
          /\ (i + 3) - 1 = i + 2 /\ (i + 2) - 1 = i + 1 /\ (i + 2) + 1 = i + 3
      BY <1>3
    <3>2. f[i + 3] = f[i + 2] \o all[i + 3]
      <4>1. f[i + 3] = f[(i + 3) - 1] \o all[i + 3]
        BY <1>4, <3>1 DEF Flat
      <4> QED BY <3>1, <4>1
    <3>3. g[i + 2] = g[i + 1] \o rest[i + 2]
      <4>1. g[i + 2] = g[(i + 2) - 1] \o rest[i + 2]
        BY <2>1, <3>1 DEF Flat
      <4> QED BY <3>1, <4>1
    <3>4. all[i + 3] = rest[i + 2]
      <4>1. all[(i + 2) + 1] = rest[i + 2]
        BY <1>3, <3>1
      <4> QED BY <3>1, <4>1
    <3>5. f[i + 2] = x \o g[i + 1]
      BY <2>3, <3>1
    <3>6. g[i + 1] \in Seq(T)
      BY <2>1, <3>1 DEF Flat
    <3>7. rest[i + 2] \in Seq(T)
      BY <1>3, <3>1
    <3>8. (x \o g[i + 1]) \o rest[i + 2] = x \o (g[i + 1] \o rest[i + 2])
      <4> DEFINE a == g[i + 1]
                 b == rest[i + 2]
      <4>1. a \in Seq(T) /\ b \in Seq(T)
        BY <3>6, <3>7
      <4> HIDE DEF a, b, S, n
      <4>3. (x \o a) \o b = x \o (a \o b)
        BY <4>1, Regrouped
      <4> QED BY <4>3 DEF a, b
    <3> QED BY <3>2, <3>3, <3>4, <3>5, <3>8
  <2>4. n - 1 \in S
    <3>1. Nat \subseteq S
      <4> HIDE DEF S
      <4> QED BY <2>2, <2>3, NatSet
    <3> HIDE DEF S
    <3> QED BY <1>3, <1>6, <3>1
  <2>5. f[n + 1] = x \o g[n]
    BY <1>3, <1>6, <2>4
  <2> QED BY <1>1, <1>2, <1>4, <2>1, <2>5 DEF all, Flat
<1> QED BY <1>5, <1>6

(* A set of numbers that has an end has a greatest.                               *)
HasMax(S) == \E x \in S : \A y \in S : x >= y

LEMMA MaxNat ==
    ASSUME NEW S, S \subseteq Nat, S # {}, IsFiniteSet(S)
    PROVE  Max(S) \in S /\ Max(S) \in Nat /\ \A y \in S : Max(S) >= y
<1> DEFINE N == {n \in Nat : \A T \in SUBSET Nat :
                                IsFiniteSet(T) /\ Cardinality(T) = n + 1 => HasMax(T)}
<1>1. 0 \in N
  <2>1. ASSUME NEW T \in SUBSET Nat, IsFiniteSet(T), Cardinality(T) = 1 PROVE HasMax(T)
    <3>1. PICK x : T = {x}
      BY <2>1, FS_Singleton
    <3>2. x \in T /\ x \in Nat /\ x >= x
      BY <3>1
    <3> QED BY <3>1, <3>2 DEF HasMax
  <2> QED BY <2>1
<1>2. ASSUME NEW n \in Nat, n \in N PROVE n + 1 \in N
  <2>1. ASSUME NEW T \in SUBSET Nat, IsFiniteSet(T), Cardinality(T) = n + 2 PROVE HasMax(T)
    <3>1. T # {}
      BY <2>1, FS_EmptySet
    <3>2. PICK x \in T : TRUE
      BY <3>1
    <3> DEFINE U == T \ {x}
    <3>3. U \in SUBSET Nat /\ IsFiniteSet(U) /\ Cardinality(U) = n + 1
      BY <2>1, <3>2, FS_RemoveElement
    <3>4. HasMax(U)
      <4> HIDE DEF U
      <4> QED BY <1>2, <3>3
    <3>5. PICK m \in U : \A y \in U : m >= y
      BY <3>4 DEF HasMax
    <3>6. CASE x >= m
      <4>1. \A y \in T : x >= y
        BY <3>3, <3>5, <3>6
      <4> QED BY <4>1 DEF HasMax
    <3>7. CASE ~(x >= m)
      <4>1. m \in T /\ \A y \in T : m >= y
        BY <3>3, <3>5, <3>7
      <4> QED BY <4>1 DEF HasMax
    <3> QED BY <3>6, <3>7
  <2>2. \A T \in SUBSET Nat : IsFiniteSet(T) /\ Cardinality(T) = (n + 1) + 1 => HasMax(T)
    <3>1. (n + 1) + 1 = n + 2
      OBVIOUS
    <3> QED BY <2>1, <3>1
  <2> QED BY <2>2
<1>3. HasMax(S)
  <2>1. Nat \subseteq N
    <3> HIDE DEF N
    <3> QED BY <1>1, <1>2, NatSet
  <2> DEFINE c == Cardinality(S)
  <2>2. c \in Nat /\ c # 0
    BY FS_CardinalityType, FS_EmptySet
  <2>3. c - 1 \in N
    <3> HIDE DEF N, c
    <3> QED BY <2>1, <2>2
  <2>4. (c - 1) + 1 = c
    <3> HIDE DEF c
    <3> QED BY <2>2
  <2> QED BY <2>3, <2>4
<1> DEFINE x == Max(S)
<1>4. x \in S /\ \A y \in S : x >= y
  BY <1>3 DEF HasMax, Max
<1> HIDE DEF x
<1> QED BY <1>4 DEF x

LEMMA FiniteImage ==
    ASSUME NEW f, IsFiniteSet(DOMAIN f)
    PROVE  IsFiniteSet({f[x] : x \in DOMAIN f})
<1> DEFINE T == {f[x] : x \in DOMAIN f}
           g == [x \in DOMAIN f |-> f[x]]
<1>1. g \in Surjection(DOMAIN f, T)
  BY DEF Surjection
<1> HIDE DEF g, T
<1> QED BY <1>1, FS_Surjection DEF T
===============================================================================
