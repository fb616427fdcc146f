--------------------------- MODULE ServicesProofs ---------------------------
(* Proofs about two services that share nothing: the threads of kernel32, for any *)
(* set of threads and APCs and any nesting of sleeps and callbacks; and the       *)
(* caches of tinted images with the synthetic themes, for any skins, themes,      *)
(* plugins and bitmaps that satisfy ThemesAssumption.                             *)
EXTENDS KernelThreads, ThemedBitmaps, SequenceTheorems, TLAPS

-----------------------------------------------------------------------------
(* Stacks of calls.                                                              *)

(* Only the innermost call is not in a callback.                                 *)
Nested(c) == \A i \in 1..Len(c) : i < Len(c) => c[i].at = "callback"

(* The innermost call moves on.                                                  *)
LEMMA MoveCall ==
    ASSUME NEW c \in Seq(Call), c # <<>>, Nested(c),
           NEW w \in {"callback", "wait", "woken", "expired"}
    PROVE  LET d == [c EXCEPT ![Len(c)].at = w]
           IN  d \in Seq(Call) /\ Nested(d) /\ d # <<>> /\ Last(d).at = w
<1> DEFINE d == [c EXCEPT ![Len(c)].at = w]
<1>1. Len(c) \in Nat \ {0} /\ Len(c) \in 1..Len(c) /\ c[Len(c)] \in Call
  OBVIOUS
<1>2. [c[Len(c)] EXCEPT !.at = w] \in Call /\ [c[Len(c)] EXCEPT !.at = w].at = w
  BY <1>1 DEF Call
<1>3. d = [c EXCEPT ![Len(c)] = [c[Len(c)] EXCEPT !.at = w]]
  OBVIOUS
<1>4. /\ d \in Seq(Call) /\ Len(d) = Len(c) /\ d # <<>>
      /\ d[Len(c)].at = w
      /\ \A i \in 1..Len(c) : i < Len(c) => d[i] = c[i]
  BY <1>1, <1>2, <1>3
<1>5. Nested(d)
  BY <1>1, <1>4 DEF Nested
<1> HIDE DEF d
<1>6. d \in Seq(Call) /\ Nested(d) /\ d # <<>> /\ Last(d).at = w
  BY <1>4, <1>5 DEF Last
<1> QED BY <1>6 DEF d

(* A call is entered by client code: by the routine, or by a callback.           *)
LEMMA PushCall ==
    ASSUME NEW c \in Seq(Call), Nested(c), c = <<>> \/ Last(c).at = "callback",
           NEW f \in Call
    PROVE  /\ Append(c, f) \in Seq(Call) /\ Nested(Append(c, f))
           /\ Append(c, f) # <<>> /\ Last(Append(c, f)) = f
<1>1. /\ Append(c, f) \in Seq(Call)
      /\ Len(Append(c, f)) = Len(c) + 1
      /\ Len(c) \in Nat
      /\ \A i \in 1..Len(c) : Append(c, f)[i] = c[i]
      /\ Append(c, f)[Len(c) + 1] = f
      /\ Append(c, f) # <<>>
  BY AppendProperties, LenProperties
<1>2. ASSUME NEW i \in 1..(Len(c) + 1), i < Len(c) + 1
      PROVE  Append(c, f)[i].at = "callback"
  <2>1. i \in 1..Len(c) /\ c # <<>>
    BY <1>1, <1>2
  <2>2. CASE i < Len(c)
    BY <1>1, <2>1, <2>2 DEF Nested
  <2>3. CASE i = Len(c)
    BY <1>1, <2>1, <2>3 DEF Last
  <2> QED BY <1>1, <2>1, <2>2, <2>3
<1> QED BY <1>1, <1>2 DEF Nested, Last

(* A call returns.                                                               *)
LEMMA PopCall ==
    ASSUME NEW c \in Seq(Call), c # <<>>, Nested(c)
    PROVE  /\ Front(c) \in Seq(Call) /\ Nested(Front(c))
           /\ Front(c) # <<>> => Last(Front(c)).at = "callback"
<1>1. Len(c) \in Nat \ {0} /\ \A i \in 1..(Len(c) - 1) : c[i] \in Call
  OBVIOUS
<1>2. 1 \in Int /\ Len(c) - 1 \in Int
  BY <1>1
<1>3. /\ SubSeq(c, 1, Len(c) - 1) \in Seq(Call)
      /\ Len(SubSeq(c, 1, Len(c) - 1)) =
            IF 1 <= Len(c) - 1 THEN (Len(c) - 1) - 1 + 1 ELSE 0
      /\ \A i \in 1..((Len(c) - 1) - 1 + 1) :
            SubSeq(c, 1, Len(c) - 1)[i] = c[1 + i - 1]
  BY <1>1, <1>2, SubSeqProperties
<1>4. Len(Front(c)) = Len(c) - 1
  <2>1. CASE Len(c) = 1
    BY <1>3, <2>1 DEF Front
  <2>2. CASE Len(c) > 1
    <3>1. 1 <= Len(c) - 1 /\ (Len(c) - 1) - 1 + 1 = Len(c) - 1
      BY <1>1, <2>2
    <3> QED BY <1>3, <3>1 DEF Front
  <2>3. \A n \in Nat \ {0} : n = 1 \/ n > 1
    OBVIOUS
  <2>4. Len(c) = 1 \/ Len(c) > 1
    BY <1>1, <2>3, Zenon
  <2> QED BY <2>1, <2>2, <2>4
<1>5. ASSUME NEW i \in 1..(Len(c) - 1) PROVE Front(c)[i] = c[i]
  <2>1. i \in 1..((Len(c) - 1) - 1 + 1) /\ 1 + i - 1 = i
    BY <1>1
  <2> QED BY <1>3, <2>1 DEF Front
<1>6. Front(c) \in Seq(Call)
  BY <1>3 DEF Front
<1>7. \A i \in 1..(Len(c) - 1) : Front(c)[i].at = "callback"
  BY <1>1, <1>5 DEF Nested
<1>8. Front(c) # <<>> => Len(c) - 1 \in 1..(Len(c) - 1)
  BY <1>1, <1>4, <1>6
<1> QED BY <1>1, <1>4, <1>6, <1>7, <1>8 DEF Nested, Last

-----------------------------------------------------------------------------
(* What a step does to the calls of the thread it belongs to.                    *)

Waits(c) == c # <<>> /\ Last(c).at = "wait"

(* A stack of calls as the threads have them: nested, and entered by a thread    *)
(* that lives.                                                                   *)
Sound(c, alive) == c \in Seq(Call) /\ Nested(c) /\ (~alive => c = <<>>)

LEMMA InOneCallSound ==
    ASSUME TypeOK, NEW t \in Thread
    PROVE  Sound(calls[t], life[t] = "alive")
  BY DEF TypeOK, InOneCall, Nested, Sound

(* TypeOK of the next state, from its parts.                                     *)
LEMMA TypeStep ==
    ASSUME TypeOK, NEW t \in Thread, NEW c,
           calls' = [calls EXCEPT ![t] = c],
           Sound(c, life[t] = "alive"),
           UNCHANGED <<life, joining, joined>>,
           queue' \in [Thread -> Seq(Apc)],
           posted' \in [Thread -> Seq(Apc)],
           started' \in [Thread -> Seq(Apc)]
    PROVE  TypeOK'
<1>1. calls \in [Thread -> Seq(Call)] /\ c \in Seq(Call)
  BY DEF TypeOK, Sound
<1>2. calls' \in [Thread -> Seq(Call)]
  BY <1>1
<1>3. ASSUME NEW u \in Thread PROVE InOneCall(u)'
  <2>1. CASE u = t
    <3>1. calls'[u] = c
      BY <1>1, <2>1
    <3> QED BY <2>1, <3>1 DEF InOneCall, Sound, Nested
  <2>2. CASE u # t
    <3>1. calls'[u] = calls[u]
      BY <1>1, <2>2
    <3> QED BY <3>1 DEF TypeOK, InOneCall
  <2> QED BY <2>1, <2>2
<1> QED BY <1>2, <1>3 DEF TypeOK

(* Take moves the oldest APC from the queue to the history of what was run.      *)
LEMMA TakeMoves ==
    ASSUME TypeOK, NEW t \in Thread, Take(t)
    PROVE  /\ queue' \in [Thread -> Seq(Apc)]
           /\ started' \in [Thread -> Seq(Apc)]
           /\ \A u \in Thread : started'[u] \o queue'[u] = started[u] \o queue[u]
           /\ \A u \in Thread \ {t} : queue'[u] = queue[u]
<1> DEFINE q == queue[t]
           s == started[t]
<1>1. /\ q \in Seq(Apc) /\ s \in Seq(Apc) /\ q # <<>>
      /\ queue \in [Thread -> Seq(Apc)] /\ started \in [Thread -> Seq(Apc)]
      /\ queue' = [queue EXCEPT ![t] = Tail(q)]
      /\ started' = [started EXCEPT ![t] = Append(s, Head(q))]
  BY DEF TypeOK, Take
<1> HIDE DEF q, s
<1>2. /\ Head(q) \in Apc /\ Tail(q) \in Seq(Apc)
      /\ Append(s, Head(q)) \in Seq(Apc)
  BY <1>1, HeadTailProperties, AppendProperties
<1>3. Append(s, Head(q)) \o Tail(q) = s \o q
  <2>1. Len(q) \in Nat \ {0} /\ 1 \in 1..Len(q) /\ Len(q) \in 1..Len(q)
    BY <1>1, EmptySeq
  <2>2. q = <<Head(q)>> \o Tail(q)
    <3>1. SubSeq(q, 1, Len(q)) = <<q[1]>> \o SubSeq(q, 1 + 1, Len(q))
      BY <1>1, <2>1, SubSeqRecursiveFirst
    <3>2. SubSeq(q, 1, Len(q)) = q
      BY <1>1, SubSeqFull
    <3>3. Tail(q) = SubSeq(q, 2, Len(q))
      BY <1>1, TailIsSubSeq
    <3>4. Head(q) = q[1] /\ 1 + 1 = 2
      BY <1>1
    <3> QED BY <3>1, <3>2, <3>3, <3>4
  <2>3. Append(s, Head(q)) = s \o <<Head(q)>> /\ <<Head(q)>> \in Seq(Apc)
    BY <1>1, <1>2, AppendIsConcat
  <2>4. (s \o <<Head(q)>>) \o Tail(q) = s \o (<<Head(q)>> \o Tail(q))
    BY <1>1, <1>2, <2>3, ConcatAssociative
  <2> QED BY <2>2, <2>3, <2>4
<1>4. \A u \in Thread : started'[u] \o queue'[u] = started[u] \o queue[u]
  BY <1>1, <1>3 DEF q, s
<1> QED BY <1>1, <1>2, <1>4

-----------------------------------------------------------------------------
(* The steps, seen from the stack of calls of the thread they concern.           *)

ThreadStep(t) ==
    \/ \E p \in Proc, a \in Apc : QueueUserAPC(p, t, a)
    \/ Sleeps(t) \/ WakeSpuriously(t) \/ Proceeds(t)

(* Such a step starts, ends and joins no thread.                                 *)
LEMMA ThreadStepFrame ==
    ASSUME NEW t \in Thread, ThreadStep(t)
    PROVE  UNCHANGED <<life, joining, joined>>
BY DEF ThreadStep, QueueUserAPC, Sleeps, SleepDrains, SleepWaits, WakeSpuriously,
       Proceeds, Expire, DrainOn, SleepReturns

(* Only this thread's calls change; they are sound after the step, and the thread *)
(* waits only if nothing is pending.                                              *)
StaysSound(t) ==
    \E d : /\ calls' = [calls EXCEPT ![t] = d]
           /\ Sound(d, life[t] = "alive")
           /\ Waits(d) => queue'[t] = <<>>

(* What it does to the calls.                                                    *)
LEMMA ThreadStepCalls ==
    ASSUME TypeOK, NoLostWakeup, NEW t \in Thread, ThreadStep(t)
    PROVE  StaysSound(t)
<1> DEFINE c == calls[t]
           moved(w) == [c EXCEPT ![Len(c)].at = w]
<1>1. /\ c \in Seq(Call) /\ Nested(c) /\ (life[t] # "alive" => c = <<>>)
      /\ queue \in [Thread -> Seq(Apc)]
  BY InOneCallSound DEF TypeOK, Sound
<1>2. ASSUME c # <<>>, NEW w \in {"callback", "wait", "woken", "expired"}
      PROVE  Sound(moved(w), life[t] = "alive") /\ (Waits(moved(w)) => w = "wait")
  BY <1>1, <1>2, MoveCall DEF Sound, Waits
<1>3. ASSUME ClientRuns(t), NEW w \in {"callback", "wait"}, NEW b \in BOOLEAN
      PROVE  LET d == Append(c, [at |-> w, timed |-> b])
             IN  Sound(d, life[t] = "alive") /\ (Waits(d) => w = "wait")
  <2>1. life[t] = "alive" /\ (c = <<>> \/ Last(c).at = "callback")
    BY <1>3, ThreadsAssumption DEF ClientRuns, At
  <2>2. [at |-> w, timed |-> b] \in Call
    BY DEF Call
  <2> QED BY <1>1, <2>1, <2>2, PushCall DEF Sound, Waits
<1>4. ASSUME NEW p \in Proc, NEW a \in Apc, QueueUserAPC(p, t, a)
      PROVE  StaysSound(t)
  <2>1. CASE At(t, "wait")
    <3>1. c # <<>> /\ calls' = [calls EXCEPT ![t] = moved("woken")]
      BY <1>4, <2>1 DEF QueueUserAPC, Signalled, Moved, At
    <3> QED BY <1>2, <3>1 DEF StaysSound
  <2>2. CASE ~At(t, "wait")
    <3>1. ~Waits(c) /\ calls' = [calls EXCEPT ![t] = c]
      BY <1>4, <2>2 DEF QueueUserAPC, Signalled, At, Waits
    <3> QED BY <1>1, <3>1 DEF StaysSound, Sound
  <2> QED BY <2>1, <2>2
<1>5. ASSUME SleepDrains(t)
      PROVE  StaysSound(t)
  <2>1. /\ ClientRuns(t)
        /\ calls' = [calls EXCEPT ![t] = Append(c, [at |-> "callback", timed |-> TRUE])]
    BY <1>5 DEF SleepDrains, EnterCall
  <2> QED BY <1>3, <2>1 DEF StaysSound
<1>6. ASSUME NEW timed \in BOOLEAN, SleepWaits(t, timed)
      PROVE  StaysSound(t)
  <2>1. /\ ClientRuns(t)
        /\ queue'[t] = <<>>
        /\ calls' = [calls EXCEPT ![t] = Append(c, [at |-> "wait", timed |-> timed])]
    BY <1>6 DEF SleepWaits, EnterCall
  <2> QED BY <1>3, <2>1 DEF StaysSound
<1>7. ASSUME NEW w \in {"callback", "woken", "expired"}, c # <<>>, GoTo(t, w)
      PROVE  StaysSound(t)
  <2>1. calls' = [calls EXCEPT ![t] = moved(w)]
    BY <1>7 DEF GoTo, Moved
  <2> QED BY <1>2, <1>7, <2>1 DEF StaysSound
<1>8. ASSUME SleepReturns(t)
      PROVE  StaysSound(t)
  <2>1. c # <<>> /\ calls' = [calls EXCEPT ![t] = Front(c)]
    BY <1>8 DEF SleepReturns, Return, At
  <2>2. Sound(Front(c), life[t] = "alive") /\ ~Waits(Front(c))
    BY <1>1, <2>1, PopCall DEF Sound, Waits
  <2> QED BY <2>1, <2>2 DEF StaysSound
<1>9. WakeSpuriously(t) \/ Expire(t) \/ DrainOn(t) =>
        c # <<>> /\ \E w \in {"callback", "woken", "expired"} : GoTo(t, w)
  BY DEF WakeSpuriously, Expire, DrainOn, At
<1> QED BY <1>4, <1>5, <1>6, <1>7, <1>8, <1>9 DEF ThreadStep, Sleeps, Proceeds

(* What it does to the APCs: the queue stays what was posted and not started.    *)
LEMMA ThreadStepApcs ==
    ASSUME TypeOK, RunOnceInOrder, NEW t \in Thread, ThreadStep(t)
    PROVE  /\ queue' \in [Thread -> Seq(Apc)]
           /\ posted' \in [Thread -> Seq(Apc)]
           /\ started' \in [Thread -> Seq(Apc)]
           /\ \A u \in Thread \ {t} : queue'[u] = queue[u]
           /\ RunOnceInOrder'
<1>1. /\ queue \in [Thread -> Seq(Apc)]
      /\ posted \in [Thread -> Seq(Apc)]
      /\ started \in [Thread -> Seq(Apc)]
  BY DEF TypeOK
<1>2. ASSUME NEW p \in Proc, NEW a \in Apc, QueueUserAPC(p, t, a)
      PROVE  /\ queue' \in [Thread -> Seq(Apc)]
             /\ posted' \in [Thread -> Seq(Apc)]
             /\ started' \in [Thread -> Seq(Apc)]
             /\ \A u \in Thread \ {t} : queue'[u] = queue[u]
             /\ RunOnceInOrder'
  <2>1. /\ queue' = [queue EXCEPT ![t] = Append(queue[t], a)]
        /\ posted' = [posted EXCEPT ![t] = Append(posted[t], a)]
        /\ started' = started
    BY <1>2 DEF QueueUserAPC
  <2>2. /\ queue[t] \in Seq(Apc) /\ started[t] \in Seq(Apc) /\ posted[t] \in Seq(Apc)
        /\ <<a>> \in Seq(Apc)
        /\ posted[t] = started[t] \o queue[t]
    BY <1>1 DEF RunOnceInOrder
  <2>3. /\ Append(queue[t], a) = queue[t] \o <<a>>
        /\ Append(posted[t], a) = posted[t] \o <<a>>
        /\ Append(queue[t], a) \in Seq(Apc) /\ Append(posted[t], a) \in Seq(Apc)
    BY <2>2, AppendIsConcat, AppendProperties
  <2> DEFINE s == started[t]
             q == queue[t]
             one == <<a>>
  <2> HIDE DEF s, q, one
  <2>4. (s \o q) \o one = s \o (q \o one)
    <3>1. s \in Seq(Apc) /\ q \in Seq(Apc) /\ one \in Seq(Apc)
      BY <2>2 DEF s, q, one
    <3> QED BY <3>1, ConcatAssociative
  <2>5. Append(posted[t], a) = started[t] \o Append(queue[t], a)
    BY <2>2, <2>3, <2>4 DEF s, q, one
  <2>6. RunOnceInOrder'
    BY <1>1, <2>1, <2>5 DEF RunOnceInOrder
  <2> QED BY <1>1, <2>1, <2>3, <2>6
<1>3. CASE Take(t) /\ UNCHANGED posted
  BY <1>1, <1>3, TakeMoves DEF RunOnceInOrder
<1>4. CASE UNCHANGED <<queue, posted, started>>
  BY <1>1, <1>4 DEF RunOnceInOrder
<1>5. \/ \E p \in Proc, a \in Apc : QueueUserAPC(p, t, a)
      \/ Take(t) /\ UNCHANGED posted
      \/ UNCHANGED <<queue, posted, started>>
  BY DEF ThreadStep, Sleeps, SleepDrains, SleepWaits, WakeSpuriously, Proceeds,
         Expire, DrainOn, SleepReturns
<1> QED BY <1>2, <1>3, <1>4, <1>5

-----------------------------------------------------------------------------
(* The theorems.  One inductive invariant carries them: types (and with them     *)
(* that a thread acts in its innermost call only), the order of the APCs, and    *)
(* that nobody waits on a queue that is not empty.                               *)

ThreadInv == TypeOK /\ RunOnceInOrder /\ NoLostWakeup

LEMMA ThreadInvInductive == ThreadsSpec => []ThreadInv
<1>1. ThreadsInit => ThreadInv
  <2> SUFFICES ASSUME ThreadsInit PROVE ThreadInv
    OBVIOUS
  <2>1. \A S : <<>> \in Seq(S) /\ Len(<<>>) = 0
    BY EmptySeq
  <2>2. <<>> \o <<>> = <<>>
    BY <2>1, ConcatEmptySeq
  <2>3. TypeOK
    BY <2>1 DEF ThreadsInit, TypeOK, InOneCall
  <2> QED BY <2>2, <2>3 DEF ThreadsInit, ThreadInv, RunOnceInOrder, NoLostWakeup
<1>2. ThreadInv /\ [ThreadsNext]_threadVars => ThreadInv'
  <2> SUFFICES ASSUME ThreadInv, [ThreadsNext]_threadVars PROVE ThreadInv'
    OBVIOUS
  <2>0. TypeOK /\ RunOnceInOrder /\ NoLostWakeup
    BY DEF ThreadInv
  <2>1. ASSUME NEW t \in Thread, ThreadStep(t) PROVE ThreadInv'
    <3>1. PICK c : /\ calls' = [calls EXCEPT ![t] = c]
                   /\ Sound(c, life[t] = "alive")
                   /\ Waits(c) => queue'[t] = <<>>
      BY <2>0, <2>1, ThreadStepCalls DEF StaysSound
    <3>2. TypeOK'
      BY <2>0, <2>1, <3>1, ThreadStepFrame, ThreadStepApcs, TypeStep
    <3>3. NoLostWakeup'
      <4>1. calls \in [Thread -> Seq(Call)]
        BY <2>0 DEF TypeOK
      <4>2. ASSUME NEW u \in Thread, At(u, "wait")' PROVE queue'[u] = <<>>
        <5>1. CASE u = t
          <6>1. Waits(c)
            BY <3>1, <4>1, <4>2, <5>1 DEF At, Waits
          <6> QED BY <3>1, <5>1, <6>1
        <5>2. CASE u # t
          <6>1. At(u, "wait")
            BY <3>1, <4>1, <4>2, <5>2 DEF At
          <6>2. queue'[u] = queue[u]
            BY <2>0, <2>1, <5>2, ThreadStepApcs
          <6> QED BY <2>0, <6>1, <6>2 DEF NoLostWakeup
        <5> QED BY <5>1, <5>2
      <4> QED BY <4>2 DEF NoLostWakeup
    <3>4. RunOnceInOrder'
      BY <2>0, <2>1, ThreadStepApcs
    <3> QED BY <3>2, <3>3, <3>4 DEF ThreadInv
  <2>2. ASSUME UNCHANGED <<queue, calls, posted, started>>, TypeOK' PROVE ThreadInv'
    BY <2>0, <2>2 DEF ThreadInv, RunOnceInOrder, NoLostWakeup, At
  <2>3. ASSUME NEW p \in Proc, NEW t \in Thread, CreateThread(p, t) PROVE ThreadInv'
    <3>1. TypeOK'
      BY <2>0, <2>3 DEF CreateThread, TypeOK, InOneCall
    <3> QED BY <2>2, <2>3, <3>1 DEF CreateThread
  <2>4. ASSUME NEW t \in Thread, Exit(t) PROVE ThreadInv'
    <3>1. TypeOK'
      BY <2>0, <2>4 DEF Exit, TypeOK, InOneCall
    <3> QED BY <2>2, <2>4, <3>1 DEF Exit
  <2>5. ASSUME NEW t \in Thread, WaitForThread(t) PROVE ThreadInv'
    <3>1. TypeOK'
      BY <2>0, <2>5 DEF WaitForThread, TypeOK, InOneCall
    <3> QED BY <2>2, <2>5, <3>1 DEF WaitForThread
  <2>6. ASSUME NEW t \in Thread, JoinReturns(t) PROVE ThreadInv'
    <3>1. TypeOK'
      BY <2>0, <2>6 DEF JoinReturns, TypeOK, InOneCall
    <3> QED BY <2>2, <2>6, <3>1 DEF JoinReturns
  <2>7. CASE UNCHANGED threadVars
    <3>1. TypeOK'
      BY <2>0, <2>7 DEF threadVars, TypeOK, InOneCall
    <3> QED BY <2>2, <2>7, <3>1 DEF threadVars
  <2> QED BY <2>1, <2>3, <2>4, <2>5, <2>6, <2>7 DEF ThreadsNext, ThreadStep
<1> QED BY <1>1, <1>2, PTL DEF ThreadsSpec

(* Every reachable state is well typed, and a thread acts only in its innermost  *)
(* SleepEx.                                                                      *)
THEOREM ThreadsTyped == ThreadsSpec => []TypeOK
<1>1. ThreadInv => TypeOK
  BY DEF ThreadInv
<1> QED BY <1>1, ThreadInvInductive, PTL

(* Every APC queued is run once and in order, or still pending.                  *)
THEOREM ApcsRunInOrder == ThreadsSpec => []RunOnceInOrder
<1>1. ThreadInv => RunOnceInOrder
  BY DEF ThreadInv
<1> QED BY <1>1, ThreadInvInductive, PTL

(* No thread waits while an APC is pending for it.                               *)
THEOREM NoWakeupLost == ThreadsSpec => []NoLostWakeup
<1>1. ThreadInv => NoLostWakeup
  BY DEF ThreadInv
<1> QED BY <1>1, ThreadInvInductive, PTL

-----------------------------------------------------------------------------
(* What the painters do leaves all that a tint is made of.                       *)
Painting ==
    \/ \E i \in Id : GetImage(i) \/ chromeImageFor(i)
    \/ \E f \in Font : glyph(f)

LEMMA NoRegions == [i \in Id |-> <<>>] \in [Id -> Seq(Group)]
OBVIOUS

LEMMA InitTyped == Init => ThemesTypeOK
<1> SUFFICES ASSUME Init PROVE ThemesTypeOK
    OBVIOUS
<1>1. parts \in [Id -> Seq(Group)]
    BY NoRegions DEF Init
<1>2. skin \in Skin \cup {NoSkin} /\ active \in Theme \cup {NoTheme} /\ ~(active # NoTheme)
    BY DEF Init
<1>3. /\ group \in [Id -> Group \cup {NoGroup, Undeclared}]
      /\ \A i \in Id : group[i] = Undeclared
      /\ soft \subseteq Id
      /\ glow \in [Id -> Colour \cup {NoColour}]
      /\ sets \in [Theme -> Gammaset \cup {NoSet}]
      /\ injected \in BOOLEAN
    BY DEF Init
<1> QED BY <1>1, <1>2, <1>3 DEF ThemesTypeOK

LEMMA SynthesizedTyped ==
    ASSUME NEW t \in Synthetic, NEW names
    PROVE  Synthesized(t, names) \in Gammaset
BY ThemesAssumption DEF Synthesized, Gammaset

LEMMA StepTyped == ThemesTypeOK /\ [Next]_vars => ThemesTypeOK'
<1> SUFFICES ASSUME ThemesTypeOK, [Next]_vars PROVE ThemesTypeOK'
    OBVIOUS
<1> USE ThemesAssumption DEF ThemesTypeOK
<1>1. CASE Painting
    BY <1>1 DEF Painting, GetImage, chromeImageFor, glyph, defs, regions, themes
<1>2. ASSUME NEW s \in Skin, NEW used \in SUBSET Id, load(s, used) PROVE ThemesTypeOK'
    <2>1. /\ skin' = s
          /\ group' = Doc[s].group /\ soft' = {} /\ glow' = [i \in Id |-> NoColour]
          /\ parts' = [i \in Id |-> <<>>]
          /\ sets' = Doc[s].sets /\ active' = Doc[s].default /\ injected' = FALSE
        BY <1>2 DEF load, loadBitmaps, loadThemes
    <2>2. /\ Doc[s].group \in [Id -> Group \cup {NoGroup, Undeclared}]
          /\ Doc[s].sets \in [Theme -> Gammaset \cup {NoSet}]
          /\ Doc[s].default \in Theme \cup {NoTheme}
          /\ Doc[s].default # NoTheme => Doc[s].sets[Doc[s].default] # NoSet
          /\ s # NoSkin
        BY DEF Document
    <2>3. parts' \in [Id -> Seq(Group)]
        BY <2>1, NoRegions
    <2>4. glow' \in [Id -> Colour \cup {NoColour}]
        BY <2>1
    <2> QED BY <2>1, <2>2, <2>3, <2>4
<1>3. ASSUME NEW t \in Theme, setActiveGammaset(t) PROVE ThemesTypeOK'
    BY <1>3 DEF setActiveGammaset, defs, regions
<1>4. CASE invalidateGlyphCache
    BY <1>4 DEF invalidateGlyphCache, defs, regions, themes
<1>5. ASSUME NEW a \in BOOLEAN, assignRolesFromWidgetTree(a) PROVE ThemesTypeOK'
    <2> DEFINE role == [i \in Id |-> IF group[i] = NoGroup THEN RoleOf[i] ELSE group[i]]
               bodies == {i \in Id : a /\ role[i] = Backgrounds}
    <2>1. /\ group' = [i \in Id |-> IF i \in bodies THEN Body ELSE role[i]]
          /\ soft' = soft \cup (bodies \cap Drawers)
          /\ UNCHANGED <<skin, glow, parts, sets, active, injected>>
        BY <1>5 DEF assignRolesFromWidgetTree, regions, themes
    <2>2. group' \in [Id -> Group \cup {NoGroup, Undeclared}] /\ soft' \subseteq Id
        BY <2>1
    <2>3. skin' = NoSkin => \A i \in Id : group'[i] = Undeclared
        BY <2>1
    <2> QED BY <2>1, <2>2, <2>3
<1>6. CASE injectSyntheticThemes
    <2>1. sets' \in [Theme -> Gammaset \cup {NoSet}]
        BY <1>6, SynthesizedTyped DEF injectSyntheticThemes
    <2>2. active' # NoTheme => sets'[active'] # NoSet
        BY <1>6, SynthesizedTyped DEF injectSyntheticThemes
    <2> QED BY <1>6, <2>1, <2>2 DEF injectSyntheticThemes, defs, regions
<1>7. ASSUME NEW t \in Custom, NEW x \in Recolour, injectGlobalTheme(t, x) PROVE ThemesTypeOK'
    <2>1. [tint |-> [g \in Group |-> Plain], all |-> x] \in Gammaset
        BY DEF Gammaset
    <2> QED BY <1>7, <2>1 DEF injectGlobalTheme, defs, regions
<1>8. ASSUME NEW i \in Baked, NEW c \in Colour, setAccentRegion(i, c) PROVE ThemesTypeOK'
    BY <1>8 DEF setAccentRegion, defs, themes
<1>9. ASSUME NEW i \in Baked, NEW g \in Label, setRegionGroup(i, g) PROVE ThemesTypeOK'
    <2>1. Append(parts[i], g) \in Seq(Group)
        OBVIOUS
    <2> QED BY <1>9, <2>1 DEF setRegionGroup, defs, themes
<1>10. CASE clearAccentRegions
    BY <1>10 DEF clearAccentRegions, defs, themes
<1>11. ASSUME NEW i \in Plugin, NEW p,
              registerRuntimeImage(i, p) \/ registerRuntimePath(i, p) \/ unregisterRuntimeBitmap(i)
       PROVE ThemesTypeOK'
    BY <1>11 DEF registerRuntimeImage, registerRuntimePath, unregisterRuntimeBitmap,
                 defs, regions, themes
<1>12. CASE UNCHANGED vars
    BY <1>12 DEF vars, defs, regions, themes
<1> QED BY <1>1, <1>2, <1>3, <1>4, <1>5, <1>6, <1>7, <1>8, <1>9, <1>10, <1>11, <1>12
        DEF Next, Painting

(* The theme that is active exists, and tags and regions are the loaded skin's.  *)
THEOREM ThemesTyped == Spec => []ThemesTypeOK
BY InitTyped, StepTyped, PTL DEF Spec

-----------------------------------------------------------------------------
(* Synthetic themes exist only once they were injected.                          *)
NotYetSynthesized ==
    ~injected => active \notin Synthetic /\ \A t \in Synthetic : sets[t] = NoSet

LEMMA StepNotYet ==
    ThemesTypeOK /\ NotYetSynthesized /\ [Next]_vars => NotYetSynthesized'
<1> SUFFICES ASSUME ThemesTypeOK, NotYetSynthesized, [Next]_vars PROVE NotYetSynthesized'
    OBVIOUS
<1> USE ThemesAssumption DEF ThemesTypeOK, NotYetSynthesized
<1>1. ASSUME UNCHANGED themes PROVE NotYetSynthesized'
    BY <1>1 DEF themes
<1>2. CASE Painting
    BY <1>1, <1>2 DEF Painting, GetImage, chromeImageFor, glyph
<1>3. ASSUME NEW s \in Skin, NEW used \in SUBSET Id, load(s, used) PROVE NotYetSynthesized'
    BY <1>3 DEF load, loadThemes
<1>4. ASSUME NEW t \in Theme, setActiveGammaset(t) PROVE NotYetSynthesized'
    BY <1>4 DEF setActiveGammaset
<1>5. CASE injectSyntheticThemes
    BY <1>5 DEF injectSyntheticThemes
<1>6. ASSUME NEW t \in Custom, NEW x \in Recolour, injectGlobalTheme(t, x) PROVE NotYetSynthesized'
    BY <1>6 DEF injectGlobalTheme
<1>7. CASE invalidateGlyphCache \/ clearAccentRegions \/ UNCHANGED vars
    BY <1>1, <1>7 DEF invalidateGlyphCache, clearAccentRegions, vars
<1>8. ASSUME NEW a \in BOOLEAN, assignRolesFromWidgetTree(a) PROVE NotYetSynthesized'
    BY <1>1, <1>8 DEF assignRolesFromWidgetTree
<1>9. ASSUME NEW i, NEW c, setAccentRegion(i, c) \/ setRegionGroup(i, c) PROVE NotYetSynthesized'
    BY <1>1, <1>9 DEF setAccentRegion, setRegionGroup
<1>10. ASSUME NEW i, NEW p,
              registerRuntimeImage(i, p) \/ registerRuntimePath(i, p) \/ unregisterRuntimeBitmap(i)
       PROVE  NotYetSynthesized'
    BY <1>1, <1>10 DEF registerRuntimeImage, registerRuntimePath, unregisterRuntimeBitmap
<1> QED BY <1>2, <1>3, <1>4, <1>5, <1>6, <1>7, <1>8, <1>9, <1>10 DEF Next, Painting

-----------------------------------------------------------------------------
(* A step that leaves what tints are made of and drops images keeps the cache    *)
(* fresh.                                                                        *)
LEMMA FreshByFewer ==
    ASSUME TintsFresh,
           UNCHANGED <<skin, group, soft, active>>,
           \A i \in Id : \/ sub'[i] = NotCached
                         \/ /\ sub'[i] = sub[i]
                            /\ glow'[i] = glow[i]
                            /\ parts'[i] = parts[i]
                            /\ \A g : transformFor(g)' = transformFor(g)
                            /\ globalTransform' = globalTransform
    PROVE  TintsFresh'
<1> SUFFICES ASSUME NEW i \in Id, sub'[i] # NotCached
             PROVE  Declared(i)' /\ sub'[i] = Tinted(i)'
    BY DEF TintsFresh
<1>1. /\ sub'[i] = sub[i] /\ glow'[i] = glow[i] /\ parts'[i] = parts[i]
      /\ \A g : transformFor(g)' = transformFor(g)
      /\ globalTransform' = globalTransform
    OBVIOUS
<1>2. Declared(i) /\ sub[i] = Tinted(i)
    BY <1>1 DEF TintsFresh
<1>3. Declared(i)'
    BY <1>2 DEF Declared
<1>4. Tinted(i)' = Tinted(i)
    BY <1>1 DEF Tinted
<1> QED BY <1>1, <1>2, <1>3, <1>4

(* The painters put into the cache what they computed.                           *)
LEMMA ReadKeepsFresh ==
    ASSUME TintsFresh, NEW ids, Read(ids), UNCHANGED <<defs, regions, themes>>
    PROVE  TintsFresh'
<1> SUFFICES ASSUME NEW i \in Id, sub'[i] # NotCached
             PROVE  Declared(i)' /\ sub'[i] = Tinted(i)'
    BY DEF TintsFresh
<1>1. Declared(i)' <=> Declared(i)
    BY DEF Declared, defs
<1>2. Tinted(i)' = Tinted(i)
    BY DEF Tinted, transformFor, globalTransform, defs, regions, themes
<1>3. sub'[i] = IF i \in ids /\ Declared(i) THEN imageFor(i) ELSE sub[i]
    BY DEF Read
<1>4. CASE i \in ids /\ Declared(i)
    <2>1. sub'[i] = imageFor(i)
        BY <1>3, <1>4
    <2>2. sub[i] # NotCached => sub[i] = Tinted(i)
        BY DEF TintsFresh
    <2> QED BY <1>1, <1>2, <1>4, <2>1, <2>2 DEF imageFor
<1>5. CASE ~(i \in ids /\ Declared(i))
    BY <1>1, <1>2, <1>3, <1>5 DEF TintsFresh
<1> QED BY <1>4, <1>5

LEMMA NothingCachedIsFresh == ASSUME sub' = NoImages PROVE TintsFresh'
BY DEF TintsFresh, NoImages

(* Only a theme that is not active changes when themes are injected.             *)
LEMMA InjectionKeepsTints ==
    ASSUME ThemesTypeOK, NotYetSynthesized,
           \/ injectSyntheticThemes
           \/ \E t \in Custom, x \in Recolour : injectGlobalTheme(t, x)
    PROVE  /\ \A g : transformFor(g)' = transformFor(g)
           /\ globalTransform' = globalTransform
<1> USE ThemesAssumption DEF ThemesTypeOK
<1>1. active' = active
    BY DEF injectSyntheticThemes, injectGlobalTheme
<1>2. active # NoTheme => sets'[active] = sets[active]
    <2>1. CASE injectSyntheticThemes
        BY <2>1 DEF injectSyntheticThemes, NotYetSynthesized
    <2>2. ASSUME NEW t \in Custom, NEW x \in Recolour, injectGlobalTheme(t, x)
          PROVE  active # NoTheme => sets'[active] = sets[active]
        BY <2>2 DEF injectGlobalTheme
    <2> QED BY <2>1, <2>2
<1> QED BY <1>1, <1>2 DEF transformFor, globalTransform

LEMMA StepFresh ==
    ThemesTypeOK /\ NotYetSynthesized /\ TintsFresh /\ [Next]_vars => TintsFresh'
<1> SUFFICES ASSUME ThemesTypeOK, NotYetSynthesized, TintsFresh, [Next]_vars PROVE TintsFresh'
    OBVIOUS
<1>1. CASE Painting
    BY <1>1, ReadKeepsFresh DEF Painting, GetImage, chromeImageFor, glyph
<1>2. ASSUME NEW s \in Skin, NEW used \in SUBSET Id, load(s, used) PROVE TintsFresh'
    BY <1>2 DEF load, TintsFresh
<1>3. ASSUME NEW t \in Theme, setActiveGammaset(t) PROVE TintsFresh'
    BY <1>3, NothingCachedIsFresh DEF setActiveGammaset, setGammasetRegistry
<1>4. ASSUME NEW a \in BOOLEAN, assignRolesFromWidgetTree(a) PROVE TintsFresh'
    BY <1>4, NothingCachedIsFresh DEF assignRolesFromWidgetTree
<1>5. CASE \/ injectSyntheticThemes
           \/ \E t \in Custom, x \in Recolour : injectGlobalTheme(t, x)
    <2>1. UNCHANGED <<skin, group, soft, active, sub, glow, parts>>
        BY <1>5 DEF injectSyntheticThemes, injectGlobalTheme, defs, regions, caches
    <2> QED BY <1>5, <2>1, InjectionKeepsTints, FreshByFewer
<1>6. ASSUME UNCHANGED <<defs, themes>>, NEW ids, sub' = Forget(ids),
             \A i \in Id \ ids : glow'[i] = glow[i] /\ parts'[i] = parts[i]
      PROVE  TintsFresh'
    <2>1. UNCHANGED <<skin, group, soft, active>>
        BY <1>6 DEF defs, themes
    <2>2. \A g : transformFor(g)' = transformFor(g)
        BY <1>6 DEF transformFor, themes
    <2>3. globalTransform' = globalTransform
        BY <1>6 DEF globalTransform, themes
    <2>4. \A i \in Id : sub'[i] = IF i \in ids THEN NotCached ELSE sub[i]
        BY <1>6 DEF Forget
    <2> QED BY <1>6, <2>1, <2>2, <2>3, <2>4, FreshByFewer
<1>7. ASSUME NEW i \in Baked, NEW c, setAccentRegion(i, c) \/ setRegionGroup(i, c)
      PROVE  TintsFresh'
    <2>1. \A j \in Id \ {i} : glow'[j] = glow[j] /\ parts'[j] = parts[j]
        BY <1>7 DEF setAccentRegion, setRegionGroup, ThemesTypeOK
    <2>2. UNCHANGED <<defs, themes>> /\ sub' = Forget({i})
        BY <1>7 DEF setAccentRegion, setRegionGroup
    <2> QED BY <1>6, <2>1, <2>2
<1>8. CASE clearAccentRegions
    <2> DEFINE ids == {i \in Id : glow[i] # NoColour \/ parts[i] # <<>>}
    <2>1. \A j \in Id \ ids : glow'[j] = glow[j] /\ parts'[j] = parts[j]
        BY <1>8 DEF clearAccentRegions, ThemesTypeOK
    <2>2. UNCHANGED <<defs, themes>> /\ sub' = Forget(ids)
        BY <1>8 DEF clearAccentRegions
    <2> QED BY <1>6, <2>1, <2>2
<1>9. ASSUME NEW i \in Plugin, NEW p,
             registerRuntimeImage(i, p) \/ registerRuntimePath(i, p) \/ unregisterRuntimeBitmap(i)
      PROVE  TintsFresh'
    <2>1. UNCHANGED <<defs, themes, regions>> /\ sub' = Forget({i})
        BY <1>9 DEF registerRuntimeImage, registerRuntimePath, unregisterRuntimeBitmap
    <2> QED BY <1>6, <2>1 DEF regions
<1>10. CASE invalidateGlyphCache \/ UNCHANGED vars
    <2>1. UNCHANGED <<defs, themes, regions, sub>>
        BY <1>10 DEF invalidateGlyphCache, vars, caches
    <2> QED BY <2>1 DEF TintsFresh, Declared, Tinted, transformFor, globalTransform,
                        defs, themes, regions
<1> QED BY <1>1, <1>2, <1>3, <1>4, <1>5, <1>7, <1>8, <1>9, <1>10 DEF Next, Painting

(* No tinted image in the cache is stale.                                        *)
THEOREM TintsStayFresh == Spec => []TintsFresh
<1>1. Init => ThemesTypeOK /\ NotYetSynthesized /\ TintsFresh
    <2>1. ASSUME Init PROVE NotYetSynthesized /\ TintsFresh
        BY <2>1, ThemesAssumption DEF Init, NotYetSynthesized, TintsFresh, NoImages
    <2> QED BY <2>1, InitTyped
<1>2. ThemesTypeOK /\ NotYetSynthesized /\ TintsFresh /\ [Next]_vars
        => (ThemesTypeOK /\ NotYetSynthesized /\ TintsFresh)'
    BY StepTyped, StepNotYet, StepFresh
<1> QED BY <1>1, <1>2, PTL DEF Spec

-----------------------------------------------------------------------------
(* A plugin's image is never tinted, and is the one registered last whatever was *)
(* read since.                                                                   *)
PluginsServed ==
    \A i \in Id : /\ Served(i) = latest[i]
                  /\ Served(i) # Missing => Served(i).under = Unthemed

RuntimeTotal == Id = DOMAIN decoded /\ Id = DOMAIN paths /\ Id = DOMAIN latest

LEMMA InitPlugins == Init => RuntimeTotal /\ PluginsServed
BY DEF Init, RuntimeTotal, PluginsServed, Served, Decode

LEMMA DecodedUnthemed ==
    ASSUME NEW p, Decode(p) # Missing PROVE Decode(p).under = Unthemed
BY DEF Decode, Untinted

LEMMA ReadKeepsServed == ASSUME NEW ids, Read(ids), NEW i \in Id PROVE Served(i)' = Served(i)
BY DEF Read, Served

LEMMA StepPlugins ==
    RuntimeTotal /\ PluginsServed /\ [Next]_vars => RuntimeTotal' /\ PluginsServed'
<1> SUFFICES ASSUME RuntimeTotal, PluginsServed, [Next]_vars
             PROVE  RuntimeTotal' /\ PluginsServed'
    OBVIOUS
<1> USE DEF RuntimeTotal
<1>1. ASSUME UNCHANGED runtime PROVE RuntimeTotal' /\ PluginsServed'
    BY <1>1 DEF runtime, PluginsServed, Served
<1>2. CASE Painting
    <2>1. PICK ids : Read(ids)
        BY <1>2 DEF Painting, GetImage, chromeImageFor, glyph
    <2>2. UNCHANGED latest
        BY <2>1 DEF Read
    <2>3. RuntimeTotal'
        BY <2>1 DEF Read
    <2> QED BY <2>1, <2>2, <2>3, ReadKeepsServed DEF PluginsServed
<1>3. ASSUME NEW s \in Skin, NEW used \in SUBSET Id, load(s, used)
      PROVE  RuntimeTotal' /\ PluginsServed'
    <2>1. \A i \in Id : Served(i)' = Served(i)
        BY <1>3 DEF load, Served
    <2>2. RuntimeTotal' /\ UNCHANGED latest
        BY <1>3 DEF load
    <2> QED BY <2>1, <2>2 DEF PluginsServed
<1>4. ASSUME NEW i \in Plugin, NEW p, registerRuntimeImage(i, p)
      PROVE  RuntimeTotal' /\ PluginsServed'
    <2>1. RuntimeTotal'
        BY <1>4 DEF registerRuntimeImage
    <2>2. \A j \in Id \ {i} : Served(j)' = Served(j) /\ latest'[j] = latest[j]
        BY <1>4 DEF registerRuntimeImage, Served
    <2>3. i \in Id => Served(i)' = Untinted(p) /\ latest'[i] = Untinted(p)
        BY <1>4 DEF registerRuntimeImage, Served, Decode
    <2>4. Untinted(p).under = Unthemed
        BY DEF Untinted
    <2>5. ASSUME NEW j \in Id
          PROVE  Served(j)' = latest'[j] /\ (Served(j)' # Missing => Served(j)'.under = Unthemed)
        <3>1. CASE j = i
            BY <2>3, <2>4, <3>1
        <3>2. CASE j # i
            BY <2>2, <3>2 DEF PluginsServed
        <3> QED BY <3>1, <3>2
    <2> QED BY <2>1, <2>5 DEF PluginsServed
<1>5. ASSUME NEW i \in Plugin, NEW p, registerRuntimePath(i, p)
      PROVE  RuntimeTotal' /\ PluginsServed'
    <2>1. RuntimeTotal'
        BY <1>5 DEF registerRuntimePath
    <2>2. \A j \in Id \ {i} : Served(j)' = Served(j) /\ latest'[j] = latest[j]
        BY <1>5 DEF registerRuntimePath, Served
    <2>3. i \in Id => Served(i)' = Decode(p) /\ latest'[i] = Decode(p)
        BY <1>5 DEF registerRuntimePath, Served
    <2> QED BY <2>1, <2>2, <2>3, DecodedUnthemed DEF PluginsServed
<1>6. ASSUME NEW i \in Plugin, unregisterRuntimeBitmap(i)
      PROVE  RuntimeTotal' /\ PluginsServed'
    <2>1. RuntimeTotal'
        BY <1>6 DEF unregisterRuntimeBitmap
    <2>2. \A j \in Id \ {i} : Served(j)' = Served(j) /\ latest'[j] = latest[j]
        BY <1>6 DEF unregisterRuntimeBitmap, Served
    <2>3. i \in Id => Served(i)' = Missing /\ latest'[i] = Missing
        BY <1>6 DEF unregisterRuntimeBitmap, Served, Decode
    <2> QED BY <2>1, <2>2, <2>3 DEF PluginsServed
<1>7. ASSUME NEW t, setActiveGammaset(t) PROVE RuntimeTotal' /\ PluginsServed'
    BY <1>1, <1>7 DEF setActiveGammaset
<1>8. ASSUME NEW a, assignRolesFromWidgetTree(a) PROVE RuntimeTotal' /\ PluginsServed'
    BY <1>1, <1>8 DEF assignRolesFromWidgetTree
<1>9. ASSUME NEW t, NEW x, injectGlobalTheme(t, x) PROVE RuntimeTotal' /\ PluginsServed'
    BY <1>1, <1>9 DEF injectGlobalTheme
<1>10. ASSUME NEW i, NEW c, setAccentRegion(i, c) \/ setRegionGroup(i, c)
       PROVE  RuntimeTotal' /\ PluginsServed'
    BY <1>1, <1>10 DEF setAccentRegion, setRegionGroup
<1>11. CASE invalidateGlyphCache \/ injectSyntheticThemes \/ clearAccentRegions \/ UNCHANGED vars
    BY <1>1, <1>11 DEF invalidateGlyphCache, injectSyntheticThemes, clearAccentRegions, vars
<1> QED BY <1>2, <1>3, <1>4, <1>5, <1>6, <1>7, <1>8, <1>9, <1>10, <1>11 DEF Next, Painting

(* A plugin's id that the skin does not declare gives the last registration.     *)
THEOREM LatestServed == Spec => []RuntimeIsLatest
<1>1. RuntimeTotal /\ PluginsServed => RuntimeIsLatest
    BY DEF PluginsServed, RuntimeIsLatest, imageFor
<1> QED BY <1>1, InitPlugins, StepPlugins, PTL DEF Spec

-----------------------------------------------------------------------------
(* The caches of chrome and of glyphs.                                           *)
CachesTotal == DOMAIN masked = Id /\ DOMAIN tables = Font

LEMMA ImagesAreThemed ==
    ASSUME TintsFresh, PluginsServed, NEW i \in Id, imageFor(i) # Missing
    PROVE  UpToTheme(imageFor(i))
<1>1. CASE Declared(i)
    <2>1. imageFor(i) = Tinted(i)
        BY <1>1 DEF imageFor, TintsFresh
    <2> QED BY <2>1 DEF Tinted, UpToTheme
<1>2. CASE ~Declared(i)
    BY <1>2 DEF imageFor, PluginsServed, UpToTheme
<1> QED BY <1>1, <1>2

LEMMA StepShown ==
    /\ ThemesTypeOK /\ TintsFresh /\ PluginsServed /\ CachesTotal /\ ThemeShown /\ [Next]_vars
    => CachesTotal' /\ ThemeShown'
<1> SUFFICES ASSUME ThemesTypeOK, TintsFresh, PluginsServed, CachesTotal, ThemeShown, [Next]_vars
             PROVE  CachesTotal' /\ ThemeShown'
    OBVIOUS
<1> USE DEF CachesTotal
<1>1. ASSUME UNCHANGED <<skin, active, masked, tables>> PROVE CachesTotal' /\ ThemeShown'
    BY <1>1 DEF ThemeShown, ChromeThemed, GlyphsThemed, UpToTheme
<1>2. ASSUME masked' = NoImages, tables' = NoTables PROVE CachesTotal' /\ ThemeShown'
    BY <1>2 DEF ThemeShown, ChromeThemed, GlyphsThemed, NoImages, NoTables
<1>3. ASSUME NEW i \in Id, GetImage(i) PROVE CachesTotal' /\ ThemeShown'
    BY <1>1, <1>3 DEF GetImage, defs, themes
<1>4. ASSUME NEW i \in Id, chromeImageFor(i) PROVE CachesTotal' /\ ThemeShown'
    <2>1. UNCHANGED <<skin, active, tables>>
        BY <1>4 DEF chromeImageFor, defs, themes
    <2> DEFINE baked == [base |-> imageFor(i),
                         cuts |-> {imageFor(c) : c \in Doc[skin].cutouts[i]} \ {Missing}]
    <2>2. CASE masked' = masked
        BY <1>1, <2>1, <2>2
    <2>3. CASE imageFor(i) # Missing /\ masked' = [masked EXCEPT ![i] = baked]
        <3>1. Doc[skin].cutouts[i] \subseteq Id
            <4>1. Doc[skin] \in Document
                BY <1>4, ThemesAssumption DEF chromeImageFor, ThemesTypeOK
            <4>2. Doc[skin].cutouts \in [Id -> SUBSET Id]
                BY <4>1 DEF Document
            <4> QED BY <4>2
        <3>2. \A image \in baked.cuts \cup {baked.base} : UpToTheme(image)
            BY <2>3, <3>1, ImagesAreThemed
        <3>3. ChromeThemed'
            <4>1. \A image : UpToTheme(image)' <=> UpToTheme(image)
                BY <2>1 DEF UpToTheme
            <4>2. masked'[i] = baked /\ \A j \in Id \ {i} : masked'[j] = masked[j]
                BY <2>3
            <4> HIDE DEF baked
            <4> QED BY <3>2, <4>1, <4>2 DEF ChromeThemed, ThemeShown
        <3>4. GlyphsThemed'
            BY <2>1 DEF GlyphsThemed, ThemeShown, UpToTheme
        <3>5. DOMAIN masked' = Id
            BY <2>3
        <3> QED BY <2>1, <3>3, <3>4, <3>5 DEF ThemeShown
    <2> QED BY <1>4, <2>2, <2>3 DEF chromeImageFor
<1>5. ASSUME NEW f \in Font, glyph(f) PROVE CachesTotal' /\ ThemeShown'
    <2>1. UNCHANGED <<skin, active, masked>>
        BY <1>5 DEF glyph, defs, themes
    <2> DEFINE image == imageFor(FontBitmap[f])
               table == IF image = Missing /\ f \in FontFile THEN Untinted(f) ELSE image
    <2>2. tables' = IF table = Missing THEN tables ELSE [tables EXCEPT ![f] = table]
        BY <1>5 DEF glyph
    <2>3. image # Missing => UpToTheme(image)
        BY ImagesAreThemed, ThemesAssumption
    <2>4. table # Missing => UpToTheme(table)
        BY <2>3 DEF Untinted, UpToTheme
    <2> HIDE DEF table
    <2>5. GlyphsThemed'
        BY <2>1, <2>2, <2>4 DEF GlyphsThemed, ThemeShown, UpToTheme
    <2>6. ChromeThemed'
        BY <2>1 DEF ChromeThemed, ThemeShown, UpToTheme
    <2> QED BY <2>1, <2>2, <2>5, <2>6 DEF ThemeShown
<1>6. ASSUME NEW s \in Skin, NEW used, load(s, used) PROVE CachesTotal' /\ ThemeShown'
    BY <1>2, <1>6 DEF load
<1>7. ASSUME NEW t, setActiveGammaset(t) PROVE CachesTotal' /\ ThemeShown'
    BY <1>2, <1>7 DEF setActiveGammaset, setGammasetRegistry
<1>8. CASE invalidateGlyphCache
    BY <1>8 DEF invalidateGlyphCache, defs, themes, ThemeShown, ChromeThemed, GlyphsThemed, UpToTheme,
                NoTables
<1>9. ASSUME NEW a, assignRolesFromWidgetTree(a) PROVE CachesTotal' /\ ThemeShown'
    BY <1>1, <1>9 DEF assignRolesFromWidgetTree, themes
<1>10. ASSUME NEW t, NEW x, injectGlobalTheme(t, x) \/ injectSyntheticThemes
       PROVE  CachesTotal' /\ ThemeShown'
    BY <1>1, <1>10 DEF injectGlobalTheme, injectSyntheticThemes, defs, caches
<1>11. ASSUME NEW i, NEW c, setAccentRegion(i, c) \/ setRegionGroup(i, c) \/ clearAccentRegions
       PROVE  CachesTotal' /\ ThemeShown'
    BY <1>1, <1>11 DEF setAccentRegion, setRegionGroup, clearAccentRegions, defs, themes
<1>12. ASSUME NEW i, NEW p,
              registerRuntimeImage(i, p) \/ registerRuntimePath(i, p) \/ unregisterRuntimeBitmap(i)
       PROVE  CachesTotal' /\ ThemeShown'
    BY <1>1, <1>12 DEF registerRuntimeImage, registerRuntimePath, unregisterRuntimeBitmap,
                       defs, themes
<1>13. CASE UNCHANGED vars
    BY <1>1, <1>13 DEF vars, defs, themes, caches
<1> QED BY <1>3, <1>4, <1>5, <1>6, <1>7, <1>8, <1>9, <1>10, <1>11, <1>12, <1>13 DEF Next

(* Neither chrome nor glyphs are ever painted in the tint of a theme that is     *)
(* gone.                                                                         *)
THEOREM ThemeIsShown == Spec => []ThemeShown
<1> DEFINE Inv == /\ ThemesTypeOK /\ NotYetSynthesized /\ TintsFresh
                  /\ RuntimeTotal /\ PluginsServed /\ CachesTotal /\ ThemeShown
<1>1. Init => Inv
    <2>1. Init => NotYetSynthesized /\ TintsFresh /\ CachesTotal /\ ThemeShown
        BY ThemesAssumption DEF Init, NotYetSynthesized, TintsFresh, NoImages, NoTables,
                                CachesTotal, ThemeShown, ChromeThemed, GlyphsThemed
    <2> QED BY <2>1, InitTyped, InitPlugins
<1>2. Inv /\ [Next]_vars => Inv'
    BY StepTyped, StepNotYet, StepFresh, StepPlugins, StepShown
<1>3. Inv => ThemeShown
    OBVIOUS
<1> QED BY <1>1, <1>2, <1>3, PTL DEF Spec

-----------------------------------------------------------------------------
LEMMA StepCovered ==
    ThemesTypeOK /\ SyntheticCovers /\ [Next]_vars => SyntheticCovers'
<1> SUFFICES ASSUME ThemesTypeOK, SyntheticCovers, [Next]_vars PROVE SyntheticCovers'
    OBVIOUS
<1> USE ThemesAssumption DEF ThemesTypeOK
<1>1. ASSUME UNCHANGED <<group, sets, injected>> PROVE SyntheticCovers'
    BY <1>1 DEF SyntheticCovers, usedGammagroups
<1>2. CASE injectSyntheticThemes
    <2>1. usedGammagroups' = usedGammagroups /\ usedGammagroups \subseteq Group
        BY <1>2 DEF injectSyntheticThemes, usedGammagroups, defs
    <2>2. \A t \in Synthetic : sets'[t] = Synthesized(t, usedGammagroups)
        BY <1>2 DEF injectSyntheticThemes
    <2>3. \A t \in Synthetic, g \in usedGammagroups :
            Synthesized(t, usedGammagroups).tint[g] = Style[t][g]
        BY <2>1 DEF Synthesized
    <2> QED BY <2>1, <2>2, <2>3, SynthesizedTyped DEF SyntheticCovers
<1>3. ASSUME NEW t \in Custom, NEW x \in Recolour, injectGlobalTheme(t, x) PROVE SyntheticCovers'
    <2>1. UNCHANGED <<group, injected>> /\ \A u \in Synthetic : sets'[u] = sets[u]
        BY <1>3 DEF injectGlobalTheme, defs
    <2> QED BY <2>1 DEF SyntheticCovers, usedGammagroups
<1>4. ASSUME NEW s \in Skin, NEW used, load(s, used) PROVE SyntheticCovers'
    BY <1>4 DEF load, loadThemes, SyntheticCovers
<1>5. ASSUME NEW a, assignRolesFromWidgetTree(a) PROVE SyntheticCovers'
    BY <1>5 DEF assignRolesFromWidgetTree, SyntheticCovers, themes
<1>6. CASE Painting
    BY <1>1, <1>6 DEF Painting, GetImage, chromeImageFor, glyph, defs, themes
<1>7. ASSUME NEW t, setActiveGammaset(t) PROVE SyntheticCovers'
    BY <1>1, <1>7 DEF setActiveGammaset, defs
<1>8. ASSUME NEW i, NEW c, setAccentRegion(i, c) \/ setRegionGroup(i, c) PROVE SyntheticCovers'
    BY <1>1, <1>8 DEF setAccentRegion, setRegionGroup, defs, themes
<1>9. ASSUME NEW i, NEW p,
             registerRuntimeImage(i, p) \/ registerRuntimePath(i, p) \/ unregisterRuntimeBitmap(i)
      PROVE  SyntheticCovers'
    BY <1>1, <1>9 DEF registerRuntimeImage, registerRuntimePath, unregisterRuntimeBitmap,
                      defs, themes
<1>10. CASE invalidateGlyphCache \/ clearAccentRegions \/ UNCHANGED vars
    BY <1>1, <1>10 DEF invalidateGlyphCache, clearAccentRegions, vars, defs, themes
<1> QED BY <1>2, <1>3, <1>4, <1>5, <1>6, <1>7, <1>8, <1>9, <1>10 DEF Next, Painting

(* Synthetic themes, once made, have a transform for every group in use.         *)
THEOREM Covered == Spec => []SyntheticCovers
<1>1. Init => SyntheticCovers
    BY DEF Init, SyntheticCovers
<1> QED BY <1>1, InitTyped, StepTyped, StepCovered, PTL DEF Spec
=============================================================================
