--------------------------- MODULE KernelThreads ---------------------------
(* The pthread-backed kernel32 of wasabi-compat (kernel32.cpp): threads, their   *)
(* user-mode APC queues and the alertable wait that drains them.  Unlike the     *)
(* rest of the engine this runs on many threads.  What the code does between a   *)
(* lock and the unlock of a queue's mutex is one step here; a callback runs, and *)
(* a waiter is woken or times out, with the mutex free.                          *)
EXTENDS Naturals, Sequences, SequencesExt

CONSTANTS
    Thread,      \* the threads CreateThread can make
    Main,        \* the GUI thread: it has no APC queue, its SleepEx only sleeps
    Apc,         \* the APCs a session queues, each once
    MaxCalls     \* bound: SleepEx calls a thread is in, nested through callbacks

ASSUME ThreadsAssumption ==
    /\ Main \notin Thread
    /\ MaxCalls \in Nat

VARIABLES
    life,       \* thread -> whether it runs
    queue,      \* thread -> ApcQueue::items
    calls,      \* thread -> the SleepEx calls it is in, innermost last
    joining,    \* the threads Main is in pthread_join for (at most one)
    joined,     \* thread -> ThreadObject::joined
    posted,     \* history: thread -> the APCs queued to it
    started     \* history: thread -> the APCs it has started to run

threadVars == <<life, queue, calls, joining, joined, posted, started>>

Proc == Thread \cup {Main}

(* "callback": an APC runs, the mutex released around it.  "wait": in            *)
(* pthread_cond_wait or _timedwait.  "woken", "expired": that has returned, but  *)
(* for the mutex.                                                                *)
Call == [at : {"callback", "wait", "woken", "expired"}, timed : BOOLEAN]

ThreadsInit ==
    /\ life = [t \in Thread |-> "none"]
    /\ queue = [t \in Thread |-> <<>>]
    /\ calls = [t \in Thread |-> <<>>]
    /\ joining = {}
    /\ joined = [t \in Thread |-> FALSE]
    /\ posted = [t \in Thread |-> <<>>]
    /\ started = [t \in Thread |-> <<>>]

-----------------------------------------------------------------------------
At(t, where) == calls[t] # <<>> /\ Last(calls[t]).at = where

(* The client's own code runs: the thread's routine, or an APC it has started.   *)
ClientRuns(p) ==
    IF p = Main THEN joining = {}
    ELSE life[p] = "alive" /\ (calls[p] = <<>> \/ At(p, "callback"))

Moved(t, where) == [calls[t] EXCEPT ![Len(calls[t])].at = where]
GoTo(t, where) == calls' = [calls EXCEPT ![t] = Moved(t, where)]
Return(t) == calls' = [calls EXCEPT ![t] = Front(@)]

-----------------------------------------------------------------------------
(* Threads.                                                                      *)

CreateThread(p, t) ==
    /\ ClientRuns(p)
    /\ life[t] = "none"
    /\ life' = [life EXCEPT ![t] = "alive"]
    /\ UNCHANGED <<queue, calls, joining, joined, posted, started>>

(* The routine returns; the ThreadObject and its queue stay.                     *)
Exit(t) ==
    /\ life[t] = "alive"
    /\ calls[t] = <<>>
    /\ life' = [life EXCEPT ![t] = "exited"]
    /\ UNCHANGED <<queue, calls, joining, joined, posted, started>>

(* WaitForSingleObjectEx, INFINITE, by the GUI thread.  (A bounded wait is a loop *)
(* of sleeps of the waiting thread and never joins; a second thread that waits    *)
(* for t while the first is in pthread_join is undefined behaviour and left out.) *)
WaitForThread(t) ==
    /\ ClientRuns(Main)
    /\ life[t] # "none"
    /\ ~joined[t]
    /\ joining' = {t}
    /\ UNCHANGED <<life, queue, calls, joined, posted, started>>

JoinReturns(t) ==
    /\ t \in joining
    /\ life[t] = "exited"
    /\ joining' = {}
    /\ joined' = [joined EXCEPT ![t] = TRUE]
    /\ UNCHANGED <<life, queue, calls, posted, started>>

-----------------------------------------------------------------------------
(* APCs.                                                                         *)

(* Mutant: the waiter is not signalled.                                          *)
SignalledNever(t) == calls[t]

(* pthread_cond_signal: only the owner of the queue ever waits on it.            *)
Signalled(t) == IF At(t, "wait") THEN Moved(t, "woken") ELSE calls[t]

QueueUserAPC(p, t, a) ==
    /\ ClientRuns(p)
    /\ life[t] # "none"
    /\ \A u \in Thread : a \notin ToSet(posted[u])
    /\ queue' = [queue EXCEPT ![t] = Append(@, a)]
    /\ posted' = [posted EXCEPT ![t] = Append(@, a)]
    /\ calls' = [calls EXCEPT ![t] = Signalled(t)]
    /\ UNCHANGED <<life, joining, joined, started>>

(* Mutant: the APC is taken from the wrong end.                                  *)
TakeNewest(t) ==
    /\ queue[t] # <<>>
    /\ queue' = [queue EXCEPT ![t] = Front(@)]
    /\ started' = [started EXCEPT ![t] = Append(@, Last(queue[t]))]

(* drainApcs takes the oldest APC and unlocks to run it.                         *)
Take(t) ==
    /\ queue[t] # <<>>
    /\ queue' = [queue EXCEPT ![t] = Tail(@)]
    /\ started' = [started EXCEPT ![t] = Append(@, Head(queue[t]))]

(* SleepEx, alertable: what is pending runs first; with nothing pending, a zero  *)
(* timeout returns at once and changes nothing.                                  *)
EnterCall(t, where, timed) ==
    calls' = [calls EXCEPT ![t] = Append(@, [at |-> where, timed |-> timed])]

SleepDrains(t) ==
    /\ ClientRuns(t)
    /\ Len(calls[t]) < MaxCalls
    /\ Take(t)
    /\ EnterCall(t, "callback", TRUE)
    /\ UNCHANGED <<life, joining, joined, posted>>

(* Mutant: it waits without looking at the queue.                                *)
SleepWaitsBlindly(t, timed) ==
    /\ ClientRuns(t)
    /\ Len(calls[t]) < MaxCalls
    /\ EnterCall(t, "wait", timed)
    /\ UNCHANGED <<life, queue, joining, joined, posted, started>>

SleepWaits(t, timed) ==
    /\ ClientRuns(t)
    /\ Len(calls[t]) < MaxCalls
    /\ queue[t] = <<>>
    /\ EnterCall(t, "wait", timed)
    /\ UNCHANGED <<life, queue, joining, joined, posted, started>>

(* A wait may return for nothing.                                                *)
WakeSpuriously(t) ==
    /\ At(t, "wait")
    /\ GoTo(t, "woken")
    /\ UNCHANGED <<life, queue, joining, joined, posted, started>>

Expire(t) ==
    /\ At(t, "wait")
    /\ Last(calls[t]).timed
    /\ GoTo(t, "expired")
    /\ UNCHANGED <<life, queue, joining, joined, posted, started>>

(* The mutex is taken again, after a wait or after a callback: the next APC is   *)
(* run, if there is one.                                                         *)
DrainOn(t) ==
    /\ At(t, "woken") \/ At(t, "callback")
    /\ Take(t)
    /\ GoTo(t, "callback")
    /\ UNCHANGED <<life, joining, joined, posted>>

(* SleepEx returns: nothing (more) to run, or the timeout, whatever has arrived  *)
(* since.                                                                        *)
SleepReturns(t) ==
    /\ \/ At(t, "expired")
       \/ (At(t, "woken") \/ At(t, "callback")) /\ queue[t] = <<>>
    /\ Return(t)
    /\ UNCHANGED <<life, queue, joining, joined, posted, started>>

-----------------------------------------------------------------------------
Sleeps(t) == SleepDrains(t) \/ \E timed \in BOOLEAN : SleepWaits(t, timed)
Proceeds(t) == Expire(t) \/ DrainOn(t) \/ SleepReturns(t)

ThreadsNext ==
    \E t \in Thread :
        \/ \E p \in Proc : \/ CreateThread(p, t)
                           \/ \E a \in Apc : QueueUserAPC(p, t, a)
        \/ Exit(t) \/ WaitForThread(t) \/ JoinReturns(t)
        \/ Sleeps(t) \/ WakeSpuriously(t) \/ Proceeds(t)

ThreadsSpec == ThreadsInit /\ [][ThreadsNext]_threadVars

(* Every thread is scheduled: a callback returns, a wait that was woken or has   *)
(* timed out goes on, and a worker whose routine runs comes back to an alertable *)
(* sleep (what drivemngr's workers do), or exits.                                *)
FairSpec ==
    /\ ThreadsSpec
    /\ \A t \in Thread : /\ WF_threadVars(Proceeds(t))
                         /\ WF_threadVars(calls[t] = <<>> /\ Sleeps(t))
                         /\ WF_threadVars(JoinReturns(t))

-----------------------------------------------------------------------------
(* Properties.                                                                   *)

(* A thread acts in its innermost call only, and not at all once it has ended.   *)
InOneCall(t) ==
    /\ \A i \in 1..Len(calls[t]) : i < Len(calls[t]) => calls[t][i].at = "callback"
    /\ life[t] # "alive" => calls[t] = <<>>

TypeOK ==
    /\ life \in [Thread -> {"none", "alive", "exited"}]
    /\ queue \in [Thread -> Seq(Apc)]
    /\ calls \in [Thread -> Seq(Call)]
    /\ joining \subseteq Thread
    /\ joined \in [Thread -> BOOLEAN]
    /\ posted \in [Thread -> Seq(Apc)]
    /\ started \in [Thread -> Seq(Apc)]
    /\ \A t \in Thread : InOneCall(t)

(* Every APC queued to a thread is run once and in the order it was queued, or   *)
(* still pending, however callbacks queue more and sleep again (QueueUserAPC,    *)
(* drainApcs).                                                                   *)
RunOnceInOrder == \A t \in Thread : posted[t] = started[t] \o queue[t]

(* No thread is left waiting while an APC is pending for it: between the look at *)
(* the queue and the wait no signal is lost, and one signal is enough since the  *)
(* owner is the only waiter, with its innermost call.                            *)
NoLostWakeup == \A t \in Thread : At(t, "wait") => queue[t] = <<>>

(* A queued APC runs, unless its thread ends first: "Stubbing the APC queue to   *)
(* no-ops would silently drop every job" (kernel32.cpp).                         *)
Delivered ==
    \A t \in Thread : \A a \in Apc :
        a \in ToSet(queue[t]) ~> (a \in ToSet(started[t]) \/ life[t] = "exited")
=============================================================================
