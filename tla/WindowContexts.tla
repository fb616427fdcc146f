--------------------------- MODULE WindowContexts ---------------------------
(* What the script roots promise (SkinRuntime.h, "Per-window Maki dispatch       *)
(* scoping"): every window has a context of its own; exactly one is current; a   *)
(* change made by the VM or the embedder touches the current one only; making    *)
(* another current changes no context.  The null context is what is configured   *)
(* before any window is known: the first window to become current adopts it.     *)
CONSTANTS Window, Null, Empty

VARIABLES cur, ctx, known

Init == cur = Null /\ known = {} /\ ctx = [k \in Window \cup {Null} |-> Empty]

(* Leaving the null context gives what it holds to a window not known yet, and   *)
(* forgets it otherwise.                                                         *)
Focus(k) ==
    /\ k # cur
    /\ cur' = k
    /\ known' = known \cup ({k} \ {Null})
    /\ ctx' = IF cur # Null THEN ctx
              ELSE [ctx EXCEPT ![Null] = Empty,
                               ![k] = IF k \in known THEN @ ELSE ctx[Null]]

Change ==
    /\ ctx' = [ctx EXCEPT ![cur] = ctx'[cur]]
    /\ UNCHANGED <<cur, known>>

Forget(k) ==
    /\ known' = known \ {k}
    /\ ctx' = [ctx EXCEPT ![k] = Empty]
    /\ cur' = IF cur = k THEN Null ELSE cur

Next ==
    \/ \E k \in Window \cup {Null} : Focus(k)
    \/ \E w \in Window : Forget(w)
    \/ Change

Spec == Init /\ [][Next]_<<cur, ctx, known>>
=============================================================================
