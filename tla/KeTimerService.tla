-------------------------- MODULE KeTimerService --------------------------
(***************************************************************************)
(* What the users of ke_timer.h are promised: one-shot timers, each with   *)
(* the time that is left to it, that expire in the order of their times,   *)
(* none before its time but for a margin, and none after it was cleared.   *)
(***************************************************************************)
EXTENDS Integers

CONSTANTS
    Timer,
    Margin,  \* how much too early a timer may expire
    Span,    \* the times a timer can be set to
    Steps    \* the steps time can take

VARIABLES
    running,  \* the timers that are set
    left,     \* the time left to each of them, 0 for the others
    fired     \* the timers that have expired since they were last set

Init == running = {} /\ left = [t \in Timer |-> 0] /\ fired = {}

Set(t) ==
    /\ running' = running \union {t}
    /\ fired' = fired \ {t}
    /\ \E d \in Span : left' = [left EXCEPT ![t] = d]

Cancel(t) ==
    /\ running' = running \ {t}
    /\ left' = [left EXCEPT ![t] = 0]
    /\ UNCHANGED fired

Expire(t) ==
    /\ t \in running
    /\ left[t] < Margin
    /\ \A u \in running : left[t] <= left[u]
    /\ running' = running \ {t}
    /\ left' = [left EXCEPT ![t] = 0]
    /\ fired' = fired \union {t}

Elapse ==
    /\ \E n \in Steps :
           left' = [t \in Timer |-> IF t \in running THEN left[t] - n ELSE 0]
    /\ UNCHANGED <<running, fired>>

Forget ==
    /\ running' = {} /\ fired' = {}
    /\ left' = [t \in Timer |-> 0]

Next ==
    \/ \E t \in Timer : Set(t) \/ Cancel(t) \/ Expire(t)
    \/ Elapse
    \/ Forget

Spec == Init /\ [][Next]_<<running, left, fired>>
=============================================================================
