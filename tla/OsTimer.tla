------------------------------ MODULE OsTimer ------------------------------
(***************************************************************************)
(* The software timers of the host (timer.c, jtask_* in os_port.h): a list *)
(* sorted by time, that the main loop inserts into and removes from, and   *)
(* that the timer interrupt takes the due timers off to post a message for *)
(* each.  When the message pool is full the interrupt puts the timer back, *)
(* a second later.                                                         *)
(*                                                                         *)
(* The main loop changes the list without masking interrupts: each of its  *)
(* accesses to the list is a step here, and the interrupt comes in between *)
(* any two of them.  Where the code reads a link twice without volatile,   *)
(* the second read may see the old value or the new one.                   *)
(*                                                                         *)
(* The list does not survive every such interrupt (OsTimer_race.cfg).      *)
(* torn remembers that one has changed the list while the main loop stood  *)
(* in it; the properties below say what holds as long as none has.         *)
(***************************************************************************)
EXTENDS Integers, SequencesExt

CONSTANTS
    Timers,    \* the timers that os_timer_init has allocated
    Delays,    \* the delays they are set to, in ticks
    Steps,     \* how far the tick counter moves at once: more than 1 after sleep
    Retry,     \* the delay after a message that was refused, 100 in the code
    PoolSize,  \* the room in the message pool
    MaxTick,   \* bound: the tick counter
    Null, Head0, Key

ASSUME OsTimerAssumption ==
    /\ Delays \subseteq Nat /\ Steps \subseteq Nat \ {0} /\ Retry \in Nat \ {0}
    /\ PoolSize \in Nat /\ MaxTick \in Nat
    /\ IsFiniteSet(Timers) /\ Timers \intersect {Null, Head0, Key} = {}
    /\ Null \notin Nat  \* a value of due beside the ticks

VARIABLES
    next,     \* link -> the timer it points to; Head0 is timers_head
    ticks, pending,
    tick,     \* tick_counter
    isr,      \* the interrupt is running
    op,       \* what the main loop is doing, with its registers
    pool,     \* the messages: timers that are due, and Key for all others
    due,      \* what the client wants: the tick it has set a timer for, or Null
    torn      \* history: an interrupt has changed the list inside a change of it

vars == <<next, ticks, pending, tick, isr, op, pool, due, torn>>

Idle == [pc |-> "idle", timer |-> Null, link |-> Null, seen |-> Null,
         delay |-> 0, then |-> "idle"]

\* The main loop goes on with op.then.
Done(o) == IF o.then = "idle" THEN Idle ELSE [o EXCEPT !.pc = o.then, !.link = Null, !.seen = Null]

\* The timers that can be reached from timers_head, in their order (a race may
\* close a ring: each timer is listed once).
List ==
    LET from[n \in 0 .. Cardinality(Timers)] ==
            IF n = 0 THEN << >>
            ELSE LET l == from[n - 1]
                     x == IF l = << >> THEN next[Head0] ELSE next[Last(l)]
                 IN  IF x = Null \/ Contains(l, x) THEN l ELSE Append(l, x)
    IN  from[Cardinality(Timers)]

-----------------------------------------------------------------------------
(* The main loop.                                                          *)

\* os_timer_reset removes a timer that is pending first.
Reset(t, d) ==
    /\ op.pc = "idle" /\ ~isr
    /\ op' = [Idle EXCEPT !.pc = IF pending[t] THEN "stop" ELSE "set",
                          !.timer = t, !.delay = d, !.then = "set"]
    /\ UNCHANGED <<next, ticks, pending, tick, isr, pool, due, torn>>

\* os_timer_stop is called.
Stop(t) ==
    /\ op.pc = "idle" /\ ~isr
    /\ op' = [Idle EXCEPT !.pc = "stop", !.timer = t]
    /\ UNCHANGED <<next, ticks, pending, tick, isr, pool, due, torn>>

\* if (!node->is_pending) return;
StopTest ==
    /\ op.pc = "stop" /\ ~isr
    /\ op' = IF pending[op.timer] THEN [op EXCEPT !.pc = "clear"] ELSE Done(op)
    /\ UNCHANGED <<next, ticks, pending, tick, isr, pool, due, torn>>

\* node->is_pending = 0;
StopClear ==
    /\ op.pc = "clear" /\ ~isr
    /\ pending' = [pending EXCEPT ![op.timer] = FALSE]
    /\ due' = [due EXCEPT ![op.timer] = Null]
    /\ op' = [op EXCEPT !.pc = "seek", !.link = Head0]
    /\ UNCHANGED <<next, ticks, tick, isr, pool, torn>>

\* while (*iter && *iter != node)
Seek ==
    /\ op.pc = "seek" /\ ~isr
    /\ LET x == next[op.link]
       IN  op' = IF x # Null /\ x # op.timer THEN [op EXCEPT !.link = x]
                 ELSE [op EXCEPT !.pc = "cut", !.seen = x]
    /\ UNCHANGED <<next, ticks, pending, tick, isr, pool, due, torn>>

\* if (*iter) *iter = (*iter)->next;
Cut ==
    /\ op.pc = "cut" /\ ~isr
    /\ \E x \in {op.seen, next[op.link]} :
           next' = IF x = Null THEN next ELSE [next EXCEPT ![op.link] = next[x]]
    /\ op' = Done(op)
    /\ UNCHANGED <<ticks, pending, tick, isr, pool, due, torn>>

\* The fields of the timer; the interrupt does not look at them yet.
Set ==
    /\ op.pc = "set" /\ ~isr
    /\ pending' = [pending EXCEPT ![op.timer] = TRUE]
    /\ ticks' = [ticks EXCEPT ![op.timer] = op.delay + tick]
    /\ due' = [due EXCEPT ![op.timer] = op.delay + tick]
    /\ op' = [op EXCEPT !.pc = "walk", !.link = Head0]
    /\ UNCHANGED <<next, tick, isr, pool, torn>>

\* Mutant: a timer goes in front of the first one that is not earlier than itself.
Walk_WrongWay ==
    /\ op.pc = "walk" /\ ~isr
    /\ LET x == next[op.link]
       IN  op' = IF x # Null /\ ticks[x] > ticks[op.timer] THEN [op EXCEPT !.link = x]
                 ELSE [op EXCEPT !.pc = "point", !.seen = x]
    /\ UNCHANGED <<next, ticks, pending, tick, isr, pool, due, torn>>

\* while (*iter && ((*iter)->ticks < node->ticks))
Walk ==
    /\ op.pc = "walk" /\ ~isr
    /\ LET x == next[op.link]
       IN  op' = IF x # Null /\ ticks[x] < ticks[op.timer] THEN [op EXCEPT !.link = x]
                 ELSE [op EXCEPT !.pc = "point", !.seen = x]
    /\ UNCHANGED <<next, ticks, pending, tick, isr, pool, due, torn>>

\* node->next = *iter;
Point ==
    /\ op.pc = "point" /\ ~isr
    /\ \E x \in {op.seen, next[op.link]} : next' = [next EXCEPT ![op.timer] = x]
    /\ op' = [op EXCEPT !.pc = "link"]
    /\ UNCHANGED <<ticks, pending, tick, isr, pool, due, torn>>

\* *iter = node;
Link ==
    /\ op.pc = "link" /\ ~isr
    /\ next' = [next EXCEPT ![op.link] = op.timer]
    /\ op' = Idle
    /\ UNCHANGED <<ticks, pending, tick, isr, pool, due, torn>>

\* msg_get and common_msg_handler; what the callback of a timer calls is up to it.
Dispatch ==
    /\ op.pc = "idle" /\ ~isr
    /\ pool # << >>
    /\ pool' = Tail(pool)
    /\ UNCHANGED <<next, ticks, pending, tick, isr, op, due, torn>>

-----------------------------------------------------------------------------
(* The interrupts.                                                         *)

\* timer_timer0_pt0_isr: the counter moves, by more than one after a sleep.
Tick ==
    /\ ~isr
    /\ \E n \in Steps : tick + n <= MaxTick /\ tick' = tick + n
    /\ isr' = TRUE
    /\ UNCHANGED <<next, ticks, pending, op, pool, due, torn>>

First == next[Head0]

\* The main loop holds a place in the list while the interrupt changes it.
Inside == {"seek", "cut", "walk", "point", "link"}
Tear == torn' = (torn \/ op.pc \in Inside)

\* Mutant: the first timer goes at every tick.
IsDue_Always == First # Null

IsDue == First # Null /\ ticks[First] <= tick

\* timer_timer0_pt0_swi: the first timer is due and its message is taken.
Post ==
    /\ isr /\ IsDue /\ Len(pool) < PoolSize
    /\ next' = [next EXCEPT ![Head0] = next[First]]
    /\ pending' = [pending EXCEPT ![First] = FALSE]
    /\ pool' = Append(pool, First)
    /\ due' = [due EXCEPT ![First] = Null]
    /\ Tear
    /\ UNCHANGED <<ticks, tick, isr, op>>

\* Mutant: the timer is not put back.
Postpone_Drop ==
    /\ isr /\ IsDue /\ Len(pool) = PoolSize
    /\ next' = [next EXCEPT ![Head0] = next[First]]
    /\ pending' = [pending EXCEPT ![First] = FALSE]
    /\ Tear
    /\ UNCHANGED <<ticks, tick, isr, op, pool, due>>

\* The pool is full: the timer is put back for a later time.
Postpone ==
    /\ isr /\ IsDue /\ Len(pool) = PoolSize
    /\ LET t == First
           later == ticks[t] + Retry
           rest == Tail(List)
           k == SelectInSeq(rest, LAMBDA x : ticks[x] >= later)
           before == IF k = 0 THEN rest ELSE SubSeq(rest, 1, k - 1)
           link == IF before = << >> THEN Head0 ELSE Last(before)
           popped == [next EXCEPT ![Head0] = next[t]]
       IN  /\ ticks' = [ticks EXCEPT ![t] = later]
           /\ pending' = [pending EXCEPT ![t] = TRUE]
           /\ next' = [popped EXCEPT ![t] = popped[link], ![link] = t]
    /\ Tear
    /\ UNCHANGED <<tick, isr, op, pool, due>>

TickDone ==
    /\ isr /\ ~IsDue
    /\ isr' = FALSE
    /\ UNCHANGED <<next, ticks, pending, tick, op, pool, due, torn>>

\* Another interrupt puts a message.
OtherIsr ==
    /\ ~isr
    /\ Len(pool) < PoolSize
    /\ pool' = Append(pool, Key)
    /\ UNCHANGED <<next, ticks, pending, tick, isr, op, due, torn>>

-----------------------------------------------------------------------------
Init ==
    /\ next = [x \in Timers \union {Head0} |-> Null]
    /\ ticks = [t \in Timers |-> 0] /\ pending = [t \in Timers |-> FALSE]
    /\ tick = 0 /\ isr = FALSE /\ op = Idle /\ pool = << >>
    /\ due = [t \in Timers |-> Null]
    /\ torn = FALSE

Next ==
    \/ \E t \in Timers : (\E d \in Delays : Reset(t, d)) \/ Stop(t)
    \/ StopTest \/ StopClear \/ Seek \/ Cut
    \/ Set \/ Walk \/ Point \/ Link
    \/ Dispatch
    \/ Tick \/ Post \/ Postpone \/ TickDone \/ OtherIsr

Spec == Init /\ [][Next]_vars

-----------------------------------------------------------------------------
\* os_timer_pending: "Check if timer is waiting to run" (timer.c): between two calls
\* a timer that says it is pending will be found by the interrupt.
PendingWaits == op.pc = "idle" => \A t \in Timers : pending[t] => Contains(List, t)

\* Between two calls exactly the timers that say they are pending are on the list, in
\* the order of their times, for the interrupt looks at the first one only.  So it is
\* until an interrupt takes a timer off, or puts one back, inside os_timer_reset or
\* os_timer_stop.
PendingIsListed ==
    op.pc = "idle" /\ ~torn =>
        /\ \A t \in Timers : pending[t] <=> Contains(List, t)
        /\ \A i, j \in 1 .. Len(List) : i < j => ticks[List[i]] <= ticks[List[j]]

\* When the interrupt ends, no timer whose time has come is left waiting, but for those
\* put back because the pool was full and for the one that os_timer_reset is putting in;
\* also when the counter has jumped, and wherever in a call the interrupt came.  So it
\* is until an interrupt has changed the list inside a change of it.
OnTime ==
    [][isr /\ ~isr' /\ ~torn =>
           \A t \in Timers :
               due[t] # Null /\ due[t] <= tick
               /\ ~(t = op.timer /\ op.pc \in {"walk", "point", "link"})
               => pending[t] /\ ticks[t] > tick]_vars

\* A message is posted for a timer only if its client still wants it and its time
\* has come, and no timer that was due earlier is behind it.  So it is until an
\* interrupt changes the list inside a change of it, that change included.
PostsInOrder ==
    [][\A t \in Timers :
           Len(pool') > Len(pool) /\ Last(pool') = t /\ ~torn' =>
               /\ due[t] # Null /\ due[t] <= tick
               /\ \A u \in Timers : pending[u] => ticks[t] <= ticks[u]]_vars
=============================================================================
