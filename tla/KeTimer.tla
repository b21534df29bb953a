------------------------------ MODULE KeTimer ------------------------------
(***************************************************************************)
(* Kernel timers: ke_timer.c over the 1 ms target of rwip_driver.c.        *)
(*                                                                         *)
(* The timers that are set stand in a queue, first to expire first.  Only  *)
(* the first one is programmed into the comparator of the Bluetooth clock. *)
(* The comparator raises an interrupt when the clock EQUALS the target: a  *)
(* target that is programmed when the clock has passed it stays silent.    *)
(* The interrupt handler disarms it and sets the event KE_TIMER, whose     *)
(* callback ke_timer_schedule expires what is due and arms the next.       *)
(*                                                                         *)
(* The main loop is one actor; the clock and its interrupt the other: time *)
(* passes between any two steps of the main loop.  Half slots and half     *)
(* microseconds are one unit of time here; the clock wraps at M.           *)
(***************************************************************************)
EXTENDS Integers, KeQueue

CONSTANTS
    Timer,       \* pairs of a timer_id and a task_id
    NoTimer,
    M,           \* the Bluetooth clock counts modulo M, RWIP_MAX_CLOCK_TIME + 1
    Margin,      \* KE_TIMER_PROG_MARGIN
    DelayMax,    \* KE_TIMER_DELAY_MAX, in ms
    MsUnits,     \* clock units in a millisecond
    Word,        \* a delay in clock units is computed modulo Word (2^32 half us)
    Delays,      \* the delays that are asked for, in ms
    SleepGuard,  \* clock units rwip_sleep keeps back from the next target
    MaxSleep,    \* the longest deep sleep
    MaxLate      \* bound: how long the main loop leaves a timer overdue

ASSUME TimerAssumption ==
    /\ NoTimer \notin Timer
    /\ {M, Margin, DelayMax, MsUnits, Word} \subseteq Nat \ {0}
    /\ {SleepGuard, MaxSleep, MaxLate} \subseteq Nat
    /\ Delays \subseteq Nat

VARIABLES
    now,     \* the Bluetooth clock
    queue,   \* queue_timer
    time,    \* the field time of each timer
    target,  \* timer_1ms_target; the comparator is enabled iff it is valid
    irq,     \* the comparator's interrupt is pending
    event,   \* the bit KE_TIMER of the event field
    masked,  \* interrupts are disabled by GLOBAL_INT_DISABLE
    pc,      \* where the main loop is in ke_timer.c
    cur,     \* the timer ke_timer_set works on
    left,    \* history: time left until the moment that was asked for
    fired    \* history: the timers whose message was sent since they were set

vars == <<now, queue, time, target, irq, event, masked, pc, cur, left, fired>>

Clock == 0 .. M - 1

Invalid == -1    \* RWIP_INVALID_TARGET_TIME

\* Mutant: the sum is not masked to the range of the clock.
ClkAdd_NoMask(a, b) == a + b

ClkAdd(a, b) == (a + b) % M
ClkSub(a, b) == (a - b) % M

\* How far b lies ahead of a, negative when it lies behind.
ClkDiff(a, b) == IF ClkSub(b, a) > M \div 2 THEN -ClkSub(a, b) ELSE ClkSub(b, a)

\* Mutant: clock values are compared as plain numbers.
ClkLowerEq_Plain(a, b) == a <= b

\* CLK_LOWER_EQ: a is not after b, as long as they are less than half the
\* range of the clock apart.
ClkLowerEq(a, b) == ClkSub(b, a) < (M - 1) \div 2

\* CLK_LOWER_EQ_HUS, the comparison of ke_time_past and of cmp_abs_time.
NotAfter(a, b) == ~ClkLowerEq(b, a) \/ a = b

Past(a) == NotAfter(a, now)    \* ke_time_past

Init ==
    /\ now = 0
    /\ queue = <<>>
    /\ time = [t \in Timer |-> 0]
    /\ target = Invalid /\ irq = FALSE /\ event = FALSE /\ masked = FALSE
    /\ pc = "main" /\ cur = NoTimer
    /\ left = [t \in Timer |-> 0] /\ fired = {}

\* The main loop makes a step: a pending interrupt goes first.
Runs == irq => masked

First == Head(queue)

\* ke_free of timers: their fields mean nothing any more.
Free(S) ==
    /\ time' = [t \in Timer |-> IF t \in S THEN 0 ELSE time[t]]
    /\ left' = [t \in Timer |-> IF t \in S THEN 0 ELSE left[t]]

-----------------------------------------------------------------------------
(* Time, the comparator and its interrupt.                                 *)

Elapse(n) ==
    /\ \A t \in Members(queue) : left[t] - n >= -MaxLate
    /\ now' = ClkAdd(now, n)
    /\ left' = [t \in Timer |-> IF t \in Members(queue)
                                THEN left[t] - n ELSE 0]

Tick ==
    /\ Elapse(1)
    /\ irq' = (irq \/ target = now')
    /\ UNCHANGED <<queue, time, target, event, masked, pc, cur, fired>>

\* rwip_timer_1ms_handler
Expired == target' = Invalid /\ event' = TRUE

\* rwip_isr, the part for the general purpose timer.
Isr ==
    /\ irq /\ ~masked
    /\ irq' = FALSE
    /\ Expired
    /\ UNCHANGED <<now, queue, time, masked, pc, cur, left, fired>>

-----------------------------------------------------------------------------
(* rwip_timer_1ms_set: interrupts off, then the target and the comparator, *)
(* acknowledging what is pending.  The steps that program the comparator   *)
(* wait at one of the points in Programs.                                  *)

Programs == {"arm", "arm_set", "arm_clear"}

IntDisable ==
    /\ Runs /\ pc \in Programs /\ ~masked
    /\ masked' = TRUE
    /\ UNCHANGED <<now, queue, time, target, irq, event, pc, cur, left, fired>>

Program(new) ==
    /\ masked /\ masked' = FALSE
    /\ target' = new
    /\ irq' = FALSE

-----------------------------------------------------------------------------
(* ke_timer_schedule, the callback of the event.                           *)

\* The event scheduler calls it, or its loop goes round: the event is cleared.
TimerEvent ==
    /\ Runs /\ pc = "main" /\ event
    /\ pc' = "look" /\ event' = FALSE
    /\ UNCHANGED <<now, queue, time, target, irq, masked, cur, left, fired>>

NothingLeft ==
    /\ Runs /\ pc = "look" /\ queue = <<>>
    /\ pc' = "main"
    /\ UNCHANGED <<now, queue, time, target, irq, event, masked, cur, left, fired>>

\* Is the first timer at least the margin away?
Look ==
    /\ Runs /\ pc = "look" /\ queue # <<>>
    /\ pc' = IF ClkLowerEq(now, ClkSub(time[First], Margin)) THEN "arm" ELSE "expire"
    /\ UNCHANGED <<now, queue, time, target, irq, event, masked, cur, left, fired>>

ArmFirst ==
    /\ pc = "arm" /\ Program(time[First])
    /\ pc' = "check"
    /\ UNCHANGED <<now, queue, time, event, cur, left, fired>>

\* The timer may have passed before the comparator was set: then it is
\* disarmed and expires now.  (That rwip_timer_1ms_set call has no effect but
\* the one written here, whenever an interrupt comes.)
CheckArmed ==
    /\ Runs /\ pc = "check"
    /\ IF Past(time[First])
       THEN pc' = "expire" /\ target' = Invalid /\ irq' = FALSE
       ELSE pc' = "main" /\ UNCHANGED <<target, irq>>
    /\ UNCHANGED <<now, queue, time, event, masked, cur, left, fired>>

\* Mutant: the loop is left after one timer.
ExpireFirst_Once ==
    /\ Runs /\ pc = "expire"
    /\ queue' = Tail(queue)
    /\ Free({First})
    /\ fired' = fired \union {First}
    /\ pc' = "main" /\ event' = FALSE
    /\ UNCHANGED <<now, target, irq, masked, cur>>

\* Pop the first timer, send its message and free it; the loop goes round,
\* clearing the event.
ExpireFirst ==
    /\ Runs /\ pc = "expire"
    /\ queue' = Tail(queue)
    /\ Free({First})
    /\ fired' = fired \union {First}
    /\ pc' = "look" /\ event' = FALSE
    /\ UNCHANGED <<now, target, irq, masked, cur>>

-----------------------------------------------------------------------------
(* ke_timer_set and ke_timer_clear, called by task code of the main loop.  *)

InTask == Runs /\ pc = "main"

Clamp(d) == IF d > DelayMax THEN DelayMax ELSE IF d = 0 THEN 1 ELSE d

\* The delay in clock units, as the 32-bit product gives it.
DelayTime(d) == (Clamp(d) * MsUnits) % Word

Requeue(t, new) ==
    LET rest == Extract(queue, {t})
    IN  Insert(rest, t, {u \in Members(rest) : NotAfter(new, time[u])})

\* Mutant: only a new first timer is programmed.
SetTimer_NoReprogram(t, d) ==
    /\ InTask
    /\ LET new == ClkAdd(now, DelayTime(d))
       IN  /\ queue' = Requeue(t, new)
           /\ time' = [time EXCEPT ![t] = new]
    /\ left' = [left EXCEPT ![t] = Clamp(d) * MsUnits]
    /\ cur' = t /\ fired' = fired \ {t}
    /\ pc' = IF t = Head(queue') THEN "arm_set" ELSE "check_set"
    /\ UNCHANGED <<now, target, irq, event, masked>>

\* The timer leaves the queue if it is in it, gets its new time and comes
\* back at its place.  The comparator is programmed when the first timer is a
\* new one, be it this one or the one behind it.
SetTimer(t, d) ==
    /\ InTask
    /\ LET new == ClkAdd(now, DelayTime(d))
       IN  /\ queue' = Requeue(t, new)
           /\ time' = [time EXCEPT ![t] = new]
    /\ left' = [left EXCEPT ![t] = Clamp(d) * MsUnits]
    /\ cur' = t /\ fired' = fired \ {t}
    /\ pc' = IF (queue # <<>> /\ t = First) \/ t = Head(queue')
             THEN "arm_set" ELSE "check_set"
    /\ UNCHANGED <<now, target, irq, event, masked>>

ArmSet ==
    /\ pc = "arm_set" /\ Program(time[First])
    /\ pc' = "check_set"
    /\ UNCHANGED <<now, queue, time, event, cur, left, fired>>

\* The check looks at the timer that was set, which need not be the first.
CheckSet ==
    /\ Runs /\ pc = "check_set"
    /\ event' = (event \/ Past(time[cur]))
    /\ pc' = "main" /\ cur' = NoTimer
    /\ UNCHANGED <<now, queue, time, target, irq, masked, left, fired>>

ClearFirst(t) ==
    /\ InTask /\ queue # <<>> /\ t = First
    /\ queue' = Tail(queue)
    /\ Free({t})
    /\ pc' = "arm_clear"
    /\ UNCHANGED <<now, target, irq, event, masked, cur, fired>>

ArmClear ==
    /\ pc = "arm_clear"
    /\ Program(IF queue = <<>> THEN Invalid ELSE time[First])
    /\ pc' = "check_clear"
    /\ UNCHANGED <<now, queue, time, event, cur, left, fired>>

CheckClear ==
    /\ Runs /\ pc = "check_clear"
    /\ event' = (event \/ (queue # <<>> /\ Past(time[First])))
    /\ pc' = "main"
    /\ UNCHANGED <<now, queue, time, target, irq, masked, cur, left, fired>>

ClearOther(t) ==
    /\ InTask /\ queue # <<>> /\ t # First
    /\ queue' = Extract(queue, {t})
    /\ Free({t})
    /\ UNCHANGED <<now, target, irq, event, masked, pc, cur, fired>>

\* rwip_reset: ke_flush frees the timers, rwip_driver_init clears the target
\* and resets the core, whose clock may start again.  The event field stays.
Reset ==
    /\ InTask
    /\ queue' = <<>> /\ Free(Timer) /\ fired' = {}
    /\ target' = Invalid /\ irq' = FALSE
    /\ now' \in {now, 0}
    /\ UNCHANGED <<event, masked, pc, cur>>

-----------------------------------------------------------------------------
(* rwip_sleep and rwip_wakeup_end, when no event is pending, no flag       *)
(* prevents the sleep, and the host and the controller allow it: at any    *)
(* pass of the main loop, or at none.                                      *)

Idle == InTask /\ ~event

\* A target that lies behind was missed: ke_timer_past_done sets the event
\* if there is a timer, and the core does not go to deep sleep.
PastTarget ==
    /\ Idle /\ target # Invalid /\ ClkLowerEq(target + 1, now)
    /\ event' = (queue # <<>>)
    /\ UNCHANGED <<now, queue, time, target, irq, masked, pc, cur, left, fired>>

\* The sleep ends SleepGuard units ahead of the target at the latest.
MaySleep(n) ==
    /\ Idle
    /\ target # Invalid =>
         /\ ~ClkLowerEq(target + 1, now)
         /\ n <= ClkDiff(now, target) - SleepGuard
    /\ Elapse(n)

\* rwip_wakeup_end compares the clock with timer_hus_target, the target of
\* another timer, before it calls the handler of the 1 ms target: either
\* outcome is possible whatever the 1 ms target is.
DeepSleep(n) ==
    /\ MaySleep(n)
    /\ UNCHANGED <<queue, time, target, irq, event, masked, pc, cur, fired>>

DeepSleepHandled(n) ==
    /\ MaySleep(n) /\ target # Invalid
    /\ Expired
    /\ UNCHANGED <<queue, time, irq, masked, pc, cur, fired>>

-----------------------------------------------------------------------------
Schedule ==
    \/ NothingLeft \/ Look \/ ArmFirst \/ CheckArmed \/ ExpireFirst
    \/ ArmSet \/ CheckSet \/ ArmClear \/ CheckClear \/ IntDisable

Next ==
    \/ Tick \/ Isr
    \/ TimerEvent \/ Schedule
    \/ \E t \in Timer : \/ \E d \in Delays : SetTimer(t, d)
                        \/ ClearFirst(t) \/ ClearOther(t)
    \/ Reset
    \/ PastTarget
    \/ \E n \in 1 .. MaxSleep : DeepSleep(n) \/ DeepSleepHandled(n)

Spec == Init /\ [][Next]_vars

\* The clock runs, interrupts are taken, and the code between two waiting points
\* goes on.  The main loop serves the event whenever it keeps being set.  Nothing
\* is assumed of rwip_sleep: it is called when the host and the controller allow
\* a sleep, and looks at the target only when no flag prevents one.
Fairness ==
    /\ WF_vars(Tick) /\ WF_vars(Isr) /\ WF_vars(Schedule)
    /\ SF_vars(TimerEvent)

FairSpec == Spec /\ Fairness

-----------------------------------------------------------------------------
(* Properties.                                                             *)

TypeOK ==
    /\ now \in Clock
    /\ queue \in Seq(Timer)
    /\ time \in [Timer -> Clock]
    /\ target \in Clock \union {Invalid}
    /\ {irq, event, masked} \subseteq BOOLEAN
    /\ pc \in {"main", "look", "check", "expire", "check_set", "check_clear"}
              \union Programs
    /\ cur \in Timer \union {NoTimer}
    /\ left \in [Timer -> Int]
    /\ fired \subseteq Timer

\* Whenever the main loop is outside ke_timer.c and nothing is pending, the
\* comparator is armed for the first timer of the queue: an interrupt that
\* came in the middle of ke_timer_set or ke_timer_clear, a timer set while it
\* was first, a reset or a wake-up never leaves it off or at an old target.
HwFollowsFirst ==
    pc = "main" /\ queue # <<>> /\ ~event /\ ~irq => target = time[First]

\* The timers expire in the order of their times, whatever the clock's
\* wrap-around, none before its time but for the margin, none twice and none
\* after it was cleared: KeTimer implements KeTimerService.
Service == INSTANCE KeTimerService WITH
    running <- Members(queue), left <- left, fired <- fired,
    Span <- {Clamp(d) * MsUnits : d \in Delays}, Steps <- 1 .. MaxSleep + 1
ImplementsService == Service!Spec

Overdue(t) == t \in Members(queue) /\ left[t] <= 0

\* The comparator is armed for a target that lies behind, and neither the
\* interrupt nor the event is pending: the clock passed the target before the
\* comparator was on.
Missed == Idle /\ ~irq /\ target # Invalid /\ ClkLowerEq(target + 1, now)

\* A timer that is overdue expires, is set again or is cleared, by the interrupt or by
\* the checks after the programming of the comparator, whatever rwip_sleep does; or the
\* comparator came too late for its target, and nothing else leaves a timer overdue.
\* Then it is late, not lost: when rwip_sleep gets as far as its look at the target again
\* and again, no timer stays overdue.  While it does not (a flag is set in
\* prevent_sleep, or no sleep is allowed), a missed timer waits.
OverdueIsServed ==
    /\ \A t \in Timer : Overdue(t) ~> ~Overdue(t) \/ Missed
    /\ SF_vars(PastTarget) => \A t \in Timer : Overdue(t) ~> ~Overdue(t)
=============================================================================
