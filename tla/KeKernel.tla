----------------------------- MODULE KeKernel -----------------------------
(***************************************************************************)
(* The BLE kernel of rw_ble/Src/modules/ke: the event field and its        *)
(* scheduler (ke_event.c), the queues of sent and of saved messages        *)
(* (ke_msg.c, ke.c) and the message scheduler (ke_task.c).                 *)
(*                                                                         *)
(* Two actors run it.  The main loop calls rwip_schedule, which runs event *)
(* callbacks one after the other; the message scheduler is the callback of *)
(* the event KE_MESSAGE and calls the handler of one message.  Then it may *)
(* call rwip_sleep and may halt the processor until the next interrupt.    *)
(* Interrupt handlers set events and send messages.  They preempt the main *)
(* loop anywhere outside GLOBAL_INT_DISABLE .. RESTORE but not each other  *)
(* (sys_irq.c masks the other kernel interrupts for the whole handler), so *)
(* an interrupt is one action and each stretch of main-loop code between   *)
(* two points where an interrupt makes a difference is one action.         *)
(***************************************************************************)
EXTENDS Integers, KeQueue

CONSTANTS
    Msg,        \* the message blocks of the kernel heap
    NoMsg,
    Task,       \* task instances, <<type, index>>
    NoTask,
    BootTask,   \* the instances that exist right after ke_init and rwip_reset
    State,      \* the states of a task
    InitState,
    Event,      \* the bits of the event field; a higher bit is served first
    KE_MESSAGE  \* the bit whose callback is ke_task_schedule

ASSUME KernelAssumption ==
    /\ NoMsg \notin Msg
    /\ NoTask \notin Task
    /\ BootTask \subseteq Task
    /\ InitState \in State
    /\ Event \subseteq Nat
    /\ KE_MESSAGE \in Event

VARIABLES
    sent,    \* queue_sent
    saved,   \* queue_saved
    live,    \* the blocks that are allocated
    dest,    \* dest_id of each message
    field,   \* event_field, as the set of its bits
    active,  \* the instances whose index is below idx_max of their task
    state,   \* the state of each instance
    prevent, \* prevent_sleep of rwip_env: the flags of the deep sleep
    pc,      \* where the main loop is
    hdl,     \* the event whose callback runs
    cur,     \* the message whose handler runs and has not given it away
    upd,     \* the task whose saved messages ke_task_saved_update moves
    late,    \* history: messages handled in a row with a higher event set
    stale    \* history: messages saved under a state their task has left

vars == <<sent, saved, live, dest, field, active, state, prevent, pc, hdl, cur,
          upd, late, stale>>

kvars == <<sent, saved, live, dest>>

TaskType(t) == t[1]    \* KE_TYPE_GET

\* The flags of prevent_sleep that the kernel itself sets and clears: the core
\* is in deep sleep, or awake with its clock not corrected yet.
RW_DEEP_SLEEP      == "deep_sleep"
RW_WAKE_UP_ONGOING == "wake_up_ongoing"

\* A message block that belongs to a task: allocated, in no queue, and not
\* the message the scheduler is about to free or save.
Held == live \ (Members(sent) \union Members(saved) \union {cur})

\* The main loop runs code of a task: a message handler, or the callback of
\* an event other than KE_MESSAGE.
InTask == pc \in {"handler", "callback"}

TaskCode == IF hdl = KE_MESSAGE THEN "handler" ELSE "callback"

Init ==
    /\ sent = <<>> /\ saved = <<>> /\ live = {}
    /\ dest \in [Msg -> BootTask]
    /\ field = {}
    /\ active = BootTask
    /\ state = [t \in Task |-> InitState]
    /\ prevent = {} /\ pc = "loop"
    /\ hdl = KE_MESSAGE /\ cur = NoMsg /\ upd = NoTask
    /\ late = 0 /\ stale = {}

-----------------------------------------------------------------------------
(* The event scheduler of the main loop, its sleep and its halts.          *)

\* Mutant: the event number is one too high.
RunEvent_OffByOne ==
    /\ pc = "schedule"
    /\ \E e \in field :
         /\ \A f \in field : f <= e
         /\ hdl' = e + 1
         /\ pc' = "callback"
         /\ field' = field \ {e}
         /\ late' = 0
    /\ UNCHANGED <<kvars, active, state, prevent, cur, upd, stale>>

\* ke_event_schedule: serve the highest event that is set.  The callback of
\* another event clears its bit before anything else.
RunEvent ==
    /\ pc = "schedule"
    /\ \E e \in field :
         /\ \A f \in field : f <= e
         /\ hdl' = e
         /\ \/ /\ e = KE_MESSAGE
               /\ pc' = "task_schedule"
               /\ UNCHANGED <<field, late>>
            \/ /\ e # KE_MESSAGE
               /\ pc' = "callback"
               /\ field' = field \ {e}
               /\ late' = 0
    /\ UNCHANGED <<kvars, active, state, prevent, cur, upd, stale>>

\* ke_event_schedule returns once it reads an empty field.
ScheduleDone ==
    /\ pc = "schedule"
    /\ field = {}
    /\ pc' = "main"
    /\ UNCHANGED <<kvars, field, active, state, prevent, hdl, cur, upd, late,
                   stale>>

\* Mutant: the scheduler does not wait for the end of a deep sleep.
RwipSchedule_NotAsleep ==
    /\ pc = "loop"
    /\ pc' = IF RW_WAKE_UP_ONGOING \notin prevent THEN "schedule" ELSE "main"
    /\ UNCHANGED <<kvars, field, active, state, prevent, hdl, cur, upd, late,
                   stale>>

\* rwip_schedule: events wait until the core is awake and its clock corrected.
RwipSchedule ==
    /\ pc = "loop"
    /\ pc' = IF {RW_WAKE_UP_ONGOING, RW_DEEP_SLEEP} \intersect prevent = {}
             THEN "schedule" ELSE "main"
    /\ UNCHANGED <<kvars, field, active, state, prevent, hdl, cur, upd, late,
                   stale>>

\* Mutant: the sleep decision looks only at the events above KE_MESSAGE.
RwipSleep_HigherOnly ==
    /\ pc = "main"
    /\ pc' = "slept"
    /\ \/ UNCHANGED prevent
       \/ /\ RW_WAKE_UP_ONGOING \in prevent \/ \A e \in field : e <= KE_MESSAGE
          /\ prevent = {}
          /\ prevent' = {RW_DEEP_SLEEP}
    /\ UNCHANGED <<kvars, field, active, state, hdl, cur, upd, late, stale>>

\* rwip_sleep, which SYSpwr_Halt_System calls with interrupts disabled: the
\* core is put into deep sleep only when, unless it is still waking up, no
\* event is set, and when no flag prevents it.  Other flags, the time left
\* to the next target and the transport may end the checks as well.
RwipSleep ==
    /\ pc = "main"
    /\ pc' = "slept"
    /\ \/ UNCHANGED prevent
       \/ /\ RW_WAKE_UP_ONGOING \in prevent \/ field = {}
          /\ prevent = {}
          /\ prevent' = {RW_DEEP_SLEEP}
    /\ UNCHANGED <<kvars, field, active, state, hdl, cur, upd, late, stale>>

\* The end of a pass: main may halt the processor until the next interrupt.
\* It looks at the message pool of the host, not at the events of the kernel.
EndOfPass == {"loop", "halted"}

\* A pass of the main loop without SYSpwr_Halt_System, or one where the host
\* or the controller does not allow the sleep.
SkipSleep ==
    /\ pc = "main"
    /\ pc' \in EndOfPass
    /\ UNCHANGED <<kvars, field, active, state, prevent, hdl, cur, upd, late,
                   stale>>

\* SYSpwr_Halt_System enables interrupts again, does not look at what
\* rwip_sleep has returned, and halts if the core is in deep sleep now.
SysHalt ==
    /\ pc = "slept"
    /\ pc' \in IF RW_DEEP_SLEEP \in prevent THEN {"asleep"} ELSE EndOfPass
    /\ UNCHANGED <<kvars, field, active, state, prevent, hdl, cur, upd, late,
                   stale>>

\* Any interrupt ends a halt, the one of the periodic timer at the latest.
WakeUp ==
    /\ \/ pc = "asleep" /\ pc' \in EndOfPass
       \/ pc = "halted" /\ pc' = "loop"
    /\ UNCHANGED <<kvars, field, active, state, prevent, hdl, cur, upd, late,
                   stale>>

-----------------------------------------------------------------------------
(* ke_task_schedule, the callback of KE_MESSAGE.                           *)

\* Take the first sent message.  A block that is already free is dropped; the
\* message of an instance that does not exist has no handler and is consumed.
PopMessage ==
    /\ pc = "task_schedule"
    /\ IF sent = <<>>
       THEN /\ pc' = "clear"
            /\ UNCHANGED <<sent, live, cur, late>>
       ELSE /\ sent' = Tail(sent)
            /\ IF Head(sent) \in live /\ dest[Head(sent)] \in active
               THEN /\ pc' = "handler" /\ cur' = Head(sent)
                    /\ UNCHANGED live
               ELSE /\ pc' = "clear"
                    /\ live' = live \ {Head(sent)}
                    /\ UNCHANGED cur
            /\ late' = IF \E e \in field : e > KE_MESSAGE THEN late + 1 ELSE 0
    /\ UNCHANGED <<saved, dest, field, active, state, prevent, hdl, upd,
                   stale>>

\* The handler returns KE_MSG_CONSUMED, KE_MSG_SAVED or, when it has taken
\* the message over, KE_MSG_NO_FREE.
ReturnConsumed ==
    /\ pc = "handler" /\ cur # NoMsg
    /\ live' = live \ {cur}
    /\ cur' = NoMsg
    /\ pc' = "clear"
    /\ UNCHANGED <<sent, saved, dest, field, active, state, prevent, hdl, upd,
                   late, stale>>

\* Mutant: a break is missing, the saved message is freed as well.
ReturnSaved_Freed ==
    /\ pc = "handler" /\ cur # NoMsg
    /\ saved' = Push(saved, cur)
    /\ live' = live \ {cur}
    /\ cur' = NoMsg
    /\ pc' = "clear"
    /\ UNCHANGED <<sent, dest, field, active, state, prevent, hdl, upd, late,
                   stale>>

ReturnSaved ==
    /\ pc = "handler" /\ cur # NoMsg
    /\ saved' = Push(saved, cur)
    /\ cur' = NoMsg
    /\ pc' = "clear"
    /\ UNCHANGED <<sent, live, dest, field, active, state, prevent, hdl, upd,
                   late, stale>>

ReturnNoFree ==
    /\ pc = "handler" /\ cur = NoMsg
    /\ pc' = "clear"
    /\ UNCHANGED <<kvars, field, active, state, prevent, hdl, cur, upd, late,
                   stale>>

HandlerReturn == ReturnConsumed \/ ReturnSaved \/ ReturnNoFree

CallbackReturn ==
    /\ pc = "callback"
    /\ pc' = "schedule"
    /\ UNCHANGED <<kvars, field, active, state, prevent, hdl, cur, upd, late,
                   stale>>

\* Mutants: the event is cleared without a look at the queue; the scheduler
\* goes on until the queue is empty.
ClearEvent_Always ==
    /\ pc = "clear"
    /\ field' = field \ {KE_MESSAGE}
    /\ pc' = "schedule"
    /\ UNCHANGED <<kvars, active, state, prevent, hdl, cur, upd, late, stale>>

ClearEvent_Drain ==
    /\ pc = "clear"
    /\ field' = IF sent = <<>> THEN field \ {KE_MESSAGE} ELSE field
    /\ pc' = IF sent = <<>> THEN "schedule" ELSE "task_schedule"
    /\ UNCHANGED <<kvars, active, state, prevent, hdl, cur, upd, late, stale>>

\* With interrupts disabled: the event is cleared if the queue is empty now.
ClearEvent ==
    /\ pc = "clear"
    /\ field' = IF sent = <<>> THEN field \ {KE_MESSAGE} ELSE field
    /\ pc' = "schedule"
    /\ UNCHANGED <<kvars, active, state, prevent, hdl, cur, upd, late, stale>>

-----------------------------------------------------------------------------
(* What a handler or a callback may call.                                  *)

\* ke_msg_alloc
Alloc(m, t) ==
    /\ InTask
    /\ m \notin live
    /\ live' = live \union {m}
    /\ dest' = [dest EXCEPT ![m] = t]
    /\ UNCHANGED <<sent, saved, field, active, state, prevent, pc, hdl, cur,
                   upd, late, stale>>

\* ke_msg_free of a message the task owns.
Free(m) ==
    /\ InTask
    /\ m \in Held
    /\ live' = live \ {m}
    /\ UNCHANGED <<sent, saved, dest, field, active, state, prevent, pc, hdl,
                   cur, upd, late, stale>>

\* The handler keeps its message, to send or free it now or later.
Keep ==
    /\ pc = "handler" /\ cur # NoMsg
    /\ cur' = NoMsg
    /\ UNCHANGED <<kvars, field, active, state, prevent, pc, hdl, upd, late,
                   stale>>

\* ke_msg_send (t is its destination) and ke_msg_forward (t is another task):
\* the message is linked first and the event set after interrupts have been
\* enabled again.
Send(m, t) ==
    /\ InTask
    /\ m \in Held
    /\ dest' = [dest EXCEPT ![m] = t]
    /\ sent' = Push(sent, m)
    /\ pc' = "sent"
    /\ UNCHANGED <<saved, live, field, active, state, prevent, hdl, cur, upd,
                   late, stale>>

\* The ke_event_set(KE_EVENT_KE_MESSAGE) of ke_msg_send and of each round of
\* ke_task_saved_update.
SetMessageEvent ==
    /\ pc = "sent"
    /\ field' = field \union {KE_MESSAGE}
    /\ pc' = IF upd = NoTask THEN TaskCode ELSE "saved_update"
    /\ UNCHANGED <<kvars, active, state, prevent, hdl, cur, upd, late, stale>>

\* ke_state_set with a new state; it has no effect on an instance that does
\* not exist nor when the state stays the same.
StateSet(t, s) ==
    /\ InTask
    /\ t \in active
    /\ state[t] # s
    /\ state' = [state EXCEPT ![t] = s]
    /\ upd' = t
    /\ pc' = "saved_update"
    /\ stale' = stale \union {m \in Members(saved) : dest[m] = t}
    /\ UNCHANGED <<kvars, field, active, prevent, hdl, cur, late>>

\* One round of ke_task_saved_update: the first saved message for the task
\* goes to the end of the sent queue.
MoveSaved ==
    /\ pc = "saved_update"
    /\ \E i \in FirstMatch(saved, {m \in Msg : dest[m] = upd}) :
         /\ saved' = Unlink(saved, i)
         /\ sent' = Push(sent, saved[i])
         /\ stale' = stale \ {saved[i]}
    /\ pc' = "sent"
    /\ UNCHANGED <<live, dest, field, active, state, prevent, hdl, cur, upd,
                   late>>

\* Mutant: only one saved message is moved.
MoveSavedDone_One ==
    /\ pc = "saved_update"
    /\ pc' = TaskCode
    /\ upd' = NoTask
    /\ UNCHANGED <<kvars, field, active, state, prevent, hdl, cur, late,
                   stale>>

MoveSavedDone ==
    /\ pc = "saved_update"
    /\ \A m \in Members(saved) : dest[m] # upd
    /\ pc' = TaskCode
    /\ upd' = NoTask
    /\ UNCHANGED <<kvars, field, active, state, prevent, hdl, cur, late,
                   stale>>

\* prf_add_profile and the profile's task_init: the instance exists from now
\* on, in its initial state.
AddProfile(t) ==
    /\ InTask
    /\ t \notin active
    /\ active' = active \union {t}
    /\ state' = [state EXCEPT ![t] = InitState]
    /\ UNCHANGED <<kvars, field, prevent, pc, hdl, cur, upd, late, stale>>

\* Mutant: the saved queue is emptied but its blocks are not freed.
Reset_SavedLost ==
    /\ pc = "handler"
    /\ live' = live \ Members(sent)
    /\ sent' = <<>> /\ saved' = <<>>
    /\ active' = BootTask
    /\ state' = [t \in Task |-> InitState]
    /\ stale' = {} /\ prevent' = {}
    /\ UNCHANGED <<dest, field, pc, hdl, cur, upd, late>>

\* rwip_reset, with interrupts disabled: ke_flush frees every sent and every
\* saved message, prf_init removes the profiles, the tasks restart and
\* rwip_driver_init clears prevent_sleep.  The event field is left as it is.
Reset ==
    /\ pc = "handler"
    /\ live' = live \ (Members(sent) \union Members(saved))
    /\ sent' = <<>> /\ saved' = <<>>
    /\ active' = BootTask
    /\ state' = [t \in Task |-> InitState]
    /\ stale' = {} /\ prevent' = {}
    /\ UNCHANGED <<dest, field, pc, hdl, cur, upd, late>>

-----------------------------------------------------------------------------
(* Interrupt handlers.                                                     *)

\* rwip_wakeup, at the sleep interrupt: the core is awake but its clock is
\* not corrected.
IsrWakeup ==
    /\ RW_DEEP_SLEEP \in prevent
    /\ prevent' = (prevent \ {RW_DEEP_SLEEP}) \union {RW_WAKE_UP_ONGOING}
    /\ UNCHANGED <<kvars, field, active, state, pc, hdl, cur, upd, late,
                   stale>>

\* rwip_wakeup_end, at the first clock interrupt after that: timers whose
\* target was slept over set their events.
IsrWakeupEnd ==
    /\ RW_WAKE_UP_ONGOING \in prevent
    /\ \E E \in SUBSET (Event \ {KE_MESSAGE}) : field' = field \union E
    /\ prevent' = prevent \ {RW_WAKE_UP_ONGOING}
    /\ UNCHANGED <<kvars, active, state, pc, hdl, cur, upd, late, stale>>

\* ke_event_set from an interrupt.
IsrSetEvent(e) ==
    /\ e # KE_MESSAGE
    /\ e \notin field
    /\ field' = field \union {e}
    /\ UNCHANGED <<kvars, active, state, prevent, pc, hdl, cur, upd, late,
                   stale>>

\* ke_msg_alloc and ke_msg_send from an interrupt.
IsrSend(m, t) ==
    /\ m \notin live
    /\ live' = live \union {m}
    /\ dest' = [dest EXCEPT ![m] = t]
    /\ sent' = Push(sent, m)
    /\ field' = field \union {KE_MESSAGE}
    /\ UNCHANGED <<saved, active, state, prevent, pc, hdl, cur, upd, late,
                   stale>>

-----------------------------------------------------------------------------
Scheduler ==
    \/ RwipSchedule \/ RunEvent \/ ScheduleDone
    \/ RwipSleep \/ SkipSleep \/ SysHalt \/ WakeUp
    \/ PopMessage \/ ClearEvent
    \/ SetMessageEvent \/ MoveSaved \/ MoveSavedDone

TaskStep ==
    \/ HandlerReturn \/ CallbackReturn \/ Keep \/ Reset
    \/ \E m \in Msg, t \in Task : Alloc(m, t) \/ Send(m, t)
    \/ \E m \in Msg : Free(m)
    \/ \E t \in Task, s \in State : StateSet(t, s)
    \/ \E t \in Task : AddProfile(t)

Interrupt ==
    \/ IsrWakeup \/ IsrWakeupEnd
    \/ \E e \in Event : IsrSetEvent(e)
    \/ \E m \in Msg, t \in Task : IsrSend(m, t)

Next == Scheduler \/ TaskStep \/ Interrupt

Spec == Init /\ [][Next]_vars

\* The main loop never stops: its own steps are weakly fair.  Handlers and
\* callbacks are code without a wait in it, so each of them returns whatever
\* it calls before.  The core wakes up at the end of the programmed duration
\* and its clock ticks after that.  Other interrupts come or do not come.
Fairness ==
    /\ WF_vars(Scheduler)
    /\ SF_vars(HandlerReturn)
    /\ SF_vars(CallbackReturn)
    /\ WF_vars(IsrWakeup)
    /\ WF_vars(IsrWakeupEnd)

FairSpec == Spec /\ Fairness
-----------------------------------------------------------------------------
(* Properties.                                                             *)

\* The blocks linked in a queue of the kernel.
Queued == Members(sent) \union Members(saved)

\* Where the main loop is while rwip_schedule runs events.
Running == {"schedule", "callback", "task_schedule", "handler", "sent",
            "saved_update", "clear"}

\* The values the variables range over: the queues hold message blocks, the
\* event field event bits, and the program counter of the main loop one of
\* the places where an interrupt makes a difference.
TypeOK ==
    /\ sent \in Seq(Msg) /\ saved \in Seq(Msg)
    /\ live \subseteq Msg
    /\ dest \in [Msg -> Task]
    /\ field \subseteq Event
    /\ active \subseteq Task
    /\ state \in [Task -> State]
    /\ prevent \subseteq {RW_DEEP_SLEEP, RW_WAKE_UP_ONGOING}
    /\ pc \in Running \union {"loop", "main", "slept", "asleep", "halted"}
    /\ hdl \in Event
    /\ cur \in Msg \union {NoMsg}
    /\ upd \in Task \union {NoTask}
    /\ late \in Nat
    /\ stale \subseteq Msg

\* A message block is in at most one place: linked once in one queue, with
\* the handler the scheduler runs, or owned by a task.  What is linked is
\* allocated, so that no queue holds a freed block (the branch on ke_is_free
\* in ke_task_schedule is never taken).
QueueIntegrity ==
    /\ Distinct(sent) /\ Distinct(saved)
    /\ Members(sent) \intersect Members(saved) = {}
    /\ Queued \subseteq live
    /\ cur # NoMsg => cur \in live \ Queued

\* ke_msg_send pushes and then sets the event, ke_task_schedule tests the queue
\* and then clears it, with interrupts that send in between: a message that
\* waits has the event set, or its sender is just about to set it.
NoLostWakeup == sent # <<>> => KE_MESSAGE \in field \/ pc = "sent"

\* "Process one message at a time to ensure that events having higher priority
\* are handled in time" (ke_task.c): of the messages taken from the queue while
\* a higher event is set, no two are taken in a row.
PriorityBound == late <= 1

\* A saved message waits for a change of the state of its task.  Once the
\* ke_state_set that changes it has returned, no message saved under an earlier
\* state is left behind in the save queue.
SavedUpToDate == upd = NoTask => stale = {}

Before(q, m, n) == \E i, j \in DOMAIN q : i < j /\ q[i] = m /\ q[j] = n

\* Messages are handled in the order of their sends, and come back from the
\* saved queue in the order in which they were saved: what is linked goes behind
\* what is there, what stays is never reordered, and of two saved messages of a
\* task the first one is moved first.
Fifo(q, r) ==
    \A m, n \in Members(r) :
        /\ Before(q, m, n) => Before(r, m, n)
        /\ m \in Members(q) /\ n \notin Members(q) => Before(r, m, n)

OrderKept ==
    [][/\ Fifo(sent, sent') /\ Fifo(saved, saved')
       /\ \A m, n \in Msg : Before(saved, m, n) /\ dest[m] = dest[n]
             => m \notin Members(saved') \/ Before(saved', m, n)]_vars

\* The core is never put into deep sleep with a message waiting: rwip_sleep
\* only looks at the event field, not at the queues.
NoSleepWithMessage ==
    [][RW_DEEP_SLEEP \notin prevent /\ RW_DEEP_SLEEP \in prevent'
         => sent = <<>>]_vars

\* "During wakeup, kernel events are not processed" (rwip_driver.c): no event,
\* message or task runs from the moment the core goes to deep sleep until its
\* clock has been corrected, although interrupts end the halt of the processor
\* long before and the main loop goes on.
EventsAwaitClock == pc \in Running => prevent = {}

\* As long as events above KE_MESSAGE do not keep coming, each message that is
\* sent is eventually taken out of the queue, deep sleeps and halts of the
\* processor in between included.
SentIsHandled ==
    <>[](\A e \in field : e <= KE_MESSAGE)
        => \A m \in Msg : m \in Members(sent) ~> m \notin Members(sent)

\* Where a message block is, for the abstract specification.
PlaceOf(m) ==
    CASE m \in Members(sent)  -> "queued"
      [] m \in Members(saved) -> "saved"
      [] m = cur              -> "handled"
      [] m \in Held           -> "held"
      [] OTHER                -> "free"

Mailbox == INSTANCE KeMailbox WITH place <- [m \in Msg |-> PlaceOf(m)],
                                   queue <- sent

\* The kernel implements the mailbox: whatever the interleaving with interrupts,
\* a message is in one place, is delivered once per send and in the order of
\* the sends, and is never freed while someone else still holds it.
ImplementsMailbox == Mailbox!Spec
=============================================================================
