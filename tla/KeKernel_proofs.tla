-------------------------- MODULE KeKernel_proofs --------------------------
(***************************************************************************)
(* The safety properties of KeKernel for every number of messages, tasks,  *)
(* states and events.                                                      *)
(*                                                                         *)
(* The inductive invariant adds to the properties where the main loop can  *)
(* be while it holds a message (CurPc), while it moves saved messages      *)
(* (UpdPc, StaleSaved) and after a message has been taken before a higher  *)
(* event (LatePc), and that no deep sleep begins while events are served   *)
(* (EventsAwaitClock).                                                     *)
(***************************************************************************)
EXTENDS KeKernel, SequenceTheorems, TLAPS

-----------------------------------------------------------------------------
(* What the operators on queues do to the members of a queue.              *)

\* Linking an element adds it, and keeps a queue without doubles so if the
\* element was not linked.
LEMMA PushLemma ==
    ASSUME NEW S, NEW q \in Seq(S), NEW e \in S
    PROVE  /\ Push(q, e) \in Seq(S)
           /\ Push(q, e) # <<>>
           /\ Members(Push(q, e)) = Members(q) \union {e}
           /\ Distinct(q) /\ e \notin Members(q) => Distinct(Push(q, e))
<1> DEFINE p == Push(q, e)
<1>1. /\ p \in Seq(S) /\ p # <<>> /\ Len(p) = Len(q) + 1
      /\ \A i \in 1 .. Len(q) : p[i] = q[i]
      /\ p[Len(q) + 1] = e
  BY AppendProperties DEF Push
<1>2. /\ DOMAIN q = 1 .. Len(q) /\ Len(q) \in Nat
      /\ DOMAIN p = 1 .. Len(q) + 1
  BY <1>1, LenProperties
<1> HIDE DEF p
<1>3. Members(p) = Members(q) \union {e}
  <2>1. Members(p) \subseteq Members(q) \union {e}
    BY <1>1, <1>2 DEF Members, Range
  <2>2. \A i \in DOMAIN q : q[i] = p[i] /\ i \in DOMAIN p
    BY <1>1, <1>2
  <2>3. Members(q) \union {e} \subseteq Members(p)
    BY <1>1, <1>2, <2>2 DEF Members, Range
  <2> QED BY <2>1, <2>3
<1>4. ASSUME Distinct(q), e \notin Members(q)
      PROVE  Distinct(p)
  <2> SUFFICES ASSUME NEW i \in DOMAIN p, NEW j \in DOMAIN p, p[i] = p[j]
               PROVE  i = j
    BY DEF Distinct
  <2>1. \A k \in DOMAIN q : q[k] # e
    BY <1>4 DEF Members, Range
  <2>2. CASE i = Len(q) + 1 \/ j = Len(q) + 1
    BY <1>1, <1>2, <2>1, <2>2
  <2>3. CASE i # Len(q) + 1 /\ j # Len(q) + 1
    BY <1>1, <1>2, <1>4, <2>3 DEF Distinct
  <2> QED BY <2>2, <2>3
<1> QED BY <1>1, <1>3, <1>4 DEF p

\* Taking the first element removes it, and only it if there are no doubles.
LEMMA PopLemma ==
    ASSUME NEW S, NEW q \in Seq(S), q # <<>>
    PROVE  /\ Head(q) \in S /\ Tail(q) \in Seq(S)
           /\ Head(q) \in Members(q)
           /\ Members(Tail(q)) \subseteq Members(q)
           /\ Distinct(q) => /\ Members(Tail(q)) = Members(q) \ {Head(q)}
                             /\ Distinct(Tail(q))
<1> DEFINE t == Tail(q)
<1>1. /\ Head(q) \in S /\ t \in Seq(S) /\ Len(t) = Len(q) - 1
      /\ \A i \in 1 .. Len(t) : t[i] = q[i + 1]
  BY HeadTailProperties
<1>2. Len(q) \in Nat \ {0} /\ DOMAIN q = 1 .. Len(q) /\ DOMAIN t = 1 .. Len(q) - 1
  BY <1>1, LenProperties, EmptySeq
<1>3. Head(q) = q[1]
  BY <1>2
<1> HIDE DEF t
<1>4. \A i \in DOMAIN t : i + 1 \in DOMAIN q /\ i + 1 # 1 /\ t[i] = q[i + 1]
  BY <1>1, <1>2
<1>5. Head(q) \in Members(q)
  BY <1>2, <1>3 DEF Members, Range
<1>6. Members(t) \subseteq Members(q)
  BY <1>4 DEF Members, Range
<1>7. ASSUME Distinct(q)
      PROVE  Members(t) = Members(q) \ {Head(q)} /\ Distinct(t)
  <2>1. Members(t) \subseteq Members(q) \ {Head(q)}
    BY <1>2, <1>3, <1>4, <1>7 DEF Members, Range, Distinct
  <2>2. ASSUME NEW i \in DOMAIN q, q[i] # q[1]
        PROVE  q[i] \in Members(t)
    <3>1. i - 1 \in DOMAIN t /\ t[i - 1] = q[i]
      BY <1>1, <1>2, <2>2
    <3> QED BY <3>1 DEF Members, Range
  <2>3. Members(q) \ {Head(q)} \subseteq Members(t)
    BY <1>3, <2>2 DEF Members, Range
  <2>4. Distinct(t)
    BY <1>2, <1>4, <1>7 DEF Distinct
  <2> QED BY <2>1, <2>3, <2>4
<1> QED BY <1>1, <1>5, <1>6, <1>7 DEF t

\* Unlinking the element at position n closes the gap.
LEMMA UnlinkIndex ==
    ASSUME NEW S, NEW q \in Seq(S), NEW n \in DOMAIN q
    PROVE  /\ Unlink(q, n) \in Seq(S)
           /\ Len(q) \in Nat /\ DOMAIN q = 1 .. Len(q)
           /\ DOMAIN Unlink(q, n) = 1 .. Len(q) - 1
           /\ \A i \in 1 .. Len(q) - 1 :
                Unlink(q, n)[i] = IF i <= n - 1 THEN q[i] ELSE q[i + 1]
<1> DEFINE a == SubSeq(q, 1, n - 1)
           b == SubSeq(q, n + 1, Len(q))
           u == Unlink(q, n)
<1>1. Len(q) \in Nat /\ DOMAIN q = 1 .. Len(q) /\ n \in 1 .. Len(q)
  BY LenProperties
<1>2. \A i \in 1 .. Len(q) : q[i] \in S
  BY ElementOfSeq
<1>3. /\ a \in Seq(S) /\ Len(a) = n - 1
      /\ \A i \in 1 .. n - 1 : a[i] = q[i]
  <2>1. \A i \in 1 .. n - 1 : q[i] \in S
    BY <1>1, <1>2
  <2>2. /\ a \in Seq(S)
        /\ Len(a) = IF 1 <= n - 1 THEN n - 1 - 1 + 1 ELSE 0
        /\ \A i \in 1 .. (n - 1) - 1 + 1 : a[i] = q[1 + i - 1]
    BY <1>1, <2>1, SubSeqProperties, 1 \in Int, n - 1 \in Int
  <2> HIDE DEF a
  <2> QED BY <1>1, <2>2
<1>4. /\ b \in Seq(S) /\ Len(b) = Len(q) - n
      /\ \A i \in 1 .. Len(q) - n : b[i] = q[n + i]
  <2>1. \A i \in n + 1 .. Len(q) : q[i] \in S
    BY <1>1, <1>2
  <2>2. /\ b \in Seq(S)
        /\ Len(b) = IF n + 1 <= Len(q) THEN Len(q) - (n + 1) + 1 ELSE 0
        /\ \A i \in 1 .. Len(q) - (n + 1) + 1 : b[i] = q[n + 1 + i - 1]
    BY <1>1, <2>1, SubSeqProperties, n + 1 \in Int, Len(q) \in Int
  <2> HIDE DEF b
  <2>3. Len(b) = Len(q) - n
    BY <1>1, <2>2
  <2>4. ASSUME NEW i \in 1 .. Len(q) - n
        PROVE  b[i] = q[n + i]
    <3>1. i \in 1 .. Len(q) - (n + 1) + 1 /\ n + 1 + i - 1 = n + i
      BY <1>1
    <3> QED BY <2>2, <3>1
  <2> QED BY <2>2, <2>3, <2>4
<1> HIDE DEF a, b
<1>5. u = a \o b
  BY DEF u, a, b, Unlink
<1>6. /\ u \in Seq(S) /\ Len(u) = Len(q) - 1 /\ DOMAIN u = 1 .. Len(q) - 1
      /\ \A i \in 1 .. Len(q) - 1 : u[i] = IF i <= n - 1 THEN q[i] ELSE q[i + 1]
  <2>1. /\ a \o b \in Seq(S) /\ Len(a \o b) = Len(a) + Len(b)
        /\ \A i \in 1 .. Len(a) + Len(b) :
             (a \o b)[i] = IF i <= Len(a) THEN a[i] ELSE b[i - Len(a)]
    BY <1>3, <1>4, ConcatProperties
  <2> HIDE DEF u
  <2>2. u \in Seq(S) /\ Len(u) = Len(q) - 1
    BY <1>1, <1>3, <1>4, <1>5, <2>1
  <2>3. DOMAIN u = 1 .. Len(q) - 1
    BY <2>2, LenProperties
  <2>4. ASSUME NEW i \in 1 .. Len(q) - 1
        PROVE  u[i] = IF i <= n - 1 THEN q[i] ELSE q[i + 1]
    <3>1. CASE i <= n - 1
      BY <1>1, <1>3, <1>4, <1>5, <2>1, <3>1
    <3>2. CASE i > n - 1
      <4>1. u[i] = b[i - (n - 1)] /\ i - (n - 1) \in 1 .. Len(q) - n
        <5>1. i \in 1 .. Len(a) + Len(b) /\ ~(i <= Len(a))
          BY <1>1, <1>3, <1>4, <3>2
        <5>2. u[i] = b[i - Len(a)]
          BY <1>5, <2>1, <5>1
        <5> QED BY <1>1, <1>3, <3>2, <5>2
      <4>2. b[i - (n - 1)] = q[n + (i - (n - 1))] /\ n + (i - (n - 1)) = i + 1
        BY <1>1, <1>4, <4>1
      <4> QED BY <1>1, <3>2, <4>1, <4>2
    <3> QED BY <1>1, <3>1, <3>2
  <2> QED BY <2>2, <2>3, <2>4
<1> QED BY <1>1, <1>6

\* Unlinking the element at a position removes it, and only it if there are
\* no doubles.
LEMMA UnlinkLemma ==
    ASSUME NEW S, NEW q \in Seq(S), NEW n \in DOMAIN q
    PROVE  /\ q[n] \in S /\ q[n] \in Members(q)
           /\ Unlink(q, n) \in Seq(S)
           /\ Distinct(q) => /\ Members(Unlink(q, n)) = Members(q) \ {q[n]}
                             /\ Distinct(Unlink(q, n))
<1> DEFINE u == Unlink(q, n)
<1>1. Len(q) \in Nat /\ DOMAIN q = 1 .. Len(q) /\ n \in 1 .. Len(q)
  BY LenProperties
<1>2. \A i \in 1 .. Len(q) : q[i] \in S
  BY ElementOfSeq
<1>3. /\ u \in Seq(S) /\ DOMAIN u = 1 .. Len(q) - 1
      /\ \A i \in 1 .. Len(q) - 1 : u[i] = IF i <= n - 1 THEN q[i] ELSE q[i + 1]
  BY UnlinkIndex
<1> HIDE DEF u
<1>4. q[n] \in S /\ q[n] \in Members(q)
  BY <1>1, <1>2 DEF Members, Range
<1>5. ASSUME Distinct(q)
      PROVE  Members(u) = Members(q) \ {q[n]} /\ Distinct(u)
  <2>1. ASSUME NEW i \in DOMAIN u
        PROVE  u[i] \in Members(q) \ {q[n]}
    <3>1. PICK j \in DOMAIN q : u[i] = q[j] /\ j # n
      <4>1. i \in Nat /\ i \in 1 .. Len(q) - 1
        BY <1>1, <1>3
      <4>2. CASE i <= n - 1
        <5>1. i \in DOMAIN q /\ i # n
          BY <1>1, <4>1, <4>2
        <5>2. u[i] = q[i]
          BY <1>3, <4>1, <4>2
        <5> QED BY <5>1, <5>2
      <4>3. CASE ~(i <= n - 1)
        <5>1. i + 1 \in DOMAIN q /\ i + 1 # n
          BY <1>1, <4>1, <4>3
        <5>2. u[i] = q[i + 1]
          BY <1>3, <4>1, <4>3
        <5> QED BY <5>1, <5>2
      <4> QED BY <4>2, <4>3
    <3> QED BY <1>1, <1>5, <3>1 DEF Members, Range, Distinct
  <2>2. ASSUME NEW j \in DOMAIN q, q[j] # q[n]
        PROVE  q[j] \in Members(u)
    <3>1. PICK i \in DOMAIN u : u[i] = q[j]
      <4>1. CASE j < n
        BY <1>1, <1>3, <2>2, <4>1
      <4>2. CASE j > n
        <5>1. j - 1 \in DOMAIN u /\ u[j - 1] = q[j]
          BY <1>1, <1>3, <2>2, <4>2
        <5> QED BY <5>1
      <4> QED BY <1>1, <2>2, <4>1, <4>2
    <3> QED BY <3>1 DEF Members, Range
  <2>3. Members(u) = Members(q) \ {q[n]}
    BY <2>1, <2>2 DEF Members, Range
  <2>4. Distinct(u)
    <3> SUFFICES ASSUME NEW i \in DOMAIN u, NEW j \in DOMAIN u, u[i] = u[j]
                 PROVE  i = j
      BY DEF Distinct
    <3> DEFINE old(k) == IF k <= n - 1 THEN k ELSE k + 1
    <3>1. /\ old(i) \in DOMAIN q /\ u[i] = q[old(i)]
          /\ old(j) \in DOMAIN q /\ u[j] = q[old(j)]
      <4>1. \A k \in DOMAIN u : old(k) \in DOMAIN q
        BY <1>1, <1>3
      <4>2. \A k \in DOMAIN u : u[k] = q[old(k)]
        BY <1>1, <1>3
      <4> QED BY <4>1, <4>2
    <3>2. old(i) = old(j)
      BY <1>5, <3>1 DEF Distinct
    <3> QED BY <1>1, <1>3, <3>2
  <2> QED BY <2>3, <2>4
<1> QED BY <1>3, <1>4, <1>5 DEF u

-----------------------------------------------------------------------------
(* The parts of the inductive invariant.                                   *)

\* The message in hand belongs to a handler that has not returned.
CurPc == cur # NoMsg => hdl = KE_MESSAGE /\ pc \in {"handler", "sent", "saved_update"}

\* The message scheduler and the handlers it calls run for KE_MESSAGE.
HdlPc == pc \in {"task_schedule", "handler"} => hdl = KE_MESSAGE

\* A task is being updated exactly in the loop of ke_task_saved_update.
UpdPc ==
    /\ upd # NoTask => pc \in {"sent", "saved_update"}
    /\ pc = "saved_update" => upd # NoTask

\* Only messages saved for the task being updated are out of date.
StaleSaved == stale \subseteq {m \in Members(saved) : dest[m] = upd}

\* After a message was taken before a higher event, that event stays set until
\* the scheduler serves it, and no other message is taken before that.
LatePc ==
    late # 0 => /\ late = 1
                /\ \E e \in field : e > KE_MESSAGE
                /\ pc \notin {"task_schedule", "callback"}
                /\ pc \in {"sent", "saved_update"} => hdl = KE_MESSAGE

Control == CurPc /\ HdlPc /\ UpdPc /\ LatePc

IInv ==
    /\ TypeOK /\ QueueIntegrity /\ NoLostWakeup /\ Control /\ StaleSaved
    /\ EventsAwaitClock

\* The steps of the main loop around the event scheduler, and the interrupts
\* that end a deep sleep: they touch neither messages nor tasks.
Passing == RwipSchedule \/ RwipSleep \/ SkipSleep \/ SysHalt \/ WakeUp

Waking == IsrWakeup \/ IsrWakeupEnd

-----------------------------------------------------------------------------
\* Every variable stays in its type, whatever the step.
LEMMA TypeStep ==
    ASSUME TypeOK, [Next]_vars
    PROVE  TypeOK'
<1> USE KernelAssumption DEF TypeOK, Running
<1>1. CASE RunEvent
  <2>1. PICK e \in field : /\ hdl' = e
                           /\ pc' \in {"task_schedule", "callback"}
                           /\ field' \subseteq field
                           /\ late' \in {late, 0}
    BY <1>1 DEF RunEvent
  <2> QED BY <1>1, <2>1 DEF RunEvent, kvars
<1>2. CASE ScheduleDone
  BY <1>2 DEF ScheduleDone, kvars
<1>3. CASE Passing
  BY <1>3 DEF Passing, RwipSchedule, RwipSleep, SkipSleep, SysHalt, WakeUp,
              EndOfPass, kvars
<1>4. CASE Waking
  BY <1>4 DEF Waking, IsrWakeup, IsrWakeupEnd, kvars
<1>5. CASE PopMessage
  <2>1. sent # <<>> => Tail(sent) \in Seq(Msg) /\ Head(sent) \in Msg
    BY PopLemma
  <2>2. late' \in Nat
    BY <1>5 DEF PopMessage
  <2> QED BY <1>5, <2>1, <2>2 DEF PopMessage
<1>7. CASE ClearEvent
  BY <1>7 DEF ClearEvent, kvars
<1>8. CASE SetMessageEvent
  BY <1>8 DEF SetMessageEvent, kvars, TaskCode
<1>9. CASE MoveSaved
  <2>1. PICK i \in DOMAIN saved : /\ saved' = Unlink(saved, i)
                                  /\ sent' = Push(sent, saved[i])
                                  /\ stale' = stale \ {saved[i]}
    BY <1>9 DEF MoveSaved, FirstMatch
  <2>2. saved' \in Seq(Msg) /\ sent' \in Seq(Msg)
    BY <2>1, UnlinkLemma, PushLemma
  <2> QED BY <1>9, <2>1, <2>2 DEF MoveSaved
<1>10. CASE MoveSavedDone
  BY <1>10 DEF MoveSavedDone, kvars, TaskCode
<1>11. CASE ReturnConsumed
  BY <1>11 DEF ReturnConsumed
<1>12. CASE ReturnSaved
  <2>1. saved' \in Seq(Msg)
    BY <1>12, PushLemma DEF ReturnSaved
  <2> QED BY <1>12, <2>1 DEF ReturnSaved
<1>13. CASE ReturnNoFree
  BY <1>13 DEF ReturnNoFree, kvars
<1>14. CASE CallbackReturn
  BY <1>14 DEF CallbackReturn, kvars
<1>15. CASE Keep
  BY <1>15 DEF Keep, kvars
<1>16. CASE Reset
  <2>1. sent' \in Seq(Msg) /\ saved' \in Seq(Msg)
    BY <1>16 DEF Reset
  <2> QED BY <1>16, <2>1 DEF Reset
<1>17. CASE \E m \in Msg, t \in Task : Alloc(m, t)
  BY <1>17 DEF Alloc
<1>18. CASE \E m \in Msg, t \in Task : Send(m, t)
  <2>1. PICK m \in Msg, t \in Task : Send(m, t)
    BY <1>18
  <2>2. sent' \in Seq(Msg)
    BY <2>1, PushLemma DEF Send
  <2> QED BY <2>1, <2>2 DEF Send
<1>19. CASE \E m \in Msg : Free(m)
  BY <1>19 DEF Free
<1>20. CASE \E t \in Task, s \in State : StateSet(t, s)
  <2>1. Members(saved) \subseteq Msg
    BY LenProperties, ElementOfSeq DEF Members, Range
  <2> QED BY <1>20, <2>1 DEF StateSet, kvars
<1>21. CASE \E t \in Task : AddProfile(t)
  BY <1>21 DEF AddProfile, kvars
<1>22. CASE \E e \in Event : IsrSetEvent(e)
  BY <1>22 DEF IsrSetEvent, kvars
<1>23. CASE \E m \in Msg, t \in Task : IsrSend(m, t)
  <2>1. PICK m \in Msg, t \in Task : IsrSend(m, t)
    BY <1>23
  <2>2. sent' \in Seq(Msg)
    BY <2>1, PushLemma DEF IsrSend
  <2> QED BY <2>1, <2>2 DEF IsrSend
<1>24. CASE UNCHANGED vars
  BY <1>24 DEF vars
<1> QED
  BY <1>1, <1>2, <1>3, <1>4, <1>5, <1>7, <1>8, <1>9, <1>10, <1>11,
     <1>12, <1>13, <1>14, <1>15, <1>16, <1>17, <1>18, <1>19, <1>20, <1>21,
     <1>22, <1>23, <1>24
  DEF Next, Scheduler, TaskStep, Interrupt, HandlerReturn, Passing, Waking

\* The type invariant of the kernel holds in every behaviour.
THEOREM TypeCorrect == Spec => []TypeOK
<1>1. Init => TypeOK
  <2> SUFFICES ASSUME Init PROVE TypeOK
    OBVIOUS
  <2>1. dest \in [Msg -> Task] /\ state \in [Task -> State]
    BY KernelAssumption DEF Init
  <2>2. <<>> \in Seq(Msg)
    OBVIOUS
  <2> QED BY <2>1, <2>2, KernelAssumption DEF Init, TypeOK
<1>2. TypeOK /\ [Next]_vars => TypeOK'
  BY TypeStep
<1> QED BY <1>1, <1>2, PTL DEF Spec

-----------------------------------------------------------------------------
\* The steps that link, unlink and free nothing and take no message in hand.
Quiet == UNCHANGED <<sent, saved, live>> /\ cur' \in {cur, NoMsg}

\* The steps that are not quiet, by name.
LEMMA QuietOrNamed ==
    ASSUME [Next]_vars
    PROVE  \/ Quiet
           \/ PopMessage \/ MoveSaved
           \/ ReturnConsumed \/ ReturnSaved \/ Reset
           \/ \E m \in Msg, t \in Task : Alloc(m, t) \/ Send(m, t) \/ IsrSend(m, t)
           \/ \E m \in Msg : Free(m)
<1> USE DEF Quiet, kvars
<1>0. CASE Passing \/ Waking
  BY <1>0 DEF Passing, RwipSchedule, RwipSleep, SkipSleep, SysHalt, WakeUp,
              Waking, IsrWakeup, IsrWakeupEnd
<1>1. CASE RunEvent \/ ScheduleDone
  BY <1>1 DEF RunEvent, ScheduleDone
<1>2. CASE ClearEvent \/ SetMessageEvent \/ MoveSavedDone
  BY <1>2 DEF ClearEvent, SetMessageEvent, MoveSavedDone
<1>3. CASE ReturnNoFree \/ CallbackReturn \/ Keep
  BY <1>3 DEF ReturnNoFree, CallbackReturn, Keep
<1>4. CASE \E t \in Task, s \in State : StateSet(t, s)
  BY <1>4 DEF StateSet
<1>5. CASE \E t \in Task : AddProfile(t)
  BY <1>5 DEF AddProfile
<1>6. CASE \E e \in Event : IsrSetEvent(e)
  BY <1>6 DEF IsrSetEvent
<1>7. CASE UNCHANGED vars
  BY <1>7 DEF vars
<1> QED
  BY <1>0, <1>1, <1>2, <1>3, <1>4, <1>5, <1>6, <1>7
  DEF Next, Scheduler, TaskStep, Interrupt, HandlerReturn, Passing, Waking

\* The linked elements of a queue of messages are messages.
LEMMA QueuedAreMessages ==
    ASSUME TypeOK
    PROVE  Members(sent) \subseteq Msg /\ Members(saved) \subseteq Msg
BY LenProperties, ElementOfSeq DEF TypeOK, Members, Range

\* No step makes two places hold one message block.
LEMMA IntegrityStep ==
    ASSUME TypeOK, QueueIntegrity, [Next]_vars
    PROVE  QueueIntegrity'
<1> USE DEF QueueIntegrity, Queued
<1>0. sent \in Seq(Msg) /\ saved \in Seq(Msg) /\ NoMsg \notin Msg
  BY KernelAssumption DEF TypeOK
<1>1. CASE Quiet
  BY <1>1 DEF Quiet, Members, Distinct
<1>2. CASE PopMessage
  <2>1. CASE sent = <<>>
    BY <1>2, <2>1 DEF PopMessage, Members, Distinct
  <2>2. CASE sent # <<>>
    <3> DEFINE m == Head(sent)
    <3>0. sent' = Tail(sent) /\ Distinct(sent)
      BY <1>2, <2>2 DEF PopMessage
    <3>1. /\ m \in Members(sent)
          /\ Members(sent') = Members(sent) \ {m}
          /\ Distinct(sent')
      BY <1>0, <2>2, <3>0, PopLemma
    <3>2. saved' = saved
      BY <1>2 DEF PopMessage
    <3>3. \/ live' = live /\ cur' = m
          \/ live' = live \ {m} /\ cur' = cur
      BY <1>2, <2>2 DEF PopMessage
    <3> HIDE DEF m
    <3> QED BY <3>1, <3>2, <3>3
  <2> QED BY <2>1, <2>2
<1>3. CASE MoveSaved
  <2>1. PICK i \in DOMAIN saved : /\ saved' = Unlink(saved, i)
                                  /\ sent' = Push(sent, saved[i])
    BY <1>3 DEF MoveSaved, FirstMatch
  <2>2. /\ saved[i] \in Msg /\ saved[i] \in Members(saved)
        /\ Members(saved') = Members(saved) \ {saved[i]}
        /\ Distinct(saved')
    BY <1>0, <2>1, UnlinkLemma
  <2>3. Members(sent') = Members(sent) \union {saved[i]} /\ Distinct(sent')
    <3>1. saved[i] \notin Members(sent)
      BY <2>2
    <3>2. \A m \in Msg : m \notin Members(sent)
             => /\ Members(Push(sent, m)) = Members(sent) \union {m}
                /\ Distinct(Push(sent, m))
      BY <1>0, PushLemma
    <3> QED BY <2>1, <2>2, <3>1, <3>2
  <2>4. live' = live /\ cur' = cur
    BY <1>3 DEF MoveSaved
  <2> QED BY <2>2, <2>3, <2>4
<1>4. CASE ReturnConsumed
  BY <1>4 DEF ReturnConsumed
<1>5. CASE ReturnSaved
  <2>1. cur \in Msg /\ saved' = Push(saved, cur) /\ cur' = NoMsg
    BY <1>5 DEF ReturnSaved, TypeOK
  <2>2. /\ Members(saved') = Members(saved) \union {cur}
        /\ Distinct(saved')
    BY <1>0, <1>5, <2>1, PushLemma DEF ReturnSaved
  <2> QED BY <1>5, <2>1, <2>2 DEF ReturnSaved
<1>6. CASE Reset
  <2>1. Members(<<>>) = {} /\ Distinct(<<>>)
    BY DEF Members, Range, Distinct
  <2> QED BY <1>6, <2>1 DEF Reset
<1>7. ASSUME NEW m \in Msg, NEW t \in Task, Alloc(m, t)
      PROVE  QueueIntegrity'
  BY <1>7 DEF Alloc
<1>8. ASSUME NEW m \in Msg, NEW t \in Task, Send(m, t)
      PROVE  QueueIntegrity'
  <2>1. m \in Held /\ sent' = Push(sent, m)
    BY <1>8 DEF Send
  <2>2. Members(sent') = Members(sent) \union {m} /\ Distinct(sent')
    BY <1>0, <2>1, PushLemma DEF Held
  <2> QED BY <1>8, <2>1, <2>2 DEF Send, Held
<1>9. ASSUME NEW m \in Msg, NEW t \in Task, IsrSend(m, t)
      PROVE  QueueIntegrity'
  <2>1. m \notin live /\ sent' = Push(sent, m)
    BY <1>9 DEF IsrSend
  <2>2. Members(sent') = Members(sent) \union {m} /\ Distinct(sent')
    BY <1>0, <2>1, PushLemma
  <2> QED BY <1>9, <2>1, <2>2 DEF IsrSend
<1>10. ASSUME NEW m \in Msg, Free(m)
       PROVE  QueueIntegrity'
  BY <1>10 DEF Free, Held
<1> QED
  BY QuietOrNamed, <1>1, <1>2, <1>3, <1>4, <1>5, <1>6, <1>7, <1>8, <1>9, <1>10

-----------------------------------------------------------------------------
\* The place of the main loop agrees with what it holds and updates.
LEMMA ControlStep ==
    ASSUME TypeOK, Control, [Next]_vars
    PROVE  Control'
<1> USE DEF Control, CurPc, HdlPc, UpdPc, LatePc, TypeOK
<1>1. CASE RunEvent
  BY <1>1, KernelAssumption DEF RunEvent
<1>0. CASE Passing
  BY <1>0 DEF Passing, RwipSchedule, RwipSleep, SkipSleep, SysHalt, WakeUp,
              EndOfPass
<1>2. CASE ScheduleDone \/ Waking
  BY <1>2 DEF ScheduleDone, Waking, IsrWakeup, IsrWakeupEnd
<1>3. CASE PopMessage
  BY <1>3 DEF PopMessage
<1>4. CASE ClearEvent
  BY <1>4, KernelAssumption DEF ClearEvent
<1>5. CASE SetMessageEvent
  BY <1>5 DEF SetMessageEvent, TaskCode
<1>6. CASE MoveSaved
  BY <1>6 DEF MoveSaved
<1>7. CASE MoveSavedDone
  BY <1>7 DEF MoveSavedDone, TaskCode
<1>8. CASE HandlerReturn
  BY <1>8 DEF HandlerReturn, ReturnConsumed, ReturnSaved, ReturnNoFree
<1>9. CASE CallbackReturn
  BY <1>9 DEF CallbackReturn
<1>10. CASE Keep
  BY <1>10 DEF Keep
<1>11. CASE Reset
  BY <1>11 DEF Reset
<1>12. ASSUME NEW m \in Msg, NEW t \in Task, Alloc(m, t) \/ Send(m, t) \/ IsrSend(m, t)
       PROVE  Control'
  <2>1. CASE Alloc(m, t)
    BY <2>1 DEF Alloc
  <2>2. CASE Send(m, t)
    BY <2>2 DEF Send, InTask
  <2>3. CASE IsrSend(m, t)
    BY <2>3 DEF IsrSend
  <2> QED BY <1>12, <2>1, <2>2, <2>3
<1>13. CASE \E m \in Msg : Free(m)
  BY <1>13 DEF Free
<1>14. CASE \E t \in Task, s \in State : StateSet(t, s)
  BY <1>14, KernelAssumption DEF StateSet, InTask
<1>15. CASE \E t \in Task : AddProfile(t)
  BY <1>15 DEF AddProfile
<1>16. CASE \E e \in Event : IsrSetEvent(e)
  BY <1>16 DEF IsrSetEvent
<1>17. CASE UNCHANGED vars
  BY <1>17 DEF vars
<1> QED
  BY <1>0, <1>1, <1>2, <1>3, <1>4, <1>5, <1>6, <1>7, <1>8, <1>9, <1>10,
     <1>11, <1>12, <1>13, <1>14, <1>15, <1>16, <1>17
  DEF Next, Scheduler, TaskStep, Interrupt, Passing, Waking

-----------------------------------------------------------------------------
\* A waiting message keeps its event.
LEMMA WakeupStep ==
    ASSUME TypeOK, NoLostWakeup, [Next]_vars
    PROVE  NoLostWakeup'
<1> USE DEF NoLostWakeup, kvars
<1>1. CASE RunEvent
  BY <1>1 DEF RunEvent
<1>0. CASE Passing
  BY <1>0 DEF Passing, RwipSchedule, RwipSleep, SkipSleep, SysHalt, WakeUp,
              EndOfPass
<1>2. CASE ScheduleDone \/ Waking
  BY <1>2 DEF ScheduleDone, Waking, IsrWakeup, IsrWakeupEnd
<1>3. CASE PopMessage
  BY <1>3 DEF PopMessage
<1>4. CASE ClearEvent
  BY <1>4 DEF ClearEvent
<1>5. CASE SetMessageEvent
  BY <1>5 DEF SetMessageEvent
<1>6. CASE MoveSaved
  BY <1>6 DEF MoveSaved
<1>7. CASE MoveSavedDone
  BY <1>7 DEF MoveSavedDone
<1>8. CASE HandlerReturn
  BY <1>8 DEF HandlerReturn, ReturnConsumed, ReturnSaved, ReturnNoFree
<1>9. CASE CallbackReturn \/ Keep \/ Reset
  BY <1>9 DEF CallbackReturn, Keep, Reset
<1>10. CASE \E m \in Msg, t \in Task : Alloc(m, t) \/ Send(m, t) \/ IsrSend(m, t)
  BY <1>10 DEF Alloc, Send, IsrSend
<1>11. CASE \E m \in Msg : Free(m)
  BY <1>11 DEF Free
<1>12. CASE \E t \in Task, s \in State : StateSet(t, s)
  BY <1>12 DEF StateSet, InTask
<1>13. CASE \E t \in Task : AddProfile(t)
  BY <1>13 DEF AddProfile
<1>14. CASE \E e \in Event : IsrSetEvent(e)
  BY <1>14 DEF IsrSetEvent
<1>15. CASE UNCHANGED vars
  BY <1>15 DEF vars
<1> QED
  BY <1>0, <1>1, <1>2, <1>3, <1>4, <1>5, <1>6, <1>7, <1>8, <1>9, <1>10,
     <1>11, <1>12, <1>13, <1>14, <1>15
  DEF Next, Scheduler, TaskStep, Interrupt, Passing, Waking

\* What is out of date is saved for the task being updated.
LEMMA StaleStep ==
    ASSUME TypeOK, QueueIntegrity, Control, StaleSaved, [Next]_vars
    PROVE  StaleSaved'
<1> USE DEF StaleSaved, kvars
<1>0. /\ sent \in Seq(Msg) /\ saved \in Seq(Msg) /\ NoTask \notin Task
      /\ dest \in [Msg -> Task] /\ Members(saved) \subseteq live
      /\ Members(saved) \subseteq Msg
  BY KernelAssumption, QueuedAreMessages DEF TypeOK, QueueIntegrity, Queued
<1>1. upd = NoTask => stale = {}
  BY <1>0
<1>2. CASE UNCHANGED <<stale, saved, dest, upd>>
  BY <1>2 DEF Members
<1>3. CASE MoveSaved
  <2>1. PICK i \in DOMAIN saved : /\ saved' = Unlink(saved, i)
                                  /\ stale' = stale \ {saved[i]}
    BY <1>3 DEF MoveSaved, FirstMatch
  <2>2. Members(saved') = Members(saved) \ {saved[i]}
    BY <1>0, <2>1, UnlinkLemma DEF QueueIntegrity
  <2>3. UNCHANGED <<dest, upd>>
    BY <1>3 DEF MoveSaved
  <2> QED BY <2>1, <2>2, <2>3
<1>4. CASE MoveSavedDone
  <2>1. stale = {} /\ stale' = stale
    BY <1>4 DEF MoveSavedDone
  <2> QED BY <2>1
<1>5. CASE ReturnSaved
  <2>1. stale = {} /\ stale' = stale
    BY <1>1, <1>5 DEF ReturnSaved, Control, UpdPc
  <2> QED BY <2>1
<1>6. CASE Reset
  BY <1>6 DEF Reset
<1>7. ASSUME NEW m \in Msg, NEW t \in Task, Alloc(m, t) \/ Send(m, t) \/ IsrSend(m, t)
      PROVE  StaleSaved'
  <2>1. /\ saved' = saved /\ stale' = stale /\ upd' = upd
        /\ m \notin Members(saved) /\ dest' = [dest EXCEPT ![m] = t]
    BY <1>0, <1>7 DEF Alloc, Send, IsrSend, Held
  <2>2. \A n \in Members(saved) : dest'[n] = dest[n]
    BY <1>0, <2>1
  <2> QED BY <2>1, <2>2
<1>8. ASSUME NEW t \in Task, NEW s \in State, StateSet(t, s)
      PROVE  StaleSaved'
  <2>1. stale = {}
    BY <1>1, <1>8 DEF StateSet, InTask, Control, UpdPc
  <2> QED BY <1>8, <2>1 DEF StateSet
<1>9. CASE RunEvent \/ ScheduleDone \/ ClearEvent
  BY <1>2, <1>9 DEF RunEvent, ScheduleDone, ClearEvent
<1>16. CASE Passing
  BY <1>2, <1>16 DEF Passing, RwipSchedule, RwipSleep, SkipSleep, SysHalt, WakeUp
<1>17. CASE Waking
  BY <1>2, <1>17 DEF Waking, IsrWakeup, IsrWakeupEnd
<1>10. CASE PopMessage \/ SetMessageEvent \/ CallbackReturn \/ Keep
  BY <1>2, <1>10 DEF PopMessage, SetMessageEvent, CallbackReturn, Keep
<1>11. CASE ReturnConsumed \/ ReturnNoFree
  BY <1>2, <1>11 DEF ReturnConsumed, ReturnNoFree
<1>12. CASE \E m \in Msg : Free(m)
  BY <1>2, <1>12 DEF Free
<1>13. CASE \E t \in Task : AddProfile(t)
  BY <1>2, <1>13 DEF AddProfile
<1>14. CASE \E e \in Event : IsrSetEvent(e)
  BY <1>2, <1>14 DEF IsrSetEvent
<1>15. CASE UNCHANGED vars
  BY <1>2, <1>15 DEF vars
<1> QED
  BY <1>3, <1>4, <1>5, <1>6, <1>7, <1>8, <1>9, <1>10, <1>11, <1>12, <1>13,
     <1>14, <1>15, <1>16, <1>17
  DEF Next, Scheduler, TaskStep, Interrupt, HandlerReturn, Passing, Waking

\* Only the gate of rwip_schedule leads to the events, and only rwip_sleep,
\* outside them, sets a flag without one being set.
LEMMA AwaitStep ==
    ASSUME TypeOK, EventsAwaitClock, [Next]_vars
    PROVE  EventsAwaitClock'
<1> USE DEF EventsAwaitClock, Running, kvars
<1>1. CASE RwipSchedule
  <2>1. prevent \subseteq {RW_DEEP_SLEEP, RW_WAKE_UP_ONGOING}
    BY DEF TypeOK
  <2> QED BY <1>1, <2>1 DEF RwipSchedule
<1>2. CASE RwipSleep \/ SkipSleep \/ SysHalt \/ WakeUp
  BY <1>2 DEF RwipSleep, SkipSleep, SysHalt, WakeUp, EndOfPass
<1>3. CASE Waking
  BY <1>3 DEF Waking, IsrWakeup, IsrWakeupEnd
<1>4. CASE RunEvent \/ ScheduleDone \/ PopMessage \/ ClearEvent
  BY <1>4 DEF RunEvent, ScheduleDone, PopMessage, ClearEvent
<1>5. CASE SetMessageEvent \/ MoveSaved \/ MoveSavedDone
  BY <1>5 DEF SetMessageEvent, MoveSaved, MoveSavedDone
<1>6. CASE HandlerReturn \/ CallbackReturn \/ Keep \/ Reset
  BY <1>6 DEF HandlerReturn, ReturnConsumed, ReturnSaved, ReturnNoFree,
              CallbackReturn, Keep, Reset
<1>7. CASE \E m \in Msg, t \in Task : Alloc(m, t) \/ Send(m, t) \/ IsrSend(m, t)
  BY <1>7 DEF Alloc, Send, IsrSend, InTask
<1>8. CASE \E m \in Msg : Free(m)
  BY <1>8 DEF Free
<1>9. CASE \E t \in Task, s \in State : StateSet(t, s)
  BY <1>9 DEF StateSet, InTask
<1>10. CASE \E t \in Task : AddProfile(t)
  BY <1>10 DEF AddProfile
<1>11. CASE \E e \in Event : IsrSetEvent(e)
  BY <1>11 DEF IsrSetEvent
<1>12. CASE UNCHANGED vars
  BY <1>12 DEF vars
<1> QED
  BY <1>1, <1>2, <1>3, <1>4, <1>5, <1>6, <1>7, <1>8, <1>9, <1>10, <1>11, <1>12
  DEF Next, Scheduler, TaskStep, Interrupt, Waking

\* The inductive invariant.
THEOREM InductiveInvariant == Spec => []IInv
<1>1. Init => IInv
  <2> SUFFICES ASSUME Init PROVE IInv
    OBVIOUS
  <2>1. dest \in [Msg -> Task] /\ state \in [Task -> State] /\ <<>> \in Seq(Msg)
    BY KernelAssumption DEF Init
  <2>2. TypeOK
    BY <2>1, KernelAssumption DEF Init, TypeOK
  <2>3. Members(<<>>) = {} /\ Distinct(<<>>)
    BY DEF Members, Range, Distinct
  <2>4. QueueIntegrity /\ NoLostWakeup /\ StaleSaved
    BY <2>3 DEF Init, QueueIntegrity, Queued, NoLostWakeup, StaleSaved
  <2>5. Control
    BY DEF Init, Control, CurPc, HdlPc, UpdPc, LatePc
  <2>6. EventsAwaitClock
    BY DEF Init, EventsAwaitClock
  <2> QED BY <2>2, <2>4, <2>5, <2>6 DEF IInv
<1>2. IInv /\ [Next]_vars => IInv'
  BY TypeStep, IntegrityStep, WakeupStep, ControlStep, StaleStep, AwaitStep DEF IInv
<1> QED BY <1>1, <1>2, PTL DEF Spec

\* A message block is in one place only, and no queue holds a freed block.
THEOREM Integrity == Spec => []QueueIntegrity
<1>1. IInv => QueueIntegrity
  BY DEF IInv
<1> QED BY <1>1, InductiveInvariant, PTL

\* Whatever the interleaving of sends with the scheduler, a waiting message has
\* its event set or about to be set.
THEOREM NoWakeupIsLost == Spec => []NoLostWakeup
<1>1. IInv => NoLostWakeup
  BY DEF IInv
<1> QED BY <1>1, InductiveInvariant, PTL

\* No two messages in a row are taken while a higher event is set.
THEOREM PriorityIsBounded == Spec => []PriorityBound
<1>1. IInv => PriorityBound
  BY DEF IInv, TypeOK, Control, LatePc, PriorityBound
<1> QED BY <1>1, InductiveInvariant, PTL

\* Outside ke_task_saved_update no saved message is out of date.
THEOREM SavedIsUpToDate == Spec => []SavedUpToDate
<1>1. IInv => SavedUpToDate
  <2>1. TypeOK => \A m \in Members(saved) : dest[m] \in Task
    BY QueuedAreMessages DEF TypeOK
  <2> QED BY <2>1, KernelAssumption DEF IInv, StaleSaved, SavedUpToDate
<1> QED BY <1>1, InductiveInvariant, PTL

\* No event runs before the clock has been corrected after a deep sleep.
THEOREM EventsWaitForClock == Spec => []EventsAwaitClock
<1>1. IInv => EventsAwaitClock
  BY DEF IInv
<1> QED BY <1>1, InductiveInvariant, PTL

\* The core is never put into deep sleep with a message waiting.
THEOREM NoSleepOnMessage == Spec => NoSleepWithMessage
<1> DEFINE FallsAsleep == RW_DEEP_SLEEP \notin prevent /\ RW_DEEP_SLEEP \in prevent'
<1>1. ASSUME IInv, [Next]_vars, FallsAsleep
      PROVE  sent = <<>>
  <2> USE DEF kvars
  <2>1. prevent' # prevent
    BY <1>1
  <2>2. CASE RwipSleep
    <3>1. pc = "main" /\ field = {} /\ NoLostWakeup
      BY <1>1, <2>1, <2>2 DEF RwipSleep, IInv
    <3> QED BY <3>1 DEF NoLostWakeup
  <2>3. CASE Waking
    BY <1>1, <2>3 DEF Waking, IsrWakeup, IsrWakeupEnd, RW_DEEP_SLEEP,
                      RW_WAKE_UP_ONGOING
  <2>4. CASE Reset
    BY <1>1, <2>4 DEF Reset
  <2>5. RwipSleep \/ Waking \/ Reset
    <3>1. ~RwipSchedule /\ ~SkipSleep /\ ~SysHalt /\ ~WakeUp
      BY <2>1 DEF RwipSchedule, SkipSleep, SysHalt, WakeUp
    <3>2. ~RunEvent /\ ~ScheduleDone /\ ~PopMessage /\ ~ClearEvent
      BY <2>1 DEF RunEvent, ScheduleDone, PopMessage, ClearEvent
    <3>3. ~SetMessageEvent /\ ~MoveSaved /\ ~MoveSavedDone
      BY <2>1 DEF SetMessageEvent, MoveSaved, MoveSavedDone
    <3>4. ~HandlerReturn /\ ~CallbackReturn /\ ~Keep
      BY <2>1 DEF HandlerReturn, ReturnConsumed, ReturnSaved, ReturnNoFree,
                  CallbackReturn, Keep
    <3>5. /\ \A m \in Msg : ~Free(m)
          /\ \A m \in Msg, t \in Task : ~Alloc(m, t) /\ ~Send(m, t) /\ ~IsrSend(m, t)
      BY <2>1 DEF Free, Alloc, Send, IsrSend
    <3>6. /\ \A t \in Task, s \in State : ~StateSet(t, s)
          /\ \A t \in Task : ~AddProfile(t)
          /\ \A e \in Event : ~IsrSetEvent(e)
      BY <2>1 DEF StateSet, AddProfile, IsrSetEvent
    <3> QED BY <1>1, <2>1, <3>1, <3>2, <3>3, <3>4, <3>5, <3>6
            DEF Next, Scheduler, TaskStep, Interrupt, Waking, vars
  <2> QED BY <2>2, <2>3, <2>4, <2>5
<1>2. IInv /\ [Next]_vars => [FallsAsleep => sent = <<>>]_vars
  BY <1>1
<1> QED BY <1>2, InductiveInvariant, PTL DEF Spec, NoSleepWithMessage

-----------------------------------------------------------------------------
(* The kernel implements the mailbox.                                      *)

\* One place per message: the cases of PlaceOf exclude each other.
LEMMA PlaceCases ==
    ASSUME TypeOK, QueueIntegrity, NEW m \in Msg
    PROVE  /\ m \in Members(sent) => PlaceOf(m) = "queued"
           /\ m \in Members(saved) => PlaceOf(m) = "saved"
           /\ m = cur => PlaceOf(m) = "handled"
           /\ m \in Held => PlaceOf(m) = "held"
           /\ m \notin live => PlaceOf(m) = "free"
           /\ \/ m \in Members(sent) \/ m \in Members(saved) \/ m = cur
              \/ m \in Held \/ m \notin live
           /\ m \in Members(sent) \union Members(saved) => m \in live /\ m # cur
           /\ m = cur => m \in live
BY KernelAssumption DEF PlaceOf, Held, QueueIntegrity, Queued, TypeOK

\* The same after a step, and the place of a message that no step touches.
LEMMA PlaceCasesNext ==
    ASSUME TypeOK', QueueIntegrity', NEW m \in Msg
    PROVE  /\ m \in Members(sent') => PlaceOf(m)' = "queued"
           /\ m \in Members(saved') => PlaceOf(m)' = "saved"
           /\ m = cur' => PlaceOf(m)' = "handled"
           /\ m \in live' \ (Members(sent') \union Members(saved') \union {cur'})
                => PlaceOf(m)' = "held"
           /\ m \notin live' => PlaceOf(m)' = "free"
BY KernelAssumption DEF PlaceOf, Held, QueueIntegrity, Queued, TypeOK, Members

\* A step that leaves the membership of a message in the queues, the heap and
\* the handler alone leaves its place.
LEMMA SamePlace ==
    ASSUME NEW m \in Msg,
           m \in Members(sent') <=> m \in Members(sent),
           m \in Members(saved') <=> m \in Members(saved),
           m \in live' <=> m \in live,
           m = cur' <=> m = cur
    PROVE  PlaceOf(m)' = PlaceOf(m)
BY DEF PlaceOf, Held, Members

\* A step that moves one message is a move of the mailbox.
LEMMA OneMoves ==
    ASSUME NEW x \in Msg, NEW from, NEW to,
           PlaceOf(x) = from, PlaceOf(x)' = to,
           \A m \in Msg \ {x} : PlaceOf(m)' = PlaceOf(m)
    PROVE  Mailbox!Move(x, from, to)
BY DEF Mailbox!Move

\* Every step of the kernel is a step of the mailbox or leaves it unchanged.
LEMMA MailboxStep ==
    ASSUME IInv, IInv', [Next]_vars
    PROVE  [Mailbox!Next]_(Mailbox!boxVars)
<1> DEFINE Same(m) == PlaceOf(m)' = PlaceOf(m)
<1> USE DEF IInv
<1>0. /\ sent \in Seq(Msg) /\ saved \in Seq(Msg) /\ NoMsg \notin Msg
      /\ Distinct(sent) /\ Distinct(saved) /\ cur \in Msg \union {NoMsg}
      /\ Members(sent) \subseteq Msg /\ Members(saved) \subseteq Msg
  BY KernelAssumption, QueuedAreMessages DEF TypeOK, QueueIntegrity
<1>1. CASE Quiet
  <2>1. CASE cur' = cur
    <3>1. \A m \in Msg : Same(m)
      BY <1>1, <2>1, SamePlace DEF Quiet, Members
    <3> QED BY <1>1, <3>1 DEF Quiet, Mailbox!boxVars
  <2>2. CASE cur' = NoMsg /\ cur # NoMsg
    <3>1. PICK x \in Msg : x = cur
      BY <1>0, <2>2
    <3>2. x \in live /\ x \notin Members(sent) \union Members(saved)
      BY <2>2, <3>1 DEF QueueIntegrity, Queued
    <3>3. \A m \in Msg \ {x} : Same(m)
      BY <1>0, <1>1, <2>2, <3>1, SamePlace DEF Quiet, Members
    <3>4. PlaceOf(x) = "handled"
      BY <3>1, PlaceCases
    <3>5. PlaceOf(x)' = "held"
      <4>1. x \in live' \ (Members(sent') \union Members(saved') \union {cur'})
        BY <1>0, <1>1, <2>2, <3>2 DEF Quiet, Members
      <4> QED BY <4>1, PlaceCasesNext
    <3>6. Mailbox!Move(x, "handled", "held")
      BY <3>3, <3>4, <3>5, OneMoves
    <3> QED BY <1>1, <3>6 DEF Quiet, Mailbox!Next, Mailbox!Finish
  <2> QED BY <1>1, <2>1, <2>2 DEF Quiet
<1>2. CASE PopMessage
  <2>1. CASE sent = <<>>
    <3>1. UNCHANGED <<sent, saved, live, cur>>
      BY <1>2, <2>1 DEF PopMessage
    <3>2. \A m \in Msg : Same(m)
      BY <3>1, SamePlace DEF Members
    <3> QED BY <3>1, <3>2 DEF Mailbox!boxVars
  <2>2. CASE sent # <<>>
    <3>1. PICK x \in Msg : x = Head(sent)
      BY <1>0, <2>2, PopLemma
    <3>2. /\ sent' = Tail(sent) /\ saved' = saved /\ cur = NoMsg
          /\ \/ live' = live /\ cur' = x
             \/ live' = live \ {x} /\ cur' = cur
      BY <1>2, <2>2, <3>1 DEF PopMessage, Control, CurPc
    <3>3. x \in Members(sent) /\ Members(sent') = Members(sent) \ {x}
      BY <1>0, <2>2, <3>1, <3>2, PopLemma
    <3>4. \A m \in Msg \ {x} : Same(m)
      BY <1>0, <3>2, <3>3, SamePlace DEF Members
    <3>5. PlaceOf(x) = "queued"
      BY <3>3, PlaceCases
    <3>6. PlaceOf(x)' = "handled" \/ PlaceOf(x)' = "free"
      <4>1. x = cur' \/ x \notin live'
        BY <3>2
      <4> QED BY <4>1, PlaceCasesNext
    <3>7. \E to \in {"handled", "free"} : Mailbox!Move(x, "queued", to)
      BY <3>4, <3>5, <3>6, OneMoves
    <3> QED BY <2>2, <3>1, <3>2, <3>7 DEF Mailbox!Next, Mailbox!Deliver
  <2> QED BY <2>1, <2>2
<1>3. CASE MoveSaved
  <2>1. PICK i \in DOMAIN saved : /\ saved' = Unlink(saved, i)
                                  /\ sent' = Push(sent, saved[i])
    BY <1>3 DEF MoveSaved, FirstMatch
  <2>2. PICK x \in Msg : x = saved[i]
    BY <1>0, <2>1, UnlinkLemma
  <2>3. x \in Members(saved) /\ Members(saved') = Members(saved) \ {x}
    BY <1>0, <2>1, <2>2, UnlinkLemma
  <2>4. sent' = Append(sent, x) /\ Members(sent') = Members(sent) \union {x}
    BY <1>0, <2>1, <2>2, PushLemma DEF Push
  <2>5. live' = live /\ cur' = cur
    BY <1>3 DEF MoveSaved
  <2>6. \A m \in Msg \ {x} : Same(m)
    BY <2>3, <2>4, <2>5, SamePlace
  <2>7. PlaceOf(x) = "saved"
    BY <2>3, PlaceCases
  <2>8. PlaceOf(x)' = "queued"
    BY <2>4, PlaceCasesNext
  <2>9. Mailbox!Move(x, "saved", "queued")
    BY <2>6, <2>7, <2>8, OneMoves
  <2> QED BY <2>4, <2>9 DEF Mailbox!Next, Mailbox!Enqueue
<1>4. CASE ReturnConsumed \/ ReturnSaved
  <2>1. PICK x \in Msg : x = cur
    BY <1>0, <1>4 DEF ReturnConsumed, ReturnSaved
  <2>2. /\ cur' = NoMsg /\ sent' = sent
        /\ x \in live /\ x \notin Members(sent) \union Members(saved)
    BY <1>0, <1>4, <2>1 DEF ReturnConsumed, ReturnSaved, QueueIntegrity, Queued
  <2>3. \/ saved' = saved /\ live' = live \ {x}
        \/ saved' = Push(saved, x) /\ live' = live
    BY <1>4, <2>1 DEF ReturnConsumed, ReturnSaved
  <2>4. Members(Push(saved, x)) = Members(saved) \union {x}
    BY <1>0, PushLemma
  <2>5. \A m \in Msg \ {x} : Same(m)
    BY <1>0, <2>1, <2>2, <2>3, <2>4, SamePlace DEF Members
  <2>6. PlaceOf(x) = "handled"
    BY <2>1, PlaceCases
  <2>7. PlaceOf(x)' = "free" \/ PlaceOf(x)' = "saved"
    <3>1. x \notin live' \/ x \in Members(saved')
      BY <2>3, <2>4
    <3> QED BY <3>1, PlaceCasesNext
  <2>8. \E to \in {"free", "held", "saved"} : Mailbox!Move(x, "handled", to)
    BY <2>5, <2>6, <2>7, OneMoves
  <2> QED BY <2>2, <2>8 DEF Mailbox!Next, Mailbox!Finish
<1>5. CASE Reset
  <2>1. /\ sent' = <<>> /\ saved' = <<>> /\ cur' = cur
        /\ live' = live \ (Members(sent) \union Members(saved))
    BY <1>5 DEF Reset
  <2>2. Members(<<>>) = {}
    BY DEF Members, Range
  <2>3. ASSUME NEW m \in Msg
        PROVE  PlaceOf(m)' = IF PlaceOf(m) \in {"queued", "saved"}
                             THEN "free" ELSE PlaceOf(m)
    <3>1. CASE m \in Members(sent) \union Members(saved)
      BY <2>1, <3>1, PlaceCases, PlaceCasesNext
    <3>2. CASE m \notin Members(sent) \union Members(saved)
      <4>1. Same(m)
        BY <2>1, <2>2, <3>2, SamePlace
      <4>2. PlaceOf(m) \notin {"queued", "saved"}
        BY <3>2, PlaceCases
      <4> QED BY <4>1, <4>2
    <3> QED BY <3>1, <3>2
  <2> QED BY <2>1, <2>3 DEF Mailbox!Next, Mailbox!Flush
<1>6. ASSUME NEW x \in Msg, NEW t \in Task, Alloc(x, t)
      PROVE  Mailbox!Next
  <2>1. x \notin live /\ live' = live \union {x} /\ UNCHANGED <<sent, saved, cur>>
    BY <1>6 DEF Alloc
  <2>2. \A m \in Msg \ {x} : Same(m)
    BY <2>1, SamePlace DEF Members
  <2>3. x \notin Members(sent) \union Members(saved) /\ x # cur
    BY <2>1, PlaceCases
  <2>4. PlaceOf(x) = "free" /\ PlaceOf(x)' = "held"
    BY <2>1, <2>3, PlaceCases, PlaceCasesNext DEF Members
  <2> QED BY <2>1, <2>2, <2>4, OneMoves DEF Mailbox!Next, Mailbox!Allocate
<1>7. ASSUME NEW x \in Msg, Free(x)
      PROVE  Mailbox!Next
  <2>1. x \in Held /\ live' = live \ {x} /\ UNCHANGED <<sent, saved, cur>>
    BY <1>7 DEF Free
  <2>2. \A m \in Msg \ {x} : Same(m)
    BY <2>1, SamePlace DEF Members
  <2>3. PlaceOf(x) = "held" /\ PlaceOf(x)' = "free"
    BY <2>1, PlaceCases, PlaceCasesNext
  <2> QED BY <2>1, <2>2, <2>3, OneMoves DEF Mailbox!Next, Mailbox!Release
<1>8. ASSUME NEW x \in Msg, NEW t \in Task, Send(x, t) \/ IsrSend(x, t)
      PROVE  Mailbox!Next
  <2>1. /\ \/ x \in Held /\ live' = live
           \/ x \notin live /\ live' = live \union {x}
        /\ sent' = Append(sent, x) /\ UNCHANGED <<saved, cur>>
    BY <1>8 DEF Send, IsrSend, Push
  <2>2. Members(sent') = Members(sent) \union {x}
    BY <1>0, <2>1, PushLemma DEF Push
  <2>3. \A m \in Msg \ {x} : Same(m)
    BY <2>1, <2>2, SamePlace DEF Members
  <2>4. PlaceOf(x) \in {"held", "free"} /\ PlaceOf(x)' = "queued"
    BY <2>1, <2>2, PlaceCases, PlaceCasesNext
  <2>5. \E from \in {"held", "free", "saved"} : Mailbox!Move(x, from, "queued")
    BY <2>3, <2>4, OneMoves
  <2> QED BY <2>1, <2>5 DEF Mailbox!Next, Mailbox!Enqueue
<1> QED
  BY QuietOrNamed, <1>1, <1>2, <1>3, <1>4, <1>5, <1>6, <1>7, <1>8

\* The kernel implements the mailbox specification.
THEOREM KernelImplementsMailbox == Spec => ImplementsMailbox
<1>1. Init => Mailbox!Init
  <2> SUFFICES ASSUME Init PROVE Mailbox!Init
    OBVIOUS
  <2>1. \A m \in Msg : PlaceOf(m) = "free"
    BY KernelAssumption DEF Init, PlaceOf, Held, Members, Range
  <2> QED BY <2>1 DEF Init, Mailbox!Init
<1>2. IInv /\ IInv' /\ [Next]_vars => [Mailbox!Next]_(Mailbox!boxVars)
  BY MailboxStep
<1> QED BY <1>1, <1>2, InductiveInvariant, PTL DEF Spec, ImplementsMailbox, Mailbox!Spec

-----------------------------------------------------------------------------
(* Messages keep their order.                                              *)

\* A link at the end, an unlink anywhere and an emptied queue respect the order.
LEMMA FifoPush ==
    ASSUME NEW S, NEW q \in Seq(S), NEW e \in S, e \notin Members(q)
    PROVE  Fifo(q, Push(q, e))
<1> DEFINE p == Push(q, e)
<1>1. /\ p \in Seq(S) /\ Len(p) = Len(q) + 1
      /\ \A i \in 1 .. Len(q) : p[i] = q[i]
      /\ p[Len(q) + 1] = e
  BY AppendProperties DEF Push
<1>2. /\ Len(q) \in Nat /\ DOMAIN q = 1 .. Len(q)
      /\ DOMAIN p = 1 .. Len(q) + 1
  BY <1>1, LenProperties
<1> HIDE DEF p
<1>3. \A m, n : Before(q, m, n) => Before(p, m, n)
  BY <1>1, <1>2 DEF Before
<1>4. \A m \in Members(q) : Before(p, m, e)
  <2> SUFFICES ASSUME NEW i \in DOMAIN q PROVE Before(p, q[i], e)
    BY DEF Members, Range
  <2> QED BY <1>1, <1>2 DEF Before
<1>5. \A n \in Members(p) : n \notin Members(q) => n = e
  BY PushLemma DEF p
<1> QED BY <1>3, <1>4, <1>5 DEF Fifo, p

LEMMA FifoTail ==
    ASSUME NEW S, NEW q \in Seq(S), q # <<>>, Distinct(q)
    PROVE  Fifo(q, Tail(q))
<1> DEFINE t == Tail(q)
<1>1. /\ t \in Seq(S) /\ Len(t) = Len(q) - 1
      /\ \A i \in 1 .. Len(t) : t[i] = q[i + 1]
  BY HeadTailProperties
<1>2. Len(q) \in Nat \ {0} /\ DOMAIN q = 1 .. Len(q) /\ DOMAIN t = 1 .. Len(q) - 1
  BY <1>1, LenProperties, EmptySeq
<1> HIDE DEF t
<1>3. Members(t) \subseteq Members(q)
  BY PopLemma DEF t
<1>4. ASSUME NEW m \in Members(t), NEW n \in Members(t), Before(q, m, n)
      PROVE  Before(t, m, n)
  <2>1. PICK i \in DOMAIN q, j \in DOMAIN q : i < j /\ q[i] = m /\ q[j] = n
    BY <1>4 DEF Before
  <2>2. PICK k \in DOMAIN t : t[k] = m
    BY DEF Members, Range
  <2>3. i = k + 1
    BY <1>1, <1>2, <2>1, <2>2 DEF Distinct
  <2>4. k \in DOMAIN t /\ j - 1 \in DOMAIN t /\ k < j - 1 /\ t[j - 1] = n
    BY <1>1, <1>2, <2>1, <2>2, <2>3
  <2> QED BY <2>2, <2>4 DEF Before
<1> QED BY <1>3, <1>4 DEF Fifo, t

LEMMA FifoUnlink ==
    ASSUME NEW S, NEW q \in Seq(S), NEW k \in DOMAIN q, Distinct(q)
    PROVE  Fifo(q, Unlink(q, k))
<1> DEFINE u == Unlink(q, k)
<1>1. /\ Len(q) \in Nat /\ DOMAIN q = 1 .. Len(q)
      /\ DOMAIN u = 1 .. Len(q) - 1
      /\ \A i \in 1 .. Len(q) - 1 : u[i] = IF i <= k - 1 THEN q[i] ELSE q[i + 1]
  BY UnlinkIndex
<1>2. Members(u) = Members(q) \ {q[k]}
  BY UnlinkLemma
<1> HIDE DEF u
<1>3. ASSUME NEW m \in Members(u), NEW n \in Members(u), Before(q, m, n)
      PROVE  Before(u, m, n)
  <2>1. PICK i \in DOMAIN q, j \in DOMAIN q : i < j /\ q[i] = m /\ q[j] = n
    BY <1>3 DEF Before
  <2>2. i # k /\ j # k
    BY <1>2, <2>1
  <2> DEFINE new(a) == IF a <= k - 1 THEN a ELSE a - 1
  <2>3. \A a \in DOMAIN q : a # k => new(a) \in DOMAIN u /\ u[new(a)] = q[a]
    BY <1>1
  <2>4. new(i) < new(j)
    BY <1>1, <2>1, <2>2
  <2> HIDE DEF new
  <2> QED BY <2>1, <2>2, <2>3, <2>4 DEF Before
<1> QED BY <1>2, <1>3 DEF Fifo, u

LEMMA FifoSame ==
    ASSUME NEW q
    PROVE  Fifo(q, q) /\ Fifo(q, <<>>)
BY DEF Fifo, Members, Range

\* Handled in the order of the sends, reactivated in the order of the saves.
THEOREM OrderIsKept == Spec => OrderKept
<1> DEFINE SavedFirst ==
      \A m, n \in Msg : Before(saved, m, n) /\ dest[m] = dest[n]
          => m \notin Members(saved') \/ Before(saved', m, n)
    Ordered == Fifo(sent, sent') /\ Fifo(saved, saved') /\ SavedFirst
<1>1. ASSUME IInv, [Next]_vars
      PROVE  Ordered
  <2>0. /\ sent \in Seq(Msg) /\ saved \in Seq(Msg) /\ NoMsg \notin Msg
        /\ Distinct(sent) /\ Distinct(saved) /\ cur \in Msg \union {NoMsg}
        /\ Members(sent) \union Members(saved) \subseteq live
    BY <1>1, KernelAssumption DEF IInv, TypeOK, QueueIntegrity, Queued
  <2>1. CASE UNCHANGED <<sent, saved>>
    BY <2>1, FifoSame DEF Members, Before
  <2>2. CASE PopMessage
    <3>1. saved' = saved /\ (sent' = sent \/ (sent # <<>> /\ sent' = Tail(sent)))
      BY <2>2 DEF PopMessage
    <3> QED BY <2>0, <3>1, FifoSame, FifoTail
  <2>3. CASE MoveSaved
    <3>1. PICK i \in FirstMatch(saved, {m \in Msg : dest[m] = upd}) :
            saved' = Unlink(saved, i) /\ sent' = Push(sent, saved[i])
      BY <2>3 DEF MoveSaved
    <3>2. /\ i \in DOMAIN saved /\ dest[saved[i]] = upd
          /\ \A j \in 1 .. i - 1 : saved[j] \in Msg => dest[saved[j]] # upd
      BY <3>1 DEF FirstMatch
    <3>3. /\ saved[i] \in Msg /\ saved[i] \in Members(saved)
          /\ Members(saved') = Members(saved) \ {saved[i]}
      BY <2>0, <3>1, <3>2, UnlinkLemma
    <3>4. saved[i] \notin Members(sent)
      BY <1>1, <3>3 DEF IInv, QueueIntegrity
    <3>5. Fifo(sent, sent') /\ Fifo(saved, saved')
      BY <2>0, <3>1, <3>2, <3>3, <3>4, FifoPush, FifoUnlink
    <3>6. ASSUME NEW m \in Msg, NEW n \in Msg, Before(saved, m, n), dest[m] = dest[n],
                 m \in Members(saved')
          PROVE  Before(saved', m, n)
      <4>1. PICK a \in DOMAIN saved, b \in DOMAIN saved :
              a < b /\ saved[a] = m /\ saved[b] = n
        BY <3>6 DEF Before
      <4>2. DOMAIN saved = 1 .. Len(saved) /\ Len(saved) \in Nat
        BY <2>0, LenProperties
      <4>3. n # saved[i]
        <5> SUFFICES ASSUME n = saved[i] PROVE FALSE
          OBVIOUS
        <5>1. b = i
          BY <2>0, <3>2, <4>1 DEF Distinct
        <5> QED BY <3>2, <3>6, <4>1, <4>2, <5>1
      <4>4. n \in Members(saved')
        BY <3>3, <4>1, <4>3 DEF Members, Range
      <4> QED BY <3>5, <3>6, <4>4 DEF Fifo
    <3> QED BY <3>5, <3>6
  <2>4. CASE ReturnSaved
    <3>1. /\ sent' = sent /\ saved' = Push(saved, cur)
          /\ cur \in Msg /\ cur \notin Members(saved)
      BY <1>1, <2>0, <2>4 DEF ReturnSaved, IInv, QueueIntegrity, Queued
    <3>2. Fifo(sent, sent') /\ Fifo(saved, saved')
      BY <2>0, <3>1, FifoSame, FifoPush
    <3>3. Members(saved') = Members(saved) \union {cur}
      <4>1. \A m \in Msg : Members(Push(saved, m)) = Members(saved) \union {m}
        BY <2>0, PushLemma
      <4> QED BY <3>1, <4>1
    <3>4. \A m, n : Before(saved, m, n) => m \in Members(saved) /\ n \in Members(saved)
      BY DEF Before, Members, Range
    <3> QED BY <3>2, <3>3, <3>4 DEF Fifo
  <2>5. CASE Reset
    <3>1. sent' = <<>> /\ saved' = <<>>
      BY <2>5 DEF Reset
    <3>2. Members(<<>>) = {}
      BY DEF Members, Range
    <3> QED BY <3>1, <3>2, FifoSame
  <2>6. ASSUME NEW m \in Msg, NEW t \in Task, Send(m, t) \/ IsrSend(m, t)
        PROVE  Ordered
    <3>1. saved' = saved /\ sent' = Push(sent, m) /\ m \notin Members(sent)
      BY <2>0, <2>6 DEF Send, IsrSend, Held
    <3>2. Fifo(sent, sent')
      BY <2>0, <3>1, FifoPush
    <3> QED BY <3>1, <3>2, FifoSame
  <2>7. \/ UNCHANGED <<sent, saved>>
        \/ PopMessage \/ MoveSaved \/ ReturnSaved \/ Reset
        \/ \E m \in Msg, t \in Task : Send(m, t) \/ IsrSend(m, t)
    BY <1>1, QuietOrNamed DEF Quiet, ReturnConsumed, Alloc, Free
  <2> QED BY <2>1, <2>2, <2>3, <2>4, <2>5, <2>6, <2>7
<1>2. IInv /\ [Next]_vars => [Ordered]_vars
  BY <1>1
<1> QED BY <1>2, InductiveInvariant, PTL DEF Spec, OrderKept
=============================================================================
