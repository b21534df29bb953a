-------------------------- MODULE KeTimer_proofs --------------------------
(***************************************************************************)
(* Theorems about KeTimer for every clock range, margin, delay and number  *)
(* of timers: type correctness, and that the comparator follows the first  *)
(* timer.  The inductive invariant says it for every point of the main     *)
(* loop at which ke_timer.c has armed the comparator (Armed), and where    *)
(* the queue cannot be empty (Busy).                                       *)
(*                                                                         *)
(* And that the timers implement KeTimerService.  The comparisons of clock *)
(* values are right for moments less than half the range apart, so that    *)
(* the queue stands in the order of the moments that were asked for, each  *)
(* one what the field time says modulo M (Punctual).                       *)
(***************************************************************************)
EXTENDS KeTimer, SequenceTheorems, WellFoundedInduction, TLAPS

-----------------------------------------------------------------------------
(* What the operators on queues do to the members and to the head of a     *)
(* queue.                                                                  *)

\* Taking the first element removes it, and only it if there are no doubles.
LEMMA PopLemma ==
    ASSUME NEW S, NEW q \in Seq(S), q # <<>>
    PROVE  /\ Head(q) \in S /\ Tail(q) \in Seq(S)
           /\ Head(q) \in Members(q)
           /\ Members(Tail(q)) \subseteq Members(q)
           /\ Distinct(q) => /\ Members(Tail(q)) = Members(q) \ {Head(q)}
                             /\ Distinct(Tail(q))
<1> DEFINE t == Tail(q)
<1>1. /\ Head(q) \in S /\ t \in Seq(S) /\ Len(t) = Len(q) - 1
      /\ \A i \in 1 .. Len(t) : t[i] = q[i + 1]
  BY HeadTailProperties
<1>2. Len(q) \in Nat \ {0} /\ DOMAIN q = 1 .. Len(q) /\ DOMAIN t = 1 .. Len(q) - 1
  BY <1>1, LenProperties, EmptySeq
<1>3. Head(q) = q[1]
  BY <1>2
<1> HIDE DEF t
<1>4. \A i \in DOMAIN t : i + 1 \in DOMAIN q /\ i + 1 # 1 /\ t[i] = q[i + 1]
  BY <1>1, <1>2
<1>5. Head(q) \in Members(q)
  BY <1>2, <1>3 DEF Members, Range
<1>6. Members(t) \subseteq Members(q)
  BY <1>4 DEF Members, Range
<1>7. ASSUME Distinct(q)
      PROVE  Members(t) = Members(q) \ {Head(q)} /\ Distinct(t)
  <2>1. Members(t) \subseteq Members(q) \ {Head(q)}
    BY <1>2, <1>3, <1>4, <1>7 DEF Members, Range, Distinct
  <2>2. ASSUME NEW i \in DOMAIN q, q[i] # q[1]
        PROVE  q[i] \in Members(t)
    <3>1. i - 1 \in DOMAIN t /\ t[i - 1] = q[i]
      BY <1>1, <1>2, <2>2
    <3> QED BY <3>1 DEF Members, Range
  <2>3. Members(q) \ {Head(q)} \subseteq Members(t)
    BY <1>3, <2>2 DEF Members, Range
  <2>4. Distinct(t)
    BY <1>2, <1>4, <1>7 DEF Distinct
  <2> QED BY <2>1, <2>3, <2>4
<1> QED BY <1>1, <1>5, <1>6, <1>7 DEF t

\* Unlinking the element at position n closes the gap.
LEMMA UnlinkIndex ==
    ASSUME NEW S, NEW q \in Seq(S), NEW n \in DOMAIN q
    PROVE  /\ Unlink(q, n) \in Seq(S)
           /\ Len(q) \in Nat /\ DOMAIN q = 1 .. Len(q)
           /\ DOMAIN Unlink(q, n) = 1 .. Len(q) - 1
           /\ \A i \in 1 .. Len(q) - 1 :
                Unlink(q, n)[i] = IF i <= n - 1 THEN q[i] ELSE q[i + 1]
<1> DEFINE a == SubSeq(q, 1, n - 1)
           b == SubSeq(q, n + 1, Len(q))
           u == Unlink(q, n)
<1>1. Len(q) \in Nat /\ DOMAIN q = 1 .. Len(q) /\ n \in 1 .. Len(q)
  BY LenProperties
<1>2. \A i \in 1 .. Len(q) : q[i] \in S
  BY ElementOfSeq
<1>3. /\ a \in Seq(S) /\ Len(a) = n - 1
      /\ \A i \in 1 .. n - 1 : a[i] = q[i]
  <2>1. \A i \in 1 .. n - 1 : q[i] \in S
    BY <1>1, <1>2
  <2>2. /\ a \in Seq(S)
        /\ Len(a) = IF 1 <= n - 1 THEN n - 1 - 1 + 1 ELSE 0
        /\ \A i \in 1 .. (n - 1) - 1 + 1 : a[i] = q[1 + i - 1]
    BY <1>1, <2>1, SubSeqProperties, 1 \in Int, n - 1 \in Int
  <2> HIDE DEF a
  <2> QED BY <1>1, <2>2
<1>4. /\ b \in Seq(S) /\ Len(b) = Len(q) - n
      /\ \A i \in 1 .. Len(q) - n : b[i] = q[n + i]
  <2>1. \A i \in n + 1 .. Len(q) : q[i] \in S
    BY <1>1, <1>2
  <2>2. /\ b \in Seq(S)
        /\ Len(b) = IF n + 1 <= Len(q) THEN Len(q) - (n + 1) + 1 ELSE 0
        /\ \A i \in 1 .. Len(q) - (n + 1) + 1 : b[i] = q[n + 1 + i - 1]
    BY <1>1, <2>1, SubSeqProperties, n + 1 \in Int, Len(q) \in Int
  <2> HIDE DEF b
  <2>3. Len(b) = Len(q) - n
    BY <1>1, <2>2
  <2>4. ASSUME NEW i \in 1 .. Len(q) - n
        PROVE  b[i] = q[n + i]
    <3>1. i \in 1 .. Len(q) - (n + 1) + 1 /\ n + 1 + i - 1 = n + i
      BY <1>1
    <3> QED BY <2>2, <3>1
  <2> QED BY <2>2, <2>3, <2>4
<1> HIDE DEF a, b
<1>5. u = a \o b
  BY DEF u, a, b, Unlink
<1>6. /\ u \in Seq(S) /\ Len(u) = Len(q) - 1 /\ DOMAIN u = 1 .. Len(q) - 1
      /\ \A i \in 1 .. Len(q) - 1 : u[i] = IF i <= n - 1 THEN q[i] ELSE q[i + 1]
  <2>1. /\ a \o b \in Seq(S) /\ Len(a \o b) = Len(a) + Len(b)
        /\ \A i \in 1 .. Len(a) + Len(b) :
             (a \o b)[i] = IF i <= Len(a) THEN a[i] ELSE b[i - Len(a)]
    BY <1>3, <1>4, ConcatProperties
  <2> HIDE DEF u
  <2>2. u \in Seq(S) /\ Len(u) = Len(q) - 1
    BY <1>1, <1>3, <1>4, <1>5, <2>1
  <2>3. DOMAIN u = 1 .. Len(q) - 1
    BY <2>2, LenProperties
  <2>4. ASSUME NEW i \in 1 .. Len(q) - 1
        PROVE  u[i] = IF i <= n - 1 THEN q[i] ELSE q[i + 1]
    <3>1. CASE i <= n - 1
      BY <1>1, <1>3, <1>4, <1>5, <2>1, <3>1
    <3>2. CASE i > n - 1
      <4>1. u[i] = b[i - (n - 1)] /\ i - (n - 1) \in 1 .. Len(q) - n
        <5>1. i \in 1 .. Len(a) + Len(b) /\ ~(i <= Len(a))
          BY <1>1, <1>3, <1>4, <3>2
        <5>2. u[i] = b[i - Len(a)]
          BY <1>5, <2>1, <5>1
        <5> QED BY <1>1, <1>3, <3>2, <5>2
      <4>2. b[i - (n - 1)] = q[n + (i - (n - 1))] /\ n + (i - (n - 1)) = i + 1
        BY <1>1, <1>4, <4>1
      <4> QED BY <1>1, <3>2, <4>1, <4>2
    <3> QED BY <1>1, <3>1, <3>2
  <2> QED BY <2>2, <2>3, <2>4
<1> QED BY <1>1, <1>6

\* Unlinking the element at a position removes it, and only it if there are
\* no doubles.
LEMMA UnlinkLemma ==
    ASSUME NEW S, NEW q \in Seq(S), NEW n \in DOMAIN q
    PROVE  /\ q[n] \in S /\ q[n] \in Members(q)
           /\ Unlink(q, n) \in Seq(S)
           /\ Distinct(q) => /\ Members(Unlink(q, n)) = Members(q) \ {q[n]}
                             /\ Distinct(Unlink(q, n))
<1> DEFINE u == Unlink(q, n)
<1>1. Len(q) \in Nat /\ DOMAIN q = 1 .. Len(q) /\ n \in 1 .. Len(q)
  BY LenProperties
<1>2. \A i \in 1 .. Len(q) : q[i] \in S
  BY ElementOfSeq
<1>3. /\ u \in Seq(S) /\ DOMAIN u = 1 .. Len(q) - 1
      /\ \A i \in 1 .. Len(q) - 1 : u[i] = IF i <= n - 1 THEN q[i] ELSE q[i + 1]
  BY UnlinkIndex
<1> HIDE DEF u
<1>4. q[n] \in S /\ q[n] \in Members(q)
  BY <1>1, <1>2 DEF Members, Range
<1>5. ASSUME Distinct(q)
      PROVE  Members(u) = Members(q) \ {q[n]} /\ Distinct(u)
  <2>1. ASSUME NEW i \in DOMAIN u
        PROVE  u[i] \in Members(q) \ {q[n]}
    <3>1. PICK j \in DOMAIN q : u[i] = q[j] /\ j # n
      <4>1. i \in Nat /\ i \in 1 .. Len(q) - 1
        BY <1>1, <1>3
      <4>2. CASE i <= n - 1
        <5>1. i \in DOMAIN q /\ i # n
          BY <1>1, <4>1, <4>2
        <5>2. u[i] = q[i]
          BY <1>3, <4>1, <4>2
        <5> QED BY <5>1, <5>2
      <4>3. CASE ~(i <= n - 1)
        <5>1. i + 1 \in DOMAIN q /\ i + 1 # n
          BY <1>1, <4>1, <4>3
        <5>2. u[i] = q[i + 1]
          BY <1>3, <4>1, <4>3
        <5> QED BY <5>1, <5>2
      <4> QED BY <4>2, <4>3
    <3> QED BY <1>1, <1>5, <3>1 DEF Members, Range, Distinct
  <2>2. ASSUME NEW j \in DOMAIN q, q[j] # q[n]
        PROVE  q[j] \in Members(u)
    <3>1. PICK i \in DOMAIN u : u[i] = q[j]
      <4>1. CASE j < n
        BY <1>1, <1>3, <2>2, <4>1
      <4>2. CASE j > n
        <5>1. j - 1 \in DOMAIN u /\ u[j - 1] = q[j]
          BY <1>1, <1>3, <2>2, <4>2
        <5> QED BY <5>1
      <4> QED BY <1>1, <2>2, <4>1, <4>2
    <3> QED BY <3>1 DEF Members, Range
  <2>3. Members(u) = Members(q) \ {q[n]}
    BY <2>1, <2>2 DEF Members, Range
  <2>4. Distinct(u)
    <3> SUFFICES ASSUME NEW i \in DOMAIN u, NEW j \in DOMAIN u, u[i] = u[j]
                 PROVE  i = j
      BY DEF Distinct
    <3> DEFINE old(k) == IF k <= n - 1 THEN k ELSE k + 1
    <3>1. /\ old(i) \in DOMAIN q /\ u[i] = q[old(i)]
          /\ old(j) \in DOMAIN q /\ u[j] = q[old(j)]
      <4>1. \A k \in DOMAIN u : old(k) \in DOMAIN q
        BY <1>1, <1>3
      <4>2. \A k \in DOMAIN u : u[k] = q[old(k)]
        BY <1>1, <1>3
      <4> QED BY <4>1, <4>2
    <3>2. old(i) = old(j)
      BY <1>5, <3>1 DEF Distinct
    <3> QED BY <1>1, <1>3, <3>2
  <2> QED BY <2>3, <2>4
<1> QED BY <1>3, <1>4, <1>5 DEF u

\* Extracting leaves the head alone unless it is the element looked for.
LEMMA ExtractLemma ==
    ASSUME NEW T, NEW q \in Seq(T), NEW S
    PROVE  /\ Extract(q, S) \in Seq(T)
           /\ q # <<>> /\ Head(q) \notin S =>
                /\ Extract(q, S) # <<>>
                /\ Head(Extract(q, S)) = Head(q)
<1>1. Len(q) \in Nat /\ DOMAIN q = 1 .. Len(q)
  BY LenProperties
<1>2. CASE FirstMatch(q, S) = {}
  BY <1>2 DEF Extract
<1>3. CASE FirstMatch(q, S) # {}
  <2>1. PICK n \in FirstMatch(q, S) : Extract(q, S) = Unlink(q, n)
    BY <1>3 DEF Extract
  <2>2. n \in DOMAIN q /\ q[n] \in S
    BY <2>1 DEF FirstMatch
  <2>3. /\ Unlink(q, n) \in Seq(T)
        /\ DOMAIN Unlink(q, n) = 1 .. Len(q) - 1
        /\ \A i \in 1 .. Len(q) - 1 :
             Unlink(q, n)[i] = IF i <= n - 1 THEN q[i] ELSE q[i + 1]
    BY <2>2, UnlinkIndex
  <2>4. ASSUME q # <<>>, Head(q) \notin S
        PROVE  Unlink(q, n) # <<>> /\ Head(Unlink(q, n)) = Head(q)
    <3>1. Head(q) = q[1] /\ 1 \in DOMAIN q
      BY <1>1, <2>4, EmptySeq
    <3>2. n # 1 /\ n \in 1 .. Len(q)
      BY <1>1, <2>2, <2>4, <3>1
    <3>3. 1 \in DOMAIN Unlink(q, n) /\ Unlink(q, n)[1] = q[1]
      BY <1>1, <2>3, <3>2
    <3>4. Unlink(q, n) # <<>>
      BY <3>3, EmptySeq
    <3> QED BY <2>3, <3>1, <3>3, <3>4
  <2> QED BY <2>1, <2>3, <2>4
<1> QED BY <1>2, <1>3

\* Inserting changes the head only to the new element.
LEMMA InsertLemma ==
    ASSUME NEW T, NEW q \in Seq(T), NEW e \in T, NEW S
    PROVE  /\ Insert(q, e, S) \in Seq(T)
           /\ Insert(q, e, S) # <<>>
           /\ \/ Head(Insert(q, e, S)) = e
              \/ q # <<>> /\ Head(Insert(q, e, S)) = Head(q)
<1> DEFINE p == InsertPos(q, S)
           a == SubSeq(q, 1, p - 1)
           b == SubSeq(q, p, Len(q))
<1>1. Len(q) \in Nat /\ DOMAIN q = 1 .. Len(q)
  BY LenProperties
<1>2. p \in 1 .. Len(q) + 1
  <2>1. CASE FirstMatch(q, S) = {}
    BY <1>1, <2>1 DEF InsertPos
  <2>2. CASE FirstMatch(q, S) # {}
    <3>1. p \in FirstMatch(q, S)
      BY <2>2 DEF InsertPos
    <3> QED BY <1>1, <3>1 DEF FirstMatch
  <2> QED BY <2>1, <2>2
<1> HIDE DEF p
<1>3. \A i \in 1 .. Len(q) : q[i] \in T
  BY ElementOfSeq
<1>4. /\ a \in Seq(T) /\ Len(a) = p - 1
      /\ \A i \in 1 .. p - 1 : a[i] = q[i]
  <2>1. \A i \in 1 .. p - 1 : q[i] \in T
    BY <1>1, <1>2, <1>3
  <2>2. /\ a \in Seq(T)
        /\ Len(a) = IF 1 <= p - 1 THEN p - 1 - 1 + 1 ELSE 0
        /\ \A i \in 1 .. (p - 1) - 1 + 1 : a[i] = q[1 + i - 1]
    BY <1>1, <1>2, <2>1, SubSeqProperties, 1 \in Int, p - 1 \in Int
  <2> HIDE DEF a
  <2> QED BY <1>1, <1>2, <2>2
<1>5. b \in Seq(T)
  <2>1. \A i \in p .. Len(q) : q[i] \in T
    BY <1>1, <1>2, <1>3
  <2> QED BY <1>1, <1>2, <2>1, SubSeqProperties, p \in Int, Len(q) \in Int
<1>6. /\ a \o <<e>> \in Seq(T) /\ Len(a \o <<e>>) = p
      /\ (a \o <<e>>)[1] = IF p = 1 THEN e ELSE q[1]
  <2>1. <<e>> \in Seq(T) /\ Len(<<e>>) = 1 /\ <<e>>[1] = e
    OBVIOUS
  <2> DEFINE c == <<e>>
  <2> HIDE DEF a, c
  <2>2. /\ a \o c \in Seq(T) /\ Len(a \o c) = Len(a) + Len(c)
        /\ \A i \in 1 .. Len(a) + Len(c) :
             (a \o c)[i] = IF i <= Len(a) THEN a[i] ELSE c[i - Len(a)]
    BY <1>4, <2>1, ConcatProperties DEF c
  <2>3. Len(c) = 1 /\ c[1] = e
    BY <2>1 DEF c
  <2>4. (a \o c)[1] = IF p = 1 THEN e ELSE q[1]
    BY <1>1, <1>2, <1>4, <2>2, <2>3
  <2>5. Len(a \o c) = p
    BY <1>2, <1>4, <2>2, <2>3
  <2> QED BY <2>2, <2>4, <2>5 DEF c
<1> DEFINE d == a \o <<e>>
<1> HIDE DEF a, b, d
<1>7. Insert(q, e, S) = d \o b
  BY DEF Insert, a, b, d, p
<1>8. /\ d \o b \in Seq(T) /\ Len(d \o b) = Len(d) + Len(b)
      /\ \A i \in 1 .. Len(d) + Len(b) :
           (d \o b)[i] = IF i <= Len(d) THEN d[i] ELSE b[i - Len(d)]
  BY <1>5, <1>6, ConcatProperties DEF d
<1>9. Len(d) = p /\ Len(b) \in Nat /\ d[1] = IF p = 1 THEN e ELSE q[1]
  BY <1>5, <1>6, LenProperties DEF d
<1>10. d \o b # <<>> /\ Head(d \o b) = d[1]
  <2>1. Len(d \o b) \in Nat \ {0} /\ (d \o b)[1] = d[1]
    BY <1>2, <1>8, <1>9
  <2> QED BY <1>8, <2>1
<1>11. p # 1 => q # <<>> /\ Head(q) = q[1]
  BY <1>1, <1>2, EmptySeq
<1> QED BY <1>7, <1>8, <1>9, <1>10, <1>11

-----------------------------------------------------------------------------
(* Type correctness and the comparator.                                    *)

\* Nothing is pending and the comparator is armed for another moment than
\* that of the first timer: the state HwFollowsFirst excludes.
Astray == queue # <<>> /\ ~event /\ ~irq /\ target # time[First]

\* Past the call of rwip_timer_1ms_set the comparator is right, but for an
\* interrupt that came since.
Armed == pc \in {"main", "check", "check_set", "check_clear"} => ~Astray

\* These points are reached with a timer in the queue only.
Busy == pc \in {"arm", "check", "expire", "arm_set"} => queue # <<>>

\* ke_timer_set is at work on a timer.
Working == pc \in {"arm_set", "check_set"} => cur \in Timer

IInv == TypeOK /\ Armed /\ Busy /\ Working

-----------------------------------------------------------------------------
\* The clock's arithmetic stays in the range of the clock.
LEMMA ClockRange ==
    /\ 0 \in Clock
    /\ \A a, b \in Int : ClkAdd(a, b) \in Clock /\ ClkSub(a, b) \in Clock
BY TimerAssumption DEF Clock, ClkAdd, ClkSub

\* A delay is a number of clock units.
LEMMA DelayRange ==
    \A d \in Delays : DelayTime(d) \in Nat /\ Clamp(d) * MsUnits \in Nat
<1>1. \A d \in Delays : Clamp(d) \in Nat
  BY TimerAssumption DEF Clamp
<1>2. \A d \in Delays : Clamp(d) * MsUnits \in Nat
  BY <1>1, TimerAssumption
<1>3. \A x \in Nat : x % Word \in Nat
  BY TimerAssumption
<1> QED BY <1>2, <1>3 DEF DelayTime

\* Freeing timers keeps the types and the times of the other timers.
LEMMA FreeLemma ==
    ASSUME TypeOK, NEW S, Free(S)
    PROVE  /\ time' \in [Timer -> Clock] /\ left' \in [Timer -> Int]
           /\ \A t \in Timer \ S : time'[t] = time[t]
BY ClockRange DEF TypeOK, Free

\* ke_timer_set leaves a queue with a timer in it, and either the timer it set
\* is first or the first timer is the one that was first before.
LEMMA RequeueLemma ==
    ASSUME TypeOK, NEW t \in Timer, NEW new
    PROVE  /\ Requeue(t, new) \in Seq(Timer)
           /\ Requeue(t, new) # <<>>
           /\ \/ Head(Requeue(t, new)) = t
              \/ queue # <<>> /\ t = First
              \/ queue # <<>> /\ Head(Requeue(t, new)) = First
<1> DEFINE rest == Extract(queue, {t})
           S == {u \in Members(rest) : NotAfter(new, time[u])}
<1>1. /\ rest \in Seq(Timer)
      /\ queue # <<>> /\ First \notin {t} => rest # <<>> /\ Head(rest) = First
  BY ExtractLemma DEF TypeOK, First
<1>2. queue = <<>> => rest = <<>>
  BY DEF Extract, FirstMatch
<1> HIDE DEF rest, S
<1>3. /\ Insert(rest, t, S) \in Seq(Timer)
      /\ Insert(rest, t, S) # <<>>
      /\ \/ Head(Insert(rest, t, S)) = t
         \/ rest # <<>> /\ Head(Insert(rest, t, S)) = Head(rest)
  BY <1>1, InsertLemma
<1>4. Requeue(t, new) = Insert(rest, t, S)
  BY DEF Requeue, rest, S
<1> QED BY <1>1, <1>2, <1>3, <1>4

\* Time passes for the timers, not for the queue.
LEMMA ElapseLemma ==
    ASSUME TypeOK, NEW n \in Int, Elapse(n)
    PROVE  now' \in Clock /\ left' \in [Timer -> Int]
<1>1. now' \in Clock
  <2>1. now \in Int
    BY TimerAssumption DEF TypeOK, Clock
  <2> QED BY <2>1, ClockRange DEF Elapse
<1>2. left' \in [Timer -> Int]
  BY DEF TypeOK, Elapse
<1> QED BY <1>1, <1>2

-----------------------------------------------------------------------------
\* Each action of ke_timer_schedule keeps the invariant.
LEMMA ScheduleStep ==
    ASSUME IInv, TimerEvent \/ NothingLeft \/ Look \/ ArmFirst
                 \/ CheckArmed \/ ExpireFirst \/ IntDisable
    PROVE  IInv'
<1> USE DEF IInv, TypeOK, Armed, Busy, Working, Astray, First, Programs
<1>1. CASE TimerEvent
  BY <1>1 DEF TimerEvent
<1>2. CASE NothingLeft
  BY <1>2 DEF NothingLeft
<1>3. CASE Look
  BY <1>3 DEF Look
<1>4. CASE ArmFirst
  <2>1. queue # <<>> /\ time[Head(queue)] \in Clock
    BY <1>4, PopLemma DEF ArmFirst
  <2> QED BY <1>4, <2>1 DEF ArmFirst, Program
<1>5. CASE CheckArmed
  BY <1>5 DEF CheckArmed
<1>6. CASE ExpireFirst
  <2>1. queue # <<>> /\ Tail(queue) \in Seq(Timer) /\ Head(queue) \in Timer
    BY <1>6, PopLemma DEF ExpireFirst
  <2>2. time' \in [Timer -> Clock] /\ left' \in [Timer -> Int]
    BY <1>6, FreeLemma DEF ExpireFirst
  <2> QED BY <1>6, <2>1, <2>2 DEF ExpireFirst
<1>7. CASE IntDisable
  BY <1>7 DEF IntDisable
<1> QED BY <1>1, <1>2, <1>3, <1>4, <1>5, <1>6, <1>7

\* Each action of ke_timer_set keeps the invariant.
LEMMA SetStep ==
    ASSUME IInv, (\E t \in Timer, d \in Delays : SetTimer(t, d)) \/ ArmSet \/ CheckSet
    PROVE  IInv'
<1>1. ASSUME NEW t \in Timer, NEW d \in Delays, SetTimer(t, d)
      PROVE  IInv'
  <2> DEFINE new == ClkAdd(now, DelayTime(d))
             q == Requeue(t, new)
  <2>1. new \in Clock
    <3>1. now \in Int /\ DelayTime(d) \in Int
      BY TimerAssumption, DelayRange DEF IInv, TypeOK, Clock
    <3> QED BY <3>1, ClockRange
  <2>2. /\ q \in Seq(Timer) /\ q # <<>>
        /\ \/ Head(q) = t
           \/ queue # <<>> /\ t = First
           \/ queue # <<>> /\ Head(q) = First
    BY RequeueLemma DEF IInv
  <2> HIDE DEF new, q
  <2>3. /\ queue' = q /\ time' = [time EXCEPT ![t] = new]
        /\ left' = [left EXCEPT ![t] = Clamp(d) * MsUnits]
        /\ cur' = t /\ fired' = fired \ {t} /\ pc = "main"
        /\ pc' = IF (queue # <<>> /\ t = First) \/ t = Head(q)
                 THEN "arm_set" ELSE "check_set"
        /\ UNCHANGED <<now, target, irq, event, masked>>
    BY <1>1 DEF SetTimer, InTask, new, q
  <2>4. TypeOK'
    BY <2>1, <2>2, <2>3, DelayRange DEF IInv, TypeOK, Programs
  <2>5. Armed'
    <3>1. CASE pc' = "arm_set"
      BY <3>1 DEF Armed
    <3>2. CASE pc' # "arm_set"
      <4>1. queue # <<>> /\ Head(q) = First /\ Head(q) # t /\ First \in Timer
        BY <2>2, <2>3, <3>2, PopLemma DEF IInv, TypeOK, First
      <4>2. time'[Head(q)] = time[First]
        BY <2>3, <4>1 DEF IInv, TypeOK
      <4> QED BY <2>3, <4>1, <4>2 DEF IInv, Armed, Astray, First
    <3> QED BY <3>1, <3>2
  <2> QED BY <2>2, <2>3, <2>4, <2>5 DEF IInv, Busy, Working
<1>2. CASE ArmSet
  <2>1. queue # <<>> /\ time[Head(queue)] \in Clock
    BY <1>2, PopLemma DEF ArmSet, IInv, TypeOK, Busy
  <2> QED BY <1>2, <2>1
      DEF ArmSet, Program, IInv, TypeOK, Armed, Busy, Working, Astray, First, Programs
<1>3. CASE CheckSet
  <2>1. event' \in BOOLEAN
    BY <1>3 DEF CheckSet, Past, NotAfter
  <2> QED BY <1>3, <2>1
      DEF CheckSet, IInv, TypeOK, Armed, Busy, Working, Astray, First, Programs
<1> QED BY <1>1, <1>2, <1>3

\* Each action of ke_timer_clear keeps the invariant.
LEMMA ClearStep ==
    ASSUME IInv, (\E t \in Timer : ClearFirst(t) \/ ClearOther(t))
                 \/ ArmClear \/ CheckClear
    PROVE  IInv'
<1>1. ASSUME NEW t \in Timer, ClearFirst(t)
      PROVE  IInv'
  <2>1. Tail(queue) \in Seq(Timer)
    BY <1>1, PopLemma DEF ClearFirst, IInv, TypeOK
  <2>2. time' \in [Timer -> Clock] /\ left' \in [Timer -> Int]
    BY <1>1, FreeLemma DEF ClearFirst, IInv
  <2> QED BY <1>1, <2>1, <2>2
      DEF ClearFirst, InTask, IInv, TypeOK, Armed, Busy, Working, Programs
<1>2. ASSUME NEW t \in Timer, ClearOther(t)
      PROVE  IInv'
  <2>1. /\ queue # <<>> /\ First # t /\ First \in Timer /\ pc = "main"
        /\ queue' = Extract(queue, {t}) /\ Free({t})
        /\ UNCHANGED <<now, target, irq, event, masked, pc, cur, fired>>
    BY <1>2, PopLemma DEF ClearOther, InTask, IInv, TypeOK, First
  <2>2. queue' \in Seq(Timer) /\ queue' # <<>> /\ Head(queue') = First
    BY <2>1, ExtractLemma DEF IInv, TypeOK, First
  <2>3. /\ time' \in [Timer -> Clock] /\ left' \in [Timer -> Int]
        /\ time'[First] = time[First]
    BY <2>1, FreeLemma DEF IInv
  <2>4. TypeOK'
    BY <2>1, <2>2, <2>3 DEF IInv, TypeOK
  <2>5. Armed'
    BY <2>1, <2>2, <2>3 DEF IInv, Armed, Astray, First
  <2> QED BY <2>1, <2>4, <2>5 DEF IInv, Busy, Working
<1>3. CASE ArmClear
  <2>1. queue # <<>> => time[Head(queue)] \in Clock
    BY PopLemma DEF IInv, TypeOK
  <2> QED BY <1>3, <2>1
      DEF ArmClear, Program, IInv, TypeOK, Armed, Busy, Working, Astray, First, Programs
<1>4. CASE CheckClear
  <2>1. event' \in BOOLEAN
    BY <1>4 DEF CheckClear, Past, NotAfter
  <2> QED BY <1>4, <2>1
      DEF CheckClear, IInv, TypeOK, Armed, Busy, Working, Astray, First, Programs
<1> QED BY <1>1, <1>2, <1>3, <1>4

\* The clock, the interrupt, sleep and reset keep the invariant.
LEMMA EnvironmentStep ==
    ASSUME IInv, Tick \/ Isr \/ Reset \/ PastTarget
                 \/ \E n \in 1 .. MaxSleep : DeepSleep(n) \/ DeepSleepHandled(n)
    PROVE  IInv'
<1> USE DEF IInv, TypeOK, Armed, Busy, Working, Astray, First, Programs
<1>1. CASE Tick
  <2>1. now' \in Clock /\ left' \in [Timer -> Int]
    BY <1>1, ElapseLemma DEF Tick
  <2>2. irq' \in BOOLEAN /\ (irq => irq')
    BY <1>1 DEF Tick
  <2> QED BY <1>1, <2>1, <2>2 DEF Tick
<1>2. CASE Isr
  BY <1>2 DEF Isr, Expired
<1>3. CASE Reset
  <2>1. time' \in [Timer -> Clock] /\ left' \in [Timer -> Int]
    BY <1>3, FreeLemma DEF Reset
  <2>2. queue' \in Seq(Timer) /\ queue' = <<>>
    BY <1>3 DEF Reset
  <2>3. now' \in Clock /\ fired' \subseteq Timer
    BY <1>3, ClockRange DEF Reset
  <2>4. TypeOK'
    BY <1>3, <2>1, <2>2, <2>3 DEF Reset
  <2> QED BY <1>3, <2>2, <2>4 DEF Reset, InTask
<1>4. CASE PastTarget
  BY <1>4 DEF PastTarget, Idle, InTask
<1>5. ASSUME NEW n \in 1 .. MaxSleep, DeepSleep(n) \/ DeepSleepHandled(n)
      PROVE  IInv'
  <2>1. now' \in Clock /\ left' \in [Timer -> Int]
    BY <1>5, ElapseLemma, TimerAssumption DEF DeepSleep, DeepSleepHandled, MaySleep
  <2> QED BY <1>5, <2>1 DEF DeepSleep, DeepSleepHandled, MaySleep, Idle, InTask, Expired
<1> QED BY <1>1, <1>2, <1>3, <1>4, <1>5

\* The invariant holds in every reachable state.
THEOREM InductiveInvariant == Spec => []IInv
<1>1. Init => IInv
  <2> SUFFICES ASSUME Init PROVE IInv
    OBVIOUS
  <2>1. queue = <<>> /\ queue \in Seq(Timer)
    BY DEF Init
  <2>2. time \in [Timer -> Clock] /\ left \in [Timer -> Int]
    BY ClockRange DEF Init
  <2>3. TypeOK
    BY <2>1, <2>2, ClockRange DEF Init, TypeOK
  <2> QED BY <2>1, <2>3 DEF Init, IInv, Armed, Busy, Working, Astray
<1>2. IInv /\ [Next]_vars => IInv'
  <2> SUFFICES ASSUME IInv, [Next]_vars PROVE IInv'
    OBVIOUS
  <2>1. CASE UNCHANGED vars
    BY <2>1 DEF vars, IInv, TypeOK, Armed, Busy, Working, Astray, First
  <2>2. CASE Next
    BY <2>2, ScheduleStep, SetStep, ClearStep, EnvironmentStep DEF Next, Schedule
  <2> QED BY <2>1, <2>2
<1> QED BY <1>1, <1>2, PTL DEF Spec

\* Every variable keeps its type: the clock, the times and the target stay in
\* the range of the Bluetooth clock.
THEOREM TypeCorrect == Spec => []TypeOK
BY InductiveInvariant, PTL DEF IInv

\* For any number of timers and any interleaving of ke_timer_set, _clear and
\* _schedule with the interrupt, the comparator is armed for the first timer
\* whenever nothing is pending.
THEOREM TargetFollowsFirst == Spec => []HwFollowsFirst
<1>1. IInv => HwFollowsFirst
  BY DEF IInv, Armed, Astray, HwFollowsFirst
<1> QED BY <1>1, InductiveInvariant, PTL

-----------------------------------------------------------------------------
(* The refinement.                                                         *)

\* A set of naturals has a least element.
LEMMA LeastNat ==
    ASSUME NEW T \in SUBSET Nat, T # {}
    PROVE  \E n \in T : \A m \in T : n <= m
<1> DEFINE R == {ss \in Nat \X Nat : ss[1] < ss[2]}
<1>1. R = OpToRel(<, Nat)
  BY Zenon DEF OpToRel
<1>2. IsWellFoundedOn(R, Nat)
  BY <1>1, NatLessThanWellFounded, Zenon
<1>3. \A x, y \in Nat : <<y, x>> \in R <=> y < x
  OBVIOUS
<1> HIDE DEF R
<1>4. PICK n \in T : \A m \in T : ~(<<m, n>> \in R)
  BY <1>2, WFMin
<1>5. \A m \in T : ~(m < n)
  BY <1>3, <1>4
<1> QED BY <1>5

-----------------------------------------------------------------------------
(* The order of the queue. *)

Ordered(q, v) == \A i, j \in DOMAIN q : i < j => v[q[i]] <= v[q[j]]

\* What leaves the queue leaves the others in their order.
LEMMA UnlinkOrder ==
    ASSUME NEW T, NEW q \in Seq(T), NEW n \in DOMAIN q, NEW v \in [T -> Int], Ordered(q, v)
    PROVE  Ordered(Unlink(q, n), v)
<1> DEFINE u == Unlink(q, n)
<1>1. /\ u \in Seq(T) /\ Len(q) \in Nat /\ DOMAIN q = 1 .. Len(q) /\ DOMAIN u = 1 .. Len(q) - 1
      /\ \A i \in 1 .. Len(q) - 1 : u[i] = IF i <= n - 1 THEN q[i] ELSE q[i + 1]
  BY UnlinkIndex
<1> HIDE DEF u
<1> SUFFICES ASSUME NEW i \in DOMAIN u, NEW j \in DOMAIN u, i < j PROVE v[u[i]] <= v[u[j]]
  BY DEF Ordered, u
<1> DEFINE a == IF i <= n - 1 THEN i ELSE i + 1
           b == IF j <= n - 1 THEN j ELSE j + 1
<1>2. i \in 1 .. Len(q) - 1 /\ j \in 1 .. Len(q) - 1 /\ n \in 1 .. Len(q) /\ Len(q) \in Nat
  BY <1>1
<1>3. a \in 1 .. Len(q) /\ b \in 1 .. Len(q)
  BY <1>2
<1>4. a < b
  BY <1>2
<1>5. u[i] = q[a] /\ u[j] = q[b]
  BY <1>1, <1>2
<1> HIDE DEF a, b
<1>6. v[q[a]] <= v[q[b]]
  BY <1>1, <1>3, <1>4 DEF Ordered
<1> QED BY <1>5, <1>6

LEMMA ExtractOrder ==
    ASSUME NEW T, NEW q \in Seq(T), NEW e, NEW v \in [T -> Int], Distinct(q), Ordered(q, v)
    PROVE  /\ Extract(q, {e}) \in Seq(T) /\ Distinct(Extract(q, {e})) /\ Ordered(Extract(q, {e}), v)
           /\ Members(Extract(q, {e})) = Members(q) \ {e}
<1>1. Extract(q, {e}) \in Seq(T)
  BY ExtractLemma
<1>2. Len(q) \in Nat /\ DOMAIN q = 1 .. Len(q)
  BY LenProperties
<1>3. CASE FirstMatch(q, {e}) = {}
  <2>1. Extract(q, {e}) = q
    BY <1>3 DEF Extract
  <2>2. ASSUME NEW i \in DOMAIN q PROVE q[i] # e
    <3> SUFFICES ASSUME q[i] = e PROVE FALSE
      OBVIOUS
    <3>1. \A j \in DOMAIN q : q[j] = e => j = i
      BY DEF Distinct
    <3>2. i \in FirstMatch(q, {e})
      BY <1>2, <3>1 DEF FirstMatch
    <3> QED BY <1>3, <3>2
  <2>3. e \notin Members(q)
    BY <2>2 DEF Members, Range
  <2> QED BY <1>1, <2>1, <2>3
<1>4. CASE FirstMatch(q, {e}) # {}
  <2>1. PICK n \in FirstMatch(q, {e}) : Extract(q, {e}) = Unlink(q, n)
    BY <1>4 DEF Extract
  <2>2. n \in DOMAIN q /\ q[n] = e
    BY <2>1 DEF FirstMatch
  <2>3. Ordered(Unlink(q, n), v)
    BY <2>2, UnlinkOrder
  <2>4. Members(Unlink(q, n)) = Members(q) \ {q[n]} /\ Distinct(Unlink(q, n))
    BY <2>2, UnlinkLemma
  <2> QED BY <1>1, <2>1, <2>2, <2>3, <2>4
<1> QED BY <1>3, <1>4

LEMMA PopOrder ==
    ASSUME NEW T, NEW q \in Seq(T), q # <<>>, NEW v \in [T -> Int], Ordered(q, v)
    PROVE  Ordered(Tail(q), v) /\ \A t \in Members(q) : v[Head(q)] <= v[t]
<1>1. /\ Tail(q) \in Seq(T) /\ Len(Tail(q)) = Len(q) - 1
      /\ \A i \in 1 .. Len(Tail(q)) : Tail(q)[i] = q[i + 1]
  BY HeadTailProperties
<1>2. /\ Len(q) \in Nat \ {0} /\ DOMAIN q = 1 .. Len(q) /\ Head(q) = q[1]
      /\ DOMAIN Tail(q) = 1 .. Len(q) - 1
  BY <1>1, LenProperties, EmptySeq
<1>3. Ordered(Tail(q), v)
  <2> SUFFICES ASSUME NEW i \in DOMAIN Tail(q), NEW j \in DOMAIN Tail(q), i < j
               PROVE  v[Tail(q)[i]] <= v[Tail(q)[j]]
    BY DEF Ordered
  <2>1. i + 1 \in DOMAIN q /\ j + 1 \in DOMAIN q /\ i + 1 < j + 1
        /\ Tail(q)[i] = q[i + 1] /\ Tail(q)[j] = q[j + 1]
    BY <1>1, <1>2
  <2> QED BY <2>1 DEF Ordered
<1>4. ASSUME NEW t \in Members(q) PROVE v[Head(q)] <= v[t]
  <2>1. PICK i \in DOMAIN q : t = q[i]
    BY DEF Members, Range
  <2>2. 1 \in DOMAIN q /\ (i = 1 \/ 1 < i) /\ v[q[i]] \in Int
    BY <1>2
  <2> QED BY <1>2, <2>1, <2>2 DEF Ordered
<1> QED BY <1>3, <1>4

\* r is q with e at position p, behind elements that are not in S and in front of one
\* that is.
PlacedAt(q, e, S, r, p) ==
    /\ \A j \in 1 .. p - 1 : q[j] \notin S
    /\ p <= Len(q) => q[p] \in S
    /\ DOMAIN r = 1 .. Len(q) + 1
    /\ \A i \in 1 .. Len(q) + 1 :
          r[i] = IF i < p THEN q[i] ELSE IF i = p THEN e ELSE q[i - 1]

\* Where Insert puts what.
LEMMA InsertIndex ==
    ASSUME NEW T, NEW q \in Seq(T), NEW e \in T, NEW S
    PROVE  \E p \in 1 .. Len(q) + 1 : PlacedAt(q, e, S, Insert(q, e, S), p)
<1> DEFINE p == InsertPos(q, S)
           a == SubSeq(q, 1, p - 1)
           b == SubSeq(q, p, Len(q))
           c == <<e>>
<1>1. Len(q) \in Nat /\ DOMAIN q = 1 .. Len(q)
  BY LenProperties
<1>2. /\ p \in 1 .. Len(q) + 1 /\ (\A j \in 1 .. p - 1 : q[j] \notin S)
      /\ p <= Len(q) => q[p] \in S
  <2>1. CASE FirstMatch(q, S) = {}
    <3>1. p = Len(q) + 1
      BY <2>1 DEF InsertPos
    <3>2. \A j \in DOMAIN q : q[j] \notin S
      <4> DEFINE J == {j \in 1 .. Len(q) : q[j] \in S}
      <4> SUFFICES ASSUME J # {} PROVE FALSE
        BY <1>1
      <4>1. J \in SUBSET Nat
        OBVIOUS
      <4>2. PICK n \in J : \A m \in J : n <= m
        BY <4>1, LeastNat
      <4>3. n \in FirstMatch(q, S)
        BY <1>1, <4>2 DEF FirstMatch
      <4> QED BY <2>1, <4>3
    <3> QED BY <1>1, <3>1, <3>2
  <2>2. CASE FirstMatch(q, S) # {}
    <3>1. p \in FirstMatch(q, S)
      BY <2>2 DEF InsertPos
    <3> QED BY <1>1, <3>1 DEF FirstMatch
  <2> QED BY <2>1, <2>2
<1>3. Insert(q, e, S) = a \o c \o b
  BY DEF Insert
<1> HIDE DEF p
<1>4. \A i \in 1 .. Len(q) : q[i] \in T
  BY ElementOfSeq
<1>5. /\ a \in Seq(T) /\ Len(a) = p - 1
      /\ \A i \in 1 .. p - 1 : a[i] = q[i]
  <2>1. \A i \in 1 .. p - 1 : q[i] \in T
    BY <1>1, <1>2, <1>4
  <2>2. /\ a \in Seq(T)
        /\ Len(a) = IF 1 <= p - 1 THEN p - 1 - 1 + 1 ELSE 0
        /\ \A i \in 1 .. (p - 1) - 1 + 1 : a[i] = q[1 + i - 1]
    BY <1>1, <1>2, <2>1, SubSeqProperties, 1 \in Int, p - 1 \in Int
  <2> HIDE DEF a
  <2> QED BY <1>1, <1>2, <2>2
<1>6. /\ b \in Seq(T) /\ Len(b) = Len(q) + 1 - p
      /\ \A i \in 1 .. Len(q) + 1 - p : b[i] = q[p + i - 1]
  <2>1. \A i \in p .. Len(q) : q[i] \in T
    BY <1>1, <1>2, <1>4
  <2>2. /\ b \in Seq(T)
        /\ Len(b) = IF p <= Len(q) THEN Len(q) - p + 1 ELSE 0
        /\ \A i \in 1 .. Len(q) - p + 1 : b[i] = q[p + i - 1]
    BY <1>1, <1>2, <2>1, SubSeqProperties, p \in Int, Len(q) \in Int
  <2> HIDE DEF b
  <2>3. Len(q) - p + 1 = Len(q) + 1 - p
    BY <1>1, <1>2
  <2> QED BY <1>1, <1>2, <2>2, <2>3
<1>7. c \in Seq(T) /\ Len(c) = 1 /\ c[1] = e
  OBVIOUS
<1> HIDE DEF a, b, c
<1>8. /\ a \o c \in Seq(T) /\ Len(a \o c) = p
      /\ \A i \in 1 .. p : (a \o c)[i] = IF i < p THEN q[i] ELSE e
  <2>1. /\ a \o c \in Seq(T) /\ Len(a \o c) = Len(a) + Len(c)
        /\ \A i \in 1 .. Len(a) + Len(c) :
             (a \o c)[i] = IF i <= Len(a) THEN a[i] ELSE c[i - Len(a)]
    BY <1>5, <1>7, ConcatProperties
  <2>2. Len(a \o c) = p
    BY <1>2, <1>5, <1>7, <2>1
  <2>3. ASSUME NEW i \in 1 .. p PROVE (a \o c)[i] = IF i < p THEN q[i] ELSE e
    BY <1>2, <1>5, <1>7, <2>1
  <2> QED BY <2>1, <2>2, <2>3
<1> DEFINE d == a \o c
           r == d \o b
<1> HIDE DEF d
<1>9. /\ r \in Seq(T) /\ Len(r) = Len(d) + Len(b)
      /\ \A i \in 1 .. Len(d) + Len(b) : r[i] = IF i <= Len(d) THEN d[i] ELSE b[i - Len(d)]
  BY <1>6, <1>8, ConcatProperties DEF d
<1> HIDE DEF r
<1>10. Len(d) + Len(b) = Len(q) + 1 /\ Len(d) = p
  BY <1>1, <1>2, <1>6, <1>8 DEF d
<1>11. DOMAIN r = 1 .. Len(q) + 1
  BY <1>9, <1>10, LenProperties
<1>12. ASSUME NEW i \in 1 .. Len(q) + 1
       PROVE  r[i] = IF i < p THEN q[i] ELSE IF i = p THEN e ELSE q[i - 1]
  <2>1. CASE i <= p
    <3>1. i \in 1 .. p /\ i <= Len(d) /\ i \in 1 .. Len(d) + Len(b)
      BY <1>1, <1>2, <1>10, <2>1
    <3>2. r[i] = d[i]
      BY <1>9, <3>1
    <3>3. d[i] = IF i < p THEN q[i] ELSE e
      BY <1>8, <3>1 DEF d
    <3> QED BY <1>1, <1>2, <2>1, <3>2, <3>3
  <2>2. CASE i > p
    <3>1. r[i] = b[i - p] /\ i - p \in 1 .. Len(q) + 1 - p
      BY <1>1, <1>2, <1>9, <1>10, <2>2
    <3>2. b[i - p] = q[p + (i - p) - 1] /\ p + (i - p) - 1 = i - 1
      BY <1>1, <1>2, <1>6, <3>1
    <3> QED BY <1>1, <1>2, <2>2, <3>1, <3>2
  <2> QED BY <1>1, <1>2, <2>1, <2>2
<1>13. Insert(q, e, S) = r
  BY <1>3 DEF r, d
<1>14. PlacedAt(q, e, S, r, p)
  BY <1>2, <1>11, <1>12 DEF PlacedAt
<1> QED BY <1>2, <1>13, <1>14
-----------------------------------------------------------------------------
(* The clock. *)

\* Numbers one turn of the clock away from its range.
LEMMA Remainder ==
    ASSUME NEW n \in Nat \ {0}, NEW x \in Int, -n <= x, x < 2 * n
    PROVE  x % n = IF x < 0 THEN x + n ELSE IF x < n THEN x ELSE x - n
<1> DEFINE r == IF x < 0 THEN x + n ELSE IF x < n THEN x ELSE x - n
<1>1. x % n \in 0 .. n - 1 /\ x \div n \in Int /\ x = n * (x \div n) + (x % n)
  OBVIOUS
<1>2. r \in 0 .. n - 1 /\ r \in {x + n, x, x - n}
  OBVIOUS
<1>3. ASSUME NEW q \in Int, NEW m \in 0 .. n - 1, x = n * q + m
      PROVE  m = r
  <2>1. CASE q <= -2
    <3>1. n * q <= n * (-2)
      BY <2>1
    <3> QED BY <1>3, <3>1
  <2>2. CASE q >= 2
    <3>1. n * q >= n * 2
      BY <2>2
    <3> QED BY <1>3, <3>1
  <2>3. CASE q = -1
    <3>1. n * q = -n
      BY <2>3
    <3> QED BY <1>3, <3>1
  <2>4. CASE q = 0
    <3>1. n * q = 0
      BY <2>4
    <3> QED BY <1>3, <3>1
  <2>5. CASE q = 1
    <3>1. n * q = n
      BY <2>5
    <3> QED BY <1>3, <3>1
  <2> QED BY <2>1, <2>2, <2>3, <2>4, <2>5
<1> HIDE DEF r
<1>4. x % n = r
  BY <1>1, <1>3
<1> QED BY <1>4 DEF r

Half == (M - 1) \div 2

\* The moment b is d ahead of the moment a, or behind it when d is negative.
Ahead(a, b, d) == b \in {a + d, a + d - M, a + d + M}

LEMMA HalfLemma == M \in Nat \ {0} /\ Half \in Nat /\ 2 * Half < M
BY TimerAssumption DEF Half

\* The comparisons of co_utils.h and ke_timer.c are right for moments that are less than
\* half the range of the clock apart.
LEMMA ClockOrder ==
    ASSUME NEW a \in Clock, NEW b \in Clock, NEW d \in Int, -Half < d, d < Half, Ahead(a, b, d)
    PROVE  (ClkLowerEq(a, b) <=> d >= 0) /\ (NotAfter(a, b) <=> d >= 0)
<1>1. M \in Nat \ {0} /\ Half \in Nat /\ 2 * Half < M
  BY HalfLemma
<1>2. a \in 0 .. M - 1 /\ b \in 0 .. M - 1
  BY DEF Clock
<1>3. \A x, y \in 0 .. M - 1 : (y - x) % M = IF y < x THEN y - x + M ELSE y - x
  <2> SUFFICES ASSUME NEW x \in 0 .. M - 1, NEW y \in 0 .. M - 1
               PROVE  (y - x) % M = IF y < x THEN y - x + M ELSE y - x
    OBVIOUS
  <2>1. y - x \in Int /\ -M <= y - x /\ y - x < M /\ y - x < 2 * M
    BY <1>1
  <2>2. (y - x) % M = IF y - x < 0 THEN (y - x) + M ELSE IF y - x < M THEN y - x ELSE (y - x) - M
    BY <1>1, <2>1, Remainder
  <2> QED BY <1>1, <2>1, <2>2
<1>4. ClkSub(b, a) = IF b < a THEN b - a + M ELSE b - a
  BY <1>2, <1>3 DEF ClkSub
<1>5. ClkSub(a, b) = IF a < b THEN a - b + M ELSE a - b
  BY <1>2, <1>3 DEF ClkSub
<1>6. ClkLowerEq(a, b) <=> ClkSub(b, a) < Half
  BY DEF ClkLowerEq, Half
<1>7. NotAfter(a, b) <=> ~(ClkSub(a, b) < Half) \/ a = b
  BY DEF NotAfter, ClkLowerEq, Half
<1>8. b = a + d \/ b = a + d - M \/ b = a + d + M
  BY DEF Ahead
<1>9. ClkSub(b, a) = IF d >= 0 THEN d ELSE d + M
  BY <1>1, <1>2, <1>4, <1>8
<1>10. ClkSub(a, b) = IF d <= 0 THEN -d ELSE M - d
  BY <1>1, <1>2, <1>5, <1>8
<1>11. a = b <=> d = 0
  BY <1>1, <1>2, <1>8
<1> QED BY <1>1, <1>6, <1>7, <1>9, <1>10, <1>11

LEMMA ClockMoves ==
    ASSUME NEW a \in Clock, NEW n \in Nat, n <= M
    PROVE  /\ ClkAdd(a, n) = a + n \/ ClkAdd(a, n) = a + n - M
           /\ ClkSub(a, n) = a - n \/ ClkSub(a, n) = a - n + M
<1>1. a \in 0 .. M - 1 /\ M \in Nat \ {0}
  BY HalfLemma DEF Clock
<1>2. ASSUME NEW x \in Int, -M <= x, x < 2 * M
      PROVE  x % M = IF x < 0 THEN x + M ELSE IF x < M THEN x ELSE x - M
  BY <1>1, <1>2, Remainder
<1>3. a + n \in Int /\ -M <= a + n /\ a + n < 2 * M /\ a + n >= 0
  BY <1>1
<1>4. a - n \in Int /\ -M <= a - n /\ a - n < 2 * M /\ a - n < M
  BY <1>1
<1>5. ClkAdd(a, n) = IF a + n < 0 THEN (a + n) + M ELSE IF a + n < M THEN a + n ELSE (a + n) - M
  BY <1>2, <1>3 DEF ClkAdd
<1>6. ClkSub(a, n) = IF a - n < 0 THEN (a - n) + M ELSE IF a - n < M THEN a - n ELSE (a - n) - M
  BY <1>2, <1>4 DEF ClkSub
<1> QED BY <1>1, <1>3, <1>4, <1>5, <1>6
\* S holds the elements that e belongs in front of.
Choosy(q, e, S, v) == \A u \in Members(q) : u \in S <=> v[e] <= v[u]

\* Insert puts a new element at its place in the order.
LEMMA InsertOrder ==
    ASSUME NEW T, NEW q \in Seq(T), NEW e \in T, NEW S, NEW v \in [T -> Int],
           Distinct(q), Ordered(q, v), e \notin Members(q),
           Choosy(q, e, S, v)
    PROVE  /\ Distinct(Insert(q, e, S)) /\ Ordered(Insert(q, e, S), v)
           /\ Members(Insert(q, e, S)) = Members(q) \union {e}
<1> DEFINE r == Insert(q, e, S)
<1>0. PICK p \in 1 .. Len(q) + 1 : PlacedAt(q, e, S, r, p)
  BY InsertIndex
<1> HIDE DEF r
<1>1. /\ \A j \in 1 .. p - 1 : q[j] \notin S
      /\ p <= Len(q) => q[p] \in S
      /\ DOMAIN r = 1 .. Len(q) + 1
      /\ \A i \in 1 .. Len(q) + 1 :
            r[i] = IF i < p THEN q[i] ELSE IF i = p THEN e ELSE q[i - 1]
  BY <1>0 DEF PlacedAt
<1>2. Len(q) \in Nat /\ DOMAIN q = 1 .. Len(q) /\ \A i \in 1 .. Len(q) : q[i] \in T
  BY LenProperties, ElementOfSeq
<1>3. \A i \in 1 .. Len(q) : q[i] \in Members(q) /\ q[i] # e
  BY <1>2 DEF Members, Range
<1>4. \A i, j \in 1 .. Len(q) : q[i] = q[j] => i = j
  BY <1>2 DEF Distinct
<1>5. \A i, j \in 1 .. Len(q) : i < j => v[q[i]] <= v[q[j]]
  BY <1>2 DEF Ordered
<1>6. \A i \in 1 .. Len(q) : v[q[i]] \in Int /\ v[e] \in Int
  BY <1>2
<1>7. Distinct(r)
  <2> SUFFICES ASSUME NEW i \in 1 .. Len(q) + 1, NEW j \in 1 .. Len(q) + 1, r[i] = r[j]
               PROVE  i = j
    BY <1>1 DEF Distinct
  <2>1. i > p => i - 1 \in 1 .. Len(q) /\ r[i] = q[i - 1]
    BY <1>1, <1>2
  <2>2. j > p => j - 1 \in 1 .. Len(q) /\ r[j] = q[j - 1]
    BY <1>1, <1>2
  <2>3. i < p => i \in 1 .. Len(q) /\ r[i] = q[i]
    BY <1>1, <1>2
  <2>4. j < p => j \in 1 .. Len(q) /\ r[j] = q[j]
    BY <1>1, <1>2
  <2>5. (i = p => r[i] = e) /\ (j = p => r[j] = e)
    BY <1>1, <1>2
  <2>6. i = p <=> j = p
    <3>1. i < p \/ i = p \/ i > p
      OBVIOUS
    <3>2. j < p \/ j = p \/ j > p
      OBVIOUS
    <3>3. i # p => r[i] # e
      BY <1>3, <2>1, <2>3, <3>1
    <3>4. j # p => r[j] # e
      BY <1>3, <2>2, <2>4, <3>2
    <3> QED BY <2>5, <3>3, <3>4
  <2>7. CASE i < p /\ j < p
    BY <1>4, <2>3, <2>4, <2>7
  <2>8. CASE i > p /\ j > p
    <3>1. i - 1 = j - 1
      BY <1>4, <2>1, <2>2, <2>8
    <3> QED BY <3>1
  <2>9. CASE i < p /\ j > p
    <3>1. i = j - 1
      BY <1>4, <2>2, <2>3, <2>9
    <3> QED BY <3>1, <2>9, <1>1
  <2>10. CASE i > p /\ j < p
    <3>1. i - 1 = j
      BY <1>4, <2>1, <2>4, <2>10
    <3> QED BY <3>1, <2>10, <1>1
  <2>11. p \in Int
    BY <1>1
  <2> QED BY <2>6, <2>7, <2>8, <2>9, <2>10, <2>11
<1>8. Ordered(r, v)
  <2> SUFFICES ASSUME NEW i \in 1 .. Len(q) + 1, NEW j \in 1 .. Len(q) + 1, i < j
               PROVE  v[r[i]] <= v[r[j]]
    BY <1>1 DEF Ordered
  <2>1. CASE j < p
    <3>1. r[i] = q[i] /\ r[j] = q[j] /\ i \in 1 .. Len(q) /\ j \in 1 .. Len(q)
      BY <1>1, <1>2, <2>1
    <3> QED BY <1>5, <3>1
  <2>2. CASE j = p
    <3>1. r[i] = q[i] /\ r[j] = e /\ i \in 1 .. Len(q) /\ i \in 1 .. p - 1
      BY <1>1, <1>2, <2>2
    <3>2. ~(v[e] <= v[q[i]])
      BY <1>1, <1>3, <3>1 DEF Choosy
    <3> QED BY <1>6, <3>1, <3>2
  <2>3. CASE i < p /\ j > p
    <3>1. r[i] = q[i] /\ r[j] = q[j - 1] /\ i \in 1 .. Len(q) /\ j - 1 \in 1 .. Len(q)
      BY <1>1, <1>2, <2>3
    <3>2. i < j - 1
      BY <1>1, <2>3
    <3> QED BY <1>5, <3>1, <3>2
  <2>4. CASE i = p
    <3>1. r[i] = e /\ r[j] = q[j - 1] /\ p \in 1 .. Len(q) /\ j - 1 \in 1 .. Len(q) /\ p <= j - 1
      BY <1>1, <1>2, <2>4
    <3>2. v[e] <= v[q[p]]
      BY <1>1, <1>3, <3>1 DEF Choosy
    <3>3. v[q[p]] <= v[q[j - 1]]
      <4>1. CASE p = j - 1
        BY <1>6, <3>1, <4>1
      <4>2. CASE p < j - 1
        BY <1>5, <3>1, <4>2
      <4> QED BY <3>1, <4>1, <4>2
    <3> QED BY <1>6, <3>1, <3>2, <3>3
  <2>5. CASE i > p
    <3>1. r[i] = q[i - 1] /\ r[j] = q[j - 1] /\ i - 1 \in 1 .. Len(q) /\ j - 1 \in 1 .. Len(q)
          /\ i - 1 < j - 1
      BY <1>1, <1>2, <2>5
    <3> QED BY <1>5, <3>1
  <2>6. p \in Int
    BY <1>1
  <2> QED BY <2>1, <2>2, <2>3, <2>4, <2>5, <2>6
<1>9. Members(r) = Members(q) \union {e}
  <2>1. ASSUME NEW x \in Members(r) PROVE x \in Members(q) \union {e}
    <3>1. PICK i \in 1 .. Len(q) + 1 : x = r[i]
      BY <1>1 DEF Members, Range
    <3>2. \/ x = e
          \/ x = q[i] /\ i \in 1 .. Len(q)
          \/ x = q[i - 1] /\ i - 1 \in 1 .. Len(q)
      BY <1>1, <1>2, <3>1
    <3> QED BY <1>3, <3>2
  <2>2. ASSUME NEW x \in Members(q) \union {e} PROVE x \in Members(r)
    <3>1. CASE x = e
      <4>1. r[p] = e /\ p \in DOMAIN r
        BY <1>1, <1>2
      <4> QED BY <3>1, <4>1 DEF Members, Range
    <3>2. CASE x \in Members(q)
      <4>1. PICK i \in 1 .. Len(q) : x = q[i]
        BY <1>2, <3>2 DEF Members, Range
      <4>2. CASE i < p
        <5>1. i \in DOMAIN r /\ r[i] = x
          BY <1>1, <1>2, <4>1, <4>2
        <5> QED BY <5>1 DEF Members, Range
      <4>3. CASE i >= p
        <5>1. i + 1 \in DOMAIN r /\ i + 1 > p /\ (i + 1) - 1 = i
          BY <1>1, <1>2, <4>1, <4>3
        <5>2. r[i + 1] = x
          BY <1>1, <1>2, <4>1, <5>1
        <5> QED BY <5>1, <5>2 DEF Members, Range
      <4>4. i \in Int /\ p \in Int
        BY <1>1
      <4> QED BY <4>2, <4>3, <4>4
    <3> QED BY <3>1, <3>2
  <2> QED BY <2>1, <2>2
<1> QED BY <1>7, <1>8, <1>9 DEF r

-----------------------------------------------------------------------------
(* The queue and the time that is left.                                    *)

\* The delays that are asked for fit into 32 bits as half microseconds, and a timer and
\* what it is overdue stay within half the range of the clock.
NearFuture ==
    /\ Margin + MaxLate < Half
    /\ \A d \in Delays : Clamp(d) * MsUnits < Word /\ Clamp(d) * MsUnits + MaxLate < Half

\* The field time says when the moment that was asked for is.
OnTime(t) ==
    /\ left[t] >= -MaxLate /\ left[t] + MaxLate < Half
    /\ Ahead(now, time[t], left[t])

DueFirst == pc = "expire" => left[First] < Margin

\* The queue is in the order of the moments that were asked for.
Punctual ==
    /\ Distinct(queue) /\ Ordered(queue, left) /\ DueFirst
    /\ \A t \in Members(queue) : OnTime(t)

\* The step is one the service allows.
Promised == [Service!Next]_<<Members(queue), left, fired>>

LEMMA Parameters ==
    /\ {M, Margin, MsUnits, Word} \subseteq Nat \ {0} /\ {MaxLate, MaxSleep} \subseteq Nat
    /\ Half \in Nat /\ 2 * Half < M
BY TimerAssumption, HalfLemma

\* What the members of the queue are.
LEMMA MembersLemma ==
    ASSUME TypeOK
    PROVE  /\ Members(queue) \subseteq Timer
           /\ queue # <<>> => First \in Members(queue)
<1>1. \A i \in DOMAIN queue : queue[i] \in Timer
  BY ElementOfSeq, LenProperties DEF TypeOK
<1>2. Members(queue) \subseteq Timer
  BY <1>1 DEF Members, Range
<1>3. queue # <<>> => First \in Members(queue)
  BY PopLemma DEF TypeOK, First
<1> QED BY <1>2, <1>3

\* Steps that touch neither the queue nor the time.
LEMMA QuietStep ==
    ASSUME Punctual, UNCHANGED <<queue, left, fired, time, now>>, DueFirst'
    PROVE  Punctual' /\ Promised
<1>1. Members(queue)' = Members(queue)
  BY DEF Members, Range
<1>2. Punctual'
  BY <1>1 DEF Punctual, Distinct, Ordered, OnTime, Ahead
<1> QED BY <1>1, <1>2 DEF Promised

\* The first timer expires only when it is due.
LEMMA LookStep ==
    ASSUME NearFuture, IInv, Punctual, Look \/ CheckArmed
    PROVE  Punctual' /\ Promised
<1>1. UNCHANGED <<queue, left, fired, time, now>>
  BY DEF Look, CheckArmed
<1>2. queue # <<>> /\ First \in Members(queue) /\ First \in Timer
  BY MembersLemma DEF Look, CheckArmed, IInv, Busy
<1>3. /\ now \in Clock /\ time[First] \in Clock /\ left[First] \in Int
      /\ OnTime(First)
  BY <1>2 DEF IInv, TypeOK, Punctual
<1> DEFINE t == time[First]
           d == left[First]
<1>4. /\ d \in Int /\ t \in Clock /\ d >= -MaxLate /\ d + MaxLate < Half
      /\ t = now + d \/ t = now + d - M \/ t = now + d + M
  BY <1>3 DEF OnTime, Ahead
<1> HIDE DEF t, d
<1>5. now \in 0 .. M - 1 /\ t \in 0 .. M - 1
  BY <1>3, <1>4 DEF Clock
<1>6. CASE Look
  <2> DEFINE s == ClkSub(t, Margin)
  <2>1. Margin \in Nat /\ Margin <= M /\ Margin + MaxLate < Half
    BY Parameters DEF NearFuture
  <2>2. (s = t - Margin \/ s = t - Margin + M) /\ s \in Clock
    <3>1. s = t - Margin \/ s = t - Margin + M
      BY <1>4, <2>1, ClockMoves
    <3>2. s \in Clock
      BY <1>5, <2>1, ClockRange
    <3> QED BY <3>1, <3>2
  <2> HIDE DEF s
  <2>3. s \in 0 .. M - 1
    BY <2>2 DEF Clock
  <2>4. d - Margin \in Int /\ -Half < d - Margin /\ d - Margin < Half
    BY <1>4, <2>1, Parameters
  <2>5. s = now + (d - Margin) \/ s = now + (d - Margin) - M \/ s = now + (d - Margin) + M
    BY <1>4, <1>5, <2>1, <2>2, <2>3, <2>4, Parameters
  <2>6. ClkLowerEq(now, s) <=> d - Margin >= 0
    BY <1>3, <2>2, <2>4, <2>5, ClockOrder DEF Ahead
  <2>7. ClkLowerEq(now, s) \/ d < Margin
    BY <1>4, <2>1, <2>6
  <2>8. pc' = "expire" => d < Margin
    BY <1>6, <2>7 DEF Look, s, t
  <2> QED BY <1>1, <2>8, QuietStep DEF DueFirst, d, First
<1>7. CASE CheckArmed
  <2>1. -d \in Int /\ -Half < -d /\ -d < Half
    BY <1>4, Parameters DEF NearFuture
  <2>2. now = t + (-d) \/ now = t + (-d) - M \/ now = t + (-d) + M
    BY <1>4, <1>5, Parameters
  <2>3. NotAfter(t, now) <=> -d >= 0
    BY <1>3, <1>4, <2>1, <2>2, ClockOrder DEF Ahead
  <2>4. pc' = "expire" => d < Margin
    BY <1>4, <1>7, <2>3, Parameters DEF CheckArmed, Past, t
  <2> QED BY <1>1, <2>4, QuietStep DEF DueFirst, d, First
<1> QED BY <1>6, <1>7

\* A moment seen from a later one.
LEMMA LaterMoment ==
    ASSUME NEW m \in Nat, NEW h \in Nat, NEW l \in Nat, NEW n \in Nat, NEW d \in Int,
           NEW a \in Int, NEW b \in Int, NEW c \in Int, 2 * h < m, l < h,
           0 <= a, a < m, 0 <= b, b < m, 0 <= c, c < m,
           d - n >= -l, d + l < h,
           a = b + d \/ a = b + d - m \/ a = b + d + m,
           c = b + n \/ c = b + n - m
    PROVE  /\ d - n + l < h
           /\ a = c + (d - n) \/ a = c + (d - n) - m \/ a = c + (d - n) + m
<1>1. CASE c = b + n
  BY <1>1
<1>2. CASE c = b + n - m
  <2>1. CASE a = b + d
    BY <1>2, <2>1
  <2>2. CASE a = b + d - m
    BY <1>2, <2>2
  <2>3. CASE a = b + d + m
    <3>1. a = c + (d - n) + 2 * m
      BY <1>2, <2>3
    <3> QED BY <3>1
  <2> QED BY <2>1, <2>2, <2>3
<1> QED BY <1>1, <1>2

\* Time passes for all timers alike.
LEMMA ElapseStep ==
    ASSUME NearFuture, IInv, Punctual, NEW n \in 1 .. MaxSleep + 1, Elapse(n),
           UNCHANGED <<queue, time, pc, fired>>
    PROVE  Punctual' /\ Promised
<1>1. n \in Nat /\ left \in [Timer -> Int] /\ now \in Clock /\ queue \in Seq(Timer)
  BY Parameters DEF IInv, TypeOK
<1>2. Members(queue) \subseteq Timer /\ (queue # <<>> => First \in Members(queue))
  BY MembersLemma DEF IInv
<1>3. /\ left' \in [Timer -> Int]
      /\ \A t \in Members(queue) : left'[t] = left[t] - n /\ left[t] - n >= -MaxLate
      /\ left' = [t \in Timer |-> IF t \in Members(queue) THEN left[t] - n ELSE 0]
      /\ now' = ClkAdd(now, n)
  BY <1>1, <1>2 DEF Elapse
<1>4. Members(queue)' = Members(queue) /\ Distinct(queue')
  BY DEF Punctual, Members, Range, Distinct
<1>5. Ordered(queue', left')
  <2> SUFFICES ASSUME NEW i \in DOMAIN queue, NEW j \in DOMAIN queue, i < j
               PROVE  left'[queue[i]] <= left'[queue[j]]
    BY DEF Ordered
  <2>1. queue[i] \in Members(queue) /\ queue[j] \in Members(queue)
    BY DEF Members, Range
  <2>2. left[queue[i]] <= left[queue[j]]
    BY DEF Punctual, Ordered
  <2>3. left[queue[i]] \in Int /\ left[queue[j]] \in Int
    BY <1>1, <1>2, <2>1
  <2> QED BY <1>1, <1>3, <2>1, <2>2, <2>3
<1>6. DueFirst'
  <2> SUFFICES ASSUME pc = "expire" PROVE left'[Head(queue)] < Margin
    BY DEF DueFirst, First
  <2>1. First \in Members(queue) /\ left[First] < Margin /\ left[First] \in Int /\ Margin \in Nat
    BY <1>1, <1>2, Parameters, TimerAssumption DEF IInv, Busy, Punctual, DueFirst
  <2> QED BY <1>1, <1>3, <2>1 DEF First
<1>7. ASSUME NEW t \in Members(queue) PROVE OnTime(t)'
  <2>1. /\ left[t] \in Int /\ time[t] \in Clock /\ left'[t] = left[t] - n
        /\ left[t] - n >= -MaxLate /\ left[t] + MaxLate < Half
        /\ \/ time[t] = now + left[t] \/ time[t] = now + left[t] - M
           \/ time[t] = now + left[t] + M
    BY <1>1, <1>2, <1>3 DEF IInv, TypeOK, Punctual, OnTime, Ahead
  <2> DEFINE d == left[t]
             a == time[t]
  <2>2. /\ d \in Int /\ a \in 0 .. M - 1 /\ now \in 0 .. M - 1 /\ now' \in 0 .. M - 1
        /\ d - n >= -MaxLate /\ d + MaxLate < Half
        /\ a = now + d \/ a = now + d - M \/ a = now + d + M
    BY <1>1, <2>1, ElapseLemma DEF Clock, IInv
  <2> HIDE DEF d, a
  <2>3. n <= M
    <3>1. n \in Nat /\ d \in Int /\ d - n >= -MaxLate /\ d + MaxLate < Half
      BY <1>1, <2>2
    <3>2. MaxLate \in Nat /\ Half \in Nat /\ M \in Nat /\ 2 * Half < M
      BY Parameters
    <3> QED BY <3>1, <3>2
  <2>4. now' = now + n \/ now' = now + n - M
    BY <1>1, <1>3, <2>3, ClockMoves
  <2>5. MaxLate \in Nat /\ M \in Nat /\ Half \in Nat /\ 2 * Half < M /\ MaxLate < Half
    BY Parameters, TimerAssumption DEF NearFuture
  <2>6. /\ d - n + MaxLate < Half
        /\ a = now' + (d - n) \/ a = now' + (d - n) - M \/ a = now' + (d - n) + M
    <3> DEFINE b == now
               c == now'
    <3>1. b \in Int /\ c \in Int /\ 0 <= b /\ b < M /\ 0 <= c /\ c < M /\ a \in Int /\ 0 <= a /\ a < M
      BY <2>2, <2>5
    <3>2. c = b + n \/ c = b + n - M
      BY <2>4
    <3>3. /\ d \in Int /\ d - n >= -MaxLate /\ d + MaxLate < Half
          /\ a = b + d \/ a = b + d - M \/ a = b + d + M
      BY <2>2
    <3> HIDE DEF b, c
    <3>4. /\ d - n + MaxLate < Half
          /\ a = c + (d - n) \/ a = c + (d - n) - M \/ a = c + (d - n) + M
      BY <1>1, <2>5, <3>1, <3>2, <3>3, LaterMoment
    <3> QED BY <3>4 DEF c
  <2>7. time'[t] = a /\ left'[t] = d - n /\ left'[t] >= -MaxLate /\ left'[t] + MaxLate < Half
    BY <2>1, <2>2, <2>6 DEF a, d
  <2> QED BY <2>6, <2>7 DEF OnTime, Ahead
<1>8. Punctual'
  BY <1>4, <1>5, <1>6, <1>7 DEF Punctual
<1>9. Service!Elapse
  BY <1>3, <1>4 DEF Service!Elapse
<1> QED BY <1>8, <1>9 DEF Promised, Service!Next

\* A timer leaves the queue and is freed; the others stay as they are.
LEMMA LeaveStep ==
    ASSUME IInv, Punctual, NEW t \in Timer, Free({t}), now' = now,
           queue' \in Seq(Timer), Distinct(queue'), Ordered(queue', left),
           Members(queue') = Members(queue) \ {t}, pc' # "expire"
    PROVE  /\ Punctual' /\ Members(queue)' = Members(queue) \ {t}
           /\ left' = [left EXCEPT ![t] = 0]
<1>1. left \in [Timer -> Int] /\ Members(queue) \subseteq Timer
  BY MembersLemma DEF IInv, TypeOK
<1>2. left' = [left EXCEPT ![t] = 0]
  BY <1>1 DEF Free
<1>3. \A u \in Members(queue') : u \in Timer /\ left'[u] = left[u] /\ time'[u] = time[u]
  BY <1>1 DEF Free
<1>4. Ordered(queue', left')
  <2>1. \A i \in DOMAIN queue' : left'[queue'[i]] = left[queue'[i]]
    BY <1>3 DEF Members, Range
  <2> QED BY <2>1 DEF Ordered
<1>5. \A u \in Members(queue') : OnTime(u)'
  BY <1>3 DEF Punctual, OnTime, Ahead
<1>6. Members(queue)' = Members(queue')
  BY DEF Members, Range
<1>7. Punctual'
  BY <1>4, <1>5, <1>6 DEF Punctual, DueFirst
<1> QED BY <1>2, <1>6, <1>7

LEMMA ExpireStep ==
    ASSUME IInv, Punctual, ExpireFirst \/ \E t \in Timer : ClearFirst(t) \/ ClearOther(t)
    PROVE  Punctual' /\ Promised
<1>1. queue \in Seq(Timer) /\ Distinct(queue) /\ Ordered(queue, left) /\ left \in [Timer -> Int]
  BY DEF IInv, TypeOK, Punctual
<1>2. CASE ExpireFirst
  <2>1. queue # <<>> /\ First \in Members(queue) /\ First \in Timer /\ left[First] < Margin
    BY <1>2, MembersLemma DEF ExpireFirst, IInv, Busy, Punctual, DueFirst
  <2>2. /\ queue' \in Seq(Timer) /\ Distinct(queue') /\ Members(queue') = Members(queue) \ {First}
    BY <1>1, <1>2, <2>1, PopLemma DEF ExpireFirst, First
  <2>3. Ordered(queue', left) /\ \A t \in Members(queue) : left[First] <= left[t]
    BY <1>1, <1>2, <2>1, PopOrder DEF ExpireFirst, First
  <2>4. /\ Free({First}) /\ now' = now /\ pc' # "expire" /\ fired' = fired \union {First}
    BY <1>2 DEF ExpireFirst
  <2>5. /\ Punctual' /\ Members(queue)' = Members(queue) \ {First}
        /\ left' = [left EXCEPT ![First] = 0]
    BY <2>1, <2>2, <2>3, <2>4, LeaveStep
  <2>6. Service!Expire(First)
    BY <2>1, <2>3, <2>4, <2>5 DEF Service!Expire
  <2> QED BY <2>1, <2>5, <2>6 DEF Promised, Service!Next
<1>3. ASSUME NEW t \in Timer, ClearFirst(t) \/ ClearOther(t)
      PROVE  Punctual' /\ Promised
  <2>1. /\ queue' \in Seq(Timer) /\ Distinct(queue') /\ Ordered(queue', left)
        /\ Members(queue') = Members(queue) \ {t}
    <3>1. CASE ClearFirst(t)
      <4>1. queue # <<>> /\ t = Head(queue) /\ queue' = Tail(queue)
        BY <3>1 DEF ClearFirst, First
      <4> QED BY <1>1, <4>1, PopLemma, PopOrder
    <3>2. CASE ClearOther(t)
      <4>1. queue' = Extract(queue, {t})
        BY <3>2 DEF ClearOther
      <4> QED BY <1>1, <4>1, ExtractOrder
    <3> QED BY <1>3, <3>1, <3>2
  <2>2. Free({t}) /\ now' = now /\ pc' # "expire" /\ fired' = fired
    BY <1>3 DEF ClearFirst, ClearOther, InTask
  <2>3. /\ Punctual' /\ Members(queue)' = Members(queue) \ {t}
        /\ left' = [left EXCEPT ![t] = 0]
    BY <2>1, <2>2, LeaveStep
  <2>4. Service!Cancel(t)
    BY <2>2, <2>3 DEF Service!Cancel
  <2> QED BY <2>3, <2>4 DEF Promised, Service!Next
<1> QED BY <1>2, <1>3

LEMMA ResetStep ==
    ASSUME IInv, Punctual, Reset
    PROVE  Punctual' /\ Promised
<1>1. queue' = <<>> /\ fired' = {} /\ pc' = "main" /\ left' = [t \in Timer |-> 0]
  BY DEF Reset, InTask, Free
<1>2. Members(queue)' = {}
  BY <1>1 DEF Members, Range
<1>3. Punctual'
  BY <1>1, <1>2 DEF Punctual, Distinct, Ordered, DueFirst
<1>4. Service!Forget
  BY <1>1, <1>2 DEF Service!Forget
<1> QED BY <1>3, <1>4 DEF Promised, Service!Next

\* Two moments seen from a third.
LEMMA Between ==
    ASSUME NEW m \in Nat, NEW h \in Nat, 2 * h < m,
           NEW a \in Int, NEW b \in Int, NEW c \in Int, NEW d \in Int, NEW e \in Int,
           0 <= a, a < m, 0 <= b, b < m, 0 <= c, c < m,
           -h < e - d, e - d < h,
           b = a + d \/ b = a + d - m,
           c = a + e \/ c = a + e - m \/ c = a + e + m
    PROVE  c = b + (e - d) \/ c = b + (e - d) - m \/ c = b + (e - d) + m
<1>1. CASE b = a + d
  BY <1>1
<1>2. CASE b = a + d - m
  <2>1. CASE c = a + e
    BY <1>2, <2>1
  <2>2. CASE c = a + e - m
    BY <1>2, <2>2
  <2>3. CASE c = a + e + m
    <3>1. c = b + (e - d) + 2 * m
      BY <1>2, <2>3
    <3> QED BY <3>1
  <2> QED BY <2>1, <2>2, <2>3
<1> QED BY <1>1, <1>2

\* The comparison of ke_timer_set finds the place of a timer that is set to d.
LEMMA PlaceLemma ==
    ASSUME NearFuture, IInv, Punctual, NEW d \in Delays
    PROVE  LET new == ClkAdd(now, DelayTime(d))
               l   == Clamp(d) * MsUnits
           IN  /\ l \in Nat /\ l + MaxLate < Half /\ new \in Clock
               /\ new = now + l \/ new = now + l - M
               /\ \A u \in Members(queue) : NotAfter(new, time[u]) <=> l <= left[u]
<1> DEFINE l == Clamp(d) * MsUnits
           new == ClkAdd(now, DelayTime(d))
<1>1. l \in Nat /\ l < Word /\ l + MaxLate < Half
  BY DelayRange DEF NearFuture
<1>2. DelayTime(d) = l
  <2>1. \A x \in Nat : x < Word => x % Word = x
    BY TimerAssumption
  <2> QED BY <1>1, <2>1 DEF DelayTime
<1> HIDE DEF l
<1>3. now \in Clock /\ now \in Int /\ 0 <= now /\ now < M
  BY Parameters DEF IInv, TypeOK, Clock
<1>4. l <= M
  BY <1>1, Parameters
<1>5. new = now + l \/ new = now + l - M
  BY <1>1, <1>2, <1>3, <1>4, ClockMoves
<1>6. new \in Clock
  BY <1>1, <1>2, <1>3, ClockRange
<1> HIDE DEF new
<1>7. new \in Int /\ 0 <= new /\ new < M
  BY <1>6, Parameters DEF Clock
<1>8. ASSUME NEW u \in Members(queue)
      PROVE  NotAfter(new, time[u]) <=> l <= left[u]
  <2> DEFINE c == time[u]
             e == left[u]
  <2>1. /\ c \in Clock /\ e \in Int /\ e >= -MaxLate /\ e + MaxLate < Half
        /\ c = now + e \/ c = now + e - M \/ c = now + e + M
    BY MembersLemma DEF IInv, TypeOK, Punctual, OnTime, Ahead
  <2> HIDE DEF c, e
  <2>2. c \in Int /\ 0 <= c /\ c < M
    BY <2>1, Parameters DEF Clock
  <2>3. e - l \in Int /\ -Half < e - l /\ e - l < Half
    BY <1>1, <2>1, Parameters
  <2>4. c = new + (e - l) \/ c = new + (e - l) - M \/ c = new + (e - l) + M
    <3>1. M \in Nat /\ Half \in Nat /\ 2 * Half < M /\ l \in Int
      BY <1>1, Parameters
    <3> DEFINE a == now
    <3>2. a \in Int /\ 0 <= a /\ a < M /\ (new = a + l \/ new = a + l - M)
          /\ (c = a + e \/ c = a + e - M \/ c = a + e + M)
      BY <1>3, <1>5, <2>1
    <3> HIDE DEF a
    <3> QED BY <1>7, <2>1, <2>2, <2>3, <3>1, <3>2, Between
  <2>5. NotAfter(new, c) <=> e - l >= 0
    BY <1>6, <2>1, <2>3, <2>4, ClockOrder DEF Ahead
  <2> QED BY <1>1, <2>1, <2>5 DEF c, e
<1> QED BY <1>1, <1>5, <1>6, <1>8 DEF l, new

\* A timer that is set comes at its place.
LEMMA SetService ==
    ASSUME NearFuture, IInv, Punctual, NEW t \in Timer, NEW d \in Delays, SetTimer(t, d)
    PROVE  Punctual' /\ Promised
<1> DEFINE l == Clamp(d) * MsUnits
           new == ClkAdd(now, DelayTime(d))
           rest == Extract(queue, {t})
           S == {u \in Members(rest) : NotAfter(new, time[u])}
           v == [left EXCEPT ![t] = l]
           q == Insert(rest, t, S)
<1>1. /\ l \in Nat /\ l + MaxLate < Half /\ new \in Clock
      /\ new = now + l \/ new = now + l - M
      /\ \A u \in Members(queue) : NotAfter(new, time[u]) <=> l <= left[u]
  BY PlaceLemma
<1>2. /\ queue' = q /\ time' = [time EXCEPT ![t] = new] /\ left' = v
      /\ fired' = fired \ {t} /\ now' = now /\ pc' # "expire"
  BY DEF SetTimer, Requeue
<1> HIDE DEF new, q
<1>3. /\ queue \in Seq(Timer) /\ left \in [Timer -> Int] /\ time \in [Timer -> Clock]
      /\ Distinct(queue) /\ Ordered(queue, left) /\ Members(queue) \subseteq Timer
  BY MembersLemma DEF IInv, TypeOK, Punctual
<1>4. /\ rest \in Seq(Timer) /\ Distinct(rest) /\ Ordered(rest, left)
      /\ Members(rest) = Members(queue) \ {t}
  BY <1>3, ExtractOrder
<1> HIDE DEF rest, l
<1>5. v \in [Timer -> Int] /\ v[t] = l /\ \A u \in Members(rest) : v[u] = left[u]
  BY <1>1, <1>3, <1>4
<1>6. Ordered(rest, v)
  <2>1. \A i \in DOMAIN rest : v[rest[i]] = left[rest[i]]
    BY <1>5 DEF Members, Range
  <2> QED BY <1>4, <2>1 DEF Ordered
<1>7. \A u \in Members(rest) : u \in S <=> v[t] <= v[u]
  BY <1>1, <1>4, <1>5
<1> HIDE DEF v, S
<1>8. Distinct(q) /\ Ordered(q, v) /\ Members(q) = Members(rest) \union {t}
  <2>1. t \notin Members(rest)
    BY <1>4
  <2>2. Choosy(rest, t, S, v)
    BY <1>7 DEF Choosy
  <2> QED BY <1>4, <1>5, <1>6, <2>1, <2>2, InsertOrder DEF q
<1>9. Members(queue)' = Members(queue) \union {t}
  <2>1. Members(queue)' = Members(queue')
    BY DEF Members, Range
  <2> QED BY <1>2, <1>4, <1>8, <2>1
<1>10. ASSUME NEW u \in Members(queue') PROVE OnTime(u)'
  <2>1. CASE u = t
    <3>1. left'[u] = l /\ time'[u] = new
      BY <1>2, <1>3, <1>5, <2>1
    <3>2. l >= -MaxLate
      BY <1>1, Parameters
    <3> QED BY <1>1, <1>2, <3>1, <3>2 DEF OnTime, Ahead
  <2>2. CASE u # t
    <3>1. u \in Members(rest) /\ u \in Members(queue) /\ u \in Timer
      BY <1>2, <1>3, <1>4, <1>8, <2>2
    <3>2. left'[u] = left[u] /\ time'[u] = time[u]
      BY <1>2, <1>3, <1>5, <2>2, <3>1
    <3> QED BY <1>2, <3>1, <3>2 DEF Punctual, OnTime, Ahead
  <2> QED BY <2>1, <2>2
<1>11. Punctual'
  <2>1. Members(queue)' = Members(queue')
    BY DEF Members, Range
  <2>2. Distinct(queue)' /\ Ordered(queue, left)' /\ DueFirst'
    BY <1>2, <1>8 DEF Distinct, Ordered, DueFirst
  <2> QED BY <1>10, <2>1, <2>2 DEF Punctual
<1>12. Service!Set(t)
  <2>1. left' = [left EXCEPT ![t] = l] /\ l \in {Clamp(e) * MsUnits : e \in Delays}
    BY <1>2 DEF v, l
  <2> QED BY <1>2, <1>9, <2>1 DEF Service!Set
<1> QED BY <1>11, <1>12 DEF Promised, Service!Next

\* Every step keeps the order and is one the service allows.
LEMMA ServiceStep ==
    ASSUME NearFuture, IInv, Punctual, [Next]_vars
    PROVE  Punctual' /\ Promised
<1>1. CASE UNCHANGED vars
  BY <1>1, QuietStep DEF vars, Punctual, DueFirst, First
<1>2. CASE TimerEvent \/ NothingLeft \/ ArmFirst \/ ArmSet \/ CheckSet \/ ArmClear
           \/ CheckClear \/ PastTarget
  <2>1. UNCHANGED <<queue, left, fired, time, now>> /\ pc' # "expire"
    BY <1>2 DEF TimerEvent, NothingLeft, ArmFirst, ArmSet, CheckSet, ArmClear, CheckClear,
                PastTarget, Idle, InTask
  <2> QED BY <2>1, QuietStep DEF DueFirst
<1>3. CASE Isr \/ IntDisable
  <2>1. UNCHANGED <<queue, left, fired, time, now>> /\ pc' = pc
    BY <1>3 DEF Isr, IntDisable
  <2> QED BY <2>1, QuietStep DEF DueFirst, Punctual, First
<1>4. CASE Look \/ CheckArmed
  BY <1>4, LookStep
<1>5. CASE ExpireFirst \/ \E t \in Timer : ClearFirst(t) \/ ClearOther(t)
  BY <1>5, ExpireStep
<1>6. CASE \E t \in Timer : \E d \in Delays : SetTimer(t, d)
  BY <1>6, SetService
<1>7. CASE Reset
  BY <1>7, ResetStep
<1>8. CASE Tick
  <2>1. 1 \in 1 .. MaxSleep + 1 /\ Elapse(1) /\ UNCHANGED <<queue, time, pc, fired>>
    BY <1>8, TimerAssumption DEF Tick
  <2> QED BY <2>1, ElapseStep
<1>9. ASSUME NEW n \in 1 .. MaxSleep, DeepSleep(n) \/ DeepSleepHandled(n)
      PROVE  Punctual' /\ Promised
  <2>1. n \in 1 .. MaxSleep + 1 /\ Elapse(n) /\ UNCHANGED <<queue, time, pc, fired>>
    BY <1>9, TimerAssumption DEF DeepSleep, DeepSleepHandled, MaySleep
  <2> QED BY <2>1, ElapseStep
<1> QED BY <1>1, <1>2, <1>3, <1>4, <1>5, <1>6, <1>7, <1>8, <1>9 DEF Next, Schedule

\* Whatever the clock's wrap-around and the interleaving with the interrupt, the timers
\* expire in the order of the moments that were asked for, none before its moment but for
\* the margin, none twice and none after ke_timer_clear: ke_timer.c implements
\* KeTimerService when every delay fits into 32 bits of half microseconds and half the
\* range of the clock.
THEOREM TimersAreServed == NearFuture => (Spec => ImplementsService)
<1> SUFFICES ASSUME NearFuture PROVE Spec => ImplementsService
  OBVIOUS
<1>1. Init => Punctual
  <2> SUFFICES ASSUME Init PROVE Punctual
    OBVIOUS
  <2>1. queue = <<>> /\ Members(queue) = {} /\ pc = "main"
    BY DEF Init, Members, Range
  <2> QED BY <2>1 DEF Punctual, Distinct, Ordered, DueFirst
<1>2. Init => Service!Init
  <2> SUFFICES ASSUME Init PROVE Service!Init
    OBVIOUS
  <2>1. Members(queue) = {}
    BY DEF Init, Members, Range
  <2> QED BY <2>1 DEF Init, Service!Init
<1>3. IInv /\ Punctual /\ [Next]_vars => Punctual' /\ Promised
  BY ServiceStep
<1>4. IInv /\ Punctual /\ [Next]_vars => [Service!Next]_<<Members(queue), left, fired>>
  BY <1>3 DEF Promised
<1> QED BY <1>1, <1>2, <1>3, <1>4, InductiveInvariant, PTL
    DEF Spec, ImplementsService, Service!Spec

=============================================================================
