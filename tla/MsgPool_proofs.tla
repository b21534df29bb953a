--------------------------- MODULE MsgPool_proofs ---------------------------
(***************************************************************************)
(* Theorems about the message pool for every size of the ring and every    *)
(* range of the counters that is a multiple of it: the ring and its two    *)
(* counters implement a bounded queue, also across the wrap of the         *)
(* counters, and a request of which one is enough is in it once, or twice  *)
(* if an interrupt puts it as well, until the first wrap.                  *)
(***************************************************************************)
EXTENDS MsgPool, TLAPS

\* Sequences of the same length with the same elements are equal.
LEMMA SequencesEqual ==
    ASSUME NEW S, NEW s \in Seq(S), NEW t \in Seq(S), Len(s) = Len(t),
           \A i \in 1 .. Len(s) : s[i] = t[i]
    PROVE  s = t
OBVIOUS

Slots == 0 .. Count - 1
Counters == 0 .. Range - 1

\* How far in_id is ahead of out_id, around the wrap.
Ahead == IF outId <= inId THEN inId - outId ELSE inId + Range - outId

Typed ==
    /\ pool \in [Slots -> Ids \cup {None}]
    /\ inId \in Counters /\ outId \in Counters
    /\ putting \in Ids \cup {None}
    /\ wrapped \in BOOLEAN

\* The status tells how many messages there are when the slots alone do not.
Ring ==
    /\ Ahead \in 0 .. Count
    /\ status = IF Ahead = 0 THEN "empty" ELSE IF Ahead = Count THEN "full" ELSE "adsum"

\* How often a message is in a sequence at most.
Absent(s, x) == \A i \in 1 .. Len(s) : s[i] # x
NoPair(s, x) == \A i, j \in 1 .. Len(s) : i < j => ~(s[i] = x /\ s[j] = x)
NoTriple(s, x) ==
    \A i, j, k \in 1 .. Len(s) : i < j /\ j < k => ~(s[i] = x /\ s[j] = x /\ s[k] = x)

\* Until the first wrap the counters are in order, and each request is there once or,
\* if an interrupt puts it as well, twice.  One that the main loop has looked for and not
\* put yet is not there, or has been put once by the interrupt since.
Single ==
    ~wrapped =>
        /\ outId <= inId
        /\ \A x \in Once : NoTriple(Messages, x)
        /\ \A x \in Once \ IsrIds : NoPair(Messages, x)
        /\ putting \in Once => NoPair(Messages, putting)
        /\ putting \in Once \ IsrIds => Absent(Messages, putting)

IInv == Typed /\ Ring /\ Single

-----------------------------------------------------------------------------
(* Remainders. *)

\* Division with a remainder.
LEMMA ModDef ==
    ASSUME NEW n \in Nat \ {0}, NEW a \in Int
    PROVE  /\ a % n \in 0 .. n - 1
           /\ a \div n \in Int
           /\ a = n * (a \div n) + (a % n)
OBVIOUS

\* A quotient and a remainder in range are the ones.
LEMMA ModOnly ==
    ASSUME NEW n \in Nat \ {0}, NEW q \in Int, NEW r \in 0 .. n - 1
    PROVE  (n * q + r) % n = r
<1> DEFINE a == n * q + r
<1>1. a \in Int
  OBVIOUS
<1>2. a % n \in 0 .. n - 1 /\ a \div n \in Int /\ a = n * (a \div n) + (a % n)
  BY <1>1, ModDef
<1>3. ASSUME NEW x \in Int, NEW m \in 0 .. n - 1, n * q + r = n * x + m
      PROVE  x = q
  <2>1. CASE x >= q + 1
    <3>1. n * x >= n * (q + 1)
      BY <2>1
    <3> QED BY <3>1, <1>3
  <2>2. CASE x <= q - 1
    <3>1. n * x <= n * (q - 1)
      BY <2>2
    <3> QED BY <3>1, <1>3
  <2> QED BY <2>1, <2>2
<1>4. a \div n = q
  BY <1>2, <1>3
<1> QED BY <1>4, <1>2

\* Numbers that are less than n apart have different remainders.
LEMMA ModDiffer ==
    ASSUME NEW n \in Nat \ {0}, NEW a \in Int, NEW b \in Int,
           a < b, b < a + n
    PROVE  a % n # b % n
<1> SUFFICES ASSUME a % n = b % n PROVE FALSE
  OBVIOUS
<1>1. /\ a = n * (a \div n) + (a % n) /\ a \div n \in Int
      /\ b = n * (b \div n) + (b % n) /\ b \div n \in Int /\ a % n \in Int
  BY ModDef
<1> DEFINE x == a \div n
           y == b \div n
           r == a % n
<1>2. a = n * x + r /\ b = n * y + r /\ x \in Int /\ y \in Int /\ r \in Int
  BY <1>1
<1> HIDE DEF x, y, r
<1>3. CASE y >= x + 1
  <2>1. n * y >= n * (x + 1)
    BY <1>2, <1>3
  <2> QED BY <2>1, <1>2
<1>4. CASE y <= x
  <2>1. n * y <= n * x
    BY <1>2, <1>4
  <2> QED BY <2>1, <1>2
<1> QED BY <1>2, <1>3, <1>4

\* The slot of a counter is that of its value before the wrap.
LEMMA SlotWraps ==
    ASSUME NEW a \in Int
    PROVE  Slot(a + Range) = Slot(a) /\ Slot(a) \in Slots
<1>1. Count \in Nat \ {0} /\ Range \in Nat \ {0} /\ Range % Count = 0
  BY MsgPoolAssumption
<1>2. Range = Count * (Range \div Count) /\ Range \div Count \in Int
  BY <1>1, ModDef
<1>3. /\ a = Count * (a \div Count) + (a % Count)
      /\ a \div Count \in Int /\ a % Count \in 0 .. Count - 1
  BY <1>1, ModDef
<1> DEFINE q == a \div Count + Range \div Count
           r == a % Count
<1>4. /\ q \in Int /\ r \in 0 .. Count - 1
      /\ a + Range = Count * q + r
  BY <1>1, <1>2, <1>3
<1> HIDE DEF q, r
<1>5. (Count * q + r) % Count = r
  BY <1>1, <1>4, ModOnly
<1>6. (a + Range) % Count = r
  BY <1>4, <1>5
<1> QED BY <1>3, <1>6 DEF Slot, Slots, r

\* Counters less than a round apart point to different slots.
LEMMA SlotsDiffer ==
    ASSUME NEW a \in Int, NEW b \in Int, a < b, b < a + Count
    PROVE  Slot(a) # Slot(b)
BY ModDiffer, MsgPoolAssumption DEF Slot

-----------------------------------------------------------------------------
(* The ring. *)

\* The counters after a step forward.
LEMMA NextCounter ==
    ASSUME NEW i \in Counters
    PROVE  /\ (i + 1) % Range \in Counters
           /\ (i + 1) % Range = IF i + 1 = Range THEN 0 ELSE i + 1
           /\ Slot(i + 1) = Slot((i + 1) % Range)
<1>1. Range \in Nat \ {0}
  BY MsgPoolAssumption
<1>2. CASE i + 1 = Range
  <2>1. (i + 1) % Range = 0
    BY <1>1, <1>2
  <2>2. Slot(0 + Range) = Slot(0) /\ 0 + Range = i + 1
    BY <1>1, <1>2, SlotWraps
  <2> QED BY <1>1, <1>2, <2>1, <2>2 DEF Counters
<1>3. CASE i + 1 # Range
  <2>1. i + 1 \in 0 .. Range - 1
    BY <1>1, <1>3 DEF Counters
  <2>2. (i + 1) % Range = i + 1
    BY <1>1, <2>1
  <2> QED BY <1>3, <2>1, <2>2 DEF Counters
<1> QED BY <1>2, <1>3

\* What the refinement calls Held is the distance of the counters.
LEMMA HeldIsAhead ==
    ASSUME Typed, Ring
    PROVE  Held = Ahead /\ Ahead \in 0 .. Count
<1>1. /\ Range \in Nat \ {0} /\ Count \in Nat \ {0} /\ Count < Range
      /\ inId \in 0 .. Range - 1 /\ outId \in 0 .. Range - 1
  BY MsgPoolAssumption DEF Typed, Counters
<1>2. (inId + Range - outId) % Range = Ahead
  BY <1>1 DEF Ahead
<1> QED BY <1>2 DEF Held, Ring

Counted == Held = Ahead /\ Ahead \in 0 .. Count

\* The same after a step.
LEMMA CountedNext == Typed' /\ Ring' => Counted'
<1>1. Typed /\ Ring => Counted
  BY HeldIsAhead DEF Counted
<1> QED BY <1>1, PTL

\* The slot that in_id points to is Ahead slots behind that of out_id.
LEMMA InSlot ==
    ASSUME Typed, Ring
    PROVE  Slot(inId) = Slot(outId + Ahead)
<1>1. Range \in Nat /\ inId \in Int /\ outId \in Int
  BY MsgPoolAssumption DEF Typed, Counters
<1>2. outId + Ahead = inId \/ outId + Ahead = inId + Range
  BY <1>1 DEF Ahead
<1> QED BY <1>1, <1>2, SlotWraps

\* The slots with messages are different ones.
LEMMA HeldSlots ==
    ASSUME Typed, Ring, NEW i \in 0 .. Count - 1, NEW j \in 0 .. Count - 1, i # j
    PROVE  Slot(outId + i) # Slot(outId + j)
<1>1. outId \in Int /\ Count \in Nat
  BY MsgPoolAssumption DEF Typed, Counters
<1>2. CASE i < j
  BY <1>1, <1>2, SlotsDiffer
<1>3. CASE j < i
  BY <1>1, <1>3, SlotsDiffer
<1> QED BY <1>2, <1>3

\* A message more: the ring and its status.
LEMMA InsertRing ==
    ASSUME Typed, Ring, NEW id \in Ids, Insert(id), status # "full", UNCHANGED outId
    PROVE  /\ Ahead < Count
           /\ pool' = [pool EXCEPT ![Slot(inId)] = id]
           /\ inId' \in Counters
           /\ Ahead' = Ahead + 1
           /\ Ring'
<1>1. /\ Range \in Nat \ {0} /\ Count \in Nat \ {0} /\ Count < Range
      /\ inId \in 0 .. Range - 1 /\ outId \in 0 .. Range - 1
  BY MsgPoolAssumption DEF Typed, Counters
<1>2. Ahead \in 0 .. Count /\ Ahead # Count
  BY <1>1 DEF Ring
<1>3. /\ pool' = [pool EXCEPT ![Slot(inId)] = id]
      /\ inId' = (inId + 1) % Range
      /\ status' = NewStatus(inId + 1, outId, "full")
  BY DEF Insert
<1>4. inId' \in Counters /\ inId' = IF inId + 1 = Range THEN 0 ELSE inId + 1
  BY <1>1, <1>3, NextCounter DEF Counters
<1>5. Ahead' = Ahead + 1
  BY <1>1, <1>2, <1>4 DEF Ahead, Counters
<1>6. Slot(inId + 1) = Slot(outId + (Ahead + 1))
  <2>1. outId + (Ahead + 1) = inId + 1 \/ outId + (Ahead + 1) = (inId + 1) + Range
    BY <1>1 DEF Ahead
  <2>2. Slot((inId + 1) + Range) = Slot(inId + 1)
    BY <1>1, SlotWraps
  <2> QED BY <2>1, <2>2
<1>7. Ahead' = Count <=> Slot(inId + 1) = Slot(outId)
  <2>1. CASE Ahead + 1 = Count
    <3>1. /\ Count \in Nat \ {0} /\ outId \in Int
          /\ outId = Count * (outId \div Count) + (outId % Count)
          /\ outId \div Count \in Int /\ outId % Count \in 0 .. Count - 1
      BY <1>1, ModDef
    <3> DEFINE q == outId \div Count + 1
    <3>2. q \in Int /\ outId + Count = Count * q + (outId % Count)
      BY <3>1
    <3> HIDE DEF q
    <3>3. (outId + Count) % Count = outId % Count
      BY <3>1, <3>2, ModOnly
    <3> QED BY <1>5, <1>6, <2>1, <3>3 DEF Slot
  <2>2. CASE Ahead + 1 # Count
    <3>1. outId < outId + (Ahead + 1) /\ outId + (Ahead + 1) < outId + Count
      BY <1>1, <1>2, <2>2
    <3>2. Slot(outId) # Slot(outId + (Ahead + 1))
      BY <1>1, <1>2, <3>1, SlotsDiffer
    <3> QED BY <1>5, <1>6, <2>2, <3>2
  <2> QED BY <2>1, <2>2
<1>8. Ahead' \in 0 .. Count /\ Ahead' # 0
  BY <1>1, <1>2, <1>5
<1>9. Ring'
  BY <1>3, <1>7, <1>8 DEF Ring, NewStatus
<1> QED BY <1>1, <1>2, <1>3, <1>4, <1>5, <1>9

\* A message less.
LEMMA GetRing ==
    ASSUME Typed, Ring, Get
    PROVE  /\ Ahead > 0
           /\ outId' \in Counters
           /\ Ahead' = Ahead - 1
           /\ \A i \in Int : Slot(outId' + i) = Slot(outId + (i + 1))
           /\ Ring'
<1>1. /\ Range \in Nat \ {0} /\ Count \in Nat \ {0} /\ Count < Range
      /\ inId \in 0 .. Range - 1 /\ outId \in 0 .. Range - 1
  BY MsgPoolAssumption DEF Typed, Counters
<1>2. Ahead \in 0 .. Count /\ Ahead # 0
  BY DEF Ring, Get
<1>3. /\ outId' = (outId + 1) % Range
      /\ status' = NewStatus(inId, outId + 1, "empty")
      /\ inId' = inId
  BY DEF Get
<1>4. outId' \in Counters /\ outId' = IF outId + 1 = Range THEN 0 ELSE outId + 1
  BY <1>1, <1>3, NextCounter DEF Counters
<1>5. Ahead' = Ahead - 1
  BY <1>1, <1>2, <1>3, <1>4 DEF Ahead, Counters
<1>6. ASSUME NEW i \in Int PROVE Slot(outId' + i) = Slot(outId + (i + 1))
  <2>1. \/ outId + (i + 1) = outId' + i
        \/ outId + (i + 1) = (outId' + i) + Range
    BY <1>1, <1>4
  <2> QED BY <1>1, <1>4, <2>1, SlotWraps DEF Counters
<1>7. Ahead' = 0 <=> Slot(inId) = Slot(outId + 1)
  <2>1. Slot(inId) = Slot(outId + Ahead)
    BY InSlot
  <2>2. CASE Ahead = 1
    BY <1>5, <2>1, <2>2
  <2>3. CASE Ahead # 1
    <3>1. outId + 1 < outId + Ahead /\ outId + Ahead < outId + 1 + Count
      BY <1>1, <1>2, <2>3
    <3>2. Slot(outId + 1) # Slot(outId + Ahead)
      BY <1>1, <1>2, <3>1, SlotsDiffer
    <3> QED BY <1>2, <1>5, <2>1, <2>3, <3>2
  <2> QED BY <2>2, <2>3
<1>8. Ahead' \in 0 .. Count /\ Ahead' # Count
  BY <1>1, <1>2, <1>5
<1>9. Ring'
  BY <1>3, <1>7, <1>8 DEF Ring, NewStatus
<1> QED BY <1>1, <1>2, <1>4, <1>5, <1>6, <1>9

-----------------------------------------------------------------------------
(* The invariant. *)

\* Each step keeps the types and the meaning of the status.
LEMMA TypedStep == Typed /\ Ring /\ Next => Typed' /\ Ring'
<1> SUFFICES ASSUME Typed, Ring, Next PROVE Typed' /\ Ring'
  OBVIOUS
<1> USE DEF Typed
<1>1. \A i \in Int : Slot(i) \in Slots
  BY SlotWraps
<1>2. ASSUME NEW id \in Ids, Insert(id), UNCHANGED outId
      PROVE  /\ pool' \in [Slots -> Ids \cup {None}] /\ inId' \in Counters
             /\ wrapped' \in BOOLEAN /\ Ring'
  <2>1. CASE status = "full"
    BY <1>2, <2>1 DEF Insert, Ring, Ahead
  <2>2. CASE status # "full"
    <3>1. wrapped' \in BOOLEAN
      BY <1>2, <2>2 DEF Insert
    <3> QED BY <1>2, <2>2, <3>1, InsertRing
  <2> QED BY <2>1, <2>2
<1>3. CASE \E id \in Ids : Check(id)
  BY <1>3 DEF Check, Ring, Ahead
<1>4. CASE PutMain
  <2>1. putting \in Ids
    BY <1>4 DEF PutMain
  <2> QED BY <1>2, <1>4, <2>1 DEF PutMain
<1>5. CASE \E id \in IsrIds : PutIsr(id)
  BY <1>2, <1>5, MsgPoolAssumption DEF PutIsr, Ids
<1>6. CASE Get
  BY <1>6, GetRing DEF Get
<1> QED BY <1>3, <1>4, <1>5, <1>6 DEF Next

-----------------------------------------------------------------------------
(* The messages as a sequence. *)

\* The messages are a sequence as long as the distance of the counters.
LEMMA MessagesLemma ==
    ASSUME Typed, Ring
    PROVE  /\ Messages \in Seq(Ids \cup {None}) /\ Len(Messages) = Ahead
           /\ DOMAIN Messages = 1 .. Ahead
           /\ \A k \in 1 .. Ahead : Messages[k] = pool[Slot(outId + k - 1)]
<1>1. Held = Ahead /\ Ahead \in Nat /\ outId \in Int
  BY HeldIsAhead, MsgPoolAssumption DEF Typed, Counters
<1>2. \A k \in 1 .. Ahead : pool[Slot(outId + k - 1)] \in Ids \cup {None}
  BY <1>1, SlotWraps DEF Typed
<1> QED BY <1>1, <1>2 DEF Messages

\* What was put stands at the end.
LEMMA InsertQueue ==
    ASSUME Typed, Ring, NEW id \in Ids, Insert(id), UNCHANGED outId, Typed', Ring'
    PROVE  Queue!Put(id) \/ UNCHANGED Messages
<1>1. CASE status = "full"
  <2>1. UNCHANGED <<pool, inId, outId, status>>
    BY <1>1 DEF Insert
  <2> QED BY <2>1 DEF Messages, Held, Slot
<1>2. CASE status # "full"
  <2>1. /\ Ahead < Count /\ Ahead \in 0 .. Count /\ Count \in Nat
        /\ pool' = [pool EXCEPT ![Slot(inId)] = id]
        /\ Ahead' = Ahead + 1 /\ outId' = outId /\ outId \in Int /\ inId \in Int
    BY <1>2, InsertRing, HeldIsAhead, MsgPoolAssumption DEF Typed, Counters
  <2>2. Slot(inId) = Slot(outId + Ahead) /\ Slot(inId) \in Slots
    BY <2>1, InSlot, SlotWraps
  <2>3. /\ Messages \in Seq(Ids \cup {None}) /\ Len(Messages) = Ahead
        /\ \A k \in 1 .. Ahead : Messages[k] = pool[Slot(outId + k - 1)]
    BY MessagesLemma
  <2>4. /\ Messages' \in Seq(Ids \cup {None}) /\ Len(Messages') = Ahead + 1
        /\ \A k \in 1 .. Ahead + 1 : Messages'[k] = pool'[Slot(outId + k - 1)]
    <3>1. /\ Held' = Ahead' /\ Ahead' \in Nat
      BY <2>1, CountedNext DEF Counted
    <3>2. \A k \in 1 .. Ahead + 1 : pool'[Slot(outId + k - 1)] \in Ids \cup {None}
      BY <2>1, SlotWraps DEF Typed
    <3>3. Messages' = [k \in 1 .. Ahead + 1 |-> pool'[Slot(outId + k - 1)]]
      BY <2>1, <3>1 DEF Messages, Slot
    <3> HIDE DEF Messages
    <3> QED BY <2>1, <3>1, <3>2, <3>3
  <2>5. pool'[Slot(outId + (Ahead + 1) - 1)] = id
    <3>1. outId + (Ahead + 1) - 1 = outId + Ahead
      BY <2>1
    <3> QED BY <2>1, <2>2, <3>1 DEF Typed
  <2>6. \A i \in 1 .. Ahead :
           pool'[Slot(outId + i - 1)] = pool[Slot(outId + i - 1)]
    <3> SUFFICES ASSUME NEW i \in 1 .. Ahead
                 PROVE  pool'[Slot(outId + i - 1)] = pool[Slot(outId + i - 1)]
      OBVIOUS
    <3>1. i - 1 \in 0 .. Count - 1 /\ Ahead \in 0 .. Count - 1 /\ i - 1 # Ahead
          /\ outId + i - 1 = outId + (i - 1)
      BY <2>1
    <3>2. Slot(outId + (i - 1)) # Slot(outId + Ahead)
      BY <3>1, HeldSlots
    <3>3. Slot(outId + (i - 1)) \in Slots
      BY <2>1, <3>1, SlotWraps
    <3> QED BY <2>1, <2>2, <3>1, <3>2, <3>3 DEF Typed
  <2>7. \A k \in 1 .. Ahead + 1 : Messages'[k] = Append(Messages, id)[k]
    <3> SUFFICES ASSUME NEW k \in 1 .. Ahead + 1
                 PROVE  Messages'[k] = Append(Messages, id)[k]
      OBVIOUS
    <3>1. CASE k = Ahead + 1
      BY <2>1, <2>3, <2>4, <2>5, <3>1
    <3>2. CASE k \in 1 .. Ahead
      BY <2>1, <2>3, <2>4, <2>6, <3>2
    <3>3. k \in 1 .. Ahead \/ k = Ahead + 1
      <4>1. Ahead \in Nat
        BY <2>1
      <4> QED BY <4>1
    <3> QED BY <3>1, <3>2, <3>3
  <2>8. Messages' = Append(Messages, id)
    BY <2>1, <2>3, <2>4, <2>7
  <2> QED BY <2>1, <2>3, <2>8 DEF Queue!Put
<1> QED BY <1>1, <1>2

\* What is taken stood first.
LEMMA GetQueue ==
    ASSUME Typed, Ring, Get, Typed', Ring'
    PROVE  Queue!Get
<1>1. /\ Ahead > 0 /\ Ahead' = Ahead - 1 /\ Ahead \in Nat
      /\ \A i \in Int : Slot(outId' + i) = Slot(outId + (i + 1))
      /\ pool' = pool /\ outId \in Int /\ outId' \in Int
  BY GetRing, HeldIsAhead, MsgPoolAssumption DEF Get, Typed, Counters
<1>2. /\ Messages \in Seq(Ids \cup {None}) /\ Len(Messages) = Ahead
      /\ \A k \in 1 .. Ahead : Messages[k] = pool[Slot(outId + k - 1)]
  BY MessagesLemma
<1>3. Held' = Ahead'
  BY CountedNext DEF Counted
<1>4. \A k \in 1 .. Ahead - 1 :
         pool'[Slot(outId' + k - 1)] = pool[Slot(outId + (k + 1) - 1)]
  <2> SUFFICES ASSUME NEW k \in 1 .. Ahead - 1
               PROVE  Slot(outId' + k - 1) = Slot(outId + (k + 1) - 1)
    BY <1>1
  <2>1. k - 1 \in Int /\ outId' + k - 1 = outId' + (k - 1)
        /\ outId + ((k - 1) + 1) = outId + (k + 1) - 1
    BY <1>1
  <2> QED BY <1>1, <2>1
<1>5. Messages' = [k \in 1 .. Ahead - 1 |-> pool'[Slot(outId' + k - 1)]]
  BY <1>1, <1>3 DEF Messages, Slot
<1>6. Messages # << >>
  BY <1>1, <1>2
<1>7. /\ Tail(Messages) \in Seq(Ids \cup {None}) /\ Len(Tail(Messages)) = Ahead - 1
      /\ \A k \in 1 .. Ahead - 1 : Tail(Messages)[k] = Messages[k + 1]
  BY <1>1, <1>2, <1>6
<1>8. /\ Messages' \in Seq(Ids \cup {None}) /\ Len(Messages') = Ahead - 1
      /\ \A k \in 1 .. Ahead - 1 : Messages'[k] = Messages[k + 1]
  <2>1. \A k \in 1 .. Ahead - 1 : k + 1 \in 1 .. Ahead /\ Messages[k + 1] \in Ids \cup {None}
    <3>1. Ahead \in Nat
      BY <1>1
    <3>2. \A k \in 1 .. Ahead - 1 : k + 1 \in 1 .. Ahead
      BY <3>1
    <3>3. \A k \in 1 .. Ahead : Messages[k] \in Ids \cup {None}
      BY <1>2, <3>1
    <3> QED BY <3>2, <3>3
  <2>2. \A k \in 1 .. Ahead - 1 :
           Messages[k + 1] = pool'[Slot(outId' + k - 1)]
    BY <1>2, <1>4, <2>1
  <2>3. Ahead - 1 \in Nat
    BY <1>1
  <2> QED BY <1>5, <2>1, <2>2, <2>3
<1>9. Messages' = Tail(Messages)
  BY <1>7, <1>8, SequencesEqual
<1> QED BY <1>6, <1>9 DEF Queue!Get

-----------------------------------------------------------------------------
(* Requests of which one is enough. *)

\* One message more is one copy more of itself, and none of the others.
LEMMA AppendCopies ==
    ASSUME NEW S, NEW s \in Seq(S), NEW id \in S, NEW x
    PROVE  LET t == Append(s, id) IN
           /\ x # id =>
                 /\ Absent(s, x) => Absent(t, x)
                 /\ NoPair(s, x) => NoPair(t, x)
                 /\ NoTriple(s, x) => NoTriple(t, x)
           /\ Absent(s, x) => NoPair(t, x)
           /\ NoPair(s, x) => NoTriple(t, x)
<1> DEFINE t == Append(s, id)
           n == Len(s)
<1>1. /\ n \in Nat /\ Len(t) = n + 1 /\ t[n + 1] = id
      /\ \A i \in 1 .. n : t[i] = s[i]
      /\ \A i \in 1 .. n + 1 : i \in 1 .. n \/ i = n + 1
  OBVIOUS
<1>2. \A i, j \in 1 .. n + 1 : i < j => i \in 1 .. n
  BY <1>1
<1> HIDE DEF t
<1>3. x # id =>
         /\ Absent(s, x) => Absent(t, x)
         /\ NoPair(s, x) => NoPair(t, x)
         /\ NoTriple(s, x) => NoTriple(t, x)
  <2>1. x # id => \A i \in 1 .. n + 1 : t[i] = x => i \in 1 .. n /\ s[i] = x
    BY <1>1
  <2> QED BY <1>1, <2>1 DEF Absent, NoPair, NoTriple
<1>4. Absent(s, x) => NoPair(t, x)
  BY <1>1, <1>2 DEF Absent, NoPair
<1>5. NoPair(s, x) => NoTriple(t, x)
  BY <1>1, <1>2 DEF NoPair, NoTriple
<1> QED BY <1>3, <1>4, <1>5 DEF t

\* Taking the first message leaves no more copies than there were.
LEMMA TailCopies ==
    ASSUME NEW S, NEW s \in Seq(S), s # << >>, NEW x
    PROVE  /\ NoPair(s, x) => NoPair(Tail(s), x)
           /\ NoTriple(s, x) => NoTriple(Tail(s), x)
<1>1. /\ Len(s) \in Nat /\ Len(Tail(s)) = Len(s) - 1
      /\ \A i \in 1 .. Len(Tail(s)) : Tail(s)[i] = s[i + 1] /\ i + 1 \in 1 .. Len(s)
  OBVIOUS
<1>2. \A i, j \in 1 .. Len(Tail(s)) : i < j => i + 1 < j + 1
  BY <1>1
<1> QED BY <1>1, <1>2 DEF NoPair, NoTriple

\* A message that is there at most once is there at most twice.
LEMMA FewerCopies ==
    ASSUME NEW s, NEW x
    PROVE  (Absent(s, x) => NoPair(s, x)) /\ (NoPair(s, x) => NoTriple(s, x))
BY DEF Absent, NoPair, NoTriple

\* msg_check looks at every message there is, as long as no counter has wrapped.
LEMMA ContainedIsThere ==
    ASSUME Typed, Ring, Single, ~wrapped, NEW id, ~Contained(id)
    PROVE  Absent(Messages, id)
<1>1. inId = outId + Ahead /\ inId \in Int /\ outId \in Int /\ Ahead \in Int
  BY DEF Single, Ahead, Typed, Counters
<1>2. \A i \in 1 .. Ahead : outId + i - 1 \in outId .. inId - 1
  BY <1>1
<1>3. Len(Messages) = Ahead /\ \A i \in 1 .. Ahead : Messages[i] = pool[Slot(outId + i - 1)]
  BY MessagesLemma
<1> QED BY <1>2, <1>3 DEF Contained, Absent

\* The counters stay in order until in_id wraps.
LEMMA OrderStep ==
    ASSUME Typed, Ring, Single, Next, ~wrapped'
    PROVE  ~wrapped /\ outId' <= inId'
<1>1. /\ Range \in Nat \ {0} /\ inId \in 0 .. Range - 1 /\ outId \in 0 .. Range - 1
  BY MsgPoolAssumption DEF Typed, Counters
<1>2. ASSUME NEW id, Insert(id), UNCHANGED outId
      PROVE  ~wrapped /\ outId' <= inId'
  <2>1. ~wrapped
    BY <1>2 DEF Insert
  <2>2. outId <= inId
    BY <2>1 DEF Single
  <2>3. CASE status = "full"
    BY <1>2, <2>1, <2>2, <2>3 DEF Insert
  <2>4. CASE status # "full"
    <3>1. inId + 1 # Range /\ inId' = (inId + 1) % Range
      BY <1>2, <2>4 DEF Insert
    <3>2. inId' = inId + 1
      BY <3>1, NextCounter DEF Typed
    <3> QED BY <1>1, <1>2, <2>1, <2>2, <3>2
  <2> QED BY <2>3, <2>4
<1>3. CASE \E id \in Ids : Check(id)
  BY <1>3 DEF Check, Single
<1>4. CASE PutMain
  BY <1>2, <1>4 DEF PutMain
<1>5. CASE \E id \in IsrIds : PutIsr(id)
  BY <1>2, <1>5 DEF PutIsr
<1>6. CASE Get
  <2>1. Ahead > 0 /\ UNCHANGED <<inId, wrapped>> /\ ~wrapped
    BY <1>6, GetRing DEF Get
  <2>2. outId < inId
    BY <1>1, <2>1 DEF Single, Ahead
  <2>3. outId' = outId + 1
    BY <1>1, <1>6, <2>2, NextCounter DEF Get, Typed, Counters
  <2> QED BY <1>1, <2>1, <2>2, <2>3
<1> QED BY <1>3, <1>4, <1>5, <1>6 DEF Next

\* A put changes the messages as it does in the queue.
LEMMA InsertCopies ==
    ASSUME Typed, Ring, Typed', Ring', NEW id \in Ids, Insert(id), UNCHANGED outId, NEW x
    PROVE  /\ x # id =>
                 /\ Absent(Messages, x) => Absent(Messages', x)
                 /\ NoPair(Messages, x) => NoPair(Messages', x)
                 /\ NoTriple(Messages, x) => NoTriple(Messages', x)
           /\ Absent(Messages, x) => NoPair(Messages', x)
           /\ NoPair(Messages, x) => NoTriple(Messages', x)
<1>1. Messages \in Seq(Ids \cup {None})
  BY MessagesLemma
<1>2. Messages' = Append(Messages, id) \/ Messages' = Messages
  BY InsertQueue DEF Queue!Put
<1> HIDE DEF Messages
<1> DEFINE m == Messages
           n == Messages'
<1>3. CASE n = m
  BY <1>3, FewerCopies
<1>4. CASE n = Append(m, id)
  <2>1. m \in Seq(Ids \cup {None}) /\ id \in Ids \cup {None}
    BY <1>1
  <2> HIDE DEF m, n
  <2>2. LET t == Append(m, id) IN
           /\ x # id =>
                 /\ Absent(m, x) => Absent(t, x)
                 /\ NoPair(m, x) => NoPair(t, x)
                 /\ NoTriple(m, x) => NoTriple(t, x)
           /\ Absent(m, x) => NoPair(t, x)
           /\ NoPair(m, x) => NoTriple(t, x)
    BY <2>1, AppendCopies
  <2>3. /\ x # id =>
              /\ Absent(m, x) => Absent(n, x)
              /\ NoPair(m, x) => NoPair(n, x)
              /\ NoTriple(m, x) => NoTriple(n, x)
        /\ Absent(m, x) => NoPair(n, x)
        /\ NoPair(m, x) => NoTriple(n, x)
    BY <1>4, <2>2
  <2> QED BY <2>3 DEF m, n
<1> QED BY <1>2, <1>3, <1>4

\* Each step keeps requests from being there more often.
LEMMA SingleStep == Typed /\ Ring /\ Single /\ Next => Single'
<1> SUFFICES ASSUME Typed, Ring, Single, Next, ~wrapped'
             PROVE  /\ \A x \in Once : NoTriple(Messages', x)
                    /\ \A x \in Once \ IsrIds : NoPair(Messages', x)
                    /\ putting' \in Once => NoPair(Messages', putting')
                    /\ putting' \in Once \ IsrIds => Absent(Messages', putting')
  BY OrderStep DEF Single
<1>1. Typed' /\ Ring'
  BY TypedStep
<1>2. /\ ~wrapped
      /\ \A x \in Once : NoTriple(Messages, x)
      /\ \A x \in Once \ IsrIds : NoPair(Messages, x)
      /\ putting \in Once => NoPair(Messages, putting)
      /\ putting \in Once \ IsrIds => Absent(Messages, putting)
  BY OrderStep DEF Single
<1>3. None \notin Once /\ Once \subseteq Ids /\ IsrIds \subseteq Ids
  BY MsgPoolAssumption DEF Ids
<1>4. CASE \E id \in Ids : Check(id)
  <2>1. PICK id \in Ids : Check(id)
    BY <1>4
  <2>2. Messages' = Messages /\ putting' = id
    BY <2>1 DEF Check, Messages, Held, Slot
  <2>3. id \in Once => Absent(Messages, id)
    BY <1>2, <2>1, ContainedIsThere DEF Check
  <2> HIDE DEF Messages
  <2> QED BY <1>2, <2>2, <2>3, FewerCopies
<1>5. CASE PutMain
  <2>1. putting \in Ids /\ Insert(putting) /\ UNCHANGED outId /\ putting' = None
    BY <1>5 DEF PutMain, Typed
  <2> HIDE DEF Messages
  <2>2. ASSUME NEW x \in Once PROVE NoTriple(Messages', x)
    BY <1>1, <1>2, <2>1, InsertCopies
  <2>3. ASSUME NEW x \in Once \ IsrIds PROVE NoPair(Messages', x)
    BY <1>1, <1>2, <2>1, InsertCopies
  <2> QED BY <1>3, <2>1, <2>2, <2>3
<1>6. CASE \E id \in IsrIds : PutIsr(id)
  <2>1. PICK id \in IsrIds : PutIsr(id)
    BY <1>6
  <2>2. id \in Ids /\ Insert(id) /\ UNCHANGED <<outId, putting>>
    BY <1>3, <2>1 DEF PutIsr
  <2>3. id \in Once => Absent(Messages, id)
    BY <1>2, <2>1, ContainedIsThere DEF PutIsr
  <2> HIDE DEF Messages
  <2>4. ASSUME NEW x \in Once PROVE NoTriple(Messages', x)
    BY <1>1, <1>2, <2>2, <2>3, <2>4, InsertCopies, FewerCopies
  <2>5. ASSUME NEW x \in Once \ IsrIds PROVE NoPair(Messages', x)
    BY <1>1, <1>2, <2>1, <2>2, <2>5, InsertCopies
  <2>6. ASSUME putting \in Once PROVE NoPair(Messages', putting)
    BY <1>1, <1>2, <2>2, <2>3, <2>6, InsertCopies
  <2>7. ASSUME putting \in Once \ IsrIds PROVE Absent(Messages', putting)
    BY <1>1, <1>2, <2>1, <2>2, <2>7, InsertCopies
  <2> QED BY <2>2, <2>4, <2>5, <2>6, <2>7
<1>7. CASE Get
  <2>1. /\ Messages' = Tail(Messages) /\ Messages # << >> /\ putting' = None
        /\ Messages \in Seq(Ids \cup {None})
    BY <1>1, <1>7, GetQueue, MessagesLemma DEF Get, Queue!Get
  <2> HIDE DEF Messages
  <2>2. \A x : /\ NoPair(Messages, x) => NoPair(Tail(Messages), x)
               /\ NoTriple(Messages, x) => NoTriple(Tail(Messages), x)
    BY <2>1, TailCopies
  <2> QED BY <1>2, <1>3, <2>1, <2>2
<1> QED BY <1>4, <1>5, <1>6, <1>7 DEF Next

\* The types, the meaning of the status and the order of the counters hold in every
\* behaviour of the pool.
THEOREM InductiveInvariant == Spec => []IInv
<1>1. Init => IInv
  <2> SUFFICES ASSUME Init PROVE IInv
    OBVIOUS
  <2>1. /\ inId = 0 /\ outId = 0 /\ status = "empty" /\ Range \in Nat \ {0} /\ Count \in Nat
        /\ pool = [i \in Slots |-> None] /\ putting = None /\ wrapped = FALSE
    BY MsgPoolAssumption DEF Init, Slots
  <2>2. Ahead = 0
    BY <2>1 DEF Ahead
  <2>3. Typed
    <3>1. wrapped \in BOOLEAN
      BY <2>1
    <3>2. pool \in [Slots -> Ids \cup {None}] /\ putting \in Ids \cup {None}
      BY <2>1
    <3>3. inId \in Counters /\ outId \in Counters
      BY <2>1 DEF Counters
    <3> QED BY <3>1, <3>2, <3>3 DEF Typed
  <2>4. Ring
    BY <2>1, <2>2 DEF Ring
  <2>5. Len(Messages) = 0 /\ putting \notin Once
    BY <2>1, <2>2, <2>3, <2>4, MessagesLemma, MsgPoolAssumption
  <2>6. Single
    BY <2>1, <2>5 DEF Single, NoPair, NoTriple
  <2> QED BY <2>3, <2>4, <2>6 DEF IInv
<1>2. IInv /\ [Next]_vars => IInv'
  <2>1. IInv /\ Next => IInv'
    BY TypedStep, SingleStep DEF IInv
  <2>2. IInv /\ UNCHANGED vars => IInv'
    <3> SUFFICES ASSUME IInv, UNCHANGED vars PROVE IInv'
      OBVIOUS
    <3>1. Typed' /\ Ring'
      BY DEF vars, IInv, Typed, Ring, Ahead
    <3>2. Messages' = Messages
      BY DEF vars, Messages, Held, Slot
    <3>3. Single'
      BY <3>2 DEF vars, IInv, Single
    <3> QED BY <3>1, <3>3 DEF IInv
  <2> QED BY <2>1, <2>2
<1> QED BY <1>1, <1>2, PTL DEF Spec

\* A request of which one is enough is in the pool once at most, and twice if an interrupt
\* puts it as well, until in_id wraps (msg_check, msg_lush_put).
THEOREM OnceUntilWrap == Spec => []PutOnceUntilWrap
<1>1. IInv => PutOnceUntilWrap
  <2> SUFFICES ASSUME IInv, ~wrapped, NEW id \in Once
               PROVE  ~Thrice(id) /\ (id \notin IsrIds => ~Twice(id))
    BY DEF PutOnceUntilWrap
  <2>1. Len(Messages) = Held
    BY HeldIsAhead, MessagesLemma DEF IInv
  <2> HIDE DEF Messages, Held
  <2> QED BY <2>1 DEF Thrice, Twice, IInv, Single, NoPair, NoTriple
<1> QED BY <1>1, InductiveInvariant, PTL

-----------------------------------------------------------------------------
(* The pool is a queue. *)

\* The ring with its counters and its status is a bounded queue: nothing is lost, doubled
\* or overtaken, and nothing is refused while there is room (msg_lush_put, msg_get).
THEOREM PoolImplementsQueue == Spec => ImplementsQueue
<1>1. Init => Queue!Init
  <2> SUFFICES ASSUME Init PROVE Messages = << >>
    BY DEF Queue!Init
  <2>1. inId = 0 /\ outId = 0 /\ status = "empty" /\ Range \in Nat \ {0}
    BY MsgPoolAssumption DEF Init
  <2>2. (inId + Range - outId) % Range = 0
    BY <2>1
  <2>3. Held = 0
    BY <2>1, <2>2 DEF Held
  <2> QED BY <2>3 DEF Messages
<1>2. IInv /\ [Next]_vars => [Queue!Next]_Messages
  <2> SUFFICES ASSUME IInv, [Next]_vars PROVE [Queue!Next]_Messages
    OBVIOUS
  <2>1. Typed /\ Ring
    BY DEF IInv
  <2>2. CASE UNCHANGED vars
    BY <2>2 DEF vars, Messages, Held, Slot
  <2>3. CASE Next
    <3>1. Typed' /\ Ring'
      BY <2>1, <2>3, TypedStep
    <3>2. CASE \E id \in Ids : Check(id)
      BY <3>2 DEF Check, Messages, Held, Slot
    <3>3. CASE PutMain
      <4>1. putting \in Ids /\ Insert(putting) /\ UNCHANGED outId
        BY <2>1, <3>3 DEF PutMain, Typed
      <4> QED BY <2>1, <3>1, <4>1, InsertQueue DEF Queue!Next
    <3>4. CASE \E id \in IsrIds : PutIsr(id)
      <4>1. PICK id \in Ids : Insert(id) /\ UNCHANGED outId
        BY <3>4, MsgPoolAssumption DEF PutIsr, Ids
      <4> QED BY <2>1, <3>1, <4>1, InsertQueue DEF Queue!Next
    <3>5. CASE Get
      BY <2>1, <3>1, <3>5, GetQueue DEF Queue!Next
    <3> QED BY <2>3, <3>2, <3>3, <3>4, <3>5 DEF Next
  <2> QED BY <2>2, <2>3
<1> QED BY <1>1, <1>2, InductiveInvariant, PTL DEF Spec, ImplementsQueue, Queue!Spec
=============================================================================
