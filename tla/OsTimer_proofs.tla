-------------------------- MODULE OsTimer_proofs --------------------------
(***************************************************************************)
(* Theorems about OsTimer, for any timers, delays, jumps of the counter    *)
(* and size of the pool, with interrupts between any two accesses of the   *)
(* main loop: what holds until one of them changes the list while the main *)
(* loop stands in it (torn).                                               *)
(*                                                                         *)
(* The invariant speaks of the sequence l of the timers that are linked    *)
(* from timers_head (Chain) and of the position k in it where the running  *)
(* call stands (At).  Each access to a link takes a member out of l, puts  *)
(* one in, or changes a link that is not in it.  List, which walks the     *)
(* links, is a recursive function; ListLemma shows that it gives l.        *)
(***************************************************************************)
EXTENDS OsTimer, SequenceTheorems, FiniteSetTheorems, TLAPS

\* A set of naturals has a least element.
LEMMA LeastNat ==
    ASSUME NEW T \in SUBSET Nat, T # {}
    PROVE  \E n \in T : \A m \in T : n <= m
<1> DEFINE R == {ss \in Nat \X Nat : ss[1] < ss[2]}
<1>1. R = OpToRel(<, Nat)
  BY Zenon DEF OpToRel
<1>2. IsWellFoundedOn(R, Nat)
  BY <1>1, NatLessThanWellFounded, Zenon
<1>3. \A x, y \in Nat : <<y, x>> \in R <=> y < x
  OBVIOUS
<1> HIDE DEF R
<1>4. PICK n \in T : \A m \in T : ~(<<m, n>> \in R)
  BY <1>2, WFMin
<1>5. \A m \in T : ~(m < n)
  BY <1>3, <1>4
<1> QED BY <1>5

-----------------------------------------------------------------------------
(* Lists.                                                                  *)

\* The list without what stands at position k, and with t at position k.
Without(l, k) == [i \in 1 .. Len(l) - 1 |-> IF i < k THEN l[i] ELSE l[i + 1]]
With(l, k, t) ==
    [i \in 1 .. Len(l) + 1 |-> IF i < k THEN l[i] ELSE IF i = k THEN t ELSE l[i - 1]]

LEMMA WithoutLemma ==
    ASSUME NEW T, NEW l \in Seq(T), NEW k \in 1 .. Len(l)
    PROVE  /\ Without(l, k) \in Seq(T) /\ Len(Without(l, k)) = Len(l) - 1
           /\ \A i \in 1 .. Len(l) - 1 : Without(l, k)[i] = IF i < k THEN l[i] ELSE l[i + 1]
BY LenProperties, ElementOfSeq DEF Without

LEMMA WithLemma ==
    ASSUME NEW T, NEW l \in Seq(T), NEW k \in 0 .. Len(l), NEW t \in T
    PROVE  /\ With(l, k + 1, t) \in Seq(T) /\ Len(With(l, k + 1, t)) = Len(l) + 1
           /\ \A i \in 1 .. Len(l) + 1 :
                 With(l, k + 1, t)[i] =
                    IF i < k + 1 THEN l[i] ELSE IF i = k + 1 THEN t ELSE l[i - 1]
BY LenProperties, ElementOfSeq DEF With

\* The timers that are linked from timers_head, in their order.
Node(l, i) == IF i = 0 THEN Head0 ELSE l[i]

Links == [Timers \union {Head0} -> Timers \union {Null}]

Once(l) == \A i, j \in 1 .. Len(l) : l[i] = l[j] => i = j

Chain(nx, l) ==
    /\ l \in Seq(Timers) /\ Once(l)
    /\ \A i \in 0 .. Len(l) - 1 : nx[Node(l, i)] = l[i + 1]
    /\ nx[Node(l, Len(l))] = Null

Ascending(l, at) == \A i, j \in 1 .. Len(l) : i < j => at[l[i]] <= at[l[j]]

LEMMA NodeLemma ==
    ASSUME NEW l \in Seq(Timers), NEW i \in 0 .. Len(l)
    PROVE  /\ Node(l, i) \in Timers \union {Head0}
           /\ Node(l, i) = Head0 <=> i = 0
           /\ i # 0 => Node(l, i) = l[i] /\ l[i] \in Timers
<1>1. i # 0 => l[i] \in Timers
  BY LenProperties, ElementOfSeq
<1> QED BY <1>1, OsTimerAssumption DEF Node

LEMMA NodeOnce ==
    ASSUME NEW l \in Seq(Timers), Once(l), NEW i \in 0 .. Len(l), NEW j \in 0 .. Len(l),
           Node(l, i) = Node(l, j)
    PROVE  i = j
<1>1. CASE i = 0 \/ j = 0
  BY <1>1, NodeLemma
<1>2. CASE i # 0 /\ j # 0
  <2>1. i \in 1 .. Len(l) /\ j \in 1 .. Len(l) /\ l[i] = l[j]
    BY <1>2, NodeLemma
  <2> QED BY <2>1 DEF Once
<1> QED BY <1>1, <1>2

\* A timer is taken off.
LEMMA CutChain ==
    ASSUME NEW nx \in Links, NEW l, Chain(nx, l), NEW k \in 0 .. Len(l) - 1
    PROVE  /\ Chain([nx EXCEPT ![Node(l, k)] = nx[l[k + 1]]], Without(l, k + 1))
           /\ \A u : Contains(Without(l, k + 1), u) <=> Contains(l, u) /\ u # l[k + 1]
<1> DEFINE r == Without(l, k + 1)
           n == Node(l, k)
           my == [nx EXCEPT ![n] = nx[l[k + 1]]]
<1>1. /\ l \in Seq(Timers) /\ Once(l) /\ Len(l) \in Nat /\ k \in Nat /\ k + 1 \in 1 .. Len(l)
      /\ \A i \in 0 .. Len(l) - 1 : nx[Node(l, i)] = l[i + 1]
      /\ nx[Node(l, Len(l))] = Null
  BY LenProperties DEF Chain
<1>2. /\ r \in Seq(Timers) /\ Len(r) = Len(l) - 1
      /\ \A i \in 1 .. Len(l) - 1 : r[i] = IF i < k + 1 THEN l[i] ELSE l[i + 1]
  BY <1>1, WithoutLemma
<1> HIDE DEF r
<1>3. \A i \in 0 .. Len(l) - 1 : Node(r, i) = IF i <= k THEN Node(l, i) ELSE Node(l, i + 1)
  BY <1>1, <1>2 DEF Node
<1>4. Once(r)
  <2> SUFFICES ASSUME NEW i \in 1 .. Len(r), NEW j \in 1 .. Len(r), r[i] = r[j]
               PROVE  i = j
    BY DEF Once
  <2> DEFINE a == IF i < k + 1 THEN i ELSE i + 1
             b == IF j < k + 1 THEN j ELSE j + 1
  <2>1. a \in 1 .. Len(l) /\ b \in 1 .. Len(l) /\ l[a] = l[b]
    BY <1>1, <1>2
  <2>2. a = b
    BY <1>1, <2>1 DEF Once
  <2> QED BY <1>1, <2>2
<1>5. /\ n \in DOMAIN nx /\ my[n] = nx[l[k + 1]]
      /\ \A x \in Timers \union {Head0} : x # n => my[x] = nx[x]
  BY <1>1, NodeLemma DEF Links
<1> HIDE DEF my, n
<1>6. \A i \in 0 .. Len(l) : i # k => Node(l, i) # n
  BY <1>1, NodeOnce DEF n
<1>7. \A i \in 0 .. Len(l) : i # k => my[Node(l, i)] = nx[Node(l, i)]
  BY <1>1, <1>5, <1>6, NodeLemma
<1>8. l[k + 1] = Node(l, k + 1)
  BY <1>1 DEF Node
<1>9. \A i \in 0 .. Len(r) - 1 : my[Node(r, i)] = r[i + 1]
  <2> SUFFICES ASSUME NEW i \in 0 .. Len(r) - 1 PROVE my[Node(r, i)] = r[i + 1]
    OBVIOUS
  <2>1. CASE i < k
    BY <1>1, <1>2, <1>3, <1>7, <2>1
  <2>2. CASE i = k
    <3>1. Node(r, i) = n /\ r[i + 1] = l[k + 2] /\ k + 1 \in 0 .. Len(l) - 1
      BY <1>1, <1>2, <1>3, <2>2 DEF n
    <3>2. nx[Node(l, k + 1)] = l[k + 2]
      BY <1>1, <3>1
    <3> QED BY <1>5, <1>8, <3>1, <3>2
  <2>3. CASE i > k
    <3>1. Node(r, i) = Node(l, i + 1) /\ r[i + 1] = l[i + 2] /\ i + 1 \in 0 .. Len(l) - 1
          /\ i + 1 # k /\ i + 2 = (i + 1) + 1
      BY <1>1, <1>2, <1>3, <2>3
    <3> QED BY <1>1, <1>7, <3>1
  <2> QED BY <1>1, <1>2, <2>1, <2>2, <2>3
<1>10. my[Node(r, Len(r))] = Null
  <2>1. CASE k = Len(l) - 1
    <3>1. Node(r, Len(r)) = n /\ k + 1 = Len(l)
      BY <1>1, <1>2, <1>3, <2>1 DEF n
    <3> QED BY <1>1, <1>5, <1>8, <3>1
  <2>2. CASE k < Len(l) - 1
    <3>1. Node(r, Len(r)) = Node(l, Len(l)) /\ Len(l) # k /\ Len(l) \in 0 .. Len(l)
      BY <1>1, <1>2, <1>3, <2>2
    <3> QED BY <1>1, <1>7, <3>1
  <2> QED BY <1>1, <2>1, <2>2
<1>11. \A u : Contains(r, u) <=> Contains(l, u) /\ u # l[k + 1]
  <2>1. ASSUME NEW u, Contains(r, u) PROVE Contains(l, u) /\ u # l[k + 1]
    <3>1. PICK i \in 1 .. Len(r) : r[i] = u
      BY <2>1 DEF Contains
    <3> DEFINE a == IF i < k + 1 THEN i ELSE i + 1
    <3>2. a \in 1 .. Len(l) /\ l[a] = u /\ a # k + 1
      BY <1>1, <1>2, <3>1
    <3> HIDE DEF a
    <3> QED BY <1>1, <3>2 DEF Contains, Once
  <2>2. ASSUME NEW u, Contains(l, u), u # l[k + 1] PROVE Contains(r, u)
    <3>1. PICK i \in 1 .. Len(l) : l[i] = u
      BY <2>2 DEF Contains
    <3> DEFINE a == IF i < k + 1 THEN i ELSE i - 1
    <3>2. i # k + 1
      BY <2>2, <3>1
    <3>3. a \in 1 .. Len(r) /\ r[a] = u
      BY <1>1, <1>2, <3>1, <3>2
    <3> HIDE DEF a
    <3> QED BY <3>3 DEF Contains
  <2> QED BY <2>1, <2>2
<1>12. Chain(my, r)
  BY <1>2, <1>4, <1>9, <1>10 DEF Chain
<1> QED BY <1>11, <1>12 DEF my, n, r

\* The link of a timer that is not on the list means nothing.
LEMMA PointChain ==
    ASSUME NEW nx \in Links, NEW l, Chain(nx, l), NEW t \in Timers, ~Contains(l, t), NEW x
    PROVE  Chain([nx EXCEPT ![t] = x], l)
<1>1. l \in Seq(Timers) /\ Len(l) \in Nat
  BY LenProperties DEF Chain
<1>2. \A i \in 0 .. Len(l) : Node(l, i) \in Timers \union {Head0} /\ Node(l, i) # t
  BY <1>1, NodeLemma, OsTimerAssumption DEF Contains
<1>3. \A i \in 0 .. Len(l) : [nx EXCEPT ![t] = x][Node(l, i)] = nx[Node(l, i)]
  BY <1>2 DEF Links
<1> QED BY <1>1, <1>3 DEF Chain

\* A timer is put in, behind position k.
LEMMA JoinChain ==
    ASSUME NEW nx \in Links, NEW l, Chain(nx, l), NEW k \in 0 .. Len(l),
           NEW t \in Timers, ~Contains(l, t), nx[t] = nx[Node(l, k)]
    PROVE  /\ Chain([nx EXCEPT ![Node(l, k)] = t], With(l, k + 1, t))
           /\ \A u : Contains(With(l, k + 1, t), u) <=> Contains(l, u) \/ u = t
<1> DEFINE r == With(l, k + 1, t)
           n == Node(l, k)
           my == [nx EXCEPT ![n] = t]
<1>1. /\ l \in Seq(Timers) /\ Once(l) /\ Len(l) \in Nat /\ k \in Nat
      /\ \A i \in 0 .. Len(l) - 1 : nx[Node(l, i)] = l[i + 1]
      /\ nx[Node(l, Len(l))] = Null
  BY LenProperties DEF Chain
<1>2. /\ r \in Seq(Timers) /\ Len(r) = Len(l) + 1
      /\ \A i \in 1 .. Len(l) + 1 :
            r[i] = IF i < k + 1 THEN l[i] ELSE IF i = k + 1 THEN t ELSE l[i - 1]
  BY <1>1, WithLemma
<1> HIDE DEF r
<1>3. /\ \A i \in 0 .. k : Node(r, i) = Node(l, i)
      /\ Node(r, k + 1) = t
      /\ \A i \in k + 2 .. Len(l) + 1 : Node(r, i) = Node(l, i - 1)
  BY <1>1, <1>2 DEF Node
<1>4. \A i \in 1 .. Len(l) : l[i] # t
  BY DEF Contains
<1>5. Once(r)
  <2> SUFFICES ASSUME NEW i \in 1 .. Len(r), NEW j \in 1 .. Len(r), r[i] = r[j]
               PROVE  i = j
    BY DEF Once
  <2>1. CASE i = k + 1 \/ j = k + 1
    <3>1. ASSUME NEW h \in 1 .. Len(r), h # k + 1 PROVE r[h] # t
      BY <1>1, <1>2, <1>4, <3>1
    <3>2. r[k + 1] = t
      BY <1>1, <1>2
    <3> QED BY <2>1, <3>1, <3>2
  <2>2. CASE i # k + 1 /\ j # k + 1
    <3> DEFINE a == IF i < k + 1 THEN i ELSE i - 1
               b == IF j < k + 1 THEN j ELSE j - 1
    <3>1. a \in 1 .. Len(l) /\ b \in 1 .. Len(l) /\ l[a] = l[b]
      BY <1>1, <1>2, <2>2
    <3>2. a = b
      BY <1>1, <3>1 DEF Once
    <3> QED BY <1>1, <2>2, <3>2
  <2> QED BY <2>1, <2>2
<1>6. /\ n \in DOMAIN nx /\ my[n] = t
      /\ \A x \in Timers \union {Head0} : x # n => my[x] = nx[x]
  BY <1>1, NodeLemma DEF Links
<1> HIDE DEF my, n
<1>7. \A i \in 0 .. Len(l) : i # k => my[Node(l, i)] = nx[Node(l, i)]
  <2>1. \A i \in 0 .. Len(l) : i # k => Node(l, i) # n
    BY <1>1, NodeOnce DEF n
  <2> QED BY <1>1, <1>6, <2>1, NodeLemma
<1>8. my[t] = nx[n]
  <2>1. n # t
    BY <1>1, <1>4, NodeLemma, OsTimerAssumption DEF n
  <2> QED BY <1>6, <2>1 DEF n
<1>9. \A i \in 0 .. Len(r) - 1 : my[Node(r, i)] = r[i + 1]
  <2> SUFFICES ASSUME NEW i \in 0 .. Len(r) - 1 PROVE my[Node(r, i)] = r[i + 1]
    OBVIOUS
  <2>1. CASE i < k
    BY <1>1, <1>2, <1>3, <1>7, <2>1
  <2>2. CASE i = k
    BY <1>1, <1>2, <1>3, <1>6, <2>2 DEF n
  <2>3. CASE i = k + 1
    <3>1. nx[n] = l[k + 1] /\ r[i + 1] = l[k + 1] /\ Node(r, i) = t
      BY <1>1, <1>2, <1>3, <2>3 DEF n
    <3> QED BY <1>8, <3>1
  <2>4. CASE i > k + 1
    <3>1. Node(r, i) = Node(l, i - 1) /\ r[i + 1] = l[i] /\ i - 1 \in 0 .. Len(l) - 1
          /\ i - 1 # k /\ i = (i - 1) + 1
      BY <1>1, <1>2, <1>3, <2>4
    <3> QED BY <1>1, <1>7, <3>1
  <2> QED BY <1>1, <1>2, <2>1, <2>2, <2>3, <2>4
<1>10. my[Node(r, Len(r))] = Null
  <2>1. CASE k = Len(l)
    <3>1. Node(r, Len(r)) = t
      BY <1>1, <1>2, <1>3, <2>1
    <3> QED BY <1>1, <1>8, <2>1, <3>1 DEF n
  <2>2. CASE k < Len(l)
    <3>1. Node(r, Len(r)) = Node(l, Len(l)) /\ Len(l) # k /\ Len(l) \in 0 .. Len(l)
      BY <1>1, <1>2, <1>3, <2>2
    <3> QED BY <1>1, <1>7, <3>1
  <2> QED BY <1>1, <2>1, <2>2
<1>11. \A u : Contains(r, u) <=> Contains(l, u) \/ u = t
  <2>1. ASSUME NEW u, Contains(r, u) PROVE Contains(l, u) \/ u = t
    <3>1. PICK i \in 1 .. Len(r) : r[i] = u
      BY <2>1 DEF Contains
    <3> DEFINE a == IF i < k + 1 THEN i ELSE i - 1
    <3>2. u = t \/ (a \in 1 .. Len(l) /\ l[a] = u)
      BY <1>1, <1>2, <3>1
    <3> HIDE DEF a
    <3> QED BY <3>2 DEF Contains
  <2>2. ASSUME NEW u, Contains(l, u) PROVE Contains(r, u)
    <3>1. PICK i \in 1 .. Len(l) : l[i] = u
      BY <2>2 DEF Contains
    <3> DEFINE a == IF i < k + 1 THEN i ELSE i + 1
    <3>2. a \in 1 .. Len(r) /\ r[a] = u
      BY <1>1, <1>2, <3>1
    <3> HIDE DEF a
    <3> QED BY <3>2 DEF Contains
  <2>3. Contains(r, t)
    <3>1. k + 1 \in 1 .. Len(r) /\ r[k + 1] = t
      BY <1>1, <1>2
    <3> QED BY <3>1 DEF Contains
  <2> QED BY <2>1, <2>2, <2>3
<1>12. Chain(my, r)
  BY <1>2, <1>5, <1>9, <1>10 DEF Chain
<1> QED BY <1>11, <1>12 DEF my, n, r

\* The order of the list.
LEMMA CutOrder ==
    ASSUME NEW l \in Seq(Timers), NEW at \in [Timers -> Nat], Ascending(l, at),
           NEW k \in 1 .. Len(l)
    PROVE  Ascending(Without(l, k), at)
<1> DEFINE r == Without(l, k)
<1>1. /\ r \in Seq(Timers) /\ Len(r) = Len(l) - 1 /\ Len(l) \in Nat
      /\ \A i \in 1 .. Len(l) - 1 : r[i] = IF i < k THEN l[i] ELSE l[i + 1]
  BY WithoutLemma, LenProperties
<1> HIDE DEF r
<1> SUFFICES ASSUME NEW i \in 1 .. Len(r), NEW j \in 1 .. Len(r), i < j
             PROVE  at[r[i]] <= at[r[j]]
  BY DEF Ascending, r
<1> DEFINE a == IF i < k THEN i ELSE i + 1
           b == IF j < k THEN j ELSE j + 1
<1>2. a \in 1 .. Len(l) /\ b \in 1 .. Len(l) /\ a < b /\ r[i] = l[a] /\ r[j] = l[b]
  <2>1. i \in 1 .. Len(l) - 1 /\ j \in 1 .. Len(l) - 1 /\ Len(l) \in Nat /\ k \in 1 .. Len(l)
    BY <1>1
  <2>2. a \in 1 .. Len(l) /\ b \in 1 .. Len(l) /\ a < b
    BY <2>1
  <2>3. r[i] = l[a]
    BY <1>1, <2>1
  <2>4. r[j] = l[b]
    BY <1>1, <2>1
  <2> QED BY <2>2, <2>3, <2>4
<1> HIDE DEF a, b
<1> QED BY <1>2 DEF Ascending

\* The time of t lies between those at the positions k and k + 1.
Fits(l, at, k, t) ==
    /\ \A i \in 1 .. k : at[l[i]] <= at[t]
    /\ k < Len(l) => at[t] <= at[l[k + 1]]

LEMMA JoinOrder ==
    ASSUME NEW l \in Seq(Timers), NEW at \in [Timers -> Nat], Ascending(l, at),
           NEW k \in 0 .. Len(l), NEW t \in Timers, Fits(l, at, k, t)
    PROVE  Ascending(With(l, k + 1, t), at)
<1> DEFINE r == With(l, k + 1, t)
<1>1. /\ r \in Seq(Timers) /\ Len(r) = Len(l) + 1 /\ Len(l) \in Nat /\ k \in Nat
      /\ \A i \in 1 .. Len(l) + 1 :
            r[i] = IF i < k + 1 THEN l[i] ELSE IF i = k + 1 THEN t ELSE l[i - 1]
  <2>1. Len(l) \in Nat /\ k \in Nat
    BY LenProperties
  <2> HIDE DEF r
  <2>2. r \in Seq(Timers) /\ Len(r) = Len(l) + 1
    BY WithLemma DEF r
  <2>3. ASSUME NEW i \in 1 .. Len(l) + 1
        PROVE  r[i] = IF i < k + 1 THEN l[i] ELSE IF i = k + 1 THEN t ELSE l[i - 1]
    BY WithLemma DEF r
  <2> QED BY <2>1, <2>2, <2>3
<1> HIDE DEF r
<1>2. \A i \in 1 .. Len(l) : at[l[i]] \in Nat /\ at[t] \in Nat
  BY <1>1, ElementOfSeq
<1>3. \A i, j \in 1 .. Len(l) : i < j => at[l[i]] <= at[l[j]]
  BY DEF Ascending
<1>4. \A i \in 1 .. Len(l) : i > k => at[t] <= at[l[i]]
  <2> SUFFICES ASSUME NEW i \in 1 .. Len(l), i > k PROVE at[t] <= at[l[i]]
    OBVIOUS
  <2>1. CASE i = k + 1
    BY <1>1, <2>1 DEF Fits
  <2>2. CASE i > k + 1
    <3>1. k + 1 \in 1 .. Len(l) /\ k < Len(l)
      BY <1>1, <2>2
    <3>2. at[l[k + 1]] <= at[l[i]]
      BY <1>3, <2>2, <3>1
    <3>3. at[t] <= at[l[k + 1]]
      BY <3>1 DEF Fits
    <3> QED BY <1>2, <3>1, <3>2, <3>3
  <2> QED BY <1>1, <2>1, <2>2
<1> SUFFICES ASSUME NEW i \in 1 .. Len(r), NEW j \in 1 .. Len(r), i < j
             PROVE  at[r[i]] <= at[r[j]]
  BY DEF Ascending, r
<1>10. Len(r) = Len(l) + 1 /\ Len(l) \in Nat /\ k \in Nat /\ k <= Len(l) /\ i \in Nat /\ j \in Nat
      /\ 1 <= i /\ i <= Len(l) + 1 /\ 1 <= j /\ j <= Len(l) + 1
  <2>1. Len(r) = Len(l) + 1 /\ Len(l) \in Nat /\ k \in Nat
    BY <1>1
  <2> QED BY <2>1
<1>5. CASE i < k + 1 /\ j < k + 1
  <2>1. i \in 1 .. Len(l) /\ j \in 1 .. Len(l)
    BY <1>10, <1>5
  <2>2. r[i] = l[i]
    BY <1>1, <1>10, <1>5
  <2>3. r[j] = l[j]
    BY <1>1, <1>10, <1>5
  <2> QED BY <1>3, <1>5, <2>1, <2>2, <2>3
<1>6. CASE i < k + 1 /\ j = k + 1
  <2>1. r[i] = l[i] /\ r[j] = t /\ i \in 1 .. k
    BY <1>1, <1>6
  <2> QED BY <2>1 DEF Fits
<1>7. CASE i < k + 1 /\ j > k + 1
  <2>1. r[i] = l[i] /\ r[j] = l[j - 1] /\ i \in 1 .. Len(l) /\ j - 1 \in 1 .. Len(l) /\ i < j - 1
    BY <1>1, <1>7
  <2> QED BY <1>3, <2>1
<1>8. CASE i = k + 1
  <2>1. r[i] = t /\ r[j] = l[j - 1] /\ j - 1 \in 1 .. Len(l) /\ j - 1 > k
    BY <1>1, <1>8
  <2> QED BY <1>4, <2>1
<1>9. CASE i > k + 1
  <2>1. r[i] = l[i - 1] /\ r[j] = l[j - 1] /\ i - 1 \in 1 .. Len(l) /\ j - 1 \in 1 .. Len(l)
        /\ i - 1 < j - 1
    BY <1>1, <1>9
  <2> QED BY <1>3, <2>1
<1> QED BY <1>1, <1>5, <1>6, <1>7, <1>8, <1>9

-----------------------------------------------------------------------------
(* The recursive function that lists the timers.                           *)

\* One step of List: what has been found so far, and the next one.
Onward(nx, l) ==
    LET x == IF l = << >> THEN nx[Head0] ELSE nx[Last(l)]
    IN  IF x = Null \/ Contains(l, x) THEN l ELSE Append(l, x)

Found(nx, f) ==
    f = [n \in 0 .. Cardinality(Timers) |-> IF n = 0 THEN << >> ELSE Onward(nx, f[n - 1])]

\* What List is, as soon as some function meets its equation.
LEMMA ListByFound ==
    ASSUME NEW g, Found(next, g)
    PROVE  \E f : Found(next, f) /\ List = f[Cardinality(Timers)]
BY Zenon DEF List, Found, Onward

\* The first n timers of a list.
Firsts(l, n) == [i \in 1 .. (IF n < Len(l) THEN n ELSE Len(l)) |-> l[i]]

LEMMA FirstsLemma ==
    ASSUME NEW l \in Seq(Timers), NEW n \in Nat
    PROVE  /\ Firsts(l, n) \in Seq(Timers)
           /\ Len(Firsts(l, n)) = IF n < Len(l) THEN n ELSE Len(l)
           /\ \A i \in 1 .. Len(Firsts(l, n)) : Firsts(l, n)[i] = l[i]
BY LenProperties, ElementOfSeq DEF Firsts

LEMMA OnwardFirsts ==
    ASSUME NEW nx, NEW l, Chain(nx, l), NEW n \in Nat
    PROVE  Onward(nx, Firsts(l, n)) = Firsts(l, n + 1)
<1> DEFINE f == Firsts(l, n)
           g == Firsts(l, n + 1)
           m == Len(f)
           x == IF f = << >> THEN nx[Head0] ELSE nx[Last(f)]
<1>1. /\ l \in Seq(Timers) /\ Len(l) \in Nat /\ Once(l)
      /\ \A i \in 0 .. Len(l) - 1 : nx[Node(l, i)] = l[i + 1]
      /\ nx[Node(l, Len(l))] = Null
      /\ \A i \in 1 .. Len(l) : l[i] \in Timers
  BY LenProperties, ElementOfSeq DEF Chain
<1>2. /\ f \in Seq(Timers) /\ m = (IF n < Len(l) THEN n ELSE Len(l))
      /\ \A i \in 1 .. m : f[i] = l[i]
  BY <1>1, FirstsLemma
<1>3. /\ g \in Seq(Timers) /\ Len(g) = (IF n + 1 < Len(l) THEN n + 1 ELSE Len(l))
      /\ \A i \in 1 .. Len(g) : g[i] = l[i]
  BY <1>1, FirstsLemma
<1>4. Onward(nx, f) = IF x = Null \/ Contains(f, x) THEN f ELSE Append(f, x)
  BY DEF Onward
<1> HIDE DEF f, g, m
<1>5. m \in 0 .. Len(l) /\ m = Len(f)
  BY <1>1, <1>2 DEF m
<1>6. x = nx[Node(l, m)]
  <2>1. CASE m = 0
    <3>1. f = << >>
      BY <1>2, <1>5, <2>1, EmptySeq
    <3> QED BY <2>1, <3>1 DEF Node
  <2>2. CASE m # 0
    <3>1. f # << >> /\ Last(f) = f[m]
      BY <1>5, <2>2 DEF Last
    <3>2. f[m] = l[m]
      BY <1>2, <1>5, <2>2
    <3> QED BY <2>2, <3>1, <3>2 DEF Node
  <2> QED BY <2>1, <2>2
<1> HIDE DEF x
<1>7. CASE n < Len(l)
  <2>1. m = n /\ x = l[n + 1] /\ n + 1 \in 1 .. Len(l)
    BY <1>1, <1>2, <1>6, <1>7
  <2>2. x \in Timers /\ x # Null
    BY <1>1, <2>1, OsTimerAssumption
  <2>3. ~Contains(f, x)
    <3> SUFFICES ASSUME NEW i \in 1 .. Len(f), f[i] = x PROVE FALSE
      BY DEF Contains
    <3>1. i \in 1 .. Len(l) /\ l[i] = l[n + 1] /\ i # n + 1
      BY <1>1, <1>2, <1>5, <2>1
    <3> QED BY <1>1, <2>1, <3>1 DEF Once
  <2>4. Onward(nx, f) = Append(f, x)
    BY <1>4, <2>2, <2>3
  <2>5. /\ Append(f, x) \in Seq(Timers) /\ Len(Append(f, x)) = n + 1
        /\ \A i \in 1 .. n : Append(f, x)[i] = l[i]
        /\ Append(f, x)[n + 1] = l[n + 1]
    <3>1. /\ Append(f, x) \in Seq(Timers) /\ Len(Append(f, x)) = Len(f) + 1
          /\ \A i \in 1 .. Len(f) : Append(f, x)[i] = f[i]
          /\ Append(f, x)[Len(f) + 1] = x
      BY <1>2, <2>2, AppendProperties
    <3>2. Len(f) = n
      BY <1>5, <2>1
    <3> QED BY <1>2, <2>1, <3>1, <3>2
  <2>6. Len(g) = n + 1 /\ \A i \in 1 .. n + 1 : Append(f, x)[i] = g[i]
    BY <1>1, <1>3, <1>7, <2>1, <2>5
  <2> DEFINE h == Append(f, x)
  <2>7. h \in Seq(Timers) /\ Len(h) = Len(g) /\ \A i \in 1 .. Len(h) : h[i] = g[i]
    BY <2>5, <2>6
  <2> HIDE DEF h
  <2>8. h = g
    BY <1>3, <2>7, SeqEqual
  <2> QED BY <2>4, <2>8 DEF h, f, g
<1>8. CASE n >= Len(l)
  <2>1. m = Len(l) /\ x = Null
    BY <1>1, <1>2, <1>6, <1>8
  <2>2. Onward(nx, f) = f
    BY <1>4, <2>1
  <2>3. Len(g) = Len(l) /\ Len(f) = Len(l)
    BY <1>1, <1>3, <1>5, <1>8, <2>1
  <2>4. \A i \in 1 .. Len(f) : f[i] = g[i]
    BY <1>2, <1>3, <1>5, <2>3
  <2>5. f = g
    BY <1>2, <1>3, <2>3, <2>4, SeqEqual
  <2> QED BY <2>2, <2>5 DEF f, g
<1> QED BY <1>1, <1>7, <1>8

\* The function finds the list.
LEMMA ListLemma ==
    ASSUME NEW l, Chain(next, l)
    PROVE  List = l
<1> DEFINE c == Cardinality(Timers)
           g == [n \in 0 .. c |-> Firsts(l, n)]
<1>1. /\ l \in Seq(Timers) /\ Len(l) \in Nat /\ Once(l) /\ DOMAIN l = 1 .. Len(l)
      /\ l \in [1 .. Len(l) -> Timers]
  BY LenProperties DEF Chain
<1>2. c \in Nat /\ Len(l) <= c
  <2>1. c \in Nat
    BY OsTimerAssumption, FS_CardinalityType
  <2>2. l \in Injection(1 .. Len(l), Timers)
    BY <1>1 DEF Injection, IsInjective, Once
  <2>3. Cardinality(1 .. Len(l)) <= Cardinality(Timers)
    BY <2>2, OsTimerAssumption, FS_Injection
  <2>4. Cardinality(1 .. Len(l)) = Len(l)
    BY <1>1, FS_Interval
  <2> QED BY <2>1, <2>3, <2>4
<1> HIDE DEF c
<1>3. Firsts(l, 0) = << >>
  BY <1>1, FirstsLemma, EmptySeq
<1>4. Found(next, g)
  <2>1. \A n \in 0 .. c : Firsts(l, n) = IF n = 0 THEN << >> ELSE Onward(next, g[n - 1])
    <3> SUFFICES ASSUME NEW n \in 0 .. c
                 PROVE Firsts(l, n) = IF n = 0 THEN << >> ELSE Onward(next, g[n - 1])
      OBVIOUS
    <3>1. CASE n = 0
      BY <1>3, <3>1
    <3>2. CASE n # 0
      <4>1. n - 1 \in Nat /\ n - 1 \in 0 .. c /\ (n - 1) + 1 = n
        BY <1>2, <3>2
      <4>2. g[n - 1] = Firsts(l, n - 1)
        BY <4>1
      <4>3. Onward(next, Firsts(l, n - 1)) = Firsts(l, (n - 1) + 1)
        BY <4>1, OnwardFirsts
      <4> QED BY <3>2, <4>1, <4>2, <4>3
    <3> QED BY <3>1, <3>2
  <2> QED BY <2>1 DEF Found, c
<1>5. PICK f : Found(next, f) /\ List = f[c]
  BY <1>4, ListByFound DEF c
<1>6. \A n \in 0 .. c : f[n] = Firsts(l, n)
  <2> DEFINE T == {n \in 0 .. c : f[n] # Firsts(l, n)}
  <2> SUFFICES ASSUME T # {} PROVE FALSE
    OBVIOUS
  <2>1. T \in SUBSET Nat
    BY <1>2
  <2>2. PICK n \in T : \A m \in T : n <= m
    BY <2>1, LeastNat
  <2>3. \A i \in 0 .. c : f[i] = IF i = 0 THEN << >> ELSE Onward(next, f[i - 1])
    BY <1>5 DEF Found, c
  <2>4. n # 0 /\ n \in 0 .. c
    BY <1>2, <1>3, <2>2, <2>3
  <2>5. n - 1 \in Nat /\ n - 1 \in 0 .. c /\ ~(n <= n - 1) /\ (n - 1) + 1 = n
    BY <1>2, <2>4
  <2>6. f[n - 1] = Firsts(l, n - 1)
    BY <2>2, <2>5
  <2>7. Onward(next, Firsts(l, n - 1)) = Firsts(l, (n - 1) + 1)
    BY <2>5, OnwardFirsts
  <2>8. f[n] = Onward(next, f[n - 1])
    BY <2>3, <2>4
  <2> QED BY <2>2, <2>5, <2>6, <2>7, <2>8
<1>7. Firsts(l, c) = l
  <2> DEFINE h == Firsts(l, c)
  <2>1. h \in Seq(Timers) /\ Len(h) = Len(l) /\ \A i \in 1 .. Len(h) : h[i] = l[i]
    BY <1>1, <1>2, FirstsLemma
  <2> HIDE DEF h
  <2>2. h = l
    BY <1>1, <2>1, SeqEqual
  <2> QED BY <2>2 DEF h
<1> QED BY <1>2, <1>5, <1>6, <1>7

-----------------------------------------------------------------------------
(* The inductive invariant.                                                *)

Ops == [pc : {"idle", "stop", "clear", "seek", "cut", "set", "walk", "point", "link"},
        timer : Timers \union {Null}, link : Timers \union {Head0, Null},
        seen : Timers \union {Null}, delay : Nat, then : {"idle", "set"}]

Types ==
    /\ next \in Links /\ ticks \in [Timers -> Nat] /\ pending \in [Timers -> BOOLEAN]
    /\ tick \in Nat /\ isr \in BOOLEAN /\ op \in Ops
    /\ pool \in Seq(Timers \union {Key}) /\ due \in [Timers -> Nat \union {Null}]

Removing == op.pc \in {"seek", "cut"}
Adding == op.pc \in {"walk", "point", "link"}

\* What is on the list while a call works on a timer.  One that is being removed may
\* have been taken off by the interrupt before.
Listed(l) ==
    /\ \A u \in Timers :
          /\ pending[u] /\ ~(Adding /\ u = op.timer) => Contains(l, u)
          /\ Contains(l, u) => \/ pending[u] /\ ~(Adding /\ u = op.timer)
                               \/ Removing /\ u = op.timer
    /\ op.pc # "idle" => op.timer \in Timers
    /\ Removing \/ op.pc = "set" => ~pending[op.timer]
    /\ Adding => pending[op.timer]

\* The call looks at the link behind position k.
At(l, k) ==
    /\ Removing \/ Adding => k \in 0 .. Len(l) /\ op.link = Node(l, k)
    /\ op.pc = "seek" => \A i \in 1 .. k : l[i] # op.timer
    /\ op.pc = "cut" => \/ k < Len(l) /\ l[k + 1] = op.timer /\ op.seen = op.timer
                        \/ k = Len(l) /\ op.seen = Null /\ ~Contains(l, op.timer)
    /\ Adding => \A i \in 1 .. k : ticks[l[i]] < ticks[op.timer]
    /\ op.pc \in {"point", "link"} => (k < Len(l) => ticks[op.timer] <= ticks[l[k + 1]])
    /\ op.pc = "point" => op.seen = next[op.link]
    /\ op.pc = "link" => next[op.timer] = next[op.link]

\* A client waits for the timers that are pending, and these come no earlier than was
\* asked for.
Timely ==
    /\ \A u \in Timers : due[u] # Null <=> pending[u]
    /\ \A u \in Timers : due[u] # Null => due[u] <= ticks[u]

Kept(l, k) ==
    /\ Types /\ Chain(next, l) /\ Ascending(l, ticks)
    /\ Listed(l) /\ At(l, k) /\ Timely

Intact == \E l \in Seq(Timers), k \in Nat : Kept(l, k)

IInv == torn \/ Intact

LEMMA IdleLemma ==
    /\ Idle \in Ops /\ Idle.pc = "idle" /\ Idle.timer = Null /\ Idle.then = "idle"
    /\ \A o \in Ops : /\ Done(o) \in Ops
                      /\ Done(o).pc = "idle" \/ (Done(o).pc = "set" /\ Done(o).timer = o.timer)
BY DEF Idle, Ops, Done

\* The steps that change neither the list nor what is known of the timers.
LEMMA QuietStep ==
    ASSUME NEW l \in Seq(Timers), NEW k \in Nat, Kept(l, k), TickDone \/ Tick \/ Dispatch \/ OtherIsr
    PROVE  Kept(l, k)'
<1>1. /\ UNCHANGED <<next, ticks, pending, op, due>>
      /\ Chain(next, l) /\ Ascending(l, ticks) /\ Listed(l) /\ At(l, k) /\ Types /\ Timely
  BY DEF TickDone, Tick, Dispatch, OtherIsr, Kept
<1>2. Chain(next, l)' /\ Ascending(l, ticks)' /\ Listed(l)' /\ At(l, k)' /\ Timely'
  BY <1>1 DEF Chain, Ascending, Listed, At, Removing, Adding, Timely
<1>3. tick' \in Nat /\ isr' \in BOOLEAN
  <2>1. tick \in Nat /\ isr \in BOOLEAN /\ Steps \subseteq Nat
    BY <1>1, OsTimerAssumption DEF Types
  <2>2. CASE Tick
    BY <2>1, <2>2 DEF Tick
  <2>3. CASE TickDone \/ Dispatch \/ OtherIsr
    BY <2>1, <2>3 DEF TickDone, Dispatch, OtherIsr
  <2> QED BY <2>2, <2>3
<1>4. pool' \in Seq(Timers \union {Key})
  <2>1. CASE Dispatch
    BY <1>1, <2>1, HeadTailProperties DEF Dispatch, Types
  <2>2. CASE OtherIsr
    BY <1>1, <2>2, AppendProperties DEF OtherIsr, Types
  <2>3. CASE Tick \/ TickDone
    BY <1>1, <2>3 DEF Tick, TickDone, Types
  <2> QED BY <2>1, <2>2, <2>3
<1>5. Types'
  BY <1>1, <1>3, <1>4 DEF Types
<1> QED BY <1>2, <1>5 DEF Kept

\* The beginning of a call: nothing is touched yet.
LEMMA CallStep ==
    ASSUME NEW l \in Seq(Timers), NEW k \in Nat, Kept(l, k),
           \E t \in Timers : (\E d \in Delays : Reset(t, d)) \/ Stop(t)
    PROVE  Kept(l, k)'
<1>1. PICK t \in Timers : (\E d \in Delays : Reset(t, d)) \/ Stop(t)
  OBVIOUS
<1>2. /\ UNCHANGED <<next, ticks, pending, tick, isr, pool, due>> /\ op.pc = "idle" /\ ~isr
      /\ Chain(next, l) /\ Ascending(l, ticks) /\ Listed(l) /\ Types /\ Timely
  BY <1>1 DEF Reset, Stop, Kept
<1>3. /\ op' \in Ops /\ op'.timer = t
      /\ op'.pc = "stop" \/ (op'.pc = "set" /\ ~pending[t])
  <2>1. CASE Stop(t)
    BY <2>1, IdleLemma DEF Stop, Ops
  <2>2. ASSUME NEW d \in Delays, Reset(t, d)
        PROVE  op' \in Ops /\ op'.timer = t /\ op'.pc = IF pending[t] THEN "stop" ELSE "set"
    <3>1. d \in Nat
      BY OsTimerAssumption
    <3>2. op' = [Idle EXCEPT !.pc = IF pending[t] THEN "stop" ELSE "set",
                             !.timer = t, !.delay = d, !.then = "set"]
      BY <2>2 DEF Reset
    <3> DEFINE p == IF pending[t] THEN "stop" ELSE "set"
    <3>3. p \in {"stop", "set"}
      OBVIOUS
    <3>4. op' = [Idle EXCEPT !.pc = p, !.timer = t, !.delay = d, !.then = "set"]
      BY <3>2
    <3> HIDE DEF p
    <3>5. op' \in Ops /\ op'.timer = t /\ op'.pc = p
      BY <3>1, <3>3, <3>4, IdleLemma DEF Ops
    <3> QED BY <3>5 DEF p
  <2> QED BY <1>1, <2>1, <2>2
<1>4. Chain(next, l)' /\ Ascending(l, ticks)'
  BY <1>2 DEF Chain, Ascending
<1>5. Listed(l)'
  BY <1>2, <1>3 DEF Listed, Removing, Adding
<1>6. At(l, k)'
  BY <1>2, <1>3 DEF At, Removing, Adding
<1>7. Timely' /\ Types'
  BY <1>2, <1>3 DEF Timely, Types
<1> QED BY <1>4, <1>5, <1>6, <1>7 DEF Kept

\* os_timer_stop looks for the timer.
LEMMA StopTestStep ==
    ASSUME NEW l \in Seq(Timers), NEW k \in Nat, Kept(l, k), StopTest
    PROVE  Kept(l, k)'
<1> DEFINE t == op.timer
<1>1. /\ UNCHANGED <<next, ticks, pending, tick, isr, pool, due>> /\ op.pc = "stop" /\ ~isr
      /\ op \in Ops /\ t \in Timers
      /\ Chain(next, l) /\ Ascending(l, ticks) /\ Listed(l) /\ Types /\ Timely
  BY DEF StopTest, Kept, Types, Listed
<1>2. /\ op' \in Ops
      /\ \/ op'.pc = "clear" /\ op'.timer = t /\ pending[t]
         \/ op'.pc = "idle" /\ ~pending[t]
         \/ op'.pc = "set" /\ op'.timer = t /\ ~pending[t]
  <2>1. CASE pending[t]
    <3>1. op' = [op EXCEPT !.pc = "clear"]
      BY <2>1 DEF StopTest
    <3> QED BY <1>1, <2>1, <3>1 DEF Ops
  <2>2. CASE ~pending[t]
    <3>1. op' = Done(op)
      BY <2>2 DEF StopTest
    <3> QED BY <1>1, <2>2, <3>1, IdleLemma
  <2> QED BY <2>1, <2>2
<1>3. Chain(next, l)' /\ Ascending(l, ticks)'
  BY <1>1 DEF Chain, Ascending
<1>4. Listed(l)'
  BY <1>1, <1>2 DEF Listed, Removing, Adding
<1>5. At(l, k)'
  BY <1>2 DEF At, Removing, Adding
<1>6. Timely' /\ Types'
  BY <1>1, <1>2 DEF Timely, Types
<1> QED BY <1>3, <1>4, <1>5, <1>6 DEF Kept

LEMMA StopClearStep ==
    ASSUME NEW l \in Seq(Timers), NEW k \in Nat, Kept(l, k), StopClear
    PROVE  Kept(l, 0)'
<1> DEFINE t == op.timer
<1>1. /\ UNCHANGED <<next, ticks, tick, isr, pool>> /\ op.pc = "clear" /\ ~isr
      /\ op \in Ops /\ t \in Timers
      /\ Chain(next, l) /\ Ascending(l, ticks) /\ Listed(l) /\ Types /\ Timely
      /\ pending' = [pending EXCEPT ![t] = FALSE]
      /\ due' = [due EXCEPT ![t] = Null]
  BY DEF StopClear, Kept, Types, Listed
<1>2. op' \in Ops /\ op'.pc = "seek" /\ op'.timer = t /\ op'.link = Head0
  BY <1>1 DEF StopClear, Ops
<1>3. Chain(next, l)' /\ Ascending(l, ticks)'
  BY <1>1 DEF Chain, Ascending
<1>4. /\ pending' \in [Timers -> BOOLEAN] /\ ~pending'[t]
      /\ \A u \in Timers : u # t => pending'[u] = pending[u]
      /\ due' \in [Timers -> Nat \union {Null}] /\ due'[t] = Null
      /\ \A u \in Timers : u # t => due'[u] = due[u]
  BY <1>1 DEF Types
<1>5. Listed(l)'
  BY <1>1, <1>2, <1>4 DEF Listed, Removing, Adding
<1>6. At(l, 0)'
  <2>1. 0 \in 0 .. Len(l) /\ Node(l, 0) = Head0 /\ 1 .. 0 = {}
    BY LenProperties DEF Node
  <2> QED BY <1>2, <2>1 DEF At, Removing, Adding
<1>7. Timely'
  BY <1>1, <1>2, <1>4 DEF Timely
<1>8. Types'
  BY <1>1, <1>2, <1>4 DEF Types
<1> QED BY <1>3, <1>5, <1>6, <1>7, <1>8 DEF Kept

LEMMA SeekStep ==
    ASSUME NEW l \in Seq(Timers), NEW k \in Nat, Kept(l, k), Seek
    PROVE  Kept(l, k)' \/ Kept(l, k + 1)'
<1> DEFINE t == op.timer
           x == next[op.link]
<1>1. /\ UNCHANGED <<next, ticks, pending, tick, isr, pool, due>> /\ op.pc = "seek" /\ ~isr
      /\ op \in Ops /\ t \in Timers
      /\ Chain(next, l) /\ Ascending(l, ticks) /\ Listed(l) /\ Types /\ Timely /\ At(l, k)
  BY DEF Seek, Kept, Types, Listed
<1>2. /\ k \in 0 .. Len(l) /\ op.link = Node(l, k) /\ Len(l) \in Nat
      /\ \A i \in 1 .. k : l[i] # t
  BY <1>1, LenProperties DEF At, Removing
<1>3. /\ k < Len(l) => x = l[k + 1] /\ x \in Timers /\ x # Null /\ k + 1 \in 1 .. Len(l)
      /\ k = Len(l) => x = Null
  <2>1. CASE k < Len(l)
    <3>1. k \in 0 .. Len(l) - 1 /\ k + 1 \in 1 .. Len(l)
      BY <1>2, <2>1
    <3>2. l[k + 1] \in Timers
      BY <3>1, ElementOfSeq
    <3> QED BY <1>1, <1>2, <2>1, <3>1, <3>2, OsTimerAssumption DEF Chain
  <2>2. CASE k = Len(l)
    BY <1>1, <1>2, <2>2 DEF Chain
  <2> QED BY <1>2, <2>1, <2>2
<1>4. Chain(next, l)' /\ Ascending(l, ticks)'
  BY <1>1 DEF Chain, Ascending
<1>5. CASE x # Null /\ x # t
  <2>0. k < Len(l)
    BY <1>2, <1>3, <1>5
  <2>1. op' \in Ops /\ op'.pc = "seek" /\ op'.timer = t /\ op'.link = x
    <3>1. op' = [op EXCEPT !.link = x]
      BY <1>5 DEF Seek
    <3> QED BY <1>1, <1>3, <2>0, <3>1 DEF Ops
  <2>2. Listed(l)' /\ Timely' /\ Types'
    BY <1>1, <2>1 DEF Listed, Timely, Types, Removing, Adding
  <2>3. Node(l, k + 1) = x /\ \A i \in 1 .. k + 1 : l[i] # t
    BY <1>2, <1>3, <1>5, <2>0 DEF Node
  <2>4. At(l, k + 1)'
    <3>1. k + 1 \in 0 .. Len(l)
      BY <1>3, <2>0
    <3> QED BY <2>1, <2>3, <3>1 DEF At, Removing, Adding
  <2> QED BY <1>4, <2>2, <2>4 DEF Kept
<1>6. CASE ~(x # Null /\ x # t)
  <2>1. op' \in Ops /\ op'.pc = "cut" /\ op'.timer = t /\ op'.link = op.link /\ op'.seen = x
    <3>1. op' = [op EXCEPT !.pc = "cut", !.seen = x]
      BY <1>6 DEF Seek
    <3>2. x \in Timers \union {Null}
      BY <1>1, <1>6
    <3> QED BY <1>1, <3>1, <3>2 DEF Ops
  <2>2. Listed(l)' /\ Timely' /\ Types'
    BY <1>1, <2>1 DEF Listed, Timely, Types, Removing, Adding
  <2>3. CASE k < Len(l)
    <3>1. l[k + 1] = t /\ x = t
      BY <1>3, <1>6, <2>3
    <3>2. At(l, k)'
      BY <1>2, <2>1, <2>3, <3>1 DEF At, Removing, Adding
    <3> QED BY <1>4, <2>2, <3>2 DEF Kept
  <2>4. CASE k = Len(l)
    <3>1. x = Null /\ ~Contains(l, t)
      BY <1>2, <1>3, <2>4 DEF Contains
    <3>2. At(l, k)'
      BY <1>2, <2>1, <2>4, <3>1 DEF At, Removing, Adding
    <3> QED BY <1>4, <2>2, <3>2 DEF Kept
  <2> QED BY <1>2, <2>3, <2>4
<1> QED BY <1>5, <1>6

LEMMA CutStep ==
    ASSUME NEW l \in Seq(Timers), NEW k \in Nat, Kept(l, k), Cut
    PROVE  Intact'
<1> DEFINE t == op.timer
<1>1. /\ UNCHANGED <<ticks, pending, tick, isr, pool, due>> /\ op.pc = "cut" /\ ~isr
      /\ op \in Ops /\ t \in Timers /\ op' = Done(op) /\ next \in Links
      /\ Chain(next, l) /\ Ascending(l, ticks) /\ Listed(l) /\ Types /\ Timely /\ At(l, k)
  BY DEF Cut, Kept, Types, Listed
<1>2. op' \in Ops /\ (op'.pc = "idle" \/ (op'.pc = "set" /\ op'.timer = t))
  BY <1>1, IdleLemma
<1>3. ~pending[t]
  BY <1>1 DEF Listed, Removing
<1>4. ASSUME NEW r \in Seq(Timers), Chain(next', r), Ascending(r, ticks), next' \in Links,
             \A u \in Timers : Contains(r, u) <=> Contains(l, u) /\ u # t
      PROVE  Intact'
  <2>1. \A u \in Timers : Contains(r, u) <=> pending[u]
    BY <1>1, <1>3, <1>4 DEF Listed, Removing, Adding
  <2>2. Listed(r)'
    BY <1>1, <1>2, <1>3, <2>1 DEF Listed, Removing, Adding
  <2>3. At(r, 0)'
    BY <1>2 DEF At, Removing, Adding
  <2>4. Timely' /\ Types'
    BY <1>1, <1>2, <1>4 DEF Timely, Types
  <2>5. Kept(r, 0)'
    BY <1>1, <1>4, <2>2, <2>3, <2>4 DEF Kept, Chain, Ascending
  <2> QED BY <2>5 DEF Intact
<1>5. CASE k < Len(l) /\ l[k + 1] = t /\ op.seen = t
  <2> DEFINE r == Without(l, k + 1)
  <2>1. /\ k \in 0 .. Len(l) - 1 /\ op.link = Node(l, k) /\ k + 1 \in 1 .. Len(l)
        /\ Len(l) \in Nat /\ next[Node(l, k)] = t
    <3>1. k \in 0 .. Len(l) - 1 /\ op.link = Node(l, k) /\ Len(l) \in Nat
      BY <1>1, <1>5, LenProperties DEF At, Removing
    <3> QED BY <1>1, <1>5, <3>1 DEF Chain
  <2>2. next' = [next EXCEPT ![Node(l, k)] = next[l[k + 1]]]
    BY <1>1, <1>5, <2>1, OsTimerAssumption DEF Cut
  <2>3. /\ Chain(next', r)
        /\ \A u : Contains(r, u) <=> Contains(l, u) /\ u # t
    <3>1. /\ Chain([next EXCEPT ![Node(l, k)] = next[l[k + 1]]], Without(l, k + 1))
          /\ \A u : Contains(Without(l, k + 1), u) <=> Contains(l, u) /\ u # l[k + 1]
      BY <1>1, <2>1, CutChain
    <3> QED BY <1>5, <2>2, <3>1
  <2>4. Ascending(r, ticks) /\ r \in Seq(Timers)
    BY <1>1, <2>1, <2>3, CutOrder DEF Types, Chain
  <2>5. next' \in Links
    <3>1. l[k + 1] \in Timers /\ Node(l, k) \in Timers \union {Head0}
      BY <1>1, <1>5, <2>1, NodeLemma
    <3> QED BY <1>1, <2>2, <3>1 DEF Links
  <2> HIDE DEF r
  <2> QED BY <1>4, <2>3, <2>4, <2>5
<1>6. CASE k = Len(l) /\ op.seen = Null /\ ~Contains(l, t)
  <2>1. op.link = Node(l, Len(l)) /\ next[op.link] = Null
    BY <1>1, <1>6 DEF At, Removing, Chain
  <2>2. next' = next
    BY <1>1, <1>6, <2>1 DEF Cut
  <2> QED BY <1>1, <1>4, <1>6, <2>2
<1> QED BY <1>1, <1>5, <1>6 DEF At

\* os_timer_start puts the timer in.
LEMMA SetStep ==
    ASSUME NEW l \in Seq(Timers), NEW k \in Nat, Kept(l, k), Set
    PROVE  Kept(l, 0)'
<1> DEFINE t == op.timer
<1>1. /\ UNCHANGED <<next, tick, isr, pool>> /\ op.pc = "set" /\ ~isr
      /\ op \in Ops /\ t \in Timers /\ ~pending[t]
      /\ Chain(next, l) /\ Ascending(l, ticks) /\ Listed(l) /\ Types /\ Timely
      /\ pending' = [pending EXCEPT ![t] = TRUE]
      /\ ticks' = [ticks EXCEPT ![t] = op.delay + tick]
      /\ due' = [due EXCEPT ![t] = op.delay + tick]
  BY DEF Set, Kept, Types, Listed
<1>2. op' \in Ops /\ op'.pc = "walk" /\ op'.timer = t /\ op'.link = Head0
  BY <1>1 DEF Set, Ops
<1> DEFINE n == op.delay + tick
<1>3. n \in Nat /\ n # Null /\ n >= tick /\ tick \in Nat
  BY <1>1, OsTimerAssumption DEF Types, Ops
<1> HIDE DEF t, n
<1>4. /\ pending' \in [Timers -> BOOLEAN] /\ pending'[t]
      /\ \A u \in Timers : u # t => pending'[u] = pending[u]
      /\ ticks' \in [Timers -> Nat] /\ ticks'[t] = n
      /\ \A u \in Timers : u # t => ticks'[u] = ticks[u]
      /\ due' \in [Timers -> Nat \union {Null}] /\ due'[t] = n
      /\ \A u \in Timers : u # t => due'[u] = due[u]
  <2>1. pending \in [Timers -> BOOLEAN] /\ ticks \in [Timers -> Nat]
        /\ due \in [Timers -> Nat \union {Null}]
    BY <1>1 DEF Types
  <2>2. /\ pending' \in [Timers -> BOOLEAN] /\ pending'[t] = TRUE
        /\ \A u \in Timers : u # t => pending'[u] = pending[u]
    BY <1>1, <2>1 DEF t
  <2>3. /\ ticks' \in [Timers -> Nat] /\ ticks'[t] = n
        /\ \A u \in Timers : u # t => ticks'[u] = ticks[u]
    BY <1>1, <1>3, <2>1 DEF t, n
  <2>4. /\ due' \in [Timers -> Nat \union {Null}] /\ due'[t] = n
        /\ \A u \in Timers : u # t => due'[u] = due[u]
    BY <1>1, <1>3, <2>1 DEF t, n
  <2> QED BY <2>2, <2>3, <2>4
<1>5. ~Contains(l, t)
  BY <1>1 DEF Listed, Removing, t
<1>6. \A i \in 1 .. Len(l) : l[i] \in Timers /\ l[i] # t
  BY <1>5, ElementOfSeq DEF Contains
<1>7. Chain(next', l) /\ Ascending(l, ticks')
  BY <1>1, <1>4, <1>6 DEF Chain, Ascending
<1>8. Listed(l)'
  BY <1>1, <1>2, <1>4, <1>5 DEF Listed, Removing, Adding
<1>9. At(l, 0)'
  <2>1. 0 \in 0 .. Len(l) /\ Node(l, 0) = Head0 /\ 1 .. 0 = {}
    BY LenProperties DEF Node
  <2> QED BY <1>2, <2>1 DEF At, Removing, Adding
<1>10. Timely'
  <2>1. \A u \in Timers : due'[u] # Null <=> pending'[u]
    BY <1>1, <1>3, <1>4 DEF Timely
  <2>2. \A u \in Timers : due'[u] # Null => due'[u] <= ticks'[u]
    BY <1>1, <1>3, <1>4 DEF Timely
  <2> QED BY <1>1, <1>2, <2>1, <2>2 DEF Timely
<1>11. Types'
  BY <1>1, <1>2, <1>4 DEF Types
<1> QED BY <1>7, <1>8, <1>9, <1>10, <1>11 DEF Kept, Chain, Ascending

LEMMA WalkStep ==
    ASSUME NEW l \in Seq(Timers), NEW k \in Nat, Kept(l, k), Walk
    PROVE  Kept(l, k)' \/ Kept(l, k + 1)'
<1> DEFINE t == op.timer
           x == next[op.link]
<1>1. /\ UNCHANGED <<next, ticks, pending, tick, isr, pool, due>> /\ op.pc = "walk" /\ ~isr
      /\ op \in Ops /\ t \in Timers
      /\ Chain(next, l) /\ Ascending(l, ticks) /\ Listed(l) /\ Types /\ Timely /\ At(l, k)
  BY DEF Walk, Kept, Types, Listed
<1>2. /\ k \in 0 .. Len(l) /\ op.link = Node(l, k) /\ Len(l) \in Nat
      /\ \A i \in 1 .. k : ticks[l[i]] < ticks[t]
  BY <1>1, LenProperties DEF At, Adding
<1>3. /\ k < Len(l) => x = l[k + 1] /\ x \in Timers /\ x # Null /\ k + 1 \in 1 .. Len(l)
      /\ k = Len(l) => x = Null
  <2>1. CASE k < Len(l)
    <3>1. k \in 0 .. Len(l) - 1 /\ k + 1 \in 1 .. Len(l)
      BY <1>2, <2>1
    <3>2. l[k + 1] \in Timers
      BY <3>1, ElementOfSeq
    <3> QED BY <1>1, <1>2, <2>1, <3>1, <3>2, OsTimerAssumption DEF Chain
  <2>2. CASE k = Len(l)
    BY <1>1, <1>2, <2>2 DEF Chain
  <2> QED BY <1>2, <2>1, <2>2
<1>4. Chain(next, l)' /\ Ascending(l, ticks)'
  BY <1>1 DEF Chain, Ascending
<1>5. CASE x # Null /\ ticks[x] < ticks[t]
  <2>0. k < Len(l)
    BY <1>2, <1>3, <1>5
  <2>1. op' \in Ops /\ op'.pc = "walk" /\ op'.timer = t /\ op'.link = x
    <3>1. op' = [op EXCEPT !.link = x]
      BY <1>5 DEF Walk
    <3> QED BY <1>1, <1>3, <2>0, <3>1 DEF Ops
  <2>2. Listed(l)' /\ Timely' /\ Types'
    BY <1>1, <2>1 DEF Listed, Timely, Types, Removing, Adding
  <2>3. Node(l, k + 1) = x /\ k + 1 \in 0 .. Len(l)
    BY <1>2, <1>3, <2>0 DEF Node
  <2>4. \A i \in 1 .. k + 1 : ticks[l[i]] < ticks[t]
    BY <1>2, <1>3, <1>5, <2>0
  <2>5. At(l, k + 1)'
    BY <1>1, <2>1, <2>3, <2>4 DEF At, Removing, Adding
  <2> QED BY <1>4, <2>2, <2>5 DEF Kept
<1>6. CASE ~(x # Null /\ ticks[x] < ticks[t])
  <2>1. op' \in Ops /\ op'.pc = "point" /\ op'.timer = t /\ op'.link = op.link /\ op'.seen = x
    <3>1. op' = [op EXCEPT !.pc = "point", !.seen = x]
      BY <1>6 DEF Walk
    <3>2. x \in Timers \union {Null}
      BY <1>2, <1>3
    <3> QED BY <1>1, <3>1, <3>2 DEF Ops
  <2>2. Listed(l)' /\ Timely' /\ Types'
    BY <1>1, <2>1 DEF Listed, Timely, Types, Removing, Adding
  <2>3. k < Len(l) => ticks[t] <= ticks[l[k + 1]]
    BY <1>1, <1>3, <1>6 DEF Types
  <2>4. At(l, k)'
    BY <1>1, <1>2, <2>1, <2>3 DEF At, Removing, Adding
  <2> QED BY <1>4, <2>2, <2>4 DEF Kept
<1> QED BY <1>5, <1>6

LEMMA PointStep ==
    ASSUME NEW l \in Seq(Timers), NEW k \in Nat, Kept(l, k), Point
    PROVE  Kept(l, k)'
<1> DEFINE t == op.timer
           x == next[op.link]
<1>1. /\ UNCHANGED <<ticks, pending, tick, isr, pool, due>> /\ op.pc = "point" /\ ~isr
      /\ op \in Ops /\ t \in Timers /\ op.seen = x
      /\ Chain(next, l) /\ Ascending(l, ticks) /\ Listed(l) /\ Types /\ Timely /\ At(l, k)
      /\ next' = [next EXCEPT ![t] = x] /\ next \in Links
  BY DEF Point, Kept, Types, Listed, At
<1>2. op' \in Ops /\ op'.pc = "link" /\ op'.timer = t /\ op'.link = op.link
  BY <1>1 DEF Point, Ops
<1>3. /\ k \in 0 .. Len(l) /\ op.link = Node(l, k) /\ Len(l) \in Nat
  BY <1>1, LenProperties DEF At, Adding
<1>4. ~Contains(l, t)
  BY <1>1 DEF Listed, Adding, Removing
<1>5. Chain(next', l)
  BY <1>1, <1>4, PointChain
<1>6. op.link \in Timers \union {Head0} /\ op.link # t /\ x \in Timers \union {Null}
  <2>1. op.link \in Timers \union {Head0} /\ op.link # t
    BY <1>1, <1>3, <1>4, NodeLemma, OsTimerAssumption DEF Contains
  <2> QED BY <1>1, <2>1 DEF Links
<1>7. next' \in Links /\ next'[t] = x /\ next'[op.link] = x
  BY <1>1, <1>6 DEF Links
<1>8. Listed(l)' /\ Timely' /\ Types'
  BY <1>1, <1>2, <1>7 DEF Listed, Timely, Types, Removing, Adding
<1>9. At(l, k)'
  BY <1>1, <1>2, <1>7 DEF At, Removing, Adding
<1> QED BY <1>1, <1>5, <1>8, <1>9 DEF Kept, Chain, Ascending

LEMMA LinkStep ==
    ASSUME NEW l \in Seq(Timers), NEW k \in Nat, Kept(l, k), Link
    PROVE  Intact'
<1>0. PICK t \in Timers : t = op.timer
  BY DEF Link, Kept, Listed
<1> DEFINE r == With(l, k + 1, t)
<1>1. /\ UNCHANGED <<ticks, pending, tick, isr, pool, due>> /\ op.pc = "link" /\ ~isr
      /\ op \in Ops /\ t \in Timers /\ op' = Idle /\ t = op.timer
      /\ Chain(next, l) /\ Ascending(l, ticks) /\ Listed(l) /\ Types /\ Timely /\ At(l, k)
      /\ next \in Links /\ ticks \in [Timers -> Nat]
  BY <1>0 DEF Link, Kept, Types, Listed
<1>2. /\ k \in 0 .. Len(l) /\ op.link = Node(l, k) /\ Len(l) \in Nat
      /\ next[t] = next[Node(l, k)]
  BY <1>1, LenProperties DEF At, Adding
<1>3. ~Contains(l, t) /\ pending[t]
  BY <1>1 DEF Listed, Adding, Removing
<1>4. next' = [next EXCEPT ![Node(l, k)] = t]
  BY <1>1, <1>2 DEF Link
<1>5. /\ Chain(next', r)
      /\ \A u : Contains(r, u) <=> Contains(l, u) \/ u = t
  <2>1. /\ Chain([next EXCEPT ![Node(l, k)] = t], With(l, k + 1, t))
        /\ \A u : Contains(With(l, k + 1, t), u) <=> Contains(l, u) \/ u = t
    BY <1>1, <1>2, <1>3, JoinChain
  <2> QED BY <1>4, <2>1
<1>6. Fits(l, ticks, k, t)
  <2>1. \A i \in 1 .. k : ticks[l[i]] < ticks[t] /\ l[i] \in Timers
    BY <1>1, <1>2, ElementOfSeq DEF At, Adding
  <2>2. k < Len(l) => ticks[t] <= ticks[l[k + 1]]
    BY <1>1 DEF At
  <2> QED BY <1>1, <2>1, <2>2 DEF Fits
<1>7. Ascending(r, ticks) /\ r \in Seq(Timers)
  BY <1>1, <1>2, <1>5, <1>6, JoinOrder DEF Chain
<1> HIDE DEF r
<1>8. next' \in Links
  BY <1>1, <1>2, <1>4, NodeLemma DEF Links
<1>9. op' \in Ops /\ op'.pc = "idle"
  BY <1>1, IdleLemma
<1>10. Listed(r)'
  <2>1. \A u \in Timers : Contains(r, u) <=> pending[u]
    BY <1>1, <1>3, <1>5 DEF Listed, Removing, Adding
  <2> QED BY <1>1, <1>9, <2>1 DEF Listed, Removing, Adding
<1>11. At(r, 0)'
  BY <1>9 DEF At, Removing, Adding
<1>12. Timely' /\ Types'
  BY <1>1, <1>8, <1>9 DEF Timely, Types
<1>13. Kept(r, 0)'
  BY <1>1, <1>5, <1>7, <1>10, <1>11, <1>12 DEF Kept, Chain, Ascending
<1> QED BY <1>7, <1>13 DEF Intact

\* The interrupt finds the first timer due.
LEMMA DueLemma ==
    ASSUME NEW l \in Seq(Timers), NEW k \in Nat, Kept(l, k), IsDue, op.pc \notin Inside
    PROVE  /\ Len(l) \in Nat \ {0} /\ First = l[1] /\ First \in Timers
           /\ \A u \in Timers : Contains(l, u) <=> pending[u]
           /\ pending[First] /\ due[First] # Null /\ due[First] \in Nat
           /\ due[First] <= ticks[First] /\ ticks[First] <= tick
           /\ \A u \in Timers : pending[u] => ticks[First] <= ticks[u]
           /\ Chain([next EXCEPT ![Head0] = next[First]], Without(l, 1))
           /\ \A u : Contains(Without(l, 1), u) <=> Contains(l, u) /\ u # First
           /\ Without(l, 1) \in Seq(Timers) /\ Ascending(Without(l, 1), ticks)
<1>1. /\ Chain(next, l) /\ Ascending(l, ticks) /\ Listed(l) /\ Types /\ Timely /\ Len(l) \in Nat
      /\ ~Removing /\ ~Adding /\ First # Null /\ ticks[First] <= tick
  BY LenProperties DEF Kept, IsDue, Inside, Removing, Adding
<1>2. \A u \in Timers : Contains(l, u) <=> pending[u]
  BY <1>1 DEF Listed
<1>3. Len(l) # 0
  <2>1. Len(l) = 0 => First = Null
    BY <1>1 DEF Chain, Node, First
  <2> QED BY <1>1, <2>1
<1>4. 0 \in 0 .. Len(l) - 1 /\ 1 \in 1 .. Len(l) /\ Node(l, 0) = Head0 /\ 0 + 1 = 1
  BY <1>1, <1>3 DEF Node
<1>5. First = l[1] /\ First \in Timers
  <2>1. next[Node(l, 0)] = l[0 + 1]
    BY <1>1, <1>4 DEF Chain
  <2> QED BY <1>4, <2>1, ElementOfSeq DEF First
<1>6. Contains(l, First) /\ pending[First]
  <2>1. Contains(l, First)
    BY <1>4, <1>5 DEF Contains
  <2> QED BY <1>2, <1>5, <2>1
<1>7. due[First] # Null /\ due[First] \in Nat /\ due[First] <= ticks[First]
  BY <1>1, <1>5, <1>6 DEF Timely, Types
<1>8. ASSUME NEW u \in Timers, pending[u] PROVE ticks[First] <= ticks[u]
  <2>1. PICK i \in 1 .. Len(l) : l[i] = u
    BY <1>2, <1>8 DEF Contains
  <2>2. i = 1 \/ 1 < i
    OBVIOUS
  <2>3. ticks[u] \in Nat
    BY <1>1 DEF Types
  <2>4. 1 < i => ticks[l[1]] <= ticks[l[i]]
    BY <1>1, <1>4 DEF Ascending
  <2> QED BY <1>5, <2>1, <2>2, <2>3, <2>4
<1>9. /\ Chain([next EXCEPT ![Head0] = next[First]], Without(l, 1))
      /\ \A u : Contains(Without(l, 1), u) <=> Contains(l, u) /\ u # First
  <2>1. next \in Links
    BY <1>1 DEF Types
  <2>2. /\ Chain([next EXCEPT ![Node(l, 0)] = next[l[0 + 1]]], Without(l, 0 + 1))
        /\ \A u : Contains(Without(l, 0 + 1), u) <=> Contains(l, u) /\ u # l[0 + 1]
    BY <1>1, <1>4, <2>1, CutChain
  <2> QED BY <1>4, <1>5, <2>2
<1>10. Without(l, 1) \in Seq(Timers) /\ Ascending(Without(l, 1), ticks)
  <2>1. ticks \in [Timers -> Nat]
    BY <1>1 DEF Types
  <2>2. Ascending(Without(l, 1), ticks)
    BY <1>1, <1>4, <2>1, CutOrder
  <2> QED BY <1>9, <2>2 DEF Chain
<1> QED BY <1>1, <1>2, <1>3, <1>5, <1>6, <1>7, <1>8, <1>9, <1>10

LEMMA PostStep ==
    ASSUME NEW l \in Seq(Timers), NEW k \in Nat, Kept(l, k), Post, ~torn'
    PROVE  Intact'
<1>0. isr /\ IsDue /\ op.pc \notin Inside
  BY DEF Post, Tear
<1>1. /\ First \in Timers /\ ~Removing /\ ~Adding
      /\ op.pc # "idle" => op.timer \in Timers
      /\ op.pc = "set" => ~pending[op.timer]
      /\ \A u \in Timers : Contains(l, u) <=> pending[u]
      /\ Chain([next EXCEPT ![Head0] = next[First]], Without(l, 1))
      /\ \A u : Contains(Without(l, 1), u) <=> Contains(l, u) /\ u # First
      /\ Without(l, 1) \in Seq(Timers) /\ Ascending(Without(l, 1), ticks)
      /\ Types /\ Timely
  BY <1>0, DueLemma DEF Kept, Listed, Inside, Removing, Adding
<1>2. PICK t \in Timers, r \in Seq(Timers) : t = First /\ r = Without(l, 1)
  BY <1>1
<1>3. /\ next' = [next EXCEPT ![Head0] = next[t]]
      /\ pending' = [pending EXCEPT ![t] = FALSE]
      /\ pool' = Append(pool, t)
      /\ due' = [due EXCEPT ![t] = Null]
      /\ UNCHANGED <<ticks, tick, isr, op>>
  BY <1>2 DEF Post
<1>4. Chain(next', r) /\ Ascending(r, ticks)
  BY <1>1, <1>2, <1>3
<1>5. /\ pending' \in [Timers -> BOOLEAN] /\ ~pending'[t]
      /\ \A u \in Timers : u # t => pending'[u] = pending[u]
      /\ due' \in [Timers -> Nat \union {Null}] /\ due'[t] = Null
      /\ \A u \in Timers : u # t => due'[u] = due[u]
  BY <1>1, <1>3 DEF Types
<1>6. next' \in Links
  BY <1>1, <1>3 DEF Types, Links
<1>7. pool' \in Seq(Timers \union {Key})
  BY <1>1, <1>3, AppendProperties DEF Types
<1>8. Listed(r)'
  <2>1. \A u \in Timers : Contains(r, u) <=> pending'[u]
    BY <1>1, <1>2, <1>5
  <2>2. op'.pc = "set" => ~pending'[op'.timer]
    BY <1>1, <1>3, <1>5
  <2> QED BY <1>1, <1>3, <2>1, <2>2 DEF Listed, Removing, Adding
<1>9. At(r, 0)'
  BY <1>1, <1>3 DEF At, Removing, Adding
<1>10. Timely'
  <2>1. \A u \in Timers : due'[u] # Null => u # t /\ due'[u] = due[u]
    BY <1>5
  <2> QED BY <1>0, <1>1, <1>3, <1>5, <2>1 DEF Timely
<1>11. Types'
  BY <1>1, <1>3, <1>5, <1>6, <1>7 DEF Types
<1>12. Kept(r, 0)'
  BY <1>3, <1>4, <1>8, <1>9, <1>10, <1>11 DEF Kept, Chain, Ascending
<1> QED BY <1>12 DEF Intact

\* Where Postpone puts the timer.
Behind(r, later) ==
    LET i == SelectInSeq(r, LAMBDA x : ticks[x] >= later)
    IN  IF i = 0 THEN Len(r) ELSE i - 1

LEMMA BehindLemma ==
    ASSUME NEW r \in Seq(Timers), NEW later \in Nat, ticks \in [Timers -> Nat]
    PROVE  /\ Behind(r, later) \in 0 .. Len(r)
           /\ \A i \in 1 .. Behind(r, later) : ticks[r[i]] < later
           /\ Behind(r, later) < Len(r) => later <= ticks[r[Behind(r, later) + 1]]
<1> DEFINE I == {i \in 1 .. Len(r) : ticks[r[i]] >= later}
           m == SelectInSeq(r, LAMBDA x : ticks[x] >= later)
<1>1. m = IF I # {} THEN Min(I) ELSE 0
  BY DEF SelectInSeq
<1>2. Len(r) \in Nat /\ \A i \in 1 .. Len(r) : ticks[r[i]] \in Nat
  BY LenProperties, ElementOfSeq
<1> HIDE DEF m
<1>3. CASE I = {}
  <2>1. Behind(r, later) = Len(r)
    BY <1>1, <1>3 DEF Behind, m
  <2> QED BY <1>2, <1>3, <2>1
<1>4. CASE I # {}
  <2>1. PICK n \in I : \A j \in I : n <= j
    <3>1. I \in SUBSET Nat
      OBVIOUS
    <3> HIDE DEF I
    <3> QED BY <1>4, <3>1, LeastNat
  <2>2. m \in I /\ \A j \in I : m <= j
    <3> HIDE DEF I
    <3> QED BY <1>1, <1>4, <2>1 DEF Min
  <2>3. Behind(r, later) = m - 1 /\ m \in 1 .. Len(r)
    BY <1>2, <2>2 DEF Behind, m
  <2>4. \A i \in 1 .. m - 1 : ticks[r[i]] < later
    <3> SUFFICES ASSUME NEW i \in 1 .. m - 1 PROVE ticks[r[i]] < later
      OBVIOUS
    <3>1. i \in 1 .. Len(r) /\ ~(m <= i)
      BY <1>2, <2>3
    <3>2. i \notin I
      BY <2>2, <3>1
    <3> QED BY <1>2, <3>1, <3>2
  <2>5. later <= ticks[r[m]]
    BY <1>2, <2>2
  <2> QED BY <1>2, <2>3, <2>4, <2>5
<1> QED BY <1>3, <1>4

LEMMA TailLemma ==
    ASSUME NEW l \in Seq(Timers), Len(l) # 0
    PROVE  Tail(l) = Without(l, 1)
<1>1. l # << >> /\ Len(l) \in Nat \ {0}
  BY LenProperties, EmptySeq
<1>2. /\ Tail(l) \in Seq(Timers) /\ Len(Tail(l)) = Len(l) - 1
      /\ \A i \in 1 .. Len(Tail(l)) : Tail(l)[i] = l[i + 1]
  BY <1>1, HeadTailProperties
<1>3. 1 \in 1 .. Len(l)
  BY <1>1
<1>4. /\ Without(l, 1) \in Seq(Timers) /\ Len(Without(l, 1)) = Len(l) - 1
      /\ \A i \in 1 .. Len(l) - 1 : Without(l, 1)[i] = IF i < 1 THEN l[i] ELSE l[i + 1]
  BY <1>3, WithoutLemma
<1>5. \A i \in 1 .. Len(Tail(l)) : Tail(l)[i] = Without(l, 1)[i]
  BY <1>1, <1>2, <1>4
<1> QED BY <1>2, <1>4, <1>5, SeqEqual

\* What Postpone does, with the links it takes written as positions of the list.
LEMMA PostponeIs ==
    ASSUME NEW l \in Seq(Timers), NEW r \in Seq(Timers), List = l, r = Tail(l),
           NEW t \in Timers, t = First, Postpone
    PROVE  LET later  == ticks[t] + Retry
               popped == [next EXCEPT ![Head0] = next[t]]
               link   == Node(r, Behind(r, later))
           IN  /\ ticks' = [ticks EXCEPT ![t] = later]
               /\ pending' = [pending EXCEPT ![t] = TRUE]
               /\ next' = [[popped EXCEPT ![t] = popped[link]] EXCEPT ![link] = t]
<1> DEFINE later == ticks[t] + Retry
           popped == [next EXCEPT ![Head0] = next[t]]
           i == SelectInSeq(r, LAMBDA x : ticks[x] >= later)
           before == IF i = 0 THEN r ELSE SubSeq(r, 1, i - 1)
           link == IF before = << >> THEN Head0 ELSE Last(before)
           my == [popped EXCEPT ![t] = popped[link], ![link] = t]
<1>1. /\ ticks' = [ticks EXCEPT ![t] = later]
      /\ pending' = [pending EXCEPT ![t] = TRUE]
      /\ next' = my
  BY DEF Postpone
<1>2. my = [[popped EXCEPT ![t] = popped[link]] EXCEPT ![link] = t]
  OBVIOUS
<1>3. i = 0 \/ i \in 1 .. Len(r)
  <2> DEFINE I == {j \in 1 .. Len(r) : ticks[r[j]] >= later}
  <2>1. i = IF I # {} THEN Min(I) ELSE 0
    BY DEF SelectInSeq
  <2> HIDE DEF i
  <2>2. CASE I # {}
    <3>1. I \in SUBSET Nat
      OBVIOUS
    <3> HIDE DEF I
    <3>2. PICK n \in I : \A j \in I : n <= j
      BY <2>2, <3>1, LeastNat
    <3>3. i \in I
      BY <2>1, <2>2, <3>2 DEF Min
    <3> QED BY <3>3 DEF I
  <2> QED BY <2>1, <2>2
<1>4. Behind(r, later) = IF i = 0 THEN Len(r) ELSE i - 1
  BY DEF Behind
<1> HIDE DEF i
<1>5. Len(r) \in Nat /\ \A j \in 1 .. Len(r) : r[j] \in Timers
  BY LenProperties, ElementOfSeq
<1>6. before \in Seq(Timers) /\ Len(before) = Behind(r, later)
      /\ \A j \in 1 .. Len(before) : before[j] = r[j]
  <2>1. CASE i = 0
    BY <1>4, <1>5, <2>1
  <2>2. CASE i # 0
    <3>1. i \in 1 .. Len(r) /\ i - 1 \in 0 .. Len(r) - 1 /\ before = SubSeq(r, 1, i - 1)
      BY <1>3, <2>2
    <3> DEFINE n == i - 1
    <3>2. n \in 0 .. Len(r) - 1 /\ n \in Int /\ before = SubSeq(r, 1, n) /\ Behind(r, later) = n
      BY <1>4, <2>2, <3>1
    <3> HIDE DEF n
    <3>3. \A j \in 1 .. n : r[j] \in Timers
      BY <1>5, <3>2
    <3>4. /\ SubSeq(r, 1, n) \in Seq(Timers)
          /\ Len(SubSeq(r, 1, n)) = IF 1 <= n THEN n - 1 + 1 ELSE 0
          /\ \A j \in 1 .. n - 1 + 1 : SubSeq(r, 1, n)[j] = r[1 + j - 1]
      BY <3>2, <3>3, SubSeqProperties
    <3>5. Len(SubSeq(r, 1, n)) = n /\ \A j \in 1 .. n : SubSeq(r, 1, n)[j] = r[j]
      BY <1>5, <3>2, <3>4
    <3> QED BY <3>2, <3>4, <3>5
  <2> QED BY <2>1, <2>2
<1> HIDE DEF before
<1>7. link = Node(r, Behind(r, later))
  <2>1. CASE Len(before) = 0
    <3>1. before = << >>
      BY <1>6, <2>1, EmptySeq
    <3> QED BY <1>6, <2>1, <3>1 DEF Node
  <2>2. CASE Len(before) # 0
    <3>1. before # << >> /\ Len(before) \in 1 .. Len(before)
      BY <1>6, <2>2, LenProperties, EmptySeq
    <3>2. Last(before) = r[Len(before)]
      BY <1>6, <3>1 DEF Last
    <3> QED BY <1>6, <2>2, <3>1, <3>2 DEF Node
  <2> QED BY <2>1, <2>2
<1> HIDE DEF link, my
<1> QED BY <1>1, <1>2, <1>7

LEMMA PostponeStep ==
    ASSUME NEW l \in Seq(Timers), NEW k \in Nat, Kept(l, k), Postpone, ~torn'
    PROVE  Intact'
<1>0. isr /\ IsDue /\ List = l /\ op.pc \notin Inside
  BY ListLemma DEF Postpone, Kept, Tear
<1>1. /\ First \in Timers /\ ~Removing /\ ~Adding /\ Len(l) \in Nat \ {0}
      /\ op.pc # "idle" => op.timer \in Timers
      /\ op.pc = "set" => ~pending[op.timer]
      /\ \A u \in Timers : Contains(l, u) <=> pending[u]
      /\ pending[First] /\ due[First] # Null /\ due[First] <= ticks[First]
      /\ Chain([next EXCEPT ![Head0] = next[First]], Without(l, 1))
      /\ \A u : Contains(Without(l, 1), u) <=> Contains(l, u) /\ u # First
      /\ Without(l, 1) \in Seq(Timers) /\ Ascending(Without(l, 1), ticks)
      /\ Types /\ Timely
  BY <1>0, DueLemma DEF Kept, Listed, Inside, Removing, Adding
<1>2. PICK t \in Timers, r \in Seq(Timers) : t = First /\ r = Without(l, 1)
  BY <1>1
<1>3. r = Tail(l)
  BY <1>1, <1>2, TailLemma
<1>4. PICK later \in Nat : later = ticks[t] + Retry
  BY <1>1, OsTimerAssumption DEF Types
<1>5. PICK m \in 0 .. Len(r) :
         /\ m = Behind(r, later) /\ \A i \in 1 .. m : ticks[r[i]] < later
         /\ m < Len(r) => later <= ticks[r[m + 1]]
  BY <1>1, BehindLemma DEF Types
<1> DEFINE popped == [next EXCEPT ![Head0] = next[t]]
           n == Node(r, m)
           nx == [popped EXCEPT ![t] = popped[n]]
           q == With(r, m + 1, t)
<1>6. /\ ticks' = [ticks EXCEPT ![t] = later]
      /\ pending' = [pending EXCEPT ![t] = TRUE]
      /\ next' = [nx EXCEPT ![n] = t]
      /\ UNCHANGED <<tick, isr, op, pool, due>>
  <2>1. UNCHANGED <<tick, isr, op, pool, due>>
    BY DEF Postpone
  <2>2. /\ ticks' = [ticks EXCEPT ![t] = ticks[t] + Retry]
        /\ pending' = [pending EXCEPT ![t] = TRUE]
        /\ next' = [[popped EXCEPT ![t] = popped[Node(r, Behind(r, ticks[t] + Retry))]]
                       EXCEPT ![Node(r, Behind(r, ticks[t] + Retry))] = t]
    BY <1>0, <1>2, <1>3, PostponeIs
  <2> QED BY <1>4, <1>5, <2>1, <2>2
<1>7. popped \in Links /\ Chain(popped, r) /\ ~Contains(r, t)
  BY <1>1, <1>2 DEF Types, Links
<1> HIDE DEF popped
<1>8. n \in Timers \union {Head0} /\ n # t
  <2>1. m # 0 => m \in 1 .. Len(r)
    OBVIOUS
  <2> QED BY <1>7, <2>1, NodeLemma, OsTimerAssumption DEF Contains
<1>9. nx \in Links /\ nx[t] = nx[n] /\ Chain(nx, r)
  <2>1. Chain(nx, r)
    BY <1>7, PointChain
  <2> HIDE DEF n
  <2> QED BY <1>7, <1>8, <2>1 DEF Links
<1> HIDE DEF nx
<1>10. Chain([nx EXCEPT ![n] = t], q) /\ \A u : Contains(q, u) <=> Contains(r, u) \/ u = t
  BY <1>7, <1>9, JoinChain
<1>11. /\ ticks' \in [Timers -> Nat] /\ ticks'[t] = later
       /\ \A u \in Timers : u # t => ticks'[u] = ticks[u]
       /\ pending' = pending
  BY <1>1, <1>2, <1>6 DEF Types
<1>12. \A i \in 1 .. Len(r) : r[i] \in Timers /\ r[i] # t
  BY <1>7, ElementOfSeq DEF Contains
<1>13. Ascending(r, ticks')
  BY <1>1, <1>2, <1>11, <1>12 DEF Ascending
<1>14. Fits(r, ticks', m, t)
  <2>1. Len(r) \in Nat /\ ticks \in [Timers -> Nat]
    BY <1>1, LenProperties DEF Types
  <2>2. ASSUME NEW i \in 1 .. m PROVE ticks'[r[i]] <= ticks'[t]
    <3>1. i \in 1 .. Len(r) /\ ticks[r[i]] < later /\ ticks[r[i]] \in Nat
      BY <1>5, <1>12, <2>1
    <3> QED BY <1>11, <1>12, <3>1
  <2>3. m < Len(r) => ticks'[t] <= ticks'[r[m + 1]]
    <3>1. m < Len(r) => m + 1 \in 1 .. Len(r)
      BY <2>1
    <3> QED BY <1>5, <1>11, <1>12, <3>1
  <2> QED BY <2>2, <2>3 DEF Fits
<1>15. Ascending(q, ticks')
  BY <1>11, <1>13, <1>14, JoinOrder
<1>16. next' \in Links
  BY <1>6, <1>8, <1>9 DEF Links
<1> HIDE DEF q, n
<1>17. q \in Seq(Timers) /\ Chain(next', q)
  BY <1>6, <1>10 DEF Chain
<1>18. PICK s \in Seq(Timers) : s = q
  BY <1>17
<1>19. Listed(s)'
  <2>1. \A u \in Timers : Contains(s, u) <=> pending'[u]
    BY <1>1, <1>2, <1>10, <1>11, <1>18
  <2>2. op'.pc = "set" => ~pending'[op'.timer]
    BY <1>1, <1>6, <1>11
  <2>3. op' = op /\ pending' = pending
    BY <1>6, <1>11
  <2>4. op'.pc # "idle" => op'.timer \in Timers
    BY <1>1, <2>3
  <2> QED BY <1>1, <2>1, <2>2, <2>3, <2>4 DEF Listed, Removing, Adding
<1>20. At(s, 0)'
  BY <1>1, <1>6 DEF At, Removing, Adding
<1>21. Timely'
  <2>1. later >= ticks[t] /\ ticks[t] \in Nat /\ due[t] \in Nat
    BY <1>1, <1>2, <1>4, OsTimerAssumption DEF Types
  <2>2. \A u \in Timers : due[u] # Null => due[u] <= ticks'[u]
    BY <1>1, <1>2, <1>4, <1>11, <2>1 DEF Timely
  <2> QED BY <1>0, <1>1, <1>6, <1>11, <2>2 DEF Timely
<1>22. Types'
  BY <1>1, <1>6, <1>11, <1>16 DEF Types
<1>23. Kept(s, 0)'
  BY <1>15, <1>17, <1>18, <1>19, <1>20, <1>21, <1>22 DEF Kept, Chain, Ascending
<1> QED BY <1>23 DEF Intact

\* The empty list is kept.
LEMMA InitKeeps == Init => Intact
<1> SUFFICES ASSUME Init PROVE Intact
  OBVIOUS
<1>1. << >> \in Seq(Timers) /\ Len(<< >>) = 0
  BY EmptySeq
<1>2. op.pc = "idle" /\ op \in Ops /\ pool \in Seq(Timers \union {Key})
  BY IdleLemma, EmptySeq DEF Init
<1>3. Types
  BY <1>2 DEF Init, Types, Links
<1>4. Chain(next, << >>) /\ Ascending(<< >>, ticks)
  BY <1>1 DEF Init, Chain, Once, Node, Ascending
<1>5. Listed(<< >>)
  BY <1>1, <1>2 DEF Init, Listed, Contains, Removing, Adding
<1>6. At(<< >>, 0)
  BY <1>2 DEF At, Removing, Adding
<1>7. Timely
  BY <1>2, <1>3 DEF Init, Timely
<1> QED BY <1>1, <1>3, <1>4, <1>5, <1>6, <1>7 DEF Kept, Intact

\* Each step keeps the list, one lemma per action or group of actions, unless it tears it.
LEMMA NextKeeps ==
    ASSUME Intact, [Next]_vars, ~torn'
    PROVE  Intact'
<1> PICK l \in Seq(Timers), k \in Nat : Kept(l, k)
  BY DEF Intact
<1>0. k + 1 \in Nat
  OBVIOUS
<1>1. CASE UNCHANGED vars
  <2>1. Kept(l, k)'
    BY <1>1 DEF vars, Kept, Types, Chain, Ascending, Listed, At, Timely, Removing, Adding
  <2> QED BY <2>1 DEF Intact
<1>2. CASE Next
  <2>1. CASE TickDone \/ Tick \/ Dispatch \/ OtherIsr
    BY <2>1, QuietStep DEF Intact
  <2>2. CASE \E t \in Timers : (\E d \in Delays : Reset(t, d)) \/ Stop(t)
    BY <2>2, CallStep DEF Intact
  <2>3. CASE StopTest
    BY <2>3, StopTestStep DEF Intact
  <2>4. CASE StopClear
    BY <2>4, StopClearStep DEF Intact
  <2>5. CASE Seek
    BY <1>0, <2>5, SeekStep DEF Intact
  <2>6. CASE Cut
    BY <2>6, CutStep
  <2>7. CASE Set
    BY <2>7, SetStep DEF Intact
  <2>8. CASE Walk
    BY <1>0, <2>8, WalkStep DEF Intact
  <2>9. CASE Point
    BY <2>9, PointStep DEF Intact
  <2>10. CASE Link
    BY <2>10, LinkStep
  <2>11. CASE Post
    BY <2>11, PostStep
  <2>12. CASE Postpone
    BY <2>12, PostponeStep
  <2> QED BY <1>2, <2>1, <2>2, <2>3, <2>4, <2>5, <2>6, <2>7, <2>8, <2>9, <2>10, <2>11, <2>12
      DEF Next
<1> QED BY <1>1, <1>2

\* A list that is torn stays so.
LEMMA TornStays == torn /\ [Next]_vars => torn'
BY DEF Next, vars, Reset, Stop, StopTest, StopClear, Seek, Cut, Set, Walk, Point, Link,
       Dispatch, Tick, Post, Postpone, TickDone, OtherIsr, Tear

\* The list is kept through every interrupt, wherever it comes, until one changes it inside
\* a change of it.
THEOREM InductiveInvariant == Spec => []IInv
<1>1. Init => IInv
  BY InitKeeps DEF IInv
<1>2. IInv /\ [Next]_vars => IInv'
  <2>1. CASE torn
    BY <2>1, TornStays DEF IInv
  <2>2. CASE ~torn'
    BY <2>2, TornStays, NextKeeps DEF IInv
  <2>3. CASE torn'
    BY <2>3 DEF IInv
  <2> QED BY <2>2, <2>3
<1> QED BY <1>1, <1>2, PTL DEF Spec

\* Between two calls exactly the timers that say they are pending (os_timer_pending)
\* can be reached from timers_head, and in the order of their times, until an interrupt
\* takes off or puts back a timer inside os_timer_reset or os_timer_stop: for any number
\* of timers, any delays and any jumps of the tick counter.
THEOREM PendingAreListed == Spec => []PendingIsListed
<1>1. IInv => PendingIsListed
  <2> SUFFICES ASSUME Intact, op.pc = "idle"
               PROVE  /\ \A t \in Timers : pending[t] <=> Contains(List, t)
                      /\ \A i, j \in 1 .. Len(List) : i < j => ticks[List[i]] <= ticks[List[j]]
    BY DEF PendingIsListed, IInv
  <2>1. PICK l \in Seq(Timers), k \in Nat : Kept(l, k)
    BY DEF Intact
  <2>2. List = l
    BY <2>1, ListLemma DEF Kept
  <2>3. \A t \in Timers : Contains(l, t) <=> pending[t]
    BY <2>1 DEF Kept, Listed, Removing, Adding
  <2>4. \A i, j \in 1 .. Len(l) : i < j => ticks[l[i]] <= ticks[l[j]]
    BY <2>1 DEF Kept, Ascending
  <2> QED BY <2>2, <2>3, <2>4
<1> QED BY <1>1, InductiveInvariant, PTL

\* No timer on the list is earlier than the first.
LEMMA FirstIsLeast ==
    ASSUME NEW l \in Seq(Timers), Chain(next, l), Ascending(l, ticks), ticks \in [Timers -> Nat],
           NEW u \in Timers, Contains(l, u)
    PROVE  First \in Timers /\ ticks[First] <= ticks[u]
<1>1. PICK i \in 1 .. Len(l) : l[i] = u
  BY DEF Contains
<1>2. Len(l) \in Nat /\ 0 \in 0 .. Len(l) - 1 /\ 1 \in 1 .. Len(l) /\ 0 + 1 = 1
  BY <1>1, LenProperties
<1>3. First = l[1] /\ l[1] \in Timers
  BY <1>2, ElementOfSeq DEF Chain, First, Node
<1>4. i = 1 \/ 1 < i
  BY <1>2
<1>5. 1 < i => ticks[l[1]] <= ticks[l[i]]
  BY <1>2 DEF Ascending
<1> QED BY <1>1, <1>3, <1>4, <1>5

\* When the interrupt ends no timer whose time has come is left waiting, but for those
\* that were put back because the message pool was full and the one that is being put
\* in; also when the counter has jumped, until the list is torn.
THEOREM DueAreServed == Spec => OnTime
<1> DEFINE Served ==
              isr /\ ~isr' /\ ~torn =>
                  \A t \in Timers :
                      due[t] # Null /\ due[t] <= tick
                      /\ ~(t = op.timer /\ op.pc \in {"walk", "point", "link"})
                      => pending[t] /\ ticks[t] > tick
<1>1. IInv /\ [Next]_vars => [Served]_vars
  <2> SUFFICES ASSUME Intact, Next, isr, ~isr', NEW t \in Timers, due[t] # Null,
                      ~(t = op.timer /\ op.pc \in {"walk", "point", "link"})
               PROVE  pending[t] /\ ticks[t] > tick
    BY DEF IInv
  <2>1. PICK l \in Seq(Timers), k \in Nat : Kept(l, k)
    BY DEF Intact
  <2>2. ~IsDue
    BY DEF Next, Reset, Stop, StopTest, StopClear, Seek, Cut, Set, Walk, Point, Link,
           Dispatch, Tick, Post, Postpone, TickDone, OtherIsr
  <2>3. pending[t] /\ Contains(l, t)
    BY <2>1 DEF Kept, Timely, Listed, Adding
  <2>4. Chain(next, l) /\ Ascending(l, ticks) /\ ticks \in [Timers -> Nat] /\ tick \in Nat
    BY <2>1 DEF Kept, Types
  <2>5. First \in Timers /\ ticks[First] <= ticks[t]
    BY <2>3, <2>4, FirstIsLeast
  <2>6. ticks[First] > tick
    BY <2>2, <2>4, <2>5, OsTimerAssumption DEF IsDue
  <2> QED BY <2>3, <2>4, <2>5, <2>6
<1> QED BY <1>1, InductiveInvariant, PTL DEF Spec, OnTime

\* A message is posted for a timer only if its client still wants it and its time has
\* come, and before those of all timers that are due later, until the list is torn.
THEOREM PostsAreInOrder == Spec => PostsInOrder
<1> DEFINE Posts == \A t \in Timers :
              Len(pool') > Len(pool) /\ Last(pool') = t /\ ~torn' =>
                  /\ due[t] # Null /\ due[t] <= tick
                  /\ \A u \in Timers : pending[u] => ticks[t] <= ticks[u]
<1>1. IInv /\ [Next]_vars => [Posts]_vars
  <2> SUFFICES ASSUME IInv, Next, NEW t \in Timers, Len(pool') > Len(pool), Last(pool') = t,
                      ~torn'
               PROVE  /\ due[t] # Null /\ due[t] <= tick
                      /\ \A u \in Timers : pending[u] => ticks[t] <= ticks[u]
    OBVIOUS
  <2>1. PICK l \in Seq(Timers), k \in Nat : Kept(l, k)
    BY TornStays DEF IInv, Intact
  <2>2. pool \in Seq(Timers \union {Key}) /\ Len(pool) \in Nat
    BY <2>1, LenProperties DEF Kept, Types
  <2>3. pool' # pool
    BY <2>2
  <2>4. CASE Post
    <3>1. IsDue /\ pool' = Append(pool, First) /\ op.pc \notin Inside
      BY <2>4 DEF Post, Tear
    <3>2. /\ First \in Timers /\ due[First] # Null /\ due[First] \in Nat
          /\ due[First] <= ticks[First] /\ ticks[First] <= tick
          /\ \A u \in Timers : pending[u] => ticks[First] <= ticks[u]
      BY <2>1, <3>1, DueLemma
    <3>3. Last(pool') = First
      BY <2>2, <3>1, <3>2, AppendProperties DEF Last
    <3>4. ticks[First] \in Nat /\ tick \in Nat
      BY <2>1, <3>2 DEF Kept, Types
    <3> QED BY <3>2, <3>3, <3>4
  <2>5. CASE OtherIsr
    <3>1. Last(pool') = Key
      BY <2>2, <2>5, AppendProperties DEF OtherIsr, Last
    <3> QED BY <3>1, OsTimerAssumption
  <2>6. CASE Dispatch
    <3>1. Len(pool') = Len(pool) - 1
      BY <2>2, <2>6, HeadTailProperties DEF Dispatch
    <3> QED BY <2>2, <3>1
  <2> QED BY <2>3, <2>4, <2>5, <2>6
      DEF Next, Reset, Stop, StopTest, StopClear, Seek, Cut, Set, Walk, Point, Link,
          Tick, Postpone, TickDone
<1> QED BY <1>1, InductiveInvariant, PTL DEF Spec, PostsInOrder

=============================================================================
