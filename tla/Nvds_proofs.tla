---------------------------- MODULE Nvds_proofs ----------------------------
(***************************************************************************)
(* Theorems about Nvds, for all tags, values, sizes and power losses: the  *)
(* walk, flashes that differ in one tag, the purge, the accesses of a      *)
(* call, the inductive invariant and its steps, and the abstract store.    *)
(***************************************************************************)
EXTENDS Nvds, WellFoundedInduction, FiniteSetTheorems, SequenceTheorems, TLAPS

\* A set of naturals has a least element.
LEMMA LeastNat ==
    ASSUME NEW T \in SUBSET Nat, T # {}
    PROVE  \E n \in T : \A m \in T : n <= m
<1> DEFINE R == {ss \in Nat \X Nat : ss[1] < ss[2]}
<1>1. R = OpToRel(<, Nat)
  BY Zenon DEF OpToRel
<1>2. IsWellFoundedOn(R, Nat)
  BY <1>1, NatLessThanWellFounded, Zenon
<1>3. \A x, y \in Nat : <<y, x>> \in R <=> y < x
  OBVIOUS
<1> HIDE DEF R
<1>4. PICK n \in T : \A m \in T : ~(<<m, n>> \in R)
  BY <1>2, WFMin
<1>5. \A m \in T : ~(m < n)
  BY <1>3, <1>4
<1> QED BY <1>5

-----------------------------------------------------------------------------
(* The walk.  What it visits is the least set with Start in it that is     *)
(* closed under going on to the next tag.                                  *)

Flashes == [0 .. Sector - 1 -> Byte]
Places == Start .. Size
Behind(m, a) == a + FullLength(m, a)

Closed(m, W) == \A a \in W : ~Stops(m, a) => Behind(m, a) \in W

Reach(m, a) == {b \in Places : \A W \in SUBSET Places : a \in W /\ Closed(m, W) => b \in W}

LEMMA PlacesLemma ==
    /\ Size \in Nat /\ Sector \in Nat /\ 1 < Size /\ Size + 3 <= Sector
    /\ Start = 1 /\ Hdr = 3 /\ Blank = 7 /\ Magic = 2 /\ Byte = 0 .. 7
    /\ Places \subseteq Nat /\ Start \in Places
BY NvdsAssumption DEF Start, Hdr, Blank, Magic, Byte, Places

LEMMA BehindLemma ==
    ASSUME NEW m \in Flashes, NEW a \in Places
    PROVE  /\ m[a] \in 0 .. 7 /\ m[a + 1] \in 0 .. 7 /\ m[a + 2] \in 0 .. 7
           /\ FullLength(m, a) = 3 + m[a + 2] /\ FullLength(m, a) \in 3 .. 10
           /\ Behind(m, a) = a + FullLength(m, a) /\ Behind(m, a) \in Nat
           /\ Behind(m, a) >= a + 3 /\ Behind(m, a) <= a + 10
           /\ Stops(m, a) <=> m[a] = 7 \/ Behind(m, a) > Size - 1
           /\ ~Stops(m, a) => Behind(m, a) \in Places
<1>1. a \in 0 .. Sector - 1 /\ a + 1 \in 0 .. Sector - 1 /\ a + 2 \in 0 .. Sector - 1 /\ a \in 1 .. Size
  BY PlacesLemma DEF Places
<1>2. m[a] \in 0 .. 7 /\ m[a + 1] \in 0 .. 7 /\ m[a + 2] \in 0 .. 7
  BY <1>1, PlacesLemma DEF Flashes
<1> QED BY <1>1, <1>2, PlacesLemma DEF FullLength, Behind, Stops, Places

Steps(m, f) ==
    f = [a \in Places |-> IF Stops(m, a) THEN {a} ELSE {a} \union f[a + FullLength(m, a)]]

\* What the walk is, as soon as some function meets its equation.
LEMMA WalkBySteps ==
    ASSUME NEW m, NEW g, Steps(m, g)
    PROVE  \E f : Steps(m, f) /\ Walk(m) = f[Start]
BY Zenon DEF Walk, Steps, Places

LEMMA ReachLemma ==
    ASSUME NEW m \in Flashes, NEW a \in Places
    PROVE  Reach(m, a) = IF Stops(m, a) THEN {a} ELSE {a} \union Reach(m, Behind(m, a))
<1>1. a \in Reach(m, a)
  BY DEF Reach
<1>2. CASE Stops(m, a)
  <2>1. {a} \in SUBSET Places /\ Closed(m, {a})
    BY <1>2 DEF Closed
  <2>2. Reach(m, a) \subseteq {a}
    BY <2>1 DEF Reach
  <2> QED BY <1>1, <1>2, <2>2
<1>3. CASE ~Stops(m, a)
  <2>1. Behind(m, a) \in Places
    BY <1>3, BehindLemma
  <2>2. Reach(m, Behind(m, a)) \subseteq Reach(m, a)
    BY <1>3 DEF Reach, Closed
  <2>3. ASSUME NEW b \in Reach(m, a), b # a PROVE b \in Reach(m, Behind(m, a))
    <3> SUFFICES ASSUME NEW W \in SUBSET Places, Behind(m, a) \in W, Closed(m, W)
                 PROVE  b \in W
      BY <2>3 DEF Reach
    <3>1. W \union {a} \in SUBSET Places /\ Closed(m, W \union {a})
      BY DEF Closed
    <3>2. b \in W \union {a}
      BY <3>1, <2>3 DEF Reach
    <3> QED BY <3>2, <2>3
  <2> QED BY <1>1, <1>3, <2>2, <2>3
<1> QED BY <1>2, <1>3

LEMMA WalkReach ==
    ASSUME NEW m \in Flashes
    PROVE  Walk(m) = Reach(m, Start)
<1> DEFINE g == [a \in Places |-> Reach(m, a)]
<1>1. Steps(m, g)
  <2>1. ASSUME NEW a \in Places
        PROVE  g[a] = IF Stops(m, a) THEN {a} ELSE {a} \union g[a + FullLength(m, a)]
    <3>1. ~Stops(m, a) => Behind(m, a) \in Places
      BY BehindLemma
    <3> QED BY <3>1, ReachLemma DEF Behind
  <2> QED BY <2>1 DEF Steps
<1>2. PICK f : Steps(m, f) /\ Walk(m) = f[Start]
  BY <1>1, WalkBySteps
<1>3. \A a \in Places : f[a] = IF Stops(m, a) THEN {a} ELSE {a} \union f[Behind(m, a)]
  BY <1>2 DEF Steps, Behind
<1>4. \A a \in Places : f[a] = Reach(m, a)
  <2> DEFINE T == {n \in Nat : \E a \in Places : n = Size - a /\ f[a] # Reach(m, a)}
  <2> SUFFICES ASSUME NEW c \in Places, f[c] # Reach(m, c) PROVE FALSE
    OBVIOUS
  <2>1. Size - c \in T
    BY PlacesLemma DEF Places
  <2>2. PICK n \in T : \A i \in T : n <= i
    BY <2>1, LeastNat
  <2>3. PICK a \in Places : n = Size - a /\ f[a] # Reach(m, a)
    BY <2>2
  <2>4. CASE Stops(m, a)
    BY <1>3, <2>3, <2>4, ReachLemma
  <2>5. CASE ~Stops(m, a)
    <3>1. Behind(m, a) \in Places /\ Behind(m, a) > a /\ Behind(m, a) <= Size
      BY <2>5, BehindLemma, PlacesLemma DEF Places
    <3>2. Size - Behind(m, a) \in Nat /\ Size - Behind(m, a) < n
      BY <2>3, <3>1, PlacesLemma DEF Places
    <3>3. Size - Behind(m, a) \notin T
      BY <2>2, <3>2
    <3>4. f[Behind(m, a)] = Reach(m, Behind(m, a))
      BY <3>1, <3>2, <3>3
    <3> QED BY <1>3, <2>3, <2>5, <3>4, ReachLemma
  <2> QED BY <2>4, <2>5
<1> QED BY <1>2, <1>4, PlacesLemma

LEMMA WalkLemma ==
    ASSUME NEW m \in Flashes
    PROVE  /\ Walk(m) \subseteq Places /\ Start \in Walk(m) /\ Closed(m, Walk(m))
           /\ \A W \in SUBSET Places : Start \in W /\ Closed(m, W) => Walk(m) \subseteq W
<1>1. Walk(m) = Reach(m, Start)
  BY WalkReach
<1> QED BY <1>1, BehindLemma, PlacesLemma DEF Reach, Closed

LEMMA MinLemma ==
    ASSUME NEW S \in SUBSET Nat, S # {}
    PROVE  Min(S) \in S /\ \A x \in S : Min(S) <= x
<1>1. \E n \in S : \A x \in S : n <= x
  BY LeastNat
<1> QED BY <1>1 DEF Min

LEMMA MaxLemma ==
    ASSUME NEW S \in SUBSET Nat, S # {}, NEW n \in Nat, \A x \in S : x <= n
    PROVE  Max(S) \in S /\ \A x \in S : Max(S) >= x
<1> DEFINE T == {i \in Nat : \E x \in S : i = n - x}
<1>1. T # {}
  <2>1. PICK x \in S : TRUE
    OBVIOUS
  <2>2. n - x \in Nat
    OBVIOUS
  <2> QED BY <2>2
<1>2. PICK i \in T : \A j \in T : i <= j
  BY <1>1, LeastNat
<1>3. PICK x \in S : i = n - x
  BY <1>2
<1>4. \A y \in S : n - y \in T
  OBVIOUS
<1>5. \A y \in S : x >= y
  BY <1>2, <1>3, <1>4
<1> QED BY <1>5 DEF Max

\* Nothing that is visited lies inside a tag, and a tag ends before all that are visited
\* behind it.
LEMMA ApartLemma ==
    ASSUME NEW m \in Flashes
    PROVE  \A a \in Headers(m), b \in Walk(m) : b <= a \/ b >= Behind(m, a)
<1> DEFINE W == {a \in Walk(m) : \A b \in Headers(m) : b < a => Behind(m, b) <= a}
           V(a) == {b \in Walk(m) : b <= a \/ b >= Behind(m, a)}
<1>1. /\ Walk(m) \subseteq Places /\ Start \in Walk(m) /\ Closed(m, Walk(m))
      /\ \A S \in SUBSET Places : Start \in S /\ Closed(m, S) => Walk(m) \subseteq S
      /\ Walk(m) \subseteq Nat /\ \A a \in Walk(m) : Start <= a
  BY WalkLemma, PlacesLemma DEF Places
<1>2. Headers(m) = {a \in Walk(m) : ~Stops(m, a)}
  BY DEF Headers
<1>3. \A a \in Walk(m) : Behind(m, a) \in Nat /\ Behind(m, a) >= a + 3
  BY <1>1, BehindLemma
<1>4. ASSUME NEW a \in W, a \in Headers(m) PROVE Walk(m) \subseteq V(a)
  <2>1. Start \in V(a)
    BY <1>1, PlacesLemma
  <2>2. Closed(m, V(a))
    <3> SUFFICES ASSUME NEW b \in V(a), ~Stops(m, b) PROVE Behind(m, b) \in V(a)
      BY DEF Closed
    <3>1. b \in Headers(m) /\ Behind(m, b) \in Walk(m)
      BY <1>1, <1>2 DEF Closed
    <3>2. CASE b < a
      BY <3>1, <3>2, <1>4
    <3>3. CASE b = a
      BY <3>1, <3>3, <1>3
    <3>4. CASE b >= Behind(m, a) /\ b > a
      <4>1. Behind(m, b) \in Nat /\ b \in Nat /\ a \in Nat /\ Behind(m, a) \in Nat /\ Behind(m, b) >= b + 3
        BY <1>1, <1>3
      <4> QED BY <3>1, <3>4, <4>1
    <3>5. a \in Nat /\ b \in Nat /\ Behind(m, a) >= a + 3 /\ Behind(m, a) \in Nat
      BY <1>1, <1>3
    <3> QED BY <3>2, <3>3, <3>4, <3>5
  <2> QED BY <1>1, <2>1, <2>2
<1>5. W = Walk(m)
  <2>1. Start \in W
    BY <1>1, <1>2, PlacesLemma
  <2>2. Closed(m, W)
    <3> SUFFICES ASSUME NEW a \in W, ~Stops(m, a) PROVE Behind(m, a) \in W
      BY DEF Closed
    <3>1. a \in Headers(m) /\ Behind(m, a) \in Walk(m)
      BY <1>1, <1>2 DEF Closed
    <3>2. Walk(m) \subseteq V(a)
      BY <1>4, <3>1
    <3>3. ASSUME NEW b \in Headers(m), b < Behind(m, a) PROVE Behind(m, b) <= Behind(m, a)
      <4>1. b \in Nat /\ a \in Nat /\ Behind(m, a) \in Nat /\ Behind(m, b) \in Nat
            /\ Behind(m, a) >= a + 3
        BY <1>1, <1>2, <1>3
      <4>2. b <= a
        BY <1>2, <3>2, <3>3, <4>1
      <4>3. CASE b = a
        BY <4>1, <4>3
      <4>4. CASE b < a
        <5>1. Behind(m, b) <= a
          BY <4>4
        <5> QED BY <4>1, <5>1
      <4> QED BY <4>1, <4>2, <4>3, <4>4
    <3> QED BY <3>1, <3>3
  <2>3. W \in SUBSET Places
    BY <1>1
  <2>4. Walk(m) \subseteq W
    <3> HIDE DEF W
    <3> QED BY <1>1, <2>1, <2>2, <2>3
  <2> QED BY <2>4
<1>6. \A a \in Headers(m) : Walk(m) \subseteq V(a)
  <2> HIDE DEF V
  <2> QED BY <1>2, <1>4, <1>5
<1> QED BY <1>6

\* The walk stops at one place, behind all tags.
LEMMA EndLemma ==
    ASSUME NEW m \in Flashes
    PROVE  /\ End(m) \in Walk(m) /\ Stops(m, End(m))
           /\ \A a \in Walk(m) : a \in Nat /\ a <= End(m) /\ (Stops(m, a) => a = End(m))
           /\ \A a \in Headers(m) :
                 /\ a \in Walk(m) /\ a \in Places /\ ~Stops(m, a)
                 /\ Behind(m, a) \in Walk(m) /\ a + 3 <= Behind(m, a)
                 /\ Behind(m, a) <= End(m) /\ Behind(m, a) <= Size - 1
<1>1. /\ Walk(m) \subseteq Places /\ Start \in Walk(m) /\ Closed(m, Walk(m))
      /\ Walk(m) \subseteq Nat /\ \A a \in Walk(m) : a <= Size
  BY WalkLemma, PlacesLemma DEF Places
<1>2. End(m) \in Walk(m) /\ \A a \in Walk(m) : End(m) >= a
  <2>1. Size \in Nat /\ Walk(m) # {}
    BY <1>1, PlacesLemma
  <2> QED BY <1>1, <2>1, MaxLemma DEF End
<1>3. \A a \in Walk(m) : /\ Behind(m, a) \in Nat /\ Behind(m, a) >= a + 3
                         /\ ~Stops(m, a) => Behind(m, a) <= Size - 1
  BY <1>1, BehindLemma, PlacesLemma
<1>4. Stops(m, End(m))
  <2> SUFFICES ASSUME ~Stops(m, End(m)) PROVE FALSE
    OBVIOUS
  <2>1. Behind(m, End(m)) \in Walk(m)
    BY <1>1, <1>2 DEF Closed
  <2> QED BY <1>1, <1>2, <1>3, <2>1
<1>5. ASSUME NEW a \in Headers(m)
      PROVE  /\ a \in Walk(m) /\ a \in Places /\ ~Stops(m, a)
             /\ Behind(m, a) \in Walk(m) /\ a + 3 <= Behind(m, a)
             /\ Behind(m, a) <= End(m) /\ Behind(m, a) <= Size - 1
  <2>1. a \in Walk(m) /\ a \in Places /\ ~Stops(m, a) /\ Behind(m, a) \in Walk(m)
    BY <1>1 DEF Headers, Closed
  <2> QED BY <1>1, <1>2, <1>3, <2>1
<1>6. ASSUME NEW a \in Walk(m), Stops(m, a) PROVE a = End(m)
  <2> SUFFICES ASSUME a # End(m) PROVE FALSE
    OBVIOUS
  <2> DEFINE W == {b \in Walk(m) : b <= a}
  <2>1. Closed(m, W)
    <3> SUFFICES ASSUME NEW b \in W, ~Stops(m, b) PROVE Behind(m, b) \in W
      BY DEF Closed
    <3>1. b \in Headers(m) /\ Behind(m, b) \in Walk(m) /\ b # a
      BY <1>1, <1>6 DEF Headers, Closed
    <3>2. a <= b \/ a >= Behind(m, b)
      BY <3>1, ApartLemma
    <3>3. a \in Nat /\ b \in Nat
      BY <1>1
    <3> QED BY <3>1, <3>2, <3>3
  <2>2. Start \in W /\ W \in SUBSET Places
    BY <1>1, PlacesLemma DEF Places
  <2>3. Walk(m) \subseteq W
    <3> HIDE DEF W
    <3> QED BY <2>1, <2>2, WalkLemma
  <2>4. a >= End(m) /\ End(m) >= a /\ a \in Nat /\ End(m) \in Nat
    BY <1>1, <1>2, <2>3
  <2> QED BY <2>4
<1> QED BY <1>1, <1>2, <1>4, <1>5, <1>6

\* A flash that has the same tags and lengths below e is walked in the same way up to e.
LEMMA AgreeLemma ==
    ASSUME NEW m \in Flashes, NEW n \in Flashes, NEW e \in Walk(m),
           \A a \in Headers(m) : a < e => n[a] = m[a] /\ n[a + 2] = m[a + 2]
    PROVE  e \in Walk(n) /\ \A a : a < e => (a \in Headers(n) <=> a \in Headers(m))
<1>1. /\ Walk(m) \subseteq Places /\ Start \in Walk(m) /\ Closed(m, Walk(m))
      /\ Walk(n) \subseteq Places /\ Start \in Walk(n) /\ Closed(n, Walk(n))
      /\ Places \subseteq Nat /\ e \in Places /\ e \in Nat
  BY WalkLemma, PlacesLemma
<1>2. ASSUME NEW a \in Walk(m), a < e
      PROVE  a \in Headers(m) /\ ~Stops(m, a) /\ ~Stops(n, a) /\ Behind(n, a) = Behind(m, a)
             /\ Behind(m, a) \in Nat /\ Behind(m, a) \in Walk(m)
  <2>1. a \in Nat /\ e \in Nat /\ End(m) \in Nat /\ e <= End(m)
    BY <1>1, EndLemma
  <2>2. ~Stops(m, a)
    BY <1>2, <2>1, EndLemma
  <2>3. a \in Headers(m) /\ a \in Places
    BY <1>1, <2>2 DEF Headers
  <2>4. n[a] = m[a] /\ n[a + 2] = m[a + 2]
    BY <1>2, <2>3
  <2>5. Behind(m, a) \in Walk(m)
    BY <2>3, EndLemma
  <2> QED BY <2>2, <2>3, <2>4, <2>5, BehindLemma
<1>3. \A a \in Walk(m) : a <= e => a \in Walk(n)
  <2> DEFINE W == {a \in Walk(m) : a <= e => a \in Walk(n)}
  <2>1. Closed(m, W)
    <3> SUFFICES ASSUME NEW a \in W, ~Stops(m, a), Behind(m, a) <= e
                 PROVE  Behind(m, a) \in Walk(n)
      BY <1>1 DEF Closed
    <3>0. a \in Places /\ a \in Nat
      BY <1>1
    <3>1. a \in Nat /\ e \in Nat /\ a < Behind(m, a) /\ Behind(m, a) \in Nat
      BY <1>1, <3>0, BehindLemma
    <3>2. a < e /\ a \in Walk(n)
      BY <3>1
    <3> QED BY <1>1, <1>2, <3>2 DEF Closed
  <2>2. Start \in W /\ W \in SUBSET Places
    BY <1>1
  <2>3. Walk(m) \subseteq W
    <3> HIDE DEF W
    <3> QED BY <2>1, <2>2, WalkLemma
  <2> QED BY <2>3
<1>4. \A a \in Walk(n) : a <= e => a \in Walk(m)
  <2> DEFINE W == {a \in Walk(n) : a <= e => a \in Walk(m)}
  <2>1. Closed(n, W)
    <3> SUFFICES ASSUME NEW a \in W, ~Stops(n, a), Behind(n, a) <= e
                 PROVE  Behind(n, a) \in Walk(m)
      BY <1>1 DEF Closed
    <3>0. a \in Places /\ a \in Nat
      BY <1>1
    <3>1. a \in Nat /\ e \in Nat /\ a < Behind(n, a) /\ Behind(n, a) \in Nat
      BY <1>1, <3>0, BehindLemma
    <3>2. a < e /\ a \in Walk(m)
      BY <3>1
    <3> QED BY <1>2, <3>2
  <2>2. Start \in W /\ W \in SUBSET Places
    BY <1>1
  <2>3. Walk(n) \subseteq W
    <3> HIDE DEF W
    <3> QED BY <2>1, <2>2, WalkLemma
  <2> QED BY <2>3
<1>5. e \in Walk(n)
  <2>1. e <= e
    BY <1>1
  <2> QED BY <1>3, <2>1
<1>6. ASSUME NEW a, a < e, a \in Headers(n) PROVE a \in Headers(m)
  <2>1. a \in Walk(n) /\ a \in Nat /\ e \in Nat
    BY <1>1, <1>6 DEF Headers
  <2> QED BY <1>2, <1>4, <1>6, <2>1
<1>7. ASSUME NEW a, a < e, a \in Headers(m) PROVE a \in Headers(n)
  <2>1. a \in Walk(m) /\ a \in Nat /\ e \in Nat
    BY <1>1, <1>7 DEF Headers
  <2> QED BY <1>2, <1>3, <1>7, <2>1 DEF Headers
<1> QED BY <1>5, <1>6, <1>7

\* The last tag, when what lies behind it is blank.
LEMMA TailLemma ==
    ASSUME NEW m \in Flashes, NEW e \in Walk(m),
           Stops(m, e) \/ m[Behind(m, e)] = Blank
    PROVE  \A a : a \in Headers(m) <=> (a \in Headers(m) /\ a < e) \/ (a = e /\ ~Stops(m, e))
<1>1. /\ \A a \in Walk(m) : a \in Nat /\ a <= End(m) /\ (Stops(m, a) => a = End(m))
      /\ \A a \in Headers(m) : a \in Walk(m) /\ ~Stops(m, a) /\ Behind(m, a) <= End(m)
      /\ e \in Nat /\ e \in Places /\ End(m) \in Nat
  BY EndLemma, WalkLemma
<1>2. CASE Stops(m, e)
  <2>1. e = End(m)
    BY <1>1, <1>2
  <2>2. \A a \in Headers(m) : a < e
    <3> SUFFICES ASSUME NEW a \in Headers(m) PROVE a < e
      OBVIOUS
    <3>1. a # e /\ a <= e /\ a \in Nat
      BY <1>1, <1>2, <2>1
    <3> QED BY <3>1, <1>1
  <2> QED BY <1>2, <2>2
<1>3. CASE ~Stops(m, e)
  <2>1. e \in Headers(m)
    BY <1>3 DEF Headers
  <2>2. Behind(m, e) \in Walk(m) /\ Behind(m, e) \in Places
    BY <2>1, EndLemma, WalkLemma
  <2>3. Stops(m, Behind(m, e))
    BY <1>3, <2>2 DEF Stops
  <2>4. \A a \in Headers(m) : a <= e \/ a >= Behind(m, e)
    BY <1>1, <2>1, ApartLemma
  <2>5. \A a \in Headers(m) : a <= e
    <3> SUFFICES ASSUME NEW a \in Headers(m), a >= Behind(m, e) PROVE FALSE
      BY <2>4
    <3>1. End(m) = Behind(m, e)
      BY <1>1, <2>2, <2>3
    <3>2. a \in Nat /\ a <= End(m) /\ a # End(m)
      BY <1>1, <2>3, <3>1
    <3> QED BY <1>1, <3>1, <3>2
  <2>6. \A a \in Headers(m) : a \in Nat
    BY <1>1
  <2>7. \A a \in Headers(m) : a = e \/ a < e
    BY <1>1, <2>5, <2>6
  <2> QED BY <1>3, <2>1, <2>7
<1> QED BY <1>2, <1>3

-----------------------------------------------------------------------------
(* What the tags hold.                                                     *)

\* The bytes of the tag at a are the same.
Same(m, n, a) == \A x \in a .. Behind(m, a) - 1 : n[x] = m[x]

LEMMA SameLemma ==
    ASSUME NEW m \in Flashes, NEW n \in Flashes, NEW a \in Places, Same(m, n, a)
    PROVE  /\ n[a] = m[a] /\ n[a + 1] = m[a + 1] /\ n[a + 2] = m[a + 2]
           /\ Content(n, a) = Content(m, a) /\ (IsTagOk(n, a) <=> IsTagOk(m, a))
<1>1. a \in Nat /\ Behind(m, a) \in Nat /\ Behind(m, a) >= a + 3
      /\ Behind(m, a) = a + (3 + m[a + 2]) /\ m[a + 2] \in Nat
  BY BehindLemma, PlacesLemma
<1>2. n[a] = m[a] /\ n[a + 1] = m[a + 1] /\ n[a + 2] = m[a + 2]
  BY <1>1 DEF Same
<1>3. \A i \in 1 .. m[a + 2] : n[a + 2 + i] = m[a + 2 + i]
  BY <1>1 DEF Same
<1>4. Data(n, a) = Data(m, a)
  BY <1>2, <1>3 DEF Data
<1> QED BY <1>2, <1>4 DEF Content, IsLocked, IsTagOk

LEMMA HoldingLemma ==
    ASSUME NEW m \in Flashes, NEW t
    PROVE  /\ Holding(m, t) \subseteq Headers(m) /\ Holding(m, t) \subseteq Places
           /\ Holding(m, t) \subseteq Nat /\ Places \subseteq Nat
           /\ Holding(m, t) = {} => View(m, t) = Absent
           /\ \A a : Holding(m, t) = {a} => View(m, t) = Content(m, a)
<1>1. /\ Holding(m, t) \subseteq Headers(m) /\ Holding(m, t) \subseteq Places
      /\ Holding(m, t) \subseteq Nat /\ Places \subseteq Nat
  BY WalkLemma, PlacesLemma DEF Holding, Headers
<1>2. ASSUME NEW a, Holding(m, t) = {a} PROVE View(m, t) = Content(m, a)
  <2>1. Min(Holding(m, t)) = a
    BY <1>1, <1>2, MinLemma
  <2> QED BY <1>2, <2>1 DEF View
<1> QED BY <1>1, <1>2 DEF View

\* The first copy of a tag is still the first one.
LEMMA ViewKept ==
    ASSUME NEW m \in Flashes, NEW n \in Flashes, NEW e \in Walk(m), NEW t,
           \A a \in Headers(m) : a < e =>
              n[a] = m[a] /\ n[a + 2] = m[a + 2] /\ (m[a] = t => Same(m, n, a)),
           \E a \in Holding(m, t) : a < e
    PROVE  View(n, t) = View(m, t) /\ \E a \in Holding(n, t) : a < e
<1>1. e \in Walk(n) /\ \A a : a < e => (a \in Headers(n) <=> a \in Headers(m))
  BY AgreeLemma
<1>2. \A a : a < e => (a \in Holding(n, t) <=> a \in Holding(m, t))
  <2> SUFFICES ASSUME NEW a, a < e, a \in Headers(m)
               PROVE  IsTagOk(n, a) /\ n[a] = t <=> IsTagOk(m, a) /\ m[a] = t
    BY <1>1 DEF Holding
  <2>1. a \in Places
    BY EndLemma
  <2> QED BY <2>1, SameLemma
<1> DEFINE a == Min(Holding(m, t))
           b == Min(Holding(n, t))
<1>3. PICK c \in Holding(m, t) : c < e
  OBVIOUS
<1>4. e \in Nat /\ Holding(m, t) \subseteq Nat /\ Holding(n, t) \subseteq Nat
  BY HoldingLemma, EndLemma
<1>5. a \in Holding(m, t) /\ \A x \in Holding(m, t) : a <= x
  BY <1>3, <1>4, MinLemma
<1>6. c \in Holding(n, t)
  BY <1>2, <1>3
<1>7. b \in Holding(n, t) /\ \A x \in Holding(n, t) : b <= x
  BY <1>4, <1>6, MinLemma
<1> HIDE DEF a, b
<1>8. a < e /\ b < e
  BY <1>3, <1>4, <1>5, <1>6, <1>7
<1>9. a = b
  BY <1>2, <1>4, <1>5, <1>7, <1>8
<1>10. a \in Headers(m) /\ m[a] = t /\ a \in Places
  BY <1>5, HoldingLemma DEF Holding
<1>11. Content(n, a) = Content(m, a)
  BY <1>8, <1>10, SameLemma
<1> QED BY <1>3, <1>6, <1>9, <1>11 DEF View, a, b

\* A status is programmed.
LEMMA AndLemma ==
    ASSUME NEW x \in 0 .. 7, NEW y \in 0 .. 7
    PROVE  /\ And(x, y) \in 0 .. 7 /\ And(x, 7) = x /\ And(7, y) = y
           /\ Bit(And(x, And(x, 3)), 4) = 0
           /\ Bit(And(x, And(x, 5)), 1) = Bit(x, 1) /\ Bit(And(x, And(x, 5)), 4) = Bit(x, 4)
           /\ Bit(And(x, And(x, 5)), 2) = 0
<1>1. x \in {0, 1, 2, 3, 4, 5, 6, 7} /\ y \in {0, 1, 2, 3, 4, 5, 6, 7}
  OBVIOUS
<1> QED BY <1>1, SMTT(60) DEF And, Bit

\* A byte is written that is behind e or the status of a tag c.
Off(m, e, c, x) == x >= e \/ \E a \in Headers(m) : a < e /\ m[a] = c /\ x = a + 1

\* A tag has a valid copy before e.
Held(m, t, e) == \E a \in Holding(m, t) : a < e

\* The first copy before e is the first one of n, too.
Keeps(m, n, t, e) == Held(m, t, e) => View(n, t) = View(m, t) /\ Held(n, t, e)

LEMMA OffLemma ==
    ASSUME NEW m \in Flashes, NEW e \in Walk(m), NEW c, NEW x \in 0 .. Sector - 1,
           Off(m, e, c, x), NEW y \in 0 .. 7, NEW n, n = [m EXCEPT ![x] = y]
    PROVE  /\ n \in Flashes /\ e \in Walk(n) /\ n[0] = m[0]
           /\ \A a : a < e => (a \in Headers(n) <=> a \in Headers(m))
           /\ \A a \in Headers(m) : a < e =>
                 n[a] = m[a] /\ n[a + 2] = m[a + 2] /\ (m[a] # c => Same(m, n, a))
           /\ \A z : Off(m, e, c, z) => Off(n, e, c, z)
           /\ \A t : t # c => Keeps(m, n, t, e)
<1>1. /\ e \in Places /\ e \in Nat /\ 1 <= e /\ Places \subseteq 0 .. Sector - 1 /\ x \in Nat
      /\ \A a \in Headers(m) : /\ a \in Walk(m) /\ a \in Places /\ a \in Nat /\ 1 <= a
                               /\ ~Stops(m, a) /\ Behind(m, a) \in Nat
                               /\ a + 3 <= Behind(m, a) /\ Behind(m, a) <= Size - 1
  <2>1. Places \subseteq Nat /\ \A a \in Places : 1 <= a /\ a \in 0 .. Sector - 1
    BY PlacesLemma DEF Places
  <2>2. e \in Places
    BY WalkLemma
  <2>3. \A a \in Places : Behind(m, a) \in Nat
    BY BehindLemma
  <2>4. ASSUME NEW a \in Headers(m)
        PROVE  /\ a \in Walk(m) /\ a \in Places /\ ~Stops(m, a)
               /\ a + 3 <= Behind(m, a) /\ Behind(m, a) <= Size - 1
    BY EndLemma
  <2>5. e \in Nat /\ 1 <= e /\ Places \subseteq 0 .. Sector - 1 /\ x \in Nat
    BY <2>1, <2>2
  <2>6. \A a \in Headers(m) : a \in Nat /\ 1 <= a /\ Behind(m, a) \in Nat
    BY <2>1, <2>3, <2>4
  <2> QED BY <2>2, <2>4, <2>5, <2>6
<1>2. n \in Flashes /\ \A z \in 0 .. Sector - 1 : n[z] = IF z = x THEN y ELSE m[z]
  BY PlacesLemma DEF Flashes
<1>3. ASSUME NEW a \in Headers(m), a < e
      PROVE  /\ Behind(m, a) <= e
             /\ x \notin {a, a + 2} /\ (x # a + 1 => x \notin a .. Behind(m, a) - 1)
             /\ x = a + 1 => m[a] = c
  <2>1. e <= a \/ e >= Behind(m, a)
    BY ApartLemma
  <2>2. Behind(m, a) <= e
    BY <1>1, <1>3, <2>1
  <2>3. CASE x >= e
    BY <1>1, <2>2, <2>3
  <2>4. CASE \E b \in Headers(m) : b < e /\ m[b] = c /\ x = b + 1
    <3>1. PICK b \in Headers(m) : b < e /\ m[b] = c /\ x = b + 1
      BY <2>4
    <3>2. b <= a \/ b >= Behind(m, a)
      BY <1>1, ApartLemma
    <3>3. a <= b \/ a >= Behind(m, b)
      BY <1>1, ApartLemma
    <3>4. a = b \/ (x # a + 1 /\ x \notin a .. Behind(m, a) - 1 /\ x # a + 2)
      BY <1>1, <3>1, <3>2, <3>3
    <3>5. a + 1 # a + 2 /\ a # a + 1 /\ a + 2 \in a .. Behind(m, a) - 1
      BY <1>1
    <3> QED BY <1>1, <2>2, <3>1, <3>4, <3>5
  <2> QED BY <2>3, <2>4 DEF Off
<1>4. ASSUME NEW a \in Headers(m), a < e
      PROVE  n[a] = m[a] /\ n[a + 2] = m[a + 2] /\ (m[a] # c => Same(m, n, a))
  <2>1. \A z \in a .. Behind(m, a) - 1 : z \in 0 .. Sector - 1
    BY <1>1, PlacesLemma
  <2>2. a \in a .. Behind(m, a) - 1 /\ a + 2 \in a .. Behind(m, a) - 1
    BY <1>1
  <2>3. n[a] = m[a] /\ n[a + 2] = m[a + 2]
    BY <1>2, <1>3, <1>4, <2>1, <2>2
  <2>4. ASSUME m[a] # c PROVE Same(m, n, a)
    BY <1>2, <1>3, <1>4, <2>1, <2>4 DEF Same
  <2> QED BY <2>3, <2>4
<1>5. e \in Walk(n) /\ \A a : a < e => (a \in Headers(n) <=> a \in Headers(m))
  BY <1>2, <1>4, AgreeLemma
<1>6. \A z : Off(m, e, c, z) => Off(n, e, c, z)
  BY <1>4, <1>5 DEF Off
<1>7. n[0] = m[0]
  <2>1. x # 0 /\ 0 \in 0 .. Sector - 1
    BY <1>1, PlacesLemma DEF Off
  <2> QED BY <1>2, <2>1
<1>8. ASSUME NEW t, t # c, Held(m, t, e) PROVE View(n, t) = View(m, t) /\ Held(n, t, e)
  <2>1. \A a \in Headers(m) : a < e =>
           n[a] = m[a] /\ n[a + 2] = m[a + 2] /\ (m[a] = t => Same(m, n, a))
    BY <1>4, <1>8
  <2> QED BY <1>2, <1>8, <2>1, ViewKept DEF Held
<1>9. \A t : t # c => Keeps(m, n, t, e)
  BY <1>8 DEF Keeps
<1> QED BY <1>2, <1>4, <1>5, <1>6, <1>7, <1>9

-----------------------------------------------------------------------------
(* A flash that is written in the order of its bytes, but for the header   *)
(* of the last tag, which comes behind its data.                           *)

\* The place of the byte k, and the number of the byte at x.  The last tag begins at e and
\* has l bytes of data.
Spot(e, l, k) == IF k < e THEN k ELSE IF k < e + l THEN k + 3 ELSE IF k < e + l + 3 THEN k - l ELSE k
Rank(e, l, x) == IF x < e THEN x ELSE IF x < e + 3 THEN x + l ELSE IF x < e + 3 + l THEN x - 3 ELSE x

\* The flash f when k bytes are written, and what is to be written from there to n.
Part(f, e, l, k) == [x \in 0 .. Sector - 1 |-> IF Rank(e, l, x) < k THEN f[x] ELSE Blank]
Rest(f, e, l, k, n) ==
    [i \in 1 .. n - k |->
        [op |-> "program", at |-> Spot(e, l, k + i - 1), byte |-> f[Spot(e, l, k + i - 1)]]]

Accesses == [op : {"erase", "program"}, at : 0 .. Sector - 1, byte : Byte]
Programs == {x \in Accesses : x.op = "program"}

LEMMA SpotLemma ==
    ASSUME NEW e \in Nat, NEW l \in Nat
    PROVE  /\ \A k \in Nat : Spot(e, l, k) \in Nat /\ Rank(e, l, Spot(e, l, k)) = k
           /\ \A x \in Nat : Rank(e, l, x) \in Nat /\ Spot(e, l, Rank(e, l, x)) = x
           /\ \A k, n \in Nat : k < n /\ n \in {e, e + 3 + l} => Spot(e, l, k) < n
           /\ \A x, n \in Nat : n \in {e, e + 3 + l} => (Rank(e, l, x) < n <=> x < n)
BY DEF Spot, Rank

LEMMA PartLemma ==
    ASSUME NEW f \in Flashes, NEW e \in Nat, NEW l \in Nat, NEW k \in Nat, NEW n \in Nat,
           n \in {e, e + 3 + l}, n <= Size, k <= n
    PROVE  /\ Part(f, e, l, k) \in Flashes
           /\ Rest(f, e, l, k, n) \in Seq(Programs) /\ Len(Rest(f, e, l, k, n)) = n - k
           /\ \A x \in 0 .. Sector - 1 :
                 Part(f, e, l, k)[x] = IF Rank(e, l, x) < k THEN f[x] ELSE Blank
<1>1. \A x \in 0 .. Sector - 1 : f[x] \in Byte /\ Blank \in Byte
  BY PlacesLemma DEF Flashes
<1>2. Part(f, e, l, k) \in Flashes
  BY <1>1 DEF Part, Flashes
<1>3. n - k \in Nat
  OBVIOUS
<1>4. ASSUME NEW i \in 1 .. n - k
      PROVE  [op |-> "program", at |-> Spot(e, l, k + i - 1),
              byte |-> f[Spot(e, l, k + i - 1)]] \in Programs
  <2>1. k + i - 1 \in Nat /\ k + i - 1 < n
    BY <1>3
  <2>2. Spot(e, l, k + i - 1) \in Nat /\ Spot(e, l, k + i - 1) < n
    <3> DEFINE j == k + i - 1
    <3> HIDE DEF j
    <3>1. j \in Nat /\ j < n
      BY <2>1 DEF j
    <3>2. Spot(e, l, j) \in Nat /\ Spot(e, l, j) < n
      BY <3>1, SpotLemma
    <3> QED BY <3>2 DEF j
  <2>3. Spot(e, l, k + i - 1) \in 0 .. Sector - 1
    BY <2>2, PlacesLemma
  <2> HIDE DEF Spot
  <2> QED BY <1>1, <2>3 DEF Programs, Accesses
<1>6. Rest(f, e, l, k, n) \in Seq(Programs) /\ Len(Rest(f, e, l, k, n)) = n - k
  <2> HIDE DEF Spot
  <2> QED BY <1>3, <1>4 DEF Rest
<1> QED BY <1>2, <1>6 DEF Part

\* The flash m after an access x that programs a byte.
After(m, x) == [m EXCEPT ![x.at] = And(@, x.byte)]

\* The byte k of n is written.
Within(e, l, k, n) ==
    e \in Nat /\ l \in Nat /\ k \in Nat /\ n \in Nat /\ n \in {e, e + 3 + l} /\ n <= Size /\ k < n

\* One byte is written.
LEMMA StepLemma ==
    ASSUME NEW f \in Flashes, NEW e, NEW l, NEW k, NEW n, Within(e, l, k, n)
    PROVE  /\ Head(Rest(f, e, l, k, n)).op = "program"
           /\ Head(Rest(f, e, l, k, n)).at = Spot(e, l, k)
           /\ Head(Rest(f, e, l, k, n)).byte = f[Spot(e, l, k)]
           /\ Tail(Rest(f, e, l, k, n)) = Rest(f, e, l, k + 1, n)
           /\ Rest(f, e, l, k, n) # << >>
           /\ After(Part(f, e, l, k), Head(Rest(f, e, l, k, n))) = Part(f, e, l, k + 1)
<1>0. /\ e \in Nat /\ l \in Nat /\ k \in Nat /\ n \in Nat
      /\ n \in {e, e + 3 + l} /\ n <= Size /\ k < n
  BY DEF Within
<1> USE <1>0
<1> DEFINE s == Spot(e, l, k)
<1>1. s \in 0 .. Sector - 1 /\ Rank(e, l, s) = k
  <2>1. Spot(e, l, k) \in Nat /\ Spot(e, l, k) < n /\ Rank(e, l, Spot(e, l, k)) = k
    BY SpotLemma
  <2> HIDE DEF Spot, Rank
  <2> QED BY <2>1, PlacesLemma
<1>2. Head(Rest(f, e, l, k, n)) = [op |-> "program", at |-> s, byte |-> f[s]]
  <2>1. Rest(f, e, l, k, n)[1] = [op |-> "program", at |-> Spot(e, l, k + 1 - 1),
                                  byte |-> f[Spot(e, l, k + 1 - 1)]]
    <3>1. 1 \in 1 .. n - k
      OBVIOUS
    <3> QED BY <3>1, Zenon DEF Rest
  <2>2. k + 1 - 1 = k
    OBVIOUS
  <2>3. Head(Rest(f, e, l, k, n)) = Rest(f, e, l, k, n)[1]
    BY PartLemma
  <2> QED BY <2>1, <2>2, <2>3
<1>3. Tail(Rest(f, e, l, k, n)) = Rest(f, e, l, k + 1, n)
  <2> DEFINE R == Rest(f, e, l, k, n)
             Q == Rest(f, e, l, k + 1, n)
  <2>1. R \in Seq(Programs) /\ Len(R) = n - k /\ Q \in Seq(Programs) /\ Len(Q) = n - (k + 1)
    <3>1. k + 1 \in Nat /\ k + 1 <= n /\ k <= n
      OBVIOUS
    <3>2. ASSUME NEW j \in Nat, j <= n PROVE Rest(f, e, l, j, n) \in Seq(Programs)
      BY <3>2, PartLemma
    <3>3. ASSUME NEW j \in Nat, j <= n PROVE Len(Rest(f, e, l, j, n)) = n - j
      BY <3>3, PartLemma
    <3>4. R \in Seq(Programs) /\ Len(R) = n - k
      BY <3>1, <3>2, <3>3, Zenon
    <3>5. Q \in Seq(Programs) /\ Len(Q) = n - (k + 1)
      BY <3>1, <3>2, <3>3, Zenon
    <3> QED BY <3>4, <3>5
  <2>2. ASSUME NEW i \in 1 .. n - (k + 1) PROVE R[i + 1] = Q[i]
    <3>1. i + 1 \in 1 .. n - k /\ k + (i + 1) - 1 = (k + 1) + i - 1
      OBVIOUS
    <3>2. R[i + 1] = [op |-> "program", at |-> Spot(e, l, k + (i + 1) - 1),
                      byte |-> f[Spot(e, l, k + (i + 1) - 1)]]
      BY <3>1, Zenon DEF Rest
    <3>3. Q[i] = [op |-> "program", at |-> Spot(e, l, (k + 1) + i - 1),
                  byte |-> f[Spot(e, l, (k + 1) + i - 1)]]
      BY Zenon DEF Rest
    <3> QED BY <3>1, <3>2, <3>3
  <2> HIDE DEF R, Q
  <2>3. Tail(R) \in Seq(Programs) /\ Len(Tail(R)) = n - (k + 1)
        /\ \A i \in 1 .. n - (k + 1) : Tail(R)[i] = R[i + 1]
    BY <2>1
  <2>4. Tail(R) = Q
    BY <2>1, <2>2, <2>3
  <2> QED BY <2>4 DEF R, Q
<1>4. \A x \in 0 .. Sector - 1 : f[x] \in 0 .. 7 /\ x \in Nat
  BY PlacesLemma DEF Flashes
<1>5. ASSUME NEW x \in 0 .. Sector - 1
      PROVE  Part(f, e, l, k + 1)[x] = IF x = s THEN And(Part(f, e, l, k)[x], f[s])
                                       ELSE Part(f, e, l, k)[x]
  <2>0. x \in Nat /\ k + 1 \in Nat /\ s \in Nat
    BY <1>1
  <2>1. Rank(e, l, x) \in Nat /\ (x # s => Rank(e, l, x) # k)
    BY <2>0, SpotLemma
  <2>2. Part(f, e, l, k)[x] = IF Rank(e, l, x) < k THEN f[x] ELSE Blank
    BY DEF Part
  <2>3. Part(f, e, l, k + 1)[x] = IF Rank(e, l, x) < k + 1 THEN f[x] ELSE Blank
    BY Zenon DEF Part
  <2>4. CASE x = s
    <3>1. And(7, f[s]) = f[s]
      BY <1>1, <1>4, AndLemma
    <3> HIDE DEF s, Rank
    <3>2. Rank(e, l, x) = k
      BY <1>1, <2>4
    <3> QED BY <2>2, <2>3, <2>4, <3>1, <3>2, PlacesLemma
  <2>5. CASE x # s
    <3> HIDE DEF s, Rank
    <3> QED BY <2>1, <2>2, <2>3, <2>5
  <2> QED BY <2>4, <2>5
<1>6. [Part(f, e, l, k) EXCEPT ![s] = And(@, f[s])] = Part(f, e, l, k + 1)
  <2> DEFINE P == Part(f, e, l, k)
             N == Part(f, e, l, k + 1)
  <2>1. DOMAIN P = 0 .. Sector - 1 /\ N = [x \in 0 .. Sector - 1 |-> N[x]]
    BY DEF Part
  <2> HIDE DEF P, N, s
  <2>2. \A x \in 0 .. Sector - 1 : N[x] = IF x = s THEN And(P[x], f[s]) ELSE P[x]
    BY <1>5 DEF P, N
  <2>3. [P EXCEPT ![s] = And(@, f[s])] = N
    BY <1>1, <2>1, <2>2
  <2> QED BY <2>3 DEF P, N
<1>7. After(Part(f, e, l, k), Head(Rest(f, e, l, k, n))) = Part(f, e, l, k + 1)
  <2> DEFINE P == Part(f, e, l, k)
             N == Part(f, e, l, k + 1)
             x == Head(Rest(f, e, l, k, n))
  <2>1. x.at = s /\ x.byte = f[s]
    BY <1>2
  <2>2. [P EXCEPT ![s] = And(@, f[s])] = N
    BY <1>6
  <2> HIDE DEF P, N, x, s
  <2>3. After(P, x) = N
    BY <2>1, <2>2 DEF After
  <2> QED BY <2>3 DEF P, N, x
<1>8. Rest(f, e, l, k, n) # << >>
  <2> DEFINE r == Rest(f, e, l, k, n)
  <2>1. r[1] = [op |-> "program", at |-> Spot(e, l, k + 1 - 1), byte |-> f[Spot(e, l, k + 1 - 1)]]
        /\ DOMAIN r = 1 .. n - k
    BY DEF Rest
  <2>2. 1 \in 1 .. n - k
    OBVIOUS
  <2> HIDE DEF r
  <2>3. 1 \in DOMAIN r
    BY <2>1, <2>2
  <2>4. r # << >>
    BY <2>3
  <2> QED BY <2>4 DEF r
<1> QED BY <1>2, <1>3, <1>7, <1>8

-----------------------------------------------------------------------------
(* A tag c that is being written, last, at e, with l bytes of data, or not *)
(* at all (n = e), behind tags of which none is a valid c.                 *)

Plan(f, c, e, l, n) ==
    /\ f[0] = Magic /\ e \in Walk(f) /\ l \in 0 .. 6 /\ n \in {e, e + 3 + l} /\ n <= Size - 1
    /\ \A x \in 0 .. Sector - 1 : x >= n => f[x] = Blank
    /\ \A a \in Headers(f) : a < e /\ f[a] = c => ~IsTagOk(f, a)
    /\ n # e => f[e] = c /\ f[e + 1] = NotLocked + NotErased /\ f[e + 2] = l

LEMMA LastLemma ==
    ASSUME NEW m \in Flashes, NEW p \in Walk(m), Stops(m, p) \/ m[Behind(m, p)] = Blank, NEW c,
           \A a \in Headers(m) : a < p /\ m[a] = c => ~IsTagOk(m, a)
    PROVE  Holding(m, c) = IF ~Stops(m, p) /\ IsTagOk(m, p) /\ m[p] = c THEN {p} ELSE {}
<1>1. \A a : a \in Headers(m) <=> (a \in Headers(m) /\ a < p) \/ (a = p /\ ~Stops(m, p))
  BY TailLemma
<1>2. \A a \in Holding(m, c) : a = p /\ ~Stops(m, p) /\ IsTagOk(m, p) /\ m[p] = c
  BY <1>1 DEF Holding
<1>3. ~Stops(m, p) /\ IsTagOk(m, p) /\ m[p] = c => p \in Holding(m, c)
  BY <1>1 DEF Holding
<1> QED BY <1>2, <1>3

\* The tags before the one at p are written completely.
LEMMA BelowLemma ==
    ASSUME NEW f \in Flashes, NEW m \in Flashes, NEW p \in Walk(f), NEW c,
           \A x \in 0 .. Sector - 1 : x < p => m[x] = f[x],
           \A a \in Headers(f) : a < p /\ f[a] = c => ~IsTagOk(f, a)
    PROVE  /\ p \in Walk(m) /\ \A a : a < p => (a \in Headers(m) <=> a \in Headers(f))
           /\ \A a \in Headers(f) : a < p => Same(f, m, a)
           /\ \A a \in Headers(m) : a < p /\ m[a] = c => ~IsTagOk(m, a)
<1>1. ASSUME NEW a \in Headers(f), a < p
      PROVE  Same(f, m, a) /\ a \in Places
  <2>1. /\ a \in Places /\ a \in Nat /\ a + 3 <= Behind(f, a) /\ Behind(f, a) <= Size - 1
        /\ Behind(f, a) \in Nat
    BY EndLemma, BehindLemma, PlacesLemma
  <2>2. Behind(f, a) <= p /\ p \in Nat
    <3>1. p <= a \/ p >= Behind(f, a)
      BY ApartLemma
    <3>2. p \in Nat
      BY EndLemma
    <3> QED BY <1>1, <2>1, <3>1, <3>2
  <2>3. \A x \in a .. Behind(f, a) - 1 : x \in 0 .. Sector - 1 /\ x < p
    BY <2>1, <2>2, PlacesLemma
  <2> QED BY <2>1, <2>3 DEF Same
<1>2. \A a \in Headers(f) : a < p =>
         /\ m[a] = f[a] /\ m[a + 2] = f[a + 2] /\ (IsTagOk(m, a) <=> IsTagOk(f, a))
  BY <1>1, SameLemma
<1>3. p \in Walk(m) /\ \A a : a < p => (a \in Headers(m) <=> a \in Headers(f))
  BY <1>2, AgreeLemma
<1> QED BY <1>1, <1>2, <1>3

LEMMA RankLemma ==
    ASSUME NEW e \in Nat, NEW l \in Nat, NEW x \in Nat
    PROVE  /\ x < e => Rank(e, l, x) = x
           /\ x >= e => Rank(e, l, x) >= e
           /\ x >= e + 3 + l => Rank(e, l, x) = x
           /\ Rank(e, l, e) = e + l /\ Rank(e, l, e + 1) = e + l + 1 /\ Rank(e, l, e + 2) = e + l + 2
           /\ Rank(e, l, x) \in Nat
BY DEF Rank

\* The power goes before the last tag is begun: there is no valid c.
LEMMA EarlyLemma ==
    ASSUME NEW f \in Flashes, NEW c \in 0 .. 6, NEW e, NEW l, NEW n, Plan(f, c, e, l, n),
           NEW k \in Nat, k < e
    PROVE  Holding(Part(f, e, l, k), c) = {}
<1> DEFINE m == Part(f, e, l, k)
           S == {a \in Walk(f) : a <= k}
<1>1. /\ e \in Walk(f) /\ l \in Nat /\ n \in Nat /\ n \in {e, e + 3 + l} /\ n <= Size - 1
      /\ e \in Nat /\ Walk(f) \subseteq Places /\ Places \subseteq Nat
      /\ \A a \in Headers(f) : a < e /\ f[a] = c => ~IsTagOk(f, a)
      /\ \A x \in Places : x \in 0 .. Sector - 1 /\ x + 1 \in 0 .. Sector - 1 /\ x + 2 \in 0 .. Sector - 1
      /\ \A x \in 0 .. Sector - 1 : x \in Nat /\ f[x] \in 0 .. 7
  <2>1. e \in Walk(f) /\ l \in Nat /\ n \in {e, e + 3 + l} /\ n <= Size - 1
        /\ \A a \in Headers(f) : a < e /\ f[a] = c => ~IsTagOk(f, a)
    BY DEF Plan
  <2>2. Walk(f) \subseteq Places /\ Places \subseteq Nat /\ e \in Nat
    BY <2>1, WalkLemma, PlacesLemma
  <2>3. \A x \in Places : x \in 0 .. Sector - 1 /\ x + 1 \in 0 .. Sector - 1 /\ x + 2 \in 0 .. Sector - 1
    BY PlacesLemma DEF Places
  <2>4. \A x \in 0 .. Sector - 1 : x \in Nat /\ f[x] \in 0 .. 7
    BY PlacesLemma DEF Flashes
  <2> QED BY <2>1, <2>2, <2>3, <2>4
<1>2. m \in Flashes
  <2>1. n <= Size /\ k <= n
    BY <1>1, PlacesLemma
  <2> QED BY <1>1, <2>1, PartLemma
<1>3. \A x \in 0 .. Sector - 1 : m[x] = IF x < k THEN f[x] ELSE 7
  <2> SUFFICES ASSUME NEW x \in 0 .. Sector - 1 PROVE m[x] = IF x < k THEN f[x] ELSE 7
    OBVIOUS
  <2>1. m[x] = IF Rank(e, l, x) < k THEN f[x] ELSE Blank
    BY DEF Part
  <2>2. Rank(e, l, x) < k <=> x < k
    <3>1. (x < e => Rank(e, l, x) = x) /\ (x >= e => Rank(e, l, x) >= e) /\ Rank(e, l, x) \in Nat
      BY <1>1, RankLemma
    <3> QED BY <1>1, <3>1
  <2> QED BY <2>1, <2>2, PlacesLemma
<1> HIDE DEF m
<1>4. CASE k = 0
  <2>1. Start \in Walk(m) /\ Start = 1 /\ m[Start] = Blank /\ Start \in Places
    BY <1>1, <1>2, <1>3, <1>4, WalkLemma, PlacesLemma
  <2>2. Stops(m, Start)
    BY <2>1 DEF Stops
  <2>3. \A a \in Headers(m) : ~ (a < Start)
    BY <1>2, EndLemma, PlacesLemma DEF Places
  <2> QED BY <1>2, <2>1, <2>2, <2>3, LastLemma DEF m
<1>5. CASE k > 0
  <2>1. Max(S) \in S /\ \A x \in S : Max(S) >= x
    <3>1. Start \in S
      BY <1>5, WalkLemma, PlacesLemma
    <3>2. S \in SUBSET Nat /\ S # {} /\ \A x \in S : x <= k
      BY <1>1, <3>1
    <3> HIDE DEF S
    <3> QED BY <3>2, MaxLemma
  <2> DEFINE p == Max(S)
             q == Behind(f, p)
  <2>2. p \in Walk(f) /\ p <= k /\ \A x \in Walk(f) : x <= k => x <= p
    BY <1>1, <2>1
  <2> HIDE DEF p
  <2>3. p \in Headers(f) /\ p \in Places /\ p < e
    <3>1. p < e /\ p \in Nat
      BY <1>1, <2>2
    <3>2. p < End(f)
      <4>1. e <= End(f) /\ End(f) \in Nat
        BY <1>1, EndLemma
      <4> QED BY <1>1, <3>1, <4>1
    <3>3. ~Stops(f, p)
      BY <2>2, <3>1, <3>2, EndLemma
    <3> QED BY <1>1, <2>2, <3>1, <3>3 DEF Headers
  <2>4. q \in Walk(f) /\ q \in Nat /\ q > k /\ q <= e /\ q >= p + 3 /\ q <= Size - 1
    <3>1. q \in Walk(f) /\ q >= p + 3 /\ q <= Size - 1
      BY <2>3, EndLemma
    <3>2. e <= p \/ e >= q
      BY <1>1, <2>3, ApartLemma
    <3>3. p \in Nat /\ q \in Nat
      BY <1>1, <2>3, <3>1
    <3>4. ~ (q <= k)
      BY <2>2, <3>1, <3>3
    <3> QED BY <1>1, <2>3, <3>1, <3>2, <3>3, <3>4
  <2>5. /\ p \in Walk(m) /\ \A a \in Headers(m) : a < p /\ m[a] = c => ~IsTagOk(m, a)
    <3>1. \A x \in 0 .. Sector - 1 : x < p => m[x] = f[x]
      BY <1>1, <1>3, <2>2
    <3>2. \A a \in Headers(f) : a < p /\ f[a] = c => ~IsTagOk(f, a)
      <4>1. \A a \in Headers(f) : a < p => a < e
        <5>1. \A a \in Headers(f) : a \in Nat
          BY <1>1 DEF Headers
        <5> QED BY <1>1, <2>3, <5>1
      <4> QED BY <1>1, <4>1
    <3> QED BY <1>2, <2>2, <3>1, <3>2, BelowLemma
  <2>6. /\ m[p] = (IF p < k THEN f[p] ELSE 7) /\ m[p + 1] = (IF p + 1 < k THEN f[p + 1] ELSE 7)
        /\ m[p + 2] = (IF p + 2 < k THEN f[p + 2] ELSE 7)
    BY <1>1, <1>3, <2>3
  <2>7. Stops(m, p) \/ m[Behind(m, p)] = Blank
    <3> SUFFICES ASSUME ~Stops(m, p) PROVE m[Behind(m, p)] = Blank
      OBVIOUS
    <3>1. Behind(m, p) = p + (3 + m[p + 2]) /\ Behind(m, p) <= Size - 1
      <4>1. /\ FullLength(m, p) = 3 + m[p + 2] /\ Behind(m, p) = p + FullLength(m, p)
            /\ ~ (Behind(m, p) > Size - 1) /\ Behind(m, p) \in Nat
        BY <1>2, <2>3, BehindLemma
      <4> QED BY <4>1, PlacesLemma
    <3>2. q = p + (3 + f[p + 2]) /\ f[p + 2] \in 0 .. 7
      BY <2>3, BehindLemma
    <3>3. Behind(m, p) \in 0 .. Sector - 1 /\ Behind(m, p) >= k
      BY <1>1, <2>3, <2>4, <2>6, <3>1, <3>2, PlacesLemma
    <3> QED BY <1>1, <1>3, <3>3, PlacesLemma
  <2>8. ~ (IsTagOk(m, p) /\ m[p] = c)
    <3> SUFFICES ASSUME IsTagOk(m, p), m[p] = c PROVE FALSE
      OBVIOUS
    <3>1. p < k /\ f[p] = c
      BY <2>6
    <3>2. Bit(m[p + 1], 1) = 0 /\ Bit(m[p + 1], 4) = 1
      BY DEF IsTagOk, NotValid, NotErased
    <3>3. Bit(7, 1) = 1
      BY DEF Bit
    <3>4. m[p + 1] = f[p + 1]
      BY <2>6, <3>2, <3>3
    <3>5. IsTagOk(f, p)
      BY <3>2, <3>4 DEF IsTagOk, NotValid, NotErased
    <3> QED BY <1>1, <2>3, <3>1, <3>5
  <2>9. Holding(m, c) = {}
    BY <1>2, <2>5, <2>7, <2>8, LastLemma
  <2> QED BY <2>9 DEF m
<1> QED BY <1>4, <1>5

\* The power goes at the last tag or behind it: it is not there, or its length is not
\* programmed, or it is complete.
LEMMA LateLemma ==
    ASSUME NEW f \in Flashes, NEW c \in 0 .. 6, NEW e, NEW l, NEW n, Plan(f, c, e, l, n),
           NEW k \in Nat, e <= k, k <= n
    PROVE  \/ Holding(Part(f, e, l, k), c) = {}
           \/ /\ Holding(Part(f, e, l, k), c) = {e} /\ n # e
              /\ Part(f, e, l, k)[e + 2] = 7 \/ Part(f, e, l, k) = f
<1> DEFINE m == Part(f, e, l, k)
<1>1. /\ e \in Walk(f) /\ l \in 0 .. 6 /\ l \in Nat /\ n \in Nat /\ n \in {e, e + 3 + l} /\ n <= Size - 1
      /\ e \in Nat /\ e \in Places /\ f[0] = Magic
      /\ \A a \in Headers(f) : a < e /\ f[a] = c => ~IsTagOk(f, a)
      /\ \A x \in 0 .. Sector - 1 : x \in Nat /\ f[x] \in 0 .. 7 /\ (x >= n => f[x] = 7)
      /\ n # e => f[e] = c /\ f[e + 1] = 6 /\ f[e + 2] = l
  <2>1. /\ e \in Walk(f) /\ l \in 0 .. 6 /\ n \in {e, e + 3 + l} /\ n <= Size - 1 /\ f[0] = Magic
        /\ \A a \in Headers(f) : a < e /\ f[a] = c => ~IsTagOk(f, a)
        /\ \A x \in 0 .. Sector - 1 : x >= n => f[x] = Blank
        /\ n # e => f[e] = c /\ f[e + 1] = NotLocked + NotErased /\ f[e + 2] = l
    BY DEF Plan
  <2>2. e \in Places /\ e \in Nat
    BY <2>1, WalkLemma, PlacesLemma
  <2>3. \A x \in 0 .. Sector - 1 : x \in Nat /\ f[x] \in 0 .. 7
    BY PlacesLemma DEF Flashes
  <2>4. l \in Nat /\ n \in Nat /\ NotLocked + NotErased = 6
    BY <2>1, <2>2 DEF NotLocked, NotErased
  <2> QED BY <2>1, <2>2, <2>3, <2>4, PlacesLemma
<1>2. m \in Flashes /\ \A x \in 0 .. Sector - 1 : m[x] = IF Rank(e, l, x) < k THEN f[x] ELSE 7
  <2>1. n <= Size
    BY <1>1, PlacesLemma
  <2>2. m \in Flashes
    BY <1>1, <2>1, PartLemma
  <2> QED BY <2>2, PlacesLemma DEF Part
<1> HIDE DEF m
<1>3. /\ \A x \in 0 .. Sector - 1 : x < e => m[x] = f[x]
      /\ \A x \in 0 .. Sector - 1 : x >= e + 3 + l => m[x] = 7
  <2> SUFFICES ASSUME NEW x \in 0 .. Sector - 1
               PROVE  (x < e => m[x] = f[x]) /\ (x >= e + 3 + l => m[x] = 7)
    OBVIOUS
  <2>1. x \in Nat /\ m[x] = (IF Rank(e, l, x) < k THEN f[x] ELSE 7)
    BY <1>1, <1>2
  <2>2. (x < e => Rank(e, l, x) = x) /\ (x >= e + 3 + l => Rank(e, l, x) = x)
    BY <1>1, <2>1, RankLemma
  <2>3. x >= n => f[x] = 7
    BY <1>1
  <2> QED BY <1>1, <2>1, <2>2, <2>3
<1>4. /\ m[e] = (IF e + l < k THEN f[e] ELSE 7)
      /\ m[e + 1] = (IF e + l + 1 < k THEN f[e + 1] ELSE 7)
      /\ m[e + 2] = (IF e + l + 2 < k THEN f[e + 2] ELSE 7)
  <2>1. e \in 0 .. Sector - 1 /\ e + 1 \in 0 .. Sector - 1 /\ e + 2 \in 0 .. Sector - 1
    BY <1>1, PlacesLemma DEF Places
  <2>2. Rank(e, l, e) = e + l /\ Rank(e, l, e + 1) = e + l + 1 /\ Rank(e, l, e + 2) = e + l + 2
    BY <1>1, RankLemma
  <2> QED BY <1>2, <2>1, <2>2
<1>5. e \in Walk(m) /\ \A a \in Headers(m) : a < e /\ m[a] = c => ~IsTagOk(m, a)
  BY <1>1, <1>2, <1>3, BelowLemma
<1>6. Stops(m, e) \/ m[Behind(m, e)] = Blank
  <2> SUFFICES ASSUME ~Stops(m, e) PROVE m[Behind(m, e)] = Blank
    OBVIOUS
  <2>1. Behind(m, e) = e + (3 + m[e + 2]) /\ Behind(m, e) <= Size - 1 /\ m[e] # 7
        /\ Behind(m, e) \in Nat
    <3>1. /\ FullLength(m, e) = 3 + m[e + 2] /\ Behind(m, e) = e + FullLength(m, e)
          /\ ~ (Behind(m, e) > Size - 1) /\ Behind(m, e) \in Nat /\ m[e] # 7
      BY <1>1, <1>2, BehindLemma
    <3> QED BY <3>1, PlacesLemma
  <2>2. n = e + 3 + l
    BY <1>1, <1>4, <2>1
  <2>3. Behind(m, e) >= e + 3 + l
    <3>1. m[e + 2] = l \/ m[e + 2] = 7
      BY <1>1, <1>4, <2>2
    <3> QED BY <1>1, <2>1, <3>1
  <2>4. Behind(m, e) \in 0 .. Sector - 1
    BY <1>1, <2>1, <2>3, PlacesLemma
  <2> QED BY <1>3, <2>3, <2>4, PlacesLemma
<1>7. Holding(m, c) = IF ~Stops(m, e) /\ IsTagOk(m, e) /\ m[e] = c THEN {e} ELSE {}
  BY <1>2, <1>5, <1>6, LastLemma
<1>8. CASE Holding(m, c) = {}
  BY <1>8 DEF m
<1>9. CASE Holding(m, c) # {}
  <2>1. Holding(m, c) = {e} /\ IsTagOk(m, e) /\ m[e] = c
    BY <1>7, <1>9
  <2>2. n = e + 3 + l /\ n # e
    BY <1>1, <1>4, <2>1
  <2>3. CASE k < n
    <3>1. m[e + 2] = 7
      BY <1>1, <1>4, <2>2, <2>3
    <3> QED BY <2>1, <2>2, <3>1 DEF m
  <2>4. CASE k = n
    <3>1. ASSUME NEW x \in 0 .. Sector - 1 PROVE m[x] = f[x]
      <4>1. x \in Nat /\ m[x] = (IF Rank(e, l, x) < k THEN f[x] ELSE 7) /\ (x >= n => f[x] = 7)
        BY <1>1, <1>2
      <4>2. Rank(e, l, x) < n <=> x < n
        BY <1>1, <4>1, SpotLemma
      <4> QED BY <1>1, <2>4, <4>1, <4>2
    <3>2. m = [x \in 0 .. Sector - 1 |-> m[x]] /\ f = [x \in 0 .. Sector - 1 |-> f[x]]
      BY <1>2 DEF Flashes
    <3>3. m = f
      BY <3>1, <3>2
    <3> QED BY <2>1, <2>2, <3>3 DEF m
  <2> QED BY <1>1, <2>3, <2>4
<1> QED BY <1>8, <1>9

\* Whatever is written of a tag reads as nothing, as a tag without a length or as the
\* whole tag.
LEMMA PlanLemma ==
    ASSUME NEW f \in Flashes, NEW c \in 0 .. 6, NEW e, NEW l, NEW n, Plan(f, c, e, l, n),
           NEW k \in Nat, k <= n
    PROVE  \/ View(Part(f, e, l, k), c) = Absent
           \/ Len(View(Part(f, e, l, k), c).value) = 7
           \/ n # e /\ Part(f, e, l, k) = f
<1> DEFINE m == Part(f, e, l, k)
<1>1. e \in Nat /\ l \in Nat /\ n \in Nat /\ n <= Size /\ n \in {e, e + 3 + l}
  <2>1. e \in Walk(f) /\ l \in 0 .. 6 /\ n \in {e, e + 3 + l} /\ n <= Size - 1
    BY DEF Plan
  <2>2. e \in Nat
    BY <2>1, EndLemma
  <2> QED BY <2>1, <2>2, PlacesLemma
<1>2. m \in Flashes
  BY <1>1, PartLemma
<1> HIDE DEF m
<1>3. CASE Holding(m, c) = {}
  BY <1>2, <1>3, HoldingLemma DEF m
<1>4. CASE Holding(m, c) # {}
  <2>1. e <= k
    BY <1>1, <1>4, EarlyLemma DEF m
  <2>2. Holding(m, c) = {e} /\ n # e /\ (m[e + 2] = 7 \/ m = f)
    BY <1>4, <2>1, LateLemma DEF m
  <2>3. CASE m[e + 2] = 7
    <3>1. View(m, c) = Content(m, e)
      BY <1>2, <2>2, HoldingLemma
    <3>2. Content(m, e).value = Data(m, e)
      BY DEF Content
    <3>3. Data(m, e) = [i \in 1 .. 7 |-> m[e + 2 + i]]
      BY <2>3 DEF Data
    <3>4. Len(Data(m, e)) = 7
      BY <3>3
    <3> QED BY <3>1, <3>2, <3>4 DEF m
  <2> QED BY <2>2, <2>3 DEF m
<1> QED BY <1>3, <1>4

-----------------------------------------------------------------------------
(* A flash that is blank behind its last tag.                              *)

Tidy(m) ==
    /\ m[0] = Magic /\ End(m) <= Size - 1
    /\ \A x \in 0 .. Sector - 1 : x >= End(m) => m[x] = Blank

\* A tag has one valid copy at most, and nobody else's tags are there.
One(m) ==
    /\ \A a, b \in Headers(m) : IsTagOk(m, a) /\ IsTagOk(m, b) /\ m[a] = m[b] => a = b
    /\ \A a \in Headers(m) : IsTagOk(m, a) => m[a] \in Tags

LEMMA SameView ==
    ASSUME NEW m, NEW n, NEW t, Holding(n, t) = Holding(m, t),
           \A a \in Holding(m, t) : Content(n, a) = Content(m, a), Holding(m, t) \in SUBSET Nat
    PROVE  View(n, t) = View(m, t)
<1>1. Holding(m, t) # {} => Min(Holding(m, t)) \in Holding(m, t)
  BY MinLemma
<1> QED BY <1>1 DEF View

\* The flash n is m with the status y of the tag t at a.
Marked(m, n, t, a, y) ==
    /\ n \in Flashes /\ n[a + 1] = y /\ n[0] = m[0]
    /\ Headers(n) = Headers(m) /\ End(n) = End(m)
    /\ Tidy(m) => Tidy(n)
    /\ One(m) => One(n)
    /\ \A u : u # t => Holding(n, u) = Holding(m, u) /\ View(n, u) = View(m, u)
    /\ Holding(m, t) = {a} => Holding(n, t) = IF IsTagOk(n, a) THEN {a} ELSE {}
    /\ Data(n, a) = Data(m, a)

\* The status of a valid tag is programmed.
LEMMA MarkLemma ==
    ASSUME NEW m \in Flashes, NEW t, NEW a \in Holding(m, t), NEW y \in 0 .. 7,
           NEW n, n = [m EXCEPT ![a + 1] = y]
    PROVE  Marked(m, n, t, a, y)
<1>1. /\ a \in Headers(m) /\ m[a] = t /\ IsTagOk(m, a)
      /\ \A b \in Headers(m) : /\ b \in Nat /\ 1 <= b /\ Behind(m, b) \in Nat /\ b \in Places
                               /\ b + 3 <= Behind(m, b) /\ Behind(m, b) <= Size - 1
                               /\ Behind(m, b) <= End(m) /\ b < End(m)
      /\ End(m) \in Walk(m) /\ End(m) \in Nat
  <2>1. ASSUME NEW b \in Headers(m)
        PROVE  /\ b \in Nat /\ 1 <= b /\ Behind(m, b) \in Nat /\ b \in Places
               /\ b + 3 <= Behind(m, b) /\ Behind(m, b) <= Size - 1 /\ Behind(m, b) <= End(m)
               /\ b < End(m)
    <3>1. /\ b \in Places /\ b + 3 <= Behind(m, b) /\ Behind(m, b) <= Size - 1
          /\ Behind(m, b) <= End(m) /\ End(m) \in Walk(m)
      BY EndLemma
    <3>2. b \in Nat /\ 1 <= b /\ Behind(m, b) \in Nat /\ End(m) \in Nat
      BY <3>1, EndLemma, BehindLemma, PlacesLemma DEF Places
    <3> QED BY <3>1, <3>2
  <2>2. a \in Headers(m) /\ m[a] = t /\ IsTagOk(m, a) /\ End(m) \in Walk(m) /\ End(m) \in Nat
    BY EndLemma DEF Holding
  <2> QED BY <2>1, <2>2
<1>2. a + 1 \in 0 .. Sector - 1 /\ a + 1 < End(m)
  BY <1>1, PlacesLemma
<1>3. n \in Flashes /\ \A z \in 0 .. Sector - 1 : n[z] = IF z = a + 1 THEN y ELSE m[z]
  BY <1>2, PlacesLemma DEF Flashes
<1>4. ASSUME NEW b \in Headers(m), b # a PROVE Same(m, n, b)
  <2>1. (a <= b \/ a >= Behind(m, b)) /\ (b <= a \/ b >= Behind(m, a))
    <3>1. \A h \in Headers(m) : h \in Walk(m)
      BY DEF Headers
    <3> QED BY <1>1, <3>1, ApartLemma
  <2>2. a + 1 \notin b .. Behind(m, b) - 1
    BY <1>1, <1>4, <2>1
  <2>3. \A z \in b .. Behind(m, b) - 1 : z \in 0 .. Sector - 1
    BY <1>1, PlacesLemma
  <2> QED BY <1>3, <2>2, <2>3 DEF Same
<1>5. n[a] = m[a] /\ n[a + 2] = m[a + 2] /\ n[a + 1] = y /\ n[0] = m[0] /\ Data(n, a) = Data(m, a)
  <2>1. /\ a \in 0 .. Sector - 1 /\ a + 2 \in 0 .. Sector - 1 /\ 0 \in 0 .. Sector - 1
        /\ a # a + 1 /\ a + 2 # a + 1 /\ a + 1 # 0
    BY <1>1, PlacesLemma
  <2>2. n[a] = m[a] /\ n[a + 2] = m[a + 2] /\ n[a + 1] = y /\ n[0] = m[0]
    BY <1>2, <1>3, <2>1
  <2>3. ASSUME NEW i \in 1 .. m[a + 2] PROVE n[a + 2 + i] = m[a + 2 + i]
    <3>1. m[a + 2] \in Nat /\ Behind(m, a) = a + (3 + m[a + 2])
      BY <1>1, BehindLemma
    <3>2. a + 2 + i \in 0 .. Sector - 1 /\ a + 2 + i # a + 1
      BY <1>1, <3>1, PlacesLemma
    <3> QED BY <1>3, <3>2
  <2> QED BY <2>2, <2>3 DEF Data
<1>6. ASSUME NEW b \in Headers(m), b # a
      PROVE  /\ n[b] = m[b] /\ n[b + 2] = m[b + 2] /\ (IsTagOk(n, b) <=> IsTagOk(m, b))
             /\ Content(n, b) = Content(m, b)
  <2>1. n \in Flashes /\ Same(m, n, b) /\ b \in Places
    BY <1>1, <1>3, <1>4, <1>6
  <2>2. n[b] = m[b] /\ n[b + 2] = m[b + 2]
    BY <2>1, SameLemma
  <2>3. IsTagOk(n, b) <=> IsTagOk(m, b)
    BY <2>1, SameLemma
  <2>4. Content(n, b) = Content(m, b)
    BY <2>1, SameLemma
  <2> QED BY <2>2, <2>3, <2>4
<1>7. Headers(n) = Headers(m) /\ End(n) = End(m)
  <2>1. End(m) \in Walk(n) /\ \A b : b < End(m) => (b \in Headers(n) <=> b \in Headers(m))
    <3>1. \A b \in Headers(m) : b < End(m) => n[b] = m[b] /\ n[b + 2] = m[b + 2]
      BY <1>5, <1>6
    <3>2. End(m) \in Walk(m)
      BY <1>1
    <3> QED BY <1>3, <3>1, <3>2, AgreeLemma
  <2>2. Stops(n, End(m))
    <3>1. Stops(m, End(m)) /\ End(m) \in Places /\ End(m) \in 0 .. Sector - 1
          /\ End(m) + 2 \in 0 .. Sector - 1
      BY <1>1, EndLemma, WalkLemma, PlacesLemma DEF Places
    <3>2. n[End(m)] = m[End(m)] /\ n[End(m) + 2] = m[End(m) + 2]
      BY <1>1, <1>2, <1>3, <3>1
    <3> QED BY <3>1, <3>2 DEF Stops, FullLength
  <2>3. End(n) = End(m)
    BY <1>3, <2>1, <2>2, EndLemma
  <2>4. \A b \in Headers(n) : b < End(n)
    <3> SUFFICES ASSUME NEW b \in Headers(n) PROVE b < End(n)
      OBVIOUS
    <3>1. b + 3 <= Behind(n, b) /\ Behind(n, b) <= End(n) /\ b \in Places
      BY <1>3, EndLemma
    <3>2. b \in Nat /\ Behind(n, b) \in Nat /\ End(n) \in Nat
      BY <1>1, <1>3, <2>3, <3>1, BehindLemma, PlacesLemma
    <3> QED BY <3>1, <3>2
  <2> QED BY <1>1, <2>1, <2>3, <2>4
<1>8. Tidy(m) => Tidy(n)
  <2> SUFFICES ASSUME Tidy(m), NEW x \in 0 .. Sector - 1, x >= End(m) PROVE n[x] = m[x]
    BY <1>5, <1>7 DEF Tidy
  <2>1. x # a + 1
    BY <1>1, <1>2
  <2> QED BY <1>3, <2>1
<1>9. \A b \in Headers(m) : b # a => /\ n[b] = m[b] /\ (IsTagOk(n, b) <=> IsTagOk(m, b))
                                     /\ Content(n, b) = Content(m, b)
  BY <1>6
<1>10. One(m) => One(n)
  BY <1>1, <1>5, <1>7, <1>9 DEF One
<1>11. ASSUME NEW u, u # t PROVE Holding(n, u) = Holding(m, u) /\ View(n, u) = View(m, u)
  <2>1. Holding(n, u) = Holding(m, u)
    BY <1>1, <1>5, <1>7, <1>9, <1>11 DEF Holding
  <2>2. \A b \in Holding(m, u) : Content(n, b) = Content(m, b)
    BY <1>1, <1>9, <1>11 DEF Holding
  <2>3. Holding(m, u) \in SUBSET Nat
    BY HoldingLemma
  <2> QED BY <2>1, <2>2, <2>3, SameView
<1>12. Holding(m, t) = {a} => Holding(n, t) = IF IsTagOk(n, a) THEN {a} ELSE {}
  BY <1>1, <1>5, <1>7, <1>9 DEF Holding
<1> QED BY <1>3, <1>5, <1>7, <1>8, <1>10, <1>11, <1>12 DEF Marked

\* The flash m with a tag t behind its last one.
Wrote(m, t, v) ==
    [x \in 0 .. Sector - 1 |->
        IF x < End(m) \/ x >= End(m) + 3 + Len(v) THEN m[x]
        ELSE IF x = End(m) THEN t
        ELSE IF x = End(m) + 1 THEN 6
        ELSE IF x = End(m) + 2 THEN Len(v)
        ELSE v[x - (End(m) + 2)]]

\* What it holds.
LEMMA WroteLemma ==
    ASSUME NEW m \in Flashes, Tidy(m), NEW t \in 0 .. 6, NEW v \in Seq(Byte), Len(v) <= 6,
           End(m) + 3 + Len(v) <= Size - 1
    PROVE  /\ Wrote(m, t, v) \in Flashes
           /\ Wrote(m, t, v)[End(m)] = t /\ Wrote(m, t, v)[End(m) + 1] = 6
           /\ Wrote(m, t, v)[End(m) + 2] = Len(v)
           /\ \A i \in 1 .. Len(v) : Wrote(m, t, v)[End(m) + 2 + i] = v[i]
           /\ \A x \in 0 .. Sector - 1 :
                 /\ x < End(m) => Wrote(m, t, v)[x] = m[x]
                 /\ x >= End(m) + 3 + Len(v) => Wrote(m, t, v)[x] = 7
           /\ Part(Wrote(m, t, v), End(m), Len(v), End(m)) = m
<1> DEFINE e == End(m)
           f == Wrote(m, t, v)
           l == Len(v)
<1>1. /\ e \in Places /\ e \in Nat /\ 1 <= e /\ l \in 0 .. 6 /\ e + 3 + l <= Size - 1
      /\ \A x \in 0 .. Sector - 1 : x \in Nat /\ m[x] \in 0 .. 7 /\ (x >= e => m[x] = 7)
      /\ Sector \in Nat /\ Size \in Nat /\ Size + 3 <= Sector
  <2>1. e \in Places
    BY EndLemma, WalkLemma
  <2>2. \A x \in 0 .. Sector - 1 : m[x] \in 0 .. 7
    BY PlacesLemma DEF Flashes
  <2>3. \A x \in 0 .. Sector - 1 : x >= e => m[x] = 7
    BY PlacesLemma DEF Tidy
  <2>4. e + 3 + l <= Size - 1 /\ l \in 0 .. 6
    <3>1. l \in Nat /\ l <= 6
      OBVIOUS
    <3>2. e + 3 + l <= Size - 1
      BY Zenon
    <3> HIDE DEF e, l
    <3> QED BY <3>1, <3>2
  <2>5. e \in Nat /\ 1 <= e
    BY <2>1, PlacesLemma DEF Places
  <2> HIDE DEF e, l
  <2> QED BY <2>1, <2>2, <2>3, <2>4, <2>5, PlacesLemma
<1>2. \A i \in 1 .. l : v[i] \in 0 .. 7
  BY PlacesLemma
<1>3. f = [x \in 0 .. Sector - 1 |->
              IF x < e \/ x >= e + 3 + l THEN m[x] ELSE IF x = e THEN t ELSE IF x = e + 1 THEN 6
              ELSE IF x = e + 2 THEN l ELSE v[x - (e + 2)]]
  BY DEF Wrote
<1> HIDE DEF e, f, l
<1>4. f \in Flashes
  <2>1. ASSUME NEW x \in 0 .. Sector - 1, ~ (x < e \/ x >= e + 3 + l), x # e, x # e + 1, x # e + 2
        PROVE  v[x - (e + 2)] \in 0 .. 7
    <3>1. x - (e + 2) \in 1 .. l
      BY <1>1, <2>1
    <3> QED BY <1>2, <3>1
  <2>2. ASSUME NEW x \in 0 .. Sector - 1 PROVE f[x] \in 0 .. 7
    <3>1. m[x] \in 0 .. 7 /\ t \in 0 .. 7 /\ 6 \in 0 .. 7 /\ l \in 0 .. 7
      BY <1>1
    <3> QED BY <1>3, <2>1, <3>1
  <2> QED BY <1>3, <2>2, PlacesLemma DEF Flashes
<1>5. e \in 0 .. Sector - 1 /\ e + 1 \in 0 .. Sector - 1 /\ e + 2 \in 0 .. Sector - 1
  BY <1>1
<1>6. f[e] = t /\ f[e + 1] = 6 /\ f[e + 2] = l
  BY <1>1, <1>3, <1>5
<1>7. ASSUME NEW i \in 1 .. l PROVE f[e + 2 + i] = v[i]
  <2>1. e + 2 + i \in 0 .. Sector - 1 /\ (e + 2 + i) - (e + 2) = i
        /\ ~ (e + 2 + i < e) /\ ~ (e + 2 + i >= e + 3 + l)
        /\ e + 2 + i # e /\ e + 2 + i # e + 1 /\ e + 2 + i # e + 2
    BY <1>1
  <2> QED BY <1>3, <2>1
<1>8. \A x \in 0 .. Sector - 1 : /\ x < e => f[x] = m[x]
                                 /\ x >= e + 3 + l => f[x] = 7
  BY <1>1, <1>3
<1>9. Part(f, e, l, e) = m
  <2>1. ASSUME NEW x \in 0 .. Sector - 1 PROVE Part(f, e, l, e)[x] = m[x]
    <3>1. Part(f, e, l, e)[x] = IF Rank(e, l, x) < e THEN f[x] ELSE 7
      BY PlacesLemma DEF Part
    <3>2. x \in Nat /\ l \in Nat
      BY <1>1
    <3>3. (x < e => Rank(e, l, x) = x) /\ (x >= e => Rank(e, l, x) >= e) /\ Rank(e, l, x) \in Nat
      BY <1>1, <3>2, RankLemma
    <3> QED BY <1>1, <1>8, <3>1, <3>2, <3>3
  <2>2. /\ m = [x \in 0 .. Sector - 1 |-> m[x]]
        /\ Part(f, e, l, e) = [x \in 0 .. Sector - 1 |-> Part(f, e, l, e)[x]]
    BY DEF Flashes, Part
  <2> QED BY <2>1, <2>2
<1> QED BY <1>4, <1>6, <1>7, <1>8, <1>9 DEF e, f, l

\* The new tag is the last one, and the others are what they were.
LEMMA AppendLemma ==
    ASSUME NEW m \in Flashes, Tidy(m), NEW t \in 0 .. 6, NEW v \in Seq(Byte), Len(v) <= 6,
           End(m) + 3 + Len(v) <= Size - 1, Holding(m, t) = {}
    PROVE  /\ Plan(Wrote(m, t, v), t, End(m), Len(v), End(m) + 3 + Len(v))
           /\ Tidy(Wrote(m, t, v)) /\ (t \in Tags /\ One(m) => One(Wrote(m, t, v)))
           /\ \A u : u # t => View(Wrote(m, t, v), u) = View(m, u)
           /\ View(Wrote(m, t, v), t) = New(v)
<1> DEFINE e == End(m)
           f == Wrote(m, t, v)
           l == Len(v)
<1>1. /\ f \in Flashes /\ f[e] = t /\ f[e + 1] = 6 /\ f[e + 2] = l
      /\ \A i \in 1 .. l : f[e + 2 + i] = v[i]
      /\ \A x \in 0 .. Sector - 1 : (x < e => f[x] = m[x]) /\ (x >= e + 3 + l => f[x] = 7)
  BY WroteLemma
<1>2. e + 3 + l <= Size - 1 /\ l \in 0 .. 6 /\ Holding(m, t) = {} /\ v \in Seq(Byte) /\ l = Len(v)
  <2>1. l \in Nat /\ l <= 6
    OBVIOUS
  <2>2. e + 3 + l <= Size - 1 /\ Holding(m, t) = {} /\ v \in Seq(Byte) /\ l = Len(v)
    BY Zenon
  <2> HIDE DEF e, l
  <2> QED BY <2>1, <2>2
<1> HIDE DEF f, e, l
<1>3. e \in Walk(m) /\ e \in Nat /\ e \in Places /\ 1 <= e /\ e = End(m)
  BY EndLemma, WalkLemma, PlacesLemma DEF Places, e
<1>4. \A a \in Headers(m) : a < e
  <2> SUFFICES ASSUME NEW a \in Headers(m) PROVE a < e
    OBVIOUS
  <2>1. a + 3 <= Behind(m, a) /\ Behind(m, a) <= e /\ a \in Places
    BY <1>3, EndLemma
  <2>2. a \in Nat /\ Behind(m, a) \in Nat
    BY <2>1, BehindLemma, PlacesLemma
  <2> QED BY <1>3, <2>1, <2>2
<1>5. \A a \in Headers(m) : ~ (IsTagOk(m, a) /\ m[a] = t)
  BY <1>2 DEF Holding
<1>6. /\ e \in Walk(f) /\ \A a : a < e => (a \in Headers(f) <=> a \in Headers(m))
      /\ \A a \in Headers(m) : Same(m, f, a)
      /\ \A a \in Headers(f) : a < e /\ f[a] = t => ~IsTagOk(f, a)
  <2>1. \A x \in 0 .. Sector - 1 : x < e => f[x] = m[x]
    BY <1>1
  <2>2. \A a \in Headers(m) : a < e /\ m[a] = t => ~IsTagOk(m, a)
    BY <1>5
  <2>3. /\ e \in Walk(f) /\ \A a : a < e => (a \in Headers(f) <=> a \in Headers(m))
        /\ \A a \in Headers(m) : a < e => Same(m, f, a)
        /\ \A a \in Headers(f) : a < e /\ f[a] = t => ~IsTagOk(f, a)
    BY <1>1, <1>3, <2>1, <2>2, BelowLemma
  <2> QED BY <1>4, <2>3
<1>7. Behind(f, e) = e + 3 + l /\ ~Stops(f, e) /\ Behind(f, e) \in 0 .. Sector - 1
  <2>1. /\ FullLength(f, e) = 3 + f[e + 2] /\ Behind(f, e) = e + FullLength(f, e)
        /\ (Stops(f, e) <=> f[e] = 7 \/ Behind(f, e) > Size - 1)
    BY <1>1, <1>3, BehindLemma
  <2>2. Behind(f, e) = e + 3 + l
    BY <1>1, <1>2, <1>3, <2>1
  <2>3. Behind(f, e) <= Size - 1 /\ Behind(f, e) \in Nat /\ f[e] # 7
    BY <1>1, <1>2, <1>3, <2>2
  <2> QED BY <2>1, <2>2, <2>3, PlacesLemma
<1>8. f[Behind(f, e)] = Blank
  BY <1>1, <1>2, <1>3, <1>7, PlacesLemma
<1>9. \A a : a \in Headers(f) <=> a \in Headers(m) \/ a = e
  <2>1. \A a : a \in Headers(f) <=> (a \in Headers(f) /\ a < e) \/ (a = e /\ ~Stops(f, e))
    BY <1>1, <1>6, <1>8, TailLemma
  <2> QED BY <1>4, <1>6, <1>7, <2>1
<1>10. End(f) = e + 3 + l
  <2>1. e \in Headers(f)
    BY <1>9
  <2>2. Behind(f, e) \in Walk(f)
    BY <1>1, <2>1, EndLemma
  <2>3. Stops(f, Behind(f, e))
    BY <1>8 DEF Stops
  <2> QED BY <1>1, <1>7, <2>2, <2>3, EndLemma
<1>11. f[0] = Magic
  <2>1. 0 \in 0 .. Sector - 1 /\ 0 < e
    BY <1>3, PlacesLemma
  <2> QED BY <1>1, <2>1 DEF Tidy
<1>12. Tidy(f)
  BY <1>1, <1>2, <1>10, <1>11, PlacesLemma DEF Tidy
<1>13. Plan(f, t, e, l, e + 3 + l)
  <2>1. \A x \in 0 .. Sector - 1 : x >= e + 3 + l => f[x] = Blank
    BY <1>1, PlacesLemma
  <2>2. f[e + 1] = NotLocked + NotErased
    BY <1>1 DEF NotLocked, NotErased
  <2>3. \A a \in Headers(f) : a < e /\ f[a] = t => ~IsTagOk(f, a)
    BY <1>6
  <2> QED BY <1>1, <1>2, <1>6, <1>11, <2>1, <2>2, <2>3 DEF Plan
<1>14. ASSUME NEW a \in Headers(m)
       PROVE  /\ f[a] = m[a] /\ (IsTagOk(f, a) <=> IsTagOk(m, a))
              /\ Content(f, a) = Content(m, a)
  <2>1. Same(m, f, a) /\ a \in Places /\ f \in Flashes
    BY <1>1, <1>6, EndLemma
  <2>2. f[a] = m[a]
    BY <2>1, SameLemma
  <2>3. IsTagOk(f, a) <=> IsTagOk(m, a)
    BY <2>1, SameLemma
  <2>4. Content(f, a) = Content(m, a)
    BY <2>1, SameLemma
  <2> QED BY <2>2, <2>3, <2>4
<1>15. t \in Tags /\ One(m) => One(f)
  BY <1>1, <1>5, <1>9, <1>14 DEF One
<1>16. ASSUME NEW u, u # t PROVE View(f, u) = View(m, u)
  <2>1. Holding(f, u) = Holding(m, u)
    BY <1>1, <1>9, <1>14, <1>16 DEF Holding
  <2>2. \A a \in Holding(m, u) : Content(f, a) = Content(m, a)
    BY <1>14 DEF Holding
  <2>3. Holding(m, u) \in SUBSET Nat
    BY HoldingLemma
  <2> QED BY <2>1, <2>2, <2>3, SameView
<1>17. View(f, t) = New(v)
  <2>1. IsTagOk(f, e) /\ ~IsLocked(f, e)
    BY <1>1 DEF IsTagOk, IsLocked, NotValid, NotErased, NotLocked, Bit
  <2>2. Holding(f, t) = {e}
    <3>1. e \in Holding(f, t)
      BY <1>1, <1>9, <2>1 DEF Holding
    <3>2. \A a \in Holding(f, t) : a = e
      BY <1>5, <1>9, <1>14 DEF Holding
    <3> QED BY <3>1, <3>2
  <2>3. View(f, t) = Content(f, e)
    BY <1>1, <2>2, HoldingLemma
  <2>4. Data(f, e) = v
    <3>1. Data(f, e) = [i \in 1 .. l |-> v[i]]
      BY <1>1 DEF Data
    <3>2. v = [i \in 1 .. l |-> v[i]]
      BY <1>2
    <3> QED BY <3>1, <3>2
  <2>5. IsLocked(f, e) = FALSE
    BY <2>1
  <2> QED BY <2>3, <2>4, <2>5, Zenon DEF Content, New
<1> QED BY <1>12, <1>13, <1>15, <1>16, <1>17 DEF e, f, l

-----------------------------------------------------------------------------
(* A set of numbers in ascending order.                                    *)

Upto(S, a) == Cardinality({b \in S : b <= a})

LEMMA UptoLemma ==
    ASSUME NEW S \in SUBSET Nat, IsFiniteSet(S)
    PROVE  /\ Cardinality(S) \in Nat
           /\ \A a \in S : Upto(S, a) \in 1 .. Cardinality(S)
           /\ \A a, b \in S : a < b => Upto(S, a) < Upto(S, b)
<1> DEFINE U(a) == {b \in S : b <= a}
<1>1. Cardinality(S) \in Nat
  BY FS_CardinalityType
<1>2. ASSUME NEW a PROVE IsFiniteSet(U(a)) /\ Cardinality(U(a)) \in Nat /\ Cardinality(U(a)) <= Cardinality(S)
  <2>1. U(a) \in SUBSET S
    OBVIOUS
  <2> HIDE DEF U
  <2>2. IsFiniteSet(U(a)) /\ Cardinality(U(a)) <= Cardinality(S)
    BY <2>1, FS_Subset
  <2> QED BY <2>2, FS_CardinalityType
<1>3. ASSUME NEW a \in S PROVE Upto(S, a) \in 1 .. Cardinality(S)
  <2>1. a \in U(a)
    OBVIOUS
  <2>2. Upto(S, a) = Cardinality(U(a))
    BY DEF Upto
  <2> HIDE DEF U
  <2>3. Cardinality(U(a)) # 0
    BY <1>2, <2>1, FS_EmptySet
  <2> QED BY <1>1, <1>2, <2>2, <2>3
<1>4. ASSUME NEW a \in S, NEW b \in S, a < b PROVE Upto(S, a) < Upto(S, b)
  <2>1. U(a) \in SUBSET U(b) /\ b \in U(b) /\ b \notin U(a)
    <3>1. ~ (b <= a) /\ b <= b /\ \A x \in S : x <= a => x <= b
      BY <1>4
    <3> QED BY <3>1, Zenon
  <2>2. Upto(S, a) = Cardinality(U(a)) /\ Upto(S, b) = Cardinality(U(b))
    BY DEF Upto
  <2> HIDE DEF U
  <2>3. Cardinality(U(a)) <= Cardinality(U(b)) /\ Cardinality(U(a)) # Cardinality(U(b))
    BY <1>2, <2>1, FS_Subset
  <2> QED BY <1>2, <2>2, <2>3
<1> QED BY <1>1, <1>3, <1>4

LEMMA AscendingLemma ==
    ASSUME NEW S \in SUBSET Nat, IsFiniteSet(S)
    PROVE  /\ \A i \in 1 .. Cardinality(S) :
                 Ascending(S)[i] \in S /\ Upto(S, Ascending(S)[i]) = i
           /\ \A a \in S : Ascending(S)[Upto(S, a)] = a
<1> DEFINE N == Cardinality(S)
           r == [a \in S |-> Upto(S, a)]
<1>1. /\ N \in Nat /\ \A a \in S : Upto(S, a) \in 1 .. N
      /\ \A a, b \in S : a < b => Upto(S, a) < Upto(S, b)
  BY UptoLemma
<1>2. \A a, b \in S : Upto(S, a) = Upto(S, b) => a = b
  <2> HIDE DEF N
  <2> SUFFICES ASSUME NEW a \in S, NEW b \in S, Upto(S, a) = Upto(S, b), a # b PROVE FALSE
    OBVIOUS
  <2>1. a < b \/ b < a
    OBVIOUS
  <2>2. Upto(S, a) \in Nat
    BY <1>1
  <2> QED BY <1>1, <2>1, <2>2
<1>3. r \in Surjection(S, 1 .. N)
  <2>1. r \in Injection(S, 1 .. N)
    BY <1>1, <1>2 DEF Injection, IsInjective
  <2>2. IsFiniteSet(1 .. N) /\ Cardinality(1 .. N) = N
    <3> HIDE DEF N
    <3>1. 1 \in Int /\ N \in Int
      BY <1>1
    <3>2. IsFiniteSet(1 .. N) /\ Cardinality(1 .. N) = IF 1 > N THEN 0 ELSE N - 1 + 1
      BY <3>1, FS_Interval
    <3> QED BY <1>1, <3>2
  <2> QED BY <2>1, <2>2, FS_Injection
<1>4. \A i \in 1 .. N : \E a \in S : Upto(S, a) = i
  BY <1>3 DEF Surjection
<1>5. \A i \in 1 .. N : Ascending(S)[i] = CHOOSE a \in S : Upto(S, a) = i
  BY DEF Ascending, Upto
<1>6. \A i \in 1 .. N : Ascending(S)[i] \in S /\ Upto(S, Ascending(S)[i]) = i
  <2> HIDE DEF N
  <2> QED BY <1>4, <1>5
<1> QED BY <1>1, <1>2, <1>6

Under(S, a) == Cardinality({b \in S : b < a})

LEMMA UnderLemma ==
    ASSUME NEW S \in SUBSET Nat, IsFiniteSet(S), NEW a \in Nat, NEW c \in Nat, a <= c
    PROVE  /\ Under(S, a) \in Nat /\ Under(S, a) <= Under(S, c) /\ Under(S, a) <= Cardinality(S)
           /\ a .. c - 1 \subseteq S => Under(S, c) = Under(S, a) + (c - a)
           /\ Upto(S, a) = Under(S, a + 1)
<1> DEFINE U(x) == {b \in S : b < x}
<1>1. ASSUME NEW x \in Nat
      PROVE  /\ IsFiniteSet(U(x)) /\ Cardinality(U(x)) \in Nat
             /\ Cardinality(U(x)) <= Cardinality(S)
  <2>1. U(x) \in SUBSET S
    OBVIOUS
  <2> HIDE DEF U
  <2>2. IsFiniteSet(U(x)) /\ Cardinality(U(x)) <= Cardinality(S)
    BY <2>1, FS_Subset
  <2> QED BY <2>2, FS_CardinalityType
<1>2. \A x : Under(S, x) = Cardinality(U(x))
  BY DEF Under
<1>3. U(a) \in SUBSET U(c)
  <2>1. \A b \in S : b < a => b < c
    OBVIOUS
  <2> QED BY <2>1, Zenon
<1>4. Upto(S, a) = Under(S, a + 1)
  <2>1. \A b \in S : b <= a <=> b < a + 1
    OBVIOUS
  <2>2. {b \in S : b <= a} = {b \in S : b < a + 1}
    BY <2>1, Zenon
  <2> QED BY <2>2 DEF Upto, Under
<1>5. ASSUME a .. c - 1 \subseteq S PROVE Under(S, c) = Under(S, a) + (c - a)
  <2>1. U(c) = U(a) \union (a .. c - 1) /\ U(a) \intersect (a .. c - 1) = {}
    <3>1. \A b \in S : b < c <=> b < a \/ b \in a .. c - 1
      OBVIOUS
    <3>2. \A b \in a .. c - 1 : b \in S /\ b < c /\ ~ (b < a)
      BY <1>5
    <3> QED BY <3>1, <3>2, Zenon
  <2>2. IsFiniteSet(a .. c - 1) /\ Cardinality(a .. c - 1) = c - a
    <3>1. a \in Int /\ c - 1 \in Int
      OBVIOUS
    <3>2. IsFiniteSet(a .. c - 1)
          /\ Cardinality(a .. c - 1) = IF a > c - 1 THEN 0 ELSE (c - 1) - a + 1
      BY <3>1, FS_Interval
    <3> QED BY <3>2
  <2>3. IsFiniteSet(U(a)) /\ Cardinality(U(a)) \in Nat
    BY <1>1
  <2> HIDE DEF U
  <2>4. Cardinality(U(a) \union (a .. c - 1))
           = Cardinality(U(a)) + Cardinality(a .. c - 1) - Cardinality(U(a) \intersect (a .. c - 1))
    BY <2>2, <2>3, FS_Union
  <2>5. Cardinality(U(a) \intersect (a .. c - 1)) = 0
    BY <2>1, FS_EmptySet
  <2>6. Under(S, c) = Cardinality(U(a) \union (a .. c - 1)) /\ Under(S, a) = Cardinality(U(a))
    BY <1>2, <2>1, Zenon
  <2> QED BY <2>2, <2>3, <2>4, <2>5, <2>6
<1>6. Cardinality(U(a)) <= Cardinality(U(c))
  <2>1. IsFiniteSet(U(c))
    BY <1>1
  <2> HIDE DEF U
  <2> QED BY <1>3, <2>1, FS_Subset
<1> QED BY <1>1, <1>2, <1>4, <1>5, <1>6

-----------------------------------------------------------------------------
(* A flash that has been purged of a tag.                                  *)

KeptOf(m, t) == UNION {a .. a + FullLength(m, a) - 1 : a \in Others(m, t)}

Packed(m, t) ==
    [x \in 0 .. Sector - 1 |->
        IF x = 0 THEN Magic
        ELSE IF x <= Cardinality(KeptOf(m, t)) THEN m[Ascending(KeptOf(m, t))[x]]
        ELSE Blank]

\* Where the byte at a goes.
Moved(m, t, a) == 1 + Under(KeptOf(m, t), a)

LEMMA KeptLemma ==
    ASSUME NEW m \in Flashes, NEW t
    PROVE  /\ KeptOf(m, t) \in SUBSET Nat /\ IsFiniteSet(KeptOf(m, t))
           /\ Cardinality(KeptOf(m, t)) \in Nat /\ Cardinality(KeptOf(m, t)) <= Size - 2
           /\ \A x \in KeptOf(m, t) : 1 <= x /\ x <= Size - 2
           /\ \A x : x \in KeptOf(m, t) <=> \E a \in Others(m, t) : x \in a .. Behind(m, a) - 1
           /\ Others(m, t) \subseteq Headers(m)
<1> DEFINE K == KeptOf(m, t)
<1>1. Others(m, t) \subseteq Headers(m)
  BY DEF Others
<1>2. \A x : x \in K <=> \E a \in Others(m, t) : x \in a .. Behind(m, a) - 1
  <2> DEFINE B(a) == a .. a + FullLength(m, a) - 1
  <2>1. K = UNION {B(a) : a \in Others(m, t)}
    BY DEF KeptOf
  <2>2. ASSUME NEW a \in Others(m, t) PROVE B(a) = a .. Behind(m, a) - 1
    <3>1. a \in Places
      BY <1>1, EndLemma
    <3>2. Behind(m, a) = a + FullLength(m, a) /\ FullLength(m, a) \in 3 .. 10 /\ a \in Nat
      BY <3>1, BehindLemma, PlacesLemma
    <3>3. a + FullLength(m, a) - 1 = Behind(m, a) - 1
      BY <3>2
    <3> QED BY <3>3, Zenon
  <2> HIDE DEF B, K
  <2>3. \A x : x \in K <=> \E a \in Others(m, t) : x \in B(a)
    BY <2>1
  <2> QED BY <2>2, <2>3, Zenon
<1>3. ASSUME NEW x \in K PROVE x \in 1 .. Size - 2
  <2>1. PICK a \in Others(m, t) : x \in a .. Behind(m, a) - 1
    BY <1>2
  <2>2. a \in Places /\ Behind(m, a) <= Size - 1
    BY <1>1, EndLemma
  <2>3. a \in Nat /\ 1 <= a /\ Behind(m, a) \in Nat
    BY <2>2, BehindLemma, PlacesLemma DEF Places
  <2> QED BY <2>1, <2>2, <2>3, PlacesLemma
<1> HIDE DEF K
<1>4. IsFiniteSet(1 .. Size - 2) /\ Cardinality(1 .. Size - 2) = Size - 2
  <2>1. 1 \in Int /\ Size - 2 \in Int /\ Size >= 2
    BY PlacesLemma
  <2>2. IsFiniteSet(1 .. Size - 2)
        /\ Cardinality(1 .. Size - 2) = IF 1 > Size - 2 THEN 0 ELSE (Size - 2) - 1 + 1
    BY <2>1, FS_Interval
  <2> QED BY <2>1, <2>2, PlacesLemma
<1>5. K \in SUBSET (1 .. Size - 2)
  BY <1>3
<1>6. IsFiniteSet(K) /\ Cardinality(K) <= Size - 2
  BY <1>4, <1>5, FS_Subset
<1>7. Cardinality(K) \in Nat
  BY <1>6, FS_CardinalityType
<1>8. K \in SUBSET Nat /\ \A x \in K : 1 <= x /\ x <= Size - 2
  BY <1>3, PlacesLemma
<1> QED BY <1>1, <1>2, <1>6, <1>7, <1>8 DEF K

LEMMA MovedLemma ==
    ASSUME NEW m \in Flashes, NEW t
    PROVE  /\ Moved(m, t, Start) = Start
           /\ \A a \in Walk(m) : Moved(m, t, a) \in 1 .. Cardinality(KeptOf(m, t)) + 1
           /\ \A a \in Others(m, t) :
                 /\ Moved(m, t, Behind(m, a)) = Moved(m, t, a) + FullLength(m, a)
                 /\ \A j \in 0 .. FullLength(m, a) - 1 :
                       Upto(KeptOf(m, t), a + j) = Moved(m, t, a) + j /\ a + j \in KeptOf(m, t)
           /\ \A a \in Headers(m) : a \notin Others(m, t) =>
                 Moved(m, t, Behind(m, a)) = Moved(m, t, a)
           /\ \A a, b \in Others(m, t) : a < b => Moved(m, t, a) < Moved(m, t, b)
           /\ \A a \in Walk(m) : Moved(m, t, a) <= Cardinality(KeptOf(m, t)) =>
                 \E b \in Others(m, t) : Moved(m, t, b) = Moved(m, t, a)
<1> DEFINE K == KeptOf(m, t)
           N == Cardinality(K)
           q(a) == Moved(m, t, a)
<1>1. /\ K \in SUBSET Nat /\ IsFiniteSet(K) /\ N \in Nat
      /\ \A x \in K : 1 <= x
      /\ \A x : x \in K <=> \E a \in Others(m, t) : x \in a .. Behind(m, a) - 1
      /\ Others(m, t) \subseteq Headers(m)
  BY KeptLemma
<1>2. \A a : q(a) = 1 + Under(K, a)
  BY DEF Moved
<1> HIDE DEF K, q, N
<1>3. ASSUME NEW a \in Headers(m)
      PROVE  /\ a \in Nat /\ Behind(m, a) \in Nat /\ FullLength(m, a) \in 3 .. 10
             /\ Behind(m, a) = a + FullLength(m, a) /\ a \in Walk(m) /\ Behind(m, a) \in Walk(m)
  <2>1. a \in Places /\ a \in Walk(m) /\ Behind(m, a) \in Walk(m)
    BY EndLemma
  <2> QED BY <2>1, BehindLemma, PlacesLemma
<1>4. \A a \in Walk(m) : a \in Nat
  BY EndLemma
<1>5. ASSUME NEW a \in Nat, NEW c \in Nat, a <= c
      PROVE  /\ Under(K, a) \in Nat /\ Under(K, a) <= Under(K, c) /\ Under(K, a) <= N
             /\ a .. c - 1 \subseteq K => Under(K, c) = Under(K, a) + (c - a)
             /\ Upto(K, a) = Under(K, a + 1)
  BY <1>1, <1>5, UnderLemma DEF N
<1>6. q(Start) = Start
  <2>1. Start = 1
    BY PlacesLemma
  <2>2. {b \in K : b < 1} = {}
    BY <1>1
  <2>3. Under(K, 1) = 0
    BY <2>2, FS_EmptySet DEF Under
  <2> QED BY <1>2, <2>1, <2>3
<1>7. ASSUME NEW a \in Walk(m) PROVE q(a) \in 1 .. N + 1
  <2>1. Under(K, a) \in Nat /\ Under(K, a) <= N
    BY <1>4, <1>5
  <2> QED BY <1>1, <1>2, <2>1
<1>8. ASSUME NEW a \in Others(m, t), NEW c \in a .. Behind(m, a)
      PROVE  c \in Nat /\ q(c) = q(a) + (c - a) /\ (c < Behind(m, a) => c \in K)
  <2>1. a \in Nat /\ Behind(m, a) \in Nat /\ a \in Walk(m)
    BY <1>1, <1>3
  <2>2. c \in Nat /\ a <= c /\ (c < Behind(m, a) => c \in K)
    BY <1>1, <2>1
  <2>3. a .. c - 1 \subseteq K
    <3> SUFFICES ASSUME NEW x \in a .. c - 1 PROVE x \in K
      OBVIOUS
    <3>1. x \in a .. Behind(m, a) - 1
      BY <2>1, <2>2
    <3> QED BY <1>1, <3>1
  <2>4. Under(K, c) = Under(K, a) + (c - a) /\ Under(K, a) \in Nat
    BY <1>5, <2>1, <2>2, <2>3
  <2>5. q(c) = 1 + Under(K, c) /\ q(a) = 1 + Under(K, a)
    BY <1>2
  <2> QED BY <2>1, <2>2, <2>4, <2>5
<1>9. ASSUME NEW a \in Others(m, t)
      PROVE  /\ q(Behind(m, a)) = q(a) + FullLength(m, a)
             /\ \A j \in 0 .. FullLength(m, a) - 1 : Upto(K, a + j) = q(a) + j /\ a + j \in K
  <2>1. /\ a \in Nat /\ Behind(m, a) \in Nat /\ a \in Walk(m) /\ FullLength(m, a) \in 3 .. 10
        /\ Behind(m, a) = a + FullLength(m, a) /\ q(a) \in Nat
    BY <1>1, <1>3, <1>7
  <2>2. q(Behind(m, a)) = q(a) + FullLength(m, a)
    <3>1. Behind(m, a) \in a .. Behind(m, a)
      BY <2>1
    <3> QED BY <1>8, <2>1, <3>1
  <2>3. ASSUME NEW j \in 0 .. FullLength(m, a) - 1
        PROVE  Upto(K, a + j) = q(a) + j /\ a + j \in K
    <3>1. /\ a + j \in a .. Behind(m, a) /\ a + j < Behind(m, a) /\ a + j \in Nat
          /\ a + j + 1 \in a .. Behind(m, a) /\ a + j <= a + j
      BY <2>1
    <3>2. a + j \in K /\ q(a + j + 1) = q(a) + (j + 1)
      BY <1>8, <2>1, <3>1
    <3>3. Upto(K, a + j) = Under(K, a + j + 1)
      BY <1>5, <3>1
    <3>4. Under(K, a + j + 1) \in Nat
      <4>1. a + j + 1 \in Nat /\ a + j + 1 <= a + j + 1
        BY <3>1
      <4> QED BY <1>5, <4>1
    <3> QED BY <1>2, <2>1, <3>2, <3>3, <3>4
  <2> QED BY <2>2, <2>3
<1>10. ASSUME NEW a \in Headers(m), a \notin Others(m, t) PROVE q(Behind(m, a)) = q(a)
  <2>1. a \in Nat /\ Behind(m, a) \in Nat /\ a \in Walk(m) /\ Behind(m, a) \in Walk(m) /\ Behind(m, a) >= a
    BY <1>3
  <2>2. \A x \in K : x < Behind(m, a) => x < a
    <3> SUFFICES ASSUME NEW x \in K, x < Behind(m, a), ~ (x < a) PROVE FALSE
      OBVIOUS
    <3>1. PICK b \in Others(m, t) : x \in b .. Behind(m, b) - 1
      BY <1>1
    <3>2. b \in Nat /\ Behind(m, b) \in Nat /\ b \in Headers(m) /\ b \in Walk(m) /\ b # a
      BY <1>1, <1>3, <1>10
    <3>3. (a <= b \/ a >= Behind(m, b)) /\ (b <= a \/ b >= Behind(m, a))
      BY <2>1, <3>2, ApartLemma
    <3> QED BY <2>1, <2>2, <3>1, <3>2, <3>3
  <2>3. \A x \in K : x < Behind(m, a) <=> x < a
    <3>1. \A x \in K : x < a => x < Behind(m, a)
      BY <1>1, <2>1
    <3> QED BY <2>2, <3>1
  <2>4. {x \in K : x < Behind(m, a)} = {x \in K : x < a}
    BY <2>3, Zenon
  <2>5. Under(K, Behind(m, a)) = Under(K, a)
    BY <2>4 DEF Under
  <2> QED BY <1>2, <2>5
<1>11. ASSUME NEW a \in Others(m, t), NEW b \in Others(m, t), a < b PROVE q(a) < q(b)
  <2>1. /\ a \in Nat /\ b \in Nat /\ Behind(m, a) \in Nat /\ a \in Walk(m) /\ b \in Walk(m)
        /\ FullLength(m, a) \in 3 .. 10 /\ a \in Headers(m) /\ b \in Headers(m)
    BY <1>1, <1>3
  <2>2. b >= Behind(m, a)
    <3>1. b <= a \/ b >= Behind(m, a)
      BY <2>1, ApartLemma
    <3> QED BY <1>11, <2>1, <3>1
  <2>3. Under(K, Behind(m, a)) <= Under(K, b) /\ Under(K, Behind(m, a)) \in Nat
    BY <1>5, <2>1, <2>2
  <2>4. Under(K, b) \in Nat
    BY <1>5, <2>1
  <2>5. q(Behind(m, a)) = q(a) + FullLength(m, a) /\ q(a) \in Nat
    BY <1>7, <1>9, <2>1
  <2> QED BY <1>2, <2>1, <2>3, <2>4, <2>5
<1>12. ASSUME NEW a \in Walk(m), q(a) <= N PROVE \E b \in Others(m, t) : q(b) = q(a)
  <2> DEFINE y == Ascending(K)[q(a)]
  <2>1. y \in K /\ Upto(K, y) = q(a)
    <3>1. q(a) \in 1 .. Cardinality(K)
      BY <1>1, <1>7, <1>12 DEF N
    <3> QED BY <1>1, <3>1, AscendingLemma
  <2> HIDE DEF y
  <2>2. PICK b \in Others(m, t) : y \in b .. Behind(m, b) - 1
    BY <1>1, <2>1
  <2>3. /\ b \in Nat /\ Behind(m, b) \in Nat /\ b \in Headers(m) /\ b \in Walk(m) /\ a \in Nat
        /\ y \in Nat /\ Behind(m, b) = b + FullLength(m, b) /\ FullLength(m, b) \in 3 .. 10
        /\ q(a) \in Nat /\ q(b) \in Nat
    BY <1>1, <1>3, <1>4, <1>7, <2>1
  <2>4. a <= b
    <3> SUFFICES ASSUME b < a PROVE FALSE
      BY <2>3
    <3>1. a <= b \/ a >= Behind(m, b)
      BY <2>3, ApartLemma
    <3> DEFINE z == y + 1
    <3>2. z <= a /\ z \in Nat
      BY <2>2, <2>3, <3>1
    <3>3. Upto(K, y) = Under(K, z)
      <4>1. y <= y
        BY <2>3
      <4> QED BY <1>5, <2>3, <4>1
    <3> HIDE DEF z
    <3>4. Under(K, z) <= Under(K, a) /\ Under(K, z) \in Nat
      BY <1>5, <2>3, <3>2
    <3>5. Under(K, a) \in Nat
      BY <1>5, <2>3
    <3>6. q(a) = 1 + Under(K, a)
      BY <1>2
    <3>7. q(a) = Under(K, z)
      BY <2>1, <3>3
    <3> QED BY <3>4, <3>5, <3>6, <3>7
  <2>5. q(a) <= q(b)
    <3>1. Under(K, a) <= Under(K, b) /\ Under(K, a) \in Nat
      BY <1>5, <2>3, <2>4
    <3>2. Under(K, b) \in Nat
      BY <1>5, <2>3
    <3> QED BY <1>2, <3>1, <3>2
  <2>6. q(b) <= q(a)
    <3> DEFINE j == y - b
    <3>1. j \in 0 .. FullLength(m, b) - 1 /\ b + j = y /\ j \in Nat
      BY <2>2, <2>3
    <3> HIDE DEF j
    <3>2. Upto(K, b + j) = q(b) + j
      BY <1>9, <3>1
    <3> QED BY <2>1, <2>3, <3>1, <3>2
  <2>7. q(b) = q(a)
    BY <2>3, <2>5, <2>6
  <2> QED BY <2>7
<1> QED BY <1>6, <1>7, <1>9, <1>10, <1>11, <1>12 DEF K, N, q

\* The walk over a purged flash visits what was kept, in the same order.
LEMMA PackedWalk ==
    ASSUME NEW m \in Flashes, NEW t
    PROVE  /\ Packed(m, t) \in Flashes /\ Packed(m, t)[0] = Magic
           /\ \A x \in 0 .. Sector - 1 : x > Cardinality(KeptOf(m, t)) => Packed(m, t)[x] = Blank
           /\ End(Packed(m, t)) = Start + Cardinality(KeptOf(m, t))
           /\ \A b : b \in Headers(Packed(m, t)) <=> \E a \in Others(m, t) : b = Moved(m, t, a)
           /\ \A a \in Others(m, t) :
                 /\ Packed(m, t)[Moved(m, t, a)] = m[a] /\ IsTagOk(Packed(m, t), Moved(m, t, a))
                 /\ Content(Packed(m, t), Moved(m, t, a)) = Content(m, a)
<1> DEFINE K == KeptOf(m, t)
           N == Cardinality(K)
           q(a) == Moved(m, t, a)
           p == Packed(m, t)
<1>1. /\ q(Start) = Start
      /\ \A a \in Walk(m) : q(a) \in 1 .. N + 1
      /\ \A a \in Others(m, t) :
            /\ q(Behind(m, a)) = q(a) + FullLength(m, a)
            /\ \A j \in 0 .. FullLength(m, a) - 1 : Upto(K, a + j) = q(a) + j /\ a + j \in K
      /\ \A a \in Headers(m) : a \notin Others(m, t) => q(Behind(m, a)) = q(a)
      /\ \A a \in Walk(m) : q(a) <= N => \E b \in Others(m, t) : q(b) = q(a)
  BY MovedLemma
<1>2. /\ K \in SUBSET Nat /\ IsFiniteSet(K) /\ N \in Nat /\ N <= Size - 2
      /\ \A x \in K : 1 <= x /\ x <= Size - 2
      /\ Others(m, t) \subseteq Headers(m)
  BY KeptLemma
<1>3. /\ \A i \in 1 .. N : Ascending(K)[i] \in K
      /\ \A a \in K : Ascending(K)[Upto(K, a)] = a /\ Upto(K, a) \in 1 .. N
  BY <1>2, AscendingLemma, UptoLemma
<1>4. \A x \in 0 .. Sector - 1 : p[x] = IF x = 0 THEN Magic ELSE IF x <= N THEN m[Ascending(K)[x]] ELSE Blank
  BY DEF Packed
<1>5. p = [x \in 0 .. Sector - 1 |-> p[x]]
  BY DEF Packed
<1> HIDE DEF K, N, q, p
<1>6. \A x \in 0 .. Sector - 1 : x \in Nat /\ m[x] \in 0 .. 7
  BY PlacesLemma DEF Flashes
<1>7. p \in Flashes
  <2>1. ASSUME NEW x \in 0 .. Sector - 1 PROVE p[x] \in Byte
    <3>1. CASE x = 0
      BY <1>4, <3>1, PlacesLemma
    <3>2. CASE x # 0 /\ x <= N
      <4>1. Ascending(K)[x] \in K
        BY <1>2, <1>3, <1>6, <3>2
      <4>2. \A y \in K : y \in 0 .. Sector - 1
        BY <1>2, PlacesLemma
      <4> QED BY <1>4, <1>6, <3>2, <4>1, <4>2, PlacesLemma
    <3>3. CASE x # 0 /\ ~ (x <= N)
      BY <1>4, <3>3, PlacesLemma
    <3> QED BY <3>1, <3>2, <3>3
  <2> QED BY <1>5, <2>1 DEF Flashes
<1>8. p[0] = Magic /\ \A x \in 0 .. Sector - 1 : x > N => p[x] = Blank
  <2>1. 0 \in 0 .. Sector - 1
    BY PlacesLemma
  <2> QED BY <1>2, <1>4, <2>1
<1>9. ASSUME NEW a \in Others(m, t)
      PROVE  /\ a \in Headers(m) /\ a \in Walk(m) /\ a \in Nat /\ FullLength(m, a) = 3 + m[a + 2]
             /\ m[a + 2] \in 0 .. 7 /\ m[a] # 7 /\ Behind(m, a) \in Walk(m) /\ q(a) \in Nat
             /\ Behind(m, a) = a + FullLength(m, a)
  <2>1. a \in Headers(m) /\ a \in Walk(m) /\ a \in Places /\ ~Stops(m, a) /\ Behind(m, a) \in Walk(m)
    BY <1>2, EndLemma
  <2>2. q(a) \in Nat
    BY <1>1, <1>2, <2>1
  <2>3. /\ FullLength(m, a) = 3 + m[a + 2] /\ m[a + 2] \in 0 .. 7 /\ m[a] # 7
        /\ Behind(m, a) = a + FullLength(m, a)
    BY <2>1, BehindLemma
  <2>4. a \in Nat
    BY <2>1, PlacesLemma
  <2> QED BY <2>1, <2>2, <2>3, <2>4
<1>10. ASSUME NEW a \in Others(m, t), NEW j \in 0 .. FullLength(m, a) - 1
       PROVE  p[q(a) + j] = m[a + j]
  <2>1. Upto(K, a + j) = q(a) + j /\ a + j \in K
    BY <1>1
  <2>2. Ascending(K)[q(a) + j] = a + j /\ q(a) + j \in 1 .. N
    BY <1>3, <2>1
  <2>3. q(a) + j \in 0 .. Sector - 1 /\ q(a) + j # 0 /\ q(a) + j <= N
    BY <1>2, <2>2, PlacesLemma
  <2> QED BY <1>4, <2>2, <2>3
<1>11. ASSUME NEW a \in Others(m, t)
       PROVE  /\ p[q(a)] = m[a] /\ p[q(a) + 1] = m[a + 1] /\ p[q(a) + 2] = m[a + 2]
              /\ \A i \in 1 .. m[a + 2] : p[q(a) + 2 + i] = m[a + 2 + i]
  <2>1. /\ 0 \in 0 .. FullLength(m, a) - 1 /\ 1 \in 0 .. FullLength(m, a) - 1
        /\ 2 \in 0 .. FullLength(m, a) - 1
        /\ q(a) + 0 = q(a) /\ a + 0 = a
    BY <1>9
  <2>2. p[q(a)] = m[a] /\ p[q(a) + 1] = m[a + 1] /\ p[q(a) + 2] = m[a + 2]
    <3>1. p[q(a) + 0] = m[a + 0] /\ p[q(a) + 1] = m[a + 1] /\ p[q(a) + 2] = m[a + 2]
      BY <1>10, <2>1, Zenon
    <3> QED BY <2>1, <3>1
  <2>3. ASSUME NEW i \in 1 .. m[a + 2] PROVE p[q(a) + 2 + i] = m[a + 2 + i]
    <3>1. /\ 2 + i \in 0 .. FullLength(m, a) - 1
          /\ q(a) + (2 + i) = q(a) + 2 + i /\ a + (2 + i) = a + 2 + i
      BY <1>9
    <3>2. p[q(a) + (2 + i)] = m[a + (2 + i)]
      BY <1>10, <3>1, Zenon
    <3> QED BY <3>1, <3>2
  <2> QED BY <2>2, <2>3
<1>12. ASSUME NEW a \in Others(m, t)
       PROVE  /\ IsTagOk(p, q(a)) /\ Content(p, q(a)) = Content(m, a)
              /\ FullLength(p, q(a)) = FullLength(m, a)
  <2>1. IsTagOk(m, a)
    BY DEF Others
  <2>2. Data(p, q(a)) = Data(m, a)
    BY <1>11, Zenon DEF Data
  <2>3. IsLocked(p, q(a)) = IsLocked(m, a) /\ (IsTagOk(p, q(a)) <=> IsTagOk(m, a))
    BY <1>11, Zenon DEF IsLocked, IsTagOk
  <2>4. FullLength(p, q(a)) = FullLength(m, a)
    BY <1>11, Zenon DEF FullLength
  <2> QED BY <2>1, <2>2, <2>3, <2>4, Zenon DEF Content
<1>13. ASSUME NEW a \in Others(m, t)
       PROVE  ~Stops(p, q(a)) /\ Behind(p, q(a)) = q(Behind(m, a)) /\ q(a) <= N
  <2>1. Behind(p, q(a)) = q(Behind(m, a))
    BY <1>1, <1>12 DEF Behind
  <2>2. q(Behind(m, a)) \in 1 .. N + 1
    BY <1>1, <1>9
  <2>3. p[q(a)] # Blank
    BY <1>9, <1>11, PlacesLemma
  <2>4. q(a) + FullLength(p, q(a)) = q(Behind(m, a))
    BY <1>1, <1>12
  <2>5. ~Stops(p, q(a))
    BY <1>2, <2>2, <2>3, <2>4, PlacesLemma DEF Stops
  <2>6. q(a) <= N
    BY <1>1, <1>2, <1>9, <2>2
  <2> QED BY <2>1, <2>5, <2>6
<1>14. N + 1 \in Places /\ N + 1 \in 0 .. Sector - 1 /\ p[N + 1] = Blank /\ Stops(p, N + 1)
  <2>1. N + 1 \in Places /\ N + 1 \in 0 .. Sector - 1
    BY <1>2, PlacesLemma DEF Places
  <2>2. p[N + 1] = Blank
    BY <1>2, <1>8, <2>1
  <2> QED BY <2>1, <2>2 DEF Stops
<1>15. Walk(p) \subseteq {q(a) : a \in Walk(m)}
  <2> DEFINE W == {q(a) : a \in Walk(m)}
  <2>1. Start \in W
    <3>1. Start \in Walk(m)
      BY WalkLemma
    <3> QED BY <1>1, <3>1
  <2>2. W \in SUBSET Places
    <3>1. 1 .. N + 1 \subseteq Places
      BY <1>2, PlacesLemma DEF Places
    <3> QED BY <1>1, <3>1
  <2>3. Closed(p, W)
    <3> SUFFICES ASSUME NEW a \in Walk(m), ~Stops(p, q(a)) PROVE Behind(p, q(a)) \in W
      BY DEF Closed
    <3>1. q(a) <= N
      <4>1. q(a) # N + 1 /\ q(a) \in 1 .. N + 1
        BY <1>1, <1>14
      <4> QED BY <1>2, <4>1
    <3>2. PICK b \in Others(m, t) : q(b) = q(a)
      BY <1>1, <3>1
    <3>3. Behind(p, q(a)) = q(Behind(m, b))
      BY <1>13, <3>2
    <3> QED BY <1>9, <3>3
  <2> HIDE DEF W
  <2>4. Walk(p) \subseteq W
    BY <1>7, <2>1, <2>2, <2>3, WalkLemma
  <2> QED BY <2>4 DEF W
<1>16. \A a \in Walk(m) : q(a) \in Walk(p)
  <2> DEFINE W == {a \in Walk(m) : q(a) \in Walk(p)}
  <2>1. Start \in W /\ W \in SUBSET Places
    BY <1>1, <1>7, WalkLemma
  <2>2. Closed(m, W)
    <3> SUFFICES ASSUME NEW a \in W, ~Stops(m, a) PROVE Behind(m, a) \in W
      BY DEF Closed
    <3>1. a \in Headers(m) /\ Behind(m, a) \in Walk(m) /\ q(a) \in Walk(p)
      BY WalkLemma DEF Headers, Closed
    <3>2. CASE a \in Others(m, t)
      <4>1. ~Stops(p, q(a)) /\ Behind(p, q(a)) = q(Behind(m, a))
        BY <1>13, <3>2
      <4>2. Behind(p, q(a)) \in Walk(p)
        BY <1>7, <3>1, <4>1, WalkLemma DEF Closed
      <4> QED BY <3>1, <4>1, <4>2
    <3>3. CASE a \notin Others(m, t)
      <4>1. q(Behind(m, a)) = q(a)
        BY <1>1, <3>1, <3>3
      <4> QED BY <3>1, <4>1
    <3> QED BY <3>2, <3>3
  <2> HIDE DEF W
  <2>3. Walk(m) \subseteq W
    BY <2>1, <2>2, WalkLemma
  <2> QED BY <2>3 DEF W
<1>17. \A b : b \in Headers(p) <=> \E a \in Others(m, t) : b = q(a)
  <2>1. ASSUME NEW b \in Headers(p) PROVE \E a \in Others(m, t) : b = q(a)
    <3>1. b \in Walk(p) /\ ~Stops(p, b)
      BY DEF Headers
    <3>2. PICK a \in Walk(m) : b = q(a)
      BY <1>15, <3>1
    <3>3. q(a) <= N
      <4>1. q(a) # N + 1 /\ q(a) \in 1 .. N + 1
        BY <1>1, <1>14, <3>1, <3>2
      <4> QED BY <1>2, <4>1
    <3> QED BY <1>1, <3>2, <3>3
  <2>2. ASSUME NEW a \in Others(m, t) PROVE q(a) \in Headers(p)
    BY <1>9, <1>13, <1>16 DEF Headers
  <2> QED BY <2>1, <2>2
<1>18. End(p) = Start + N
  <2>1. q(End(m)) \in Walk(p) /\ End(m) \in Walk(m) /\ q(End(m)) \in 1 .. N + 1 /\ End(m) \in Nat
    BY <1>1, <1>16, EndLemma
  <2>2. q(End(m)) = N + 1
    <3> SUFFICES ASSUME q(End(m)) <= N PROVE FALSE
      BY <1>2, <2>1
    <3>1. \A x \in K : x < End(m)
      <4> SUFFICES ASSUME NEW x \in K PROVE x < End(m)
        OBVIOUS
      <4>1. PICK a \in Others(m, t) : x \in a .. Behind(m, a) - 1
        BY KeptLemma DEF K
      <4>2. Behind(m, a) <= End(m) /\ Behind(m, a) \in Nat
        BY <1>9, <4>1, EndLemma
      <4>3. a \in Nat /\ x \in Nat
        BY <1>2, <1>9
      <4> QED BY <2>1, <4>1, <4>2, <4>3
    <3>2. {x \in K : x < End(m)} = K
      BY <3>1, Zenon
    <3>3. q(End(m)) = 1 + N
      BY <3>2 DEF q, Moved, Under, N, K
    <3> QED BY <1>2, <3>3
  <2> QED BY <1>2, <1>7, <1>14, <2>1, <2>2, EndLemma, PlacesLemma
<1> QED BY <1>7, <1>8, <1>11, <1>12, <1>17, <1>18 DEF K, N, q, p

\* What a purge keeps.
LEMMA PurgeLemma ==
    ASSUME NEW m \in Flashes, NEW t
    PROVE  /\ Packed(m, t) \in Flashes /\ Tidy(Packed(m, t)) /\ Holding(Packed(m, t), t) = {}
           /\ End(Packed(m, t)) = Start + Cardinality(KeptOf(m, t))
           /\ One(m) => One(Packed(m, t))
           /\ \A u : u # t => View(Packed(m, t), u) = View(m, u)
<1> DEFINE p == Packed(m, t)
           q(a) == Moved(m, t, a)
           N == Cardinality(KeptOf(m, t))
<1>1. /\ p \in Flashes /\ p[0] = Magic /\ End(p) = Start + N
      /\ \A x \in 0 .. Sector - 1 : x > N => p[x] = Blank
      /\ \A b : b \in Headers(p) <=> \E a \in Others(m, t) : b = q(a)
      /\ \A a \in Others(m, t) :
            p[q(a)] = m[a] /\ IsTagOk(p, q(a)) /\ Content(p, q(a)) = Content(m, a)
  BY PackedWalk
<1>2. /\ \A a, b \in Others(m, t) : a < b => q(a) < q(b)
      /\ \A a \in Walk(m) : q(a) \in 1 .. N + 1
  BY MovedLemma
<1>3. /\ N \in Nat /\ N <= Size - 2 /\ Others(m, t) \subseteq Headers(m)
  BY KeptLemma
<1> HIDE DEF p, q, N
<1>4. Tidy(p)
  <2>1. End(p) <= Size - 1
    BY <1>1, <1>3, PlacesLemma
  <2>2. \A x \in 0 .. Sector - 1 : x >= End(p) => x > N
    BY <1>1, <1>3, PlacesLemma
  <2> QED BY <1>1, <2>1, <2>2 DEF Tidy
<1>5. Holding(p, t) = {}
  <2>1. \A a \in Others(m, t) : m[a] # t
    BY DEF Others
  <2> QED BY <1>1, <2>1 DEF Holding
<1>6. \A a \in Others(m, t) : a \in Nat /\ a \in Walk(m) /\ q(a) \in Nat /\ a \in Headers(m)
  <2> SUFFICES ASSUME NEW a \in Others(m, t)
               PROVE  a \in Nat /\ a \in Walk(m) /\ q(a) \in Nat /\ a \in Headers(m)
    OBVIOUS
  <2>1. a \in Headers(m) /\ a \in Walk(m)
    BY <1>3, EndLemma
  <2>2. a \in Nat
    BY <2>1, EndLemma
  <2> QED BY <1>2, <1>3, <2>1, <2>2
<1>7. ASSUME NEW u, u # t PROVE View(p, u) = View(m, u)
  <2>1. \A a : a \in Holding(m, u) <=> a \in Others(m, t) /\ m[a] = u
    BY <1>7 DEF Holding, Others
  <2>2. \A b : b \in Holding(p, u) <=> \E a \in Holding(m, u) : b = q(a)
    <3>1. ASSUME NEW b \in Holding(p, u) PROVE \E a \in Holding(m, u) : b = q(a)
      <4>1. b \in Headers(p) /\ p[b] = u
        BY DEF Holding
      <4>2. PICK a \in Others(m, t) : b = q(a)
        BY <1>1, <4>1
      <4>3. m[a] = u
        BY <1>1, <4>1, <4>2
      <4> QED BY <2>1, <4>2, <4>3
    <3>2. ASSUME NEW a \in Holding(m, u) PROVE q(a) \in Holding(p, u)
      <4>1. a \in Others(m, t) /\ m[a] = u
        BY <2>1
      <4>2. q(a) \in Headers(p) /\ IsTagOk(p, q(a)) /\ p[q(a)] = u
        BY <1>1, <4>1
      <4> QED BY <4>2 DEF Holding
    <3> QED BY <3>1, <3>2
  <2>3. CASE Holding(m, u) = {}
    <3>1. Holding(p, u) = {}
      BY <2>2, <2>3
    <3> QED BY <2>3, <3>1 DEF View
  <2>4. CASE Holding(m, u) # {}
    <3> DEFINE a == Min(Holding(m, u))
               b == Min(Holding(p, u))
    <3>1. a \in Holding(m, u) /\ \A x \in Holding(m, u) : a <= x
      <4>1. Holding(m, u) \in SUBSET Nat
        BY HoldingLemma
      <4> QED BY <2>4, <4>1, MinLemma
    <3>2. Holding(p, u) # {}
      BY <2>2, <3>1
    <3>3. b \in Holding(p, u) /\ \A x \in Holding(p, u) : b <= x
      <4>1. Holding(p, u) \in SUBSET Nat
        BY <1>1, HoldingLemma
      <4> QED BY <3>2, <4>1, MinLemma
    <3> HIDE DEF a, b
    <3>4. PICK c \in Holding(m, u) : b = q(c)
      BY <2>2, <3>3
    <3>5. /\ a \in Others(m, t) /\ c \in Others(m, t) /\ a \in Nat /\ c \in Nat
          /\ q(a) \in Nat /\ q(c) \in Nat /\ a <= c /\ q(c) <= q(a)
      <4>1. q(a) \in Holding(p, u)
        BY <2>2, <3>1
      <4>2. a \in Others(m, t) /\ c \in Others(m, t)
        BY <2>1, <3>1, <3>4
      <4>3. a \in Nat /\ c \in Nat /\ q(a) \in Nat /\ q(c) \in Nat
        BY <1>6, <4>2
      <4> QED BY <3>1, <3>3, <3>4, <4>1, <4>2, <4>3
    <3>6. a = c
      <4>1. ~ (a < c)
        <5>1. a < c => q(a) < q(c)
          BY <1>2, <3>5
        <5> QED BY <3>5, <5>1
      <4> QED BY <3>5, <4>1
    <3>7. Content(p, b) = Content(m, a)
      BY <1>1, <3>4, <3>5, <3>6
    <3>8. View(p, u) = Content(p, b) /\ View(m, u) = Content(m, a)
      BY <2>4, <3>2 DEF View, a, b
    <3> QED BY <3>7, <3>8
  <2> QED BY <2>3, <2>4
<1>8. ASSUME One(m) PROVE One(p)
  <2>o. \A x \in Headers(p) : p[x] \in Tags
    BY <1>1, <1>8 DEF One, Others
  <2> SUFFICES ASSUME NEW x \in Headers(p), NEW y \in Headers(p), p[x] = p[y] PROVE x = y
    BY <2>o DEF One
  <2>1. PICK a \in Others(m, t) : x = q(a)
    BY <1>1
  <2>2. PICK b \in Others(m, t) : y = q(b)
    BY <1>1
  <2>3. m[a] = m[b]
    BY <1>1, <2>1, <2>2
  <2>4. IsTagOk(m, a) /\ IsTagOk(m, b) /\ a \in Headers(m) /\ b \in Headers(m)
    BY DEF Others
  <2> QED BY <1>8, <2>1, <2>2, <2>3, <2>4 DEF One
<1> QED BY <1>1, <1>4, <1>5, <1>7, <1>8 DEF p, q, N

-----------------------------------------------------------------------------
(* The accesses of a call.                                                 *)

Piece(g, a, b) == [i \in 1 .. b - a |-> g[a + (i - 1)]]

LEMMA PieceLemma ==
    ASSUME NEW S, NEW g \in [Nat -> S], NEW a \in Nat, NEW b \in Nat, a <= b
    PROVE  /\ Piece(g, a, b) \in Seq(S) /\ Len(Piece(g, a, b)) = b - a
           /\ \A i \in 1 .. b - a : Piece(g, a, b)[i] = g[a + (i - 1)]
<1>1. b - a \in Nat /\ \A i \in 1 .. b - a : a + (i - 1) \in Nat
  OBVIOUS
<1>2. \A i \in 1 .. b - a : g[a + (i - 1)] \in S
  BY <1>1
<1>3. Piece(g, a, b) \in Seq(S)
  BY <1>1, <1>2 DEF Piece
<1>4. Len(Piece(g, a, b)) = b - a
  BY <1>1 DEF Piece
<1>5. \A i \in 1 .. b - a : Piece(g, a, b)[i] = g[a + (i - 1)]
  BY DEF Piece
<1> QED BY <1>3, <1>4, <1>5

LEMMA PieceJoin ==
    ASSUME NEW S, NEW g \in [Nat -> S], NEW a \in Nat, NEW b \in Nat, NEW c \in Nat, a <= b, b <= c
    PROVE  Piece(g, a, b) \o Piece(g, b, c) = Piece(g, a, c)
<1> DEFINE P == Piece(g, a, b)
           Q == Piece(g, b, c)
           R == Piece(g, a, c)
<1>1. a <= c
  OBVIOUS
<1>2. P \in Seq(S) /\ Len(P) = b - a /\ \A i \in 1 .. b - a : P[i] = g[a + (i - 1)]
  <2>1. P \in Seq(S)
    BY PieceLemma
  <2>2. Len(P) = b - a
    BY PieceLemma
  <2>3. \A i \in 1 .. b - a : P[i] = g[a + (i - 1)]
    BY DEF Piece
  <2> QED BY <2>1, <2>2, <2>3
<1>3. Q \in Seq(S) /\ Len(Q) = c - b /\ \A i \in 1 .. c - b : Q[i] = g[b + (i - 1)]
  <2>1. Q \in Seq(S)
    BY PieceLemma
  <2>2. Len(Q) = c - b
    BY PieceLemma
  <2>3. \A i \in 1 .. c - b : Q[i] = g[b + (i - 1)]
    BY DEF Piece
  <2> QED BY <2>1, <2>2, <2>3
<1>4. R \in Seq(S) /\ Len(R) = c - a /\ \A i \in 1 .. c - a : R[i] = g[a + (i - 1)]
  <2>1. R \in Seq(S)
    BY <1>1, PieceLemma
  <2>2. Len(R) = c - a
    BY <1>1, PieceLemma
  <2>3. \A i \in 1 .. c - a : R[i] = g[a + (i - 1)]
    BY DEF Piece
  <2> QED BY <2>1, <2>2, <2>3
<1> HIDE DEF P, Q, R
<1>5. P \o Q \in Seq(S) /\ Len(P \o Q) = c - a
  <2>1. P \in Seq(S) /\ Q \in Seq(S)
    BY <1>2, <1>3
  <2>2. P \o Q \in Seq(S) /\ Len(P \o Q) = Len(P) + Len(Q)
    BY <2>1
  <2>3. Len(P) + Len(Q) = c - a
    BY <1>2, <1>3
  <2> QED BY <2>2, <2>3
<1>6. ASSUME NEW i \in 1 .. c - a PROVE (P \o Q)[i] = R[i]
  <2>1. CASE i <= b - a
    <3>1. i \in 1 .. b - a
      BY <2>1
    <3>2. (P \o Q)[i] = P[i]
      BY <1>2, <1>3, <3>1
    <3> QED BY <1>2, <1>4, <3>1, <3>2
  <2>2. CASE ~ (i <= b - a)
    <3> DEFINE j == i - (b - a)
    <3>1. j \in 1 .. c - b /\ b + (j - 1) = a + (i - 1)
      BY <2>2
    <3>2. (P \o Q)[i] = Q[j]
      BY <1>2, <1>3, <2>2
    <3> HIDE DEF j
    <3>3. Q[j] = g[b + (j - 1)]
      BY <1>3, <3>1
    <3> QED BY <1>4, <3>1, <3>2, <3>3
  <2> QED BY <2>1, <2>2
<1>7. P \o Q = R
  <2> DEFINE s == P \o Q
  <2>1. s \in Seq(S) /\ Len(s) = Len(R) /\ \A i \in 1 .. Len(s) : s[i] = R[i]
    BY <1>4, <1>5, <1>6
  <2> HIDE DEF s
  <2>2. s = R
    BY <1>4, <2>1, SeqEqual
  <2> QED BY <2>2 DEF s
<1> QED BY <1>7 DEF P, Q, R

\* The accesses that write f, as a function of the numbers of their bytes.
Writes(f, e, l) ==
    [k \in Nat |-> [op |-> "program", at |-> Spot(e, l, k), byte |-> f[Spot(e, l, k)]]]

LEMMA RestLemma ==
    ASSUME NEW f, NEW e, NEW l
    PROVE  /\ Writes(f, e, l) \in [Nat -> {Writes(f, e, l)[k] : k \in Nat}]
           /\ \A a \in Nat, b \in Nat : Rest(f, e, l, a, b) = Piece(Writes(f, e, l), a, b)
<1> DEFINE g == Writes(f, e, l)
<1>1. g = [k \in Nat |-> [op |-> "program", at |-> Spot(e, l, k), byte |-> f[Spot(e, l, k)]]]
  BY DEF Writes
<1>2. g \in [Nat -> {g[k] : k \in Nat}]
  BY <1>1
<1> HIDE DEF g
<1>3. ASSUME NEW a \in Nat, NEW b \in Nat PROVE Rest(f, e, l, a, b) = Piece(g, a, b)
  <2>1. ASSUME NEW i \in 1 .. b - a
        PROVE  g[a + (i - 1)] = [op |-> "program", at |-> Spot(e, l, a + i - 1),
                                 byte |-> f[Spot(e, l, a + i - 1)]]
    <3>1. a + (i - 1) \in Nat /\ a + i - 1 = a + (i - 1)
      OBVIOUS
    <3> QED BY <1>1, <3>1
  <2> QED BY <2>1, Zenon DEF Rest, Piece
<1> QED BY <1>2, <1>3 DEF g

\* The two parts of the writing follow each other.
LEMMA RestJoin ==
    ASSUME NEW f, NEW e, NEW l, NEW a \in Nat, NEW b \in Nat, NEW c \in Nat, a <= b, b <= c
    PROVE  Rest(f, e, l, a, b) \o Rest(f, e, l, b, c) = Rest(f, e, l, a, c)
<1> DEFINE g == Writes(f, e, l)
<1>1. Piece(g, a, b) \o Piece(g, b, c) = Piece(g, a, c)
  <2>1. g \in [Nat -> {g[k] : k \in Nat}]
    BY RestLemma
  <2> HIDE DEF g
  <2> QED BY <2>1, PieceJoin
<1>2. /\ Rest(f, e, l, a, b) = Piece(g, a, b) /\ Rest(f, e, l, b, c) = Piece(g, b, c)
      /\ Rest(f, e, l, a, c) = Piece(g, a, c)
  BY RestLemma
<1> QED BY <1>1, <1>2

LEMMA RestElement ==
    ASSUME NEW f, NEW e, NEW l, NEW a \in Nat, NEW b \in Nat, a <= b
    PROVE  /\ Rest(f, e, l, a, b) \in Seq({Writes(f, e, l)[k] : k \in Nat})
           /\ Len(Rest(f, e, l, a, b)) = b - a
           /\ \A i \in 1 .. b - a : Rest(f, e, l, a, b)[i] = Writes(f, e, l)[a + (i - 1)]
<1> DEFINE g == Writes(f, e, l)
           S == {g[k] : k \in Nat}
<1>1. g \in [Nat -> S] /\ Rest(f, e, l, a, b) = Piece(g, a, b)
  BY RestLemma
<1> HIDE DEF g, S
<1>2. Piece(g, a, b) \in Seq(S)
  BY <1>1, PieceLemma
<1>3. Len(Piece(g, a, b)) = b - a
  BY <1>1, PieceLemma
<1>4. \A i \in 1 .. b - a : Piece(g, a, b)[i] = g[a + (i - 1)]
  BY DEF Piece
<1> QED BY <1>1, <1>2, <1>3, <1>4 DEF g, S

\* The bytes a to b of f, in the order of the writing, are these, from the address c on.
Spells(f, e, l, a, b, c, bytes) ==
    /\ Len(bytes) = b - a
    /\ \A i \in 1 .. b - a : Spot(e, l, a + i - 1) = c + i - 1 /\ bytes[i] = f[c + i - 1]

LEMMA ProgramLemma ==
    ASSUME NEW f, NEW e, NEW l, NEW a, NEW b, NEW c, NEW bytes, Spells(f, e, l, a, b, c, bytes)
    PROVE  Program(c, bytes) = Rest(f, e, l, a, b)
<1>1. \A i \in 1 .. b - a :
         [op |-> "program", at |-> c + i - 1, byte |-> bytes[i]]
       = [op |-> "program", at |-> Spot(e, l, a + i - 1), byte |-> f[Spot(e, l, a + i - 1)]]
  BY DEF Spells
<1>2. Len(bytes) = b - a
  BY DEF Spells
<1> QED BY <1>1, <1>2, Zenon DEF Program, Rest

\* The tag at e of f.
TagAt(f, e, t, v, l) ==
    /\ e \in Nat /\ v \in Seq(Byte) /\ l \in Nat /\ Len(v) = l
    /\ f[e] = t /\ f[e + 1] = 6 /\ f[e + 2] = l /\ \A i \in 1 .. l : f[e + 2 + i] = v[i]

\* A new tag is written in the order of the bytes, but for its header.
LEMMA NewTagLemma ==
    ASSUME NEW f, NEW e, NEW t, NEW v, NEW l, TagAt(f, e, t, v, l)
    PROVE  NewTag(e, t, v) = Rest(f, e, l, e, e + 3 + l)
<1>0. /\ e \in Nat /\ v \in Seq(Byte) /\ l \in Nat /\ Len(v) = l
      /\ f[e] = t /\ f[e + 1] = 6 /\ f[e + 2] = l /\ \A i \in 1 .. l : f[e + 2 + i] = v[i]
  BY DEF TagAt
<1> USE <1>0
<1> DEFINE p == e + l
           q == e + 3 + l
           h == <<t, 6, l>>
<1>1. p \in Nat /\ q \in Nat /\ e <= p /\ p <= q
  OBVIOUS
<1>a. p - e = l /\ q - p = 3
  OBVIOUS
<1>2. ASSUME NEW i \in 1 .. l
      PROVE  Spot(e, l, e + i - 1) = (e + 3) + i - 1 /\ v[i] = f[(e + 3) + i - 1]
  <2>1. e + 2 + i = (e + 3) + i - 1
    OBVIOUS
  <2>2. Spot(e, l, e + i - 1) = (e + 3) + i - 1
    BY DEF Spot
  <2> QED BY <2>1, <2>2
<1>3. ASSUME NEW i \in 1 .. 3
      PROVE  Spot(e, l, p + i - 1) = e + i - 1 /\ h[i] = f[e + i - 1]
  <2>1. Spot(e, l, p + i - 1) = e + i - 1
    BY DEF Spot
  <2>2. i = 1 \/ i = 2 \/ i = 3
    OBVIOUS
  <2>3. h[1] = t /\ h[2] = 6 /\ h[3] = l /\ e + 1 - 1 = e /\ e + 2 - 1 = e + 1 /\ e + 3 - 1 = e + 2
    OBVIOUS
  <2> QED BY <2>1, <2>2, <2>3
<1>4. Len(h) = 3
  OBVIOUS
<1>5. NewTag(e, t, v) = Program(e + 3, v) \o Program(e, h)
  BY DEF NewTag, Hdr, NotLocked, NotErased
<1> HIDE DEF p, q, h
<1>6. Program(e + 3, v) = Rest(f, e, l, e, p)
  <2>1. /\ Len(v) = p - e
        /\ \A i \in 1 .. p - e : Spot(e, l, e + i - 1) = (e + 3) + i - 1 /\ v[i] = f[(e + 3) + i - 1]
    BY <1>a, <1>2
  <2>2. Spells(f, e, l, e, p, e + 3, v)
    BY <2>1 DEF Spells
  <2> QED BY <2>2, ProgramLemma
<1>7. Program(e, h) = Rest(f, e, l, p, q)
  <2>1. Len(h) = q - p /\ \A i \in 1 .. q - p : Spot(e, l, p + i - 1) = e + i - 1 /\ h[i] = f[e + i - 1]
    BY <1>a, <1>3, <1>4
  <2>2. Spells(f, e, l, p, q, e, h)
    BY <2>1 DEF Spells
  <2> QED BY <2>2, ProgramLemma
<1>8. Rest(f, e, l, e, p) \o Rest(f, e, l, p, q) = Rest(f, e, l, e, q)
  BY <1>1, RestJoin, Zenon
<1> QED BY <1>5, <1>6, <1>7, <1>8 DEF q

\* The accesses that erase the sector and write n bytes of f.
Renew(f, e, l, n) == <<Erase>> \o Rest(f, e, l, 0, n)

LEMMA RenewJoin ==
    ASSUME NEW f, NEW e, NEW l, NEW a \in Nat, NEW b \in Nat, a <= b
    PROVE  Renew(f, e, l, a) \o Rest(f, e, l, a, b) = Renew(f, e, l, b)
<1> DEFINE S == {Writes(f, e, l)[k] : k \in Nat} \union {Erase}
           P == Rest(f, e, l, 0, a)
           Q == Rest(f, e, l, a, b)
           I == <<Erase>>
<1>1. P \in Seq({Writes(f, e, l)[k] : k \in Nat}) /\ Q \in Seq({Writes(f, e, l)[k] : k \in Nat})
  BY RestElement
<1>2. I \in Seq(S) /\ P \in Seq(S) /\ Q \in Seq(S)
  <2> DEFINE U == {Writes(f, e, l)[k] : k \in Nat}
  <2>1. U \subseteq S /\ Erase \in S
    OBVIOUS
  <2>2. P \in Seq(U) /\ Q \in Seq(U)
    BY <1>1
  <2> HIDE DEF U, S, P, Q
  <2>3. P \in Seq(S) /\ Q \in Seq(S)
    BY <2>1, <2>2, SeqMonotonic
  <2>4. I \in Seq(S)
    BY <2>1
  <2> QED BY <2>3, <2>4
<1>3. P \o Q = Rest(f, e, l, 0, b)
  <2>1. 0 \in Nat /\ 0 <= a
    OBVIOUS
  <2> QED BY <2>1, RestJoin, Zenon
<1> HIDE DEF S, P, Q, I
<1>4. (I \o P) \o Q = I \o (P \o Q)
  BY <1>2, ConcatAssociative
<1> QED BY <1>3, <1>4 DEF Renew, P, Q, I

\* The sector is erased and written again from its beginning.
LEMMA SectorLemma ==
    ASSUME NEW f, NEW e \in Nat, 1 <= e, NEW l, f[0] = Magic,
           NEW bytes \in Seq(Byte), Len(bytes) = e - 1, \A i \in 1 .. e - 1 : bytes[i] = f[i]
    PROVE  /\ Format = Renew(f, e, l, 1)
           /\ Format \o Program(Start, bytes) = Renew(f, e, l, e)
<1> DEFINE h == <<Magic>>
<1>1. Format = <<Erase>> \o Program(0, h)
  BY DEF Format
<1>2. Len(h) = 1 /\ h[1] = Magic
  OBVIOUS
<1> HIDE DEF h
<1>3. Program(0, h) = Rest(f, e, l, 0, 1)
  <2>1. ASSUME NEW i \in 1 .. 1 - 0 PROVE Spot(e, l, 0 + i - 1) = 0 + i - 1 /\ h[i] = f[0 + i - 1]
    <3>1. i = 1 /\ 0 + i - 1 = 0
      OBVIOUS
    <3>2. Spot(e, l, 0) = 0
      BY DEF Spot
    <3> QED BY <1>2, <3>1, <3>2
  <2>2. Len(h) = 1 - 0
    BY <1>2
  <2>3. Spells(f, e, l, 0, 1, 0, h)
    BY <2>1, <2>2, Zenon DEF Spells
  <2> QED BY <2>3, ProgramLemma
<1>4. Program(1, bytes) = Rest(f, e, l, 1, e)
  <2>1. ASSUME NEW i \in 1 .. e - 1
        PROVE  Spot(e, l, 1 + i - 1) = 1 + i - 1 /\ bytes[i] = f[1 + i - 1]
    <3>1. 1 + i - 1 = i /\ i < e
      OBVIOUS
    <3>2. Spot(e, l, i) = i
      BY <3>1 DEF Spot
    <3> QED BY <3>1, <3>2
  <2>2. Spells(f, e, l, 1, e, 1, bytes)
    BY <2>1 DEF Spells
  <2> QED BY <2>2, ProgramLemma
<1>5. Format = Renew(f, e, l, 1)
  BY <1>1, <1>3 DEF Renew
<1>6. Renew(f, e, l, 1) \o Rest(f, e, l, 1, e) = Renew(f, e, l, e)
  BY RenewJoin
<1> QED BY <1>4, <1>5, <1>6 DEF Start

\* What a tag holds, and what nvds_get finds.
LEMMA ContentLemma ==
    ASSUME NEW m \in Flashes
    PROVE  /\ \A a \in Headers(m) : Content(m, a) \in [value : Seq(Byte), locked : BOOLEAN]
           /\ \A t : View(m, t) \in Contents
<1>1. ASSUME NEW a \in Headers(m)
      PROVE  Content(m, a) \in [value : Seq(Byte), locked : BOOLEAN]
  <2>1. a \in Nat /\ Behind(m, a) <= Size - 1 /\ Behind(m, a) = a + FullLength(m, a)
        /\ FullLength(m, a) = 3 + m[a + 2] /\ m[a + 2] \in 0 .. 7
    BY EndLemma, BehindLemma, PlacesLemma
  <2>2. m[a + 2] \in Nat /\ \A i \in 1 .. m[a + 2] : a + 2 + i \in 0 .. Sector - 1
    BY <2>1, PlacesLemma
  <2>3. \A i \in 1 .. m[a + 2] : m[a + 2 + i] \in Byte
    BY <2>2 DEF Flashes
  <2>4. Data(m, a) \in Seq(Byte)
    <3> DEFINE l == m[a + 2]
    <3>1. l \in Nat /\ \A i \in 1 .. l : m[a + 2 + i] \in Byte
      BY <2>2, <2>3
    <3>2. Data(m, a) = [i \in 1 .. l |-> m[a + 2 + i]]
      BY DEF Data
    <3> HIDE DEF l
    <3> QED BY <3>1, <3>2
  <2>5. IsLocked(m, a) \in BOOLEAN
    BY DEF IsLocked
  <2> QED BY <2>4, <2>5 DEF Content
<1>2. ASSUME NEW t PROVE View(m, t) \in Contents
  <2>1. CASE Holding(m, t) = {}
    BY <2>1 DEF View, Contents
  <2>2. CASE Holding(m, t) # {}
    <3>1. Min(Holding(m, t)) \in Headers(m)
      BY <2>2, HoldingLemma, MinLemma
    <3> QED BY <2>2, <3>1, <1>1 DEF View, Contents
  <2> QED BY <2>1, <2>2
<1> QED BY <1>1, <1>2

\* The status of a tag is programmed by one access.
LEMMA StatusLemma ==
    ASSUME flash \in Flashes, NEW a \in Headers(flash)
    PROVE  /\ SetErased(a) \in Programs /\ SetErased(a).at = a + 1
           /\ SetErased(a).byte = And(flash[a + 1], 3)
           /\ SetLocked(a) \in Programs /\ SetLocked(a).at = a + 1
           /\ SetLocked(a).byte = And(flash[a + 1], 5)
<1>1. a \in Places /\ a \in Nat /\ a + 1 \in 0 .. Sector - 1 /\ flash[a + 1] \in 0 .. 7
  <2>1. a \in Places /\ a + 3 <= Behind(flash, a) /\ Behind(flash, a) <= Size - 1
    BY EndLemma
  <2>2. Behind(flash, a) \in Nat /\ flash[a + 1] \in 0 .. 7
    BY <2>1, BehindLemma
  <2>3. a \in Nat
    BY <2>1, PlacesLemma
  <2> QED BY <2>1, <2>2, <2>3, PlacesLemma
<1>2. And(flash[a + 1], 3) \in Byte /\ And(flash[a + 1], 5) \in Byte
  BY <1>1, AndLemma, PlacesLemma
<1>3. Blank - NotErased = 3 /\ Blank - NotLocked = 5
  BY DEF Blank, NotErased, NotLocked
<1> QED BY <1>1, <1>2, <1>3 DEF SetErased, SetLocked, Programs, Accesses

LEMMA EraseAllLemma ==
    ASSUME flash \in Flashes, NEW H \in SUBSET Headers(flash)
    PROVE  /\ EraseAll(H) \in Seq(Programs)
           /\ \A i \in 1 .. Len(EraseAll(H)) : \E a \in H : EraseAll(H)[i] = SetErased(a)
           /\ H = {} => EraseAll(H) = << >>
           /\ \A a : H = {a} => EraseAll(H) = <<SetErased(a)>>
<1>1. H \in SUBSET Nat /\ IsFiniteSet(H)
  <2>1. Headers(flash) \subseteq Places /\ Places = 1 .. Size /\ Size \in Nat
    BY EndLemma, PlacesLemma DEF Places
  <2>2. IsFiniteSet(1 .. Size)
    BY <2>1, FS_Interval
  <2>3. H \subseteq 1 .. Size
    BY <2>1
  <2>4. IsFiniteSet(H)
    BY <2>2, <2>3, FS_Subset
  <2> QED BY <2>1, <2>3, <2>4
<1> DEFINE n == Cardinality(H)
           s == EraseAll(H)
<1>2. n \in Nat /\ \A i \in 1 .. n : Ascending(H)[i] \in H
  BY <1>1, UptoLemma, AscendingLemma
<1>3. \A i \in 1 .. n : SetErased(Ascending(H)[i]) \in Programs
  BY <1>2, StatusLemma
<1>4. s = [i \in 1 .. n |-> SetErased(Ascending(H)[i])]
  BY DEF EraseAll
<1> HIDE DEF n, s
<1>5. s \in Seq(Programs)
  BY <1>2, <1>3, <1>4
<1>6. Len(s) = n
  BY <1>2, <1>4
<1>7. \A i \in 1 .. n : s[i] = SetErased(Ascending(H)[i])
  BY <1>4
<1>8. H = {} => s = << >>
  <2> SUFFICES ASSUME H = {} PROVE s = << >>
    OBVIOUS
  <2>1. n = 0
    BY FS_EmptySet DEF n
  <2> QED BY <1>5, <1>6, <2>1
<1>9. ASSUME NEW a, H = {a} PROVE s = <<SetErased(a)>>
  <2>1. n = 1
    BY <1>9, FS_Singleton DEF n
  <2>2. s[1] = SetErased(a)
    BY <1>2, <1>7, <1>9, <2>1
  <2> QED BY <1>5, <1>6, <2>1, <2>2
<1> QED BY <1>2, <1>5, <1>6, <1>7, <1>8, <1>9 DEF s

\* nvds_purge writes the sector as Packed has it.
LEMMA PurgeAccesses ==
    ASSUME flash \in Flashes, NEW t, NEW f, NEW l, NEW e, e = Start + Total(t),
           \A x \in 0 .. Sector - 1 : x < e => f[x] = Packed(flash, t)[x]
    PROVE  Purge(t) = Renew(f, e, l, e)
<1> DEFINE K == KeptOf(flash, t)
           n == Cardinality(K)
           bytes == [i \in 1 .. n |-> flash[Ascending(K)[i]]]
<1>1. K = Kept(t) /\ n = Total(t)
  BY DEF KeptOf, Kept, Total
<1>2. K \in SUBSET Nat /\ IsFiniteSet(K) /\ n \in Nat /\ n <= Size - 2 /\ \A x \in K : 1 <= x /\ x <= Size - 2
  BY KeptLemma
<1>3. \A i \in 1 .. n : Ascending(K)[i] \in K
  BY <1>2, AscendingLemma
<1>4. e = 1 + n /\ e \in Nat /\ 1 <= e /\ e - 1 = n
  BY <1>1, <1>2 DEF Start
<1>5. f[0] = Magic /\ \A i \in 1 .. n : f[i] = flash[Ascending(K)[i]]
  <2>1. \A i \in 0 .. n : i \in 0 .. Sector - 1 /\ i < e
    BY <1>2, <1>4, PlacesLemma
  <2>2. \A i \in 1 .. n : i # 0 /\ i <= n /\ i \in 0 .. n
    BY <1>2
  <2>3. 0 \in 0 .. n
    BY <1>2
  <2> QED BY <2>1, <2>2, <2>3, Zenon DEF Packed
<1>6. \A i \in 1 .. n : flash[Ascending(K)[i]] \in Byte
  <2>1. \A x \in K : x \in 0 .. Sector - 1
    BY <1>2, PlacesLemma
  <2> QED BY <1>3, <2>1 DEF Flashes
<1>7. Purge(t) = Format \o Program(Start, bytes)
  BY <1>1 DEF Purge
<1> HIDE DEF K, n
<1>8. bytes \in Seq(Byte)
  BY <1>2, <1>6
<1>9. Len(bytes) = e - 1
  BY <1>2, <1>4
<1>10. \A i \in 1 .. e - 1 : bytes[i] = f[i]
  BY <1>4, <1>5
<1> HIDE DEF bytes
<1> QED BY <1>4, <1>5, <1>7, <1>8, <1>9, <1>10, SectorLemma

\* The first access of two sequences, one after the other.
LEMMA HeadTailLemma ==
    ASSUME NEW U, NEW s \in Seq(U), NEW r \in Seq(U), s # << >>
    PROVE  /\ s \o r # << >> /\ Head(s \o r) = s[1] /\ s[1] \in U
           /\ Tail(s) \in Seq(U) /\ Len(Tail(s)) = Len(s) - 1
           /\ Tail(s \o r) = Tail(s) \o r
<1>1. Len(s) \in Nat /\ Len(s) > 0 /\ Len(r) \in Nat
  OBVIOUS
<1>2. s \o r \in Seq(U) /\ Len(s \o r) = Len(s) + Len(r)
  OBVIOUS
<1>3. s \o r # << >>
  BY <1>1, <1>2
<1>4. Head(s \o r) = s[1] /\ s[1] \in U
  <2>1. (s \o r)[1] = s[1]
    BY <1>1
  <2> QED BY <1>1, <1>2, <1>3, <2>1
<1>5. Tail(s) \in Seq(U) /\ Len(Tail(s)) = Len(s) - 1
  BY <1>1
<1>6. Tail(s \o r) = Tail(s) \o r
  <2> DEFINE p == Tail(s \o r)
             q == Tail(s) \o r
  <2>1. p \in Seq(U)
    BY <1>2, <1>3
  <2>2. Len(p) = Len(s) + Len(r) - 1
    BY <1>2, <1>3
  <2>3. q \in Seq(U)
    BY <1>5
  <2>4. Len(q) = Len(s) + Len(r) - 1
    BY <1>1, <1>5
  <2>5. ASSUME NEW i \in 1 .. Len(s) + Len(r) - 1 PROVE p[i] = q[i]
    <3>1. p[i] = (s \o r)[i + 1]
      BY <1>1, <1>2, <1>3
    <3>2. CASE i < Len(s)
      <4>1. (s \o r)[i + 1] = s[i + 1]
        BY <1>1, <3>2
      <4>2. Tail(s)[i] = s[i + 1]
        BY <1>1, <3>2
      <4>3. q[i] = Tail(s)[i]
        BY <1>1, <1>5, <3>2
      <4> QED BY <3>1, <4>1, <4>2, <4>3
    <3>3. CASE ~ (i < Len(s))
      <4>1. (s \o r)[i + 1] = r[i + 1 - Len(s)]
        BY <1>1, <3>3
      <4>2. q[i] = r[i - (Len(s) - 1)]
        BY <1>1, <1>5, <3>3
      <4>3. i - (Len(s) - 1) = i + 1 - Len(s)
        BY <1>1
      <4> QED BY <3>1, <4>1, <4>2, <4>3
    <3> QED BY <3>2, <3>3
  <2> HIDE DEF p, q
  <2>6. p = q
    BY <2>1, <2>2, <2>3, <2>4, <2>5, SeqEqual
  <2> QED BY <2>6 DEF p, q
<1> QED BY <1>3, <1>4, <1>5, <1>6

LEMMA RenewLemma ==
    ASSUME NEW f \in Flashes, NEW e \in Nat, NEW l \in Nat, NEW n \in Nat,
           n \in {e, e + 3 + l}, n <= Size
    PROVE  /\ Renew(f, e, l, n) \in Seq(Accesses) /\ Renew(f, e, l, n) # << >>
           /\ Head(Renew(f, e, l, n)) = Erase /\ Tail(Renew(f, e, l, n)) = Rest(f, e, l, 0, n)
           /\ \E i \in 1 .. Len(Renew(f, e, l, n)) : Renew(f, e, l, n)[i] = Erase
<1> DEFINE I == <<Erase>>
           R == Rest(f, e, l, 0, n)
<1>1. R \in Seq(Programs)
  BY PartLemma
<1>2. R \in Seq(Accesses)
  <2>1. Programs \subseteq Accesses
    BY DEF Programs
  <2> QED BY <1>1, <2>1, SeqMonotonic
<1>3. Erase \in Accesses
  BY PlacesLemma DEF Erase, Accesses
<1>4. I \in Seq(Accesses) /\ I # << >> /\ I[1] = Erase /\ Tail(I) = << >> /\ Len(I) = 1
  BY <1>3
<1>5. Renew(f, e, l, n) = I \o R
  BY DEF Renew
<1> HIDE DEF I, R
<1>6. I \o R \in Seq(Accesses) /\ I \o R # << >>
  BY <1>2, <1>4
<1>7. Head(I \o R) = Erase
  BY <1>2, <1>4, HeadTailLemma
<1>8. Tail(I \o R) = << >> \o R
  BY <1>2, <1>4, HeadTailLemma
<1>9. << >> \o R = R
  BY <1>2, ConcatEmptySeq
<1>10. 1 \in 1 .. Len(I \o R) /\ (I \o R)[1] = Erase
  BY <1>2, <1>4
<1> QED BY <1>5, <1>6, <1>7, <1>8, <1>9, <1>10 DEF R

-----------------------------------------------------------------------------
(* A flash that a call writes.                                             *)

Cleared == [a \in 0 .. Sector - 1 |-> Blank]

\* Before the first byte is written the sector is blank, behind the last one it is f.
LEMMA EndsLemma ==
    ASSUME NEW f \in Flashes, NEW c, NEW e, NEW l, NEW n, Plan(f, c, e, l, n)
    PROVE  /\ e \in Nat /\ l \in Nat /\ n \in Nat /\ n \in {e, e + 3 + l} /\ n <= Size /\ n <= Size - 1
           /\ 1 <= e /\ e <= n
           /\ Part(f, e, l, 0) = Cleared /\ Part(f, e, l, n) = f
<1>1. /\ e \in Nat /\ l \in Nat /\ n \in Nat /\ n \in {e, e + 3 + l} /\ n <= Size /\ n <= Size - 1
      /\ 1 <= e /\ e <= n
  <2>1. e \in Places /\ l \in 0 .. 6 /\ n \in {e, e + 3 + l} /\ n <= Size - 1
    BY WalkLemma DEF Plan
  <2>2. e \in Nat /\ 1 <= e
    BY <2>1, PlacesLemma DEF Places
  <2> QED BY <2>1, <2>2, PlacesLemma
<1>2. ASSUME NEW x \in 0 .. Sector - 1
      PROVE  /\ x \in Nat /\ Rank(e, l, x) \in Nat /\ (Rank(e, l, x) < n <=> x < n)
             /\ (x >= n => f[x] = Blank)
  <2>1. x \in Nat
    OBVIOUS
  <2>2. Rank(e, l, x) \in Nat /\ (Rank(e, l, x) < n <=> x < n)
    BY <1>1, <2>1, SpotLemma
  <2> QED BY <2>1, <2>2 DEF Plan
<1>3. Part(f, e, l, 0) = Cleared
  <2>1. \A x \in 0 .. Sector - 1 : ~ (Rank(e, l, x) < 0)
    BY <1>2
  <2> QED BY <2>1 DEF Part, Cleared
<1>4. Part(f, e, l, n) = f
  <2>1. \A x \in 0 .. Sector - 1 : (IF Rank(e, l, x) < n THEN f[x] ELSE Blank) = f[x]
    BY <1>1, <1>2
  <2>2. Part(f, e, l, n) = [x \in 0 .. Sector - 1 |-> f[x]]
    BY <2>1 DEF Part
  <2> QED BY <2>2 DEF Flashes
<1> QED BY <1>1, <1>3, <1>4

\* A flash in which nothing is written behind the last tag.
LEMMA KeepLemma ==
    ASSUME NEW m \in Flashes, Tidy(m), NEW t, Holding(m, t) = {}
    PROVE  Plan(m, t, End(m), 0, End(m))
<1>1. End(m) \in Walk(m) /\ End(m) <= Size - 1 /\ End(m) \in Nat
  BY EndLemma DEF Tidy
<1>2. \A a \in Headers(m) : m[a] = t => ~IsTagOk(m, a)
  BY DEF Holding
<1> QED BY <1>1, <1>2 DEF Plan, Tidy

\* The flash after nvds_init_memory.
Formatted == [a \in 0 .. Sector - 1 |-> IF a = 0 THEN Magic ELSE Blank]

LEMMA FormattedLemma ==
    /\ Formatted \in Flashes /\ Tidy(Formatted) /\ One(Formatted) /\ End(Formatted) = 1
    /\ \A t : Holding(Formatted, t) = {} /\ View(Formatted, t) = Absent
    /\ Format = Renew(Formatted, 1, 0, 1)
<1> DEFINE m == Formatted
<1>1. m \in Flashes /\ m[0] = Magic /\ \A x \in 0 .. Sector - 1 : x >= 1 => m[x] = Blank
  BY PlacesLemma DEF Formatted, Flashes
<1>2. Start \in Walk(m) /\ Start \in Places /\ Start = 1 /\ 1 \in 0 .. Sector - 1
  BY <1>1, WalkLemma, PlacesLemma
<1> HIDE DEF m
<1>3. Stops(m, 1)
  BY <1>1, <1>2 DEF Stops
<1>4. End(m) = 1
  BY <1>1, <1>2, <1>3, EndLemma
<1>5. Headers(m) = {}
  <2>1. ASSUME NEW a \in Headers(m) PROVE FALSE
    <3>1. a \in Places /\ a + 3 <= Behind(m, a) /\ Behind(m, a) <= 1 /\ Behind(m, a) \in Nat
      BY <1>1, <1>4, EndLemma, BehindLemma
    <3> QED BY <3>1, PlacesLemma DEF Places
  <2> QED BY <2>1
<1>6. Tidy(m)
  BY <1>1, <1>4, PlacesLemma DEF Tidy
<1>7. One(m)
  BY <1>5 DEF One
<1>8. ASSUME NEW t PROVE Holding(m, t) = {} /\ View(m, t) = Absent
  <2>1. Holding(m, t) = {}
    BY <1>5 DEF Holding
  <2> QED BY <2>1 DEF View
<1>9. Format = Renew(m, 1, 0, 1)
  <2> DEFINE b == << >>
  <2>1. b \in Seq(Byte) /\ Len(b) = 1 - 1 /\ \A i \in 1 .. 1 - 1 : b[i] = m[i]
    OBVIOUS
  <2>2. 1 \in Nat /\ 1 <= 1
    OBVIOUS
  <2> HIDE DEF b
  <2> QED BY <1>1, <2>1, <2>2, SectorLemma
<1> QED BY <1>1, <1>4, <1>6, <1>7, <1>8, <1>9 DEF m

-----------------------------------------------------------------------------
(* The inductive invariant: what the running call still has to do.         *)

Types ==
    /\ flash \in Flashes /\ todo \in Seq(Accesses) /\ crashes \in 0 .. MaxCrashes
    /\ expect \in [Tags -> Contents] /\ sure \in SUBSET Tags
    /\ call \in [tag : Tags, old : Contents, ok : BOOLEAN, purges : BOOLEAN, clean : BOOLEAN]

\* Before the first power loss the client is sure of every tag.
Tally == crashes = 0 => sure = Tags /\ call.clean

\* What the flash has to be when a call is done: the tags that the client is sure of are
\* right, and before the first power loss there is nothing else in it.
Goal(f) ==
    /\ f[0] = Magic
    /\ crashes = 0 => Tidy(f) /\ One(f) /\ \A t \in Tags : View(f, t) = expect[t]
    /\ \A t \in sure : expect[t] # Absent => View(f, t) = expect[t]

\* The tag of the last call is no mixture.
Fair(m) ==
    \/ View(m, call.tag) \in {call.old, expect[call.tag], Absent}
    \/ Len(View(m, call.tag).value) = Blank

\* The call writes f, whose last tag may be its own.
Target(f, e, l, n) ==
    /\ f \in Flashes /\ Plan(f, call.tag, e, l, n) /\ Goal(f)
    /\ n # e => View(f, call.tag) = expect[call.tag]

Resting == todo = << >> /\ Goal(flash) /\ (call.clean => Fair(flash))

\* The sector is going to be erased and written, after the copies of the tag are marked.
Erasing(f, e, l, n, s) ==
    /\ call.purges /\ Target(f, e, l, n)
    /\ s \in Seq(Programs) /\ todo = s \o Renew(f, e, l, n)
    /\ call.clean => \/ s = << >> /\ flash[0] # Magic
                     \/ Fair(flash) /\ (s # << >> => Len(s) = 1 /\ Fair(After(flash, s[1])))

\* k bytes of f are written.
Building(f, e, l, n, k) ==
    /\ Target(f, e, l, n) /\ k < n
    /\ flash = Part(f, e, l, k) /\ todo = Rest(f, e, l, k, n)

\* A call that does not purge writes behind the tags and the status of its own.
Tame ==
    /\ ~call.purges /\ flash[0] = Magic
    /\ \E e \in Walk(flash) :
          /\ \A i \in 1 .. Len(todo) :
                todo[i] \in Programs /\ Off(flash, e, call.tag, todo[i].at)
          /\ \A t \in sure \ {call.tag} : expect[t] # Absent =>
                View(flash, t) = expect[t] /\ Held(flash, t, e)

\* The old copy is marked before the new one is written.
Replacing(f, e, l, n, x) ==
    /\ Target(f, e, l, n) /\ e < n /\ x \in Programs
    /\ After(flash, x) = Part(f, e, l, e) /\ todo = <<x>> \o Rest(f, e, l, e, n)
    /\ Fair(flash)

\* One status is programmed.
Changing(x) ==
    /\ x \in Programs /\ todo = <<x>>
    /\ Goal(After(flash, x)) /\ Fair(flash) /\ Fair(After(flash, x))

\* After a power loss nothing is known of the tag of the call.
Spoiled == crashes > 0 /\ ~call.clean /\ call.tag \notin sure /\ todo # << >>

Purging ==
    \/ \E f, e, l, n, s : Erasing(f, e, l, n, s)
    \/ call.purges /\ \E f, e, l, n : \E k \in Nat : Building(f, e, l, n, k)

Changes ==
    \/ \E f, e, l, n : \E k \in Nat : Building(f, e, l, n, k)
    \/ \E f, e, l, n, x : Replacing(f, e, l, n, x)
    \/ \E x : Changing(x)
    \/ Spoiled

Working == Resting \/ Purging \/ (Tame /\ Changes)

Inv == Types /\ Tally /\ Working

LEMMA TagLemma ==
    /\ \A t \in Tags : t \in 0 .. 6
    /\ \A v \in Values : v \in Seq(Byte) /\ Len(v) <= 6
    /\ MaxCrashes \in Nat
<1>1. \A t \in Tags : t \in 0 .. 6
  BY NvdsAssumption, PlacesLemma
<1>2. ASSUME NEW v \in Values PROVE v \in Seq(Byte) /\ Len(v) <= 6
  <2>1. v \in Seq(Byte) /\ Len(v) < 7
    BY NvdsAssumption, PlacesLemma
  <2> QED BY <2>1
<1> QED BY <1>1, <1>2, NvdsAssumption

\* A formatted flash is a target of every call.
LEMMA FreshTarget ==
    ASSUME NEW c \in Tags
    PROVE  Formatted \in Flashes /\ Plan(Formatted, c, 1, 0, 1) /\ Formatted[0] = Magic
           /\ Format \in Seq(Accesses) /\ << >> \o Format = Format /\ << >> \in Seq(Programs)
<1>1. Formatted \in Flashes /\ Tidy(Formatted) /\ End(Formatted) = 1 /\ Holding(Formatted, c) = {}
      /\ Format = Renew(Formatted, 1, 0, 1)
  BY FormattedLemma
<1>2. Plan(Formatted, c, 1, 0, 1)
  BY <1>1, KeepLemma
<1>3. Formatted[0] = Magic
  BY <1>1 DEF Tidy
<1>4. Format \in Seq(Accesses)
  <2>1. 1 \in Nat /\ 0 \in Nat /\ 1 \in {1, 1 + 3 + 0} /\ 1 <= Size
    BY PlacesLemma
  <2>2. Renew(Formatted, 1, 0, 1) \in Seq(Accesses)
    BY <1>1, <2>1, RenewLemma
  <2> QED BY <1>1, <2>2
<1>5. << >> \o Format = Format
  BY <1>4, ConcatEmptySeq
<1>6. << >> \in Seq(Programs)
  OBVIOUS
<1> QED BY <1>1, <1>2, <1>3, <1>4, <1>5, <1>6

\* While a flash is written, its tag is no mixture.
LEMMA FairLemma ==
    ASSUME Types, NEW f, NEW e, NEW l, NEW n, Target(f, e, l, n), NEW k \in Nat, k <= n
    PROVE  Fair(Part(f, e, l, k))
<1>1. call.tag \in 0 .. 6
  BY TagLemma DEF Types
<1>2. f \in Flashes /\ Plan(f, call.tag, e, l, n) /\ (n # e => View(f, call.tag) = expect[call.tag])
  BY DEF Target
<1>3. \/ View(Part(f, e, l, k), call.tag) = Absent
      \/ Len(View(Part(f, e, l, k), call.tag).value) = 7
      \/ n # e /\ Part(f, e, l, k) = f
  BY <1>1, <1>2, PlanLemma
<1>4. Blank = 7
  BY PlacesLemma
<1> QED BY <1>2, <1>3, <1>4 DEF Fair

LEMMA InitInv ==
    Init => Inv
<1> SUFFICES ASSUME Init PROVE Inv
  OBVIOUS
<1>1. /\ flash = Cleared /\ todo = Format /\ crashes = 0 /\ expect = [t \in Tags |-> Absent]
      /\ sure = Tags /\ call \in [tag : Tags, old : {Absent}, ok : {FALSE}, purges : {TRUE}, clean : {TRUE}]
  BY DEF Init, Cleared
<1>2. call.tag \in Tags /\ call.old = Absent /\ call.ok = FALSE /\ call.purges = TRUE /\ call.clean = TRUE
  BY <1>1
<1>3. /\ Formatted \in Flashes /\ Plan(Formatted, call.tag, 1, 0, 1) /\ Formatted[0] = Magic
      /\ Format \in Seq(Accesses) /\ << >> \o Format = Format /\ << >> \in Seq(Programs)
  BY <1>2, FreshTarget
<1>4. Types
  <2>1. flash \in Flashes
    BY <1>1, PlacesLemma DEF Cleared, Flashes
  <2>2. crashes \in 0 .. MaxCrashes
    BY <1>1, TagLemma
  <2>3. expect \in [Tags -> Contents]
    BY <1>1 DEF Contents
  <2>4. call \in [tag : Tags, old : Contents, ok : BOOLEAN, purges : BOOLEAN, clean : BOOLEAN]
    BY <1>1 DEF Contents
  <2> QED BY <1>1, <1>3, <2>1, <2>2, <2>3, <2>4 DEF Types
<1>5. Tally
  BY <1>1, <1>2 DEF Tally
<1>6. Goal(Formatted)
  <2>1. Tidy(Formatted) /\ One(Formatted) /\ \A t \in Tags : View(Formatted, t) = expect[t]
    BY <1>1, FormattedLemma
  <2> QED BY <1>1, <1>3, <2>1 DEF Goal
<1>7. Target(Formatted, 1, 0, 1)
  BY <1>3, <1>6 DEF Target
<1>8. flash[0] # Magic
  BY <1>1, PlacesLemma DEF Cleared
<1>9. Erasing(Formatted, 1, 0, 1, << >>)
  BY <1>1, <1>2, <1>3, <1>7, <1>8, FormattedLemma DEF Erasing
<1> QED BY <1>4, <1>5, <1>9 DEF Inv, Working, Purging

-----------------------------------------------------------------------------
(* One flash access.                                                       *)

\* What an access does to the flash.
LEMMA AccessLemma ==
    ASSUME Types, Work
    PROVE  /\ todo # << >> /\ Head(todo) \in Accesses /\ todo' = Tail(todo)
           /\ Head(todo).op = "erase" => flash' = Cleared
           /\ Head(todo).op = "program" => flash' = After(flash, Head(todo))
           /\ crashes' = crashes /\ expect' = expect /\ call' = call /\ sure' = sure
           /\ Types'
<1> DEFINE x == Head(todo)
<1>1. /\ todo # << >> /\ todo' = Tail(todo)
      /\ flash' = IF x.op = "erase" THEN [a \in DOMAIN flash |-> Blank]
                  ELSE [flash EXCEPT ![x.at] = And(@, x.byte)]
      /\ crashes' = crashes /\ expect' = expect /\ call' = call /\ sure' = sure
  BY DEF Work, Ready
<1>2. x \in Accesses /\ Tail(todo) \in Seq(Accesses)
  BY <1>1 DEF Types
<1> HIDE DEF x
<1>3. x.op = "erase" => flash' = Cleared
  BY <1>1 DEF Types, Flashes, Cleared
<1>4. x.op = "program" => flash' = After(flash, x)
  BY <1>1 DEF After
<1>5. flash' \in Flashes
  <2>1. Cleared \in Flashes
    BY PlacesLemma DEF Cleared, Flashes
  <2>2. x.op \in {"erase", "program"} /\ x.at \in 0 .. Sector - 1 /\ x.byte \in 0 .. 7
    BY <1>2, PlacesLemma DEF Accesses
  <2>3. And(flash[x.at], x.byte) \in Byte
    <3>1. flash[x.at] \in 0 .. 7
      BY <2>2, PlacesLemma DEF Types, Flashes
    <3> QED BY <2>2, <3>1, AndLemma, PlacesLemma
  <2>4. After(flash, x) \in Flashes
    BY <2>2, <2>3 DEF Types, Flashes, After
  <2> QED BY <1>3, <1>4, <2>1, <2>2, <2>4
<1>6. Types'
  BY <1>1, <1>2, <1>5 DEF Types
<1> QED BY <1>1, <1>2, <1>3, <1>4, <1>6 DEF x

\* What the client knows does not change.
LEMMA KnownLemma ==
    ASSUME crashes' = crashes, expect' = expect, call' = call, sure' = sure
    PROVE  /\ \A f : Goal(f) => Goal(f)'
           /\ \A f : Fair(f) => Fair(f)'
           /\ \A f, e, l, n : Target(f, e, l, n) => Target(f, e, l, n)'
           /\ \A f : flash' = f /\ Goal(f) => Goal(flash)'
           /\ \A f : flash' = f /\ Fair(f) => Fair(flash)'
           /\ Tally => Tally'
<1>1. \A f : Goal(f) => Goal(f)'
  BY DEF Goal
<1>2. \A f : Fair(f) => Fair(f)'
  BY DEF Fair
<1>3. \A f, e, l, n : Target(f, e, l, n) => Target(f, e, l, n)'
  BY <1>1 DEF Target
<1>4. \A f : flash' = f /\ Goal(f) => Goal(flash)'
  BY DEF Goal
<1>5. \A f : flash' = f /\ Fair(f) => Fair(flash)'
  BY DEF Fair
<1>6. Tally => Tally'
  BY DEF Tally
<1> QED BY <1>1, <1>2, <1>3, <1>4, <1>5, <1>6

\* One more byte of f is written.
LEMMA BuildingStep ==
    ASSUME Types, Work, NEW f, NEW e, NEW l, NEW n, NEW k \in Nat, Building(f, e, l, n, k)
    PROVE  Building(f, e, l, n, k + 1)' \/ Resting'
<1>1. Target(f, e, l, n) /\ k < n /\ flash = Part(f, e, l, k) /\ todo = Rest(f, e, l, k, n)
  BY DEF Building
<1>2. f \in Flashes /\ Plan(f, call.tag, e, l, n) /\ Goal(f)
  BY <1>1 DEF Target
<1>3. e \in Nat /\ l \in Nat /\ n \in Nat /\ n \in {e, e + 3 + l} /\ n <= Size /\ Part(f, e, l, n) = f
  BY <1>2, EndsLemma
<1>4. /\ Head(todo).op = "program" /\ todo' = Rest(f, e, l, k + 1, n)
      /\ flash' = Part(f, e, l, k + 1)
  <2>1. Within(e, l, k, n)
    BY <1>1, <1>3 DEF Within
  <2>2. /\ Head(Rest(f, e, l, k, n)).op = "program"
        /\ Tail(Rest(f, e, l, k, n)) = Rest(f, e, l, k + 1, n)
        /\ After(Part(f, e, l, k), Head(Rest(f, e, l, k, n))) = Part(f, e, l, k + 1)
    BY <1>2, <2>1, StepLemma
  <2>3. Head(todo).op = "program"
    BY <1>1, <2>2
  <2>4. flash' = After(flash, Head(todo)) /\ todo' = Tail(todo)
    BY <2>3, AccessLemma
  <2> QED BY <1>1, <2>2, <2>3, <2>4
<1>7. crashes' = crashes /\ expect' = expect /\ call' = call /\ sure' = sure
  BY AccessLemma
<1>9. Target(f, e, l, n)'
  BY <1>1, <1>7, KnownLemma
<1>10. CASE k + 1 < n
  <2>1. Building(f, e, l, n, k + 1)'
    BY <1>4, <1>9, <1>10 DEF Building
  <2> QED BY <2>1
<1>11. CASE ~ (k + 1 < n)
  <2>1. k + 1 = n /\ n <= n
    BY <1>1, <1>3, <1>11
  <2>2. flash' = f /\ Goal(flash)'
    BY <1>2, <1>3, <1>4, <1>7, <2>1, KnownLemma
  <2>3. todo' = << >>
    <3>1. 1 .. n - (k + 1) = {}
      <4>1. \A i \in 1 .. n - (k + 1) : FALSE
        BY <1>3, <2>1
      <4> QED BY <4>1
    <3> QED BY <1>4, <3>1 DEF Rest
  <2>4. Fair(flash)'
    <3>1. Fair(f)
      BY <1>1, <1>3, <2>1, FairLemma
    <3> QED BY <1>7, <2>2, <3>1, KnownLemma
  <2> QED BY <2>2, <2>3, <2>4 DEF Resting
<1> QED BY <1>10, <1>11

\* The sector is erased, or a copy of the tag is marked before.
LEMMA ErasingStep ==
    ASSUME Types, Work, NEW f, NEW e, NEW l, NEW n, NEW s, Erasing(f, e, l, n, s)
    PROVE  Purging'
<1>1. call.purges /\ Target(f, e, l, n) /\ s \in Seq(Programs) /\ todo = s \o Renew(f, e, l, n)
  BY DEF Erasing
<1>2. f \in Flashes /\ Plan(f, call.tag, e, l, n)
  BY <1>1 DEF Target
<1>3. /\ e \in Nat /\ l \in Nat /\ n \in Nat /\ n \in {e, e + 3 + l} /\ n <= Size /\ 1 <= e /\ e <= n
      /\ Part(f, e, l, 0) = Cleared
  BY <1>2, EndsLemma
<1> DEFINE r == Renew(f, e, l, n)
<1>4. r \in Seq(Accesses) /\ r # << >> /\ Head(r) = Erase /\ Tail(r) = Rest(f, e, l, 0, n)
  BY <1>2, <1>3, RenewLemma
<1>5. todo' = Tail(todo) /\ crashes' = crashes /\ expect' = expect /\ call' = call /\ sure' = sure
  BY AccessLemma
<1>6. Target(f, e, l, n)'
  BY <1>1, <1>5, KnownLemma
<1>7. CASE s = << >>
  <2>1. todo = r
    BY <1>1, <1>4, <1>7, ConcatEmptySeq
  <2>2. flash' = Cleared
    BY <1>4, <2>1, AccessLemma DEF Erase
  <2>3. 0 < n /\ 0 \in Nat
    BY <1>3
  <2>4. Building(f, e, l, n, 0)'
    BY <1>3, <1>4, <1>5, <1>6, <2>1, <2>2, <2>3 DEF Building
  <2> QED BY <1>1, <1>5, <2>3, <2>4 DEF Purging
<1>8. CASE s # << >>
  <2>0. Programs \subseteq Accesses
    BY DEF Programs
  <2>1. s \in Seq(Accesses)
    BY <1>1, <2>0, SeqMonotonic
  <2> HIDE DEF r
  <2>2. Head(s \o r) = s[1] /\ Tail(s \o r) = Tail(s) \o r
    BY <1>4, <1>8, <2>1, HeadTailLemma
  <2>3. s[1] \in Programs /\ Tail(s) \in Seq(Programs) /\ Len(Tail(s)) = Len(s) - 1
    BY <1>1, <1>8, HeadTailLemma
  <2>4. todo = s \o r
    BY <1>1 DEF r
  <2>5. Head(todo) = s[1] /\ s[1].op = "program"
    BY <2>2, <2>3, <2>4 DEF Programs
  <2>6. flash' = After(flash, s[1])
    BY <2>5, AccessLemma
  <2>7. todo' = Tail(s) \o Renew(f, e, l, n)
    BY <1>5, <2>2, <2>4 DEF r
  <2>8. ASSUME call.clean PROVE Fair(flash)' /\ Tail(s) = << >>
    <3>1. Len(s) = 1 /\ Fair(After(flash, s[1]))
      BY <1>8, <2>8, Zenon DEF Erasing
    <3>2. Fair(flash)'
      <4> DEFINE g == After(flash, s[1])
      <4>1. Fair(g) /\ flash' = g
        BY <2>6, <3>1
      <4> HIDE DEF g
      <4>2. View(flash', call.tag) = View(g, call.tag)
        BY <4>1
      <4> QED BY <1>5, <4>1, <4>2 DEF Fair
    <3>3. Tail(s) = << >>
      <4> DEFINE q == Tail(s)
      <4>1. q \in Seq(Programs) /\ Len(q) = 0
        BY <2>3, <3>1
      <4> HIDE DEF q
      <4>2. q = << >>
        BY <4>1
      <4> QED BY <4>2 DEF q
    <3> QED BY <3>2, <3>3
  <2>9. Erasing(f, e, l, n, Tail(s))'
    <3>1. call'.purges /\ (call'.clean => call.clean)
      BY <1>1, <1>5
    <3>2. call'.clean => Fair(flash)' /\ Tail(s) = << >>
      BY <2>8, <3>1
    <3> QED BY <1>6, <2>3, <2>7, <3>1, <3>2 DEF Erasing
  <2> QED BY <2>9 DEF Purging
<1> QED BY <1>7, <1>8

\* What a call that does not purge writes is behind the other tags or in its own.
LEMMA TameStep ==
    ASSUME Types, Work, Tame
    PROVE  Tame' /\ flash' = After(flash, Head(todo)) /\ todo' = Tail(todo)
           /\ crashes' = crashes /\ expect' = expect /\ call' = call /\ sure' = sure
<1>1. /\ todo # << >> /\ Head(todo) \in Accesses /\ todo' = Tail(todo)
      /\ Head(todo).op = "program" => flash' = After(flash, Head(todo))
      /\ crashes' = crashes /\ expect' = expect /\ call' = call /\ sure' = sure
  BY AccessLemma
<1> DEFINE x == Head(todo)
           c == call.tag
           y == And(flash[x.at], x.byte)
<1>2. PICK e \in Walk(flash) :
         /\ \A i \in 1 .. Len(todo) : todo[i] \in Programs /\ Off(flash, e, c, todo[i].at)
         /\ \A t \in sure \ {c} : expect[t] # Absent =>
               View(flash, t) = expect[t] /\ Held(flash, t, e)
  BY DEF Tame
<1>3. flash[0] = Magic /\ ~call.purges /\ flash \in Flashes /\ todo \in Seq(Accesses)
  BY DEF Tame, Types
<1>4. x = todo[1] /\ 1 \in 1 .. Len(todo) /\ Len(Tail(todo)) = Len(todo) - 1
      /\ \A i \in 1 .. Len(todo) - 1 : Tail(todo)[i] = todo[i + 1] /\ i + 1 \in 1 .. Len(todo)
  BY <1>1, <1>3
<1>5. x \in Programs /\ Off(flash, e, c, x.at)
  BY <1>2, <1>4
<1>6. x.op = "program" /\ x.at \in 0 .. Sector - 1 /\ x.byte \in 0 .. 7
  BY <1>5, PlacesLemma DEF Programs, Accesses
<1>7. y \in 0 .. 7
  <2>1. flash[x.at] \in 0 .. 7
    BY <1>3, <1>6, PlacesLemma DEF Flashes
  <2> QED BY <1>6, <2>1, AndLemma
<1>8. flash' = [flash EXCEPT ![x.at] = y]
  BY <1>1, <1>6 DEF After
<1> HIDE DEF x, y, c
<1>9. /\ e \in Walk(flash') /\ flash'[0] = flash[0]
      /\ \A z : Off(flash, e, c, z) => Off(flash', e, c, z)
      /\ \A t : t # c /\ Held(flash, t, e) =>
            View(flash', t) = View(flash, t) /\ Held(flash', t, e)
  <2> DEFINE p == x.at
             n == [flash EXCEPT ![p] = y]
  <2>1. p \in 0 .. Sector - 1 /\ Off(flash, e, c, p) /\ e \in Walk(flash)
    BY <1>5, <1>6
  <2>2. n = [flash EXCEPT ![p] = y]
    OBVIOUS
  <2>3. flash' = n
    BY <1>8
  <2> HIDE DEF p, n
  <2>4. e \in Walk(n)
    BY <1>3, <1>7, <2>1, <2>2, OffLemma
  <2>7. n[0] = flash[0]
    BY <1>3, <1>7, <2>1, <2>2, OffLemma
  <2>5. \A z : Off(flash, e, c, z) => Off(n, e, c, z)
    BY <1>3, <1>7, <2>1, <2>2, OffLemma
  <2>6. ASSUME NEW t, t # c, Held(flash, t, e)
        PROVE  View(n, t) = View(flash, t) /\ Held(n, t, e)
    <3>1. Keeps(flash, n, t, e)
      BY <1>3, <1>7, <2>1, <2>2, <2>6, OffLemma
    <3> QED BY <2>6, <3>1 DEF Keeps
  <2> QED BY <2>3, <2>4, <2>5, <2>6, <2>7
<1>10. \A i \in 1 .. Len(todo') : todo'[i] \in Programs /\ Off(flash', e, c, todo'[i].at)
  <2>1. Len(todo') = Len(todo) - 1
    BY <1>1, <1>4
  <2>2. ASSUME NEW i \in 1 .. Len(todo) - 1
        PROVE  todo'[i] \in Programs /\ Off(flash', e, c, todo'[i].at)
    <3>1. todo'[i] = todo[i + 1] /\ i + 1 \in 1 .. Len(todo)
      BY <1>1, <1>4
    <3>2. todo[i + 1] \in Programs /\ Off(flash, e, c, todo[i + 1].at)
      BY <1>2, <3>1 DEF c
    <3> QED BY <1>9, <3>1, <3>2
  <2> QED BY <2>1, <2>2
<1>11. \A t \in sure' \ {c} : expect'[t] # Absent =>
          View(flash', t) = expect'[t] /\ Held(flash', t, e)
  <2> SUFFICES ASSUME NEW t \in sure' \ {c}, expect'[t] # Absent
               PROVE  View(flash', t) = expect'[t] /\ Held(flash', t, e)
    OBVIOUS
  <2>1. t \in sure /\ t # c /\ expect[t] # Absent
    BY <1>1
  <2>2. View(flash, t) = expect[t] /\ Held(flash, t, e)
    BY <1>2, <2>1 DEF c
  <2>3. View(flash', t) = View(flash, t) /\ Held(flash', t, e)
    BY <1>9, <2>1, <2>2
  <2> QED BY <1>1, <2>2, <2>3
<1>12. Tame'
  <2>1. call'.tag = c /\ ~call'.purges /\ flash'[0] = Magic
    BY <1>1, <1>3, <1>9 DEF c
  <2> QED BY <1>9, <1>10, <1>11, <2>1 DEF Tame
<1> QED BY <1>1, <1>6, <1>12 DEF x

LEMMA ReplacingStep ==
    ASSUME Types, Work, Tame, NEW f, NEW e, NEW l, NEW n, NEW x, Replacing(f, e, l, n, x)
    PROVE  Tame' /\ Changes'
<1>1. /\ Tame' /\ flash' = After(flash, Head(todo)) /\ todo' = Tail(todo)
      /\ crashes' = crashes /\ expect' = expect /\ call' = call /\ sure' = sure
  BY TameStep
<1>2. /\ Target(f, e, l, n) /\ e < n /\ x \in Programs
      /\ After(flash, x) = Part(f, e, l, e) /\ todo = <<x>> \o Rest(f, e, l, e, n)
  BY DEF Replacing
<1>3. f \in Flashes /\ Plan(f, call.tag, e, l, n)
  BY <1>2 DEF Target
<1>4. e \in Nat /\ l \in Nat /\ n \in Nat /\ n \in {e, e + 3 + l} /\ n <= Size /\ e <= n
  BY <1>3, EndsLemma
<1> DEFINE r == Rest(f, e, l, e, n)
           I == <<x>>
<1>5. r \in Seq(Programs)
  BY <1>3, <1>4, PartLemma
<1>6. I \in Seq(Programs) /\ I # << >> /\ I[1] = x /\ Tail(I) = << >>
  BY <1>2
<1>7. todo = I \o r
  BY <1>2
<1> HIDE DEF r, I
<1>8. Head(todo) = x /\ Tail(todo) = << >> \o r
  BY <1>5, <1>6, <1>7, HeadTailLemma
<1>9. Tail(todo) = r
  BY <1>5, <1>8, ConcatEmptySeq
<1>10. Target(f, e, l, n)'
  BY <1>1, <1>2, KnownLemma
<1>11. Building(f, e, l, n, e)'
  BY <1>1, <1>2, <1>8, <1>9, <1>10 DEF Building, r
<1> QED BY <1>1, <1>4, <1>11 DEF Changes

LEMMA ChangingStep ==
    ASSUME Types, Work, Tame, NEW x, Changing(x)
    PROVE  Resting'
<1>1. /\ flash' = After(flash, Head(todo)) /\ todo' = Tail(todo)
      /\ crashes' = crashes /\ expect' = expect /\ call' = call /\ sure' = sure
  BY TameStep
<1>2. x \in Programs /\ todo = <<x>> /\ Goal(After(flash, x)) /\ Fair(After(flash, x))
  BY DEF Changing
<1>3. Head(todo) = x /\ Tail(todo) = << >>
  BY <1>2
<1>4. Goal(flash)' /\ Fair(flash)'
  <2> DEFINE m == After(flash, x)
  <2>1. flash' = m /\ Goal(m) /\ Fair(m)
    BY <1>1, <1>2, <1>3
  <2> HIDE DEF m
  <2>2. View(flash', call'.tag) = View(m, call.tag)
    BY <1>1, <2>1
  <2>3. Fair(flash)'
    BY <1>1, <2>1, <2>2 DEF Fair
  <2>4. Goal(flash)'
    BY <1>1, <2>1 DEF Goal
  <2> QED BY <2>3, <2>4
<1> QED BY <1>1, <1>3, <1>4 DEF Resting

LEMMA SpoiledStep ==
    ASSUME Types, Work, Tame, Spoiled
    PROVE  Resting' \/ (Tame' /\ Changes')
<1>1. /\ Tame' /\ todo' = Tail(todo)
      /\ crashes' = crashes /\ expect' = expect /\ call' = call /\ sure' = sure
  BY TameStep
<1>2. crashes > 0 /\ ~call.clean /\ call.tag \notin sure
  BY DEF Spoiled
<1>3. CASE todo' = << >>
  <2>1. flash'[0] = Magic /\ \A t \in sure' \ {call'.tag} : expect'[t] # Absent => View(flash', t) = expect'[t]
    BY <1>1 DEF Tame
  <2>2. Goal(flash)'
    BY <1>1, <1>2, <2>1 DEF Goal, Types
  <2> QED BY <1>1, <1>2, <1>3, <2>2 DEF Resting
<1>4. CASE todo' # << >>
  BY <1>1, <1>2, <1>4 DEF Spoiled, Changes
<1> QED BY <1>3, <1>4

LEMMA WorkStep ==
    ASSUME Inv, Work
    PROVE  Inv'
<1>1. Types /\ Tally /\ Working
  BY DEF Inv
<1>2. /\ todo # << >> /\ Types'
      /\ crashes' = crashes /\ expect' = expect /\ call' = call /\ sure' = sure
  BY <1>1, AccessLemma
<1>3. Tally'
  BY <1>1, <1>2, KnownLemma
<1>4. Working'
  <2>1. CASE Resting
    BY <1>2, <2>1 DEF Resting
  <2>2. ASSUME NEW f, NEW e, NEW l, NEW n, NEW s, Erasing(f, e, l, n, s) PROVE Working'
    BY <1>1, <2>2, ErasingStep DEF Working
  <2>3. ASSUME NEW f, NEW e, NEW l, NEW n, NEW k \in Nat, Building(f, e, l, n, k)
        PROVE  Resting' \/ \E j \in Nat : Building(f, e, l, n, j)'
    <3>1. Building(f, e, l, n, k + 1)' \/ Resting'
      BY <1>1, <2>3, BuildingStep
    <3>2. k + 1 \in Nat
      OBVIOUS
    <3> QED BY <3>1, <3>2
  <2>4. ASSUME NEW f, NEW e, NEW l, NEW n, NEW k \in Nat, Building(f, e, l, n, k), call.purges
        PROVE  Working'
    <3>1. Resting' \/ \E j \in Nat : Building(f, e, l, n, j)'
      BY <2>3, <2>4
    <3>2. call'.purges
      BY <1>2, <2>4
    <3> QED BY <3>1, <3>2 DEF Working, Purging
  <2>5. CASE Tame /\ Changes
    <3>1. Tame'
      BY <1>1, <2>5, TameStep
    <3>2. ASSUME NEW f, NEW e, NEW l, NEW n, NEW k \in Nat, Building(f, e, l, n, k)
          PROVE  Working'
      <4>1. Resting' \/ \E j \in Nat : Building(f, e, l, n, j)'
        BY <2>3, <3>2
      <4> QED BY <3>1, <4>1 DEF Working, Changes
    <3>3. ASSUME NEW f, NEW e, NEW l, NEW n, NEW x, Replacing(f, e, l, n, x) PROVE Working'
      BY <1>1, <2>5, <3>3, ReplacingStep DEF Working
    <3>4. ASSUME NEW x, Changing(x) PROVE Working'
      BY <1>1, <2>5, <3>4, ChangingStep DEF Working
    <3>5. CASE Spoiled
      BY <1>1, <2>5, <3>5, SpoiledStep DEF Working
    <3> QED BY <2>5, <3>2, <3>3, <3>4, <3>5 DEF Changes
  <2> QED BY <1>1, <2>1, <2>2, <2>4, <2>5 DEF Working, Purging
<1> QED BY <1>2, <1>3, <1>4 DEF Inv

\* The power goes.
LEMMA CrashStep ==
    ASSUME Inv, Crash
    PROVE  Inv'
<1>1. Types /\ Tally /\ Working
  BY DEF Inv
<1>2. /\ todo # << >> /\ crashes' = crashes + 1 /\ flash' = flash /\ expect' = expect
      /\ crashes < MaxCrashes
      /\ todo' = IF flash[0] = Magic THEN << >> ELSE Format
      /\ call' = [call EXCEPT !.ok = FALSE, !.purges = flash[0] # Magic]
      /\ sure' = IF call.purges THEN {} ELSE sure \ {call.tag}
  BY <1>1 DEF Crash, Ready
<1>3. /\ call \in [tag : Tags, old : Contents, ok : BOOLEAN, purges : BOOLEAN, clean : BOOLEAN]
      /\ crashes \in 0 .. MaxCrashes /\ MaxCrashes \in Nat /\ flash \in Flashes /\ sure \in SUBSET Tags
      /\ expect \in [Tags -> Contents]
  BY <1>1, TagLemma DEF Types
<1>4. /\ call'.tag = call.tag /\ call'.old = call.old /\ call'.clean = call.clean
      /\ call'.purges = (flash[0] # Magic) /\ call.tag \in Tags /\ call'.ok = FALSE
      /\ call' \in [tag : Tags, old : Contents, ok : BOOLEAN, purges : BOOLEAN, clean : BOOLEAN]
  <2>1. (flash[0] # Magic) \in BOOLEAN
    OBVIOUS
  <2> DEFINE b == flash[0] # Magic
  <2>2. b \in BOOLEAN /\ call' = [call EXCEPT !.ok = FALSE, !.purges = b]
    BY <1>2
  <2> HIDE DEF b
  <2>3. /\ call'.tag = call.tag /\ call'.old = call.old /\ call'.clean = call.clean
        /\ call'.purges = b /\ call.tag \in Tags /\ call'.ok = FALSE
        /\ call' \in [tag : Tags, old : Contents, ok : BOOLEAN, purges : BOOLEAN, clean : BOOLEAN]
    BY <1>3, <2>2
  <2> QED BY <2>3 DEF b
<1>5. crashes' \in 1 .. MaxCrashes /\ crashes' # 0
  BY <1>2, <1>3
<1>6. /\ Formatted \in Flashes /\ Plan(Formatted, call.tag, 1, 0, 1) /\ Formatted[0] = Magic
      /\ Format \in Seq(Accesses) /\ << >> \o Format = Format /\ << >> \in Seq(Programs)
  BY <1>4, FreshTarget
<1>7. Types'
  <2>1. todo' \in Seq(Accesses)
    <3>1. << >> \in Seq(Accesses)
      OBVIOUS
    <3> QED BY <1>2, <1>6, <3>1
  <2>2. crashes' \in 0 .. MaxCrashes
    BY <1>5
  <2>3. sure' \in SUBSET Tags
    BY <1>2, <1>3
  <2> QED BY <1>2, <1>3, <1>4, <2>1, <2>2, <2>3 DEF Types
<1>8. Tally'
  BY <1>5 DEF Tally
<1>9. Purging \/ (Tame /\ Changes)
  BY <1>1, <1>2 DEF Working, Resting
<1>10. Tame \/ call.purges
  BY <1>9 DEF Purging, Erasing
<1>11. ASSUME call.clean, flash[0] = Magic PROVE Fair(flash)
  <2>1. ASSUME NEW f, NEW e, NEW l, NEW n, NEW s, Erasing(f, e, l, n, s) PROVE Fair(flash)
    BY <1>11, <2>1, Zenon DEF Erasing
  <2>2. ASSUME NEW f, NEW e, NEW l, NEW n, NEW k \in Nat, Building(f, e, l, n, k) PROVE Fair(flash)
    <3>1. Target(f, e, l, n) /\ k < n /\ flash = Part(f, e, l, k)
      BY <2>2 DEF Building
    <3>2. n \in Nat
      BY <3>1, EndsLemma DEF Target
    <3>3. k <= n
      BY <3>1, <3>2
    <3>4. Fair(Part(f, e, l, k))
      BY <1>1, <3>1, <3>3, FairLemma
    <3> QED BY <3>1, <3>4
  <2>3. ASSUME NEW f, NEW e, NEW l, NEW n, NEW x, Replacing(f, e, l, n, x) PROVE Fair(flash)
    BY <2>3 DEF Replacing
  <2>4. ASSUME NEW x, Changing(x) PROVE Fair(flash)
    BY <2>4 DEF Changing
  <2>5. ~Spoiled
    BY <1>11 DEF Spoiled
  <2> QED BY <1>9, <2>1, <2>2, <2>3, <2>4, <2>5 DEF Purging, Changes
<1>12. CASE flash[0] = Magic
  <2>1. \A t \in sure' : expect'[t] # Absent => View(flash', t) = expect'[t]
    <3>1. CASE call.purges
      BY <1>2, <3>1
    <3>2. CASE ~call.purges
      <4>1. \A t \in sure \ {call.tag} : expect[t] # Absent => View(flash, t) = expect[t]
        BY <1>10, <3>2 DEF Tame
      <4> QED BY <1>2, <3>2, <4>1
    <3> QED BY <3>1, <3>2
  <2>2. Goal(flash)'
    BY <1>2, <1>5, <1>12, <2>1 DEF Goal
  <2>3. call'.clean => Fair(flash)'
    <3> SUFFICES ASSUME call.clean PROVE Fair(flash)'
      BY <1>4
    <3>1. Fair(flash)
      BY <1>11, <1>12
    <3>2. View(flash', call'.tag) = View(flash, call.tag)
      BY <1>2, <1>4
    <3> QED BY <1>2, <1>4, <3>1, <3>2 DEF Fair
  <2>4. todo' = << >>
    BY <1>2, <1>12
  <2>5. Resting'
    BY <2>2, <2>3, <2>4 DEF Resting
  <2> QED BY <1>7, <1>8, <2>5 DEF Inv, Working
<1>13. CASE flash[0] # Magic
  <2>1. call.purges
    BY <1>10, <1>13 DEF Tame
  <2>2. sure' = {} /\ todo' = Format /\ call'.purges /\ flash'[0] # Magic
    BY <1>2, <1>4, <1>13, <2>1
  <2>3. Goal(Formatted)'
    BY <1>5, <1>6, <2>2 DEF Goal
  <2>4. Target(Formatted, 1, 0, 1)'
    BY <1>4, <1>6, <2>3 DEF Target
  <2>5. todo' = << >> \o Renew(Formatted, 1, 0, 1)
    BY <1>6, <2>2, FormattedLemma
  <2>6. Erasing(Formatted, 1, 0, 1, << >>)'
    BY <1>6, <2>2, <2>4, <2>5 DEF Erasing
  <2>7. Purging'
    BY <2>6 DEF Purging
  <2> QED BY <1>7, <1>8, <2>7 DEF Inv, Working
<1> QED BY <1>12, <1>13

-----------------------------------------------------------------------------
(* A call begins.                                                          *)

\* The accesses s program bytes that are behind e or the status of a tag c.
Aside(s, m, e, c) ==
    s \in Seq(Programs) /\ \A i \in 1 .. Len(s) : Off(m, e, c, s[i].at)

LEMMA AsideJoin ==
    ASSUME NEW m, NEW e, NEW c, NEW s, NEW r, Aside(s, m, e, c), Aside(r, m, e, c)
    PROVE  Aside(s \o r, m, e, c)
<1>1. s \in Seq(Programs) /\ r \in Seq(Programs)
  BY DEF Aside
<1>2. s \o r \in Seq(Programs) /\ Len(s \o r) = Len(s) + Len(r) /\ Len(s) \in Nat /\ Len(r) \in Nat
  BY <1>1
<1>3. ASSUME NEW i \in 1 .. Len(s) + Len(r) PROVE Off(m, e, c, (s \o r)[i].at)
  <2>1. CASE i <= Len(s)
    <3>1. (s \o r)[i] = s[i] /\ i \in 1 .. Len(s)
      BY <1>1, <1>2, <2>1
    <3> QED BY <3>1 DEF Aside
  <2>2. CASE ~ (i <= Len(s))
    <3>1. (s \o r)[i] = r[i - Len(s)] /\ i - Len(s) \in 1 .. Len(r)
      BY <1>1, <1>2, <2>2
    <3> QED BY <3>1 DEF Aside
  <2> QED BY <2>1, <2>2
<1> QED BY <1>2, <1>3 DEF Aside

LEMMA ProgramAside ==
    ASSUME NEW m, NEW e, NEW c, NEW a \in Nat, NEW bytes \in Seq(Byte), e <= a, NEW d \in Nat, e = d,
           a + Len(bytes) <= Sector
    PROVE  Aside(Program(a, bytes), m, e, c)
<1> DEFINE n == Len(bytes)
           s == Program(a, bytes)
<1>1. n \in Nat /\ \A i \in 1 .. n : bytes[i] \in Byte
  OBVIOUS
<1>2. \A i \in 1 .. n : a + i - 1 \in 0 .. Sector - 1 /\ a + i - 1 >= e
  BY <1>1, PlacesLemma
<1>3. s = [i \in 1 .. n |-> [op |-> "program", at |-> a + i - 1, byte |-> bytes[i]]]
  BY DEF Program
<1> HIDE DEF n, s
<1>4. \A i \in 1 .. n : [op |-> "program", at |-> a + i - 1, byte |-> bytes[i]] \in Programs
  BY <1>1, <1>2 DEF Programs, Accesses
<1>5. s \in Seq(Programs)
  BY <1>1, <1>3, <1>4
<1>6. Len(s) = n
  BY <1>1, <1>3
<1>7. \A i \in 1 .. n : s[i].at = a + i - 1
  BY <1>3
<1>8. \A i \in 1 .. n : Off(m, e, c, s[i].at)
  BY <1>2, <1>7 DEF Off
<1>9. Aside(s, m, e, c)
  BY <1>5, <1>6, <1>8 DEF Aside
<1> QED BY <1>9 DEF s

\* A new tag is written behind the last one.
LEMMA NewTagAside ==
    ASSUME NEW m, NEW e, NEW c, NEW a \in Nat, NEW t \in Byte, NEW v \in Seq(Byte), Len(v) <= 6,
           NEW d \in Nat, e = d, e <= a, a + 3 + Len(v) <= Size
    PROVE  Aside(NewTag(a, t, v), m, e, c)
<1> DEFINE h == <<t, NotLocked + NotErased, Len(v)>>
<1>1. Len(v) \in Nat /\ Len(v) \in Byte /\ NotLocked + NotErased \in Byte
  <2>1. Len(v) \in Nat
    OBVIOUS
  <2>2. Len(v) \in 0 .. 7
    <3> DEFINE q == Len(v)
    <3>1. q \in Nat /\ q <= 6
      BY <2>1
    <3> HIDE DEF q
    <3>2. q \in 0 .. 7
      BY <3>1
    <3> QED BY <3>2 DEF q
  <2>3. NotLocked + NotErased = 6
    BY DEF NotLocked, NotErased
  <2>4. 6 \in 0 .. 7
    OBVIOUS
  <2> QED BY <2>1, <2>2, <2>3, <2>4, PlacesLemma
<1>2. h \in Seq(Byte) /\ Len(h) = 3
  BY <1>1
<1>3. a + 3 \in Nat /\ e <= a + 3 /\ (a + 3) + Len(v) <= Sector /\ a + 3 <= Sector
  BY <1>1, PlacesLemma
<1> HIDE DEF h
<1>4. Aside(Program(a + 3, v), m, e, c)
  BY <1>3, ProgramAside
<1>5. Aside(Program(a, h), m, e, c)
  BY <1>2, <1>3, ProgramAside
<1>6. NewTag(a, t, v) = Program(a + 3, v) \o Program(a, h)
  BY PlacesLemma DEF NewTag, h
<1> QED BY <1>4, <1>5, <1>6, AsideJoin

\* The copies of a tag are marked.
LEMMA MarksAside ==
    ASSUME flash \in Flashes, NEW t, NEW H \in SUBSET Holding(flash, t)
    PROVE  /\ Aside(EraseAll(H), flash, End(flash), t)
           /\ \A a \in Holding(flash, t) : Aside(<<SetErased(a)>>, flash, End(flash), t)
                                           /\ Aside(<<SetLocked(a)>>, flash, End(flash), t)
<1>1. ASSUME NEW a \in Holding(flash, t)
      PROVE  /\ a \in Headers(flash) /\ SetErased(a) \in Programs /\ SetLocked(a) \in Programs
             /\ Off(flash, End(flash), t, SetErased(a).at) /\ Off(flash, End(flash), t, SetLocked(a).at)
  <2>1. a \in Headers(flash) /\ flash[a] = t
    BY DEF Holding
  <2>2. a < End(flash)
    <3>1. a \in Places /\ a + 3 <= Behind(flash, a) /\ Behind(flash, a) <= End(flash)
          /\ End(flash) \in Walk(flash)
      BY <2>1, EndLemma
    <3>2. a \in Nat /\ Behind(flash, a) \in Nat /\ End(flash) \in Nat
      BY <3>1, BehindLemma, EndLemma, PlacesLemma
    <3> QED BY <3>1, <3>2
  <2>3. Off(flash, End(flash), t, a + 1)
    BY <2>1, <2>2 DEF Off
  <2> QED BY <2>1, <2>3, StatusLemma
<1>2. H \in SUBSET Headers(flash)
  BY <1>1
<1>3. /\ EraseAll(H) \in Seq(Programs)
      /\ \A i \in 1 .. Len(EraseAll(H)) : \E a \in H : EraseAll(H)[i] = SetErased(a)
  BY <1>2, EraseAllLemma
<1>4. \A i \in 1 .. Len(EraseAll(H)) : Off(flash, End(flash), t, EraseAll(H)[i].at)
  BY <1>1, <1>3
<1>5. Aside(EraseAll(H), flash, End(flash), t)
  BY <1>3, <1>4 DEF Aside
<1>6. ASSUME NEW x \in Programs, Off(flash, End(flash), t, x.at)
      PROVE  Aside(<<x>>, flash, End(flash), t)
  <2>1. <<x>> \in Seq(Programs) /\ Len(<<x>>) = 1 /\ <<x>>[1] = x
    OBVIOUS
  <2>2. \A i \in 1 .. Len(<<x>>) : i = 1
    BY <2>1
  <2> QED BY <1>6, <2>1, <2>2 DEF Aside
<1> QED BY <1>1, <1>5, <1>6

\* While a flash is written, there is something to do.
LEMMA BusyLemma ==
    ASSUME NEW f, NEW e, NEW l, NEW n, NEW k \in Nat, Building(f, e, l, n, k)
    PROVE  todo # << >>
<1>1. f \in Flashes /\ Plan(f, call.tag, e, l, n) /\ k < n /\ todo = Rest(f, e, l, k, n)
  BY DEF Building, Target
<1>2. e \in Nat /\ l \in Nat /\ n \in Nat /\ n \in {e, e + 3 + l} /\ n <= Size
  BY <1>1, EndsLemma
<1>3. Within(e, l, k, n)
  BY <1>1, <1>2 DEF Within
<1> QED BY <1>1, <1>3, StepLemma

\* A call whose accesses are done has reached what it had to.
LEMMA ReadyLemma ==
    ASSUME Inv, todo = << >>
    PROVE  Resting
<1>1. ~Purging
  <2>1. ASSUME NEW f, NEW e, NEW l, NEW n, NEW r, Erasing(f, e, l, n, r) PROVE FALSE
    <3>1. f \in Flashes /\ Plan(f, call.tag, e, l, n) /\ r \in Seq(Programs) /\ todo = r \o Renew(f, e, l, n)
      BY <2>1 DEF Erasing, Target
    <3>2. e \in Nat /\ l \in Nat /\ n \in Nat /\ n \in {e, e + 3 + l} /\ n <= Size
      BY <3>1, EndsLemma
    <3> DEFINE q == Renew(f, e, l, n)
    <3>3. q \in Seq(Accesses) /\ q # << >>
      BY <3>1, <3>2, RenewLemma
    <3>4. r \in Seq(Accesses)
      BY <3>1 DEF Programs
    <3> HIDE DEF q
    <3>5. r \o q # << >>
      BY <3>3, <3>4, ConcatEqualIffEmpty
    <3> QED BY <3>1, <3>5 DEF q
  <2>2. ASSUME NEW f, NEW e, NEW l, NEW n, NEW k \in Nat, Building(f, e, l, n, k) PROVE FALSE
    BY <2>2, BusyLemma
  <2> QED BY <2>1, <2>2 DEF Purging
<1>2. ~Changes
  <2>1. ASSUME NEW f, NEW e, NEW l, NEW n, NEW k \in Nat, Building(f, e, l, n, k) PROVE FALSE
    BY <2>1, BusyLemma
  <2>2. ASSUME NEW f, NEW e, NEW l, NEW n, NEW x, Replacing(f, e, l, n, x) PROVE FALSE
    <3>1. f \in Flashes /\ Plan(f, call.tag, e, l, n) /\ x \in Programs /\ todo = <<x>> \o Rest(f, e, l, e, n)
      BY <2>2 DEF Replacing, Target
    <3>2. e \in Nat /\ l \in Nat /\ n \in Nat /\ n \in {e, e + 3 + l} /\ n <= Size /\ e <= n
      BY <3>1, EndsLemma
    <3>3. Rest(f, e, l, e, n) \in Seq(Programs)
      BY <3>1, <3>2, PartLemma
    <3> DEFINE q == Rest(f, e, l, e, n)
               I == <<x>>
    <3>4. I \in Seq(Programs) /\ I # << >> /\ q \in Seq(Programs) /\ todo = I \o q
      BY <3>1, <3>3
    <3> HIDE DEF q, I
    <3>5. I \o q # << >>
      BY <3>4, ConcatEqualIffEmpty
    <3> QED BY <3>4, <3>5
  <2>3. ASSUME NEW x, Changing(x) PROVE FALSE
    <3>1. todo = <<x>>
      BY <2>3 DEF Changing
    <3>2. Len(<<x>>) = 1 /\ Len(<< >>) = 0
      OBVIOUS
    <3> QED BY <3>1, <3>2
  <2> QED BY <2>1, <2>2, <2>3 DEF Changes, Spoiled
<1> QED BY <1>1, <1>2 DEF Inv, Working

\* What a beginning call changes.
LEMMA BeginLemma ==
    ASSUME Inv, NEW s \in Seq(Accesses), NEW t \in Tags, NEW o \in Contents, NEW b \in BOOLEAN,
           Begin(s, t, o, b)
    PROVE  /\ Types /\ Tally /\ Goal(flash) /\ Types' /\ Tally'
           /\ todo' = s /\ flash' = flash /\ crashes' = crashes
           /\ expect'[t] = o /\ (\A u \in Tags : u # t => expect'[u] = expect[u])
           /\ call'.tag = t /\ call'.old = View(flash, t)
           /\ call'.purges = Contains(s, Erase) /\ call'.clean = (crashes = 0)
           /\ sure' \subseteq sure /\ (crashes # 0 => t \notin sure')
<1>1. /\ todo = << >> /\ todo' = s /\ flash' = flash /\ crashes' = crashes
      /\ expect' = [expect EXCEPT ![t] = o]
      /\ call' = [tag |-> t, old |-> View(flash, t), ok |-> b,
                  purges |-> Contains(s, Erase), clean |-> crashes = 0]
      /\ sure' = IF crashes = 0 THEN sure ELSE sure \ {t}
  BY DEF Begin, Ready
<1>2. Types /\ Tally /\ Working
  BY DEF Inv
<1>3. /\ call'.tag = t /\ call'.old = View(flash, t)
      /\ call'.purges = Contains(s, Erase) /\ call'.clean = (crashes = 0)
  BY <1>1
<1>4. Types'
  <2>1. Contains(s, Erase) \in BOOLEAN /\ (crashes = 0) \in BOOLEAN
    BY DEF Contains
  <2>2. View(flash, t) \in Contents
    BY <1>2, ContentLemma DEF Types
  <2>3. call' \in [tag : Tags, old : Contents, ok : BOOLEAN, purges : BOOLEAN, clean : BOOLEAN]
    BY <1>1, <2>1, <2>2
  <2>4. expect' \in [Tags -> Contents]
    BY <1>1, <1>2 DEF Types
  <2> QED BY <1>1, <1>2, <2>3, <2>4 DEF Types
<1>5. Tally'
  BY <1>1, <1>2, <1>3 DEF Tally
<1>6. expect'[t] = o /\ \A u \in Tags : u # t => expect'[u] = expect[u]
  BY <1>1, <1>2 DEF Types
<1>7. Goal(flash)
  BY <1>1, ReadyLemma DEF Resting
<1> QED BY <1>1, <1>2, <1>3, <1>4, <1>5, <1>6, <1>7

\* A flash that is right for the other tags is what the call has to reach.
LEMMA BegunGoal ==
    ASSUME Inv, NEW s \in Seq(Accesses), NEW t \in Tags, NEW o \in Contents, NEW b \in BOOLEAN,
           Begin(s, t, o, b),
           NEW f, f[0] = Magic,
           crashes = 0 => Tidy(f) /\ One(f) /\ View(f, t) = o,
           \A u \in Tags : u # t => View(f, u) = View(flash, u)
    PROVE  Goal(f)'
<1>1. /\ Types /\ Tally /\ Goal(flash) /\ crashes' = crashes
      /\ expect'[t] = o /\ (\A u \in Tags : u # t => expect'[u] = expect[u])
      /\ sure' \subseteq sure /\ (crashes # 0 => t \notin sure')
  BY BeginLemma
<1>2. sure \subseteq Tags
  BY <1>1 DEF Types
<1>3. crashes = 0 => \A u \in Tags : View(f, u) = expect'[u]
  <2> SUFFICES ASSUME crashes = 0, NEW u \in Tags PROVE View(f, u) = expect'[u]
    OBVIOUS
  <2>1. View(flash, u) = expect[u]
    BY <1>1 DEF Goal
  <2> QED BY <1>1, <2>1
<1>4. ASSUME NEW u \in sure', expect'[u] # Absent PROVE View(f, u) = expect'[u]
  <2>1. u \in sure /\ u \in Tags
    BY <1>1, <1>2
  <2>2. CASE u = t
    BY <1>1, <2>2, <1>4
  <2>3. CASE u # t
    <3>1. expect'[u] = expect[u] /\ View(f, u) = View(flash, u)
      BY <1>1, <2>1, <2>3
    <3>2. View(flash, u) = expect[u]
      BY <1>1, <1>4, <2>1, <3>1 DEF Goal
    <3> QED BY <3>1, <3>2
  <2> QED BY <2>2, <2>3
<1> QED BY <1>1, <1>3, <1>4 DEF Goal

\* A call that does not purge.
LEMMA BegunTame ==
    ASSUME Inv, NEW s, NEW t \in Tags, NEW o \in Contents, NEW b \in BOOLEAN,
           Aside(s, flash, End(flash), t), Begin(s, t, o, b)
    PROVE  s \in Seq(Accesses) /\ Tame'
<1>0. s \in Seq(Programs) /\ \A i \in 1 .. Len(s) : Off(flash, End(flash), t, s[i].at)
  BY DEF Aside
<1>1. s \in Seq(Accesses)
  <2>1. Programs \subseteq Accesses
    BY DEF Programs
  <2> QED BY <1>0, <2>1, SeqMonotonic
<1>2. /\ Types /\ Goal(flash) /\ todo' = s /\ flash' = flash
      /\ (\A u \in Tags : u # t => expect'[u] = expect[u]) /\ sure' \subseteq sure
      /\ call'.tag = t /\ call'.purges = Contains(s, Erase)
  BY <1>1, BeginLemma
<1>3. ~Contains(s, Erase)
  <2>1. \A i \in 1 .. Len(s) : s[i].op = "program"
    <3>1. \A i \in 1 .. Len(s) : s[i] \in Programs
      BY <1>0
    <3> QED BY <3>1 DEF Programs
  <2>2. Erase.op # "program"
    BY DEF Erase
  <2> QED BY <2>1, <2>2 DEF Contains
<1>4. flash \in Flashes /\ sure \subseteq Tags
  BY <1>2 DEF Types
<1>5. ASSUME NEW u \in Tags, Holding(flash, u) # {} PROVE Held(flash, u, End(flash))
  <2>1. PICK a \in Holding(flash, u) : TRUE
    BY <1>5
  <2>2. a \in Headers(flash)
    BY DEF Holding
  <2>3. a \in Places /\ a + 3 <= Behind(flash, a) /\ Behind(flash, a) <= End(flash)
        /\ End(flash) \in Walk(flash)
    BY <1>4, <2>2, EndLemma
  <2>4. a \in Nat /\ Behind(flash, a) \in Nat /\ End(flash) \in Nat
    BY <1>4, <2>3, BehindLemma, EndLemma, PlacesLemma
  <2>5. a < End(flash)
    BY <2>3, <2>4
  <2> QED BY <2>5 DEF Held
<1>6. ASSUME NEW u \in sure' \ {t}, expect'[u] # Absent
      PROVE  View(flash, u) = expect'[u] /\ Held(flash, u, End(flash))
  <2>1. u \in sure /\ u \in Tags /\ expect'[u] = expect[u]
    BY <1>2, <1>4
  <2>2. View(flash, u) = expect[u]
    BY <1>2, <1>6, <2>1 DEF Goal
  <2>3. Holding(flash, u) # {}
    BY <1>4, <1>6, <2>1, <2>2, HoldingLemma
  <2> QED BY <1>5, <2>1, <2>2, <2>3
<1>7. End(flash) \in Walk(flash) /\ flash[0] = Magic
  BY <1>2, <1>4, EndLemma DEF Goal
<1>8. \A i \in 1 .. Len(s) : s[i] \in Programs
  BY <1>0
<1>9. Tame'
  BY <1>0, <1>2, <1>3, <1>6, <1>7, <1>8 DEF Tame
<1> QED BY <1>1, <1>9

\* After a power loss this is all that is known.
LEMMA BegunSpoiled ==
    ASSUME Inv, NEW s, NEW t \in Tags, NEW o \in Contents, NEW b \in BOOLEAN,
           Aside(s, flash, End(flash), t), Begin(s, t, o, b), crashes # 0
    PROVE  Inv'
<1>1. s \in Seq(Accesses) /\ Tame'
  BY BegunTame
<1>2. /\ Types' /\ Tally' /\ Goal(flash) /\ todo' = s /\ flash' = flash /\ crashes' = crashes
      /\ call'.tag = t /\ call'.clean = (crashes = 0) /\ (crashes # 0 => t \notin sure')
      /\ Types
  BY <1>1, BeginLemma
<1>3. crashes' > 0 /\ ~call'.clean /\ call'.tag \notin sure'
  BY <1>2 DEF Types
<1>4. CASE s = << >>
  <2>1. flash'[0] = Magic /\ \A u \in sure' \ {t} : expect'[u] # Absent => View(flash', u) = expect'[u]
    BY <1>1, <1>2 DEF Tame
  <2>2. Goal(flash)'
    BY <1>2, <1>3, <2>1 DEF Goal
  <2> QED BY <1>2, <1>3, <1>4, <2>2 DEF Inv, Working, Resting
<1>5. CASE s # << >>
  <2>1. Spoiled'
    BY <1>2, <1>3, <1>5 DEF Spoiled
  <2> QED BY <1>1, <1>2, <2>1 DEF Inv, Working, Changes
<1> QED BY <1>4, <1>5

LEMMA OneLemma ==
    ASSUME NEW m, One(m), NEW t, NEW a \in Holding(m, t)
    PROVE  Holding(m, t) = {a}
BY DEF One, Holding

\* The status of the only copy is programmed.
LEMMA MarkedLemma ==
    ASSUME flash \in Flashes, One(flash), NEW t, NEW a \in Holding(flash, t), NEW x,
           x \in {SetErased(a), SetLocked(a)}, NEW m, m = After(flash, x)
    PROVE  /\ m \in Flashes /\ m[0] = flash[0] /\ (Tidy(flash) => Tidy(m)) /\ One(m) /\ End(m) = End(flash)
           /\ \A u : u # t => View(m, u) = View(flash, u)
           /\ x = SetErased(a) => Holding(m, t) = {} /\ View(m, t) = Absent
           /\ x = SetLocked(a) => View(m, t) = [value |-> Data(flash, a), locked |-> TRUE]
<1> DEFINE w == flash[a + 1]
           y == And(w, x.byte)
<1>1. a \in Headers(flash) /\ Holding(flash, t) = {a}
  BY OneLemma DEF Holding
<1>2. /\ x.at = a + 1 /\ x.byte \in 0 .. 7
      /\ x = SetErased(a) => x.byte = And(w, 3)
      /\ x = SetLocked(a) => x.byte = And(w, 5)
  <2>1. /\ SetErased(a) \in Programs /\ SetErased(a).at = a + 1
        /\ SetErased(a).byte = And(flash[a + 1], 3)
        /\ SetLocked(a) \in Programs /\ SetLocked(a).at = a + 1
        /\ SetLocked(a).byte = And(flash[a + 1], 5)
    BY <1>1, StatusLemma
  <2>2. x \in Programs
    BY <2>1
  <2>3. x.byte \in 0 .. 7
    BY <2>2, PlacesLemma DEF Programs, Accesses
  <2> QED BY <2>1, <2>3
<1>3. w \in 0 .. 7
  <2>1. a \in Places
    BY <1>1, EndLemma
  <2> QED BY <2>1, BehindLemma
<1>4. y \in 0 .. 7
  BY <1>2, <1>3, AndLemma
<1>5. m = [flash EXCEPT ![a + 1] = y]
  BY <1>2 DEF After
<1> HIDE DEF w, y
<1>m. Marked(flash, m, t, a, y)
  BY <1>4, <1>5, MarkLemma
<1>6. /\ m \in Flashes /\ m[a + 1] = y /\ m[0] = flash[0]
      /\ Headers(m) = Headers(flash) /\ End(m) = End(flash)
      /\ Tidy(flash) => Tidy(m)
      /\ One(flash) => One(m)
  BY <1>m DEF Marked
<1>7. /\ Holding(flash, t) = {a} => Holding(m, t) = IF IsTagOk(m, a) THEN {a} ELSE {}
      /\ Data(m, a) = Data(flash, a)
  BY <1>m DEF Marked
<1>8. \A u : u # t => View(m, u) = View(flash, u)
  BY <1>m DEF Marked
<1>9. ASSUME x = SetErased(a) PROVE Holding(m, t) = {} /\ View(m, t) = Absent
  <2>1. y = And(w, And(w, 3))
    BY <1>2, <1>9 DEF y
  <2>2. Bit(y, 4) = 0
    BY <1>3, <2>1, AndLemma
  <2>3. ~IsTagOk(m, a)
    BY <1>6, <2>2 DEF IsTagOk, NotErased
  <2>4. Holding(m, t) = {}
    BY <1>1, <1>7, <2>3
  <2> QED BY <1>6, <2>4, HoldingLemma
<1>10. ASSUME x = SetLocked(a) PROVE View(m, t) = [value |-> Data(flash, a), locked |-> TRUE]
  <2>1. y = And(w, And(w, 5))
    BY <1>2, <1>10 DEF y
  <2>2. Bit(y, 1) = Bit(w, 1) /\ Bit(y, 4) = Bit(w, 4) /\ Bit(y, 2) = 0
    BY <1>3, <2>1, AndLemma
  <2>3. IsTagOk(flash, a)
    BY DEF Holding
  <2>4. IsTagOk(m, a) /\ IsLocked(m, a)
    BY <1>6, <2>2, <2>3 DEF IsTagOk, IsLocked, NotErased, NotValid, NotLocked, w
  <2>5. Holding(m, t) = {a}
    BY <1>1, <1>7, <2>4
  <2>6. View(m, t) = Content(m, a)
    BY <1>6, <2>5, HoldingLemma
  <2> QED BY <1>7, <2>4, <2>6 DEF Content
<1> QED BY <1>6, <1>8, <1>9, <1>10

\* Before the first power loss the flash says what the client expects.
LEMMA CleanLemma ==
    ASSUME Goal(flash), crashes = 0
    PROVE  Tidy(flash) /\ One(flash) /\ \A u \in Tags : View(flash, u) = expect[u]
BY DEF Goal

LEMMA PutKeepsStep ==
    ASSUME Inv, NEW t \in Tags, NEW v \in Values, PutKeeps(t, v)
    PROVE  Inv'
<1> DEFINE aa == Min(Settled(t, v))
<1>1. /\ Settled(t, v) # {}
      /\ Begin(EraseAll({b \in Holding(flash, t) : b < aa}), t, Content(flash, aa), ~IsLocked(flash, aa))
  BY DEF PutKeeps
<1>2. Types /\ flash \in Flashes
  BY DEF Inv, Types
<1>3. aa \in Holding(flash, t) /\ aa \in Nat
  <2>1. Settled(t, v) \subseteq Holding(flash, t) /\ Holding(flash, t) \subseteq Nat
    BY <1>2, HoldingLemma DEF Settled
  <2> QED BY <1>1, <2>1, MinLemma
<1> HIDE DEF aa
<1>4. PICK a \in Nat : a = aa
  BY <1>3
<1>5. PICK s : s = EraseAll({b \in Holding(flash, t) : b < a})
  OBVIOUS
<1>6. PICK o : o = Content(flash, a)
  OBVIOUS
<1>7. PICK k \in BOOLEAN : k = ~IsLocked(flash, a)
  OBVIOUS
<1>8. Begin(s, t, o, k)
  BY <1>1, <1>4, <1>5, <1>6, <1>7
<1>9. Aside(s, flash, End(flash), t)
  <2>1. {b \in Holding(flash, t) : b < a} \in SUBSET Holding(flash, t)
    OBVIOUS
  <2> QED BY <1>2, <1>5, <2>1, MarksAside
<1>10. o \in Contents
  <2>1. a \in Headers(flash)
    BY <1>3, <1>4 DEF Holding
  <2> QED BY <1>2, <1>6, <2>1, ContentLemma DEF Contents
<1>11. CASE crashes # 0
  BY <1>8, <1>9, <1>10, <1>11, BegunSpoiled
<1>12. CASE crashes = 0
  <2>1. s \in Seq(Accesses)
    BY <1>8, <1>9, <1>10, BegunTame
  <2>2. /\ Goal(flash) /\ Types' /\ Tally' /\ todo' = s /\ flash' = flash /\ crashes' = crashes
        /\ call'.tag = t /\ call'.old = View(flash, t)
    BY <1>8, <1>10, <2>1, BeginLemma
  <2>3. Tidy(flash) /\ One(flash)
    BY <1>12, <2>2, CleanLemma
  <2>4. Holding(flash, t) = {a}
    BY <1>3, <1>4, <2>3, OneLemma
  <2>5. s = << >>
    <3>1. {b \in Holding(flash, t) : b < a} = {}
      BY <2>4
    <3>2. {} \in SUBSET Headers(flash)
      OBVIOUS
    <3> QED BY <1>2, <1>5, <3>1, <3>2, EraseAllLemma
  <2>6. View(flash, t) = o
    BY <1>2, <1>6, <2>4, HoldingLemma
  <2>7. PICK m : m = flash
    OBVIOUS
  <2>8. m[0] = Magic /\ Tidy(m) /\ One(m) /\ View(m, t) = o /\ \A u \in Tags : u # t => View(m, u) = View(flash, u)
    BY <2>2, <2>3, <2>6, <2>7 DEF Goal
  <2>9. Goal(m)'
    BY <1>8, <1>10, <2>1, <2>8, BegunGoal
  <2>10. flash' = m
    BY <2>2, <2>7
  <2>11. Goal(flash)'
    BY <2>9, <2>10 DEF Goal
  <2>12. Fair(flash)'
    <3>1. View(flash', call'.tag) = call'.old
      BY <2>2
    <3> QED BY <3>1 DEF Fair
  <2> QED BY <2>2, <2>5, <2>11, <2>12 DEF Inv, Working, Resting
<1> QED BY <1>11, <1>12

\* A call that programs one status.
LEMMA ChangeStep ==
    ASSUME Inv, NEW t \in Tags, NEW a \in Holding(flash, t), NEW x, x \in {SetErased(a), SetLocked(a)},
           NEW o \in Contents,
           x = SetErased(a) => o = Absent,
           x = SetLocked(a) => o = [value |-> Data(flash, a), locked |-> TRUE],
           Begin(<<x>>, t, o, FALSE)
    PROVE  Inv'
<1>1. Types /\ flash \in Flashes
  BY DEF Inv, Types
<1>2. PICK s : s = <<x>>
  OBVIOUS
<1>3. Aside(s, flash, End(flash), t)
  BY <1>1, <1>2, MarksAside
<1>4. Begin(s, t, o, FALSE) /\ FALSE \in BOOLEAN
  BY <1>2
<1>5. CASE crashes # 0
  BY <1>3, <1>4, <1>5, BegunSpoiled
<1>6. CASE crashes = 0
  <2>1. s \in Seq(Accesses) /\ Tame'
    BY <1>3, <1>4, BegunTame
  <2>2. /\ Goal(flash) /\ Types' /\ Tally' /\ todo' = s /\ flash' = flash /\ crashes' = crashes
        /\ call'.tag = t /\ call'.old = View(flash, t) /\ expect'[t] = o
    BY <1>4, <2>1, BeginLemma
  <2>3. Tidy(flash) /\ One(flash) /\ flash[0] = Magic
    BY <1>6, <2>2, CleanLemma DEF Goal
  <2>4. PICK m : m = After(flash, x)
    OBVIOUS
  <2>5. /\ m[0] = flash[0] /\ (Tidy(flash) => Tidy(m)) /\ One(m)
        /\ \A u : u # t => View(m, u) = View(flash, u)
        /\ x = SetErased(a) => View(m, t) = Absent
        /\ x = SetLocked(a) => View(m, t) = [value |-> Data(flash, a), locked |-> TRUE]
    BY <1>1, <2>3, <2>4, MarkedLemma
  <2>6. m[0] = Magic /\ Tidy(m) /\ One(m) /\ View(m, t) = o /\ \A u \in Tags : u # t => View(m, u) = View(flash, u)
    BY <2>3, <2>5
  <2>7. Goal(m)'
    BY <1>4, <2>1, <2>6, BegunGoal
  <2>8. Fair(m)' /\ Fair(flash)'
    BY <2>2, <2>6 DEF Fair
  <2>9. After(flash', x) = m
    BY <2>2, <2>4
  <2>10. Goal(After(flash, x))' /\ Fair(After(flash, x))'
    <3>1. Goal(After(flash, x))'
      BY <2>7, <2>9 DEF Goal
    <3>2. Fair(After(flash, x))'
      BY <2>8, <2>9 DEF Fair
    <3> QED BY <3>1, <3>2
  <2>11. x \in Programs
    <3>1. a \in Headers(flash)
      BY DEF Holding
    <3> QED BY <1>1, <3>1, StatusLemma
  <2>12. Changing(x)'
    BY <1>2, <2>2, <2>8, <2>10, <2>11 DEF Changing
  <2> QED BY <2>1, <2>2, <2>12 DEF Inv, Working, Changes
<1> QED BY <1>5, <1>6

LEMMA FoundLemma ==
    ASSUME Inv, NEW t, Holding(flash, t) # {}
    PROVE  Found(t) \in Holding(flash, t)
<1>1. Holding(flash, t) \subseteq Nat
  BY HoldingLemma DEF Inv, Types
<1> QED BY <1>1, MinLemma DEF Found

LEMMA MarksDiffer ==
    ASSUME flash \in Flashes, NEW t, NEW a \in Holding(flash, t)
    PROVE  SetErased(a) # SetLocked(a)
<1>1. a \in Headers(flash) /\ IsTagOk(flash, a)
  BY DEF Holding
<1>2. SetErased(a).byte = And(flash[a + 1], 3) /\ SetLocked(a).byte = And(flash[a + 1], 5)
  BY <1>1, StatusLemma
<1>3. flash[a + 1] \in 0 .. 7 /\ Bit(flash[a + 1], 4) = 1
  BY <1>1, EndLemma, BehindLemma DEF IsTagOk, NotErased
<1>4. \A w \in 0 .. 7 : Bit(w, 4) = 1 => Bit(And(w, 3), 4) = 0 /\ Bit(And(w, 5), 4) = 1
  BY DEF And, Bit
<1>5. Bit(And(flash[a + 1], 3), 4) = 0 /\ Bit(And(flash[a + 1], 5), 4) = 1
  BY <1>3, <1>4
<1> QED BY <1>2, <1>5

LEMMA DelStep ==
    ASSUME Inv, NEW t \in Tags, Del(t)
    PROVE  Inv'
<1>1. Found(t) \in Holding(flash, t) /\ Begin(<<SetErased(Found(t))>>, t, Absent, FALSE)
  BY FoundLemma DEF Del
<1>2. PICK a \in Holding(flash, t) : a = Found(t)
  BY <1>1
<1>3. PICK x : x = SetErased(a)
  OBVIOUS
<1>4. PICK o : o = Absent
  OBVIOUS
<1>5. Begin(<<x>>, t, o, FALSE) /\ x \in {SetErased(a), SetLocked(a)}
  BY <1>1, <1>2, <1>3, <1>4
<1>6. o \in Contents
  BY <1>4 DEF Contents
<1>7. x = SetLocked(a) => o = [value |-> Data(flash, a), locked |-> TRUE]
  <2>1. SetErased(a) # SetLocked(a)
    BY MarksDiffer DEF Inv, Types
  <2> QED BY <1>3, <2>1
<1> QED BY <1>4, <1>5, <1>6, <1>7, ChangeStep

LEMMA LockStep ==
    ASSUME Inv, NEW t \in Tags, Lock(t)
    PROVE  Inv'
<1>1. /\ Found(t) \in Holding(flash, t)
      /\ Begin(<<SetLocked(Found(t))>>, t, [value |-> Data(flash, Found(t)), locked |-> TRUE], FALSE)
  BY FoundLemma DEF Lock
<1>2. PICK a \in Holding(flash, t) : a = Found(t)
  BY <1>1
<1>3. PICK x : x = SetLocked(a)
  OBVIOUS
<1>4. PICK o : o = [value |-> Data(flash, a), locked |-> TRUE]
  OBVIOUS
<1>5. Begin(<<x>>, t, o, FALSE) /\ x \in {SetErased(a), SetLocked(a)}
  BY <1>1, <1>2, <1>3, <1>4
<1>6. o \in Contents
  <2>1. a \in Headers(flash) /\ flash \in Flashes
    BY DEF Holding, Inv, Types
  <2>2. Content(flash, a) \in [value : Seq(Byte), locked : BOOLEAN]
    BY <2>1, ContentLemma
  <2>3. Data(flash, a) \in Seq(Byte)
    BY <2>2 DEF Content
  <2> QED BY <1>4, <2>3 DEF Contents
<1>7. x = SetErased(a) => o = Absent
  <2>1. SetErased(a) # SetLocked(a)
    BY MarksDiffer DEF Inv, Types
  <2> QED BY <1>3, <2>1
<1> QED BY <1>4, <1>5, <1>6, <1>7, ChangeStep

\* The flash m with a new tag behind its last one, and the accesses that write it.
LEMMA AppendTarget ==
    ASSUME NEW m \in Flashes, Tidy(m), NEW t \in Tags, NEW v \in Values, Holding(m, t) = {},
           NEW e, e = End(m), NEW l, l = Len(v), e + 3 + l <= Size - 1
    PROVE  \E f \in Flashes :
              /\ Plan(f, t, e, l, e + 3 + l) /\ f[0] = Magic /\ Tidy(f) /\ (One(m) => One(f))
              /\ \A u : u # t => View(f, u) = View(m, u)
              /\ View(f, t) = New(v) /\ Part(f, e, l, e) = m
              /\ NewTag(e, t, v) = Rest(f, e, l, e, e + 3 + l)
              /\ \A x \in 0 .. Sector - 1 : x < e => f[x] = m[x]
<1>1. t \in 0 .. 6 /\ v \in Seq(Byte) /\ Len(v) <= 6 /\ l \in Nat /\ e \in Nat
  BY TagLemma, EndLemma
<1> DEFINE f == Wrote(m, t, v)
<1>2. /\ f \in Flashes
      /\ f[End(m)] = t /\ f[End(m) + 1] = 6 /\ f[End(m) + 2] = Len(v)
      /\ \A i \in 1 .. Len(v) : f[End(m) + 2 + i] = v[i]
      /\ \A x \in 0 .. Sector - 1 : x < End(m) => f[x] = m[x]
      /\ Part(f, End(m), Len(v), End(m)) = m
  <2>1. f \in Flashes
    BY <1>1, WroteLemma
  <2>2. f[End(m)] = t /\ f[End(m) + 1] = 6 /\ f[End(m) + 2] = Len(v)
    BY <1>1, WroteLemma
  <2>3. \A i \in 1 .. Len(v) : f[End(m) + 2 + i] = v[i]
    BY <1>1, WroteLemma
  <2>4. \A x \in 0 .. Sector - 1 : x < End(m) => f[x] = m[x]
    BY <1>1, WroteLemma
  <2>5. Part(f, End(m), Len(v), End(m)) = m
    BY <1>1, WroteLemma
  <2> QED BY <2>1, <2>2, <2>3, <2>4, <2>5
<1>3. /\ Plan(f, t, End(m), Len(v), End(m) + 3 + Len(v))
      /\ Tidy(f) /\ (One(m) => One(f))
      /\ \A u : u # t => View(f, u) = View(m, u)
      /\ View(f, t) = New(v)
  BY <1>1, AppendLemma
<1> HIDE DEF f
<1>4. NewTag(e, t, v) = Rest(f, e, l, e, e + 3 + l)
  <2>1. TagAt(f, e, t, v, l)
    BY <1>1, <1>2 DEF TagAt
  <2> QED BY <2>1, NewTagLemma
<1>5. f[0] = Magic
  BY <1>3 DEF Tidy
<1> QED BY <1>2, <1>3, <1>4, <1>5

\* What a call writes is what it has to reach.
LEMMA BegunTarget ==
    ASSUME Inv, NEW s \in Seq(Accesses), NEW t \in Tags, NEW o \in Contents, NEW b \in BOOLEAN,
           Begin(s, t, o, b),
           NEW f \in Flashes, NEW e, NEW l, NEW n, Plan(f, t, e, l, n), f[0] = Magic,
           crashes = 0 => Tidy(f) /\ One(f) /\ View(f, t) = o,
           \A u \in Tags : u # t => View(f, u) = View(flash, u),
           n # e => View(f, t) = o
    PROVE  Target(f, e, l, n)'
<1>1. Goal(f)'
  BY BegunGoal
<1>2. call'.tag = t /\ expect'[t] = o
  BY BeginLemma
<1> QED BY <1>1, <1>2 DEF Target

\* There is no copy that nvds_put has to mark, or one.
LEMMA MarksLemma ==
    ASSUME flash \in Flashes, One(flash), NEW t, NEW s, s = EraseAll(Holding(flash, t))
    PROVE  \/ Holding(flash, t) = {} /\ s = << >>
           \/ \E a \in Holding(flash, t) : s = <<SetErased(a)>> /\ SetErased(a) \in Programs
<1>1. Holding(flash, t) \in SUBSET Headers(flash)
  BY HoldingLemma
<1>2. CASE Holding(flash, t) = {}
  BY <1>1, <1>2, EraseAllLemma
<1>3. CASE Holding(flash, t) # {}
  <2>1. PICK a \in Holding(flash, t) : TRUE
    BY <1>3
  <2>2. Holding(flash, t) = {a}
    BY OneLemma
  <2>3. s = <<SetErased(a)>>
    BY <1>1, <2>2, EraseAllLemma
  <2>4. SetErased(a) \in Programs
    <3>1. a \in Headers(flash)
      BY <1>1, <2>1
    <3> QED BY <3>1, StatusLemma
  <2> QED BY <2>3, <2>4
<1> QED BY <1>2, <1>3

LEMMA PutAppendsStep ==
    ASSUME Inv, NEW t \in Tags, NEW v \in Values, PutAppends(t, v)
    PROVE  Inv'
<1>1. ~Full(v) /\ Begin(EraseAll(Holding(flash, t)) \o NewTag(End(flash), t, v), t, New(v), TRUE)
  BY DEF PutAppends
<1>2. flash \in Flashes
  BY DEF Inv, Types
<1>3. t \in 0 .. 6 /\ v \in Seq(Byte) /\ Len(v) <= 6 /\ Len(v) \in Nat /\ End(flash) \in Nat
      /\ End(flash) \in Walk(flash) /\ Size \in Nat
  BY <1>2, TagLemma, EndLemma, PlacesLemma
<1>4. PICK e \in Nat : e = End(flash)
  BY <1>3
<1>5. PICK l \in Nat : l = Len(v)
  BY <1>3
<1>6. e + 3 + l <= Size - 1 /\ e + 3 + l <= Size
  <2>1. ~(e + 2 * 3 + l > Size - 1)
    BY <1>1, <1>4, <1>5 DEF Full, Hdr
  <2> QED BY <1>3, <2>1
<1>7. PICK s : s = EraseAll(Holding(flash, t))
  OBVIOUS
<1>8. PICK r : r = NewTag(e, t, v)
  OBVIOUS
<1>9. PICK q : q = s \o r
  OBVIOUS
<1>10. PICK o : o = New(v)
  OBVIOUS
<1>11. Begin(q, t, o, TRUE) /\ TRUE \in BOOLEAN
  BY <1>1, <1>4, <1>7, <1>8, <1>9, <1>10
<1>12. o \in Contents
  BY <1>3, <1>10 DEF New, Contents
<1>13. Aside(q, flash, End(flash), t)
  <2>1. Aside(s, flash, End(flash), t)
    <3>1. Holding(flash, t) \in SUBSET Holding(flash, t)
      OBVIOUS
    <3> QED BY <1>2, <1>7, <3>1, MarksAside
  <2>2. Aside(r, flash, e, t)
    <3>1. t \in Byte
      BY <1>3, PlacesLemma
    <3>2. e <= e /\ e + 3 + Len(v) <= Size
      BY <1>5, <1>6
    <3> QED BY <1>3, <1>8, <3>1, <3>2, NewTagAside
  <2> QED BY <1>4, <1>9, <2>1, <2>2, AsideJoin
<1>14. CASE crashes # 0
  BY <1>11, <1>12, <1>13, <1>14, BegunSpoiled
<1>15. CASE crashes = 0
  <2>1. q \in Seq(Accesses) /\ Tame'
    BY <1>11, <1>12, <1>13, BegunTame
  <2>2. /\ Goal(flash) /\ Types' /\ Tally' /\ todo' = q /\ flash' = flash /\ crashes' = crashes
        /\ call'.tag = t /\ call'.old = View(flash, t) /\ expect'[t] = o
    BY <1>11, <1>12, <2>1, BeginLemma
  <2>3. Tidy(flash) /\ One(flash) /\ flash[0] = Magic
    BY <1>15, <2>2, CleanLemma DEF Goal
  <2>4. ASSUME NEW m \in Flashes, Tidy(m), One(m), Holding(m, t) = {}, End(m) = e,
               \A u : u # t => View(m, u) = View(flash, u)
        PROVE  \E f, n : /\ Target(f, e, l, n)' /\ e < n
                         /\ Part(f, e, l, e) = m /\ r = Rest(f, e, l, e, n)
    <3>1. PICK f \in Flashes :
             /\ Plan(f, t, e, l, e + 3 + l) /\ f[0] = Magic /\ Tidy(f) /\ One(f)
             /\ \A u : u # t => View(f, u) = View(m, u)
             /\ View(f, t) = New(v) /\ Part(f, e, l, e) = m
             /\ NewTag(e, t, v) = Rest(f, e, l, e, e + 3 + l)
      BY <1>5, <1>6, <2>4, AppendTarget
    <3>2. PICK n : n = e + 3 + l
      OBVIOUS
    <3>3. e < n
      BY <3>2
    <3>4. View(f, t) = o /\ \A u \in Tags : u # t => View(f, u) = View(flash, u)
      BY <1>10, <2>4, <3>1
    <3>5. Plan(f, t, e, l, n)
      BY <3>1, <3>2
    <3>6. Target(f, e, l, n)'
      BY <1>11, <1>12, <2>1, <3>1, <3>4, <3>5, BegunTarget
    <3> QED BY <1>8, <3>1, <3>2, <3>3, <3>6
  <2>5. Fair(flash)'
    BY <2>2 DEF Fair
  <2>6. r \in Seq(Programs)
    <3>1. t \in Byte /\ e <= e /\ e + 3 + Len(v) <= Size
      BY <1>3, <1>5, <1>6, PlacesLemma
    <3>2. Aside(r, flash, e, t)
      BY <1>3, <1>8, <3>1, NewTagAside
    <3> QED BY <3>2 DEF Aside
  <2>7. CASE Holding(flash, t) = {} /\ s = << >>
    <3>1. PICK f, n : /\ Target(f, e, l, n)' /\ e < n
                      /\ Part(f, e, l, e) = flash /\ r = Rest(f, e, l, e, n)
      <4>1. PICK m : m = flash
        OBVIOUS
      <4> QED BY <1>2, <1>4, <2>3, <2>4, <2>7, <4>1
    <3>2. q = r
      BY <1>9, <2>6, <2>7, ConcatEmptySeq
    <3>3. Building(f, e, l, n, e)'
      BY <2>2, <3>1, <3>2 DEF Building
    <3> QED BY <2>1, <2>2, <3>3 DEF Inv, Working, Changes
  <2>8. ASSUME NEW a \in Holding(flash, t), s = <<SetErased(a)>>, SetErased(a) \in Programs
        PROVE  Inv'
    <3>1. PICK x : x = SetErased(a)
      OBVIOUS
    <3>2. PICK m : m = After(flash, x)
      OBVIOUS
    <3>3. /\ m \in Flashes /\ Tidy(m) /\ One(m) /\ End(m) = e
          /\ \A u : u # t => View(m, u) = View(flash, u)
          /\ Holding(m, t) = {}
      BY <1>2, <1>4, <2>3, <3>1, <3>2, MarkedLemma
    <3>4. PICK f, n : /\ Target(f, e, l, n)' /\ e < n
                      /\ Part(f, e, l, e) = m /\ r = Rest(f, e, l, e, n)
      BY <2>4, <3>3
    <3>5. After(flash', x) = m
      BY <2>2, <3>2
    <3>6. Replacing(f, e, l, n, x)'
      BY <1>9, <2>2, <2>5, <2>8, <3>1, <3>4, <3>5 DEF Replacing
    <3> QED BY <2>1, <2>2, <3>6 DEF Inv, Working, Changes
  <2> QED BY <1>2, <1>7, <2>3, <2>7, <2>8, MarksLemma
<1> QED BY <1>14, <1>15

\* A call that purges: f is what the sector is to hold.
LEMMA PurgeBegins ==
    ASSUME Inv, NEW t \in Tags, NEW o \in Contents, NEW b \in BOOLEAN,
           NEW f \in Flashes, NEW e, NEW l, NEW n, Plan(f, t, e, l, n), f[0] = Magic,
           One(flash) => Tidy(f) /\ One(f) /\ View(f, t) = o,
           \A u \in Tags : u # t => View(f, u) = View(flash, u),
           n # e => View(f, t) = o,
           Begin(EraseAll(Holding(flash, t)) \o Renew(f, e, l, n), t, o, b)
    PROVE  Inv'
<1>1. flash \in Flashes
  BY DEF Inv, Types
<1>2. PICK s : s = EraseAll(Holding(flash, t))
  OBVIOUS
<1>3. s \in Seq(Programs) /\ s \in Seq(Accesses)
  <2>1. Holding(flash, t) \in SUBSET Headers(flash)
    BY <1>1, HoldingLemma
  <2>2. s \in Seq(Programs)
    BY <1>1, <1>2, <2>1, EraseAllLemma
  <2>3. Programs \subseteq Accesses
    BY DEF Programs
  <2> QED BY <2>2, <2>3, SeqMonotonic
<1>4. PICK r : r = Renew(f, e, l, n)
  OBVIOUS
<1>5. e \in Nat /\ l \in Nat /\ n \in Nat /\ n \in {e, e + 3 + l} /\ n <= Size
  BY EndsLemma
<1>6. r \in Seq(Accesses) /\ \E i \in 1 .. Len(r) : r[i] = Erase
  BY <1>4, <1>5, RenewLemma
<1>7. PICK q : q = s \o r
  OBVIOUS
<1>8. q \in Seq(Accesses) /\ Contains(q, Erase)
  <2>1. q \in Seq(Accesses) /\ Len(q) = Len(s) + Len(r) /\ Len(s) \in Nat /\ Len(r) \in Nat
    BY <1>3, <1>6, <1>7
  <2>2. PICK i \in 1 .. Len(r) : r[i] = Erase
    BY <1>6
  <2>3. Len(s) + i \in 1 .. Len(q)
    BY <2>1
  <2>4. q[Len(s) + i] = r[i]
    BY <1>3, <1>6, <1>7, <2>1
  <2> QED BY <2>1, <2>2, <2>3, <2>4 DEF Contains
<1>9. Begin(q, t, o, b)
  BY <1>2, <1>4, <1>7
<1>10. /\ Goal(flash) /\ Types' /\ Tally' /\ todo' = q /\ flash' = flash /\ crashes' = crashes
       /\ call'.tag = t /\ call'.old = View(flash, t) /\ call'.purges = Contains(q, Erase)
       /\ call'.clean = (crashes = 0)
  <2>1. q \in Seq(Accesses)
    BY <1>8
  <2>2. Goal(flash) /\ Types' /\ Tally'
    BY <2>1, <1>9, BeginLemma
  <2>3. todo' = q /\ flash' = flash /\ crashes' = crashes
    BY <2>1, <1>9, BeginLemma
  <2>4. call'.tag = t /\ call'.old = View(flash, t)
    BY <2>1, <1>9, BeginLemma
  <2>5. call'.purges = Contains(q, Erase)
    BY <2>1, <1>9, BeginLemma
  <2>6. call'.clean = (crashes = 0)
    BY <2>1, <1>9, BeginLemma
  <2> QED BY <2>2, <2>3, <2>4, <2>5, <2>6
<1>11. crashes = 0 => One(flash)
  BY <1>10, CleanLemma
<1>12. Target(f, e, l, n)'
  <2>1. crashes = 0 => Tidy(f) /\ One(f) /\ View(f, t) = o
    BY <1>11
  <2> QED BY <1>8, <1>9, <2>1, BegunTarget
<1>13. Fair(flash)'
  BY <1>10 DEF Fair
<1>14. ASSUME crashes = 0, s # << >> PROVE Len(s) = 1 /\ Fair(After(flash, s[1]))'
  <2>1. PICK a \in Holding(flash, t) : s = <<SetErased(a)>>
    BY <1>1, <1>2, <1>11, <1>14, MarksLemma
  <2>2. PICK x : x = SetErased(a)
    OBVIOUS
  <2>3. Len(s) = 1 /\ s[1] = x
    BY <2>1, <2>2
  <2>4. PICK m : m = After(flash, x)
    OBVIOUS
  <2>5. View(m, t) = Absent
    BY <1>1, <1>11, <1>14, <2>2, <2>4, MarkedLemma
  <2>6. Fair(m)'
    BY <1>10, <2>5 DEF Fair
  <2>7. After(flash', s[1]) = m
    BY <1>10, <2>3, <2>4
  <2>8. Fair(After(flash, s[1]))'
    BY <2>6, <2>7 DEF Fair
  <2> QED BY <2>3, <2>8
<1>15. Erasing(f, e, l, n, s)'
  <2>1. todo' = s \o Renew(f, e, l, n)
    BY <1>4, <1>7, <1>10
  <2>2. call'.purges
    BY <1>8, <1>10
  <2>3. call'.clean => Fair(flash)' /\ (s # << >> => Len(s) = 1 /\ Fair(After(flash, s[1]))')
    BY <1>10, <1>13, <1>14
  <2> QED BY <1>3, <1>12, <2>1, <2>2, <2>3 DEF Erasing
<1>16. Purging'
  BY <1>15 DEF Purging
<1> QED BY <1>10, <1>16 DEF Inv, Working

LEMMA PutPurgesStep ==
    ASSUME Inv, NEW t \in Tags, NEW v \in Values, PutPurges(t, v)
    PROVE  Inv'
<1>1. flash \in Flashes /\ t \in 0 .. 6 /\ v \in Seq(Byte) /\ Len(v) <= 6 /\ Len(v) \in Nat
  BY TagLemma DEF Inv, Types
<1>2. PICK m : m = Packed(flash, t)
  OBVIOUS
<1>3. Total(t) = Cardinality(KeptOf(flash, t)) /\ Total(t) \in Nat
  BY <1>1, KeptLemma DEF Total, Kept, KeptOf
<1>4. /\ m \in Flashes /\ Tidy(m) /\ Holding(m, t) = {} /\ End(m) = Start + Total(t)
      /\ One(flash) => One(m)
      /\ \A u : u # t => View(m, u) = View(flash, u)
  BY <1>1, <1>2, <1>3, PurgeLemma
<1>5. PICK e : e = Start + Total(t)
  OBVIOUS
<1>6. e \in Nat /\ e = End(m)
  BY <1>3, <1>4, <1>5, PlacesLemma
<1>7. PICK l \in Nat : l = Len(v)
  BY <1>1
<1>8. m[0] = Magic
  BY <1>4 DEF Tidy
<1> DEFINE s == EraseAll(Holding(flash, t))
<1>9. CASE e + Hdr + Len(v) > Size - 1
  <2>1. Begin(s \o Purge(t), t, Absent, FALSE)
    BY <1>5, <1>9 DEF PutPurges
  <2>2. Purge(t) = Renew(m, e, 0, e)
    BY <1>1, <1>2, <1>5, PurgeAccesses
  <2>3. PICK o : o = Absent
    OBVIOUS
  <2>4. o \in Contents
    BY <2>3 DEF Contents
  <2>5. Begin(s \o Renew(m, e, 0, e), t, o, FALSE) /\ FALSE \in BOOLEAN
    BY <2>1, <2>2, <2>3
  <2>6. Plan(m, t, e, 0, e)
    BY <1>4, <1>6, KeepLemma
  <2>7. View(m, t) = o
    BY <1>4, <2>3, HoldingLemma
  <2> HIDE DEF s
  <2>8. One(flash) => Tidy(m) /\ One(m) /\ View(m, t) = o
    BY <1>4, <2>7
  <2>9. \A u \in Tags : u # t => View(m, u) = View(flash, u)
    BY <1>4
  <2> QED BY <1>4, <1>8, <2>4, <2>5, <2>6, <2>7, <2>8, <2>9, PurgeBegins DEF s
<1>10. CASE ~(e + Hdr + Len(v) > Size - 1)
  <2>1. Begin((s \o Purge(t)) \o NewTag(e, t, v), t, New(v), TRUE)
    BY <1>5, <1>10 DEF PutPurges
  <2>2. e + 3 + l <= Size - 1
    BY <1>6, <1>7, <1>10, PlacesLemma
  <2>3. PICK f \in Flashes :
           /\ Plan(f, t, e, l, e + 3 + l) /\ f[0] = Magic /\ Tidy(f)
           /\ One(flash) => One(f)
           /\ \A u : u # t => View(f, u) = View(m, u)
           /\ View(f, t) = New(v)
           /\ NewTag(e, t, v) = Rest(f, e, l, e, e + 3 + l)
           /\ \A x \in 0 .. Sector - 1 : x < e => f[x] = m[x]
    BY <1>1, <1>4, <1>6, <1>7, <2>2, AppendTarget
  <2>4. PICK n \in Nat : n = e + 3 + l
    BY <1>6
  <2>5. PICK o : o = New(v)
    OBVIOUS
  <2>6. o \in Contents
    BY <1>1, <2>5 DEF New, Contents
  <2>7. Purge(t) = Renew(f, e, l, e)
    BY <1>1, <1>2, <1>5, <2>3, PurgeAccesses
  <2>8. Renew(f, e, l, e) \o Rest(f, e, l, e, n) = Renew(f, e, l, n)
    <3>1. e <= n
      BY <1>6, <1>7, <2>4
    <3>2. e \in Nat /\ n \in Nat
      BY <1>6
    <3> QED BY <3>1, <3>2, RenewJoin, Zenon
  <2>9. (s \o Purge(t)) \o NewTag(e, t, v) = s \o Renew(f, e, l, n)
    <3> DEFINE p == Renew(f, e, l, e)
               r == Rest(f, e, l, e, n)
    <3>1. e \in {e, e + 3 + l} /\ n \in {e, e + 3 + l} /\ e <= Size /\ n <= Size /\ e <= n
      BY <1>6, <2>2, <2>4, PlacesLemma
    <3>2. p \in Seq(Accesses)
      BY <1>6, <3>1, RenewLemma
    <3>3. r \in Seq(Programs)
      BY <1>6, <3>1, PartLemma
    <3>4. s \in Seq(Programs)
      <4>1. Holding(flash, t) \in SUBSET Headers(flash)
        BY <1>1, HoldingLemma
      <4> QED BY <1>1, <4>1, EraseAllLemma
    <3>5. Programs \subseteq Accesses
      BY DEF Programs
    <3> HIDE DEF p, r, s
    <3>6. r \in Seq(Accesses) /\ s \in Seq(Accesses)
      BY <3>3, <3>4, <3>5, SeqMonotonic
    <3>7. (s \o p) \o r = s \o (p \o r)
      BY <3>2, <3>6, ConcatAssociative
    <3>8. Purge(t) = p /\ NewTag(e, t, v) = r /\ p \o r = Renew(f, e, l, n)
      BY <2>3, <2>4, <2>7, <2>8 DEF p, r
    <3> QED BY <3>7, <3>8
  <2>10. Begin(s \o Renew(f, e, l, n), t, o, TRUE) /\ TRUE \in BOOLEAN
    BY <2>1, <2>5, <2>9
  <2>11. Plan(f, t, e, l, n) /\ View(f, t) = o
    BY <2>3, <2>4, <2>5
  <2> HIDE DEF s
  <2>12. One(flash) => Tidy(f) /\ One(f) /\ View(f, t) = o
    BY <2>3, <2>11
  <2>13. \A u \in Tags : u # t => View(f, u) = View(flash, u)
    BY <1>4, <2>3
  <2> QED BY <2>3, <2>6, <2>10, <2>11, <2>12, <2>13, PurgeBegins DEF s
<1> QED BY <1>9, <1>10

LEMMA NextInv ==
    Inv /\ [Next]_vars => Inv'
<1> SUFFICES ASSUME Inv, [Next]_vars PROVE Inv'
  OBVIOUS
<1>1. ASSUME NEW t \in Tags, NEW v \in Values, PutKeeps(t, v) PROVE Inv'
  BY <1>1, PutKeepsStep
<1>2. ASSUME NEW t \in Tags, NEW v \in Values, PutAppends(t, v) PROVE Inv'
  BY <1>2, PutAppendsStep
<1>3. ASSUME NEW t \in Tags, NEW v \in Values, PutPurges(t, v) PROVE Inv'
  BY <1>3, PutPurgesStep
<1>4. ASSUME NEW t \in Tags, Del(t) PROVE Inv'
  BY <1>4, DelStep
<1>5. ASSUME NEW t \in Tags, Lock(t) PROVE Inv'
  BY <1>5, LockStep
<1>6. CASE Work
  BY <1>6, WorkStep
<1>7. CASE Crash
  BY <1>7, CrashStep
<1>8. CASE UNCHANGED vars
  <2> USE <1>8 DEF vars
  <2>1. Types' /\ Tally'
    BY DEF Inv, Types, Tally
  <2>2. \A m : (Goal(m)' <=> Goal(m)) /\ (Fair(m)' <=> Fair(m))
    BY DEF Goal, Fair
  <2>3. Resting => Resting'
    BY <2>2 DEF Resting
  <2>4. \A f, e, l, n : Target(f, e, l, n) => Target(f, e, l, n)'
    BY <2>2 DEF Target
  <2>5. Purging => Purging'
    BY <2>2, <2>4 DEF Purging, Erasing, Building
  <2>6. Tame => Tame'
    BY DEF Tame
  <2>7. Changes => Changes'
    BY <2>2, <2>4 DEF Changes, Building, Replacing, Changing, Spoiled
  <2> QED BY <2>1, <2>3, <2>5, <2>6, <2>7 DEF Inv, Working
<1> QED BY <1>1, <1>2, <1>3, <1>4, <1>5, <1>6, <1>7, <1>8 DEF Next

\* The invariant from which the properties follow.
THEOREM InductiveInvariant == Spec => []Inv
BY InitInv, NextInv, PTL DEF Spec

\* Every access of a call is inside the sector, whatever the flash holds after a power loss.
THEOREM TypeCorrect == Spec => []TypeOK
<1>1. Inv => TypeOK
  <2> SUFFICES ASSUME Types PROVE TypeOK
    BY DEF Inv
  <2>1. ASSUME NEW i \in DOMAIN todo
        PROVE  /\ todo[i].op \in {"erase", "program"}
               /\ todo[i].at \in 0 .. Sector - 1 /\ todo[i].byte \in Byte
    <3>1. todo[i] \in Accesses
      BY DEF Types
    <3> QED BY <3>1 DEF Accesses
  <2> QED BY <2>1 DEF Types, TypeOK, Flashes
<1> QED BY <1>1, InductiveInvariant, PTL

\* A power loss costs no tag its value but the one that was being written, unless the sector
\* was being purged (nvds_put, nvds_del).
THEOREM EarlierTagsAreKept == Spec => []EarlierTagsSurvive
<1>1. Inv => EarlierTagsSurvive
  BY ReadyLemma DEF Ready, Resting, Goal, EarlierTagsSurvive
<1> QED BY <1>1, InductiveInvariant, PTL

\* The first power loss leaves the old value of the tag, the new one, none, or a tag without
\* a length (nvds_write_tag programs the header after the data).
THEOREM NothingIsMixed == Spec => []NoMixture
<1>1. Inv => NoMixture
  <2> SUFFICES ASSUME Inv, Ready, call.clean PROVE Fair(flash)
    BY DEF NoMixture, Fair
  <2> QED BY ReadyLemma DEF Ready, Resting
<1> QED BY <1>1, InductiveInvariant, PTL

-----------------------------------------------------------------------------
(* The calls implement the abstract store.                                 *)

\* While the power stays on, a client has made of the tags what it expects.
Shown == Seen = IF crashes > 0 THEN Lost ELSE expect

LEMMA SeenLemma ==
    Inv => Shown
<1> SUFFICES ASSUME Inv, crashes = 0, Ready PROVE [t \in Tags |-> View(flash, t)] = expect
  BY DEF Inv, Types, Shown, Seen
<1>1. \A t \in Tags : View(flash, t) = expect[t]
  BY ReadyLemma, CleanLemma DEF Ready, Resting
<1>2. expect \in [Tags -> Contents]
  BY DEF Inv, Types
<1> QED BY <1>1, <1>2

\* What a client sees of a call.
LEMMA BeginSeen ==
    ASSUME Inv, Shown, Shown', NEW s, NEW t \in Tags, NEW o, NEW b, Begin(s, t, o, b)
    PROVE  /\ crashes # 0 => Seen' = Seen
           /\ crashes = 0 =>
                /\ flash \in Flashes /\ Tidy(flash) /\ One(flash)
                /\ \A u \in Tags : View(flash, u) = Seen[u]
                /\ Seen \in [Tags -> Contents] /\ Seen # Lost
                /\ Seen' = [Seen EXCEPT ![t] = o]
<1>1. todo = << >> /\ crashes' = crashes /\ expect' = [expect EXCEPT ![t] = o]
  BY DEF Begin, Ready
<1>2. /\ crashes \in 0 .. MaxCrashes /\ MaxCrashes \in Nat /\ expect \in [Tags -> Contents]
      /\ flash \in Flashes
  BY NvdsAssumption DEF Inv, Types
<1>3. crashes # 0 => Seen' = Seen
  BY <1>1, <1>2 DEF Shown
<1>4. ASSUME crashes = 0
      PROVE  /\ Tidy(flash) /\ One(flash) /\ \A u \in Tags : View(flash, u) = Seen[u]
             /\ Seen = expect /\ Seen' = [Seen EXCEPT ![t] = o]
  <2>1. Seen = expect /\ Seen' = expect'
    BY <1>1, <1>4 DEF Shown
  <2>2. Tidy(flash) /\ One(flash) /\ \A u \in Tags : View(flash, u) = expect[u]
    BY <1>1, <1>4, ReadyLemma, CleanLemma DEF Resting
  <2> QED BY <1>1, <2>1, <2>2
<1>5. expect # Lost
  BY <1>2, StoreAssumption
<1> QED BY <1>2, <1>3, <1>4, <1>5

\* The bytes of the other tags are those that a purge keeps.
LEMMA TakenLemma ==
    ASSUME flash \in Flashes, One(flash), NEW t \in Tags,
           \A u \in Tags : View(flash, u) = Seen[u]
    PROVE  Cardinality(Store!Taken(t)) = Total(t) /\ Total(t) <= End(flash) - 1
<1> DEFINE K == KeptOf(flash, t)
           D == Store!Taken(t)
<1>1. /\ K \in SUBSET Nat /\ IsFiniteSet(K)
      /\ \A x : x \in K <=> \E a \in Others(flash, t) : x \in a .. Behind(flash, a) - 1
      /\ Others(flash, t) \subseteq Headers(flash)
  BY KeptLemma
<1>2. Total(t) = Cardinality(K)
  BY DEF Total, Kept, KeptOf
<1>3. \A a \in Headers(flash) :
          /\ a \in Nat /\ 1 <= a /\ Behind(flash, a) \in Nat /\ Behind(flash, a) <= End(flash)
          /\ a + 3 <= Behind(flash, a) /\ a \in Walk(flash)
  <2> SUFFICES ASSUME NEW a \in Headers(flash)
               PROVE  /\ a \in Nat /\ 1 <= a /\ Behind(flash, a) \in Nat /\ Behind(flash, a) <= End(flash)
                      /\ a + 3 <= Behind(flash, a) /\ a \in Walk(flash)
    OBVIOUS
  <2>1. a \in Places /\ a \in Walk(flash) /\ Behind(flash, a) <= End(flash) /\ a + 3 <= Behind(flash, a)
    BY EndLemma
  <2>2. a \in Nat /\ 1 <= a /\ Behind(flash, a) \in Nat
    BY <2>1, BehindLemma, PlacesLemma DEF Places
  <2> QED BY <2>1, <2>2
<1>4. ASSUME NEW u \in Tags, NEW a \in Holding(flash, u)
      PROVE  /\ Holding(flash, u) = {a} /\ a \in Headers(flash) /\ flash[a] = u
             /\ Store!Weight(Seen[u]) = Behind(flash, a) - a
  <2>1. Holding(flash, u) = {a} /\ a \in Headers(flash) /\ flash[a] = u
    BY OneLemma DEF Holding
  <2>2. Seen[u] = Content(flash, a)
    BY <2>1, HoldingLemma
  <2>3. a \in Places /\ flash[a + 2] \in Nat /\ Behind(flash, a) = a + (3 + flash[a + 2]) /\ a \in Nat
    BY <2>1, EndLemma, BehindLemma, PlacesLemma
  <2>4. Content(flash, a) \in [value : Seq(Byte), locked : BOOLEAN] /\ Len(Content(flash, a).value) = flash[a + 2]
    <3>1. Content(flash, a) \in [value : Seq(Byte), locked : BOOLEAN]
      BY <2>1, ContentLemma
    <3>2. PICK v \in Seq(Byte) : v = Data(flash, a)
      BY <3>1 DEF Content
    <3>3. DOMAIN v = 1 .. flash[a + 2] /\ DOMAIN v = 1 .. Len(v) /\ Len(v) \in Nat
      <4>1. DOMAIN Data(flash, a) = 1 .. flash[a + 2]
        BY DEF Data
      <4>2. DOMAIN v = 1 .. flash[a + 2]
        BY <3>2, <4>1, Zenon
      <4>3. DOMAIN v = 1 .. Len(v) /\ Len(v) \in Nat
        BY LenProperties
      <4> QED BY <4>2, <4>3
    <3>4. Len(v) = flash[a + 2]
      BY <2>3, <3>3
    <3>5. Content(flash, a).value = v
      BY <3>2 DEF Content
    <3> QED BY <3>1, <3>4, <3>5
  <2>5. Content(flash, a) # Absent
    BY <2>4, StoreAssumption
  <2>6. Store!Weight(Seen[u]) = 3 + flash[a + 2]
    BY <2>2, <2>4, <2>5 DEF Store!Weight, Hdr
  <2> QED BY <2>1, <2>3, <2>6
<1>5. ASSUME NEW u \in Tags, Holding(flash, u) = {} PROVE Store!Weight(Seen[u]) = 0
  <2>1. Seen[u] = Absent
    BY <1>5, HoldingLemma
  <2> QED BY <2>1 DEF Store!Weight
<1>6. \A d : d \in D <=> \E u \in Tags \ {t} : \E i \in 1 .. Store!Weight(Seen[u]) : d = <<u, i>>
  <2> DEFINE B(u) == {u} \X (1 .. Store!Weight(Seen[u]))
  <2>1. D = UNION {B(u) : u \in Tags \ {t}}
    BY DEF Store!Taken
  <2>2. \A u, d : d \in B(u) <=> \E i \in 1 .. Store!Weight(Seen[u]) : d = <<u, i>>
    OBVIOUS
  <2> HIDE DEF B, D
  <2>3. \A d : d \in D <=> \E u \in Tags \ {t} : d \in B(u)
    BY <2>1
  <2> QED BY <2>2, <2>3, Zenon
\* Where in the flash the byte x lies in, and which of its tag it is.
<1> DEFINE tag(x) == CHOOSE a \in Others(flash, t) : x \in a .. Behind(flash, a) - 1
           f == [x \in K |-> <<flash[tag(x)], x - tag(x) + 1>>]
<1> HIDE DEF D, K
<1>7. ASSUME NEW a \in Others(flash, t), NEW x \in a .. Behind(flash, a) - 1
      PROVE  tag(x) = a
  <2>1. tag(x) \in Others(flash, t) /\ x \in tag(x) .. Behind(flash, tag(x)) - 1
    BY <1>7
  <2> HIDE DEF tag
  <2>2. /\ a \in Headers(flash) /\ tag(x) \in Headers(flash)
        /\ a \in Walk(flash) /\ tag(x) \in Walk(flash)
    BY <1>1, <1>3, <2>1
  <2>3. /\ a <= tag(x) \/ a >= Behind(flash, tag(x))
        /\ tag(x) <= a \/ tag(x) >= Behind(flash, a)
    BY <2>2, ApartLemma
  <2> QED BY <1>3, <2>1, <2>2, <2>3
<1>8. ASSUME NEW x \in K
      PROVE  \E a \in Others(flash, t) : /\ x \in a .. Behind(flash, a) - 1 /\ f[x] = <<flash[a], x - a + 1>>
                                         /\ a \in Holding(flash, flash[a]) /\ flash[a] \in Tags \ {t}
  <2>1. PICK a \in Others(flash, t) : x \in a .. Behind(flash, a) - 1
    BY <1>1
  <2>2. tag(x) = a
    BY <1>7, <2>1
  <2>3. a \in Headers(flash) /\ IsTagOk(flash, a) /\ flash[a] # t
    BY DEF Others
  <2>4. a \in Holding(flash, flash[a]) /\ flash[a] \in Tags \ {t}
    BY <2>3 DEF Holding, One
  <2> HIDE DEF tag
  <2>5. f[x] = <<flash[a], x - a + 1>>
    BY <2>2
  <2> QED BY <2>1, <2>4, <2>5
<1> HIDE DEF tag, f
<1>9. f \in [K -> D]
  <2>1. ASSUME NEW x \in K PROVE f[x] \in D
    <3>1. PICK a \in Others(flash, t) :
             /\ x \in a .. Behind(flash, a) - 1 /\ f[x] = <<flash[a], x - a + 1>>
             /\ a \in Holding(flash, flash[a]) /\ flash[a] \in Tags \ {t}
      BY <1>8
    <3>2. Store!Weight(Seen[flash[a]]) = Behind(flash, a) - a
      BY <1>4, <3>1
    <3>3. a \in Nat /\ Behind(flash, a) \in Nat
      BY <1>1, <1>3
    <3>4. x - a + 1 \in 1 .. Store!Weight(Seen[flash[a]])
      BY <3>1, <3>2, <3>3
    <3> QED BY <1>6, <3>1, <3>4
  <2> QED BY <2>1 DEF f
<1>10. ASSUME NEW x \in K, NEW y \in K, f[x] = f[y] PROVE x = y
  <2>1. PICK a \in Others(flash, t) :
           /\ x \in a .. Behind(flash, a) - 1 /\ f[x] = <<flash[a], x - a + 1>>
           /\ a \in Holding(flash, flash[a]) /\ flash[a] \in Tags \ {t}
    BY <1>8
  <2>2. PICK b \in Others(flash, t) :
           /\ y \in b .. Behind(flash, b) - 1 /\ f[y] = <<flash[b], y - b + 1>>
           /\ b \in Holding(flash, flash[b]) /\ flash[b] \in Tags \ {t}
    BY <1>8
  <2>3. flash[a] = flash[b] /\ x - a + 1 = y - b + 1
    <3>1. <<flash[a], x - a + 1>> = <<flash[b], y - b + 1>>
      BY <1>10, <2>1, <2>2, Zenon
    <3> QED BY <3>1
  <2>4. a = b
    BY <1>4, <2>1, <2>2, <2>3
  <2>5. a \in Nat /\ x \in Nat /\ y \in Nat
    BY <1>1, <1>3
  <2> QED BY <2>3, <2>4, <2>5
<1>11. ASSUME NEW d \in D PROVE \E x \in K : f[x] = d
  <2>1. PICK u \in Tags \ {t} : \E i \in 1 .. Store!Weight(Seen[u]) : d = <<u, i>>
    BY <1>6
  <2>12. PICK i \in 1 .. Store!Weight(Seen[u]) : d = <<u, i>>
    BY <2>1
  <2>2. Holding(flash, u) # {}
    BY <1>5, <2>12
  <2>3. PICK a \in Holding(flash, u) : TRUE
    BY <2>2
  <2>4. a \in Headers(flash) /\ flash[a] = u /\ Store!Weight(Seen[u]) = Behind(flash, a) - a
    BY <1>4
  <2>5. a \in Others(flash, t)
    BY <2>4 DEF Holding, Others
  <2>6. a \in Nat /\ Behind(flash, a) \in Nat
    BY <1>3, <2>4
  <2>7. a + i - 1 \in a .. Behind(flash, a) - 1 /\ (a + i - 1) - a + 1 = i
    BY <2>12, <2>4, <2>6
  <2>8. PICK x : x = a + i - 1
    OBVIOUS
  <2>9. x \in K /\ tag(x) = a
    BY <1>1, <1>7, <2>5, <2>7, <2>8
  <2>10. f[x] = <<flash[tag(x)], x - tag(x) + 1>>
    BY <2>9 DEF f
  <2>11. f[x] = <<u, i>>
    BY <2>4, <2>7, <2>8, <2>9, <2>10
  <2> QED BY <2>12, <2>9, <2>11
<1>12. Cardinality(D) = Cardinality(K)
  <2>1. f \in Bijection(K, D)
    BY <1>9, <1>10, <1>11 DEF Bijection, Injection, IsInjective, Surjection
  <2>2. ExistsBijection(K, D)
    BY <2>1 DEF ExistsBijection
  <2> QED BY <1>1, <2>2, FS_Bijection
<1>13. Cardinality(K) <= End(flash) - 1
  <2>1. End(flash) \in Nat /\ 1 <= End(flash)
    BY EndLemma, WalkLemma, PlacesLemma DEF Places
  <2>2. IsFiniteSet(1 .. End(flash) - 1) /\ Cardinality(1 .. End(flash) - 1) = End(flash) - 1
    <3>1. 1 \in Int /\ End(flash) - 1 \in Int
      BY <2>1
    <3>2. IsFiniteSet(1 .. End(flash) - 1)
          /\ Cardinality(1 .. End(flash) - 1) = IF 1 > End(flash) - 1 THEN 0 ELSE (End(flash) - 1) - 1 + 1
      BY <3>1, FS_Interval
    <3> QED BY <2>1, <3>2
  <2>3. K \in SUBSET (1 .. End(flash) - 1)
    <3> SUFFICES ASSUME NEW x \in K PROVE x \in 1 .. End(flash) - 1
      OBVIOUS
    <3>1. PICK a \in Headers(flash) : x \in a .. Behind(flash, a) - 1
      BY <1>1
    <3> QED BY <1>3, <2>1, <3>1
  <2> QED BY <2>2, <2>3, FS_Subset
<1> QED BY <1>2, <1>12, <1>13 DEF D

LEMMA FitsLemma ==
    ASSUME flash \in Flashes, One(flash), NEW t \in Tags, NEW v \in Values,
           \A u \in Tags : View(flash, u) = Seen[u]
    PROVE  /\ Store!Fits(t, v) <=> 3 + Len(v) + Total(t) <= Size - 2
           /\ Total(t) \in Nat /\ Total(t) <= End(flash) - 1 /\ End(flash) \in Nat
           /\ Len(v) \in Nat /\ Size \in Nat
<1>1. Cardinality(Store!Taken(t)) = Total(t) /\ Total(t) <= End(flash) - 1
  BY TakenLemma
<1>2. Total(t) \in Nat
  BY KeptLemma DEF Total, Kept, KeptOf
<1>3. End(flash) \in Nat /\ Size \in Nat /\ v \in Seq(Byte) /\ Len(v) \in Nat
  BY EndLemma, PlacesLemma, TagLemma
<1>4. Store!Cardinality(Store!Taken(t)) = Cardinality(Store!Taken(t))
  BY DEF Store!Cardinality, Cardinality
<1>5. Store!Fits(t, v) <=> 3 + Len(v) + Total(t) <= Size - 1 - 1
  BY <1>1, <1>4 DEF Store!Fits, Hdr, Start
<1> QED BY <1>1, <1>2, <1>3, <1>5

\* A tag that is not there, or not locked, can be put or deleted.
LEMMA OpenLemma ==
    ASSUME flash \in Flashes, One(flash), NEW t \in Tags,
           \A u \in Tags : View(flash, u) = Seen[u]
    PROVE  /\ Holding(flash, t) = {} => Seen[t] = Absent /\ Store!Open(t)
           /\ \A a \in Holding(flash, t) :
                /\ Holding(flash, t) = {a} /\ Seen[t] = Content(flash, a) /\ Seen[t] # Absent
                /\ ~IsLocked(flash, a) => Store!Open(t)
<1>1. Seen[t] = View(flash, t)
  OBVIOUS
<1>2. Holding(flash, t) = {} => Seen[t] = Absent /\ Store!Open(t)
  BY <1>1, HoldingLemma DEF Store!Open
<1>3. ASSUME NEW a \in Holding(flash, t)
      PROVE  /\ Holding(flash, t) = {a} /\ Seen[t] = Content(flash, a) /\ Seen[t] # Absent
             /\ ~IsLocked(flash, a) => Store!Open(t)
  <2>1. Holding(flash, t) = {a} /\ a \in Headers(flash)
    BY OneLemma DEF Holding
  <2>2. Seen[t] = Content(flash, a)
    BY <1>1, <2>1, HoldingLemma
  <2>3. Content(flash, a) \in [value : Seq(Byte), locked : BOOLEAN]
    BY <2>1, ContentLemma
  <2>4. Seen[t] # Absent
    BY <2>2, <2>3, StoreAssumption
  <2>5. Content(flash, a).locked = IsLocked(flash, a)
    BY DEF Content
  <2> QED BY <2>1, <2>2, <2>4, <2>5 DEF Store!Open
<1> QED BY <1>2, <1>3

LEMMA PutSeen ==
    ASSUME Inv, Shown, Shown', NEW t \in Tags, NEW v \in Values,
           PutKeeps(t, v) \/ PutAppends(t, v) \/ PutPurges(t, v)
    PROVE  Store!Put(t, v) \/ UNCHANGED Seen
<1>1. CASE PutKeeps(t, v)
  <2> DEFINE a == Min(Settled(t, v))
  <2>1. PICK s, b : Begin(s, t, Content(flash, a), b)
    BY <1>1 DEF PutKeeps
  <2>2. CASE crashes # 0
    BY <2>1, <2>2, BeginSeen
  <2>3. CASE crashes = 0
    <3>1. /\ flash \in Flashes /\ One(flash) /\ \A u \in Tags : View(flash, u) = Seen[u]
          /\ Seen \in [Tags -> Contents] /\ Seen' = [Seen EXCEPT ![t] = Content(flash, a)]
      BY <2>1, <2>3, BeginSeen
    <3>2. Settled(t, v) # {} /\ Settled(t, v) \in SUBSET Holding(flash, t)
      BY <1>1 DEF PutKeeps, Settled
    <3>3. Holding(flash, t) \in SUBSET Nat
      BY <3>1, HoldingLemma
    <3>4. a \in Holding(flash, t)
      BY <3>2, <3>3, MinLemma
    <3> HIDE DEF a
    <3>5. Seen[t] = Content(flash, a)
      BY <3>1, <3>4, OpenLemma
    <3> QED BY <3>1, <3>5
  <2> QED BY <2>2, <2>3
<1>2. CASE PutAppends(t, v)
  <2>1. /\ Settled(t, v) = {} /\ ~Full(v)
        /\ \E s : Begin(s, t, New(v), TRUE)
    BY <1>2 DEF PutAppends
  <2>2. CASE crashes # 0
    BY <2>1, <2>2, BeginSeen
  <2>3. CASE crashes = 0
    <3>1. /\ flash \in Flashes /\ One(flash) /\ \A u \in Tags : View(flash, u) = Seen[u]
          /\ Seen' = [Seen EXCEPT ![t] = New(v)]
      BY <2>1, <2>3, BeginSeen
    <3>2. Store!Open(t)
      <4>1. \A a \in Holding(flash, t) : ~IsLocked(flash, a)
        BY <2>1 DEF Settled
      <4>2. CASE Holding(flash, t) = {}
        BY <3>1, <4>2, OpenLemma
      <4>3. ASSUME NEW a \in Holding(flash, t) PROVE Store!Open(t)
        BY <3>1, <4>1, <4>3, OpenLemma
      <4> QED BY <4>2, <4>3
    <3>3. Store!Fits(t, v)
      <4>1. ~(End(flash) + 2 * 3 + Len(v) > Size - 1)
        BY <2>1 DEF Full, Hdr
      <4>2. /\ Store!Fits(t, v) <=> 3 + Len(v) + Total(t) <= Size - 2
            /\ Total(t) \in Nat /\ Total(t) <= End(flash) - 1 /\ End(flash) \in Nat
            /\ Len(v) \in Nat /\ Size \in Nat
        BY <3>1, FitsLemma
      <4>3. 3 + Len(v) + Total(t) <= Size - 2
        BY <4>1, <4>2
      <4> QED BY <4>2, <4>3
    <3> QED BY <3>1, <3>2, <3>3 DEF Store!Put, New
  <2> QED BY <2>2, <2>3
<1>3. CASE PutPurges(t, v)
  <2> DEFINE o == IF Start + Total(t) + Hdr + Len(v) > Size - 1 THEN Absent ELSE New(v)
  <2>1. Settled(t, v) = {} /\ \E s, b : Begin(s, t, o, b)
    BY <1>3 DEF PutPurges
  <2>2. CASE crashes # 0
    BY <2>1, <2>2, BeginSeen
  <2>3. CASE crashes = 0
    <3>1. /\ flash \in Flashes /\ One(flash) /\ \A u \in Tags : View(flash, u) = Seen[u]
          /\ Seen' = [Seen EXCEPT ![t] = o]
      BY <2>1, <2>3, BeginSeen
    <3>2. Store!Open(t)
      <4>1. \A a \in Holding(flash, t) : ~IsLocked(flash, a)
        BY <2>1 DEF Settled
      <4>2. CASE Holding(flash, t) = {}
        BY <3>1, <4>2, OpenLemma
      <4>3. ASSUME NEW a \in Holding(flash, t) PROVE Store!Open(t)
        BY <3>1, <4>1, <4>3, OpenLemma
      <4> QED BY <4>2, <4>3
    <3>3. Store!Fits(t, v) <=> ~(Start + Total(t) + Hdr + Len(v) > Size - 1)
      <4>1. /\ Store!Fits(t, v) <=> 3 + Len(v) + Total(t) <= Size - 2
            /\ Total(t) \in Nat /\ Len(v) \in Nat /\ Size \in Nat
        BY <3>1, FitsLemma
      <4>2. 3 + Len(v) + Total(t) <= Size - 2 <=> ~(1 + Total(t) + 3 + Len(v) > Size - 1)
        BY <4>1
      <4> QED BY <4>1, <4>2 DEF Start, Hdr
    <3>4. o = IF Store!Fits(t, v) THEN [value |-> v, locked |-> FALSE] ELSE Absent
      BY <3>3 DEF New
    <3> HIDE DEF o
    <3> QED BY <3>1, <3>2, <3>4 DEF Store!Put
  <2> QED BY <2>2, <2>3
<1> QED BY <1>1, <1>2, <1>3

LEMMA LockedLemma ==
    ASSUME NEW d, NEW l, NEW y
    PROVE  [[value |-> d, locked |-> l] EXCEPT !.locked = y] = [value |-> d, locked |-> y]
OBVIOUS

LEMMA DelSeen ==
    ASSUME Inv, Shown, Shown', NEW t \in Tags, Del(t) \/ Lock(t)
    PROVE  Store!Del(t) \/ Store!Lock(t) \/ UNCHANGED Seen
<1>1. PICK a \in Holding(flash, t) : a = Found(t)
  BY FoundLemma DEF Del, Lock
<1>2. CASE Del(t)
  <2>1. ~IsLocked(flash, a) /\ \E s : Begin(s, t, Absent, FALSE)
    BY <1>1, <1>2 DEF Del
  <2>2. CASE crashes # 0
    BY <2>1, <2>2, BeginSeen
  <2>3. CASE crashes = 0
    <3>1. /\ flash \in Flashes /\ One(flash) /\ \A u \in Tags : View(flash, u) = Seen[u]
          /\ Seen' = [Seen EXCEPT ![t] = Absent]
      BY <2>1, <2>3, BeginSeen
    <3>2. Store!Open(t)
      BY <2>1, <3>1, OpenLemma
    <3> QED BY <3>1, <3>2 DEF Store!Del
  <2> QED BY <2>2, <2>3
<1>3. CASE Lock(t)
  <2> DEFINE o == [value |-> Data(flash, a), locked |-> TRUE]
  <2>1. \E s : Begin(s, t, o, FALSE)
    BY <1>1, <1>3 DEF Lock
  <2> HIDE DEF o
  <2>2. CASE crashes # 0
    BY <2>1, <2>2, BeginSeen
  <2>3. CASE crashes = 0
    <3>1. /\ flash \in Flashes /\ One(flash) /\ \A u \in Tags : View(flash, u) = Seen[u]
          /\ Seen \in [Tags -> Contents]
          /\ Seen' = [Seen EXCEPT ![t] = o]
      BY <2>1, <2>3, BeginSeen
    <3>2. Seen[t] # Absent /\ Seen[t] = Content(flash, a)
      BY <3>1, OpenLemma
    <3>3. [Seen[t] EXCEPT !.locked = TRUE] = o
      <4>1. PICK d, l : d = Data(flash, a) /\ l = IsLocked(flash, a)
        OBVIOUS
      <4>2. Seen[t] = [value |-> d, locked |-> l] /\ o = [value |-> d, locked |-> TRUE]
        BY <3>2, <4>1 DEF Content, o
      <4>3. [[value |-> d, locked |-> l] EXCEPT !.locked = TRUE] = [value |-> d, locked |-> TRUE]
        BY LockedLemma
      <4>4. [Seen[t] EXCEPT !.locked = TRUE] = [value |-> d, locked |-> TRUE]
        BY <4>2, <4>3, Zenon
      <4> QED BY <4>2, <4>4, Zenon
    <3>4. Seen' = [Seen EXCEPT ![t].locked = TRUE]
      BY <3>1, <3>3
    <3> QED BY <3>2, <3>4 DEF Store!Lock
  <2> QED BY <2>2, <2>3
<1> QED BY <1>2, <1>3

\* A call is a step of the store only while the power has stayed on.
LEMMA BegunOpen ==
    ASSUME Inv, Shown, Shown', NEW t \in Tags,
           \/ \E v \in Values : PutKeeps(t, v) \/ PutAppends(t, v) \/ PutPurges(t, v)
           \/ Del(t) \/ Lock(t)
    PROVE  Seen # Lost \/ UNCHANGED Seen
<1>1. PICK s, o, b : Begin(s, t, o, b)
  <2>1. ASSUME NEW v \in Values, PutKeeps(t, v) PROVE \E s, o, b : Begin(s, t, o, b)
    BY <2>1, Zenon DEF PutKeeps
  <2>2. ASSUME NEW v \in Values, PutAppends(t, v) PROVE \E s, o, b : Begin(s, t, o, b)
    BY <2>2, Zenon DEF PutAppends
  <2>3. ASSUME NEW v \in Values, PutPurges(t, v) PROVE \E s, o, b : Begin(s, t, o, b)
    BY <2>3, Zenon DEF PutPurges
  <2>4. ASSUME Del(t) \/ Lock(t) PROVE \E s, o, b : Begin(s, t, o, b)
    BY <2>4, Zenon DEF Del, Lock
  <2> QED BY <2>1, <2>2, <2>3, <2>4
<1>2. CASE crashes # 0
  BY <1>1, <1>2, BeginSeen
<1>3. CASE crashes = 0
  BY <1>1, <1>3, BeginSeen
<1> QED BY <1>2, <1>3

LEMMA StoreStep ==
    ASSUME Inv, Shown, Shown', [Next]_vars
    PROVE  [Store!Next]_Seen
<1>1. crashes \in Nat
  BY NvdsAssumption DEF Inv, Types
<1>2. ASSUME NEW t \in Tags, NEW v \in Values,
             PutKeeps(t, v) \/ PutAppends(t, v) \/ PutPurges(t, v)
      PROVE  [Store!Next]_Seen
  <2>1. Store!Put(t, v) \/ UNCHANGED Seen
    BY <1>2, PutSeen
  <2>2. Seen # Lost \/ UNCHANGED Seen
    BY <1>2, BegunOpen
  <2> QED BY <2>1, <2>2 DEF Store!Next
<1>3. ASSUME NEW t \in Tags, Del(t) \/ Lock(t)
      PROVE  [Store!Next]_Seen
  <2>1. Store!Del(t) \/ Store!Lock(t) \/ UNCHANGED Seen
    BY <1>3, DelSeen
  <2>2. Seen # Lost \/ UNCHANGED Seen
    BY <1>3, BegunOpen
  <2> QED BY <2>1, <2>2 DEF Store!Next
<1>4. CASE Work
  <2>1. crashes' = crashes /\ expect' = expect
    BY <1>4 DEF Work
  <2> QED BY <2>1 DEF Shown
<1>5. CASE Crash
  <2>1. crashes' = crashes + 1
    BY <1>5 DEF Crash
  <2>2. Seen' = Lost
    BY <1>1, <2>1 DEF Shown
  <2> QED BY <2>2 DEF Store!Next, Store!PowerLoss
<1>6. CASE UNCHANGED vars
  <2>1. crashes' = crashes /\ expect' = expect
    BY <1>6 DEF vars
  <2> QED BY <2>1 DEF Shown
<1> QED BY <1>2, <1>3, <1>4, <1>5, <1>6 DEF Next

\* The calls do what the abstract store promises, as long as the power stays on: a purge
\* loses nothing, a value is refused exactly if it does not fit beside the others, and a
\* locked tag stays (nvds_put, nvds_del, nvds_lock).
THEOREM CallsImplementStore == Spec => ImplementsStore
<1>1. Inv => Shown
  BY SeenLemma
<1>2. Init => Store!Init
  <2> SUFFICES ASSUME Init PROVE Store!Init
    OBVIOUS
  <2>1. crashes = 0 /\ expect = [t \in Tags |-> Absent]
    BY DEF Init
  <2>2. Shown
    BY InitInv, SeenLemma
  <2>3. Seen = expect
    BY <2>1, <2>2 DEF Shown
  <2> QED BY <2>1, <2>3 DEF Store!Init
<1>3. Inv /\ Shown /\ Shown' /\ [Next]_vars => [Store!Next]_Seen
  BY StoreStep
<1> QED BY <1>1, <1>2, <1>3, InductiveInvariant, PTL DEF Spec, ImplementsStore, Store!Spec
=============================================================================
