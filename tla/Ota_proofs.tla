----------------------------- MODULE Ota_proofs -----------------------------
(***************************************************************************)
(* Theorems about the firmware update, for images of every length, every   *)
(* number of clients, power losses and wrong copies.                       *)
(***************************************************************************)
EXTENDS Ota, TLAPS

Chunks == Images \X Unit
Cells == {Blank, Bad, None} \cup Chunks
Marks == {FAIL, USED, SUCC, ONGO}

Params ==
    [on : BOOLEAN, protect : 0 .. 2, image : Images \cup {None},
     offset : Nat, buf : Seq(Chunks)]

Infos ==
    [mark : Marks \cup {INIT}, body : Images \cup {Blank, Bad, None},
     seal : {Blank, Bad, None} \cup ({SUCC, FAIL} \X (Images \cup {None}))]

Typed ==
    /\ area \in [Unit -> Cells]
    /\ info \in Infos
    /\ locked \in BOOLEAN
    /\ ram \in Params
    /\ started \in BOOLEAN
    /\ mode \in {"boot", "copy", "used", "start", "app", "end", "stuck"}

Up == mode \in {"app", "end", "stuck"}
Fresh == [mark |-> INIT, body |-> Blank, seal |-> Blank]
Blocked == ram.on /\ locked
Marked == info.mark # INIT

Complete == \E m \in Images \cup {Old} : dest = Whole(m)
Known == \E m \in Images : Wanted(m)

-----------------------------------------------------------------------------
(* What the running call has left to do. *)

BootAccesses == [op : {"erase dest", "dest"}, at : Nat, value : Cells]
AreaAccesses == [op : {"area"}, at : Nat, value : Chunks]
EnvAccesses ==
    [op : {"look", "env", "env line", "erase env", "lock"}, at : Nat,
     value : EnvValues \cup {Blank, Used, Torn}]

AllUnits == Seq(AreaAccesses)

EraseInfo == Access("erase info", 0, Blank)
EraseArea(j) == Access("erase area", j, Blank)
Unlock == Access("unlock", 0, Blank)
Mark(r) == Access("mark", 0, r)
Body == Access("body", 0, ram.image)
Seal(r) == Access("seal", 0, <<r, ram.image>>)

\* No client has sent anything since the reset.
Untouched == ram = Quiet /\ ~started

\* driver_ota_erase_flash: the rest of the area down to unit l, and the info.
Sweep(j, l) ==
    /\ l - 1 <= j /\ j <= N
    /\ todo = Cleaning(j, l)
    /\ \A u \in Unit \ spared : u > j => area[u] = Blank

Cleanup ==
    /\ \E l \in {0, 1} : \E j \in Int : Sweep(j, l)
    /\ Untouched /\ mode = "app" /\ ~Known

\* driver_ota_write_flash: the header of the info ...
Header ==
    /\ ram.image \in Images /\ ram.protect = 0
    /\ \E u \in AllUnits :
          /\ ram.on \/ u = << >>
          /\ \/ todo = <<Unlock, Mark(ONGO), Body>> \o u
             \/ todo = <<Mark(ONGO), Body>> \o u /\ ~Blocked
             \/ todo = <<Body>> \o u /\ ~Blocked /\ Marked

\* ... and then units.
Flushing ==
    /\ todo \in AllUnits /\ (ram.on \/ todo = << >>)
    /\ ram.protect = 0 /\ info.body # Blank

\* The image is in the area, and nothing will be written there.
Closed(m) ==
    area = Whole(m) /\ ram.buf = << >> /\ ram.protect # 1 /\ ~started

\* driver_ota_finish_result: the outcome.
Sealing ==
    \E r \in {SUCC, FAIL} :
        /\ mode = "app" /\ ram.protect = 2
        /\ \/ todo = <<Mark(r), Body, Seal(r)>>
           \/ todo = <<Body, Seal(r)>> /\ (Blocked \/ Marked)
           \/ todo = <<Seal(r)>> /\ (Blocked \/ (Marked /\ info.body # Blank))
        /\ r = SUCC => ram.image \in Images /\ Closed(ram.image)

\* The header is in the info before a unit is written.
HeaderFirst ==
    ram.protect # 1 /\ (started \/ ram.buf # << >>) => info.body # Blank

\* The environment.
Resting == todo \in Seq(EnvAccesses) /\ HeaderFirst

-----------------------------------------------------------------------------
(* The invariant. *)

\* The boot loader: what runs is complete, or will be copied.
Boots ==
    /\ ~Up => Untouched
    /\ mode = "boot" => todo = << >> /\ (Complete \/ Known)
    /\ mode = "copy" => todo \in Seq(BootAccesses) /\ Known
    /\ mode = "used" => Complete /\ (todo = <<Mark(USED)>> \/ (todo = << >> /\ ~Known))
    /\ mode = "start" => todo = << >> /\ Complete /\ ~Known
    /\ Up => Complete

\* The info tells success of the image it is about.
Sure == info.body \in Images /\ info.seal = <<SUCC, info.body>>
Owned == Sure => Closed(info.body)

\* The calls of the application.
Calls ==
    Up => \/ Cleanup
          \/ Owned /\ (((Header \/ Flushing) /\ ~Sure) \/ Sealing \/ Resting)

\* The info is written before the area, and erased after it; its parts are written in
\* their order.
InfoFirst ==
    /\ info.mark = INIT => info = Fresh
    /\ info.body = Blank => /\ info.seal = Blank
                            /\ \A u \in Unit \ spared : area[u] = Blank

\* What driver_ota_param has to do with the client.
Request ==
    /\ started => ram.image \in Images
    /\ ram.protect = 1 => ram.image \in Images /\ area[1] = Blank
    /\ ram.protect = 2 => ram.buf = << >> /\ ~started
    /\ mode = "end" => ~started /\ ram.buf = << >>

IInv == Typed /\ Boots /\ Calls /\ InfoFirst /\ Request /\ SealedIsWhole

USE DEF Params, Infos

-----------------------------------------------------------------------------
(* Sequences. *)

\* Sequences of the same length with the same elements are equal.
LEMMA SequencesEqual ==
    ASSUME NEW S, NEW s \in Seq(S), NEW t \in Seq(S), Len(s) = Len(t),
           \A i \in 1 .. Len(s) : s[i] = t[i]
    PROVE  s = t
OBVIOUS

\* A function on 1 .. n is a sequence.
LEMMA FunctionIsSequence ==
    ASSUME NEW S, NEW n \in Nat, NEW f \in [1 .. n -> S]
    PROVE  f \in Seq(S) /\ Len(f) = n /\ \A i \in 1 .. n : f[i] \in S
OBVIOUS

LEMMA ConcatType ==
    ASSUME NEW S, NEW s \in Seq(S), NEW t \in Seq(S)
    PROVE  s \o t \in Seq(S)
OBVIOUS

LEMMA ConcatOne ==
    ASSUME NEW S, NEW s \in Seq(S), NEW e \in S
    PROVE  /\ s \o <<e>> \in Seq(S) /\ Len(s \o <<e>>) = Len(s) + 1
           /\ \A i \in 1 .. Len(s) : (s \o <<e>>)[i] = s[i]
           /\ (s \o <<e>>)[Len(s) + 1] = e
           /\ s = << >> => s \o <<e>> = <<e>>
<1>1. <<e>> \in Seq(S) /\ Len(<<e>>) = 1 /\ <<e>>[1] = e /\ Len(s) \in Nat
  OBVIOUS
<1>2. /\ s \o <<e>> \in Seq(S) /\ Len(s \o <<e>>) = Len(s) + 1
      /\ \A i \in 1 .. Len(s) : (s \o <<e>>)[i] = s[i]
      /\ (s \o <<e>>)[Len(s) + 1] = e
  BY <1>1
<1>3. s = << >> => s \o <<e>> = <<e>>
  BY <1>1, <1>2, SequencesEqual
<1> QED BY <1>2, <1>3

LEMMA ConcatThree ==
    ASSUME NEW a, NEW b, NEW c
    PROVE  <<a>> \o <<b, c>> = <<a, b, c>>
<1> DEFINE S == {a, b, c}
<1>1. <<a>> \in Seq(S) /\ <<b, c>> \in Seq(S) /\ <<a, b, c>> \in Seq(S)
  OBVIOUS
<1>2. <<a>> \o <<b, c>> \in Seq(S) /\ Len(<<a>> \o <<b, c>>) = 3
  BY <1>1
<1>3. \A i \in 1 .. 3 : (<<a>> \o <<b, c>>)[i] = <<a, b, c>>[i]
  BY <1>1
<1> HIDE DEF S
<1> QED BY <1>1, <1>2, <1>3, SequencesEqual

LEMMA AppendThree ==
    ASSUME NEW a, NEW b, NEW c
    PROVE  Append(<<a, b>>, c) = <<a, b, c>>
<1> DEFINE S == {a, b, c}
<1>1. <<a, b>> \in Seq(S) /\ <<a, b, c>> \in Seq(S) /\ c \in S
  OBVIOUS
<1>2. Append(<<a, b>>, c) \in Seq(S) /\ Len(Append(<<a, b>>, c)) = 3
  BY <1>1
<1>3. \A i \in 1 .. 3 : Append(<<a, b>>, c)[i] = <<a, b, c>>[i]
  BY <1>1
<1> HIDE DEF S
<1> QED BY <1>1, <1>2, <1>3, SequencesEqual

\* The rest of a call that has three, two or one access before units.
LEMMA TailOfThree ==
    ASSUME NEW a, NEW b, NEW c, NEW T, NEW u \in Seq(T)
    PROVE  /\ <<a, b, c>> \o u # << >>
           /\ Head(<<a, b, c>> \o u) = a
           /\ Tail(<<a, b, c>> \o u) = <<b, c>> \o u
<1> DEFINE S == {a, b, c} \cup T
           s == <<a, b, c>> \o u
           t == <<b, c>> \o u
<1>1. u \in Seq(S) /\ <<a, b, c>> \in Seq(S) /\ <<b, c>> \in Seq(S)
  OBVIOUS
<1>2. s \in Seq(S) /\ t \in Seq(S) /\ Len(s) = Len(u) + 3 /\ Len(t) = Len(u) + 2
  BY <1>1
<1>3. s # << >> /\ Head(s) = a /\ Tail(s) \in Seq(S) /\ Len(Tail(s)) = Len(u) + 2
  BY <1>1, <1>2
<1>4. \A i \in 1 .. Len(u) + 2 : Tail(s)[i] = t[i]
  BY <1>1, <1>2
<1> HIDE DEF S, s, t
<1>5. Tail(s) = t
  BY <1>2, <1>3, <1>4, SequencesEqual
<1> QED BY <1>3, <1>5 DEF s, t

LEMMA TailOfTwo ==
    ASSUME NEW b, NEW c, NEW T, NEW u \in Seq(T)
    PROVE  /\ <<b, c>> \o u # << >>
           /\ Head(<<b, c>> \o u) = b
           /\ Tail(<<b, c>> \o u) = <<c>> \o u
<1> DEFINE S == {b, c} \cup T
           s == <<b, c>> \o u
           t == <<c>> \o u
<1>1. u \in Seq(S) /\ <<b, c>> \in Seq(S) /\ <<c>> \in Seq(S)
  OBVIOUS
<1>2. s \in Seq(S) /\ t \in Seq(S) /\ Len(s) = Len(u) + 2 /\ Len(t) = Len(u) + 1
  BY <1>1
<1>3. s # << >> /\ Head(s) = b /\ Tail(s) \in Seq(S) /\ Len(Tail(s)) = Len(u) + 1
  BY <1>1, <1>2
<1>4. \A i \in 1 .. Len(u) + 1 : Tail(s)[i] = t[i]
  BY <1>1, <1>2
<1> HIDE DEF S, s, t
<1>5. Tail(s) = t
  BY <1>2, <1>3, <1>4, SequencesEqual
<1> QED BY <1>3, <1>5 DEF s, t

LEMMA TailOfOne ==
    ASSUME NEW c, NEW T, NEW u \in Seq(T)
    PROVE  /\ <<c>> \o u # << >>
           /\ Head(<<c>> \o u) = c
           /\ Tail(<<c>> \o u) = u
<1> DEFINE S == {c} \cup T
           s == <<c>> \o u
<1>1. u \in Seq(S) /\ <<c>> \in Seq(S)
  OBVIOUS
<1>2. s \in Seq(S) /\ Len(s) = Len(u) + 1
  BY <1>1
<1>3. s # << >> /\ Head(s) = c /\ Tail(s) \in Seq(S) /\ Len(Tail(s)) = Len(u)
  BY <1>1, <1>2
<1>4. \A i \in 1 .. Len(u) : Tail(s)[i] = u[i]
  BY <1>1, <1>2
<1> HIDE DEF S, s
<1>5. Tail(s) = u
  BY <1>1, <1>2, <1>3, <1>4, SequencesEqual
<1> QED BY <1>3, <1>5 DEF s

\* What is left of a sequence is of the same type.
LEMMA TailType ==
    ASSUME NEW S, NEW s \in Seq(S), s # << >>
    PROVE  Head(s) \in S /\ Tail(s) \in Seq(S)
OBVIOUS

-----------------------------------------------------------------------------
(* The accesses of the calls. *)

\* What the accesses of the update are.
LEMMA AccessFields ==
    /\ EraseInfo.op = "erase info" /\ Unlock.op = "unlock"
    /\ Body.op = "body" /\ Body.value = ram.image
    /\ \A j \in Int : EraseArea(j).op = "erase area" /\ EraseArea(j).at = j
    /\ \A r \in Marks : /\ Mark(r).op = "mark" /\ Mark(r).value = r
                         /\ Seal(r).op = "seal" /\ Seal(r).value = <<r, ram.image>>
BY DEF EraseInfo, Unlock, Body, EraseArea, Mark, Seal, Access

\* The erasing goes down to the info.
LEMMA CleaningTail ==
    ASSUME NEW l \in {0, 1}, NEW j \in Int, l - 1 <= j
    PROVE  /\ Cleaning(j, l) # << >>
           /\ j < l => Head(Cleaning(j, l)) = EraseInfo /\ Tail(Cleaning(j, l)) = << >>
           /\ j >= l => /\ Head(Cleaning(j, l)) = EraseArea(j)
                        /\ Tail(Cleaning(j, l)) = Cleaning(j - 1, l)
<1> DEFINE S == [op : {"erase area", "erase info"}, at : Int, value : {Blank}]
           A(k) == [i \in 1 .. k + 1 - l |-> EraseArea(k + 1 - i)]
           C(k) == Cleaning(k, l)
           n == j + 1 - l
<1>1. /\ EraseInfo \in S /\ \A i \in Int : EraseArea(i) \in S
      /\ \A k : C(k) = A(k) \o <<EraseInfo>>
  BY DEF Access, EraseInfo, EraseArea, Cleaning
<1> HIDE DEF S, C
<1>2. ASSUME NEW k \in Int, l - 1 <= k
      PROVE  /\ C(k) \in Seq(S) /\ Len(C(k)) = k + 2 - l
             /\ \A i \in 1 .. k + 1 - l : C(k)[i] = EraseArea(k + 1 - i)
             /\ C(k)[k + 2 - l] = EraseInfo
             /\ k < l => C(k) = <<EraseInfo>>
  <2>1. k + 1 - l \in Nat /\ \A i \in 1 .. k + 1 - l : k + 1 - i \in Int
    BY <1>2
  <2>2. A(k) \in [1 .. k + 1 - l -> S] /\ \A i \in 1 .. k + 1 - l : A(k)[i] = EraseArea(k + 1 - i)
    BY <1>1, <2>1
  <2> HIDE DEF A
  <2>3. A(k) \in Seq(S) /\ Len(A(k)) = k + 1 - l
    BY <2>1, <2>2, FunctionIsSequence
  <2>4. /\ A(k) \o <<EraseInfo>> \in Seq(S) /\ Len(A(k) \o <<EraseInfo>>) = Len(A(k)) + 1
        /\ \A i \in 1 .. Len(A(k)) : (A(k) \o <<EraseInfo>>)[i] = A(k)[i]
        /\ (A(k) \o <<EraseInfo>>)[Len(A(k)) + 1] = EraseInfo
        /\ A(k) = << >> => A(k) \o <<EraseInfo>> = <<EraseInfo>>
    BY <1>1, <2>3, ConcatOne
  <2>5. k < l => A(k) = << >>
    BY <1>2, <2>1, <2>3
  <2>6. (k + 1 - l) + 1 = k + 2 - l
    BY <1>2
  <2> QED BY <1>1, <2>2, <2>3, <2>4, <2>5, <2>6
<1>3. CASE j < l
  <2>1. C(j) = <<EraseInfo>>
    BY <1>2, <1>3
  <2>2. /\ <<EraseInfo>> # << >> /\ Head(<<EraseInfo>>) = EraseInfo
        /\ Tail(<<EraseInfo>>) = << >>
    OBVIOUS
  <2> QED BY <1>3, <2>1, <2>2 DEF C
<1>4. CASE j >= l
  <2>1. /\ n \in Nat /\ n > 0 /\ j - 1 \in Int /\ l - 1 <= j - 1 /\ (j - 1) + 2 - l = n
        /\ j + 2 - l = n + 1 /\ (j - 1) + 1 - l = n - 1
    BY <1>4
  <2>2. C(j - 1) \in Seq(S) /\ Len(C(j - 1)) = n /\ C(j - 1)[n] = EraseInfo
    BY <1>2, <2>1
  <2>3. C(j) \in Seq(S) /\ Len(C(j)) = n + 1 /\ C(j)[n + 1] = EraseInfo
    BY <1>2, <2>1
  <2>4. \A i \in 1 .. n : C(j)[i] = EraseArea(j + 1 - i)
    BY <1>2
  <2>5. \A i \in 1 .. n - 1 : C(j - 1)[i] = EraseArea((j - 1) + 1 - i)
    BY <1>2, <2>1
  <2> HIDE DEF n
  <2>6. /\ C(j) # << >> /\ Head(C(j)) = C(j)[1]
        /\ Tail(C(j)) \in Seq(S) /\ Len(Tail(C(j))) = n
        /\ \A i \in 1 .. n : Tail(C(j))[i] = C(j)[i + 1]
    BY <2>1, <2>3
  <2>7. \A i \in 1 .. n : Tail(C(j))[i] = C(j - 1)[i]
    <3> SUFFICES ASSUME NEW i \in 1 .. n PROVE C(j)[i + 1] = C(j - 1)[i]
      BY <2>6
    <3>1. CASE i = n
      BY <2>2, <2>3, <3>1
    <3>2. CASE i # n
      <4>1. i \in 1 .. n - 1 /\ i + 1 \in 1 .. n /\ j + 1 - (i + 1) = (j - 1) + 1 - i
        BY <2>1, <3>2
      <4> QED BY <2>4, <2>5, <4>1
    <3> QED BY <3>1, <3>2
  <2>8. Tail(C(j)) = C(j - 1)
    BY <2>2, <2>6, <2>7, SequencesEqual
  <2>9. 1 \in 1 .. n /\ j + 1 - 1 = j
    BY <2>1
  <2>10. Head(C(j)) = EraseArea(j)
    BY <2>4, <2>6, <2>9
  <2>11. ~(j < l)
    BY <1>4
  <2> QED BY <2>6, <2>8, <2>10, <2>11 DEF C
<1> QED BY <1>3, <1>4

\* The copy touches the firmware only.
LEMMA CopyingType == ASSUME Typed PROVE Copying \in Seq(BootAccesses)
<1> DEFINE A == [i \in 1 .. N |-> Access("erase dest", i, Blank)]
           B == [i \in 1 .. N |-> Access("dest", i, area[i])]
<1>1. N \in Nat
  BY OtaAssumption
<1>2. A \in [1 .. N -> BootAccesses]
  BY <1>1 DEF Access, BootAccesses, Cells
<1>3. B \in [1 .. N -> BootAccesses]
  <2> SUFFICES ASSUME NEW i \in 1 .. N PROVE Access("dest", i, area[i]) \in BootAccesses
    OBVIOUS
  <2>1. i \in Nat /\ area[i] \in Cells
    BY <1>1 DEF Typed, Unit
  <2> QED BY <2>1 DEF Access, BootAccesses
<1>4. A \in Seq(BootAccesses) /\ B \in Seq(BootAccesses)
  BY <1>1, <1>2, <1>3, FunctionIsSequence
<1>5. Copying = A \o B
  BY DEF Copying
<1> HIDE DEF A, B
<1> QED BY <1>4, <1>5, ConcatType

LEMMA UnitsType ==
    ASSUME NEW f \in Nat, NEW b \in Seq(Chunks)
    PROVE  Units(f + 1, b) \in AllUnits /\ (b = << >> => Units(f + 1, b) = << >>)
<1>1. Len(b) \in Nat /\ \A i \in 1 .. Len(b) : b[i] \in Chunks
  OBVIOUS
<1>2. Units(f + 1, b) \in [1 .. Len(b) -> AreaAccesses]
  <2> SUFFICES ASSUME NEW i \in 1 .. Len(b)
               PROVE  Access("area", (f + 1) + i - 1, b[i]) \in AreaAccesses
    BY DEF Units
  <2>1. (f + 1) + i - 1 \in Nat
    BY <1>1
  <2> QED BY <1>1, <2>1 DEF Access, AreaAccesses
<1>3. Units(f + 1, b) \in Seq(AreaAccesses) /\ Len(Units(f + 1, b)) = Len(b)
  BY <1>1, <1>2, FunctionIsSequence
<1> QED BY <1>3 DEF AllUnits

\* Saving touches the environment only.
LEMMA SavingType ==
    ASSUME NEW v \in EnvValues, WriteEnv(v)
    PROVE  todo' \in Seq(EnvAccesses)
<1> DEFINE erase == <<Access("erase env", 0, Blank)>>
<1>1. EnvBlocks \in Nat
  BY OtaAssumption
<1>2. \A used \in 0 .. EnvBlocks : Outdate(used) \in Seq(EnvAccesses)
  <2> SUFFICES ASSUME NEW used \in 0 .. EnvBlocks PROVE Outdate(used) \in Seq(EnvAccesses)
    OBVIOUS
  <2>1. used \in Nat
    BY <1>1
  <2>2. Outdate(used) \in [1 .. used -> EnvAccesses]
    BY <2>1 DEF Outdate, Access, EnvAccesses
  <2> QED BY <2>1, <2>2, FunctionIsSequence
<1>3. \A b \in Nat : Save(b, v) \in Seq(EnvAccesses)
  BY DEF Save, Access, EnvAccesses
<1>4. erase \in Seq(EnvAccesses)
  BY DEF Access, EnvAccesses
<1>5. PICK used \in 0 .. EnvBlocks :
         \/ todo' = Outdate(used) \o Save(used + 1, v)
         \/ todo' = Outdate(used) \o erase \o Save(1, v)
  BY DEF WriteEnv
<1>6. Save(used + 1, v) \in Seq(EnvAccesses) /\ Save(1, v) \in Seq(EnvAccesses)
  BY <1>1, <1>3
<1> HIDE DEF erase
<1>7. Outdate(used) \o erase \in Seq(EnvAccesses)
  BY <1>2, <1>4, ConcatType
<1> QED BY <1>2, <1>5, <1>6, <1>7, ConcatType

-----------------------------------------------------------------------------
(* The start. *)

\* What depends on the flash only.
LEMMA FlashKept ==
    ASSUME UNCHANGED <<area, dest, info, spared>>
    PROVE  /\ Complete' = Complete /\ Known' = Known /\ Sure' = Sure
           /\ InfoFirst' = InfoFirst /\ SealedIsWhole' = SealedIsWhole
BY DEF Complete, Known, Sure, InfoFirst, SealedIsWhole, Wanted

LEMMA Initially == Init => IInv
<1> SUFFICES ASSUME Init PROVE IInv
  OBVIOUS
<1> USE OtaAssumption DEF Init
<1>1. Typed
  <2>1. area \in [Unit -> Cells]
    BY DEF Empty, Cells
  <2>2. info \in Infos
    BY DEF Marks
  <2>3. ram \in Params
    BY DEF Quiet
  <2> QED BY <2>1, <2>2, <2>3 DEF Typed
<1>2. mode = "boot" /\ Complete
  BY DEF Complete
<1>3. Boots
  BY <1>2 DEF Boots, Up, Untouched
<1>4. Calls
  BY DEF Calls, Up
<1>5. InfoFirst
  BY DEF InfoFirst, Fresh, Empty
<1>6. Request
  BY DEF Request, Quiet
<1>7. SealedIsWhole
  BY DEF SealedIsWhole, Wanted, INIT, SUCC
<1> QED BY <1>1, <1>3, <1>4, <1>5, <1>6, <1>7 DEF IInv

LEMMA BootStep == IInv /\ Boot => IInv'
<1> SUFFICES ASSUME IInv, Boot PROVE IInv'
  OBVIOUS
<1>1. /\ mode = "boot" /\ UNCHANGED <<area, dest, info, locked, ram, started, spared>>
      /\ todo = << >> /\ (Complete \/ Known) /\ Untouched
  BY DEF IInv, Boot, Boots, flash, client, past, Up
<1>2. \/ mode' = "copy" /\ todo' = Copying /\ Known
      \/ mode' = "start" /\ todo' = << >> /\ ~Known
  BY <1>1 DEF Boot, Known
<1>3. Typed'
  BY <1>1, <1>2 DEF IInv, Typed
<1>4. Copying \in Seq(BootAccesses)
  BY CopyingType DEF IInv
<1>5. Complete' = Complete /\ Known' = Known /\ InfoFirst' /\ SealedIsWhole'
  BY <1>1, FlashKept DEF IInv
<1>6. Untouched'
  BY <1>1 DEF Untouched
<1>7. Boots'
  BY <1>1, <1>2, <1>4, <1>5, <1>6 DEF Boots, Up
<1>8. Calls' /\ Request'
  BY <1>2, <1>6 DEF Calls, Up, Request, Untouched, Quiet
<1> QED BY <1>3, <1>5, <1>7, <1>8 DEF IInv

\* The boot loader copies, or takes the mark away.
LEMMA BootWorkStep == IInv /\ BootWork => IInv'
<1> SUFFICES ASSUME IInv, BootWork PROVE IInv'
  OBVIOUS
<1>1. /\ mode \in {"copy", "used"} /\ todo # << >> /\ todo' = Tail(todo)
      /\ UNCHANGED <<locked, mode, ram, started, spared>>
  BY DEF BootWork, client, past
<1>2. Untouched /\ Untouched'
  BY <1>1 DEF IInv, Boots, Up, Untouched
<1>3. CASE mode = "copy"
  <2>1. todo \in Seq(BootAccesses) /\ Known
    BY <1>3 DEF IInv, Boots
  <2>2. todo' \in Seq(BootAccesses) /\ Head(todo) \in BootAccesses
    BY <1>1, <2>1, TailType
  <2>3. UNCHANGED <<area, info>>
    <3>1. PICK x : Effect(x) /\ x.op \in {"erase dest", "dest"}
      <4>1. \/ Effect(Head(todo))
            \/ Effect([Head(todo) EXCEPT !.value = Bad])
        BY DEF BootWork
      <4>2. /\ Head(todo).op \in {"erase dest", "dest"}
            /\ [Head(todo) EXCEPT !.value = Bad].op \in {"erase dest", "dest"}
        BY <2>2 DEF BootAccesses
      <4> QED BY <4>1, <4>2
    <3> QED BY <3>1 DEF Effect
  <2>4. Typed' /\ Known' /\ InfoFirst' /\ SealedIsWhole'
    <3>1. Typed'
      BY <1>1, <2>3 DEF IInv, Typed
    <3>2. Known' /\ InfoFirst' /\ SealedIsWhole'
      BY <1>1, <2>1, <2>3 DEF IInv, Known, InfoFirst, SealedIsWhole, Wanted
    <3> QED BY <3>1, <3>2
  <2>5. Boots'
    BY <1>1, <1>2, <1>3, <2>2, <2>4 DEF Boots, Up
  <2>6. Calls' /\ Request'
    BY <1>1, <1>2, <1>3 DEF Calls, Up, Request, Untouched, Quiet
  <2> QED BY <2>4, <2>5, <2>6 DEF IInv
<1>4. CASE mode = "used"
  <2>1. todo = <<Mark(USED)>> /\ Complete
    BY <1>1, <1>4 DEF IInv, Boots
  <2>2. Head(todo) = Mark(USED) /\ Tail(todo) = << >>
    BY <2>1
  <2>3. Effect(Mark(USED))
    BY <2>2 DEF BootWork, Mark, Access
  <2>4. UNCHANGED <<area, dest>> /\ info' = [info EXCEPT !.mark = Lower(@, USED)]
    BY <2>3 DEF Effect, Mark, Access
  <2>5. /\ info'.mark \in {USED, FAIL} /\ info'.body = info.body /\ info'.seal = info.seal
        /\ Typed'
    <3>1. info \in Infos
      BY DEF IInv, Typed
    <3>2. Lower(info.mark, USED) \in {USED, FAIL}
      BY <3>1 DEF Lower, Marks, INIT, ONGO, SUCC, USED, FAIL
    <3>3. info' \in Infos
      BY <2>4, <3>1, <3>2 DEF Marks
    <3> QED BY <1>1, <2>4, <3>1, <3>2, <3>3 DEF IInv, Typed
  <2>6. InfoFirst' /\ SealedIsWhole'
    BY <1>1, <2>4, <2>5
    DEF IInv, InfoFirst, SealedIsWhole, Wanted, INIT, SUCC, USED, FAIL
  <2>7. Boots'
    <3>1. ~Known'
      BY <2>5 DEF Known, Wanted, SUCC, USED, FAIL
    <3>2. Complete'
      BY <2>1, <2>4 DEF Complete
    <3> QED BY <1>1, <1>2, <1>4, <2>2, <3>1, <3>2 DEF Boots, Up
  <2>8. Calls' /\ Request'
    BY <1>1, <1>2, <1>4 DEF Calls, Up, Request, Untouched, Quiet
  <2> QED BY <2>5, <2>6, <2>7, <2>8 DEF IInv
<1> QED BY <1>1, <1>3, <1>4

LEMMA VerifyStep == IInv /\ (Verify \/ Booted) => IInv'
<1> SUFFICES ASSUME IInv, Verify \/ Booted PROVE IInv'
  OBVIOUS
<1>1. /\ mode \in {"copy", "used"} /\ todo = << >>
      /\ UNCHANGED <<area, dest, info, locked, ram, started, spared>>
  BY DEF Verify, Booted, flash, client, past
<1>2. Untouched /\ Untouched'
  BY <1>1 DEF IInv, Boots, Up, Untouched
<1>3. Complete' = Complete /\ Known' = Known /\ InfoFirst' /\ SealedIsWhole'
  BY <1>1, FlashKept DEF IInv
<1>4. /\ mode' \in {"copy", "used", "start"}
      /\ mode' = "copy" => todo' = Copying /\ Known
      /\ mode' = "used" => todo' = <<Mark(USED)>> /\ Complete
      /\ mode' = "start" => mode = "used" /\ todo' = << >> /\ Complete
  <2>1. CASE Verify
    <3>1. mode = "copy"
      BY <2>1 DEF Verify
    <3>2. Known /\ info.body \in Images
      BY <3>1 DEF IInv, Boots, Known, Wanted
    <3> QED BY <2>1, <3>1, <3>2 DEF Verify, Complete, Mark
  <2>2. CASE Booted
    BY <2>2 DEF IInv, Boots, Booted
  <2> QED BY <2>1, <2>2
<1>5. mode' = "start" => ~Known
  BY <1>1, <1>4 DEF IInv, Boots, Mark
<1>6. Typed'
  BY <1>1, <1>4 DEF IInv, Typed
<1>7. Copying \in Seq(BootAccesses)
  BY CopyingType DEF IInv
<1>8. Boots'
  BY <1>2, <1>3, <1>4, <1>5, <1>7 DEF Boots, Up, Mark
<1>9. Calls' /\ Request'
  BY <1>2, <1>4 DEF Calls, Up, Request, Untouched, Quiet
<1> QED BY <1>3, <1>6, <1>8, <1>9 DEF IInv

\* The walk of driver_ota_erase_flash.
LEMMA WalksType ==
    \A w \in Walks : /\ w[1] \in Int /\ w[2] \in {0, 1} /\ w[2] - 1 <= w[1] /\ w[1] <= N
                     /\ info.body = Blank => w[1] = 0
<1> SUFFICES ASSUME NEW w \in Walks
             PROVE  /\ w[1] \in Int /\ w[2] \in {0, 1} /\ w[2] - 1 <= w[1] /\ w[1] <= N
                    /\ info.body = Blank => w[1] = 0
  OBVIOUS
<1>1. N \in Nat /\ N > 0 /\ Ragged \subseteq Images /\ Blank \notin Images \cup {None}
  BY OtaAssumption
<1>2. \/ info.body # Blank /\ w = <<N, 1>>
      \/ info.body # Blank /\ w = <<N - 1, 0>>
      \/ w = <<0, 1>>
      \/ info.body # Blank /\ w \in ((0 .. N) \X {1}) \cup ((0 .. N - 1) \X {0})
  BY <1>1 DEF Walks
<1> QED BY <1>1, <1>2

\* driver_ota_erase_flash: what its walk does not reach is spared.
LEMMA StartStep == IInv /\ Start => IInv'
<1> SUFFICES ASSUME IInv, Start PROVE IInv'
  OBVIOUS
<1>1. /\ mode = "start" /\ todo = << >> /\ mode' = "app" /\ locked' = TRUE
      /\ UNCHANGED <<area, dest, info, ram, started>>
      /\ Complete /\ ~Known /\ Untouched
  BY DEF IInv, Start, Boots, client, Up
<1>2. Untouched' /\ Complete' /\ ~Known' /\ Sure' = Sure /\ SealedIsWhole'
  BY <1>1 DEF IInv, Untouched, Complete, Known, Sure, SealedIsWhole, Wanted
<1>3. Typed'
  BY <1>1 DEF IInv, Typed
<1>4. Request'
  BY <1>1, <1>2 DEF Request, Untouched, Quiet
<1>5. CASE (info.mark = INIT \/ info.body \in {None, Bad}) /\ todo' = << >> /\ spared' = spared
  <2>1. InfoFirst'
    BY <1>1, <1>5, FlashKept DEF IInv
  <2>2. ~Sure
    BY <1>5, OtaAssumption DEF IInv, InfoFirst, Sure, Fresh
  <2>3. Owned' /\ Resting'
    BY <1>2, <1>5, <2>2 DEF Owned, Resting, HeaderFirst, Untouched, Quiet
  <2>4. Boots'
    BY <1>1, <1>2, <1>5 DEF Boots, Up
  <2> QED BY <1>2, <1>3, <1>4, <2>1, <2>3, <2>4 DEF IInv, Calls
<1>6. CASE /\ info.mark # INIT
           /\ \E w \in Walks :
                /\ todo' = Cleaning(w[1], w[2])
                /\ spared' = IF info.body = Blank THEN spared ELSE w[1] + 1 .. N
  <2>1. PICK w \in Walks :
           /\ todo' = Cleaning(w[1], w[2])
           /\ spared' = IF info.body = Blank THEN spared ELSE w[1] + 1 .. N
    BY <1>6
  <2>2. /\ w[1] \in Int /\ w[2] \in {0, 1} /\ w[2] - 1 <= w[1] /\ w[1] <= N
        /\ info.body = Blank => w[1] = 0
    BY WalksType
  <2> DEFINE j == w[1]
             l == w[2]
  <2>3. todo' = Cleaning(j, l) /\ j \in Int /\ l \in {0, 1} /\ l - 1 <= j /\ j <= N
    BY <2>1, <2>2
  <2>4. spared' = (IF info.body = Blank THEN spared ELSE j + 1 .. N) /\ (info.body = Blank => j = 0)
    BY <2>1, <2>2
  <2> HIDE DEF j, l
  <2>5. \A u \in Unit \ spared' : u > j => area'[u] = Blank
    <3>1. CASE info.body = Blank
      BY <1>1, <2>4, <3>1 DEF IInv, InfoFirst
    <3>2. CASE info.body # Blank
      BY <2>3, <2>4, <3>2, OtaAssumption DEF Unit
    <3> QED BY <3>1, <3>2
  <2>6. Cleaning(j, l)' = Cleaning(j, l)
    BY DEF Cleaning, Access
  <2>7. Sweep(j, l)'
    BY <2>3, <2>5, <2>6 DEF Sweep
  <2>8. Cleanup'
    BY <1>1, <1>2, <2>3, <2>7 DEF Cleanup
  <2>9. InfoFirst'
    BY <1>1, <1>6, <2>4 DEF IInv, InfoFirst
  <2>10. Boots'
    BY <1>1, <1>2 DEF Boots, Up
  <2> QED BY <1>2, <1>3, <1>4, <2>8, <2>9, <2>10 DEF IInv, Calls
<1> QED BY <1>5, <1>6 DEF Start

-----------------------------------------------------------------------------
(* The accesses of the application. *)

\* What an access changes, and what it does to the protection.
LEMMA EffectOf ==
    ASSUME NEW x, Effect(x)
    PROVE  /\ x.op \notin {"erase dest", "dest"} => dest' = dest
           /\ x.op \notin {"erase area", "area"} => area' = area
           /\ x.op \notin {"erase info", "mark", "body", "seal"} => info' = info
           /\ x.op = "mark" => info' = [info EXCEPT !.mark = Lower(@, x.value)]
           /\ x.op = "body" => info' = [info EXCEPT !.body = Over(@, x.value)]
           /\ x.op = "seal" => info' = [info EXCEPT !.seal = Over(@, x.value)]
<1>1. /\ x.op \notin {"erase dest", "dest"} => dest' = dest
      /\ x.op \notin {"erase area", "area"} => area' = area
  BY DEF Effect
<1>2. x.op \notin {"erase info", "mark", "body", "seal"} => info' = info
  BY DEF Effect
<1>3. x.op = "mark" => info' = [info EXCEPT !.mark = Lower(@, x.value)]
  BY DEF Effect
<1>4. x.op = "body" => info' = [info EXCEPT !.body = Over(@, x.value)]
  BY DEF Effect
<1>5. x.op = "seal" => info' = [info EXCEPT !.seal = Over(@, x.value)]
  BY DEF Effect
<1> QED BY <1>1, <1>2, <1>3, <1>4, <1>5

LEMMA LockOf ==
    ASSUME NEW x
    PROVE  /\ x.op = "unlock" => LockAfter(x) = FALSE
           /\ x.op \in {"mark", "body", "seal", "area"} /\ ram.on => LockAfter(x) = locked
           /\ x.op \in {"mark", "body", "seal", "area"} => (Reaches(x) <=> ~Blocked)
<1>1. x.op = "unlock" => LockAfter(x) = FALSE
  BY DEF LockAfter, Erases, Programs
<1>2. x.op \in {"mark", "body", "seal", "area"} /\ ram.on => LockAfter(x) = locked
  BY DEF LockAfter, Erases
<1>3. x.op \in {"mark", "body", "seal", "area"} => (Reaches(x) <=> ~Blocked)
  BY DEF Reaches, Erases, Blocked
<1> QED BY <1>1, <1>2, <1>3

\* What every access leaves alone.
LEMMA WorkFrame ==
    ASSUME IInv, Work
    PROVE  /\ mode \in {"app", "end", "stuck"} /\ todo # << >> /\ todo' = Tail(todo)
           /\ UNCHANGED <<mode, ram, started, spared>>
           /\ Reaches(Head(todo)) => Effect(Head(todo))
           /\ ~Reaches(Head(todo)) => UNCHANGED <<area, dest, info>>
           /\ locked' = LockAfter(Head(todo))
           /\ Complete /\ Calls
<1>1. mode \in {"app", "end", "stuck"} /\ todo # << >>
  BY DEF IInv, Boots, Work
<1>2. Up
  BY <1>1 DEF Up
<1> QED BY <1>1, <1>2 DEF IInv, Boots, Work, client, past

\* The parts that say nothing of the running call.
LEMMA WorkRest ==
    ASSUME IInv, Work, dest' = dest, locked' \in BOOLEAN,
           area' \in [Unit -> Cells],
           ram.protect = 1 => area'[1] = area[1]
    PROVE  /\ Boots' /\ Request'
           /\ (info' \in Infos) => Typed'
<1>1. Boots'
  BY WorkFrame DEF Boots, Up, Complete
<1>2. Request'
  BY WorkFrame DEF IInv, Request
<1> QED BY <1>1, <1>2, WorkFrame DEF IInv, Typed

LEMMA LockType == ASSUME IInv, NEW x PROVE LockAfter(x) \in BOOLEAN
BY DEF IInv, Typed, LockAfter

\* A power loss may come after each of them.
LEMMA CleanupStep ==
    ASSUME IInv, Work, Cleanup
    PROVE  IInv'
<1>1. PICK l \in {0, 1}, j \in Int : Sweep(j, l)
  BY DEF Cleanup
<1>2. /\ todo = Cleaning(j, l) /\ \A u \in Unit \ spared : u > j => area[u] = Blank
      /\ l - 1 <= j /\ j <= N
      /\ Untouched /\ mode = "app" /\ ~Known
  BY <1>1 DEF Sweep, Cleanup
<1>3. N \in Nat /\ locked' \in BOOLEAN /\ spared' = spared
  BY OtaAssumption, WorkFrame, LockType
<1>4. Untouched' /\ mode' = "app" /\ ram.protect = 0
  BY <1>2, WorkFrame DEF Untouched, Quiet
<1>5. CASE j >= l
  <2>1. Head(todo) = EraseArea(j) /\ todo' = Cleaning(j - 1, l)
    BY <1>2, <1>5, CleaningTail, WorkFrame
  <2>2. Head(todo).op = "erase area" /\ Head(todo).at = j /\ Effect(Head(todo))
    <3>1. Head(todo).op = "erase area" /\ Head(todo).at = j
      BY <2>1, AccessFields
    <3>2. Reaches(Head(todo))
      BY <3>1 DEF Reaches, Erases
    <3> QED BY <3>1, <3>2, WorkFrame
  <2>3. /\ area' = IF j \in Unit THEN [area EXCEPT ![j] = Blank] ELSE area
        /\ UNCHANGED <<dest, info>>
    BY <2>2 DEF Effect
  <2>4. /\ area' \in [Unit -> Cells] /\ \A u \in Unit : area'[u] = area[u] \/ area'[u] = Blank
        /\ \A u \in Unit \ spared : u > j - 1 => area'[u] = Blank
    <3>1. area \in [Unit -> Cells] /\ Blank \in Cells /\ \A u \in Unit : u \in Int
      BY DEF IInv, Typed, Cells, Unit
    <3>2. \A u \in Unit : u > j - 1 => u = j \/ u > j
      BY <3>1
    <3>3. CASE j \in Unit
      BY <1>2, <2>3, <3>1, <3>2, <3>3
    <3>4. CASE j \notin Unit
      BY <1>2, <2>3, <3>1, <3>2, <3>4
    <3> QED BY <3>3, <3>4
  <2>5. Typed' /\ Boots' /\ Request'
    BY <1>3, <1>4, <2>3, <2>4, WorkRest DEF IInv, Typed
  <2>6. ~Known'
    BY <1>2, <2>3 DEF Known, Wanted
  <2>7. j - 1 \in Int /\ l - 1 <= j - 1 /\ j - 1 <= N
    BY <1>2, <1>3, <1>5
  <2>8. Cleanup'
    <3>1. Cleaning(j - 1, l)' = Cleaning(j - 1, l)
      BY DEF Cleaning, Access
    <3>2. Sweep(j - 1, l)'
      BY <1>3, <2>1, <2>4, <2>7, <3>1 DEF Sweep
    <3> QED BY <1>4, <2>6, <2>7, <3>2 DEF Cleanup
  <2>9. InfoFirst'
    BY <1>3, <2>3, <2>4 DEF IInv, InfoFirst
  <2>10. SealedIsWhole'
    BY <2>6 DEF SealedIsWhole, Known
  <2> QED BY <2>5, <2>8, <2>9, <2>10 DEF IInv, Calls
<1>6. CASE j < l
  <2>1. Head(todo) = EraseInfo /\ todo' = << >>
    BY <1>2, <1>6, CleaningTail, WorkFrame
  <2>2. Head(todo).op = "erase info" /\ Effect(Head(todo))
    <3>1. Head(todo).op = "erase info"
      BY <2>1, AccessFields
    <3>2. Reaches(Head(todo))
      BY <3>1 DEF Reaches, Erases
    <3> QED BY <3>1, <3>2, WorkFrame
  <2>3. info' = Fresh /\ UNCHANGED <<area, dest>>
    BY <2>2 DEF Effect, Fresh
  <2>4. \A u \in Unit \ spared : area[u] = Blank
    <3>1. \A u \in Unit : u > j
      BY <1>6, <1>3 DEF Unit
    <3> QED BY <1>2, <3>1
  <2>5. Typed' /\ Boots' /\ Request'
    <3>1. info' \in Infos
      BY <2>3 DEF Fresh
    <3> QED BY <1>3, <1>4, <2>3, <3>1, WorkRest DEF IInv, Typed
  <2>6. InfoFirst' /\ SealedIsWhole' /\ ~Sure'
    <3>1. InfoFirst'
      BY <1>3, <2>3, <2>4 DEF InfoFirst, Fresh
    <3>2. SealedIsWhole'
      BY <2>3 DEF SealedIsWhole, Wanted, Fresh, INIT, SUCC
    <3>3. ~Sure'
      BY <2>3, OtaAssumption DEF Sure, Fresh
    <3> QED BY <3>1, <3>2, <3>3
  <2>7. Owned' /\ Resting'
    BY <1>4, <2>1, <2>6 DEF Owned, Resting, HeaderFirst, Untouched, Quiet
  <2> QED BY <2>5, <2>6, <2>7 DEF IInv, Calls
<1> QED BY <1>5, <1>6

\* An access that leaves the area and the info alone.
LEMMA OwnedKept ==
    ASSUME Owned, UNCHANGED <<area, info, ram, started>>
    PROVE  Owned' /\ Sure' = Sure
BY DEF Owned, Sure, Closed

LEMMA RestingStep ==
    ASSUME IInv, Work, Resting, Owned
    PROVE  IInv'
<1>1. Head(todo) \in EnvAccesses /\ todo' \in Seq(EnvAccesses)
  BY WorkFrame, TailType DEF Resting
<1>2. UNCHANGED <<area, dest, info>>
  BY <1>1, WorkFrame DEF Effect, EnvAccesses
<1>3. locked' \in BOOLEAN
  BY WorkFrame, LockType
<1>4. Typed' /\ Boots' /\ Request'
  BY <1>2, <1>3, WorkRest DEF IInv, Typed
<1>5. InfoFirst' /\ SealedIsWhole'
  BY <1>2, WorkFrame, FlashKept DEF IInv
<1>6. Owned'
  BY <1>2, WorkFrame, OwnedKept
<1>7. Resting'
  BY <1>1, <1>2, WorkFrame DEF Resting, HeaderFirst
<1> QED BY <1>4, <1>5, <1>6, <1>7 DEF IInv, Calls

\* The header over what is there: success is told of it only when it was before.
BodyAfter ==
    /\ info'.mark = info.mark /\ info'.body # Blank
    /\ Sure' => Sure /\ info'.body = info.body

LEMMA BodyWritten ==
    ASSUME IInv, ram.image \in Images \cup {None},
           info' = [info EXCEPT !.body = Over(@, ram.image)]
    PROVE  info' \in Infos /\ BodyAfter
<1> DEFINE b == Over(info.body, ram.image)
<1>1. info \in Infos /\ (info.body = Blank => info.seal = Blank)
  BY DEF IInv, Typed, InfoFirst
<1>2. b \in Images \cup {Bad, None}
  BY <1>1, OtaAssumption DEF Over
<1>3. b \in Images => info.body = Blank \/ info.body = b
  BY OtaAssumption DEF Over
<1> HIDE DEF b
<1>4. info' \in Infos /\ info'.mark = info.mark /\ info'.body = b /\ info'.seal = info.seal
  BY <1>1, <1>2 DEF b
<1>5. b # Blank
  BY <1>2, OtaAssumption
<1>6. Sure' => Sure /\ info'.body = info.body
  <2> SUFFICES ASSUME Sure' PROVE Sure /\ info'.body = info.body
    OBVIOUS
  <2>1. b \in Images /\ info.seal = <<SUCC, b>>
    BY <1>4 DEF Sure
  <2>2. info.seal # Blank
    BY <2>1, OtaAssumption
  <2>3. info.body = b
    BY <1>1, <1>3, <2>1, <2>2
  <2> QED BY <1>4, <2>1, <2>3 DEF Sure
<1> QED BY <1>4, <1>5, <1>6 DEF BodyAfter

\* What the info tells success of is in the area.
LEMMA SureIsWhole ==
    ASSUME Owned, UNCHANGED <<area, ram, started>>,
           Sure' => \/ Sure /\ info'.body = info.body
                    \/ Closed(info'.body)
    PROVE  Owned' /\ SealedIsWhole'
<1>1. Sure' => Closed(info'.body)
  BY DEF Owned
<1>2. Owned'
  BY <1>1 DEF Owned, Closed
<1>3. ASSUME NEW m \in Images, Wanted(m)' PROVE area' = Whole(m)
  <2>1. info'.body = m /\ Sure'
    BY <1>3 DEF Wanted, Sure
  <2> QED BY <1>1, <2>1 DEF Closed
<1> QED BY <1>2, <1>3 DEF SealedIsWhole, Whole

\* The header of the info: the protection is lifted, and what follows reaches it.
LEMMA HeaderStep ==
    ASSUME IInv, Work, Header, Owned, ~Sure
    PROVE  IInv'
<1>1. PICK u \in AllUnits :
          /\ ram.on \/ u = << >>
          /\ \/ todo = <<Unlock, Mark(ONGO), Body>> \o u
             \/ todo = <<Mark(ONGO), Body>> \o u /\ ~Blocked
             \/ todo = <<Body>> \o u /\ ~Blocked /\ Marked
  BY DEF Header
<1>2. /\ ram.image \in Images /\ ram' = ram /\ ram.protect = 0
      /\ started' = started /\ mode' = mode /\ spared' = spared /\ u \in Seq(AreaAccesses)
  BY WorkFrame DEF Header, AllUnits
<1>3. Unlock' = Unlock /\ Mark(ONGO)' = Mark(ONGO) /\ Body' = Body
  BY <1>2 DEF Unlock, Mark, Body
<1>4. locked \in BOOLEAN /\ locked' \in BOOLEAN /\ area \in [Unit -> Cells]
  BY WorkFrame, LockType DEF IInv, Typed
<1>5. CASE todo = <<Unlock, Mark(ONGO), Body>> \o u
  <2>1. Head(todo) = Unlock /\ todo' = <<Mark(ONGO), Body>> \o u
    <3>1. /\ Head(<<Unlock, Mark(ONGO), Body>> \o u) = Unlock
          /\ Tail(<<Unlock, Mark(ONGO), Body>> \o u) = <<Mark(ONGO), Body>> \o u
      BY <1>2, TailOfThree
    <3> QED BY <1>5, <3>1, WorkFrame
  <2>2. Head(todo).op = "unlock"
    BY <2>1, AccessFields
  <2>3. UNCHANGED <<area, dest, info>> /\ locked' = FALSE
    BY <2>2, WorkFrame, EffectOf, LockOf
  <2>4. Typed' /\ Boots' /\ Request' /\ InfoFirst' /\ SealedIsWhole' /\ Owned' /\ ~Sure'
    BY <1>2, <1>4, <2>3, WorkRest, WorkFrame, FlashKept, OwnedKept DEF IInv, Typed
  <2>5. ~Blocked'
    BY <2>3 DEF Blocked
  <2>6. Header'
    BY <1>1, <1>2, <1>3, <2>1, <2>5 DEF Header
  <2> QED BY <2>4, <2>6 DEF IInv, Calls
<1>6. CASE todo = <<Mark(ONGO), Body>> \o u /\ ~Blocked
  <2>1. Head(todo) = Mark(ONGO) /\ todo' = <<Body>> \o u
    BY <1>2, <1>6, TailOfTwo, WorkFrame
  <2>2. Head(todo).op = "mark" /\ Head(todo).value = ONGO
    BY <2>1, AccessFields DEF Marks
  <2>3. Effect(Head(todo)) /\ ~Blocked'
    BY <1>2, <1>6, <2>2, WorkFrame, LockOf DEF Blocked
  <2>4. UNCHANGED <<area, dest>> /\ info' = [info EXCEPT !.mark = Lower(@, ONGO)]
    BY <2>2, <2>3, EffectOf
  <2>5. /\ info'.mark \in Marks /\ info'.body = info.body /\ info'.seal = info.seal
        /\ Typed' /\ Boots' /\ Request'
    <3>1. /\ info'.mark \in Marks /\ info'.body = info.body /\ info'.seal = info.seal
          /\ info' \in Infos
      <4>1. info.mark \in 0 .. 4 /\ Lower(info.mark, ONGO) \in Marks
        BY DEF IInv, Typed, Lower, Marks, INIT, ONGO, SUCC, USED, FAIL
      <4> QED BY <2>4, <4>1 DEF IInv, Typed
    <3> QED BY <1>2, <1>4, <2>4, <3>1, WorkRest
  <2>6. ~Sure'
    BY <2>5 DEF Sure
  <2>7. InfoFirst' /\ SealedIsWhole' /\ Owned' /\ Marked'
    <3>1. Marked'
      BY <2>5 DEF Marked, Marks, INIT, ONGO, SUCC, USED, FAIL
    <3>2. InfoFirst'
      BY <1>2, <2>4, <2>5, <3>1 DEF IInv, InfoFirst, Marked
    <3>3. SealedIsWhole' /\ Owned'
      BY <2>6 DEF SealedIsWhole, Wanted, Sure, Owned
    <3> QED BY <3>1, <3>2, <3>3
  <2>8. Header'
    BY <1>1, <1>2, <1>3, <2>1, <2>3, <2>7 DEF Header
  <2> QED BY <2>5, <2>6, <2>7, <2>8 DEF IInv, Calls
<1>7. CASE todo = <<Body>> \o u /\ ~Blocked /\ Marked
  <2>1. Head(todo) = Body /\ todo' = u
    BY <1>2, <1>7, TailOfOne, WorkFrame
  <2>2. Head(todo).op = "body" /\ Head(todo).value = ram.image
    BY <2>1, AccessFields
  <2>3. Effect(Head(todo))
    BY <1>7, <2>2, WorkFrame, LockOf
  <2>4. UNCHANGED <<area, dest>> /\ info' = [info EXCEPT !.body = Over(@, ram.image)]
    BY <2>2, <2>3, EffectOf
  <2>5. info' \in Infos /\ BodyAfter
    BY <1>2, <2>4, BodyWritten
  <2>6. Typed' /\ Boots' /\ Request'
    BY <1>2, <1>4, <2>4, <2>5, WorkRest
  <2>7. ~Sure'
    BY <1>2, <2>5 DEF BodyAfter
  <2>8. InfoFirst' /\ SealedIsWhole' /\ Owned'
    <3>1. InfoFirst'
      BY <1>7, <2>5 DEF BodyAfter, InfoFirst, Marked
    <3>2. SealedIsWhole' /\ Owned'
      BY <2>7 DEF SealedIsWhole, Wanted, Sure, Owned
    <3> QED BY <3>1, <3>2
  <2>9. Flushing'
    BY <1>1, <1>2, <2>1, <2>5 DEF Flushing, BodyAfter
  <2> QED BY <2>6, <2>7, <2>8, <2>9 DEF IInv, Calls
<1> QED BY <1>1, <1>5, <1>6, <1>7

\* A unit: the header is in the info already.
LEMMA FlushingStep ==
    ASSUME IInv, Work, Flushing, Owned, ~Sure
    PROVE  IInv'
<1>1. Head(todo) \in AreaAccesses /\ todo' \in AllUnits
  BY WorkFrame, TailType DEF Flushing, AllUnits
<1>2. /\ Head(todo).op = "area" /\ Head(todo).value \in Chunks /\ ram.on /\ locked' = locked
  BY <1>1, WorkFrame, LockOf DEF AreaAccesses, Flushing
<1>3. UNCHANGED <<dest, info>>
  BY <1>2, WorkFrame, EffectOf
<1>4. area' \in [Unit -> Cells]
  <2>1. area \in [Unit -> Cells]
    BY DEF IInv, Typed
  <2>2. ASSUME Effect(Head(todo)) PROVE area' \in [Unit -> Cells]
    <3> DEFINE x == Head(todo)
    <3>1. area' = IF x.at \in Unit THEN [area EXCEPT ![x.at] = Over(@, x.value)] ELSE area
      BY <1>2, <2>2 DEF Effect
    <3>2. x.at \in Unit => Over(area[x.at], x.value) \in Cells
      BY <1>2, <2>1 DEF Over, Cells
    <3> QED BY <2>1, <3>1, <3>2
  <2> QED BY <2>1, <2>2, WorkFrame
<1>5. ram.protect = 0 /\ ram' = ram /\ ~Sure'
  BY <1>3, WorkFrame DEF Flushing, Sure
<1>6. Typed' /\ Boots' /\ Request'
  BY <1>2, <1>3, <1>4, <1>5, WorkRest DEF IInv, Typed
<1>7. InfoFirst' /\ SealedIsWhole' /\ Owned'
  BY <1>3, <1>5 DEF IInv, InfoFirst, SealedIsWhole, Wanted, Sure, Owned, Flushing
<1>8. Flushing'
  BY <1>1, <1>2, <1>3, <1>5 DEF Flushing
<1> QED BY <1>5, <1>6, <1>7, <1>8 DEF IInv, Calls

\* The outcome: success only if nothing will change the area any more.
LEMMA SealingStep ==
    ASSUME IInv, Work, Sealing, Owned
    PROVE  IInv'
<1>1. PICK r \in {SUCC, FAIL} :
        /\ mode = "app" /\ ram.protect = 2
        /\ \/ todo = <<Mark(r), Body, Seal(r)>>
           \/ todo = <<Body, Seal(r)>> /\ (Blocked \/ Marked)
           \/ todo = <<Seal(r)>> /\ (Blocked \/ (Marked /\ info.body # Blank))
        /\ r = SUCC => ram.image \in Images /\ Closed(ram.image)
  BY DEF Sealing
<1>2. /\ ram' = ram /\ started' = started /\ mode' = mode /\ spared' = spared
      /\ ram.buf = << >> /\ ~started /\ ram.image \in Images \cup {None}
  BY <1>1, WorkFrame DEF IInv, Request, Typed
<1>3. Mark(r)' = Mark(r) /\ Seal(r)' = Seal(r) /\ Body' = Body
  BY <1>2 DEF Seal, Mark, Body
<1>4. /\ locked \in BOOLEAN /\ area \in [Unit -> Cells] /\ r \in Marks /\ info.mark \in 0 .. 4
      /\ info \in Infos /\ locked' \in BOOLEAN
  BY <1>1, WorkFrame, LockType DEF IInv, Typed, Marks, INIT, ONGO, SUCC, USED, FAIL
<1>5. ASSUME Head(todo).op \in {"mark", "body", "seal"}
      PROVE  /\ UNCHANGED <<area, dest>> /\ (Blocked => Blocked')
             /\ Boots' /\ Request'
             /\ Blocked => info' = info
             /\ ~Blocked => Effect(Head(todo))
  <2>1. /\ UNCHANGED <<area, dest>> /\ (ram.on => locked' = locked)
        /\ Blocked => info' = info
        /\ ~Blocked => Effect(Head(todo))
    BY <1>2, <1>5, WorkFrame, EffectOf, LockOf
  <2>2. Blocked => Blocked'
    BY <1>2, <2>1 DEF Blocked
  <2> QED BY <1>4, <2>1, <2>2, WorkRest
<1>10. ASSUME area' = area,
              \/ todo' = <<Body, Seal(r)>> /\ (Blocked' \/ Marked')
              \/ todo' = <<Seal(r)>> /\ (Blocked' \/ (Marked' /\ info'.body # Blank))
       PROVE  Sealing'
  <2>1. r = SUCC => ram'.image \in Images /\ Closed(ram.image)'
    BY <1>1, <1>2, <1>10 DEF Closed
  <2>2. \/ todo' = <<Body', Seal(r)'>> /\ (Blocked' \/ Marked')
        \/ todo' = <<Seal(r)'>> /\ (Blocked' \/ (Marked' /\ info'.body # Blank))
    BY <1>3, <1>10
  <2>3. mode' = "app" /\ ram'.protect = 2
    BY <1>1, <1>2
  <2> QED BY <2>1, <2>2, <2>3 DEF Sealing
<1>6. CASE todo = <<Mark(r), Body, Seal(r)>>
  <2>1. Head(todo) = Mark(r) /\ todo' = <<Body, Seal(r)>>
    BY <1>6, WorkFrame
  <2>2. Head(todo).op = "mark" /\ Head(todo).value = r
    <3>1. Mark(r).op = "mark" /\ Mark(r).value = r
      BY <1>4, AccessFields
    <3> QED BY <2>1, <3>1
  <2>3. info' = info \/ info' = [info EXCEPT !.mark = Lower(@, r)]
    BY <1>5, <2>2, EffectOf
  <2>4. /\ info'.body = info.body /\ info'.seal = info.seal
        /\ info' = info \/ info'.mark \in Marks
        /\ ~Blocked => info'.mark \in Marks
        /\ info' \in Infos
    <3>1. Lower(info.mark, r) \in Marks
      BY <1>1, <1>4 DEF Lower, Marks, INIT, ONGO, SUCC, USED, FAIL
    <3>2. ~Blocked => info' = [info EXCEPT !.mark = Lower(@, r)]
      BY <1>5, <2>2, EffectOf
    <3> QED BY <1>4, <2>3, <3>1, <3>2
  <2>5. Typed'
    BY <1>4, <1>5, <2>2, <2>4, WorkRest
  <2>6. Blocked' \/ Marked'
    BY <1>5, <2>2, <2>4 DEF Marked, Marks, INIT, ONGO, SUCC, USED, FAIL
  <2>7. InfoFirst'
    BY <1>2, <1>5, <2>2, <2>4 DEF IInv, InfoFirst, Marks, INIT, ONGO, SUCC, USED, FAIL
  <2>8. Owned' /\ SealedIsWhole'
    BY <1>2, <1>5, <2>2, <2>4, SureIsWhole DEF Sure
  <2>9. Sealing'
    BY <1>5, <1>10, <2>1, <2>2, <2>6
  <2> QED BY <1>5, <2>2, <2>5, <2>7, <2>8, <2>9 DEF IInv, Calls
<1>7. CASE todo = <<Body, Seal(r)>> /\ (Blocked \/ Marked)
  <2>1. Head(todo) = Body /\ todo' = <<Seal(r)>>
    BY <1>7, WorkFrame
  <2>2. Head(todo).op = "body" /\ Head(todo).value = ram.image
    BY <2>1, AccessFields
  <2>3. CASE Blocked
    <3>1. info' = info /\ Blocked' /\ area' = area
      BY <1>5, <2>2, <2>3
    <3>2. Typed'
      BY <1>4, <1>5, <2>2, <3>1, WorkRest
    <3>3. InfoFirst'
      BY <1>2, <3>1 DEF IInv, InfoFirst
    <3>4. Owned' /\ SealedIsWhole'
      BY <1>2, <1>5, <2>2, <3>1, SureIsWhole DEF Sure
    <3>5. Sealing'
      <4>1. Blocked' \/ (Marked' /\ info'.body # Blank)
        BY <3>1
      <4> QED BY <1>10, <2>1, <3>1, <4>1
    <3> QED BY <1>5, <2>2, <3>2, <3>3, <3>4, <3>5 DEF IInv, Calls
  <2>4. CASE ~Blocked
    <3>1. info' = [info EXCEPT !.body = Over(@, ram.image)]
      BY <1>5, <2>2, <2>4, EffectOf
    <3>2. info' \in Infos /\ BodyAfter
      BY <1>2, <3>1, BodyWritten
    <3>3. Typed' /\ area' = area
      BY <1>4, <1>5, <2>2, <3>2, WorkRest
    <3>4. Marked' /\ InfoFirst'
      BY <1>7, <2>4, <3>2 DEF BodyAfter, InfoFirst, Marked
    <3>5. Owned' /\ SealedIsWhole'
      BY <1>2, <1>5, <2>2, <3>2, SureIsWhole DEF BodyAfter
    <3>6. Sealing'
      BY <1>10, <2>1, <3>2, <3>3, <3>4 DEF BodyAfter
    <3> QED BY <1>5, <2>2, <3>3, <3>4, <3>5, <3>6 DEF IInv, Calls
  <2> QED BY <2>3, <2>4
<1>8. CASE todo = <<Seal(r)>> /\ (Blocked \/ (Marked /\ info.body # Blank))
  <2>1. Head(todo) = Seal(r) /\ todo' = << >>
    BY <1>8, WorkFrame
  <2>2. Head(todo).op = "seal" /\ Head(todo).value = <<r, ram.image>>
    <3>1. Seal(r).op = "seal" /\ Seal(r).value = <<r, ram.image>>
      BY <1>4, AccessFields
    <3> QED BY <2>1, <3>1
  <2>3. /\ info'.mark = info.mark /\ info'.body = info.body
        /\ info' = info \/ /\ Marked /\ info.body # Blank
                           /\ info'.seal \in {<<r, ram.image>>, Bad, None}
        /\ info' \in Infos
    <3>1. ~Blocked => info' = [info EXCEPT !.seal = Over(@, <<r, ram.image>>)]
      BY <1>5, <2>2, EffectOf
    <3>2. Over(info.seal, <<r, ram.image>>) \in {<<r, ram.image>>, Bad, None}
      BY DEF Over
    <3>3. <<r, ram.image>> \in {SUCC, FAIL} \X (Images \cup {None})
      BY <1>1, <1>2
    <3>4. CASE Blocked
      BY <1>4, <1>5, <2>2, <3>4
    <3>5. CASE ~Blocked
      BY <1>4, <1>8, <3>1, <3>2, <3>3, <3>5
    <3> QED BY <3>4, <3>5
  <2>4. Typed'
    BY <1>4, <1>5, <2>2, <2>3, WorkRest
  <2>5. InfoFirst'
    BY <1>2, <1>5, <2>2, <2>3 DEF IInv, InfoFirst, Marked
  <2>6. Owned' /\ SealedIsWhole'
    <3>1. Sure' => Sure \/ (info'.body = ram.image /\ r = SUCC)
      <4> SUFFICES ASSUME Sure', info' # info PROVE info'.body = ram.image /\ r = SUCC
        BY DEF Sure
      <4>1. info'.body \in Images /\ info'.seal = <<SUCC, info'.body>>
        BY DEF Sure
      <4>2. info'.seal \notin {Bad, None}
        BY <4>1, OtaAssumption
      <4>3. <<r, ram.image>> = <<SUCC, info'.body>>
        BY <2>3, <4>1, <4>2
      <4> QED BY <4>3
    <3> QED BY <1>1, <1>2, <1>5, <2>2, <2>3, <3>1, SureIsWhole
  <2>7. Resting'
    BY <1>1, <1>2, <2>1 DEF Resting, HeaderFirst
  <2> QED BY <1>5, <2>2, <2>4, <2>5, <2>6, <2>7 DEF IInv, Calls
<1> QED BY <1>1, <1>6, <1>7, <1>8

LEMMA WorkStep == IInv /\ Work => IInv'
<1> SUFFICES ASSUME IInv, Work PROVE IInv'
  OBVIOUS
<1>1. \/ Cleanup
      \/ Owned /\ (((Header \/ Flushing) /\ ~Sure) \/ Sealing \/ Resting)
  BY WorkFrame DEF Calls, Up
<1> QED BY <1>1, CleanupStep, HeaderStep, FlushingStep, SealingStep, RestingStep

-----------------------------------------------------------------------------
(* The client. *)

\* Between two calls.
LEMMA Between ==
    ASSUME IInv, Up, todo = << >>
    PROVE  Owned /\ HeaderFirst /\ Complete
<1>1. ~Cleanup
  BY CleaningTail DEF Cleanup, Sweep
<1>2. ~Header
  <2>1. \A u \in AllUnits : /\ <<Unlock, Mark(ONGO), Body>> \o u # << >>
                            /\ <<Mark(ONGO), Body>> \o u # << >>
                            /\ <<Body>> \o u # << >>
    BY TailOfThree, TailOfTwo, TailOfOne DEF AllUnits
  <2> QED BY <2>1 DEF Header
<1>3. ~Sealing
  BY DEF Sealing
<1>4. Flushing \/ Resting => HeaderFirst
  BY DEF Flushing, Resting, HeaderFirst
<1> QED BY <1>1, <1>2, <1>3, <1>4 DEF IInv, Calls, Boots

LEMMA ClientFrame ==
    ASSUME IInv, Up, Up', UNCHANGED <<area, dest, info, spared>>, Typed', Calls', Request'
    PROVE  IInv'
<1>1. Complete' /\ InfoFirst' /\ SealedIsWhole'
  BY FlashKept DEF IInv, Boots
<1>2. Boots'
  BY <1>1 DEF Boots, Up
<1> QED BY <1>1, <1>2 DEF IInv

\* What is written when the buffer is full, in the main loop or at the end.
LEMMA FlushIsKnown ==
    ASSUME IInv, Up, todo = << >>, ram.protect # 2,
           ram.protect = 1 \/ ram.buf # << >>,
           todo' = Flush, UNCHANGED <<info, locked>>, ram'.protect = 0,
           ram'.image = ram.image, ram'.on = ram.on
    PROVE  (Header \/ Flushing)' /\ ~Sure
<1> DEFINE u == IF ram.on THEN Units(ram.offset + 1, ram.buf) ELSE << >>
<1>1. ram \in Params /\ Owned
  BY Between DEF IInv, Typed
<1>2. u \in AllUnits /\ (ram.on \/ u = << >>)
  BY <1>1, UnitsType DEF AllUnits
<1>3. ~Sure
  BY <1>1 DEF Owned, Closed
<1>4. Flush = (CASE ram.protect = 1 -> <<Unlock>> \o Info(ONGO, ram.image)
                 [] ram.protect = 2 -> <<Access("lock", 0, Blank)>>
                 [] OTHER           -> << >>) \o u
  BY DEF Flush, Unlock
<1> HIDE DEF u
<1>5. CASE ram.protect = 1
  <2>1. ram.image \in Images
    BY <1>5 DEF IInv, Request
  <2>2. Info(ONGO, ram.image) = <<Mark(ONGO), Body>>
    BY DEF Info, Mark, Body
  <2>3. Flush = (<<Unlock>> \o Info(ONGO, ram.image)) \o u
    BY <1>4, <1>5
  <2>4. <<Unlock>> \o <<Mark(ONGO), Body>> = <<Unlock, Mark(ONGO), Body>>
    BY ConcatThree
  <2>5. todo' = <<Unlock, Mark(ONGO), Body>> \o u
    BY <2>2, <2>3, <2>4
  <2>6. Unlock' = Unlock /\ Mark(ONGO)' = Mark(ONGO) /\ Body' = Body
    BY DEF Unlock, Mark, Body
  <2>7. Header'
    BY <1>2, <2>1, <2>5, <2>6 DEF Header
  <2> QED BY <1>3, <2>7
<1>6. CASE ram.protect = 0
  <2>1. info.body # Blank
    BY <1>6, Between DEF HeaderFirst
  <2>2. Flush = << >> \o u
    BY <1>4, <1>6
  <2>3. todo' = u
    BY <1>2, <2>2 DEF AllUnits
  <2>4. Flushing'
    BY <1>2, <2>1, <2>3 DEF Flushing
  <2> QED BY <1>3, <2>4
<1> QED BY <1>1, <1>5, <1>6

\* What is left in driver_ota_param.
LEMMA FlushedFields ==
    ASSUME ram \in Params
    PROVE  /\ Flushed \in Params /\ Flushed.on = ram.on
           /\ Flushed.protect = 0 /\ Flushed.image = ram.image
           /\ Flushed.buf = << >> \/ (~ram.on /\ Flushed.buf = ram.buf)
<1> DEFINE o == IF ram.on THEN ram.offset + Len(ram.buf) ELSE ram.offset
           b == IF ram.on THEN << >> ELSE ram.buf
           f == [on |-> ram.on, protect |-> 0, image |-> ram.image, offset |-> o, buf |-> b]
<1>1. /\ o \in Nat /\ b \in Seq(Chunks)
      /\ ram.on \in BOOLEAN /\ ram.image \in Images \cup {None}
  OBVIOUS
<1>2. Flushed = f
  BY DEF Flushed
<1>3. b = << >> \/ (~ram.on /\ b = ram.buf)
  OBVIOUS
<1> HIDE DEF o, b
<1>4. f \in Params
  BY <1>1
<1>5. f.protect = 0 /\ f.image = ram.image /\ f.buf = b
  OBVIOUS
<1>6. f.on = ram.on
  OBVIOUS
<1> HIDE DEF f
<1> QED BY <1>2, <1>3, <1>4, <1>5, <1>6

\* driver_ota_write_flash from the main loop.
LEMMA WriteFlashStep == IInv /\ WriteFlash => IInv'
<1> SUFFICES ASSUME IInv, WriteFlash PROVE IInv'
  OBVIOUS
<1>1. /\ mode = "app" /\ todo = << >> /\ todo' = Flush /\ ram' = Flushed /\ Flush # << >>
      /\ UNCHANGED <<area, dest, info, locked, mode, started, spared>>
      /\ Up /\ Up'
  BY DEF WriteFlash, Idle, flash, client, past, Up
<1>2. Owned /\ HeaderFirst
  BY <1>1, Between
<1>3. ram \in Params
  BY DEF IInv, Typed
<1>4. /\ ram' \in Params /\ ram'.on = ram.on /\ ram'.protect = 0 /\ ram'.image = ram.image
      /\ ram'.buf = << >> \/ (~ram.on /\ ram'.buf = ram.buf)
  BY <1>1, <1>3, FlushedFields
<1>5. Typed'
  BY <1>1, <1>4 DEF IInv, Typed
<1>6. Request'
  BY <1>1, <1>4 DEF IInv, Request
<1> DEFINE u == IF ram.on THEN Units(ram.offset + 1, ram.buf) ELSE << >>
<1>7. /\ u \in AllUnits /\ (ram.buf = << >> \/ ~ram.on => u = << >>)
      /\ Flush = (CASE ram.protect = 1 -> <<Access("unlock", 0, Blank)>> \o Info(ONGO, ram.image)
                    [] ram.protect = 2 -> <<Access("lock", 0, Blank)>>
                    [] OTHER           -> << >>) \o u
  BY <1>3, UnitsType DEF Flush, AllUnits
<1> HIDE DEF u
<1>8. CASE ram.protect = 2
  <2>1. ram.buf = << >> /\ ~started /\ ram'.buf = << >>
    BY <1>4, <1>8 DEF IInv, Request
  <2>2. Flush = <<Access("lock", 0, Blank)>> \o << >>
    BY <1>7, <1>8, <2>1
  <2>3. Access("lock", 0, Blank) \in EnvAccesses
    BY DEF Access, EnvAccesses
  <2>4. todo' \in Seq(EnvAccesses)
    <3>1. <<Access("lock", 0, Blank)>> \in Seq(EnvAccesses) /\ << >> \in Seq(EnvAccesses)
      BY <2>3
    <3> QED BY <1>1, <2>2, <3>1, ConcatType
  <2>5. Resting' /\ Owned'
    BY <1>1, <1>2, <1>4, <2>1, <2>4, FlashKept DEF Resting, HeaderFirst, Owned, Closed
  <2> QED BY <1>1, <1>5, <1>6, <2>5, ClientFrame DEF Calls
<1>9. CASE ram.protect # 2
  <2>1. ram.protect = 1 \/ ram.buf # << >>
    <3>1. SUFFICES ASSUME ram.protect = 0, ram.buf = << >> PROVE FALSE
      BY <1>3, <1>9
    <3>2. Flush = << >> \o << >>
      BY <1>7, <3>1
    <3> QED BY <1>1, <3>2
  <2>2. (Header \/ Flushing)' /\ ~Sure
    BY <1>1, <1>4, <1>9, <2>1, FlushIsKnown
  <2>3. Owned' /\ ~Sure'
    BY <1>1, <2>2, FlashKept DEF Owned
  <2> QED BY <1>1, <1>5, <1>6, <2>2, <2>3, ClientFrame DEF Calls
<1> QED BY <1>8, <1>9

LEMMA InquiryStep == IInv /\ Inquiry => IInv'
<1> SUFFICES ASSUME IInv, Inquiry PROVE IInv'
  OBVIOUS
<1>1. /\ mode = "app" /\ todo = << >> /\ Up /\ Up' /\ started' = FALSE
      /\ UNCHANGED <<area, dest, info, locked, mode, todo, spared>>
      /\ ram' = [Quiet EXCEPT !.on = TRUE]
  BY DEF Inquiry, Idle, flash, past, Up
<1>2. Owned
  BY <1>1, Between
<1>3. ram' \in Params /\ ram'.protect = 0 /\ ram'.buf = << >>
  <2>1. Quiet \in Params /\ Quiet.protect = 0 /\ Quiet.buf = << >>
    BY DEF Quiet
  <2>2. \A on \in BOOLEAN :
           /\ [Quiet EXCEPT !.on = on] \in Params
           /\ [Quiet EXCEPT !.on = on].protect = 0 /\ [Quiet EXCEPT !.on = on].buf = << >>
    BY <2>1
  <2> QED BY <1>1, <2>2
<1>4. Typed'
  BY <1>1, <1>3 DEF IInv, Typed
<1>5. Request'
  BY <1>1, <1>3 DEF IInv, Request
<1>6. Owned' /\ Resting'
  BY <1>1, <1>2, <1>3, FlashKept DEF Owned, Closed, Resting, HeaderFirst
<1> QED BY <1>1, <1>4, <1>5, <1>6, ClientFrame DEF Calls

\* Nothing is started over an image that is sealed: its first unit is in the area.
LEMMA StartReqStep ==
    ASSUME IInv, NEW m \in Images, StartReq(m)
    PROVE  IInv'
<1>1. /\ mode = "app" /\ todo = << >> /\ Up /\ Up' /\ area[1] = Blank
      /\ UNCHANGED <<area, dest, info, locked, mode, todo, spared>>
      /\ ram' = [ram EXCEPT !.protect = 1, !.image = m]
      /\ started'
  BY DEF StartReq, Idle, flash, past, Up
<1>2. Owned /\ ram \in Params
  BY <1>1, Between DEF IInv, Typed
<1>3. /\ ram' \in Params /\ ram'.protect = 1 /\ ram'.image = m /\ ram'.buf = ram.buf
  <2>1. ram' = [on |-> ram.on, protect |-> 1, image |-> m,
                offset |-> ram.offset, buf |-> ram.buf]
    BY <1>1, <1>2
  <2>2. ram.on \in BOOLEAN /\ ram.offset \in Nat /\ ram.buf \in Seq(Chunks)
    BY <1>2
  <2> QED BY <2>1, <2>2
<1>4. Typed'
  BY <1>1, <1>3 DEF IInv, Typed, StartReq
<1>5. Request'
  BY <1>1, <1>3 DEF Request
<1>6. ~Sure
  <2> SUFFICES ASSUME Sure PROVE FALSE
    OBVIOUS
  <2>1. info.body \in Images /\ area = Whole(info.body)
    BY <1>2 DEF Owned, Closed, Sure
  <2>2. 1 \in Unit /\ 1 \in 0 .. N
    BY OtaAssumption DEF Unit
  <2>3. area[1] = <<info.body, 1>>
    BY <2>1, <2>2 DEF Whole
  <2> QED BY <1>1, <2>1, <2>2, <2>3, OtaAssumption
<1>7. Owned'
  BY <1>1, <1>6, FlashKept DEF Owned
<1>8. Resting'
  BY <1>1, <1>3 DEF Resting, HeaderFirst
<1> QED BY <1>1, <1>4, <1>5, <1>7, <1>8, ClientFrame DEF Calls

LEMMA DataStep ==
    ASSUME IInv, NEW i \in Unit, Data(i)
    PROVE  IInv'
<1> DEFINE full == Len(ram.buf) = BufMax
           room == IF full THEN Flushed ELSE ram
<1>1. /\ mode = "app" /\ todo = << >> /\ Up /\ Up' /\ started /\ (full => ram.on)
      /\ UNCHANGED <<area, dest, info, locked, mode, started, spared>>
      /\ todo' = IF full THEN Flush ELSE << >>
      /\ ram' = [room EXCEPT !.buf = Append(@, <<ram.image, i>>)]
  BY DEF Data, Idle, flash, past, Up
<1>2. Owned /\ HeaderFirst /\ ram \in Params
  BY <1>1, Between DEF IInv, Typed
<1>3. ram.image \in Images /\ ram.protect # 2
  BY <1>1 DEF IInv, Request
<1>4. ~Sure /\ ~Sure'
  BY <1>1, <1>2, FlashKept DEF Owned, Closed
<1>5. /\ room \in Params /\ room.image = ram.image /\ room.on = ram.on
      /\ room.protect = IF full THEN 0 ELSE ram.protect
  <2>1. CASE full
    BY <1>2, <2>1, FlushedFields
  <2>2. CASE ~full
    BY <1>2, <2>2
  <2> QED BY <2>1, <2>2
<1> HIDE DEF room
<1>6. /\ ram' \in Params /\ ram'.image = ram.image
      /\ ram'.protect = IF full THEN 0 ELSE ram.protect
  <2>1. Append(room.buf, <<ram.image, i>>) \in Seq(Chunks)
    BY <1>3, <1>5 DEF Chunks
  <2> QED BY <1>1, <1>5, <2>1
<1>7. ram'.on = ram.on
  <2>1. ram'.on = room.on
    BY <1>1, <1>5
  <2> QED BY <1>5, <2>1
<1>8. Typed'
  BY <1>1, <1>6 DEF IInv, Typed
<1>9. Request'
  BY <1>1, <1>3, <1>6 DEF IInv, Request
<1>10. Owned'
  BY <1>4 DEF Owned
<1>11. CASE full
  <2>1. ram.buf # << >>
    BY <1>2, <1>11, OtaAssumption
  <2>2. (Header \/ Flushing)'
    BY <1>1, <1>3, <1>6, <1>7, <1>11, <2>1, FlushIsKnown
  <2> QED BY <1>1, <1>4, <1>8, <1>9, <1>10, <2>2, ClientFrame DEF Calls
<1>12. CASE ~full
  <2>1. Resting'
    BY <1>1, <1>2, <1>6, <1>12 DEF Resting, HeaderFirst
  <2> QED BY <1>1, <1>8, <1>9, <1>10, <2>1, ClientFrame DEF Calls
<1> QED BY <1>11, <1>12

\* The loops that wait for an empty buffer.
LEMMA DrainStep ==
    ASSUME IInv, Idle, ram.buf # << >>, Up', todo' = Flush, ram' = Flushed,
           UNCHANGED <<area, dest, info, locked, spared>>,
           Typed', started' => started,
           mode' = "end" => ram.on /\ ~started'
    PROVE  IInv'
<1>1. Up /\ todo = << >> /\ ram \in Params
  BY DEF Idle, Up, IInv, Typed
<1>2. ram.protect # 2
  BY DEF IInv, Request
<1>3. /\ ram' \in Params /\ ram'.on = ram.on /\ ram'.protect = 0 /\ ram'.image = ram.image
      /\ ram'.buf = << >> \/ (~ram.on /\ ram'.buf = ram.buf)
  BY <1>1, FlushedFields
<1>4. Request'
  BY <1>3 DEF IInv, Request
<1>5. (Header \/ Flushing)' /\ ~Sure
  BY <1>1, <1>2, <1>3, FlushIsKnown
<1>6. Owned' /\ ~Sure'
  BY <1>5, FlashKept DEF Owned
<1> QED BY <1>1, <1>4, <1>5, <1>6, ClientFrame DEF Calls

LEMMA EndReqStep == IInv /\ (EndReq \/ Hang) => IInv'
<1> SUFFICES ASSUME IInv, EndReq \/ Hang PROVE IInv'
  OBVIOUS
<1>1. /\ Idle /\ mode = "app" /\ todo = << >> /\ Up /\ Up'
      /\ mode' \in {"end", "stuck"} /\ (mode' = "end" => ~started')
      /\ started' \in BOOLEAN /\ (started' => started)
      /\ UNCHANGED <<area, dest, info, locked, spared>>
      /\ ram.buf # << >> => /\ todo' = Flush /\ ram' = Flushed
                            /\ mode' = "end" => ram.on
      /\ ram.buf = << >> => todo' = todo /\ ram' = ram /\ ~started'
  <2>1. Idle /\ mode = "app" /\ todo = << >> /\ Up
    BY DEF EndReq, Hang, Idle, Up
  <2>2. CASE EndReq
    <3>1. started' = FALSE /\ mode' = "end" /\ (ram.buf = << >> \/ ram.on)
      BY <2>2 DEF EndReq
    <3>2. /\ ram.buf # << >> => todo' = Flush /\ ram' = Flushed
          /\ ram.buf = << >> => todo' = todo /\ ram' = ram
      BY <2>2 DEF EndReq
    <3>3. UNCHANGED <<area, dest, info, locked, spared>>
      BY <2>2 DEF EndReq, flash, past
    <3> QED BY <2>1, <3>1, <3>2, <3>3 DEF Up
  <2>3. CASE Hang
    <3>1. /\ mode' = "stuck" /\ ram.buf # << >> /\ todo' = Flush /\ ram' = Flushed
          /\ UNCHANGED <<area, dest, info, locked, spared, started>>
      BY <2>3 DEF Hang, flash, client, past
    <3> QED BY <2>1, <3>1 DEF Up, IInv, Typed
  <2> QED BY <2>2, <2>3
<1>2. Owned /\ HeaderFirst /\ ram \in Params
  BY <1>1, Between DEF IInv, Typed
<1>3. CASE ram.buf # << >>
  <2>1. Typed'
    BY <1>1, <1>2, <1>3, FlushedFields DEF IInv, Typed
  <2> QED BY <1>1, <1>3, <2>1, DrainStep
<1>4. CASE ram.buf = << >>
  <2>1. ram' = ram /\ todo' = << >> /\ ~started'
    BY <1>1, <1>4
  <2>2. Typed' /\ Request'
    BY <1>1, <1>4, <2>1 DEF IInv, Typed, Request
  <2>3. Owned' /\ Resting'
    BY <1>1, <1>2, <1>4, <2>1, FlashKept DEF Owned, Closed, Resting, HeaderFirst
  <2> QED BY <1>1, <2>2, <2>3, ClientFrame DEF Calls
<1> QED BY <1>3, <1>4

\* The area holds units of images.
LEMMA NoneIsNoUnit ==
    ASSUME area \in [Unit -> Cells], ram \in Params, area = Whole(ram.image)
    PROVE  ram.image \in Images
<1>1. 1 \in Unit
  BY OtaAssumption DEF Unit
<1>2. <<ram.image, 1>> \in Cells
  BY <1>1 DEF Whole
<1>3. <<ram.image, 1>> \notin {Blank, Bad, None}
  <2>1. ram.image \in Images \cup {None} /\ 1 \in 0 .. N
    BY OtaAssumption
  <2> QED BY <2>1, OtaAssumption
<1> QED BY <1>2, <1>3 DEF Cells, Chunks

\* Success is told only of an image that is in the area, from its first to its last unit.
LEMMA FinishStep == IInv /\ Finish => IInv'
<1> SUFFICES ASSUME IInv, Finish PROVE IInv'
  OBVIOUS
<1>1. PICK r \in {SUCC, FAIL} :
        /\ mode = "end" /\ todo = << >> /\ mode' = "app"
        /\ todo' = Sealed(r, ram.image)
        /\ r = SUCC => Received
        /\ ram' = [ram EXCEPT !.protect = 2]
        /\ UNCHANGED <<area, dest, info, locked, started, spared>>
  <2>1. CASE Received
    BY <2>1 DEF Finish, flash, past
  <2>2. CASE ~Received
    BY <2>2 DEF Finish, flash, past, SUCC, FAIL
  <2> QED BY <2>1, <2>2
<1>2. Up /\ Up' /\ Owned /\ ram \in Params
  BY <1>1, Between DEF Up, IInv, Typed
<1>3. ~started /\ ram.buf = << >>
  BY <1>1 DEF IInv, Request
<1>4. ram' \in Params /\ ram'.protect = 2 /\ ram'.image = ram.image /\ ram'.buf = << >>
  BY <1>1, <1>2, <1>3
<1>5. Typed' /\ Request'
  BY <1>1, <1>3, <1>4 DEF IInv, Typed, Request
<1>6. Owned'
  <2>1. UNCHANGED <<area, dest, info, spared>> /\ ~started'
    BY <1>1, <1>3
  <2>2. Sure' = Sure /\ info' = info /\ area' = area
    BY <2>1, FlashKept
  <2> QED BY <1>2, <1>4, <2>1, <2>2 DEF Owned, Closed
<1>7. todo' = <<Mark(r), Body, Seal(r)>>
  <2>1. Sealed(r, ram.image) = Append(<<Mark(r), Body>>, Seal(r))
    BY DEF Sealed, Info, Mark, Body, Seal
  <2>2. Append(<<Mark(r), Body>>, Seal(r)) = <<Mark(r), Body, Seal(r)>>
    BY AppendThree
  <2> QED BY <1>1, <2>1, <2>2
<1>8. Mark(r)' = Mark(r) /\ Body' = Body /\ Seal(r)' = Seal(r)
  BY <1>4 DEF Mark, Body, Seal
<1>9. r = SUCC => ram'.image \in Images /\ Closed(ram.image)'
  <2> SUFFICES ASSUME r = SUCC PROVE ram'.image \in Images /\ Closed(ram.image)'
    OBVIOUS
  <2>1. area = Whole(ram.image) /\ area \in [Unit -> Cells] /\ 1 \in Unit
    BY <1>1, OtaAssumption DEF Received, IInv, Typed, Unit
  <2>2. ram.image \in Images
    BY <1>2, <2>1, NoneIsNoUnit
  <2> QED BY <1>1, <1>3, <1>4, <2>1, <2>2 DEF Closed
<1>10. Sealing'
  BY <1>1, <1>4, <1>7, <1>8, <1>9 DEF Sealing
<1> QED BY <1>1, <1>2, <1>5, <1>6, <1>10, ClientFrame DEF Calls

LEMMA WriteEnvStep ==
    ASSUME IInv, NEW v \in EnvValues, WriteEnv(v)
    PROVE  IInv'
<1>1. /\ mode = "app" /\ todo = << >> /\ Up /\ Up'
      /\ UNCHANGED <<area, dest, info, locked, mode, ram, started, spared>>
  BY DEF WriteEnv, Idle, flash, client, Up
<1>2. Owned /\ HeaderFirst
  BY <1>1, Between
<1>3. todo' \in Seq(EnvAccesses)
  BY SavingType
<1>4. Typed' /\ Request'
  BY <1>1 DEF IInv, Typed, Request
<1>5. Owned' /\ Resting'
  BY <1>1, <1>2, <1>3, OwnedKept DEF Resting, HeaderFirst
<1> QED BY <1>1, <1>4, <1>5, ClientFrame DEF Calls

\* A reset, or a power loss, at any point.
LEMMA OffStep == IInv /\ (Reboot \/ Crash) => IInv'
<1> SUFFICES ASSUME IInv, Reboot \/ Crash PROVE IInv'
  OBVIOUS
<1>1. /\ mode' = "boot" /\ todo' = << >> /\ ram' = Quiet /\ ~started' /\ started' \in BOOLEAN
      /\ UNCHANGED <<area, dest, info, locked, spared>>
  BY DEF Reboot, Crash, Off, flash
<1>2. Complete \/ Known
  BY DEF IInv, Typed, Boots, Up
<1>3. Complete' = Complete /\ Known' = Known /\ InfoFirst' /\ SealedIsWhole'
  BY <1>1, FlashKept DEF IInv
<1>4. Typed'
  BY <1>1 DEF IInv, Typed, Quiet
<1>5. Boots' /\ Calls' /\ Request'
  BY <1>1, <1>2, <1>3 DEF Boots, Calls, Request, Up, Untouched, Quiet
<1> QED BY <1>3, <1>4, <1>5 DEF IInv

-----------------------------------------------------------------------------
(* The theorems. *)

\* The info is written before the area and erased after it, an image is sealed when it is
\* whole, and what runs is whole or will be copied, after every flash access and every
\* power loss, whatever clients send (driver_ota.c, beken_ota.c, bootloader.c).
THEOREM InductiveInvariant == Spec => []IInv
<1>1. IInv /\ [Next]_vars => IInv'
  <2> SUFFICES ASSUME IInv, [Next]_vars PROVE IInv'
    OBVIOUS
  <2>1. CASE UNCHANGED vars
    <3>1. UNCHANGED <<area, dest, info, locked, mode, todo, ram, started, spared>>
      BY <2>1 DEF vars, flash, client, past
    <3>2. /\ Complete' = Complete /\ Known' = Known /\ Sure' = Sure
          /\ InfoFirst' /\ SealedIsWhole'
      BY <3>1, FlashKept DEF IInv
    <3>3. Typed' /\ Request'
      BY <3>1 DEF IInv, Typed, Request
    <3>4. Boots'
      BY <3>1, <3>2 DEF IInv, Boots, Up, Untouched
    <3>5. /\ Unlock' = Unlock /\ Body' = Body /\ Mark(ONGO)' = Mark(ONGO)
          /\ \A r \in {SUCC, FAIL} : Mark(r)' = Mark(r) /\ Seal(r)' = Seal(r)
      BY <3>1 DEF Unlock, Body, Mark, Seal
    <3>6. Cleanup' = Cleanup /\ Header' = Header /\ Owned' = Owned
      <4>1. \A j, l : Cleaning(j, l)' = Cleaning(j, l)
        BY DEF Cleaning, Access
      <4>2. \A j, l : Sweep(j, l)' = Sweep(j, l)
        BY <3>1, <4>1 DEF Sweep
      <4>3. Cleanup' = Cleanup
        BY <3>1, <3>2, <4>2 DEF Cleanup, Untouched
      <4> QED BY <3>1, <3>2, <3>5, <4>3 DEF Header, Blocked, Marked, Owned, Closed
    <3>7. Flushing' = Flushing /\ Sealing' = Sealing /\ Resting' = Resting
      BY <3>1, <3>5 DEF Flushing, Sealing, Blocked, Marked, Closed, Resting, HeaderFirst
    <3>8. Calls'
      BY <3>1, <3>2, <3>6, <3>7 DEF IInv, Calls, Up
    <3> QED BY <3>2, <3>3, <3>4, <3>8 DEF IInv
  <2>2. CASE Next
    <3>1. CASE Boot \/ BootWork \/ Verify \/ Booted \/ Start
      BY <3>1, BootStep, BootWorkStep, VerifyStep, StartStep
    <3>2. CASE Work \/ WriteFlash \/ Inquiry \/ EndReq \/ Finish \/ Hang
      BY <3>2, WorkStep, WriteFlashStep, InquiryStep, EndReqStep, FinishStep
    <3>3. CASE \E m \in Images : StartReq(m)
      BY <3>3, StartReqStep
    <3>4. CASE \E i \in Unit : Data(i)
      BY <3>4, DataStep
    <3>5. CASE \E v \in EnvValues : WriteEnv(v)
      BY <3>5, WriteEnvStep
    <3>6. CASE Reboot \/ Crash
      BY <3>6, OffStep
    <3> QED BY <2>2, <3>1, <3>2, <3>3, <3>4, <3>5, <3>6 DEF Next
  <2> QED BY <2>1, <2>2
<1> QED BY <1>1, Initially, PTL DEF Spec

\* Whatever lies in the area is known to the info, wherever the power is lost, but for the
\* units that the erasing passes over.
THEOREM AreaIsMarked == Spec => []DirtyIsMarked
<1>1. IInv => DirtyIsMarked
  BY DEF IInv, InfoFirst, DirtyIsMarked, Fresh
<1> QED BY <1>1, InductiveInvariant, PTL

\* What the boot loader takes for complete is one image, from its first unit to its last.
THEOREM SealMeansWhole == Spec => []SealedIsWhole
<1>1. IInv => SealedIsWhole
  BY DEF IInv
<1> QED BY <1>1, InductiveInvariant, PTL

\* The firmware that runs is complete, wherever the power was lost and whatever was copied
\* wrong.
THEOREM WholeImageRuns == Spec => []RunsWholeImage
<1>1. IInv => RunsWholeImage
  BY DEF IInv, Boots, Up, Complete, RunsWholeImage
<1> QED BY <1>1, InductiveInvariant, PTL

-----------------------------------------------------------------------------
(* The environment.  Its blocks are used in their order; a call that saves *)
(* leaves no value before the block it writes, and no other call touches   *)
(* the environment.                                                        *)

Blocks == 1 .. EnvBlocks
Values == EnvValues \cup {Torn}
Contents == EnvValues \cup {Blank, Used, Torn}

EnvOps == {"erase env", "env", "env line"}

\* The accesses that are left of a call that does not touch the environment.
Harmless(x) == \E op, at, value : op \notin EnvOps /\ x = Access(op, at, value)
Foreign(s) == \E S : s \in Seq(S) /\ \A x \in S : Harmless(x)

\* driver_ota_param, with any data in its buffer.
Buffers(S) ==
    [on : BOOLEAN, protect : 0 .. 2, image : Images \cup {None}, offset : Nat, buf : Seq(S)]

\* A block that app_flash_write_env_data has looked at.
Past(b) == env[b] # Blank /\ (calm => env[b] \notin Values)

\* The accesses that follow when u blocks are in use.
Rest(u) ==
    IF u < EnvBlocks
    THEN <<Access("env line", u + 1, Torn), Access("env", u + 1, saved)>>
    ELSE <<Access("erase env", 0, Blank), Access("env line", 1, Torn), Access("env", 1, saved)>>

Outdated(b) == IF Value(b) THEN Access("env", b, Used) ELSE Access("look", b, Blank)

\* r of the u blocks in use still have to be looked at.
Outdating(u, r) ==
    /\ \A b \in Blocks : env[b] = Blank <=> b > u
    /\ Len(todo) = r + Len(Rest(u))
    /\ \A i \in 1 .. Len(Rest(u)) : todo[r + i] = Rest(u)[i]
    /\ \A i \in 1 .. r : todo[i] = Outdated(u - r + i)
    /\ \A b \in 1 .. u - r : Past(b)

\* The first line of the block was written.
Saving(u) ==
    /\ u < EnvBlocks
    /\ todo = <<Access("env", u + 1, saved)>>
    /\ \A b \in 1 .. u : Past(b)
    /\ \A b \in u + 2 .. EnvBlocks : env[b] = Blank

\* A call of app_flash_write_env_data is running.
EnvCall ==
    /\ mode = "app" /\ (calm => ~ram.on) /\ saved \in EnvValues
    /\ \E S : todo \in Seq(S)
    /\ \E u \in 0 .. EnvBlocks :
          \/ \E r \in 0 .. u : Outdating(u, r)
          \/ Saving(u)

Contiguous == \A b, c \in Blocks : b < c /\ env[b] = Blank => env[c] = Blank

EnvInv ==
    /\ env \in [Blocks -> Contents]
    /\ \E S : ram \in Buffers(S)
    /\ \/ Foreign(todo) /\ Contiguous /\ (calm => Reads = saved)
       \/ EnvCall

\* What the start finds in the blocks e: the first value, or what is blank.
LEMMA ReadsLemma ==
    ASSUME NEW e, NEW u \in 0 .. EnvBlocks, u < EnvBlocks,
           \A b \in 1 .. u : e[b] \notin EnvValues \cup {Torn} /\ e[b] # Blank,
           e[u + 1] \in EnvValues \cup {Torn}
    PROVE  LET stop == {b \in 1 .. EnvBlocks : e[b] \in EnvValues \cup {Torn} \/ e[b] = Blank}
           IN  (IF stop = {} THEN Blank ELSE e[CHOOSE b \in stop : \A c \in stop : b <= c]) = e[u + 1]
<1> DEFINE stop == {b \in 1 .. EnvBlocks : e[b] \in EnvValues \cup {Torn} \/ e[b] = Blank}
<1>1. u + 1 \in stop
  BY OtaAssumption
<1>2. \A b \in stop : u + 1 <= b
  OBVIOUS
<1>3. \A b \in stop : (\A c \in stop : b <= c) => b = u + 1
  BY <1>1, <1>2
<1>4. (CHOOSE b \in stop : \A c \in stop : b <= c) = u + 1
  <2> HIDE DEF stop
  <2> QED BY <1>1, <1>2, <1>3
<1> QED BY <1>1, <1>4

-----------------------------------------------------------------------------
(* Calls that do not touch the environment. *)

LEMMA HarmlessOp ==
    ASSUME NEW x, Harmless(x)
    PROVE  x.op \notin EnvOps
BY DEF Harmless, Access

LEMMA ForeignIntro ==
    ASSUME NEW s, NEW S, s \in Seq(S), \A x \in S : Harmless(x)
    PROVE  Foreign(s)
BY DEF Foreign

LEMMA ForeignConcat ==
    ASSUME NEW s, NEW t, Foreign(s), Foreign(t)
    PROVE  Foreign(s \o t)
<1>1. PICK S : s \in Seq(S) /\ \A x \in S : Harmless(x)
  BY DEF Foreign
<1>2. PICK T : t \in Seq(T) /\ \A x \in T : Harmless(x)
  BY DEF Foreign
<1>3. s \in Seq(S \cup T) /\ t \in Seq(S \cup T)
  BY <1>1, <1>2
<1>4. s \o t \in Seq(S \cup T)
  BY <1>3
<1>5. \A x \in S \cup T : Harmless(x)
  BY <1>1, <1>2
<1> QED BY <1>4, <1>5, ForeignIntro

\* Accesses that are given by their numbers.
LEMMA ForeignOf ==
    ASSUME NEW n \in Nat, NEW f, f = [i \in 1 .. n |-> f[i]],
           \A i \in 1 .. n : Harmless(f[i])
    PROVE  Foreign(f)
<1> DEFINE S == {f[i] : i \in 1 .. n}
<1>1. f \in [1 .. n -> S]
  OBVIOUS
<1>2. f \in Seq(S)
  BY <1>1, FunctionIsSequence
<1>3. \A x \in S : Harmless(x)
  OBVIOUS
<1> HIDE DEF S
<1> QED BY <1>2, <1>3, ForeignIntro

\* Accesses of one kind.
LEMMA ForeignUnits ==
    ASSUME NEW n \in Nat, NEW op, op \notin EnvOps, NEW at, NEW value
    PROVE  Foreign([i \in 1 .. n |-> Access(op, at[i], value[i])])
<1> DEFINE A == [i \in 1 .. n |-> Access(op, at[i], value[i])]
<1>1. A = [i \in 1 .. n |-> A[i]] /\ \A i \in 1 .. n : A[i] = Access(op, at[i], value[i])
  OBVIOUS
<1> HIDE DEF A
<1>2. ASSUME NEW i \in 1 .. n PROVE Harmless(A[i])
  BY <1>1 DEF Harmless
<1>3. Foreign(A)
  BY <1>1, <1>2, ForeignOf
<1> QED BY <1>3 DEF A

LEMMA ForeignFew ==
    ASSUME NEW x, NEW y, NEW z, Harmless(x), Harmless(y), Harmless(z)
    PROVE  Foreign(<< >>) /\ Foreign(<<x>>) /\ Foreign(<<x, y>>) /\ Foreign(<<x, y, z>>)
<1> DEFINE S == {x, y, z}
<1>1. << >> \in Seq(S) /\ <<x>> \in Seq(S) /\ <<x, y>> \in Seq(S) /\ <<x, y, z>> \in Seq(S)
  OBVIOUS
<1>2. \A e \in S : Harmless(e)
  OBVIOUS
<1> HIDE DEF S
<1> QED BY <1>1, <1>2, ForeignIntro

LEMMA ForeignNothing ==
    /\ Foreign(<< >>)
    /\ \A op, at, value : op \notin EnvOps => Foreign(<<Access(op, at, value)>>)
<1>1. \A op, at, value : op \notin EnvOps => Harmless(Access(op, at, value))
  BY DEF Harmless
<1>2. ASSUME NEW op, NEW at, NEW value, op \notin EnvOps
      PROVE  Foreign(<< >>) /\ Foreign(<<Access(op, at, value)>>)
  <2> DEFINE x == Access(op, at, value)
  <2>1. Harmless(x)
    BY <1>1, <1>2
  <2> HIDE DEF x
  <2>2. Foreign(<< >>) /\ Foreign(<<x>>)
    BY <2>1, ForeignFew
  <2> QED BY <2>2 DEF x
<1>3. "look" \notin EnvOps
  BY DEF EnvOps
<1> QED BY <1>2, <1>3

LEMMA ForeignTail ==
    ASSUME NEW s, Foreign(s), s # << >>
    PROVE  Foreign(Tail(s)) /\ Harmless(Head(s))
<1>1. PICK S : s \in Seq(S) /\ \A x \in S : Harmless(x)
  BY DEF Foreign
<1>2. Tail(s) \in Seq(S) /\ Head(s) \in S
  BY <1>1, TailType
<1> QED BY <1>1, <1>2, ForeignIntro

\* What the calls of the update, the start and the boot loader do.
LEMMA ForeignCalls ==
    ASSUME \E S : ram \in Buffers(S)
    PROVE  /\ Foreign(Copying) /\ \A k, l \in Int : l - 1 <= k => Foreign(Cleaning(k, l))
           /\ Foreign(Flush) /\ \A r : Foreign(Sealed(r, ram.image))
<1>1. N \in Nat /\ \A k \in 0 .. N : k \in Nat
  BY OtaAssumption
<1>2. \A op, at, value : op \notin EnvOps => Foreign(<<Access(op, at, value)>>)
  BY ForeignNothing
<1>3. Foreign(<< >>)
  BY ForeignNothing
<1>4. Foreign(Copying)
  <2> DEFINE at == [i \in 1 .. N |-> i]
             blank == [i \in 1 .. N |-> Blank]
             A == [i \in 1 .. N |-> Access("erase dest", at[i], blank[i])]
             B == [i \in 1 .. N |-> Access("dest", at[i], area[i])]
  <2>1. Copying = A \o B
    BY DEF Copying
  <2> HIDE DEF at, blank
  <2>2. Foreign(A)
    BY <1>1, ForeignUnits DEF EnvOps
  <2>3. Foreign(B)
    BY <1>1, ForeignUnits DEF EnvOps
  <2> HIDE DEF A, B
  <2> QED BY <2>1, <2>2, <2>3, ForeignConcat
<1>5. ASSUME NEW k \in Int, NEW l \in Int, l - 1 <= k PROVE Foreign(Cleaning(k, l))
  <2> DEFINE n == k + 1 - l
             at == [i \in 1 .. n |-> k + 1 - i]
             blank == [i \in 1 .. n |-> Blank]
             A == [i \in 1 .. n |-> Access("erase area", at[i], blank[i])]
  <2>1. Cleaning(k, l) = A \o <<Access("erase info", 0, Blank)>> /\ n \in Nat
    <3>1. A = [i \in 1 .. k + 1 - l |-> Access("erase area", k + 1 - i, Blank)]
      OBVIOUS
    <3>2. n \in Nat
      BY <1>5
    <3> QED BY <3>1, <3>2 DEF Cleaning
  <2> HIDE DEF at, blank, n
  <2>2. Foreign(A)
    BY <2>1, ForeignUnits DEF EnvOps
  <2>3. Foreign(<<Access("erase info", 0, Blank)>>)
    BY <1>2 DEF EnvOps
  <2> HIDE DEF A
  <2> QED BY <2>1, <2>2, <2>3, ForeignConcat
<1>7. ASSUME NEW r PROVE Foreign(Info(r, ram.image)) /\ Foreign(Sealed(r, ram.image))
  <2>1. Sealed(r, ram.image) = <<Access("mark", 0, r), Access("body", 0, ram.image),
                                 Access("seal", 0, <<r, ram.image>>)>>
    BY AppendThree DEF Sealed, Info
  <2> DEFINE x == Access("mark", 0, r)
             y == Access("body", 0, ram.image)
             z == Access("seal", 0, <<r, ram.image>>)
  <2>2. Harmless(x) /\ Harmless(y) /\ Harmless(z)
    BY DEF Harmless, EnvOps
  <2>3. Info(r, ram.image) = <<x, y>> /\ Sealed(r, ram.image) = <<x, y, z>>
    BY <2>1 DEF Info
  <2> HIDE DEF x, y, z
  <2> QED BY <2>2, <2>3, ForeignFew
<1>8. Foreign(Units(ram.offset + 1, ram.buf))
  <2> DEFINE n == Len(ram.buf)
             at == [i \in 1 .. n |-> (ram.offset + 1) + i - 1]
             buf == ram.buf
             U == [i \in 1 .. n |-> Access("area", at[i], buf[i])]
  <2>1. n \in Nat
    BY DEF Buffers
  <2>2. Units(ram.offset + 1, ram.buf) = U
    BY DEF Units
  <2> HIDE DEF n, at, buf
  <2>3. Foreign(U)
    BY <2>1, ForeignUnits DEF EnvOps
  <2> QED BY <2>2, <2>3
<1>9. Foreign(Flush)
  <2> DEFINE first == CASE ram.protect = 1 -> <<Access("unlock", 0, Blank)>> \o Info(ONGO, ram.image)
                        [] ram.protect = 2 -> <<Access("lock", 0, Blank)>>
                        [] OTHER           -> << >>
             then == IF ram.on THEN Units(ram.offset + 1, ram.buf) ELSE << >>
  <2>1. Foreign(<<Access("unlock", 0, Blank)>> \o Info(ONGO, ram.image))
    BY <1>2, <1>7, ForeignConcat DEF EnvOps
  <2>2. Foreign(first)
    BY <1>2, <1>3, <2>1 DEF EnvOps
  <2>3. Foreign(then)
    BY <1>3, <1>8
  <2>4. Flush = first \o then
    BY DEF Flush
  <2> HIDE DEF first, then
  <2> QED BY <2>2, <2>3, <2>4, ForeignConcat
<1> QED BY <1>4, <1>5, <1>7, <1>9
-----------------------------------------------------------------------------
(* The accesses of a call that saves. *)

EnvType == env \in [Blocks -> Contents]

LEMMA CallContiguous ==
    ASSUME EnvType, EnvCall
    PROVE  Contiguous
<1>1. PICK u \in 0 .. EnvBlocks : (\E r \in 0 .. u : Outdating(u, r)) \/ Saving(u)
  BY DEF EnvCall
<1>2. CASE \E r \in 0 .. u : Outdating(u, r)
  <2>1. \A b \in Blocks : env[b] = Blank <=> b > u
    BY <1>2 DEF Outdating
  <2> QED BY <2>1, OtaAssumption DEF Contiguous, Blocks
<1>3. CASE Saving(u)
  <2>1. (\A b \in 1 .. u : env[b] # Blank) /\ \A b \in u + 2 .. EnvBlocks : env[b] = Blank
    BY <1>3 DEF Saving, Past
  <2> QED BY <2>1, OtaAssumption DEF Contiguous, Blocks
<1> QED BY <1>1, <1>2, <1>3

\* What an access of the application does to the environment.
LEMMA WorkEnv ==
    ASSUME NEW x, x = Head(todo), Work
    PROVE  /\ todo' = Tail(todo) /\ UNCHANGED <<mode, ram, saved, calm>>
           /\ x.op \notin EnvOps => env' = env
           /\ x.op = "erase env" => env' = [b \in DOMAIN env |-> Blank]
           /\ x.op \in {"env", "env line"} =>
                 env' = [env EXCEPT ![x.at] = x.value] \/ (env' = env /\ ram.on)
<1>1. /\ todo' = Tail(todo) /\ UNCHANGED <<mode, ram, saved, calm>>
      /\ (Reaches(x) /\ Effect(x)) \/ (~Reaches(x) /\ env' = env)
  BY DEF Work, past
<1>2. Reaches(x) <=> x.op \in Erases \/ ~ram.on \/ ~locked
  BY DEF Reaches
<1>3. Effect(x) => env' = CASE x.op = "erase env" -> [b \in DOMAIN env |-> Blank]
                            [] x.op \in {"env", "env line"} -> [env EXCEPT ![x.at] = x.value]
                            [] OTHER -> env
  BY DEF Effect
<1>4. x.op \notin EnvOps => env' = env
  BY <1>1, <1>3 DEF EnvOps
<1>5. x.op = "erase env" => env' = [b \in DOMAIN env |-> Blank]
  BY <1>1, <1>2, <1>3 DEF Erases
<1>6. x.op \in {"env", "env line"} =>
         env' = [env EXCEPT ![x.at] = x.value] \/ (env' = env /\ ram.on)
  BY <1>1, <1>2, <1>3 DEF Erases
<1> QED BY <1>1, <1>4, <1>5, <1>6

\* A block is looked at, and loses its tag.
LEMMA LookStep ==
    ASSUME EnvType, Work, calm => ~ram.on, NEW S, todo \in Seq(S),
           NEW u \in 0 .. EnvBlocks, NEW r \in 0 .. u, r > 0, Outdating(u, r)
    PROVE  EnvType' /\ Outdating(u, r - 1)'
<1> DEFINE c == u - r + 1
           x == Head(todo)
           n == Len(Rest(u))
<1>1. EnvBlocks \in Nat /\ c \in Blocks /\ c <= u /\ r - 1 \in Nat /\ u \in Nat /\ r \in Nat
  BY OtaAssumption DEF Blocks
<1>2. n \in Nat
  BY DEF Rest
<1>3. Len(todo) = r + n /\ \A i \in 1 .. r : todo[i] = Outdated(u - r + i)
  BY DEF Outdating
<1>4. todo # << >> /\ x = todo[1] /\ Len(Tail(todo)) = Len(todo) - 1
      /\ \A i \in 1 .. Len(todo) - 1 : Tail(todo)[i] = todo[i + 1]
  <2> HIDE DEF n
  <2> QED BY <1>1, <1>2, <1>3
<1>5. x = Outdated(c)
  BY <1>1, <1>3, <1>4
<1>6. todo' = Tail(todo) /\ saved' = saved /\ calm' = calm
  BY WorkEnv
<1>7. /\ \A b \in Blocks : b # c => env'[b] = env[b]
      /\ env'[c] # Blank /\ (calm => env'[c] \notin Values) /\ EnvType'
  <2>1. env[c] # Blank
    BY <1>1 DEF Outdating
  <2>2. CASE Value(c)
    <3>1. x.op = "env" /\ x.at = c /\ x.value = Used
      BY <1>5, <2>2 DEF Outdated, Access
    <3>2. env' = [env EXCEPT ![c] = Used] \/ (env' = env /\ ram.on)
      <4> HIDE DEF x, c
      <4> QED BY <3>1, WorkEnv DEF x
    <3> HIDE DEF x, c
    <3> QED BY <1>1, <2>1, <3>2, OtaAssumption DEF EnvType, Contents, Values
  <2>3. CASE ~Value(c)
    <3>1. x.op = "look"
      BY <1>5, <2>3 DEF Outdated, Access
    <3>2. env' = env
      <4> HIDE DEF x
      <4> QED BY <3>1, WorkEnv DEF x, EnvOps
    <3> QED BY <1>1, <2>1, <2>3, <3>2 DEF EnvType, Value, Values
  <2> QED BY <2>2, <2>3
<1> HIDE DEF x, n
<1>8. \A b \in Blocks : env'[b] = Blank <=> b > u
  BY <1>1, <1>7 DEF Outdating
<1>9. Rest(u)' = Rest(u)
  BY <1>6 DEF Rest
<1>10. Len(todo') = (r - 1) + Len(Rest(u)') /\ \A i \in 1 .. Len(Rest(u)') : todo'[(r - 1) + i] = Rest(u)'[i]
  <2>1. \A i \in 1 .. n : todo[r + i] = Rest(u)[i]
    BY DEF Outdating, n
  <2>2. \A i \in 1 .. n : (r - 1) + i \in 1 .. Len(todo) - 1 /\ ((r - 1) + i) + 1 = r + i
    BY <1>1, <1>2, <1>3
  <2>3. \A i \in 1 .. n : todo'[(r - 1) + i] = Rest(u)[i]
    BY <1>4, <1>6, <2>1, <2>2
  <2>4. Len(todo') = (r - 1) + n
    BY <1>1, <1>2, <1>3, <1>4, <1>6
  <2> QED BY <1>9, <2>3, <2>4 DEF n
<1>11. ASSUME NEW i \in 1 .. r - 1 PROVE todo'[i] = Outdated(u - (r - 1) + i)'
  <2>1. todo'[i] = todo[i + 1] /\ todo[i + 1] = Outdated(u - r + (i + 1))
    BY <1>1, <1>2, <1>3, <1>4, <1>6
  <2> DEFINE d == u - r + (i + 1)
  <2>2. d \in Blocks /\ d # c /\ u - (r - 1) + i = d
    BY <1>1 DEF Blocks
  <2>3. env'[d] = env[d]
    BY <1>7, <2>2
  <2> HIDE DEF d
  <2>4. Outdated(d)' = Outdated(d)
    BY <2>3 DEF Outdated, Value
  <2> QED BY <2>1, <2>2, <2>4 DEF d
<1>12. ASSUME NEW b \in 1 .. u - (r - 1) PROVE Past(b)'
  <2>1. CASE b = c
    BY <1>6, <1>7, <2>1 DEF Past
  <2>2. CASE b # c
    <3>1. b \in 1 .. u - r /\ b \in Blocks
      BY <1>1, <2>2 DEF Blocks
    <3>2. Past(b) /\ env'[b] = env[b]
      BY <1>7, <2>2, <3>1 DEF Outdating
    <3> QED BY <1>6, <3>2 DEF Past
  <2> QED BY <2>1, <2>2
<1>13. Outdating(u, r - 1)'
  BY <1>8, <1>10, <1>11, <1>12 DEF Outdating
<1> QED BY <1>7, <1>13

\* All blocks in use were looked at: the first line of the next one is written, or all
\* blocks are erased.
LEMMA LineStep ==
    ASSUME EnvType, Work, calm => ~ram.on, NEW S, todo \in Seq(S), saved \in EnvValues,
           NEW u \in 0 .. EnvBlocks, Outdating(u, 0)
    PROVE  EnvType' /\ (Saving(u)' \/ Outdating(0, 0)')
<1> DEFINE x == Head(todo)
<1>1. EnvBlocks \in Nat /\ EnvBlocks > 0 /\ u \in Nat
  BY OtaAssumption
<1>2. /\ Len(todo) = Len(Rest(u)) /\ \A i \in 1 .. Len(Rest(u)) : todo[i] = Rest(u)[i]
      /\ \A b \in Blocks : env[b] = Blank <=> b > u
      /\ \A b \in 1 .. u : Past(b)
  BY <1>1 DEF Outdating
<1>3. todo' = Tail(todo) /\ saved' = saved /\ calm' = calm
  BY WorkEnv
<1>4. Torn \in Contents /\ Blank \in Contents
  BY DEF Contents
<1>5. CASE u < EnvBlocks
  <2> DEFINE y == Access("env line", u + 1, Torn)
             z == Access("env", u + 1, saved)
  <2>1. Rest(u) = <<y, z>>
    BY <1>5 DEF Rest
  <2> HIDE DEF y, z
  <2>2. todo = <<y, z>>
    BY <1>2, <2>1
  <2>3. x = y /\ todo' = <<z>>
    BY <1>3, <2>2
  <2>4. x.op = "env line" /\ x.at = u + 1 /\ x.value = Torn
    <3> HIDE DEF x
    <3> QED BY <2>3 DEF y, Access
  <2>5. env' = [env EXCEPT ![u + 1] = Torn] \/ env' = env
    <3> HIDE DEF x
    <3> QED BY <2>4, WorkEnv DEF x
  <2> HIDE DEF x
  <2>6. u + 1 \in Blocks /\ \A b \in Blocks : b # u + 1 => env'[b] = env[b]
    BY <1>1, <1>5, <2>5 DEF Blocks, EnvType
  <2>7. EnvType'
    BY <1>4, <2>5, <2>6 DEF EnvType
  <2>8. \A b \in 1 .. u : Past(b)'
    <3> SUFFICES ASSUME NEW b \in 1 .. u PROVE Past(b)'
      OBVIOUS
    <3>1. b \in Blocks /\ b # u + 1
      BY <1>1 DEF Blocks
    <3> QED BY <1>2, <1>3, <2>6, <3>1 DEF Past
  <2>9. \A b \in u + 2 .. EnvBlocks : env'[b] = Blank
    <3> SUFFICES ASSUME NEW b \in u + 2 .. EnvBlocks PROVE env'[b] = Blank
      OBVIOUS
    <3>1. b \in Blocks /\ b # u + 1 /\ b > u
      BY <1>1 DEF Blocks
    <3> QED BY <1>2, <2>6, <3>1
  <2>10. todo' = <<Access("env", u + 1, saved')>>
    BY <1>3, <2>3 DEF z
  <2>11. Saving(u)'
    BY <1>5, <2>8, <2>9, <2>10 DEF Saving
  <2> QED BY <2>7, <2>11
<1>6. CASE u = EnvBlocks
  <2> DEFINE w == Access("erase env", 0, Blank)
             y == Access("env line", 1, Torn)
             z == Access("env", 1, saved)
  <2>1. Rest(u) = <<w, y, z>> /\ Rest(0)' = <<y, z>>
    <3>1. ~(u < EnvBlocks) /\ 0 < EnvBlocks /\ 0 + 1 = 1
      BY <1>1, <1>6
    <3>2. Rest(u) = <<w, y, z>>
      BY <3>1 DEF Rest
    <3>3. Rest(0)' = <<y, z>>
      BY <1>3, <3>1 DEF Rest
    <3> QED BY <3>2, <3>3
  <2> HIDE DEF w, y, z
  <2>2. todo = <<w, y, z>>
    BY <1>2, <2>1
  <2>3. x = w /\ todo' = <<y, z>>
    BY <1>3, <2>2
  <2>4. x.op = "erase env"
    <3> HIDE DEF x
    <3> QED BY <2>3 DEF w, Access
  <2>5. env' = [b \in DOMAIN env |-> Blank]
    <3> HIDE DEF x
    <3> QED BY <2>4, WorkEnv DEF x
  <2> HIDE DEF x
  <2>6. env' = [b \in Blocks |-> Blank]
    BY <2>5 DEF EnvType
  <2>7. EnvType'
    BY <1>4, <2>6 DEF EnvType
  <2>8. Outdating(0, 0)'
    <3>1. \A b \in Blocks : env'[b] = Blank <=> b > 0
      BY <1>1, <2>6 DEF Blocks
    <3>2. Len(todo') = 0 + Len(Rest(0)')
      BY <2>1, <2>3
    <3>3. \A i \in 1 .. Len(Rest(0)') : todo'[0 + i] = Rest(0)'[i]
      BY <2>1, <2>3
    <3> QED BY <3>1, <3>2, <3>3 DEF Outdating
  <2> QED BY <2>7, <2>8
<1> QED BY <1>1, <1>5, <1>6

\* The value is written, and is what the next start finds.
LEMMA SaveStep ==
    ASSUME EnvType, Work, calm => ~ram.on, saved \in EnvValues,
           NEW u \in 0 .. EnvBlocks, Saving(u)
    PROVE  EnvType' /\ todo' = << >> /\ Contiguous' /\ (calm => Reads = saved)'
<1> DEFINE x == Head(todo)
<1>1. EnvBlocks \in Nat /\ EnvBlocks > 0 /\ u \in Nat /\ u < EnvBlocks /\ u + 1 \in Blocks
  BY OtaAssumption DEF Saving, Blocks
<1>2. todo' = Tail(todo) /\ saved' = saved /\ calm' = calm
  BY WorkEnv
<1>3. todo' = << >> /\ x = Access("env", u + 1, saved)
  BY <1>2 DEF Saving
<1>4. x.op = "env" /\ x.at = u + 1 /\ x.value = saved
  BY <1>3 DEF Access
<1>5. env' = [env EXCEPT ![u + 1] = saved] \/ (env' = env /\ ram.on)
  <2> HIDE DEF x
  <2> QED BY <1>4, WorkEnv DEF x
<1> HIDE DEF x
<1>6. \A b \in Blocks : b # u + 1 => env'[b] = env[b]
  BY <1>1, <1>5 DEF EnvType
<1>7. EnvType'
  BY <1>1, <1>5 DEF EnvType, Contents
<1>8. ASSUME NEW b \in 1 .. u PROVE env'[b] # Blank /\ (calm => env'[b] \notin Values)
  <2>1. b \in Blocks /\ b # u + 1 /\ Past(b)
    BY <1>1 DEF Blocks, Saving
  <2> QED BY <1>6, <2>1 DEF Past
<1>9. ASSUME NEW b \in u + 2 .. EnvBlocks PROVE env'[b] = Blank
  <2>1. b \in Blocks /\ b # u + 1 /\ env[b] = Blank
    BY <1>1 DEF Blocks, Saving
  <2> QED BY <1>6, <2>1
<1>10. Contiguous'
  <2> SUFFICES ASSUME NEW b \in Blocks, NEW c \in Blocks, b < c, env'[b] = Blank
               PROVE  env'[c] = Blank
    BY DEF Contiguous, Blocks
  <2>1. b \notin 1 .. u
    BY <1>8
  <2>2. c \in u + 2 .. EnvBlocks
    BY <1>1, <2>1 DEF Blocks
  <2> QED BY <1>9, <2>2
<1>11. ASSUME calm PROVE Reads' = saved
  <2>1. env' = [env EXCEPT ![u + 1] = saved]
    BY <1>5, <1>11
  <2>2. env'[u + 1] = saved
    BY <1>1, <2>1 DEF EnvType
  <2>3. \A b \in 1 .. u : ~Value(b)' /\ env'[b] # Blank
    BY <1>8, <1>11 DEF Value, Values
  <2>4. Value(u + 1)'
    BY <2>2 DEF Value
  <2>5. Reads' = env'[u + 1]
    BY <1>1, <2>3, <2>4, ReadsLemma DEF Reads, Value
  <2> QED BY <2>2, <2>5
<1> QED BY <1>2, <1>3, <1>7, <1>10, <1>11

-----------------------------------------------------------------------------
(* The steps. *)

LEMMA NumberedIsSequence ==
    ASSUME NEW n \in Nat, NEW f, f = [i \in 1 .. n |-> f[i]]
    PROVE  \E S : f \in Seq(S)
<1> DEFINE S == {f[i] : i \in 1 .. n}
<1>1. f \in [1 .. n -> S]
  OBVIOUS
<1>2. f \in Seq(S)
  BY <1>1, FunctionIsSequence
<1> HIDE DEF S
<1> QED BY <1>2

LEMMA ConcatIndex ==
    ASSUME NEW X, NEW d \in Seq(X), NEW r \in Seq(X)
    PROVE  /\ d \o r \in Seq(X) /\ Len(d \o r) = Len(d) + Len(r) /\ Len(d) \in Nat /\ Len(r) \in Nat
           /\ \A i \in 1 .. Len(d) : (d \o r)[i] = d[i]
           /\ \A i \in 1 .. Len(r) : (d \o r)[Len(d) + i] = r[i]
<1>1. d \o r \in Seq(X) /\ Len(d \o r) = Len(d) + Len(r) /\ Len(d) \in Nat /\ Len(r) \in Nat
  OBVIOUS
<1>2. ASSUME NEW i \in 1 .. Len(d) PROVE (d \o r)[i] = d[i]
  OBVIOUS
<1>3. ASSUME NEW i \in 1 .. Len(r) PROVE (d \o r)[Len(d) + i] = r[i]
  OBVIOUS
<1> QED BY <1>1, <1>2, <1>3

\* A call that saves has something left to do.
LEMMA CallRuns ==
    ASSUME EnvCall
    PROVE  mode = "app" /\ todo # << >>
<1>1. PICK S : todo \in Seq(S)
  BY DEF EnvCall
<1>2. PICK u \in 0 .. EnvBlocks : (\E r \in 0 .. u : Outdating(u, r)) \/ Saving(u)
  BY DEF EnvCall
<1>3. CASE \E r \in 0 .. u : Outdating(u, r)
  <2>1. PICK r \in 0 .. u : Outdating(u, r)
    BY <1>3
  <2>2. Len(Rest(u)) >= 2 /\ r >= 0
    BY OtaAssumption DEF Rest
  <2>3. Len(todo) = r + Len(Rest(u))
    BY <2>1 DEF Outdating
  <2>4. todo # << >>
    BY <1>1, <2>2, <2>3
  <2> QED BY <2>4 DEF EnvCall
<1>4. CASE Saving(u)
  BY <1>4 DEF EnvCall, Saving
<1> QED BY <1>2, <1>3, <1>4

\* A step that leaves the environment alone.
LEMMA OtherStep ==
    ASSUME EnvInv, Contiguous, calm => Reads = saved, UNCHANGED <<env, saved, calm>>,
           Foreign(todo'), \E S : ram' \in Buffers(S)
    PROVE  EnvInv'
<1>1. Reads' = Reads
  BY DEF Reads, Value
<1>2. Contiguous'
  BY DEF Contiguous
<1>3. (env \in [Blocks -> Contents])'
  BY DEF EnvInv
<1>4. (Foreign(todo) /\ Contiguous /\ (calm => Reads = saved))'
  BY <1>1, <1>2
<1> QED BY <1>3, <1>4 DEF EnvInv

\* app_flash_write_env_data is called: the blocks in use are before those that are blank.
LEMMA SaveBegins ==
    ASSUME EnvInv, NEW v \in EnvValues, WriteEnv(v)
    PROVE  EnvInv'
<1>1. /\ mode = "app" /\ todo = << >> /\ saved' = v /\ calm' = ~ram.on
      /\ UNCHANGED <<env, mode, ram>>
  BY DEF WriteEnv, Idle, flash
<1>2. Contiguous
  BY <1>1, CallRuns DEF EnvInv
<1> DEFINE Following(u) == todo' = Outdate(u) \o Save(u + 1, v)
           First(u) == todo' = Outdate(u) \o <<Access("erase env", 0, Blank)>> \o Save(1, v)
<1>3. PICK u \in 0 .. EnvBlocks :
         /\ \A b \in 1 .. u : env[b] # Blank
         /\ \/ u < EnvBlocks /\ env[u + 1] = Blank /\ Following(u)
            \/ u = EnvBlocks /\ First(u)
  BY DEF WriteEnv
<1> HIDE DEF Following, First
<1>4. EnvBlocks \in Nat /\ u \in Nat
  BY OtaAssumption
<1> DEFINE D == Outdate(u)
           R == Rest(u)'
<1>5. D = [b \in 1 .. u |-> Outdated(b)]
  BY DEF Outdate, Outdated
<1>6. PICK S : D \in Seq(S)
  <2>1. D = [i \in 1 .. u |-> D[i]]
    BY <1>5
  <2> HIDE DEF D
  <2> QED BY <1>4, <2>1, NumberedIsSequence
<1>7. Len(D) = u /\ \A i \in 1 .. u : D[i] = Outdated(i)
  <2> HIDE DEF D
  <2>1. DOMAIN D = 1 .. u
    BY <1>5
  <2> QED BY <1>4, <1>5, <1>6, <2>1
<1>8. todo' = D \o R
  <2>1. CASE u < EnvBlocks
    <3>1. R = Save(u + 1, v)
      BY <1>1, <2>1 DEF Rest, Save
    <3>2. Following(u)
      BY <1>3, <1>4, <2>1
    <3> HIDE DEF R
    <3> QED BY <3>1, <3>2 DEF Following
  <2>2. CASE u = EnvBlocks
    <3> DEFINE w == Access("erase env", 0, Blank)
               y == Access("env line", 1, Torn)
               z == Access("env", 1, v)
    <3>1. ~(u < EnvBlocks)
      BY <1>4, <2>2
    <3>2. R = <<w, y, z>> /\ Save(1, v) = <<y, z>>
      BY <1>1, <3>1 DEF Rest, Save
    <3>3. todo' = D \o <<w>> \o <<y, z>>
      <4>1. First(u)
        BY <1>3, <3>1
      <4> HIDE DEF w, y, z, R
      <4> QED BY <3>2, <4>1 DEF First, w
    <3> HIDE DEF D, R, w, y, z
    <3>4. D \o <<w>> \o <<y, z>> = D \o <<w, y, z>>
      BY <1>6
    <3> QED BY <3>2, <3>3, <3>4
  <2> QED BY <1>4, <2>1, <2>2
<1>9. \E T : R \in Seq(T)
  <2>1. CASE u < EnvBlocks
    <3> DEFINE y == Access("env line", u + 1, Torn)
               z == Access("env", u + 1, v)
    <3>1. R = <<y, z>>
      BY <1>1, <2>1 DEF Rest
    <3> HIDE DEF R, y, z
    <3>2. <<y, z>> \in Seq({y, z})
      OBVIOUS
    <3> QED BY <3>1, <3>2
  <2>2. CASE ~(u < EnvBlocks)
    <3> DEFINE w == Access("erase env", 0, Blank)
               y == Access("env line", 1, Torn)
               z == Access("env", 1, v)
    <3>1. R = <<w, y, z>>
      BY <1>1, <2>2 DEF Rest
    <3> HIDE DEF R, w, y, z
    <3>2. <<w, y, z>> \in Seq({w, y, z})
      OBVIOUS
    <3> QED BY <3>1, <3>2
  <2> QED BY <2>1, <2>2
<1>10. PICK T : R \in Seq(T)
  BY <1>9
<1> HIDE DEF D, R
<1>11. D \in Seq(S \cup T) /\ R \in Seq(S \cup T)
  BY <1>6, <1>10
<1>12. /\ todo' \in Seq(S \cup T) /\ Len(todo') = u + Len(R) /\ Len(R) \in Nat
       /\ \A i \in 1 .. u : todo'[i] = D[i]
       /\ \A i \in 1 .. Len(R) : todo'[u + i] = R[i]
  <2>1. /\ D \o R \in Seq(S \cup T) /\ Len(D \o R) = Len(D) + Len(R) /\ Len(R) \in Nat
        /\ \A i \in 1 .. Len(D) : (D \o R)[i] = D[i]
        /\ \A i \in 1 .. Len(R) : (D \o R)[Len(D) + i] = R[i]
    BY <1>11, ConcatIndex
  <2> QED BY <1>7, <1>8, <2>1
<1>13. (\A b \in 1 .. u : env[b] # Blank) /\ (u < EnvBlocks => env[u + 1] = Blank)
  BY <1>3, <1>4
<1>14. ASSUME NEW b \in Blocks PROVE env'[b] = Blank <=> b > u
  <2>1. b <= u => env[b] # Blank
    BY <1>4, <1>13 DEF Blocks
  <2>2. b > u => u < EnvBlocks /\ env[u + 1] = Blank /\ u + 1 \in Blocks /\ (b = u + 1 \/ u + 1 < b)
    BY <1>4, <1>13 DEF Blocks
  <2>3. b > u => env[b] = Blank
    BY <1>2, <2>2 DEF Contiguous
  <2> QED BY <1>1, <1>4, <2>1, <2>3 DEF Blocks
<1>15. ASSUME NEW i \in 1 .. u PROVE todo'[i] = Outdated(u - u + i)'
  <2>1. u - u + i = i
    BY <1>4
  <2>2. Outdated(i)' = Outdated(i)
    BY <1>1 DEF Outdated, Value
  <2> QED BY <1>7, <1>12, <2>1, <2>2
<1>16. \A b \in 1 .. u - u : Past(b)'
  BY <1>4
<1>17. Outdating(u, u)'
  BY <1>12, <1>14, <1>15, <1>16 DEF Outdating, R
<1>18. (mode = "app" /\ (calm => ~ram.on) /\ saved \in EnvValues /\ \E X : todo \in Seq(X))'
  BY <1>1, <1>12
<1>19. EnvCall'
  <2>1. u \in 0 .. EnvBlocks /\ u \in 0 .. u
    BY <1>4
  <2> QED BY <1>17, <1>18, <2>1 DEF EnvCall
<1> QED BY <1>1, <1>19 DEF EnvInv

LEMMA EnvWorkStep == EnvInv /\ Work => EnvInv'
<1> SUFFICES ASSUME EnvInv, Work PROVE EnvInv'
  OBVIOUS
<1>1. todo # << >> /\ UNCHANGED <<mode, ram, saved, calm>> /\ todo' = Tail(todo)
  BY WorkEnv DEF Work
<1>2. EnvType /\ \E S : ram' \in Buffers(S)
  BY <1>1 DEF EnvInv, EnvType
<1>3. CASE Foreign(todo) /\ Contiguous /\ (calm => Reads = saved)
  <2>1. Foreign(Tail(todo)) /\ Head(todo).op \notin EnvOps
    BY <1>1, <1>3, ForeignTail, HarmlessOp
  <2>2. env' = env
    BY <2>1, WorkEnv
  <2> QED BY <1>1, <1>2, <1>3, <2>1, <2>2, OtherStep
<1>4. CASE EnvCall
  <2>1. mode = "app" /\ (calm => ~ram.on) /\ saved \in EnvValues
    BY <1>4 DEF EnvCall
  <2>2. PICK S : todo \in Seq(S)
    BY <1>4 DEF EnvCall
  <2>3. Tail(todo) \in Seq(S)
    BY <1>1, <2>2, TailType
  <2>4. ASSUME EnvType', NEW u \in 0 .. EnvBlocks, (\E r \in 0 .. u : Outdating(u, r)') \/ Saving(u)'
        PROVE  EnvInv'
    <3>1. EnvCall'
      BY <1>1, <2>1, <2>3, <2>4 DEF EnvCall
    <3> QED BY <1>2, <2>4, <3>1 DEF EnvInv, EnvType
  <2>5. PICK u \in 0 .. EnvBlocks : (\E r \in 0 .. u : Outdating(u, r)) \/ Saving(u)
    BY <1>4 DEF EnvCall
  <2>6. ASSUME NEW r \in 0 .. u, Outdating(u, r), r > 0 PROVE EnvInv'
    <3>1. EnvType' /\ Outdating(u, r - 1)'
      BY <1>2, <2>1, <2>2, <2>6, LookStep
    <3>2. r - 1 \in 0 .. u
      BY <2>6, OtaAssumption
    <3> QED BY <2>4, <3>1, <3>2
  <2>7. ASSUME Outdating(u, 0) PROVE EnvInv'
    <3>1. EnvType' /\ (Saving(u)' \/ Outdating(0, 0)')
      BY <1>2, <2>1, <2>2, <2>7, LineStep
    <3>2. 0 \in 0 .. EnvBlocks /\ 0 \in 0 .. 0
      BY OtaAssumption
    <3>3. CASE Saving(u)'
      BY <2>4, <3>1, <3>3
    <3>4. CASE Outdating(0, 0)'
      BY <2>4, <3>1, <3>2, <3>4
    <3> QED BY <3>1, <3>3, <3>4
  <2>8. ASSUME Saving(u) PROVE EnvInv'
    <3>1. EnvType' /\ todo' = << >> /\ Contiguous' /\ (calm => Reads = saved)'
      BY <1>2, <2>1, <2>8, SaveStep
    <3>2. Foreign(<< >>)
      BY <1>2, ForeignNothing
    <3> QED BY <1>2, <3>1, <3>2 DEF EnvInv, EnvType
  <2> QED BY <2>5, <2>6, <2>7, <2>8
<1> QED BY <1>3, <1>4 DEF EnvInv

\* What the boot loader does: it does not know the environment.
LEMMA EnvBootWorkStep == EnvInv /\ BootWork => EnvInv'
<1> SUFFICES ASSUME EnvInv, BootWork PROVE EnvInv'
  OBVIOUS
<1> DEFINE x == Head(todo)
           y == [x EXCEPT !.value = Bad]
<1>1. /\ mode # "app" /\ todo # << >> /\ todo' = Tail(todo) /\ UNCHANGED <<saved, calm, ram>>
      /\ Effect(x) \/ (x.op = "dest" /\ Effect(y))
  BY DEF BootWork, past
<1>2. Foreign(todo) /\ Contiguous /\ (calm => Reads = saved) /\ \E S : ram \in Buffers(S)
  BY <1>1 DEF EnvInv, EnvCall
<1>3. Foreign(todo') /\ Harmless(x)
  BY <1>1, <1>2, ForeignTail
<1>4. ASSUME NEW z, Effect(z), z.op \notin EnvOps PROVE env' = env
  BY <1>4 DEF Effect, EnvOps
<1>5. x.op \notin EnvOps /\ y.op \notin EnvOps
  <2> HIDE DEF x
  <2>1. PICK op, at, value : op \notin EnvOps /\ x = Access(op, at, value)
    BY <1>3 DEF Harmless
  <2>2. y = Access(op, at, Bad)
    BY <2>1 DEF Access
  <2> QED BY <2>1, <2>2 DEF Access
<1>6. env' = env
  BY <1>1, <1>4, <1>5
<1> QED BY <1>1, <1>2, <1>3, <1>6, OtherStep

\* The calls that begin or end without a flash access.
LEMMA EnvClientStep ==
    ASSUME EnvInv, Boot \/ Verify \/ Booted \/ Start \/ WriteFlash \/ Inquiry \/ EndReq \/ Finish
                   \/ Hang \/ Reboot \/ (\E m \in Images : StartReq(m)) \/ \E i \in Unit : Data(i)
    PROVE  EnvInv'
<1>1. UNCHANGED <<env, saved, calm>>
  BY DEF Boot, Verify, Booted, Start, WriteFlash, Inquiry, EndReq, Finish, Hang, Reboot, Off,
         StartReq, Data, flash, past
<1>2. mode # "app" \/ todo = << >>
  BY DEF Boot, Verify, Booted, Start, WriteFlash, Inquiry, EndReq, Finish, Hang, Reboot,
         StartReq, Data, Idle
<1>3. Foreign(todo) /\ Contiguous /\ (calm => Reads = saved)
  BY <1>2, CallRuns DEF EnvInv
<1>4. \E S : ram \in Buffers(S)
  BY DEF EnvInv
<1>5. /\ Foreign(Copying) /\ \A k, l \in Int : l - 1 <= k => Foreign(Cleaning(k, l))
      /\ Foreign(Flush) /\ \A r : Foreign(Sealed(r, ram.image))
  BY <1>4, ForeignCalls
<1>6. Foreign(<< >>) /\ Foreign(<<Access("mark", 0, USED)>>)
  BY ForeignNothing DEF EnvOps
<1>7. PICK S : ram \in Buffers(S)
  BY <1>4
<1>8. Flushed \in Buffers(S)
  <2> DEFINE o == ram.offset + Len(ram.buf)
  <2>1. o \in Nat /\ << >> \in Seq(S) /\ 0 \in 0 .. 2
    BY <1>7 DEF Buffers
  <2>2. Flushed = IF ram.on THEN [ram EXCEPT !.protect = 0, !.offset = o, !.buf = << >>]
                  ELSE [ram EXCEPT !.protect = 0]
    BY DEF Flushed
  <2> HIDE DEF o
  <2>3. [ram EXCEPT !.protect = 0, !.offset = o, !.buf = << >>] \in Buffers(S)
    BY <1>7, <2>1 DEF Buffers
  <2>4. [ram EXCEPT !.protect = 0] \in Buffers(S)
    BY <1>7, <2>1 DEF Buffers
  <2> QED BY <2>2, <2>3, <2>4
<1>9. ASSUME NEW T, ram' \in Buffers(T), Foreign(todo') PROVE EnvInv'
  BY <1>1, <1>3, <1>9, OtherStep
<1>10. Quiet \in Buffers(S) /\ [Quiet EXCEPT !.on = TRUE] \in Buffers(S)
  <2>1. << >> \in Seq(S) /\ 0 \in 0 .. 2 /\ 0 \in Nat /\ None \in Images \cup {None}
    OBVIOUS
  <2>2. Quiet \in Buffers(S)
    BY <2>1 DEF Quiet, Buffers
  <2>3. [Quiet EXCEPT !.on = TRUE] \in Buffers(S)
    BY <2>2 DEF Buffers
  <2> QED BY <2>2, <2>3
<1>11. CASE Boot
  BY <1>3, <1>5, <1>7, <1>9, <1>11 DEF Boot
<1>12. CASE Verify
  BY <1>3, <1>5, <1>6, <1>7, <1>9, <1>12 DEF Verify
<1>13. CASE Booted
  BY <1>3, <1>7, <1>9, <1>13 DEF Booted
<1>14. CASE Start
  <2>1. todo' = << >> \/ \E w \in Walks : todo' = Cleaning(w[1], w[2])
    BY <1>14 DEF Start
  <2>2. N \in Nat /\ N > 0
    BY OtaAssumption
  <2>3. \A w \in Walks : w[1] \in Int /\ w[2] \in Int /\ w[2] - 1 <= w[1]
    BY <2>2, WalksType
  <2>4. Foreign(todo')
    BY <1>5, <1>6, <2>1, <2>3
  <2> QED BY <1>7, <1>9, <1>14, <2>4 DEF Start
<1>15. CASE WriteFlash
  BY <1>5, <1>8, <1>9, <1>15 DEF WriteFlash
<1>16. CASE Inquiry
  BY <1>3, <1>9, <1>10, <1>16 DEF Inquiry
<1>17. CASE EndReq \/ Hang
  BY <1>3, <1>5, <1>7, <1>8, <1>9, <1>17 DEF EndReq, Hang
<1>18. CASE Finish
  <2>1. ram' \in Buffers(S)
    BY <1>7, <1>18 DEF Finish, Buffers
  <2> QED BY <1>5, <1>9, <1>18, <2>1 DEF Finish
<1>19. CASE Reboot
  BY <1>6, <1>9, <1>10, <1>19 DEF Reboot, Off
<1>20. CASE \E m \in Images : StartReq(m)
  <2>1. ram' \in Buffers(S)
    <3>1. PICK m \in Images : ram' = [ram EXCEPT !.protect = 1, !.image = m]
      BY <1>20 DEF StartReq
    <3>2. 1 \in 0 .. 2 /\ m \in Images \cup {None}
      BY <3>1
    <3> QED BY <1>7, <3>1, <3>2 DEF Buffers
  <2> QED BY <1>3, <1>9, <1>20, <2>1 DEF StartReq
<1>21. CASE \E i \in Unit : Data(i)
  <2>1. PICK i \in Unit : Data(i)
    BY <1>21
  <2> DEFINE room == IF Len(ram.buf) = BufMax THEN Flushed ELSE ram
             unit == <<ram.image, i>>
  <2>2. room \in Buffers(S)
    BY <1>7, <1>8
  <2>3. ram' = [room EXCEPT !.buf = Append(@, unit)]
    BY <2>1 DEF Data
  <2> HIDE DEF room, unit
  <2>4. room.buf \in Seq(S \cup {unit})
    BY <2>2 DEF Buffers
  <2>5. Append(room.buf, unit) \in Seq(S \cup {unit})
    BY <2>4
  <2>6. ram' \in Buffers(S \cup {unit})
    BY <2>2, <2>3, <2>5 DEF Buffers
  <2>7. Foreign(todo')
    BY <1>5, <1>6, <2>1 DEF Data
  <2> QED BY <1>9, <2>6, <2>7
<1> QED BY <1>11, <1>12, <1>13, <1>14, <1>15, <1>16, <1>17, <1>18, <1>19, <1>20, <1>21
\* A save ends with the block that it writes.
LEMMA SaveIsSeen == EnvCall => InSave
<1> SUFFICES ASSUME EnvCall PROVE InSave
  OBVIOUS
<1>1. PICK S : todo \in Seq(S)
  BY DEF EnvCall
<1>2. PICK u \in 0 .. EnvBlocks : (\E r \in 0 .. u : Outdating(u, r)) \/ Saving(u)
  BY DEF EnvCall
<1>3. CASE Saving(u)
  <2>1. 1 \in DOMAIN todo /\ todo[1] = Access("env", u + 1, saved)
    BY <1>3 DEF Saving
  <2> QED BY <2>1 DEF InSave, Access
<1>4. ASSUME NEW r \in 0 .. u, Outdating(u, r) PROVE InSave
  <2> DEFINE R == Rest(u)
             x == Access("env", IF u < EnvBlocks THEN u + 1 ELSE 1, saved)
  <2>1. Len(R) \in {2, 3} /\ R[Len(R)] = x
    BY DEF Rest
  <2>2. Len(todo) = r + Len(R) /\ \A i \in 1 .. Len(R) : todo[r + i] = R[i]
    BY <1>4 DEF Outdating
  <2> HIDE DEF R, x
  <2>3. r \in Nat /\ Len(R) \in 1 .. Len(R)
    <3>1. EnvBlocks \in Nat
      BY OtaAssumption
    <3>2. u \in Nat
      BY <3>1
    <3> QED BY <3>2, <2>1
  <2>4. todo[r + Len(R)] = x /\ r + Len(R) \in DOMAIN todo
    BY <1>1, <2>1, <2>2, <2>3
  <2>5. x.op = "env"
    BY DEF x, Access
  <2> QED BY <2>4, <2>5 DEF InSave
<1> QED BY <1>2, <1>3, <1>4

\* The power goes: what is found after a save that was cut off is what counts.
LEMMA EnvCrashStep == EnvInv /\ Crash => EnvInv'
<1> SUFFICES ASSUME EnvInv, Crash PROVE EnvInv'
  OBVIOUS
<1>1. /\ todo' = << >> /\ ram' = Quiet /\ env' = env /\ calm' = calm
      /\ saved' = IF InSave THEN Reads ELSE saved
  BY DEF Crash, Off, flash
<1>2. Contiguous
  BY CallContiguous DEF EnvInv, EnvType
<1>3. Quiet \in Buffers({})
  <2>1. << >> \in Seq({}) /\ 0 \in 0 .. 2 /\ 0 \in Nat /\ None \in Images \cup {None}
    OBVIOUS
  <2> QED BY <2>1 DEF Quiet, Buffers
<1>4. (calm => Reads = saved)' /\ Contiguous'
  <2>1. Reads' = Reads /\ Contiguous'
    BY <1>1, <1>2 DEF Reads, Value, Contiguous
  <2>2. EnvCall => InSave
    BY SaveIsSeen
  <2> QED BY <1>1, <2>1, <2>2 DEF EnvInv
<1>5. Foreign(todo')
  BY <1>1, ForeignNothing
<1>6. (env \in [Blocks -> Contents])' /\ \E S : ram' \in Buffers(S)
  BY <1>1, <1>3 DEF EnvInv
<1> QED BY <1>4, <1>5, <1>6 DEF EnvInv

LEMMA EnvInitially == Init => EnvInv
<1> SUFFICES ASSUME Init PROVE EnvInv
  OBVIOUS
<1>1. /\ env = [b \in Blocks |-> Blank] /\ todo = << >> /\ ram = Quiet /\ saved = Blank
  BY DEF Init, Blocks
<1>2. Quiet \in Buffers({})
  <2>1. << >> \in Seq({}) /\ 0 \in 0 .. 2 /\ 0 \in Nat /\ None \in Images \cup {None}
    OBVIOUS
  <2> QED BY <2>1 DEF Quiet, Buffers
<1>3. env \in [Blocks -> Contents] /\ Contiguous
  BY <1>1 DEF Contents, Contiguous
<1>4. Reads = Blank
  <2> DEFINE stop == {b \in 1 .. EnvBlocks : Value(b) \/ env[b] = Blank}
  <2>1. 1 \in stop
    BY <1>1, OtaAssumption DEF Blocks
  <2>2. \A b \in stop : 1 <= b /\ env[b] = Blank
    BY <1>1, OtaAssumption DEF Blocks
  <2>3. (CHOOSE b \in stop : \A c \in stop : b <= c) \in stop
    <3> HIDE DEF stop
    <3> QED BY <2>1, <2>2
  <2> QED BY <2>1, <2>2, <2>3 DEF Reads
<1>5. Foreign(todo)
  BY <1>1, ForeignNothing
<1> QED BY <1>1, <1>2, <1>3, <1>4, <1>5 DEF EnvInv

\* What app_flash_write_env_data saved while no update went on is what the next start reads,
\* whatever updates, erasings and resets come after it, and wherever the power is lost in
\* them.  A save that a power loss cuts off is not spoken of: what is found after it counts
\* as saved.  For every number of blocks and any clients.
THEOREM EnvironmentIsKept == Spec => []EnvIsKept
<1>1. EnvInv /\ [Next]_vars => EnvInv'
  <2> SUFFICES ASSUME EnvInv, [Next]_vars PROVE EnvInv'
    OBVIOUS
  <2>1. CASE Work
    BY <2>1, EnvWorkStep
  <2>2. CASE BootWork
    BY <2>2, EnvBootWorkStep
  <2>3. CASE Boot \/ Verify \/ Booted \/ Start \/ WriteFlash \/ Inquiry \/ EndReq \/ Finish
             \/ Hang \/ Reboot \/ (\E m \in Images : StartReq(m)) \/ \E i \in Unit : Data(i)
    BY <2>3, EnvClientStep
  <2>4. CASE \E v \in EnvValues : WriteEnv(v)
    BY <2>4, SaveBegins
  <2>5. CASE Crash
    BY <2>5, EnvCrashStep
  <2>6. CASE UNCHANGED vars
    <3>1. UNCHANGED <<env, mode, todo, ram, saved, calm>>
      BY <2>6 DEF vars, flash, past
    <3>2. CASE Foreign(todo) /\ Contiguous /\ (calm => Reads = saved)
      BY <3>1, <3>2, OtherStep DEF EnvInv
    <3>3. CASE EnvCall
      <4>1. ASSUME NEW u, NEW r PROVE Outdating(u, r)' <=> Outdating(u, r)
        BY <3>1 DEF Outdating, Outdated, Past, Value, Rest
      <4>2. ASSUME NEW u PROVE Saving(u)' <=> Saving(u)
        BY <3>1 DEF Saving, Past
      <4>3. EnvCall'
        BY <3>1, <3>3, <4>1, <4>2 DEF EnvCall
      <4> QED BY <3>1, <4>3 DEF EnvInv
    <3> QED BY <3>2, <3>3 DEF EnvInv
  <2> QED BY <2>1, <2>2, <2>3, <2>4, <2>5, <2>6 DEF Next
<1>2. EnvInv => EnvIsKept
  BY CallRuns DEF EnvInv, EnvIsKept, Idle
<1> QED BY EnvInitially, <1>1, <1>2, PTL DEF Spec
=============================================================================
