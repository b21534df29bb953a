-------------------------------- MODULE Nvds --------------------------------
(***************************************************************************)
(* The tag store of nvds.c on NOR flash.  Tags follow each other behind a  *)
(* magic number, each a header (tag, status, length) and its data.  Bits   *)
(* of the flash can only be cleared, until the whole sector is erased:     *)
(* a new value is written behind the last tag and the old one is marked    *)
(* erased; when the area is full, the valid tags are collected in memory,  *)
(* the sector is erased and they are written back (nvds_purge).            *)
(*                                                                         *)
(* A byte has three bits here instead of eight.  flash_write_data programs *)
(* lines of 32 bytes, and a tag lies across lines anywhere: the power can  *)
(* go between any two bytes.  Each call is written as the sequence of its  *)
(* flash accesses, which are then carried out one by one.                  *)
(***************************************************************************)
EXTENDS Integers, SequencesExt

CONSTANTS
    Tags, Values,  \* Tags is a set of bytes, a value a sequence of bytes
    Size,          \* NVDS_MAX_STORAGE_SIZE
    Sector,        \* the bytes that one erase clears
    MaxCrashes,    \* bound: power losses
    Absent,
    Lost           \* of the abstract store

Blank == 7   \* an erased byte, NVDS_NO_TAG among the tags
Hdr == 3     \* NVDS_TAG_HEADER_LENGTH
Magic == 2   \* the magic number is one byte, at address 0
Start == 1   \* NVDS_START_STORAGE_AREA_ADDRESS

\* The bits of a status, set while the tag is not valid, not locked, not erased.
NotValid == 1
NotLocked == 2
NotErased == 4

Byte == 0 .. Blank
Bit(x, k) == (x \div k) % 2
And(x, y) == LET b(k) == k * Bit(x, k) * Bit(y, k) IN b(1) + b(2) + b(4)

ASSUME NvdsAssumption ==
    /\ Tags \subseteq Byte \ {Blank} /\ Tags # {}
    /\ Values \subseteq Seq(Byte) /\ \A v \in Values : Len(v) < Blank
    /\ Size \in Nat /\ Sector \in Nat /\ Start < Size /\ Size + Hdr <= Sector
    /\ MaxCrashes \in Nat

VARIABLES
    flash,   \* address -> byte
    todo,    \* the flash accesses that the running call has left
    crashes, \* power losses so far
    \* What a client knows.
    expect,  \* tag -> what its calls have made of it, by their return codes
    call,    \* the last call: its tag and what it held before, whether it has put
             \* with NVDS_OK and was not cut off, whether it erases the sector,
             \* whether no power loss came before it
    sure     \* the tags no call on which, and no purge, was cut off

vars == <<flash, todo, crashes, expect, call, sure>>

-----------------------------------------------------------------------------
(* Reading (nvds_walk_tag, nvds_browse_tag, nvds_get) the bytes m.         *)

IsTagOk(m, a) == Bit(m[a + 1], NotValid) = 0 /\ Bit(m[a + 1], NotErased) = 1
IsLocked(m, a) == Bit(m[a + 1], NotLocked) = 0
FullLength(m, a) == Hdr + m[a + 2]
Data(m, a) == [i \in 1 .. m[a + 2] |-> m[a + 2 + i]]

\* nvds_walk_tag stops: behind the last tag, or at one that leaves the area.
Stops(m, a) == m[a] = Blank \/ a + FullLength(m, a) > Size - 1

\* The addresses that the walk visits; it stops at the last one.
Walk(m) ==
    LET from[a \in Start .. Size] ==
            IF Stops(m, a) THEN {a} ELSE {a} \union from[a + FullLength(m, a)]
    IN  from[Start]

Headers(m) == {a \in Walk(m) : ~Stops(m, a)}
End(m) == Max(Walk(m))

Holding(m, t) == {a \in Headers(m) : IsTagOk(m, a) /\ m[a] = t}
Others(m, t) == {a \in Headers(m) : IsTagOk(m, a) /\ m[a] # t}

Content(m, a) == [value |-> Data(m, a), locked |-> IsLocked(m, a)]

\* What nvds_get finds.
View(m, t) == IF Holding(m, t) = {} THEN Absent ELSE Content(m, Min(Holding(m, t)))

-----------------------------------------------------------------------------
(* Flash accesses.                                                         *)

Erase == [op |-> "erase", at |-> 0, byte |-> Blank]
Program(a, bytes) == [i \in 1 .. Len(bytes) |->
                         [op |-> "program", at |-> a + i - 1, byte |-> bytes[i]]]

\* nvds_init_memory
Format == <<Erase>> \o Program(0, <<Magic>>)

\* The status of a tag is programmed again.
SetErased(a) == [op |-> "program", at |-> a + 1, byte |-> And(flash[a + 1], Blank - NotErased)]
SetLocked(a) == [op |-> "program", at |-> a + 1, byte |-> And(flash[a + 1], Blank - NotLocked)]

\* The numbers of a set in ascending order.
Ascending(S) ==
    [i \in 1 .. Cardinality(S) |-> CHOOSE a \in S : Cardinality({b \in S : b <= a}) = i]

\* The addresses of the other valid tags, whose bytes nvds_purge collects.
Kept(t) == UNION {a .. a + FullLength(flash, a) - 1 : a \in Others(flash, t)}

\* Their number (total_length).
Total(t) == Cardinality(Kept(t))

\* nvds_purge: the sector is erased, the valid tags are written back.
Purge(t) ==
    LET source == Ascending(Kept(t))
    IN  Format \o Program(Start, [i \in 1 .. Total(t) |-> flash[source[i]]])

\* Mutant: the header is written before the data.
NewTag_HeaderFirst(a, t, v) ==
    Program(a, <<t, NotLocked + NotErased, Len(v)>>) \o Program(a + Hdr, v)

\* The data first, then the header that makes it valid.
NewTag(a, t, v) ==
    Program(a + Hdr, v) \o Program(a, <<t, NotLocked + NotErased, Len(v)>>)

-----------------------------------------------------------------------------
(* Calls.                                                                  *)

Ready == todo = << >>

Begin(accesses, t, outcome, ok) ==
    /\ Ready
    /\ todo' = accesses
    /\ expect' = [expect EXCEPT ![t] = outcome]
    /\ call' = [tag |-> t, old |-> View(flash, t), ok |-> ok,
                purges |-> Contains(accesses, Erase), clean |-> crashes = 0]
    /\ sure' = IF crashes = 0 THEN sure ELSE sure \ {t}
    /\ UNCHANGED <<flash, crashes>>

\* The copies of a tag are marked erased, in the order of the walk.
EraseAll(holders) ==
    [i \in 1 .. Cardinality(holders) |-> SetErased(Ascending(holders)[i])]

\* The copies at which nvds_put returns in the middle of its walk: one that is
\* locked, or that holds the value already.
Settled(t, v) ==
    {a \in Holding(flash, t) : IsLocked(flash, a) \/ Data(flash, a) = v}

PutKeeps(t, v) ==
    /\ Settled(t, v) # {}
    /\ LET a == Min(Settled(t, v))
       IN  Begin(EraseAll({b \in Holding(flash, t) : b < a}), t,
                 Content(flash, a), ~IsLocked(flash, a))

\* Mutant: the room is not looked at.
Full_Never(v) == FALSE

\* Mutant: the room for the end marker is not counted.
Full_NoMarker(v) == End(flash) + Hdr + Len(v) > Size

\* There is no room behind the last tag for this one and an end marker.
Full(v) == End(flash) + 2 * Hdr + Len(v) > Size - 1

New(v) == [value |-> v, locked |-> FALSE]

PutAppends(t, v) ==
    /\ Settled(t, v) = {} /\ ~Full(v)
    /\ Begin(EraseAll(Holding(flash, t)) \o NewTag(End(flash), t, v), t, New(v), TRUE)

\* nvds_put purges, and looks again whether there is room now.
PutPurges(t, v) ==
    /\ Settled(t, v) = {} /\ Full(v)
    /\ LET purge == EraseAll(Holding(flash, t)) \o Purge(t)
           a == Start + Total(t)
       IN  IF a + Hdr + Len(v) > Size - 1
           THEN Begin(purge, t, Absent, FALSE)  \* NVDS_NO_SPACE_AVAILABLE
           ELSE Begin(purge \o NewTag(a, t, v), t, New(v), TRUE)

\* The tag that nvds_del and nvds_lock look for.
Found(t) == Min(Holding(flash, t))

\* Mutant: a locked tag is deleted.
Del_Locked(t) ==
    /\ Holding(flash, t) # {}
    /\ Begin(<<SetErased(Found(t))>>, t, Absent, FALSE)

\* nvds_del
Del(t) ==
    /\ Holding(flash, t) # {} /\ ~IsLocked(flash, Found(t))
    /\ Begin(<<SetErased(Found(t))>>, t, Absent, FALSE)

\* nvds_lock
Lock(t) ==
    /\ Holding(flash, t) # {}
    /\ Begin(<<SetLocked(Found(t))>>, t,
             [value |-> Data(flash, Found(t)), locked |-> TRUE], FALSE)

\* The next access of the running call: programming only clears bits.
Work ==
    /\ ~Ready
    /\ LET x == Head(todo)
       IN  flash' = IF x.op = "erase" THEN [a \in DOMAIN flash |-> Blank]
                    ELSE [flash EXCEPT ![x.at] = And(@, x.byte)]
    /\ todo' = Tail(todo)
    /\ UNCHANGED <<crashes, expect, call, sure>>

\* The power goes while a call is running; nvds_init looks for the magic number
\* at the next start.
Crash ==
    /\ ~Ready /\ crashes < MaxCrashes
    /\ crashes' = crashes + 1
    /\ todo' = IF flash[0] = Magic THEN << >> ELSE Format
    /\ call' = [call EXCEPT !.ok = FALSE, !.purges = flash[0] # Magic]
    /\ sure' = IF call.purges THEN {} ELSE sure \ {call.tag}
    /\ UNCHANGED <<flash, expect>>

-----------------------------------------------------------------------------
Init ==
    /\ flash = [a \in 0 .. Sector - 1 |-> Blank] /\ todo = Format /\ crashes = 0
    /\ expect = [t \in Tags |-> Absent] /\ sure = Tags
    /\ call \in [tag : Tags, old : {Absent}, ok : {FALSE}, purges : {TRUE}, clean : {TRUE}]

Next ==
    \/ \E t \in Tags : \/ \E v \in Values : \/ PutKeeps(t, v)
                                            \/ PutAppends(t, v)
                                            \/ PutPurges(t, v)
                       \/ Del(t) \/ Lock(t)
    \/ Work
    \/ Crash

Spec == Init /\ [][Next]_vars

-----------------------------------------------------------------------------
(* Properties.                                                             *)

\* Bytes stay bytes, and the accesses of a call stay inside the sector that
\* the storage owns (nvds_write checks a length, never an address).
Contents == {Absent} \union [value : Seq(Byte), locked : BOOLEAN]

TypeOK ==
    /\ flash \in [0 .. Sector - 1 -> Byte]
    /\ \A i \in DOMAIN todo : /\ todo[i].op \in {"erase", "program"}
                              /\ todo[i].at \in 0 .. Sector - 1 /\ todo[i].byte \in Byte
    /\ crashes \in 0 .. MaxCrashes
    /\ expect \in [Tags -> Contents] /\ sure \subseteq Tags
    /\ call \in [tag : Tags, old : Contents, ok : BOOLEAN, purges : BOOLEAN, clean : BOOLEAN]

\* A power loss while one tag is written or deleted costs no other tag its value,
\* unless the sector was being purged: nvds_put writes behind the other tags and
\* only clears bits of its own.
EarlierTagsSurvive ==
    Ready => \A t \in sure : expect[t] # Absent => View(flash, t) = expect[t]

\* nvds.h: NVDS_OK means that the new tag is correctly written.
PutIsWritten ==
    Ready /\ call.ok => View(flash, call.tag) = expect[call.tag]

\* What the first power loss leaves of a tag that was being written: the old value,
\* the new one, none, or a tag whose length was not programmed any more (nvds_get
\* refuses it unless the buffer has room for that many bytes).  It is never a mixture:
\* the data are complete before the header makes them valid.
NoMixture ==
    Ready /\ call.clean =>
        LET x == View(flash, call.tag)
        IN  x \in {call.old, expect[call.tag], Absent} \/ Len(x.value) = Blank

\* The calls do what the abstract store promises, while the power stays on: a call
\* takes effect at once for its client, and when its last flash access is done the
\* flash says the same.
Seen == IF crashes > 0 THEN Lost
        ELSE IF Ready THEN [t \in Tags |-> View(flash, t)] ELSE expect

ASSUME StoreAssumption ==
    Absent \notin [value : Seq(Byte), locked : BOOLEAN] /\ Lost \notin [Tags -> Contents]

Store == INSTANCE NvdsStore WITH store <- Seen, Room <- Size - 1 - Start
ImplementsStore == Store!Spec
=============================================================================
