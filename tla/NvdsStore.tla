----------------------------- MODULE NvdsStore -----------------------------
(***************************************************************************)
(* What the non-volatile storage promises its clients while the power      *)
(* stays on: a map from tags to values with a limited capacity.  A value   *)
(* that is put replaces the old one, or, when it does not fit beside the   *)
(* other tags, leaves the tag without a value.  A locked tag stays.        *)
(***************************************************************************)
EXTENDS Naturals, Sequences, FiniteSets

CONSTANTS
    Tags, Values,  \* a value is a sequence of bytes
    Room,          \* the bytes of the storage that tags can take
    Hdr,           \* the bytes that each tag takes beside its value
    Absent,
    Lost

VARIABLE store  \* tag -> its value and whether it is locked, or Absent; or Lost

Weight(x) == IF x = Absent THEN 0 ELSE Hdr + Len(x.value)

\* The bytes that the other tags take: the first, the second, ... of each.
Taken(t) == UNION {{u} \X (1 .. Weight(store[u])) : u \in Tags \ {t}}

Fits(t, v) == Hdr + Len(v) + Cardinality(Taken(t)) <= Room

Open(t) == store[t] = Absent \/ ~store[t].locked

Init == store = [t \in Tags |-> Absent]

Put(t, v) ==
    /\ Open(t)
    /\ store' = [store EXCEPT ![t] =
                    IF Fits(t, v) THEN [value |-> v, locked |-> FALSE] ELSE Absent]

Del(t) == Open(t) /\ store' = [store EXCEPT ![t] = Absent]

Lock(t) ==
    /\ store[t] # Absent
    /\ store' = [store EXCEPT ![t].locked = TRUE]

\* From a power loss in the middle of a call on, this promises nothing any more.
PowerLoss == store' = Lost

Next ==
    \/ store # Lost /\ \E t \in Tags : (\E v \in Values : Put(t, v)) \/ Del(t) \/ Lock(t)
    \/ PowerLoss

Spec == Init /\ [][Next]_store
=============================================================================
