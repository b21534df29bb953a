------------------------------ MODULE MsgPool ------------------------------
(***************************************************************************)
(* The message pool of the host (msg.c): a ring that interrupt handlers    *)
(* and the main loop put messages into, and the main loop takes them out   *)
(* of.  Two 32-bit counters run freely and wrap; a status tells a full     *)
(* ring from an empty one.                                                 *)
(*                                                                         *)
(* Some messages are requests that need to be in the pool only once        *)
(* (MSG_ENV_WRITE_ACTION, MSG_VUSB_DETECT_JITTER).  msg_lush_put looks for *)
(* them before it masks the interrupts.  The first of them is put from the *)
(* main loop only, the second from the main loop (app_msg.c) and from      *)
(* vusb_isr (Driver_vusb.c).                                               *)
(*                                                                         *)
(* msg_priority_put and msg_uninit have no callers and are left out.       *)
(***************************************************************************)
EXTENDS Integers, Sequences

CONSTANTS
    Once,    \* the messages that are not put twice
    Others,  \* the others
    IsrIds,  \* the messages that interrupt handlers put, of both kinds
    Count,   \* MSG_COUNT
    Range,   \* the counters wrap here (2^32 in the code)
    None

ASSUME MsgPoolAssumption ==
    /\ Once \intersect Others = {} /\ None \notin Once \union Others
    /\ IsrIds \subseteq Once \union Others
    /\ Count \in Nat \ {0} /\ Range \in Nat \ {0}
    /\ Range % Count = 0 /\ Count < Range

Ids == Once \union Others

VARIABLES
    pool,          \* slot -> message, None before its first use
    inId, outId,   \* in_id, out_id
    status,
    putting,       \* the message that the main loop has checked and not put yet
    wrapped        \* history: in_id has wrapped

vars == <<pool, inId, outId, status, putting, wrapped>>

Slot(i) == i % Count

\* Mutant: an emptied ring and a full one are not told apart.
NewStatus_NoFull(i, o, full) == IF Slot(i) = Slot(o) THEN "empty" ELSE "adsum"

\* The status after a counter has moved; the ends have met if it is full, or empty.
NewStatus(i, o, met) == IF Slot(i) = Slot(o) THEN met ELSE "adsum"

\* Mutant: the message that was put last is not looked at.
Contained_OffByOne(id) == \E i \in outId .. inId - 2 : pool[Slot(i)] = id

\* msg_check
Contained(id) == \E i \in outId .. inId - 1 : pool[Slot(i)] = id

\* The masked part of msg_lush_put.
Insert(id) ==
    IF status = "full" THEN UNCHANGED <<pool, inId, status, wrapped>>
    ELSE /\ pool' = [pool EXCEPT ![Slot(inId)] = id]
         /\ inId' = (inId + 1) % Range
         /\ status' = NewStatus(inId + 1, outId, "full")
         /\ wrapped' = (wrapped \/ inId + 1 = Range)

\* The main loop checks a message, and puts it unless it must not be put twice.
Check(id) ==
    /\ putting = None
    /\ ~(id \in Once /\ Contained(id))
    /\ putting' = id
    /\ UNCHANGED <<pool, inId, outId, status, wrapped>>

PutMain ==
    /\ putting # None
    /\ Insert(putting)
    /\ putting' = None
    /\ UNCHANGED outId

\* An interrupt handler puts a message: it looks for it as well, and nothing comes
\* in between.  The main loop may stand between its own look and its put.
PutIsr(id) ==
    /\ ~(id \in Once /\ Contained(id))
    /\ Insert(id)
    /\ UNCHANGED <<outId, putting>>

\* msg_get, in the main loop
Get ==
    /\ putting = None
    /\ status # "empty"
    /\ outId' = (outId + 1) % Range
    /\ status' = NewStatus(inId, outId + 1, "empty")
    /\ UNCHANGED <<pool, inId, putting, wrapped>>

\* msg_init and msg_clear_all, one after the other in Main.c
Init ==
    /\ pool = [i \in 0 .. Count - 1 |-> None]
    /\ inId = 0 /\ outId = 0 /\ status = "empty"
    /\ putting = None /\ wrapped = FALSE

Next ==
    \/ \E id \in Ids : Check(id)
    \/ PutMain
    \/ \E id \in IsrIds : PutIsr(id)
    \/ Get

Spec == Init /\ [][Next]_vars

-----------------------------------------------------------------------------
\* The messages in the ring.
Held == IF status = "full" THEN Count ELSE (inId + Range - outId) % Range
Messages == [k \in 1 .. Held |-> pool[Slot(outId + k - 1)]]

\* No message is lost, doubled or overtaken, and none is refused while there is
\* room, also when the counters wrap.
Queue == INSTANCE MsgQueue WITH queue <- Messages
ImplementsQueue == Queue!Spec

Twice(id) == \E i, j \in 1 .. Held : i < j /\ Messages[i] = id /\ Messages[j] = id
Thrice(id) ==
    \E i, j, k \in 1 .. Held :
        i < j /\ j < k /\ Messages[i] = id /\ Messages[j] = id /\ Messages[k] = id

\* "If MSG_ENV_WRITE_ACTION is already in, skip put" (msg.c): a request of which
\* one is enough is in the pool once at most, though the look and the put are not
\* one step.  One that an interrupt puts as well (MSG_VUSB_DETECT_JITTER) may get
\* in behind the look of the main loop, which puts it then a second time; never a
\* third.  Only while in_id has wrapped and out_id has not, msg_check looks at
\* nothing, and one more gets in.
PutOnceUntilWrap ==
    ~wrapped => \A id \in Once : ~Thrice(id) /\ (id \notin IsrIds => ~Twice(id))
=============================================================================
