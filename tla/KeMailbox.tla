----------------------------- MODULE KeMailbox -----------------------------
(***************************************************************************)
(* What the BLE kernel promises about messages, without its queues' event  *)
(* bit, its scheduler and its interrupts: each message block is in one     *)
(* place, moves between the places only as below, and is delivered in the  *)
(* order in which it was queued.  KeKernel implements this specification.  *)
(***************************************************************************)
EXTENDS Naturals, Sequences, Functions

CONSTANT Msg

Place == {"free", "held", "queued", "handled", "saved"}

VARIABLES
    place,  \* where each message block is
    queue   \* the queued messages, in the order of delivery

boxVars == <<place, queue>>

Init ==
    /\ place = [m \in Msg |-> "free"]
    /\ queue = <<>>

Move(m, from, to) ==
    /\ place[m] = from
    /\ place' = [place EXCEPT ![m] = to]

\* A task allocates a message, or gives one it owns back to the heap.
Allocate(m) == Move(m, "free", "held") /\ UNCHANGED queue
Release(m)  == Move(m, "held", "free") /\ UNCHANGED queue

\* A message is queued by a task that owns it, by an interrupt that has just
\* allocated it, or by the kernel because its task has changed state.
Enqueue(m) ==
    /\ \E from \in {"held", "free", "saved"} : Move(m, from, "queued")
    /\ queue' = Append(queue, m)

\* The first message goes to its handler, or to the heap if it has none.
Deliver ==
    /\ queue # <<>>
    /\ \E to \in {"handled", "free"} : Move(Head(queue), "queued", to)
    /\ queue' = Tail(queue)

\* The handler consumes the message, takes it over or asks for it to be saved.
Finish(m) ==
    /\ \E to \in {"free", "held", "saved"} : Move(m, "handled", to)
    /\ UNCHANGED queue

\* A reset frees everything the kernel holds, and only that.
Flush ==
    /\ place' = [m \in Msg |-> IF place[m] \in {"queued", "saved"}
                               THEN "free" ELSE place[m]]
    /\ queue' = <<>>

Next ==
    \/ \E m \in Msg : Allocate(m) \/ Release(m) \/ Enqueue(m) \/ Finish(m)
    \/ Deliver \/ Flush

Spec == Init /\ [][Next]_boxVars
=============================================================================
