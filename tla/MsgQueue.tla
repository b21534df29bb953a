------------------------------ MODULE MsgQueue ------------------------------
(***************************************************************************)
(* What the message pool of the host promises: a bounded queue that        *)
(* refuses messages only when it is full.                                  *)
(***************************************************************************)
EXTENDS Naturals, Sequences

CONSTANTS Ids, Count

VARIABLE queue

Init == queue = << >>
Put(id) == Len(queue) < Count /\ queue' = Append(queue, id)
Get == queue # << >> /\ queue' = Tail(queue)
Next == (\E id \in Ids : Put(id)) \/ Get
Spec == Init /\ [][Next]_queue
=============================================================================
