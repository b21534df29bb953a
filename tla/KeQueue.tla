------------------------------ MODULE KeQueue ------------------------------
(***************************************************************************)
(* The queues of the BLE kernel (rw_ble/Src/modules/ke/src/ke_queue.c and  *)
(* the list operations of common/src/co_list.c it is built on), as         *)
(* operators on sequences: the element at the head is q[1].                *)
(*                                                                         *)
(* The pointers that implement a queue (first, last, next) are not part of *)
(* this module: an operator says what the queue holds after the call.      *)
(***************************************************************************)
EXTENDS Naturals, Sequences, Functions

\* The elements linked in a queue.
Members(q) == Range(q)

\* No element is linked twice (a second push of a linked element would cut
\* the list or close it into a cycle).
Distinct(q) == \A i, j \in DOMAIN q : q[i] = q[j] => i = j

\* Mutant: the element is linked in front.
Push_Front(q, e) == <<e>> \o q

\* ke_queue_push: link an element behind the last one.
Push(q, e) == Append(q, e)

\* Unlinking the element at position i, what co_list_extract does to the
\* list once it has found the element.
Unlink(q, i) == SubSeq(q, 1, i - 1) \o SubSeq(q, i + 1, Len(q))

\* The positions whose element is in S, the elements func accepts, and that
\* have no earlier match: at most one, the element ke_queue_extract returns.
FirstMatch(q, S) ==
    {i \in DOMAIN q : q[i] \in S /\ \A j \in 1 .. i - 1 : q[j] \notin S}

\* The queue ke_queue_extract leaves.
Extract(q, S) ==
    IF FirstMatch(q, S) = {} THEN q
    ELSE Unlink(q, CHOOSE i \in FirstMatch(q, S) : TRUE)

\* The position ke_queue_insert gives a new element: in front of the first
\* element in S, those for which cmp(new element, scan) holds, else the last.
InsertPos(q, S) ==
    IF FirstMatch(q, S) = {} THEN Len(q) + 1
    ELSE CHOOSE i \in FirstMatch(q, S) : TRUE

\* The queue ke_queue_insert leaves.
Insert(q, e, S) ==
    LET p == InsertPos(q, S)
    IN  SubSeq(q, 1, p - 1) \o <<e>> \o SubSeq(q, p, Len(q))
=============================================================================
