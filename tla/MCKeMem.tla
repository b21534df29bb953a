------------------------------ MODULE MCKeMem ------------------------------
(* Two heaps for TLC, the second one right behind the first. *)
EXTENDS KeMem

CONSTANTS Size0, Size1

MCBase == [h \in 0 .. 1 |-> IF h = 0 THEN 0 ELSE Size0]
MCEnd == [h \in 0 .. 1 |-> IF h = 0 THEN Size0 ELSE Size0 + Size1]
=============================================================================
