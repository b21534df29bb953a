------------------------------ MODULE MCNvds ------------------------------
(* A small flash for TLC, with values of different lengths. *)
EXTENDS Nvds

MCValues == {<<5>>, <<6>>, <<3, 3, 3, 3>>}
=============================================================================
