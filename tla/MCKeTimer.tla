----------------------------- MODULE MCKeTimer -----------------------------
(* An instance of KeTimer for TLC: its timers and numbers are in the .cfg. *)
EXTENDS KeTimer
=============================================================================
