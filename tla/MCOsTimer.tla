----------------------------- MODULE MCOsTimer -----------------------------
(* The timers of TLC are interchangeable.  What comes after the list is torn is *)
(* not looked at: the properties of OsTimer.cfg say nothing of it.              *)
EXTENDS OsTimer

Symmetry == Permutations(Timers)
Whole == ~torn
=============================================================================
