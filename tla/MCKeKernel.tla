----------------------------- MODULE MCKeKernel -----------------------------
(* Instances of KeKernel for TLC. *)
EXTENDS KeKernel

CONSTANTS m1, m2, m3

MCMsg    == {m1, m2, m3}
MCTask   == {<<"gapm", 0>>, <<"otas", 0>>}
MCBoot   == {<<"gapm", 0>>}
=============================================================================
