---------------------------- MODULE MCExitGuard ----------------------------
(***************************************************************************)
(* ExitGuard for TLC: the times are a few ticks, in the order of the       *)
(* code's (a lookup is shorter than the guard's sleep, and the core's      *)
(* interval, a setting, need not be the guard's).                          *)
(***************************************************************************)
EXTENDS ExitGuard
=============================================================================
