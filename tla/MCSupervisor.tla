---------------------------- MODULE MCSupervisor ----------------------------
(***************************************************************************)
(* Supervisor for TLC.  RecentCap is below the number of gateways, so that *)
(* the ring overflows; Cooldown is long enough for every gateway to be on  *)
(* cooldown at once.                                                       *)
(***************************************************************************)
EXTENDS Supervisor
=============================================================================
