----------------------------- MODULE MCNetstack -----------------------------
(***************************************************************************)
(* Netstack for TLC.  Buffers and channels of one unit are full at once;   *)
(* the first connection does both directions, the second competes with it  *)
(* for the shared channel.                                                 *)
(***************************************************************************)
EXTENDS Netstack
=============================================================================
