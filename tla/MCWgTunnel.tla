----------------------------- MODULE MCWgTunnel -----------------------------
(***************************************************************************)
(* WgTunnel for TLC, in units of half a second: the proportions of the     *)
(* code's 10 s (Stale), 2.5 to 3.5 s (pause) and 0.75 and 2 s (retries).   *)
(***************************************************************************)
EXTENDS WgTunnel
=============================================================================
