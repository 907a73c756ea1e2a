----------------------------- MODULE MCTeamJobs -----------------------------
(***************************************************************************)
(* TeamJobs for TLC: three coroutines are enough for a second tap that     *)
(* lands before busy is set, and for a request between two submits.        *)
(***************************************************************************)
EXTENDS TeamJobs
=============================================================================
