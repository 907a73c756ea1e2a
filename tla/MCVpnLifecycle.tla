--------------------------- MODULE MCVpnLifecycle ---------------------------
(***************************************************************************)
(* VpnLifecycle for TLC: the configurations give the bounds on taps and on *)
(* service instances, and choose between Spec, FairSpec and SerialSpec.    *)
(***************************************************************************)
EXTENDS VpnLifecycle
=============================================================================
