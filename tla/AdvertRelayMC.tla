----------------------------- MODULE AdvertRelayMC -----------------------------
(* Instances of AdvertRelay for TLC.                                       *)
EXTENDS AdvertRelay, TLC
=============================================================================
