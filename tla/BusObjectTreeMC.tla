---------------------------- MODULE BusObjectTreeMC ----------------------------
(* Instances of BusObjectTree for TLC.                                     *)
EXTENDS BusObjectTree, TLC
=============================================================================
