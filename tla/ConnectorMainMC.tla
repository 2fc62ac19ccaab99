---------------------------- MODULE ConnectorMainMC ----------------------------
(* Instances of ConnectorMain for TLC.                                     *)
EXTENDS ConnectorMain, TLC
=============================================================================
