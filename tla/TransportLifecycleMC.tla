------------------------ MODULE TransportLifecycleMC ------------------------
(* Instance of TransportLifecycle for TLC.                                 *)
EXTENDS TransportLifecycle
=============================================================================
