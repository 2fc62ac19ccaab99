-------------------------- MODULE RemoteAttachmentsMC --------------------------
(* Instances of RemoteAttachments for TLC.                                 *)
EXTENDS RemoteAttachments, TLC
=============================================================================
