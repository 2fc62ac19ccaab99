------------------------- MODULE ReplyTransactionMC -------------------------
(* Instance of ReplyTransaction for TLC, and the abstract specification     *)
(* the detailed one implements over a prompt link.                         *)
EXTENDS ReplyTransaction, TLC

Symmetry == Permutations(Callers)

(* Over a link that may lose messages but is never late, and without       *)
(* NoReply methods, the locks, the cell and the wait loop of the connector *)
(* are a correct request-reply service, which also answers every call.     *)
RequestReplySpec == RR!Spec
=============================================================================
