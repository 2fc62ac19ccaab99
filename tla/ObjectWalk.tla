------------------------------ MODULE ObjectWalk ------------------------------
(***************************************************************************)
(* What a walk over an application's objects promises its receiver: one    *)
(* call, with each object that can be reached exactly once.                *)
(***************************************************************************)
EXTENDS Sequences, SequencesExt

VARIABLES
    objects,   \* the objects that can be reached
    results    \* what the receiver was called with

Init == results = <<>>

CallHandler ==
    /\ results = <<>>
    /\ \E order \in SetToSeqs(objects) : results' = <<order>>
    /\ UNCHANGED objects

Spec == Init /\ [][CallHandler]_<<objects, results>>
=============================================================================
