---------------------------- MODULE SessionJoinMC ----------------------------
(* Instances of SessionJoin for TLC.                                       *)
EXTENDS SessionJoin, TLC

Symmetry == Permutations(Joiners) \cup Permutations(Joinees)
=============================================================================
