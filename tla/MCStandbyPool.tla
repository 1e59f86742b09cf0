---------------------------- MODULE MCStandbyPool ----------------------------
(***************************************************************************)
(* StandbyPool on small instances.                                         *)
(***************************************************************************)
EXTENDS StandbyPool, TLC

Symmetry == Permutations(Requests)

=============================================================================
