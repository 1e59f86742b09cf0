--------------------------- MODULE MCRunLifecycle ---------------------------
(***************************************************************************)
(* RunLifecycle on small instances. Requests of one kind are               *)
(* interchangeable, so the safety runs use symmetry.                       *)
(***************************************************************************)
EXTENDS RunLifecycle, TLC

Symmetry == Permutations(Aborters) \cup Permutations(Resurrectors)

=============================================================================
