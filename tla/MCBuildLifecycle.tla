-------------------------- MODULE MCBuildLifecycle --------------------------
(***************************************************************************)
(* BuildLifecycle on small instances. No symmetry: its runs check a        *)
(* liveness property.                                                      *)
(***************************************************************************)
EXTENDS BuildLifecycle

=============================================================================
