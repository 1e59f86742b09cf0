----------------------------- MODULE MCScheduler -----------------------------
(***************************************************************************)
(* Scheduler on a small instance: due every 2 ticks, at least 3 ticks      *)
(* after the last run.                                                     *)
(***************************************************************************)
EXTENDS Scheduler

=============================================================================
