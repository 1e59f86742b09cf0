------------------------------ MODULE JobStatus ------------------------------
(***************************************************************************)
(* The status state machine shared by build and run records, and the one   *)
(* gate every status write goes through (src/services/job-status.ts).      *)
(*                                                                         *)
(* A record that does not exist (deleted, or never created) is the status  *)
(* Gone: Registry.update hands its mutator null and the gate returns null. *)
(***************************************************************************)

\* storage/entities.ts JobStatus
JobStatuses == {"READY", "RUNNING", "ABORTING",
                "SUCCEEDED", "FAILED", "TIMED-OUT", "ABORTED"}

\* The registry has no record under this id.
Gone == "GONE"

TERMINAL_JOB_STATUSES == {"SUCCEEDED", "FAILED", "ABORTED", "TIMED-OUT"}

isTerminalJobStatus(s) == s \in TERMINAL_JOB_STATUSES

\* Mutant: the table loses READY -> RUNNING.
ALLOWED_NEXT_NoStart(s) ==
    CASE s = "READY"    -> {"ABORTING", "ABORTED"}
      [] s = "RUNNING"  -> {"SUCCEEDED", "FAILED", "TIMED-OUT", "ABORTING", "ABORTED"}
      [] s = "ABORTING" -> {"ABORTED"}
      [] OTHER          -> {}

\* ALLOWED_NEXT[current]; a terminal status (and a missing record) allows nothing.
ALLOWED_NEXT(s) ==
    CASE s = "READY"    -> {"RUNNING", "ABORTING", "ABORTED"}
      [] s = "RUNNING"  -> {"SUCCEEDED", "FAILED", "TIMED-OUT", "ABORTING", "ABORTED"}
      [] s = "ABORTING" -> {"ABORTED"}
      [] OTHER          -> {}

\* The status a record ends up with when `next` is written through the gate:
\* an illegal request leaves it as it was.
transitionJobStatus(s, next) ==
    IF next \in ALLOWED_NEXT(s) THEN next ELSE s

=============================================================================
