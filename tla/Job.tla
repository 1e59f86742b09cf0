---------------------------------- MODULE Job ----------------------------------
(***************************************************************************)
(* What the rest of the runtime takes a run or a build to be: a record     *)
(* whose status moves along the table of services/job-status.ts, and the   *)
(* background function that carries it. RunLifecycle and BuildLifecycle    *)
(* implement it.                                                           *)
(*                                                                         *)
(* The promise is about who may do what. Only the background function      *)
(* starts a job or says how it ended; it does not leave a job that has not *)
(* ended, anybody may abort one, and a job the process died with is ended  *)
(* before anything else happens to it. Only a job that is over, with its   *)
(* background function gone, is revived, and none is deleted while it is   *)
(* RUNNING.                                                                *)
(***************************************************************************)
EXTENDS JobStatus

VARIABLES
    status,   \* the record's status, or Gone
    worker    \* its background function: "none" yet, "on", "off", or "dead" with the process

jobVars == <<status, worker>>

\* A build that is not there yet, a run that was just started.
Init == <<status, worker>> \in {<<Gone, "none">>, <<"READY", "on">>}

\* The background function goes on or ends, though never before the job has.
Stays == worker' = worker
Leaves == worker = "on" /\ worker' = "off" /\ status' \notin {"READY", "RUNNING"}

Becomes(next) == next \in ALLOWED_NEXT(status) /\ status' = next

Start ==
    /\ worker = "none"
    /\ status' = "READY" /\ worker' = "on"

\* The job begins, or comes to an end of its own: by its background function only.
Carry ==
    /\ worker = "on"
    /\ \E next \in {"RUNNING", "SUCCEEDED", "FAILED", "TIMED-OUT"} : Becomes(next)
    /\ Stays \/ Leaves

\* By anybody, while the process lives.
Abort ==
    /\ worker \in {"on", "off"}
    /\ \E next \in {"ABORTING", "ABORTED"} : Becomes(next)
    /\ Stays \/ Leaves

Leave == Leaves /\ UNCHANGED status

Revive ==
    /\ isTerminalJobStatus(status) /\ worker = "off"
    /\ status' = "READY" /\ worker' = "on"

Delete ==
    /\ worker \in {"on", "off"} /\ status \notin {"RUNNING", Gone}
    /\ status' = Gone /\ Stays

\* The process dies, and starts again: the job is ended.
Die ==
    /\ worker \in {"on", "off"}
    /\ worker' = "dead" /\ UNCHANGED status

Reconcile ==
    /\ worker = "dead"
    /\ worker' = "off" /\ status' = transitionJobStatus(status, "ABORTED")

Next == Start \/ Carry \/ Abort \/ Leave \/ Revive \/ Delete \/ Die \/ Reconcile

Spec == Init /\ [][Next]_jobVars

=============================================================================
