--------------------------- MODULE BuildLifecycle ---------------------------
(***************************************************************************)
(* The builds of one Actor that carry the same tag: each record's status,  *)
(* the background function of each build (services/builds.ts               *)
(* runBuildInBackground), the driver's build request with its abort signal *)
(* and its timeout (driver/docker-driver.ts startBuild), and the tag on    *)
(* the Actor's record, which the builds fight over. Aborts, deletes,       *)
(* storage errors and a crash of the runtime may come at any step.         *)
(*                                                                         *)
(* A step is one registry access, or one answer of the Docker daemon, with *)
(* the synchronous code up to the next await. A build is never restarted,  *)
(* so its terminal status is final.                                        *)
(***************************************************************************)
EXTENDS Naturals, JobStatus

CONSTANTS
    Builds,      \* the ids of the builds
    NoBuild,     \* the Actor's record has no entry for the tag
    NoActor,     \* the Actor's record is gone
    FailPoints,  \* the registry accesses that may throw
    MaxCrashes   \* bound: how often the runtime process dies

ASSUME BuildAssumption ==
    /\ NoBuild \notin Builds /\ NoActor \notin Builds /\ NoBuild # NoActor
    /\ FailPoints \subseteq {"launched", "abortWrite", "check", "record", "succeed", "revert"}
    /\ MaxCrashes \in Nat

VARIABLES
    status,    \* each record's status, or Gone
    pc,        \* where each build's runBuildInBackground is
    attempt,   \* the attempt of driver.startBuild: the second one names its platform
    aborted,   \* the build's AbortController was aborted
    timedOut,  \* driver.timedOutBuilds has the build
    aborting,  \* an abortBuild has its ABORTED write before it
    prev,      \* previousTag
    tag,       \* taggedBuilds[tag] of the Actor
    phase,     \* the process: "up", or "down" until the reconciliation ended
    crashes    \* how often it died

driver  == <<attempt, aborted, timedOut>>
actor   == <<prev, tag>>
process == <<phase, crashes>>
vars    == <<status, pc, driver, aborting, actor, process>>

\* The states of runBuildInBackground: each is an await it is suspended in.
BuildStates ==
    { "none",        \* not started yet
      "launched",    \* its RUNNING write is queued
      "abortWrite",  \* found ABORTING before the build began: ABORTED write queued
      "check",       \* the re-check of the record before the build
      "prep",        \* loading the pushed Docker context; the checks of the source files
      "building",    \* driver.startBuild: the daemon builds
      "inspecting",  \* driver.startBuild: the image is there, its working directory is read
      "record",      \* log flushed; the tag's write queued
      "succeed",     \* the SUCCEEDED write queued
      "revert",      \* SUCCEEDED was refused: the write that puts the tag back queued
      "failWrite",   \* failBuild, the catch, or startBuild's catch: FAILED write queued
      "timeWrite",   \* the catch: TIMED-OUT write queued
      "escaped",     \* the RUNNING write threw; startBuild's catch: FAILED write queued
      "lost",        \* that write was refused: over, and the record is READY
      "done" }

Init ==
    /\ status = [b \in Builds |-> Gone]
    /\ pc = [b \in Builds |-> "none"]
    /\ attempt = [b \in Builds |-> 1]
    /\ aborted = [b \in Builds |-> FALSE]
    /\ timedOut = [b \in Builds |-> FALSE]
    /\ aborting = [b \in Builds |-> FALSE]
    /\ prev = [b \in Builds |-> NoBuild]
    /\ tag = NoBuild
    /\ phase = "up" /\ crashes = 0

Goto(b, s) == pc' = [pc EXCEPT ![b] = s]

\* `await transitionJobStatus(builds, id, next)`.
WriteStatus(b, next) == status' = [status EXCEPT ![b] = transitionJobStatus(@, next)]

-----------------------------------------------------------------------------
(* runBuildInBackground, up to the driver.                                 *)

\* startBuild: the READY record is stored and the background function launched. (The Actor
\* was looked up earlier; nothing checks again that it is still there.)
StartBuild(b) ==
    /\ phase = "up" /\ pc[b] = "none"
    /\ status' = [status EXCEPT ![b] = "READY"]
    /\ Goto(b, "launched")
    /\ UNCHANGED <<driver, aborting, actor, process>>

\* The first write; an abort that came first is finalised without a build.
BecomeRunning(b) ==
    /\ phase = "up" /\ pc[b] = "launched"
    /\ WriteStatus(b, "RUNNING")
    /\ Goto(b, CASE status'[b] = "RUNNING"  -> "check"
                 [] status'[b] = "ABORTING" -> "abortWrite"
                 [] OTHER                   -> "done")
    /\ UNCHANGED <<driver, aborting, actor, process>>

\* The re-check right before the build.
PreStartCheck(b) ==
    /\ phase = "up" /\ pc[b] = "check"
    /\ Goto(b, CASE status[b] = "RUNNING"  -> "prep"
                 [] status[b] = "ABORTING" -> "abortWrite"
                 [] OTHER                  -> "done")
    /\ UNCHANGED <<status, driver, aborting, actor, process>>

AbortWrite(b) ==
    /\ phase = "up" /\ pc[b] = "abortWrite"
    /\ WriteStatus(b, "ABORTED")
    /\ Goto(b, "done")
    /\ UNCHANGED <<driver, aborting, actor, process>>

\* Mutant: failBuild closes the log and leaves the record as it is.
FailBuild_NoWrite(b) ==
    /\ phase = "up" /\ pc[b] \in {"check", "prep"}
    /\ Goto(b, "done")
    /\ UNCHANGED <<status, driver, aborting, actor, process>>

\* No driver ("check"), or a Docker context, Dockerfile or schema the build cannot use.
FailBuild(b) ==
    /\ phase = "up" /\ pc[b] \in {"check", "prep"}
    /\ Goto(b, "failWrite")
    /\ UNCHANGED <<status, driver, aborting, actor, process>>

\* driver.startBuild registers the AbortController and arms the timeout.
CallDriver(b) ==
    /\ phase = "up" /\ pc[b] = "prep"
    /\ Goto(b, "building")
    /\ UNCHANGED <<status, driver, aborting, actor, process>>

-----------------------------------------------------------------------------
(* driver.startBuild.                                                      *)

\* Mutant: the timer marks the build and leaves its request alone.
BuildTimesOut_MarkOnly(b) ==
    /\ phase = "up" /\ pc[b] \in {"building", "inspecting"} /\ ~timedOut[b]
    /\ timedOut' = [timedOut EXCEPT ![b] = TRUE]
    /\ UNCHANGED <<status, pc, attempt, aborted, aborting, actor, process>>

BuildTimesOut(b) ==
    /\ phase = "up" /\ pc[b] \in {"building", "inspecting"} /\ ~timedOut[b]
    /\ timedOut' = [timedOut EXCEPT ![b] = TRUE]
    /\ aborted' = [aborted EXCEPT ![b] = TRUE]
    /\ UNCHANGED <<status, pc, attempt, aborting, actor, process>>

\* driver.startBuild is over: its `finally` drops the timer, the controller and the mark.
Forget(b) ==
    /\ attempt' = [attempt EXCEPT ![b] = 1]
    /\ aborted' = [aborted EXCEPT ![b] = FALSE]
    /\ timedOut' = [timedOut EXCEPT ![b] = FALSE]

\* The daemon's stream ends, or the request is destroyed. Whichever it is, a timeout is reported
\* first. (An answer already received may still be a success when the signal is aborted.)
BuildStreamEnds(b) ==
    /\ phase = "up" /\ pc[b] = "building"
    /\ \/ timedOut[b] /\ Goto(b, "timeWrite") /\ Forget(b)
       \/ ~timedOut[b] /\ Goto(b, "failWrite") /\ Forget(b)
       \/ ~timedOut[b] /\ Goto(b, "inspecting") /\ UNCHANGED driver
    /\ UNCHANGED <<status, aborting, actor, process>>

\* The first attempt failed for want of an image for the host's platform: one more, under the
\* same signal and timer, unless they ended it.
RetryForPlatform(b) ==
    /\ phase = "up" /\ pc[b] = "building"
    /\ ~aborted[b] /\ attempt[b] = 1
    /\ attempt' = [attempt EXCEPT ![b] = 2]
    /\ UNCHANGED <<status, pc, aborted, timedOut, aborting, actor, process>>

\* Mutant: the record turns SUCCEEDED before the tag is recorded.
BuildReturns_StatusFirst(b) ==
    /\ phase = "up" /\ pc[b] = "inspecting"
    /\ WriteStatus(b, "SUCCEEDED")
    /\ Goto(b, "record") /\ Forget(b)
    /\ UNCHANGED <<aborting, actor, process>>

\* driver.startBuild returns; the log is flushed.
BuildReturns(b) ==
    /\ phase = "up" /\ pc[b] = "inspecting"
    /\ Goto(b, "record") /\ Forget(b)
    /\ UNCHANGED <<status, aborting, actor, process>>

-----------------------------------------------------------------------------
(* The tag and the outcome.                                                *)

\* updateActor with recordTaggedBuild: nothing happens when the Actor is gone.
RecordTag(b) ==
    /\ phase = "up" /\ pc[b] = "record"
    /\ IF tag = NoActor THEN UNCHANGED actor
       ELSE prev' = [prev EXCEPT ![b] = tag] /\ tag' = b
    /\ Goto(b, "succeed")
    /\ UNCHANGED <<status, driver, aborting, process>>

\* The SUCCEEDED write, refused when an abort came first.
SucceededWrite(b) ==
    /\ phase = "up" /\ pc[b] = "succeed"
    /\ WriteStatus(b, "SUCCEEDED")
    /\ Goto(b, IF status'[b] = "SUCCEEDED" THEN "done" ELSE "revert")
    /\ UNCHANGED <<driver, aborting, actor, process>>

\* Mutant: the tag is put back whoever holds it now.
RevertTag_Blind(b) ==
    /\ phase = "up" /\ pc[b] = "revert"
    /\ tag' = IF tag = NoActor THEN tag ELSE prev[b]
    /\ Goto(b, "done")
    /\ UNCHANGED <<status, driver, aborting, prev, process>>

\* The tag goes back to what it pointed at before, unless another build took it since.
RevertTag(b) ==
    /\ phase = "up" /\ pc[b] = "revert"
    /\ tag' = IF tag = b THEN prev[b] ELSE tag
    /\ Goto(b, "done")
    /\ UNCHANGED <<status, driver, aborting, prev, process>>

\* A registry access throws: the catch of runBuildInBackground (or, before the build began,
\* the one of startBuild) marks the build FAILED.
Throws(b) ==
    /\ phase = "up" /\ pc[b] \in FailPoints
    /\ Goto(b, IF pc[b] = "launched" THEN "escaped" ELSE "failWrite")
    /\ UNCHANGED <<status, driver, aborting, actor, process>>

\* The write of a catch. FAILED is refused from READY, which is what a build is whose RUNNING
\* write threw: unless an abort came, nobody writes its record again before a restart.
CaughtWrite(b) ==
    /\ phase = "up" /\ pc[b] \in {"failWrite", "timeWrite", "escaped"}
    /\ WriteStatus(b, IF pc[b] = "timeWrite" THEN "TIMED-OUT" ELSE "FAILED")
    /\ Goto(b, IF pc[b] = "escaped" /\ status'[b] = "READY" THEN "lost" ELSE "done")
    /\ UNCHANGED <<driver, aborting, actor, process>>

-----------------------------------------------------------------------------
(* Requests: abort, delete; crash and reconciliation.                      *)

\* driver.abortBuild: aborts the signal of a build the driver is working on, and of no other.
SignalAbort(b) ==
    aborted' = [aborted EXCEPT ![b] = @ \/ pc[b] \in {"building", "inspecting"}]

\* Mutant: the abort of a build the driver works on leaves the record to the build's own end.
AbortBuild_NoWrite(b) ==
    /\ phase = "up"
    /\ WriteStatus(b, "ABORTING")
    /\ status'[b] = "ABORTING"
    /\ SignalAbort(b)
    /\ aborting' = [aborting EXCEPT ![b] = pc[b] \notin {"building", "inspecting"}]
    /\ UNCHANGED <<pc, attempt, timedOut, actor, process>>

\* abortBuild: ABORTING first, then the driver's signal; the ABORTED write follows. A terminal
\* build is left alone, a second abort does the same again.
AbortBuild(b) ==
    /\ phase = "up"
    /\ WriteStatus(b, "ABORTING")
    /\ status'[b] = "ABORTING"
    /\ SignalAbort(b)
    /\ aborting' = [aborting EXCEPT ![b] = TRUE]
    /\ UNCHANGED <<pc, attempt, timedOut, actor, process>>

AbortedWrite(b) ==
    /\ phase = "up" /\ aborting[b]
    /\ WriteStatus(b, "ABORTED")
    /\ aborting' = [aborting EXCEPT ![b] = FALSE]
    /\ UNCHANGED <<pc, driver, actor, process>>

\* DELETE /actor-builds/:id: only of a finished build, and the tag keeps pointing at it.
DeleteBuild(b) ==
    /\ phase = "up" /\ isTerminalJobStatus(status[b])
    /\ status' = [status EXCEPT ![b] = Gone]
    /\ UNCHANGED <<pc, driver, aborting, actor, process>>

DeleteActor ==
    /\ phase = "up" /\ tag # NoActor
    /\ tag' = NoActor
    /\ UNCHANGED <<status, pc, driver, aborting, prev, process>>

\* Everything in memory is lost, the requests to the daemon with it.
Crash ==
    /\ crashes < MaxCrashes
    /\ crashes' = crashes + 1 /\ phase' = "down"
    /\ pc' = [b \in Builds |-> IF pc[b] = "none" THEN "none" ELSE "done"]
    /\ attempt' = [b \in Builds |-> 1]
    /\ aborted' = [b \in Builds |-> FALSE] /\ timedOut' = [b \in Builds |-> FALSE]
    /\ aborting' = [b \in Builds |-> FALSE]
    /\ UNCHANGED <<status, actor>>

\* reconcileOrphanedJobs, before a server listens.
ReconcileOrphanedJobs ==
    /\ phase = "down"
    /\ phase' = "up"
    /\ status' = [b \in Builds |-> transitionJobStatus(status[b], "ABORTED")]
    /\ UNCHANGED <<pc, driver, aborting, actor, crashes>>

-----------------------------------------------------------------------------

\* What a build does by itself, once the driver answers.
Background(b) ==
    \/ BecomeRunning(b) \/ PreStartCheck(b) \/ AbortWrite(b) \/ FailBuild(b) \/ CallDriver(b)
    \/ BuildReturns(b) \/ RecordTag(b) \/ SucceededWrite(b) \/ RevertTag(b)
    \/ Throws(b) \/ CaughtWrite(b)

Next ==
    \/ \E b \in Builds :
        \/ StartBuild(b) \/ Background(b)
        \/ BuildTimesOut(b) \/ BuildStreamEnds(b) \/ RetryForPlatform(b)
        \/ AbortBuild(b) \/ AbortedWrite(b) \/ DeleteBuild(b)
    \/ DeleteActor \/ Crash \/ ReconcileOrphanedJobs

Spec == Init /\ [][Next]_vars

\* Every await of the runtime ends, the build's timer fires, a request that was destroyed
\* ends, and a restarted runtime reconciles. The daemon itself may build for ever.
Fairness ==
    /\ \A b \in Builds :
        /\ WF_vars(Background(b)) /\ WF_vars(BuildTimesOut(b)) /\ WF_vars(AbortedWrite(b))
        /\ WF_vars(aborted[b] /\ BuildStreamEnds(b))
    /\ WF_vars(ReconcileOrphanedJobs)

FairSpec == Spec /\ Fairness

-----------------------------------------------------------------------------
(* Properties.                                                             *)

\* Every variable holds a value of its kind; a build has at most two attempts.
TypeOK ==
    /\ status \in [Builds -> JobStatuses \cup {Gone}]
    /\ pc \in [Builds -> BuildStates]
    /\ attempt \in [Builds -> 1..2]
    /\ aborted \in [Builds -> BOOLEAN]
    /\ timedOut \in [Builds -> BOOLEAN]
    /\ aborting \in [Builds -> BOOLEAN]
    /\ prev \in [Builds -> Builds \cup {NoBuild}]
    /\ tag \in Builds \cup {NoBuild, NoActor}
    /\ phase \in {"up", "down"}
    /\ crashes \in 0..MaxCrashes

\* What still owes a build record its next status, by the status it has.
Owed(b) ==
    /\ status[b] = "READY"    => pc[b] \in {"launched", "escaped", "lost"}
    /\ status[b] = "RUNNING"  => pc[b] \in {"check", "prep", "building", "inspecting", "record",
                                            "succeed", "failWrite", "timeWrite"}
    /\ status[b] = "ABORTING" => aborting[b]

\* No build record is stuck short of a terminal status while the runtime is up: the
\* background function or an abort still has to write it. The one exception is a build whose
\* first write threw ("lost").
BuildHasDriver == phase = "up" => \A b \in Builds : Owed(b)

\* "Without a best-effort terminal write here the record would stay stuck non-terminal forever"
\* (services/builds.ts, of the catch of startBuild): a READY build has its background function.
\* The catch after a RUNNING write that threw refutes it (see README.md, Findings).
NoBuildStuckReady ==
    phase = "up" => \A b \in Builds : status[b] = "READY" => pc[b] \in {"launched", "escaped"}

\* A client that saw a build SUCCEEDED finds the tag: builds that are refused take back no more
\* than what they recorded themselves ("must never find the tag still missing").
SucceededHasTag ==
    (\E b \in Builds : status[b] = "SUCCEEDED") => tag # NoBuild

\* The tag of a build that succeeded moves on only to a build that was just built (or goes with
\* the Actor): the refused write of an older, aborted build never takes it back.
TagMovesOn ==
    tag' # tag /\ tag \in Builds /\ status[tag] = "SUCCEEDED"
        => tag' = NoActor \/ \E b \in Builds : tag' = b /\ pc[b] = "record"

\* So the revert of an older, aborted build never undoes a newer success.
SucceededKeepsTag == [][TagMovesOn]_vars

\* What SUCCEEDED says of the tag: it is there, and no build that fails later moves it.
SucceededIsTagged == [][SucceededHasTag' /\ TagMovesOn]_vars

\* The background function of a build.
Worker(b) ==
    CASE pc[b] = "none" -> "none"
      [] pc[b] # "none" /\ phase # "up" -> "dead"
      [] OTHER -> IF pc[b] \in {"lost", "done"} THEN "off" ELSE "on"

AsJob(b) == INSTANCE Job WITH status <- status[b], worker <- Worker(b)

\* The catch of startBuild leaves a build it could not mark.
Loses(b) == pc[b] = "escaped" /\ pc'[b] = "lost"

\* Each build is a job, whatever the others do: only its background function starts it or says
\* how it ended, and does not leave it before that, but for the one step that loses it.
ImplementsJob ==
    /\ \A b \in Builds : AsJob(b)!Init
    /\ [][\A b \in Builds : Loses(b) \/ [AsJob(b)!Next]_(AsJob(b)!jobVars)]_vars

\* Every build ends, under FairSpec, unless its first write threw: the timeout ends one the
\* daemon never finishes.
BuildEnds ==
    \A b \in Builds :
        status[b] \in {"READY", "RUNNING", "ABORTING"}
            ~> \/ isTerminalJobStatus(status[b]) \/ status[b] = Gone
               \/ status[b] = "READY" /\ pc[b] = "lost"

\* resolveTaggedBuild: what POST /actors/:actorId/runs starts from.
resolveTaggedBuild ==
    IF tag \notin Builds \/ status[tag] = Gone THEN NoBuild ELSE tag

\* "The tag is still never left pointing at an aborted build" (services/builds.ts): once a
\* build is over, the tag does not resolve to it if it was aborted. Two builds of the tag, both
\* aborted late, refute it (see README.md, Findings).
TagNotLeftAborted ==
    LET b == resolveTaggedBuild
    IN  b \in Builds /\ pc[b] = "done" => status[b] # "ABORTED"

=============================================================================
