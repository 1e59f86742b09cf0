---------------------------- MODULE RunLifecycle ----------------------------
(***************************************************************************)
(* One Actor run from creation to its last resurrection: the record's      *)
(* status, the background function that carries each incarnation of the    *)
(* run (services/runs.ts runInBackground), the container the Docker driver *)
(* starts for it, and everyone who may interfere: abort requests, the      *)
(* graceful-abort window, migrations, reboots, the standby pool's finish,  *)
(* resurrections, a delete request, and a crash of the runtime followed by *)
(* the startup reconciliation.                                             *)
(*                                                                         *)
(* Granularity. The runtime is one Node.js process: code between two       *)
(* awaits is atomic. Every registry read or write of one record goes       *)
(* through the same FIFO mutex (storage/mutex.ts, storage/registry.ts), so *)
(* a step is one registry access, or one answer of the container engine,   *)
(* together with the synchronous code that follows it up to the next       *)
(* await. The engine itself (containers starting, exiting, being killed)   *)
(* moves at any time.                                                      *)
(***************************************************************************)
EXTENDS Naturals, FiniteSets, JobStatus

CONSTANTS
    Aborters,         \* concurrent POST /actor-runs/:id/abort requests (and the cost cap's abort)
    Resurrectors,     \* concurrent POST /actor-runs/:id/resurrect requests
    Window,           \* the process finishGracefulAbort runs in once its timer fired
    MaxIncarnations,  \* bound: the first start and the resurrections after it
    MaxCrashes,       \* bound: how often the runtime process dies
    MaxRestarts,      \* RESTART_ON_ERROR_MAX_RESTARTS
    RestartOnError,   \* the run's restartOnError option
    HasTimeout,       \* the run's timeoutSecs is positive
    IsStandby,        \* the run belongs to a standby pool
    Graceful,         \* subset of BOOLEAN: the values of ?gracefully= abort requests carry
    Stops,            \* subset of {"migrate", "reboot"}: the restart requests that arrive
    EscapePoints      \* where an unexpected storage error may be thrown

ASSUME RunAssumption ==
    /\ MaxIncarnations \in Nat \ {0}
    /\ MaxCrashes \in Nat
    /\ MaxRestarts \in Nat
    /\ RestartOnError \in BOOLEAN
    /\ HasTimeout \in BOOLEAN
    /\ IsStandby \in BOOLEAN
    /\ Graceful \subseteq BOOLEAN
    /\ Stops \subseteq {"migrate", "reboot"}
    /\ EscapePoints \subseteq {"launched", "prep", "viewed", "check", "cleanup",
                            "restartCheck", "errCheck", "final"}
    /\ Window \notin Aborters

VARIABLES
    status,      \* the record's status, or Gone
    phase,       \* the process: "up", or "down"/"swept" between a crash and the servers' start
    crashes,     \* how often it died
    n,           \* incarnations launched so far; incarnation n is the one in the map
    pc,          \* where each incarnation's runInBackground is
    cont,        \* each incarnation's container, as the engine has it
    reg,         \* driver.runContainers for this run: the incarnation whose container it holds, or 0
    outcome,     \* what driver.startRun reports of the container
    recent,      \* restarts on error within the last RESTART_ON_ERROR_INTERVAL_MS
    restart,     \* pendingRestarts has this run
    migTimer,    \* pendingMigrationStops has this run
    graceTimer,  \* pendingGracefulAborts has this run
    finishing,   \* finishingRuns has this run
    finTimer,    \* the standby finish's stop timer: "idle", "armed" or "fired"
    stopping,    \* containers with a stop or kill in flight that nobody waits for
    apc,         \* where each abort (and the window's finish) is
    target,      \* the container its kill was sent to, or 0
    rpc,         \* where each resurrection is
    seen,        \* the status its caller saw
    awaited,     \* the incarnation it waits for
    deleting,    \* a DELETE passed its terminal check and its delete is queued
    closed,      \* the log and events channels are marked terminal
    viewer,      \* the incarnation that started the browser-view sidecar there is, or 0
    stray        \* history: an error took from that incarnation what it stops the sidecar with

record    == <<status, n>>
process   == <<phase, crashes>>
flags     == <<restart, migTimer, finishing, finTimer>>
engine    == <<cont, reg, stopping, outcome>>
aborts    == <<apc, target>>
resurrect == <<rpc, seen, awaited>>
channels  == <<closed, viewer, stray>>
vars      == <<record, process, pc, recent, flags, graceTimer, engine, aborts, resurrect,
               deleting, channels>>

Inc      == 1..MaxIncarnations
Stoppers == Aborters \cup {Window}

\* The states of runInBackground: each is an await it is suspended in.
IncarnationStates ==
    { "none",          \* not launched yet
      "launched",      \* its RUNNING write is queued
      "prep",          \* looking up the build, debug target, secrets, owner; starting the viewer
      "viewed",        \* the viewer is up; the write of where it listens is queued
      "failWrite",     \* failBeforeContainer: channels closed, FAILED write queued
      "escaped",       \* launchInBackground's catch: FAILED write queued
      "check",         \* the re-check of the record before a container is created
      "abortWrite",    \* found ABORTING before any container: ABORTED write queued
      "starting",      \* driver.startRun, no container yet
      "created",       \* container created, not started
      "waiting",       \* container.wait()
      "exited",        \* container exited; draining its log, removing it
      "restartCheck",  \* a restart was pending: re-reading the record
      "errCheck",      \* restartAfterError
      "final",         \* flushed; the outcome's status write queued
      "caught",        \* driver.startRun threw; FAILED write queued
      "cleanup",       \* the finally block
      "graceWrite",    \* it closed an open graceful-abort window: ABORTED write queued
      "close",         \* stopping the viewer, then the last synchronous cleanup
      "settled" }      \* the promise in `incarnations` settled

\* Incarnations whose promise has not settled.
Live(i) == pc[i] \notin {"none", "settled"}

\* The terminal status runInBackground computes from an outcome.
finalStatus(o) ==
    CASE o = "timeout" -> "TIMED-OUT"
      [] o = "error"   -> "FAILED"
      [] OTHER         -> "SUCCEEDED"

-----------------------------------------------------------------------------
(* The initial state: startRun stored a READY record and launched it.      *)

Init ==
    /\ status = "READY" /\ n = 1
    /\ phase = "up" /\ crashes = 0
    /\ pc = [i \in Inc |-> IF i = 1 THEN "launched" ELSE "none"]
    /\ recent = [i \in Inc |-> 0]
    /\ restart = FALSE /\ migTimer = FALSE /\ finishing = FALSE /\ finTimer = "idle"
    /\ graceTimer = FALSE
    /\ cont = [i \in Inc |-> "none"] /\ reg = 0 /\ stopping = {}
    /\ outcome = [i \in Inc |-> "none"]
    /\ apc = [a \in Stoppers |-> "idle"]
    /\ target = [a \in Stoppers |-> 0]
    /\ rpc = [r \in Resurrectors |-> "idle"]
    /\ seen = [r \in Resurrectors |-> "READY"]
    /\ awaited = [r \in Resurrectors |-> 0]
    /\ deleting = FALSE
    /\ closed = FALSE /\ viewer = 0 /\ stray = FALSE

-----------------------------------------------------------------------------
(* runInBackground, up to the container.                                   *)

\* Incarnation i moves to state s.
Goto(i, s) == pc' = [pc EXCEPT ![i] = s]

\* `await runs.update(...)` of the status through the gate, by whoever runs it.
WriteStatus(next) == status' = transitionJobStatus(status, next) /\ n' = n

\* Mutant: the registry's mutex does not keep its queue in order.
QueuedAhead_Unordered == FALSE

\* A resurrection whose `await incarnations.get(run.id)` is over: its guarded write is queued.
AwaitOver(r) == rpc[r] = "await" /\ awaited[r] \notin {i \in Inc : Live(i)}

\* A registry access queued before the live incarnation n was launched: a delete past its
\* check, or the write of another resurrection (one that starts to wait later waits for n).
\* The mutex is FIFO, so it precedes whatever the launch caused: the incarnation's RUNNING
\* write, and the ABORTED write of an abort that found the READY record.
QueuedAhead ==
    \/ deleting
    \/ \E r \in Resurrectors : AwaitOver(r)

\* The first write. An abort that came first is finalised here without a container; a record
\* already ABORTED, or gone, leaves nothing to do.
BecomeRunning(i) ==
    /\ phase = "up" /\ pc[i] = "launched" /\ ~QueuedAhead
    /\ WriteStatus("RUNNING")
    /\ IF status' = "RUNNING"
       THEN Goto(i, "prep") /\ UNCHANGED graceTimer
       ELSE IF status' = "ABORTING"
            THEN Goto(i, "abortWrite") /\ graceTimer' = FALSE
            ELSE Goto(i, "settled") /\ UNCHANGED graceTimer
    /\ UNCHANGED <<process, recent, flags, engine, aborts, resurrect, deleting, channels>>

\* failBeforeContainer: no image, no driver, a refused debug plan or a viewer that does not
\* start. The log is flushed and both channels are marked terminal before the FAILED write.
\* A sidecar of the run that is still there takes the name a new one needs, and the failed start
\* drops its entry in driver.browserViewers.
FailBeforeContainer(i) ==
    /\ phase = "up" /\ pc[i] = "prep"
    /\ closed' = TRUE
    /\ stray' \in {stray, viewer # 0}
    /\ Goto(i, "failWrite")
    /\ UNCHANGED <<record, process, recent, flags, graceTimer, engine, aborts, resurrect,
                   deleting, viewer>>

FailWrite(i) ==
    /\ phase = "up" /\ pc[i] = "failWrite"
    /\ WriteStatus("FAILED")
    /\ Goto(i, "settled")
    /\ UNCHANGED <<process, recent, flags, graceTimer, engine, aborts, resurrect, deleting,
                   channels>>

\* A storage access throws. Inside the try block its catch takes over. Before it, or at the head of
\* the finally block, launchInBackground catches it, and nothing below the access runs, not even
\* the stop of the viewer.
Escape(i) ==
    /\ phase = "up" /\ pc[i] \in EscapePoints
    /\ ~(pc[i] = "launched" /\ QueuedAhead)
    /\ IF pc[i] \in {"restartCheck", "errCheck", "final"}
       THEN Goto(i, "caught") /\ UNCHANGED stray
       ELSE Goto(i, "escaped") /\ stray' = (stray \/ viewer = i)
    /\ UNCHANGED <<record, process, recent, flags, graceTimer, engine, aborts, resurrect,
                   deleting, closed, viewer>>

EscapedWrite(i) ==
    /\ phase = "up" /\ pc[i] = "escaped"
    /\ WriteStatus("FAILED")
    /\ Goto(i, "settled")
    /\ UNCHANGED <<process, recent, flags, graceTimer, engine, aborts, resurrect, deleting,
                   channels>>

\* With the Actor's browser view on, the sidecar is started before the re-check. It has one name
\* for each run.
StartViewer(i) ==
    /\ phase = "up" /\ pc[i] = "prep" /\ viewer = 0
    /\ viewer' = i
    /\ Goto(i, "viewed")
    /\ UNCHANGED <<record, process, recent, flags, graceTimer, engine, aborts, resurrect,
                   deleting, closed, stray>>

\* Everything the container needs is at hand: with the view off after the lookups, with it on once
\* the record says where the sidecar listens.
Prepared(i) ==
    /\ phase = "up" /\ pc[i] \in {"prep", "viewed"}
    /\ Goto(i, "check")
    /\ UNCHANGED <<record, process, recent, flags, graceTimer, engine, aborts, resurrect,
                   deleting, channels>>

\* stopBrowserViewer of incarnation i, which only has a handle of the sidecar it started.
StopViewer(i) ==
    /\ viewer' = IF viewer = i /\ ~stray THEN 0 ELSE viewer
    /\ UNCHANGED stray

\* The re-check right before driver.startRun. A run that is no longer RUNNING loses its
\* viewer, and an ABORTING one is finalised here.
PreStartCheck(i) ==
    /\ phase = "up" /\ pc[i] = "check"
    /\ IF status = "RUNNING"
       THEN Goto(i, "starting") /\ UNCHANGED <<graceTimer, viewer, stray>>
       ELSE /\ StopViewer(i)
            /\ IF status = "ABORTING"
               THEN Goto(i, "abortWrite") /\ graceTimer' = FALSE
               ELSE Goto(i, "settled") /\ UNCHANGED graceTimer
    /\ UNCHANGED <<record, process, recent, flags, engine, aborts, resurrect, deleting,
                   closed>>

AbortWrite(i) ==
    /\ phase = "up" /\ pc[i] = "abortWrite"
    /\ WriteStatus("ABORTED")
    /\ Goto(i, "settled")
    /\ UNCHANGED <<process, recent, flags, graceTimer, engine, aborts, resurrect, deleting,
                   channels>>

-----------------------------------------------------------------------------
(* driver.startRun (driver/docker-driver.ts) and the container engine.     *)

\* Mutant: the container is registered only once it runs.
CreateContainer_Unregistered(i) ==
    /\ phase = "up" /\ pc[i] = "starting"
    /\ cont' = [cont EXCEPT ![i] = "created"]
    /\ outcome' = [outcome EXCEPT ![i] = "none"]
    /\ Goto(i, "created")
    /\ UNCHANGED <<record, process, recent, flags, graceTimer, reg, stopping, aborts, resurrect,
                   deleting, channels>>

\* createContainer answered: the container is registered under the run's id, not started.
CreateContainer(i) ==
    /\ phase = "up" /\ pc[i] = "starting"
    /\ cont' = [cont EXCEPT ![i] = "created"]
    /\ reg' = i
    /\ outcome' = [outcome EXCEPT ![i] = "none"]
    /\ Goto(i, "created")
    /\ UNCHANGED <<record, process, recent, flags, graceTimer, stopping, aborts, resurrect,
                   deleting, channels>>

\* The driver's `finally`: the container of incarnation i is gone and the map's entry for the
\* run with it; a stop still in flight to that container finds nothing.
RemoveContainer(i) ==
    /\ cont' = [cont EXCEPT ![i] = "none"]
    /\ reg' = 0
    /\ stopping' = stopping \ {i}
    /\ target' = [a \in Stoppers |-> IF target[a] = i THEN 0 ELSE target[a]]
    /\ UNCHANGED apc

\* The engine refuses to create the container, or to start the one it created.
StartFails(i) ==
    /\ phase = "up" /\ pc[i] \in {"starting", "created"}
    /\ IF pc[i] = "created" THEN RemoveContainer(i)
                            ELSE UNCHANGED <<cont, reg, stopping, aborts>>
    /\ Goto(i, "caught")
    /\ UNCHANGED <<record, process, recent, flags, graceTimer, outcome, resurrect, deleting,
                   channels>>

StartContainer(i) ==
    /\ phase = "up" /\ pc[i] = "created"
    /\ cont' = [cont EXCEPT ![i] = "up"]
    /\ Goto(i, "waiting")
    /\ UNCHANGED <<record, process, recent, flags, graceTimer, reg, stopping, outcome, aborts,
                   resurrect, deleting, channels>>

\* timedOutRuns remembers that the timer fired, whatever the exit code is then.
Exit(i, o) ==
    /\ cont[i] = "up"
    /\ cont' = [cont EXCEPT ![i] = "exited"]
    /\ outcome' = [outcome EXCEPT ![i] = IF @ = "timeout" THEN @ ELSE o]

\* The Actor's process ends by itself.
ContainerExits(i) ==
    /\ \E o \in {"ok", "error"} : Exit(i, o)
    /\ UNCHANGED <<record, process, pc, recent, flags, graceTimer, reg, stopping, aborts,
                   resurrect, deleting, channels>>

\* A stop nobody waits for reaches the engine. Only a running container can be killed; the
\* error of any other is swallowed (driver.abortRun).
StopLands(i) ==
    /\ i \in stopping
    /\ stopping' = stopping \ {i}
    /\ IF cont[i] = "up" THEN Exit(i, "error") ELSE UNCHANGED <<cont, outcome>>
    /\ UNCHANGED <<record, process, pc, recent, flags, graceTimer, reg, aborts, resurrect,
                   deleting, channels>>

\* The run's timeout timer, armed once the container is up and its log attached.
TimeoutFires(i) ==
    /\ phase = "up" /\ HasTimeout /\ pc[i] = "waiting" /\ outcome[i] # "timeout"
    /\ outcome' = [outcome EXCEPT ![i] = "timeout"]
    /\ stopping' = stopping \cup {i}
    /\ UNCHANGED <<record, process, pc, recent, flags, graceTimer, cont, reg, aborts,
                   resurrect, deleting, channels>>

\* container.wait() resolves; timedOutRuns is read here.
WaitResolves(i) ==
    /\ phase = "up" /\ pc[i] = "waiting" /\ cont[i] = "exited"
    /\ Goto(i, "exited")
    /\ UNCHANGED <<record, process, recent, flags, graceTimer, engine, aborts, resurrect,
                   deleting, channels>>

-----------------------------------------------------------------------------
(* runInBackground, from the container's exit to the end.                  *)

\* No restart is due: consume the standby-finish mark and decide what the exit means.
JudgeExit(i) ==
    /\ finishing' = FALSE
    /\ outcome' = IF finishing THEN [outcome EXCEPT ![i] = "finished"] ELSE outcome
    /\ Goto(i, IF ~finishing /\ outcome[i] = "error" THEN "errCheck" ELSE "final")

\* driver.startRun returns. A pending restart is consumed before the record is re-read.
StartRunReturns(i) ==
    /\ phase = "up" /\ pc[i] = "exited"
    /\ RemoveContainer(i)
    /\ IF restart
       THEN /\ restart' = FALSE
            /\ Goto(i, "restartCheck")
            /\ UNCHANGED <<finishing, outcome>>
       ELSE JudgeExit(i) /\ UNCHANGED restart
    /\ UNCHANGED <<record, process, recent, migTimer, finTimer, graceTimer, resurrect,
                   deleting, channels>>

\* An abort that raced the restart wins.
RestartCheck(i) ==
    /\ phase = "up" /\ pc[i] = "restartCheck"
    /\ IF status = "RUNNING"
       THEN Goto(i, "starting") /\ UNCHANGED <<finishing, outcome>>
       ELSE JudgeExit(i)
    /\ UNCHANGED <<record, process, recent, restart, migTimer, finTimer, graceTimer, cont,
                   reg, stopping, aborts, resurrect, deleting, channels>>

\* Mutant: the restart is decided without looking at the record.
RestartAfterError_Blind(i) ==
    /\ phase = "up" /\ pc[i] = "errCheck"
    /\ IF RestartOnError /\ recent[i] < MaxRestarts
       THEN /\ recent' = [recent EXCEPT ![i] = @ + 1]
            /\ Goto(i, "starting")
       ELSE Goto(i, "final") /\ UNCHANGED recent
    /\ UNCHANGED <<record, process, flags, graceTimer, engine, aborts, resurrect, deleting,
                   channels>>

\* restartAfterError: decided inside one serialized write.
RestartAfterError(i) ==
    /\ phase = "up" /\ pc[i] = "errCheck"
    /\ IF status = "RUNNING" /\ RestartOnError /\ recent[i] < MaxRestarts
       THEN /\ recent' = [recent EXCEPT ![i] = @ + 1]
            /\ Goto(i, "starting")
       ELSE Goto(i, "final") /\ UNCHANGED recent
    /\ UNCHANGED <<record, process, flags, graceTimer, engine, aborts, resurrect, deleting,
                   channels>>

\* A restart leaves the RESTART_ON_ERROR_INTERVAL_MS window.
RestartAges(i) ==
    /\ phase = "up" /\ Live(i) /\ recent[i] > 0
    /\ recent' = [recent EXCEPT ![i] = @ - 1]
    /\ UNCHANGED <<record, process, pc, flags, graceTimer, engine, aborts, resurrect,
                   deleting, channels>>

\* The outcome's status, refused when an abort came first.
FinalWrite(i) ==
    /\ phase = "up" /\ pc[i] = "final"
    /\ WriteStatus(finalStatus(outcome[i]))
    /\ Goto(i, "cleanup")
    /\ UNCHANGED <<process, recent, flags, graceTimer, engine, aborts, resurrect, deleting,
                   channels>>

CaughtWrite(i) ==
    /\ phase = "up" /\ pc[i] = "caught"
    /\ WriteStatus("FAILED")
    /\ Goto(i, "cleanup")
    /\ UNCHANGED <<process, recent, flags, graceTimer, engine, aborts, resurrect, deleting,
                   channels>>

\* Mutant: the finally block cancels the window and does not finalise the run.
CancelWindow_NoWrite(i) ==
    /\ phase = "up" /\ pc[i] = "cleanup"
    /\ graceTimer' = FALSE
    /\ Goto(i, "close")
    /\ UNCHANGED <<record, process, recent, flags, engine, aborts, resurrect, deleting,
                   channels>>

\* The finally block: the container is gone, so an open graceful-abort window ends now.
CancelWindow(i) ==
    /\ phase = "up" /\ pc[i] = "cleanup"
    /\ graceTimer' = FALSE
    /\ Goto(i, IF graceTimer THEN "graceWrite" ELSE "close")
    /\ UNCHANGED <<record, process, recent, flags, engine, aborts, resurrect, deleting,
                   channels>>

GraceWrite(i) ==
    /\ phase = "up" /\ pc[i] = "graceWrite"
    /\ WriteStatus("ABORTED")
    /\ Goto(i, "close")
    /\ UNCHANGED <<process, recent, flags, graceTimer, engine, aborts, resurrect, deleting,
                   channels>>

\* Mutant: the viewer is left to the next reconciliation.
Close_KeepsViewer(i) ==
    /\ phase = "up" /\ pc[i] = "close"
    /\ restart' = FALSE /\ migTimer' = FALSE /\ finishing' = FALSE
    /\ closed' = TRUE
    /\ Goto(i, "settled")
    /\ UNCHANGED <<record, process, recent, finTimer, graceTimer, engine, aborts, resurrect,
                   deleting, viewer, stray>>

\* The viewer is stopped; then clearRunRestartState, consumeStandbyRunFinishing and both
\* channels' marks, in one synchronous stretch.
Close(i) ==
    /\ phase = "up" /\ pc[i] = "close"
    /\ StopViewer(i)
    /\ restart' = FALSE /\ migTimer' = FALSE /\ finishing' = FALSE
    /\ closed' = TRUE
    /\ Goto(i, "settled")
    /\ UNCHANGED <<record, process, recent, finTimer, graceTimer, engine, aborts, resurrect,
                   deleting>>

-----------------------------------------------------------------------------
(* Aborts.                                                                 *)

\* driver.abortRun: the kill goes to the container registered now. Without one it returns at
\* once, and the ABORTED write is queued.
SendKill(a) ==
    /\ apc' = [apc EXCEPT ![a] = IF reg = 0 THEN "queued" ELSE "kill"]
    /\ target' = [target EXCEPT ![a] = reg]

\* abortRun: the ABORTING write and what follows it. A terminal (or deleted) run is left
\* alone; a graceful abort of a RUNNING run opens the window, one of an ABORTING run joins it,
\* and every other abort cancels an open window and kills the container.
AbortRun(a, gracefully) ==
    /\ phase = "up" /\ apc[a] = "idle"
    /\ WriteStatus("ABORTING")
    /\ status' = "ABORTING"
    /\ \/ /\ status = "ABORTING" /\ gracefully
          /\ UNCHANGED <<graceTimer, aborts>>
       \/ /\ status = "RUNNING" /\ gracefully
          /\ graceTimer' = TRUE
          /\ UNCHANGED aborts
       \/ /\ ~gracefully \/ status = "READY"
          /\ graceTimer' = FALSE
          /\ SendKill(a)
    /\ UNCHANGED <<process, pc, recent, flags, engine, resurrect, deleting, channels>>

\* GRACEFUL_ABORT_WINDOW_MS passed: finishGracefulAbort starts.
WindowExpires ==
    /\ phase = "up" /\ graceTimer /\ apc[Window] = "idle"
    /\ graceTimer' = FALSE
    /\ SendKill(Window)
    /\ UNCHANGED <<record, process, pc, recent, flags, engine, resurrect, deleting, channels>>

\* The kill reaches the engine; its answer is on the way back.
KillLands(a) ==
    /\ phase = "up" /\ apc[a] = "kill"
    /\ IF target[a] \in Inc /\ cont[target[a]] = "up"
       THEN Exit(target[a], "error") ELSE UNCHANGED <<cont, outcome>>
    /\ apc' = [apc EXCEPT ![a] = "answer"]
    /\ UNCHANGED <<record, process, pc, recent, flags, graceTimer, reg, stopping, target,
                   resurrect, deleting, channels>>

\* The answer is back: the last write of abortRun and of finishGracefulAbort.
AbortedWrite(a) ==
    /\ phase = "up" /\ apc[a] \in {"answer", "queued"}
    /\ ~(apc[a] = "queued" /\ Live(n) /\ QueuedAhead)
    /\ WriteStatus("ABORTED")
    /\ apc' = [apc EXCEPT ![a] = "idle"]
    /\ target' = [target EXCEPT ![a] = 0]
    /\ UNCHANGED <<process, pc, recent, flags, graceTimer, engine, resurrect, deleting,
                   channels>>

-----------------------------------------------------------------------------
(* Migrations, reboots (services/migrations.ts) and the standby finish.    *)

\* driver.abortRun without anybody waiting for the answer: a no-op without a container.
SendStop == stopping' = stopping \cup ({reg} \ {0})

\* migrateRun: a second call during the open window joins it.
MigrateRun ==
    /\ phase = "up" /\ "migrate" \in Stops
    /\ status = "RUNNING" /\ ~migTimer
    /\ migTimer' = TRUE
    /\ UNCHANGED <<record, process, pc, recent, restart, finishing, finTimer, graceTimer,
                   engine, aborts, resurrect, deleting, channels>>

\* MIGRATING_STOP_WINDOW_MS passed: stopForMigration re-checks the status in its write.
StopForMigration ==
    /\ phase = "up" /\ migTimer
    /\ migTimer' = FALSE
    /\ IF status = "RUNNING" THEN restart' = TRUE /\ SendStop
                             ELSE UNCHANGED <<restart, stopping>>
    /\ UNCHANGED <<record, process, pc, recent, finishing, finTimer, graceTimer, cont, reg,
                   outcome, aborts, resurrect, deleting, channels>>

\* rebootRun: cancels an open migration window; only a RUNNING run is restarted.
RebootRun ==
    /\ phase = "up" /\ "reboot" \in Stops
    /\ status \in {"READY", "RUNNING", "ABORTING"}
    /\ migTimer' = FALSE
    /\ IF status = "RUNNING" THEN restart' = TRUE /\ SendStop
                             ELSE UNCHANGED <<restart, stopping>>
    /\ UNCHANGED <<record, process, pc, recent, finishing, finTimer, graceTimer, cont, reg,
                   outcome, aborts, resurrect, deleting, channels>>

\* The pool's finishRun marks the run and arms the stop it never cancels; a run leaves its
\* pool once.
StandbyFinish ==
    /\ phase = "up" /\ IsStandby
    /\ status = "RUNNING" /\ finTimer = "idle"
    /\ finishing' = TRUE /\ finTimer' = "armed"
    /\ UNCHANGED <<record, process, pc, recent, restart, migTimer, graceTimer, engine, aborts,
                   resurrect, deleting, channels>>

StandbyStop ==
    /\ phase = "up" /\ finTimer = "armed"
    /\ finTimer' = "fired"
    /\ SendStop
    /\ UNCHANGED <<record, process, pc, recent, restart, migTimer, finishing, graceTimer,
                   cont, reg, outcome, aborts, resurrect, deleting, channels>>

-----------------------------------------------------------------------------
(* Resurrections and the delete request.                                   *)

\* The route's read of the run, and resurrectRun's first check of it.
ResurrectSees(r) ==
    /\ phase = "up" /\ rpc[r] = "idle" /\ n < MaxIncarnations
    /\ isTerminalJobStatus(status)
    /\ rpc' = [rpc EXCEPT ![r] = "seen"]
    /\ seen' = [seen EXCEPT ![r] = status]
    /\ UNCHANGED <<record, process, pc, recent, flags, graceTimer, engine, aborts, awaited,
                   deleting, channels>>

\* Mutant: the resurrection does not wait for the previous incarnation to wind down.
ResurrectAwaits_Nothing(r) ==
    /\ phase = "up" /\ rpc[r] = "seen"
    /\ rpc' = [rpc EXCEPT ![r] = "await"]
    /\ awaited' = [awaited EXCEPT ![r] = 0]
    /\ UNCHANGED <<record, process, pc, recent, flags, graceTimer, engine, aborts, seen,
                   deleting, channels>>

\* The build and memory lookups are done: `await incarnations.get(run.id)`.
ResurrectAwaits(r) ==
    /\ phase = "up" /\ rpc[r] = "seen"
    /\ rpc' = [rpc EXCEPT ![r] = "await"]
    /\ awaited' = [awaited EXCEPT ![r] = IF Live(n) THEN n ELSE 0]
    /\ UNCHANGED <<record, process, pc, recent, flags, graceTimer, engine, aborts, seen,
                   deleting, channels>>

\* Mutant: the channels of the resurrected run are not reopened.
ResurrectRun_NoReopen(r) ==
    /\ phase = "up" /\ AwaitOver(r)
    /\ Live(n) \/ \A a \in Stoppers : apc[a] # "queued"
    /\ IF status = seen[r] /\ n < MaxIncarnations
       THEN /\ status' = "READY" /\ n' = n + 1
            /\ Goto(n + 1, "launched")
       ELSE UNCHANGED <<record, pc>>
    /\ rpc' = [rpc EXCEPT ![r] = "idle"]
    /\ seen' = [seen EXCEPT ![r] = "READY"]
    /\ awaited' = [awaited EXCEPT ![r] = 0]
    /\ UNCHANGED <<process, recent, flags, graceTimer, engine, aborts, deleting, channels>>

\* The write guarded on the status the caller saw; when it lands, the channels are reopened and
\* the next incarnation is launched. The ABORTED write of an abort that found no container
\* was queued before it, unless that abort is one of the incarnation launched since. (Beyond
\* MaxIncarnations the request is dropped.)
ResurrectRun(r) ==
    /\ phase = "up" /\ AwaitOver(r)
    /\ Live(n) \/ \A a \in Stoppers : apc[a] # "queued"
    /\ IF status = seen[r] /\ n < MaxIncarnations
       THEN /\ status' = "READY" /\ n' = n + 1
            /\ Goto(n + 1, "launched")
            /\ closed' = FALSE
       ELSE UNCHANGED <<record, pc, closed>>
    /\ rpc' = [rpc EXCEPT ![r] = "idle"]
    /\ seen' = [seen EXCEPT ![r] = "READY"]
    /\ awaited' = [awaited EXCEPT ![r] = 0]
    /\ UNCHANGED <<process, recent, flags, graceTimer, engine, aborts, deleting, viewer, stray>>

\* DELETE /actor-runs/:id: the check of the route, then the delete queued behind it.
DeleteChecks ==
    /\ phase = "up" /\ ~deleting
    /\ isTerminalJobStatus(status)
    /\ deleting' = TRUE
    /\ UNCHANGED <<record, process, pc, recent, flags, graceTimer, engine, aborts, resurrect,
                   channels>>

DeleteRun ==
    /\ phase = "up" /\ deleting
    /\ status' = Gone /\ n' = n
    /\ deleting' = FALSE
    /\ UNCHANGED <<process, pc, recent, flags, graceTimer, engine, aborts, resurrect, channels>>

-----------------------------------------------------------------------------
(* Crash, and the startup reconciliation (reconcileOrphanedJobs and the    *)
(* driver's reconcileOrphans), which ends before a server listens.         *)

\* Everything in memory is lost; the record, the containers and the viewer stay.
Crash ==
    /\ crashes < MaxCrashes
    /\ crashes' = crashes + 1
    /\ phase' = "down"
    /\ pc' = [i \in Inc |-> IF pc[i] = "none" THEN "none" ELSE "settled"]
    /\ recent' = [i \in Inc |-> 0]
    /\ restart' = FALSE /\ migTimer' = FALSE /\ finishing' = FALSE /\ finTimer' = "fired"
    /\ graceTimer' = FALSE
    /\ reg' = 0 /\ stopping' = {}
    /\ apc' = [a \in Stoppers |-> "idle"]
    /\ target' = [a \in Stoppers |-> 0]
    /\ rpc' = [r \in Resurrectors |-> "idle"]
    /\ seen' = [r \in Resurrectors |-> "READY"]
    /\ awaited' = [r \in Resurrectors |-> 0]
    /\ deleting' = FALSE
    /\ closed' = FALSE
    /\ UNCHANGED <<record, cont, outcome, viewer, stray>>

\* The containers of the runs that are not terminal are removed, every viewer is.
ReconcileOrphans ==
    /\ phase = "down"
    /\ phase' = "swept"
    /\ cont' = IF status = Gone \/ isTerminalJobStatus(status) THEN cont
               ELSE [i \in Inc |-> "none"]
    /\ viewer' = 0 /\ stray' = FALSE
    /\ UNCHANGED <<record, crashes, pc, recent, flags, graceTimer, reg, stopping, outcome,
                   aborts, resurrect, deleting, closed>>

\* Mutant: reconciliation removes the containers and leaves the record as it is.
ReconcileOrphanedJobs_NoWrite ==
    /\ phase = "swept"
    /\ phase' = "up"
    /\ UNCHANGED <<record, crashes, pc, recent, flags, graceTimer, engine, aborts, resurrect,
                   deleting, channels>>

ReconcileOrphanedJobs ==
    /\ phase = "swept"
    /\ phase' = "up"
    /\ WriteStatus("ABORTED")
    /\ UNCHANGED <<crashes, pc, recent, flags, graceTimer, engine, aborts, resurrect,
                   deleting, channels>>

-----------------------------------------------------------------------------

\* What incarnation i does by itself.
Incarnation(i) ==
    \/ BecomeRunning(i) \/ FailBeforeContainer(i) \/ FailWrite(i)
    \/ Escape(i) \/ EscapedWrite(i)
    \/ StartViewer(i) \/ Prepared(i) \/ PreStartCheck(i) \/ AbortWrite(i)
    \/ CreateContainer(i) \/ StartFails(i) \/ StartContainer(i)
    \/ WaitResolves(i) \/ StartRunReturns(i)
    \/ RestartCheck(i) \/ RestartAfterError(i)
    \/ FinalWrite(i) \/ CaughtWrite(i)
    \/ CancelWindow(i) \/ GraceWrite(i) \/ Close(i)

\* What the engine and the clock do to it.
Environment(i) ==
    \/ ContainerExits(i) \/ StopLands(i) \/ TimeoutFires(i) \/ RestartAges(i)

Stopper(a) == KillLands(a) \/ AbortedWrite(a)

Resurrection(r) == ResurrectSees(r) \/ ResurrectAwaits(r) \/ ResurrectRun(r)

Next ==
    \/ \E i \in Inc : Incarnation(i) \/ Environment(i)
    \/ \E a \in Aborters, g \in Graceful : AbortRun(a, g)
    \/ \E a \in Stoppers : Stopper(a)
    \/ WindowExpires
    \/ MigrateRun \/ StopForMigration \/ RebootRun
    \/ StandbyFinish \/ StandbyStop
    \/ \E r \in Resurrectors : Resurrection(r)
    \/ DeleteChecks \/ DeleteRun
    \/ Crash \/ ReconcileOrphans \/ ReconcileOrphanedJobs

Spec == Init /\ [][Next]_vars

-----------------------------------------------------------------------------
(* Fairness. Every await of runInBackground, of an abort and of a          *)
(* resurrection ends (the registry and the engine answer), every armed     *)
(* timer fires, a stop that was sent lands, and a restarted runtime        *)
(* finishes its reconciliation. Nothing is assumed of clients, of the      *)
(* Actor's process (it may run for ever) or of crashes.                    *)

Fairness ==
    /\ \A i \in Inc : WF_vars(Incarnation(i)) /\ WF_vars(StopLands(i)) /\ WF_vars(TimeoutFires(i))
    /\ \A a \in Stoppers : WF_vars(Stopper(a))
    /\ WF_vars(WindowExpires) /\ WF_vars(StopForMigration) /\ WF_vars(StandbyStop)
    /\ \A r \in Resurrectors : WF_vars(ResurrectAwaits(r)) /\ WF_vars(ResurrectRun(r))
    /\ WF_vars(DeleteRun)
    /\ WF_vars(ReconcileOrphans) /\ WF_vars(ReconcileOrphanedJobs)

FairSpec == Spec /\ Fairness

-----------------------------------------------------------------------------
(* Safety.                                                                 *)

\* Every variable holds a value of its kind.
TypeOK ==
    /\ status \in JobStatuses \cup {Gone}
    /\ phase \in {"up", "down", "swept"}
    /\ crashes \in 0..MaxCrashes
    /\ n \in Inc
    /\ pc \in [Inc -> IncarnationStates]
    /\ cont \in [Inc -> {"none", "created", "up", "exited"}]
    /\ reg \in 0..MaxIncarnations
    /\ outcome \in [Inc -> {"none", "ok", "error", "timeout", "finished"}]
    /\ recent \in [Inc -> 0..MaxRestarts]
    /\ restart \in BOOLEAN /\ migTimer \in BOOLEAN /\ finishing \in BOOLEAN
    /\ finTimer \in {"idle", "armed", "fired"}
    /\ graceTimer \in BOOLEAN
    /\ stopping \subseteq Inc
    /\ apc \in [Stoppers -> {"idle", "kill", "answer", "queued"}]
    /\ target \in [Stoppers -> 0..MaxIncarnations]
    /\ rpc \in [Resurrectors -> {"idle", "seen", "await"}]
    /\ seen \in [Resurrectors -> JobStatuses]
    /\ awaited \in [Resurrectors -> 0..MaxIncarnations]
    /\ deleting \in BOOLEAN
    /\ closed \in BOOLEAN /\ viewer \in 0..MaxIncarnations /\ stray \in BOOLEAN

\* The states in which runInBackground still owes a RUNNING record a terminal status.
Working == {"prep", "viewed", "failWrite", "escaped", "check", "starting", "created", "waiting",
            "exited", "restartCheck", "errCheck", "final", "caught"}

\* No record is stuck READY or RUNNING: while the runtime is up, some incarnation is still to
\* make it RUNNING, or to finish it. launchInBackground's catch exists for this.
RunHasDriver ==
    phase = "up" =>
        /\ status = "READY"   => \E i \in Inc : pc[i] = "launched"
        /\ status = "RUNNING" => \E i \in Inc : pc[i] \in Working

\* Somebody still has the ABORTED write of an ABORTING run before him: an open window, an
\* abort waiting for its kill, or an incarnation that took the window over (cancelGracefulAbort
\* leaves "the caller finalizes the run itself").
AbortHasOwner ==
    phase = "up" /\ status = "ABORTING" =>
        \/ graceTimer
        \/ \E a \in Stoppers : apc[a] # "idle"
        \/ \E i \in Inc : pc[i] \in {"abortWrite", "graceWrite"}

\* Two incarnations of a run never overlap (the `incarnations` map and the guarded update of
\* resurrectRun). True with one stopper or one resurrection at a time; two of each refute it:
\* the late ABORTED write of an abort of the previous incarnation makes the new one's record
\* terminal, with the status another resurrection is waiting to see.
OneIncarnation ==
    \A i, j \in Inc : Live(i) /\ Live(j) => i = j

\* The channels a resurrection reopened are not closed under it by the incarnation before it:
\* from its first write to its own cleanup, an incarnation's log and events are open.
ChannelsOpenWhileLive ==
    \A i \in Inc : Live(i) /\ pc[i] # "failWrite" => ~closed

\* A container the runtime started is the one driver.runContainers holds for the run, so that
\* an abort, a migration and a timeout stop it and no other.
StopPathExists ==
    crashes = 0 => \A i \in Inc : cont[i] # "none" => reg = i

\* A run that goes on, resurrected or restarted, can still be reached: its channels are open
\* and its container is the one that a stop finds.
LiveRunIsReachable == ChannelsOpenWhileLive /\ StopPathExists

\* The browser-view sidecar goes with the incarnation that started it, by whichever of its paths
\* that one ends, or after a crash with the sweep; it never serves the next one. Excepted is a
\* sidecar whose stop an error took away (`stray`): ViewEndsWithRun is refuted with it.
ViewerGoneWithRun ==
    phase = "up" /\ viewer # 0 => Live(viewer) \/ stray

\* The delete of a finished run never removes the record of a run that is RUNNING again: its
\* check and its delete are two registry accesses, a resurrection may land between them, and
\* only the mutex's order keeps the new incarnation behind the delete.
NeverDeletesRunning ==
    [][status # Gone /\ status' = Gone => status # "RUNNING"]_vars

\* The background function of the run, whichever incarnation it carries.
Worker == IF phase # "up" THEN "dead" ELSE IF \E i \in Inc : Live(i) THEN "on" ELSE "off"

AsJob == INSTANCE Job WITH worker <- Worker

\* A run is a job: through every restart, resurrection and crash only its background function
\* starts it or says how it ended and does not leave it before that, and it is resurrected only
\* when the function before is gone.
ImplementsJob == AsJob!Spec

-----------------------------------------------------------------------------
(* Liveness, under FairSpec.                                               *)

\* An abort always completes, whatever it races: ABORTING does not last.
AbortCompletes == status = "ABORTING" ~> status # "ABORTING"

\* A run whose status is terminal winds down: its incarnation settles, unless the run is
\* resurrected (it cannot be before that) or deleted. Holds of a run with a timeout.
EndedRunSettles ==
    isTerminalJobStatus(status) ~> (\A i \in Inc : ~Live(i))

\* A crash ends the run: the next start of the runtime finalises a record left non-terminal.
CrashedRunEnds == phase # "up" ~> isTerminalJobStatus(status) \/ status = Gone

\* A READY run gets started or ended: nobody waits for everybody in the registry's queue.
ReadyRunProceeds == status = "READY" ~> status # "READY"

\* No run is left where it is: one that is READY gets going, an abort completes, a run that ended
\* winds down, and one that a crash left behind is ended.
RunsMoveOn == ReadyRunProceeds /\ AbortCompletes /\ EndedRunSettles /\ CrashedRunEnds

-----------------------------------------------------------------------------
(* What the repository says of the code and the code does not do. Each is  *)
(* refuted by a run of its own (see README.md, Findings).                  *)

\* "aborting a run stops the run's container immediately" (requirements/actor-driver.md): once
\* the record says ABORTED no container of the run is up.
AbortedMeansStopped ==
    status = "ABORTED" => \A i \in Inc : cont[i] # "up"

\* "The view lives exactly as long as the run [...] and is gone once the run ends"
\* (requirements/actor-driver.md): no sidecar is left of a run that is over. Refuted by a storage
\* error between the viewer's start and the try block, or at the head of the finally block.
ViewEndsWithRun ==
    phase = "up" /\ isTerminalJobStatus(status) /\ ~Live(n) => viewer = 0

\* "A run that ends for real must not leave an armed migration-stop timer behind": once the last
\* incarnation of a terminal run settled, no migration stop, no restart and no standby-finish
\* mark is left for a resurrection to inherit.
\* Refuted: see README.md, Findings.
EndedRunLeavesNoTimers ==
    phase = "up" /\ isTerminalJobStatus(status) /\ ~Live(n) => ~migTimer /\ ~restart /\ ~finishing

=============================================================================
