------------------------ MODULE RunLifecycle_proofs ------------------------
(***************************************************************************)
(* Theorems about RunLifecycle, for every value of its constants.          *)
(***************************************************************************)
EXTENDS RunLifecycle, TLAPS

\* The gate only ever yields a status of the machine (or keeps Gone).
LEMMA GateType ==
    ASSUME NEW s \in JobStatuses \cup {Gone}, NEW next \in JobStatuses
    PROVE  transitionJobStatus(s, next) \in JobStatuses \cup {Gone}
  BY DEF transitionJobStatus

\* The constants' ranges, with the index sets unfolded.
LEMMA Ranges ==
    /\ 1 \in Inc /\ 0 \in 0..MaxIncarnations /\ Inc \subseteq 0..MaxIncarnations
    /\ 0 \in 0..MaxCrashes /\ 0 \in 0..MaxRestarts
    /\ Window \in Stoppers /\ Aborters \subseteq Stoppers
  BY RunAssumption DEF RunAssumption, Inc, Stoppers

\* Every state of the program counter that an action names.
LEMMA StateNames ==
    /\ "none" \in IncarnationStates /\ "launched" \in IncarnationStates
    /\ "prep" \in IncarnationStates /\ "failWrite" \in IncarnationStates
    /\ "escaped" \in IncarnationStates /\ "check" \in IncarnationStates
    /\ "abortWrite" \in IncarnationStates /\ "starting" \in IncarnationStates
    /\ "created" \in IncarnationStates /\ "waiting" \in IncarnationStates
    /\ "exited" \in IncarnationStates /\ "restartCheck" \in IncarnationStates
    /\ "errCheck" \in IncarnationStates /\ "final" \in IncarnationStates
    /\ "caught" \in IncarnationStates /\ "cleanup" \in IncarnationStates
    /\ "graceWrite" \in IncarnationStates /\ "close" \in IncarnationStates
    /\ "settled" \in IncarnationStates /\ "viewed" \in IncarnationStates
  BY DEF IncarnationStates

\* Every status that an action names.
LEMMA StatusNames ==
    /\ "READY" \in JobStatuses /\ "RUNNING" \in JobStatuses /\ "ABORTING" \in JobStatuses
    /\ TERMINAL_JOB_STATUSES \subseteq JobStatuses
    /\ \A o : finalStatus(o) \in TERMINAL_JOB_STATUSES
    /\ "FAILED" \in TERMINAL_JOB_STATUSES /\ "ABORTED" \in TERMINAL_JOB_STATUSES
  BY DEF JobStatuses, TERMINAL_JOB_STATUSES, finalStatus

\* Every variable keeps its type (TypeOK is inductive by itself): Init establishes it.
LEMMA TypeInit == Init => TypeOK
<1> SUFFICES ASSUME Init PROVE TypeOK
  OBVIOUS
<1> USE Ranges, StateNames, StatusNames DEF Init
<1>1. pc \in [Inc -> IncarnationStates]
  OBVIOUS
<1>2. /\ cont \in [Inc -> {"none", "created", "up", "exited"}]
      /\ outcome \in [Inc -> {"none", "ok", "error", "timeout", "finished"}]
      /\ recent \in [Inc -> 0..MaxRestarts]
  OBVIOUS
<1>3. /\ apc \in [Stoppers -> {"idle", "kill", "answer", "queued"}]
      /\ target \in [Stoppers -> 0..MaxIncarnations]
  OBVIOUS
<1>4. /\ rpc \in [Resurrectors -> {"idle", "seen", "await"}]
      /\ seen \in [Resurrectors -> JobStatuses]
      /\ awaited \in [Resurrectors -> 0..MaxIncarnations]
  OBVIOUS
<1> QED
  BY <1>1, <1>2, <1>3, <1>4 DEF TypeOK

\* The driver's `finally` keeps the types of what it touches.
LEMMA TypeRemove ==
    ASSUME TypeOK, NEW i \in Inc, RemoveContainer(i)
    PROVE  /\ cont' \in [Inc -> {"none", "created", "up", "exited"}]
           /\ reg' \in 0..MaxIncarnations
           /\ stopping' \subseteq Inc
           /\ target' \in [Stoppers -> 0..MaxIncarnations]
           /\ apc' = apc
  BY Ranges DEF TypeOK, RemoveContainer

\* So does the decision taken after an exit.
LEMMA TypeJudge ==
    ASSUME TypeOK, NEW i \in Inc, JudgeExit(i)
    PROVE  /\ finishing' \in BOOLEAN
           /\ outcome' \in [Inc -> {"none", "ok", "error", "timeout", "finished"}]
           /\ pc' \in [Inc -> IncarnationStates]
  BY StateNames DEF TypeOK, JudgeExit, Goto

\* An exit of a container.
LEMMA TypeExit ==
    ASSUME TypeOK, NEW i \in Inc, NEW o \in {"ok", "error"}, Exit(i, o)
    PROVE  /\ cont' \in [Inc -> {"none", "created", "up", "exited"}]
           /\ outcome' \in [Inc -> {"none", "ok", "error", "timeout", "finished"}]
  BY DEF TypeOK, Exit

\* Types are preserved by every step of an incarnation.
LEMMA TypeIncarnation ==
    ASSUME TypeOK, NEW i \in Inc, Incarnation(i)
    PROVE  TypeOK'
<1> USE Ranges, StateNames, StatusNames
    DEF TypeOK, Goto, WriteStatus, record, process, flags, engine, aborts, resurrect, channels
<1>1. CASE BecomeRunning(i)
  BY ZenonT(40), <1>1, GateType DEF BecomeRunning
<1>2. CASE FailBeforeContainer(i)
  <2>1. stray' \in BOOLEAN /\ closed' \in BOOLEAN
    BY <1>2, ZenonT(30) DEF FailBeforeContainer
  <2>2. pc' \in [Inc -> IncarnationStates]
    BY <1>2 DEF FailBeforeContainer
  <2> QED BY <1>2, <2>1, <2>2 DEF FailBeforeContainer
<1>3. CASE FailWrite(i)
  BY <1>3, GateType DEF FailWrite
<1>4. CASE Escape(i)
  <2>1. stray' \in BOOLEAN
    BY <1>4, ZenonT(30) DEF Escape
  <2>2. pc' \in [Inc -> IncarnationStates]
    BY <1>4 DEF Escape
  <2> QED BY <1>4, <2>1, <2>2 DEF Escape
<1>5. CASE EscapedWrite(i)
  BY <1>5, GateType DEF EscapedWrite
<1>6. CASE StartViewer(i) \/ Prepared(i)
  <2>1. CASE StartViewer(i)
    <3>1. viewer' \in 0..MaxIncarnations /\ pc' \in [Inc -> IncarnationStates]
      BY <2>1 DEF StartViewer
    <3> QED BY <2>1, <3>1 DEF StartViewer
  <2>2. CASE Prepared(i)
    BY <2>2 DEF Prepared
  <2> QED BY <1>6, <2>1, <2>2
<1>0. StopViewer(i) => viewer' \in 0..MaxIncarnations /\ stray' \in BOOLEAN
  BY DEF StopViewer
<1>7. CASE PreStartCheck(i)
  BY ZenonT(40), <1>0, <1>7 DEF PreStartCheck
<1>8. CASE AbortWrite(i)
  BY <1>8, GateType DEF AbortWrite
<1>9. CASE CreateContainer(i)
  BY <1>9 DEF CreateContainer, Inc
<1>10. CASE StartFails(i)
  <2>1. CASE pc[i] = "created"
    BY <1>10, <2>1, TypeRemove DEF StartFails
  <2>2. CASE pc[i] # "created"
    BY ZenonT(40), <1>10, <2>2 DEF StartFails
  <2> QED BY <2>1, <2>2
<1>11. CASE StartContainer(i)
  BY <1>11 DEF StartContainer
<1>12. CASE WaitResolves(i)
  BY <1>12 DEF WaitResolves
<1>13. CASE StartRunReturns(i)
  <2>1. CASE restart
    BY ZenonT(40), <1>13, <2>1, TypeRemove DEF StartRunReturns
  <2>2. CASE ~restart
    BY <1>13, <2>2, TypeRemove, TypeJudge DEF StartRunReturns
  <2> QED BY <2>1, <2>2
<1>14. CASE RestartCheck(i)
  <2>1. CASE status = "RUNNING"
    BY <1>14, <2>1 DEF RestartCheck
  <2>2. CASE status # "RUNNING"
    BY <1>14, <2>2, TypeJudge DEF RestartCheck
  <2> QED BY <2>1, <2>2
<1>15. CASE RestartAfterError(i)
  <2>1. recent[i] < MaxRestarts => recent[i] + 1 \in 0..MaxRestarts
    BY RunAssumption DEF RunAssumption
  <2> QED BY <1>15, <2>1 DEF RestartAfterError
<1>16. CASE FinalWrite(i)
  BY <1>16, GateType DEF FinalWrite
<1>17. CASE CaughtWrite(i)
  BY <1>17, GateType DEF CaughtWrite
<1>18. CASE CancelWindow(i)
  BY ZenonT(40), <1>18 DEF CancelWindow
<1>19. CASE GraceWrite(i)
  BY <1>19, GateType DEF GraceWrite
<1>20. CASE Close(i)
  BY <1>0, <1>20 DEF Close
<1> QED
  BY <1>1, <1>2, <1>3, <1>4, <1>5, <1>6, <1>7, <1>8, <1>9, <1>10, <1>11, <1>12, <1>13,
     <1>14, <1>15, <1>16, <1>17, <1>18, <1>19, <1>20 DEF Incarnation

\* Types are preserved by the engine and the clock.
LEMMA TypeEnvironment ==
    ASSUME TypeOK, NEW i \in Inc, Environment(i)
    PROVE  TypeOK'
<1> USE DEF TypeOK, record, process, flags, engine, aborts, resurrect, channels
<1>1. CASE ContainerExits(i)
  BY <1>1, TypeExit DEF ContainerExits
<1>2. CASE StopLands(i)
  <2>1. CASE cont[i] = "up"
    BY <1>2, <2>1, TypeExit DEF StopLands
  <2>2. CASE cont[i] # "up"
    BY <1>2, <2>2 DEF StopLands
  <2> QED BY <2>1, <2>2
<1>3. CASE TimeoutFires(i)
  BY <1>3 DEF TimeoutFires
<1>4. CASE RestartAges(i)
  <2>1. recent[i] > 0 => recent[i] - 1 \in 0..MaxRestarts
    BY RunAssumption DEF RunAssumption
  <2> QED BY <1>4, <2>1 DEF RestartAges
<1> QED
  BY <1>1, <1>2, <1>3, <1>4 DEF Environment

\* Types are preserved by aborts and by the graceful-abort window.
LEMMA TypeAborts ==
    ASSUME TypeOK, NEW a \in Stoppers, NEW g \in BOOLEAN,
           AbortRun(a, g) \/ WindowExpires \/ Stopper(a)
    PROVE  TypeOK'
<1> USE Ranges, StatusNames, GateType
    DEF TypeOK, WriteStatus, record, process, flags, engine, aborts, resurrect, channels
<1>1. ASSUME NEW b \in Stoppers, SendKill(b)
      PROVE  /\ apc' \in [Stoppers -> {"idle", "kill", "answer", "queued"}]
             /\ target' \in [Stoppers -> 0..MaxIncarnations]
  BY <1>1 DEF SendKill
<1>2. CASE AbortRun(a, g)
  BY ZenonT(40), <1>1, <1>2 DEF AbortRun
<1>3. CASE WindowExpires
  BY <1>1, <1>3 DEF WindowExpires
<1>4. CASE KillLands(a)
  <2>1. CASE target[a] \in Inc /\ cont[target[a]] = "up"
    BY <1>4, <2>1, TypeExit DEF KillLands
  <2>2. CASE ~(target[a] \in Inc /\ cont[target[a]] = "up")
    BY <1>4, <2>2 DEF KillLands
  <2> QED BY <2>1, <2>2
<1>5. CASE AbortedWrite(a)
  BY <1>5 DEF AbortedWrite
<1> QED
  BY <1>2, <1>3, <1>4, <1>5 DEF Stopper

\* Types are preserved by migrations, reboots and the standby finish.
LEMMA TypeStops ==
    ASSUME TypeOK, MigrateRun \/ StopForMigration \/ RebootRun \/ StandbyFinish \/ StandbyStop
    PROVE  TypeOK'
<1> USE DEF TypeOK, record, process, flags, engine, aborts, resurrect, channels
<1>1. SendStop => stopping' \subseteq Inc
  BY DEF SendStop, Inc
<1>2. CASE MigrateRun
  BY <1>2 DEF MigrateRun
<1>3. CASE StopForMigration
  BY ZenonT(40), <1>1, <1>3 DEF StopForMigration
<1>4. CASE RebootRun
  BY ZenonT(40), <1>1, <1>4 DEF RebootRun
<1>5. CASE StandbyFinish
  BY <1>5 DEF StandbyFinish
<1>6. CASE StandbyStop
  BY <1>1, <1>6 DEF StandbyStop
<1> QED
  BY <1>2, <1>3, <1>4, <1>5, <1>6

\* Types are preserved by resurrections and the delete request.
LEMMA TypeResurrect ==
    ASSUME TypeOK,
           (\E r \in Resurrectors : Resurrection(r)) \/ DeleteChecks \/ DeleteRun
    PROVE  TypeOK'
<1> USE Ranges, StateNames, StatusNames
    DEF TypeOK, Goto, record, process, flags, engine, aborts, resurrect, channels
<1>1. ASSUME NEW r \in Resurrectors, ResurrectSees(r) PROVE TypeOK'
  BY <1>1 DEF ResurrectSees, isTerminalJobStatus
<1>2. ASSUME NEW r \in Resurrectors, ResurrectAwaits(r) PROVE TypeOK'
  BY <1>2 DEF ResurrectAwaits
<1>3. ASSUME NEW r \in Resurrectors, ResurrectRun(r) PROVE TypeOK'
  <2>1. CASE status = seen[r] /\ n < MaxIncarnations
    <3>1. n + 1 \in Inc
      BY <2>1, RunAssumption DEF RunAssumption, Inc
    <3> QED BY ZenonT(40), <1>3, <2>1, <3>1 DEF ResurrectRun
  <2>2. CASE ~(status = seen[r] /\ n < MaxIncarnations)
    BY <1>3, <2>2 DEF ResurrectRun
  <2> QED BY <2>1, <2>2
<1>4. CASE DeleteChecks
  BY <1>4 DEF DeleteChecks
<1>5. CASE DeleteRun
  BY <1>5 DEF DeleteRun
<1> QED
  BY <1>1, <1>2, <1>3, <1>4, <1>5 DEF Resurrection

\* Types are preserved by a crash and by the reconciliation after it.
LEMMA TypeCrash ==
    ASSUME TypeOK, Crash \/ ReconcileOrphans \/ ReconcileOrphanedJobs
    PROVE  TypeOK'
<1> USE Ranges, StateNames, StatusNames
    DEF TypeOK, WriteStatus, record, process, flags, engine, aborts, resurrect, channels
<1>1. CASE Crash
  <2>1. crashes' \in 0..MaxCrashes
    BY <1>1, RunAssumption DEF RunAssumption, Crash
  <2>2. /\ pc' \in [Inc -> IncarnationStates]
        /\ recent' \in [Inc -> 0..MaxRestarts]
    BY <1>1 DEF Crash
  <2>3. /\ apc' \in [Stoppers -> {"idle", "kill", "answer", "queued"}]
        /\ target' \in [Stoppers -> 0..MaxIncarnations]
    BY <1>1 DEF Crash
  <2>4. /\ rpc' \in [Resurrectors -> {"idle", "seen", "await"}]
        /\ seen' \in [Resurrectors -> JobStatuses]
        /\ awaited' \in [Resurrectors -> 0..MaxIncarnations]
    BY <1>1 DEF Crash
  <2> QED BY <1>1, <2>1, <2>2, <2>3, <2>4 DEF Crash
<1>2. CASE ReconcileOrphans
  BY <1>2 DEF ReconcileOrphans
<1>3. CASE ReconcileOrphanedJobs
  BY SMTT(30), <1>3, GateType DEF ReconcileOrphanedJobs
<1> QED
  BY <1>1, <1>2, <1>3

\* Type correctness is preserved by every step.
LEMMA TypeStep == TypeOK /\ [Next]_vars => TypeOK'
<1> SUFFICES ASSUME TypeOK, [Next]_vars PROVE TypeOK'
  OBVIOUS
<1>1. CASE \E i \in Inc : Incarnation(i) \/ Environment(i)
  BY <1>1, TypeIncarnation, TypeEnvironment
<1>2. CASE \E a \in Aborters, g \in Graceful : AbortRun(a, g)
  <2>1. PICK a \in Stoppers, g \in BOOLEAN : AbortRun(a, g)
    BY <1>2, Ranges, RunAssumption DEF RunAssumption
  <2> QED BY <2>1, TypeAborts
<1>3. CASE \E a \in Stoppers : Stopper(a)
  BY <1>3, TypeAborts
<1>4. CASE WindowExpires
  BY <1>4, TypeAborts, Ranges
<1>5. CASE MigrateRun \/ StopForMigration \/ RebootRun \/ StandbyFinish \/ StandbyStop
  BY <1>5, TypeStops
<1>6. CASE (\E r \in Resurrectors : Resurrection(r)) \/ DeleteChecks \/ DeleteRun
  BY <1>6, TypeResurrect
<1>7. CASE Crash \/ ReconcileOrphans \/ ReconcileOrphanedJobs
  BY <1>7, TypeCrash
<1>8. CASE UNCHANGED vars
  BY <1>8 DEF TypeOK, vars, record, process, flags, engine, aborts, resurrect, channels
<1> QED
  BY <1>1, <1>2, <1>3, <1>4, <1>5, <1>6, <1>7, <1>8 DEF Next

\* Every variable of the run's life keeps its kind, whatever interleaving, for every number of
\* requests, incarnations, restarts and crashes.
THEOREM TypeCorrect == Spec => []TypeOK
  BY TypeInit, TypeStep, PTL DEF Spec

-----------------------------------------------------------------------------
(* RunHasDriver: no record is stuck READY or RUNNING.                      *)

\* What the gate can and cannot make of a status.
LEMMA GateFacts ==
    /\ \A s, next : next \in JobStatuses /\ transitionJobStatus(s, next) = "READY"
                      => s = "READY" \/ next = "READY"
    /\ \A s, next : next \in TERMINAL_JOB_STATUSES => transitionJobStatus(s, next) # "RUNNING"
    /\ \A s : transitionJobStatus(s, "RUNNING") # "READY"
    /\ \A s : transitionJobStatus(s, "ABORTED") \notin {"READY", "RUNNING", "ABORTING"}
    /\ \A s : transitionJobStatus(s, "ABORTING") \notin {"READY", "RUNNING"}
    /\ \A s, next : next \in TERMINAL_JOB_STATUSES /\ s # "ABORTING"
                      => transitionJobStatus(s, next) # "ABORTING"
    /\ \A s : s # "ABORTING" => transitionJobStatus(s, "RUNNING") # "ABORTING"
  BY DEF transitionJobStatus, ALLOWED_NEXT, TERMINAL_JOB_STATUSES, JobStatuses

\* A step of incarnation i keeps the invariant when it leaves READY records alone, and either
\* stays at work itself or finds or makes the record not RUNNING.
LEMMA DriverKept ==
    ASSUME TypeOK, RunHasDriver, NEW i \in Inc, NEW s \in IncarnationStates,
           pc' = [pc EXCEPT ![i] = s], phase' = phase,
           status' = "READY" => status = "READY" /\ pc[i] # "launched",
           status' = "RUNNING" => s \in Working \/ (status = "RUNNING" /\ pc[i] \notin Working)
    PROVE  RunHasDriver'
<1> SUFFICES ASSUME phase' = "up"
             PROVE  /\ status' = "READY" => \E j \in Inc : pc'[j] = "launched"
                    /\ status' = "RUNNING" => \E j \in Inc : pc'[j] \in Working
  BY DEF RunHasDriver
<1>1. ASSUME NEW j \in Inc, j # i PROVE pc'[j] = pc[j]
  BY <1>1 DEF TypeOK
<1>2. pc'[i] = s
  BY DEF TypeOK
<1>3. status' = "READY" => \E j \in Inc : pc'[j] = "launched"
  BY <1>1 DEF RunHasDriver
<1>4. status' = "RUNNING" => \E j \in Inc : pc'[j] \in Working
  BY <1>1, <1>2 DEF RunHasDriver
<1> QED BY <1>3, <1>4

\* Every step of an incarnation keeps a driver, if the first write throws nothing.
LEMMA DriverIncarnation ==
    ASSUME TypeOK, RunHasDriver, "launched" \notin EscapePoints, NEW i \in Inc, Incarnation(i)
    PROVE  RunHasDriver'
<1> USE StateNames, StatusNames, GateFacts, DriverKept
    DEF Goto, WriteStatus, record, process, Working
<1>1. CASE BecomeRunning(i)
  BY <1>1 DEF BecomeRunning
<1>2. CASE FailBeforeContainer(i)
  BY <1>2 DEF FailBeforeContainer
<1>3. CASE FailWrite(i)
  BY <1>3 DEF FailWrite
<1>4. CASE Escape(i)
  BY <1>4, RunAssumption DEF RunAssumption, Escape
<1>5. CASE EscapedWrite(i)
  BY <1>5 DEF EscapedWrite
<1>6. CASE StartViewer(i) \/ Prepared(i)
  BY <1>6 DEF StartViewer, Prepared
<1>7. CASE PreStartCheck(i)
  BY <1>7 DEF PreStartCheck
<1>8. CASE AbortWrite(i)
  BY <1>8 DEF AbortWrite
<1>9. CASE CreateContainer(i)
  BY <1>9 DEF CreateContainer
<1>10. CASE StartFails(i)
  BY <1>10 DEF StartFails
<1>11. CASE StartContainer(i)
  BY <1>11 DEF StartContainer
<1>12. CASE WaitResolves(i)
  BY <1>12 DEF WaitResolves
<1>13. CASE StartRunReturns(i)
  BY <1>13 DEF StartRunReturns, JudgeExit
<1>14. CASE RestartCheck(i)
  <2>1. CASE status = "RUNNING"
    BY <1>14, <2>1 DEF RestartCheck
  <2>2. CASE status # "RUNNING"
    BY <1>14, <2>2 DEF RestartCheck, JudgeExit
  <2> QED BY <2>1, <2>2
<1>15. CASE RestartAfterError(i)
  BY <1>15 DEF RestartAfterError
<1>16. CASE FinalWrite(i)
  <2>1. finalStatus(outcome[i]) \in TERMINAL_JOB_STATUSES /\ "READY" \notin TERMINAL_JOB_STATUSES
    BY DEF TERMINAL_JOB_STATUSES
  <2>2. (status' = "READY" => status = "READY") /\ status' # "RUNNING"
    BY <1>16, <2>1 DEF FinalWrite
  <2> QED BY <1>16, <2>2 DEF FinalWrite
<1>17. CASE CaughtWrite(i)
  BY <1>17 DEF CaughtWrite
<1>18. CASE CancelWindow(i)
  BY <1>18 DEF CancelWindow
<1>19. CASE GraceWrite(i)
  BY <1>19 DEF GraceWrite
<1>20. CASE Close(i)
  BY <1>20 DEF Close
<1> QED
  BY <1>1, <1>2, <1>3, <1>4, <1>5, <1>6, <1>7, <1>8, <1>9, <1>10, <1>11, <1>12, <1>13,
     <1>14, <1>15, <1>16, <1>17, <1>18, <1>19, <1>20 DEF Incarnation

\* The steps of everybody else: none takes the work from an incarnation.
LEMMA DriverOthers ==
    ASSUME TypeOK, RunHasDriver,
           \/ \E i \in Inc : Environment(i)
           \/ \E a \in Stoppers, g \in BOOLEAN : AbortRun(a, g)
           \/ \E a \in Stoppers : Stopper(a)
           \/ WindowExpires
           \/ MigrateRun \/ StopForMigration \/ RebootRun \/ StandbyFinish \/ StandbyStop
           \/ \E r \in Resurrectors : Resurrection(r)
           \/ DeleteChecks \/ DeleteRun
           \/ Crash \/ ReconcileOrphans \/ ReconcileOrphanedJobs
    PROVE  RunHasDriver'
<1> USE DEF record, process
<1>1. ASSUME pc' = pc, phase' = phase, status' \in {"READY", "RUNNING"} => status' = status
      PROVE  RunHasDriver'
  BY <1>1 DEF RunHasDriver
<1>2. CASE \E i \in Inc : Environment(i)
  BY <1>1, <1>2 DEF Environment, ContainerExits, StopLands, TimeoutFires, RestartAges
<1>3. CASE \E a \in Stoppers, g \in BOOLEAN : AbortRun(a, g)
  BY <1>1, <1>3, GateFacts DEF AbortRun, WriteStatus
<1>4. CASE \E a \in Stoppers : Stopper(a)
  BY <1>1, <1>4, GateFacts DEF Stopper, KillLands, AbortedWrite, WriteStatus
<1>5. CASE WindowExpires
  BY <1>1, <1>5 DEF WindowExpires
<1>6. CASE MigrateRun \/ StopForMigration \/ RebootRun \/ StandbyFinish \/ StandbyStop
  BY <1>1, <1>6 DEF MigrateRun, StopForMigration, RebootRun, StandbyFinish, StandbyStop
<1>7. ASSUME NEW r \in Resurrectors, ResurrectSees(r) \/ ResurrectAwaits(r)
      PROVE  RunHasDriver'
  BY <1>1, <1>7 DEF ResurrectSees, ResurrectAwaits
<1>8. ASSUME NEW r \in Resurrectors, ResurrectRun(r) PROVE RunHasDriver'
  <2>1. CASE status = seen[r] /\ n < MaxIncarnations
    <3>1. n + 1 \in Inc
      BY <2>1, RunAssumption DEF RunAssumption, Inc, TypeOK
    <3>2. status' = "READY" /\ pc'[n + 1] = "launched"
      BY <1>8, <2>1, <3>1 DEF ResurrectRun, Goto, TypeOK
    <3> QED BY <3>1, <3>2 DEF RunHasDriver
  <2>2. CASE ~(status = seen[r] /\ n < MaxIncarnations)
    BY <1>1, <1>8, <2>2 DEF ResurrectRun
  <2> QED BY <2>1, <2>2
<1>9. CASE DeleteChecks \/ DeleteRun
  BY <1>1, <1>9 DEF DeleteChecks, DeleteRun, Gone
<1>10. CASE Crash \/ ReconcileOrphans
  BY <1>10 DEF Crash, ReconcileOrphans, RunHasDriver
<1>11. CASE ReconcileOrphanedJobs
  BY <1>11, GateFacts DEF ReconcileOrphanedJobs, WriteStatus, RunHasDriver
<1> QED
  BY <1>2, <1>3, <1>4, <1>5, <1>6, <1>7, <1>8, <1>9, <1>10, <1>11 DEF Resurrection

\* No run is ever left READY or RUNNING with nobody to carry it on, whatever aborts, restarts,
\* resurrections, deletes and crashes interleave, as long as the very first registry write of an
\* incarnation does not throw (the gate then refuses the catch's FAILED write: v_stuck_ready).
THEOREM RunNeverStuck ==
    ASSUME "launched" \notin EscapePoints
    PROVE  Spec => []RunHasDriver
<1>1. Init => RunHasDriver
  BY Ranges DEF Init, RunHasDriver
<1>2. TypeOK /\ RunHasDriver /\ [Next]_vars => RunHasDriver'
  <2> SUFFICES ASSUME TypeOK, RunHasDriver, [Next]_vars PROVE RunHasDriver'
    OBVIOUS
  <2>1. CASE \E i \in Inc : Incarnation(i)
    BY <2>1, DriverIncarnation
  <2>2. CASE \E a \in Aborters, g \in Graceful : AbortRun(a, g)
    <3>1. \E a \in Stoppers, g \in BOOLEAN : AbortRun(a, g)
      BY <2>2, Ranges, RunAssumption DEF RunAssumption
    <3> QED BY <3>1, DriverOthers
  <2>3. CASE UNCHANGED vars
    BY <2>3 DEF RunHasDriver, vars, record, process
  <2> QED
    BY <2>1, <2>2, <2>3, DriverOthers DEF Next
<1> QED
  BY <1>1, <1>2, TypeCorrect, PTL DEF Spec

-----------------------------------------------------------------------------
(* AbortHasOwner: an ABORTING run is never left without a finaliser.       *)

\* A step of incarnation i keeps an owner when it is not the owner itself, touches neither the
\* window nor an abort, and makes no record ABORTING.
LEMMA OwnerKept ==
    ASSUME TypeOK, AbortHasOwner, NEW i \in Inc, NEW s \in IncarnationStates,
           pc' = [pc EXCEPT ![i] = s], phase' = phase, graceTimer' = graceTimer, apc' = apc,
           status' = "ABORTING" =>
               status = "ABORTING" /\ pc[i] \notin {"abortWrite", "graceWrite"}
    PROVE  AbortHasOwner'
<1>1. ASSUME NEW j \in Inc, j # i PROVE pc'[j] = pc[j]
  BY <1>1 DEF TypeOK
<1> QED BY <1>1 DEF AbortHasOwner

\* Every step of an incarnation keeps an owner, or becomes it.
LEMMA OwnerIncarnation ==
    ASSUME TypeOK, AbortHasOwner, NEW i \in Inc, Incarnation(i)
    PROVE  AbortHasOwner'
<1> USE StateNames, StatusNames, GateFacts, OwnerKept
    DEF Goto, WriteStatus, record, process, aborts
<1>1. CASE BecomeRunning(i)
  <2>1. CASE status' = "ABORTING"
    <3>1. pc'[i] = "abortWrite"
      BY <1>1, <2>1 DEF BecomeRunning, TypeOK
    <3> QED BY <3>1 DEF AbortHasOwner
  <2>2. CASE status' # "ABORTING"
    BY <2>2 DEF AbortHasOwner
  <2> QED BY <2>1, <2>2
<1>2. CASE FailBeforeContainer(i)
  BY <1>2 DEF FailBeforeContainer
<1>3. CASE FailWrite(i)
  BY <1>3 DEF FailWrite
<1>4. CASE Escape(i)
  BY <1>4, RunAssumption DEF RunAssumption, Escape
<1>5. CASE EscapedWrite(i)
  BY <1>5 DEF EscapedWrite
<1>6. CASE StartViewer(i) \/ Prepared(i)
  BY <1>6 DEF StartViewer, Prepared
<1>7. CASE PreStartCheck(i)
  <2>1. CASE status = "ABORTING"
    <3>1. pc'[i] = "abortWrite"
      BY <1>7, <2>1 DEF PreStartCheck, TypeOK
    <3> QED BY <3>1 DEF AbortHasOwner
  <2>2. CASE status # "ABORTING"
    BY <1>7, <2>2 DEF PreStartCheck, AbortHasOwner
  <2> QED BY <2>1, <2>2
<1>8. CASE AbortWrite(i)
  BY <1>8 DEF AbortWrite
<1>9. CASE CreateContainer(i)
  BY <1>9 DEF CreateContainer
<1>10. CASE StartFails(i)
  BY <1>10 DEF StartFails, RemoveContainer
<1>11. CASE StartContainer(i)
  BY <1>11 DEF StartContainer
<1>12. CASE WaitResolves(i)
  BY <1>12 DEF WaitResolves
<1>13. CASE StartRunReturns(i)
  <2>1. CASE restart
    BY <1>13, <2>1 DEF StartRunReturns, RemoveContainer
  <2>2. CASE ~restart
    BY <1>13, <2>2 DEF StartRunReturns, RemoveContainer, JudgeExit
  <2> QED BY <2>1, <2>2
<1>14. CASE RestartCheck(i)
  <2>1. CASE status = "RUNNING"
    BY <1>14, <2>1 DEF RestartCheck
  <2>2. CASE status # "RUNNING"
    BY <1>14, <2>2 DEF RestartCheck, JudgeExit
  <2> QED BY <2>1, <2>2
<1>15. CASE RestartAfterError(i)
  BY <1>15 DEF RestartAfterError
<1>16. CASE FinalWrite(i)
  BY <1>16 DEF FinalWrite
<1>17. CASE CaughtWrite(i)
  BY <1>17 DEF CaughtWrite
<1>18. CASE CancelWindow(i)
  <2>1. CASE graceTimer
    <3>1. pc'[i] = "graceWrite"
      BY <1>18, <2>1 DEF CancelWindow, TypeOK
    <3> QED BY <3>1 DEF AbortHasOwner
  <2>2. CASE ~graceTimer
    BY <1>18, <2>2 DEF CancelWindow, TypeOK
  <2> QED BY <2>1, <2>2
<1>19. CASE GraceWrite(i)
  BY <1>19 DEF GraceWrite
<1>20. CASE Close(i)
  BY <1>20 DEF Close
<1> QED
  BY <1>1, <1>2, <1>3, <1>4, <1>5, <1>6, <1>7, <1>8, <1>9, <1>10, <1>11, <1>12, <1>13,
     <1>14, <1>15, <1>16, <1>17, <1>18, <1>19, <1>20 DEF Incarnation

\* The steps of everybody else keep an owner: an abort that cancels a window takes it over.
LEMMA OwnerOthers ==
    ASSUME TypeOK, AbortHasOwner,
           \/ \E i \in Inc : Environment(i)
           \/ \E a \in Stoppers, g \in BOOLEAN : AbortRun(a, g)
           \/ \E a \in Stoppers : Stopper(a)
           \/ WindowExpires
           \/ MigrateRun \/ StopForMigration \/ RebootRun \/ StandbyFinish \/ StandbyStop
           \/ \E r \in Resurrectors : Resurrection(r)
           \/ DeleteChecks \/ DeleteRun
           \/ Crash \/ ReconcileOrphans \/ ReconcileOrphanedJobs
    PROVE  AbortHasOwner'
<1> USE DEF record, process, aborts
<1>1. ASSUME pc' = pc, phase' = phase, graceTimer' = graceTimer, apc' = apc,
             status' = "ABORTING" => status = "ABORTING"
      PROVE  AbortHasOwner'
  BY <1>1 DEF AbortHasOwner
<1>2. CASE \E i \in Inc : Environment(i)
  BY <1>1, <1>2 DEF Environment, ContainerExits, StopLands, TimeoutFires, RestartAges
<1>3. ASSUME NEW b \in Stoppers, SendKill(b) PROVE AbortHasOwner'
  <2>1. apc'[b] # "idle"
    BY <1>3 DEF SendKill, TypeOK
  <2> QED BY <2>1 DEF AbortHasOwner
<1>4. ASSUME NEW a \in Stoppers, NEW g \in BOOLEAN, AbortRun(a, g) PROVE AbortHasOwner'
  <2>1. CASE status = "ABORTING" /\ g /\ UNCHANGED <<graceTimer, aborts>>
    BY <1>1, <1>4, <2>1 DEF AbortRun
  <2>2. CASE graceTimer' = TRUE
    BY <2>2 DEF AbortHasOwner
  <2>3. CASE SendKill(a)
    BY <1>3, <2>3
  <2> QED BY <1>4, <2>1, <2>2, <2>3 DEF AbortRun
<1>5. ASSUME NEW a \in Stoppers, KillLands(a) PROVE AbortHasOwner'
  <2>1. apc'[a] # "idle"
    BY <1>5 DEF KillLands, TypeOK
  <2> QED BY <2>1 DEF AbortHasOwner
<1>6. ASSUME NEW a \in Stoppers, AbortedWrite(a) PROVE AbortHasOwner'
  BY <1>6, GateFacts DEF AbortedWrite, WriteStatus, AbortHasOwner
<1>7. CASE WindowExpires
  BY <1>3, <1>7, Ranges DEF WindowExpires
<1>8. CASE MigrateRun \/ StopForMigration \/ RebootRun \/ StandbyFinish \/ StandbyStop
  BY <1>1, <1>8 DEF MigrateRun, StopForMigration, RebootRun, StandbyFinish, StandbyStop
<1>9. ASSUME NEW r \in Resurrectors, ResurrectSees(r) \/ ResurrectAwaits(r)
      PROVE  AbortHasOwner'
  BY <1>1, <1>9 DEF ResurrectSees, ResurrectAwaits
<1>10. ASSUME NEW r \in Resurrectors, ResurrectRun(r) PROVE AbortHasOwner'
  <2>1. CASE status = seen[r] /\ n < MaxIncarnations
    BY <1>10, <2>1 DEF ResurrectRun, AbortHasOwner
  <2>2. CASE ~(status = seen[r] /\ n < MaxIncarnations)
    BY <1>1, <1>10, <2>2 DEF ResurrectRun
  <2> QED BY <2>1, <2>2
<1>11. CASE DeleteChecks \/ DeleteRun
  BY <1>1, <1>11 DEF DeleteChecks, DeleteRun, Gone
<1>12. CASE Crash \/ ReconcileOrphans
  BY <1>12 DEF Crash, ReconcileOrphans, AbortHasOwner
<1>13. CASE ReconcileOrphanedJobs
  BY <1>13, GateFacts DEF ReconcileOrphanedJobs, WriteStatus, AbortHasOwner
<1> QED
  BY <1>2, <1>4, <1>5, <1>6, <1>7, <1>8, <1>9, <1>10, <1>11, <1>12, <1>13
     DEF Resurrection, Stopper

\* An abort is never dropped: whatever windows, escalations, exits and restarts race, an ABORTING
\* run always has somebody whose next steps end in its ABORTED write.
THEOREM AbortNeverDropped == Spec => []AbortHasOwner
<1>1. Init => AbortHasOwner
  BY DEF Init, AbortHasOwner
<1>2. TypeOK /\ AbortHasOwner /\ [Next]_vars => AbortHasOwner'
  <2> SUFFICES ASSUME TypeOK, AbortHasOwner, [Next]_vars PROVE AbortHasOwner'
    OBVIOUS
  <2>1. CASE \E i \in Inc : Incarnation(i)
    BY <2>1, OwnerIncarnation
  <2>2. CASE \E a \in Aborters, g \in Graceful : AbortRun(a, g)
    <3>1. \E a \in Stoppers, g \in BOOLEAN : AbortRun(a, g)
      BY <2>2, Ranges, RunAssumption DEF RunAssumption
    <3> QED BY <3>1, OwnerOthers
  <2>3. CASE UNCHANGED vars
    BY <2>3 DEF AbortHasOwner, vars, record, process, aborts
  <2> QED
    BY <2>1, <2>2, <2>3, OwnerOthers DEF Next
<1> QED
  BY <1>1, <1>2, TypeCorrect, PTL DEF Spec

-----------------------------------------------------------------------------
(* What a step may do to the incarnations.                                 *)

\* Steps that touch no incarnation.
Aside ==
    \/ \E i \in Inc : Environment(i)
    \/ \E a \in Aborters, g \in Graceful : AbortRun(a, g)
    \/ \E a \in Stoppers : Stopper(a)
    \/ WindowExpires
    \/ MigrateRun \/ StopForMigration \/ RebootRun
    \/ StandbyFinish \/ StandbyStop
    \/ \E r \in Resurrectors : ResurrectSees(r) \/ ResurrectAwaits(r)
    \/ DeleteChecks \/ DeleteRun
    \/ ReconcileOrphans \/ ReconcileOrphanedJobs
    \/ UNCHANGED vars

\* They leave the program counters, the number of incarnations, the channels and the registered
\* container, and the viewer but for the sweep.
LEMMA AsideKeeps ==
    ASSUME Aside
    PROVE  /\ UNCHANGED <<pc, n, closed, reg, crashes>>
           /\ \/ UNCHANGED <<viewer, stray, phase>>
              \/ phase = "down" /\ viewer' = 0
              \/ phase = "swept" /\ UNCHANGED <<viewer, stray>>
<1> USE DEF record, process, engine, channels
<1>1. CASE \E i \in Inc : Environment(i)
  BY <1>1 DEF Environment, ContainerExits, StopLands, TimeoutFires, RestartAges, Exit
<1>2. CASE \E a \in Aborters, g \in Graceful : AbortRun(a, g)
  BY <1>2 DEF AbortRun, WriteStatus
<1>3. CASE \E a \in Stoppers : Stopper(a)
  BY <1>3 DEF Stopper, KillLands, AbortedWrite, WriteStatus
<1>4. CASE WindowExpires
  BY <1>4 DEF WindowExpires
<1>5. CASE MigrateRun \/ StopForMigration \/ RebootRun \/ StandbyFinish \/ StandbyStop
  BY <1>5 DEF MigrateRun, StopForMigration, RebootRun, StandbyFinish, StandbyStop
<1>6. CASE \E r \in Resurrectors : ResurrectSees(r) \/ ResurrectAwaits(r)
  BY <1>6 DEF ResurrectSees, ResurrectAwaits
<1>7. CASE DeleteChecks \/ DeleteRun
  BY <1>7 DEF DeleteChecks, DeleteRun
<1>8. CASE ReconcileOrphans \/ ReconcileOrphanedJobs
  BY <1>8 DEF ReconcileOrphans, ReconcileOrphanedJobs, WriteStatus
<1>9. CASE UNCHANGED vars
  BY <1>9 DEF vars
<1> QED
  BY <1>1, <1>2, <1>3, <1>4, <1>5, <1>6, <1>7, <1>8, <1>9 DEF Aside

\* Every step is of one of four kinds.
LEMMA StepKinds ==
    ASSUME [Next]_vars
    PROVE  \/ \E i \in Inc : Incarnation(i)
           \/ \E r \in Resurrectors : ResurrectRun(r)
           \/ Crash
           \/ Aside
  BY DEF Next, Resurrection, Aside

\* An incarnation moves itself only, and only while its promise has not settled.
LEMMA IncarnationMoves ==
    ASSUME TypeOK, NEW i \in Inc, Incarnation(i)
    PROVE  /\ Live(i) /\ phase = "up"
           /\ \A j \in Inc : j # i => pc'[j] = pc[j]
           /\ UNCHANGED <<n, phase, crashes, resurrect>>
<1>1. UNCHANGED <<n, phase, crashes, resurrect>> /\ Live(i) /\ phase = "up" /\ \E s : Goto(i, s)
  <2> USE DEF record, process, WriteStatus, Live
  <2>1. CASE BecomeRunning(i) \/ FailBeforeContainer(i) \/ FailWrite(i) \/ EscapedWrite(i)
    BY <2>1 DEF BecomeRunning, FailBeforeContainer, FailWrite, EscapedWrite
  <2>2. CASE Escape(i)
    BY <2>2, RunAssumption DEF RunAssumption, Escape
  <2>3. CASE StartViewer(i) \/ Prepared(i) \/ PreStartCheck(i) \/ AbortWrite(i)
           \/ CreateContainer(i) \/ StartFails(i)
    BY <2>3 DEF StartViewer, Prepared, PreStartCheck, AbortWrite, CreateContainer, StartFails
  <2>4. CASE StartContainer(i) \/ WaitResolves(i) \/ StartRunReturns(i) \/ RestartCheck(i)
    BY <2>4 DEF StartContainer, WaitResolves, StartRunReturns, RestartCheck, JudgeExit
  <2>5. CASE RestartAfterError(i) \/ FinalWrite(i) \/ CaughtWrite(i) \/ CancelWindow(i)
    BY <2>5 DEF RestartAfterError, FinalWrite, CaughtWrite, CancelWindow
  <2>6. CASE GraceWrite(i) \/ Close(i)
    BY <2>6 DEF GraceWrite, Close
  <2> QED BY <2>1, <2>2, <2>3, <2>4, <2>5, <2>6 DEF Incarnation
<1> QED BY <1>1 DEF Goto, TypeOK

\* A crash ends every incarnation.
LEMMA CrashSettles ==
    ASSUME TypeOK, Crash
    PROVE  \A i \in Inc : ~Live(i)'
  BY DEF Crash, Live, TypeOK

\* A resurrection either leaves the incarnations alone or launches the next one.
LEMMA ResurrectionLaunches ==
    ASSUME TypeOK, NEW r \in Resurrectors, ResurrectRun(r)
    PROVE  \/ UNCHANGED <<n, pc, closed>>
           \/ /\ n + 1 \in Inc /\ n' = n + 1 /\ pc'[n + 1] = "launched" /\ ~closed'
              /\ \A j \in Inc : j # n + 1 => pc'[j] = pc[j]
<1>1. CASE status = seen[r] /\ n < MaxIncarnations
  <2>1. n + 1 \in Inc
    BY <1>1, RunAssumption DEF RunAssumption, Inc, TypeOK
  <2> QED BY <1>1, <2>1 DEF ResurrectRun, Goto, TypeOK
<1>2. CASE ~(status = seen[r] /\ n < MaxIncarnations)
  BY <1>2 DEF ResurrectRun, record
<1> QED BY <1>1, <1>2

-----------------------------------------------------------------------------
(* OneIncarnation.                                                         *)

\* Only the last incarnation launched may have work left.
OthersSettled == \A i \in Inc : i # n => ~Live(i)

\* It stays so unless a resurrection launches the next incarnation beside a live one.
LEMMA SettledKept ==
    ASSUME TypeOK, OthersSettled, [Next]_vars,
           \A r \in Resurrectors : ResurrectRun(r) /\ n' # n => ~Live(n)
    PROVE  OthersSettled'
<1>1. ASSUME NEW i \in Inc, Incarnation(i) PROVE OthersSettled'
  BY <1>1, IncarnationMoves DEF OthersSettled, Live
<1>2. ASSUME NEW r \in Resurrectors, ResurrectRun(r) PROVE OthersSettled'
  <2>1. CASE UNCHANGED <<n, pc>>
    BY <2>1 DEF OthersSettled, Live
  <2>2. CASE n' = n + 1 /\ n + 1 \in Inc /\ \A j \in Inc : j # n + 1 => pc'[j] = pc[j]
    <3>1. ~Live(n)
      BY <1>2, <2>2 DEF TypeOK, Inc
    <3> QED BY <2>2, <3>1 DEF OthersSettled, Live
  <2> QED BY <1>2, <2>1, <2>2, ResurrectionLaunches
<1>3. CASE Crash
  BY <1>3, CrashSettles DEF OthersSettled
<1>4. CASE Aside
  BY <1>4, AsideKeeps DEF OthersSettled, Live
<1> QED BY <1>1, <1>2, <1>3, <1>4, StepKinds

\* An incarnation launched beside a live one overlaps with it.
LEMMA SettledApart ==
    TypeOK /\ OthersSettled /\ OneIncarnation' /\ [Next]_vars => OthersSettled'
<1> SUFFICES ASSUME TypeOK, OthersSettled, OneIncarnation', [Next]_vars PROVE OthersSettled'
  OBVIOUS
<1>1. ASSUME NEW r \in Resurrectors, ResurrectRun(r), n' # n PROVE ~Live(n)
  <2>1. /\ n + 1 \in Inc /\ pc'[n + 1] = "launched" /\ n \in Inc /\ n # n + 1
        /\ \A j \in Inc : j # n + 1 => pc'[j] = pc[j]
    BY <1>1, ResurrectionLaunches DEF TypeOK, Inc
  <2> QED BY <2>1 DEF OneIncarnation, Live
<1> QED BY <1>1, SettledKept

LEMMA SettledInit == Init => OthersSettled
  BY DEF Init, OthersSettled, Live

\* A resurrection that waits waits for the last incarnation, or that one is over.
AwaitsLast == \A r \in Resurrectors : rpc[r] = "await" => awaited[r] = n \/ ~Live(n)

\* With one resurrection at a time that stays so.
LEMMA AwaitsKept ==
    ASSUME TypeOK, OthersSettled, AwaitsLast, [Next]_vars,
           \A q, r \in Resurrectors : q = r
    PROVE  AwaitsLast'
<1>1. ASSUME NEW i \in Inc, Incarnation(i) PROVE AwaitsLast'
  <2>1. i = n
    BY <1>1, IncarnationMoves DEF OthersSettled
  <2> QED BY <1>1, <2>1, IncarnationMoves DEF AwaitsLast, resurrect
<1>2. ASSUME NEW r \in Resurrectors, ResurrectRun(r) PROVE AwaitsLast'
  <2>1. rpc'[r] = "idle"
    BY <1>2 DEF ResurrectRun, TypeOK
  <2> QED BY <2>1 DEF AwaitsLast
<1>3. CASE Crash
  BY <1>3 DEF Crash, AwaitsLast
<1>4. CASE Aside
  <2>1. CASE UNCHANGED <<rpc, awaited>>
    BY <1>4, <2>1, AsideKeeps DEF AwaitsLast, Live
  <2>2. ASSUME NEW r \in Resurrectors, ResurrectSees(r) \/ ResurrectAwaits(r) PROVE AwaitsLast'
    <3>1. rpc'[r] = "await" => awaited'[r] = n \/ ~Live(n)
      BY <2>2 DEF ResurrectSees, ResurrectAwaits, TypeOK
    <3>2. UNCHANGED <<pc, n>>
      BY <1>4, AsideKeeps
    <3> QED BY <3>1, <3>2 DEF AwaitsLast, Live
  <2>3. ASSUME ~ \E r \in Resurrectors : ResurrectSees(r) \/ ResurrectAwaits(r)
        PROVE  UNCHANGED <<rpc, awaited>>
    <3> USE DEF resurrect
    <3>1. CASE \E i \in Inc : Environment(i)
      BY <3>1 DEF Environment, ContainerExits, StopLands, TimeoutFires, RestartAges
    <3>2. CASE \/ \E a \in Aborters, g \in Graceful : AbortRun(a, g)
               \/ \E a \in Stoppers : Stopper(a)
               \/ WindowExpires
      BY <3>2 DEF AbortRun, Stopper, KillLands, AbortedWrite, WindowExpires
    <3>3. CASE MigrateRun \/ StopForMigration \/ RebootRun \/ StandbyFinish \/ StandbyStop
      BY <3>3 DEF MigrateRun, StopForMigration, RebootRun, StandbyFinish, StandbyStop
    <3>4. CASE DeleteChecks \/ DeleteRun \/ ReconcileOrphans \/ ReconcileOrphanedJobs
      BY <3>4 DEF DeleteChecks, DeleteRun, ReconcileOrphans, ReconcileOrphanedJobs
    <3>5. CASE UNCHANGED vars
      BY <3>5 DEF vars
    <3> QED BY <1>4, <2>3, <3>1, <3>2, <3>3, <3>4, <3>5 DEF Aside
  <2> QED BY <2>1, <2>2, <2>3
<1> QED BY <1>1, <1>2, <1>3, <1>4, StepKinds

\* Two incarnations of a run never overlap, whatever aborts, restarts, deletes and crashes race,
\* as long as its resurrections come one at a time (two of them and two aborts refute it:
\* v_two_incarnations). The `incarnations` map holds the promise the next one waits for
\* (services/runs.ts, resurrectRun).
THEOREM OneAtATime ==
    ASSUME \A q, r \in Resurrectors : q = r
    PROVE  Spec => []OneIncarnation
<1>1. Init => OthersSettled /\ AwaitsLast
  BY SettledInit DEF Init, AwaitsLast
<1>2. TypeOK /\ OthersSettled /\ AwaitsLast /\ [Next]_vars => OthersSettled' /\ AwaitsLast'
  <2> SUFFICES ASSUME TypeOK, OthersSettled, AwaitsLast, [Next]_vars
               PROVE  OthersSettled' /\ AwaitsLast'
    OBVIOUS
  <2>1. \A r \in Resurrectors : ResurrectRun(r) => ~Live(n)
    BY DEF AwaitsLast, ResurrectRun, AwaitOver, TypeOK
  <2> QED BY <2>1, SettledKept, AwaitsKept
<1>3. OthersSettled => OneIncarnation
  BY DEF OthersSettled, OneIncarnation
<1> QED BY <1>1, <1>2, <1>3, TypeCorrect, PTL DEF Spec

-----------------------------------------------------------------------------
(* LiveRunIsReachable.                                                     *)

\* The states of runInBackground in which its container exists.
Holding == {"created", "waiting", "exited"}

\* A container has an incarnation in these states, and is the registered one.
ContainerIsHeld ==
    crashes = 0 =>
        \A i \in Inc :
            /\ cont[i] # "none" <=> pc[i] \in Holding
            /\ cont[i] # "none" => reg = i

\* An incarnation keeps its own channels open, and its container to itself.
LEMMA ReachIncarnation ==
    ASSUME TypeOK, OthersSettled, ChannelsOpenWhileLive, ContainerIsHeld,
           NEW i \in Inc, Incarnation(i)
    PROVE  ChannelsOpenWhileLive' /\ ContainerIsHeld'
<1>1. Live(i) /\ i = n /\ \A j \in Inc : j # i => ~Live(j) /\ pc'[j] = pc[j]
  BY IncarnationMoves DEF OthersSettled
<1>2. crashes' = crashes
  BY IncarnationMoves
<1>3. crashes = 0 => \A j \in Inc : j # i => cont[j] = "none"
  BY <1>1 DEF ContainerIsHeld, Holding, Live
<1>4. closed' => pc'[i] \in {"failWrite", "settled"}
  <2>0. ~closed \/ pc[i] = "failWrite"
    BY <1>1 DEF ChannelsOpenWhileLive
  <2> USE <2>0 DEF channels, Goto, TypeOK
  <2>1. CASE BecomeRunning(i) \/ FailBeforeContainer(i) \/ FailWrite(i) \/ EscapedWrite(i)
    BY <2>1 DEF BecomeRunning, FailBeforeContainer, FailWrite, EscapedWrite
  <2>2. CASE Escape(i)
    BY <2>2, RunAssumption DEF RunAssumption, Escape
  <2>3. CASE StartViewer(i) \/ Prepared(i) \/ PreStartCheck(i) \/ AbortWrite(i)
           \/ CreateContainer(i) \/ StartFails(i)
    BY <2>3 DEF StartViewer, Prepared, PreStartCheck, AbortWrite, CreateContainer, StartFails
  <2>4. CASE StartContainer(i) \/ WaitResolves(i) \/ StartRunReturns(i) \/ RestartCheck(i)
    BY <2>4 DEF StartContainer, WaitResolves, StartRunReturns, RestartCheck
  <2>5. CASE RestartAfterError(i) \/ FinalWrite(i) \/ CaughtWrite(i) \/ CancelWindow(i)
    BY <2>5 DEF RestartAfterError, FinalWrite, CaughtWrite, CancelWindow
  <2>6. CASE GraceWrite(i) \/ Close(i)
    BY <2>6 DEF GraceWrite, Close
  <2> QED BY <2>1, <2>2, <2>3, <2>4, <2>5, <2>6 DEF Incarnation
<1>5. ChannelsOpenWhileLive'
  BY <1>1, <1>4 DEF ChannelsOpenWhileLive, Live
<1>6. ASSUME crashes = 0
      PROVE  /\ \A j \in Inc : j # i => cont'[j] = cont[j]
             /\ cont'[i] # "none" <=> pc'[i] \in Holding
             /\ cont'[i] # "none" => reg' = i
  <2>0. (cont[i] # "none" <=> pc[i] \in Holding) /\ (cont[i] # "none" => reg = i)
    BY <1>6 DEF ContainerIsHeld
  <2> USE <1>6, <2>0 DEF engine, Goto, TypeOK, Holding
  <2>1. CASE BecomeRunning(i) \/ FailBeforeContainer(i) \/ FailWrite(i) \/ EscapedWrite(i)
    BY <2>1 DEF BecomeRunning, FailBeforeContainer, FailWrite, EscapedWrite
  <2>2. CASE Escape(i)
    BY <2>2, RunAssumption DEF RunAssumption, Escape
  <2>3. CASE StartViewer(i) \/ Prepared(i) \/ PreStartCheck(i) \/ AbortWrite(i) \/ CreateContainer(i)
    BY <2>3 DEF StartViewer, Prepared, PreStartCheck, AbortWrite, CreateContainer
  <2>4. CASE StartFails(i)
    BY <2>4 DEF StartFails, RemoveContainer
  <2>5. CASE StartContainer(i) \/ WaitResolves(i)
    BY <2>5 DEF StartContainer, WaitResolves
  <2>6. CASE StartRunReturns(i)
    <3>1. cont'[i] = "none" /\ \A j \in Inc : j # i => cont'[j] = cont[j]
      BY <2>6 DEF StartRunReturns, RemoveContainer
    <3>2. pc'[i] \in {"restartCheck", "errCheck", "final"}
      BY <2>6 DEF StartRunReturns, JudgeExit
    <3> QED BY <3>1, <3>2
  <2>7. CASE RestartCheck(i) \/ RestartAfterError(i) \/ FinalWrite(i) \/ CaughtWrite(i)
    BY <2>7 DEF RestartCheck, JudgeExit, RestartAfterError, FinalWrite, CaughtWrite
  <2>8. CASE CancelWindow(i) \/ GraceWrite(i) \/ Close(i)
    BY <2>8 DEF CancelWindow, GraceWrite, Close
  <2> QED BY <2>1, <2>2, <2>3, <2>4, <2>5, <2>6, <2>7, <2>8 DEF Incarnation
<1>7. ContainerIsHeld'
  BY <1>1, <1>2, <1>3, <1>6 DEF ContainerIsHeld, Holding, Live
<1> QED BY <1>5, <1>7

\* What others do to containers ends one that is up, or sweeps after a crash.
LEMMA AsideContainers ==
    ASSUME TypeOK, Aside, crashes = 0, phase = "up"
    PROVE  \A i \in Inc : cont[i] = "none" <=> cont'[i] = "none"
<1> USE DEF engine
<1>1. CASE \E i \in Inc : Environment(i)
  BY <1>1 DEF Environment, ContainerExits, StopLands, TimeoutFires, RestartAges, Exit, TypeOK
<1>2. CASE \E a \in Aborters, g \in Graceful : AbortRun(a, g)
  BY <1>2 DEF AbortRun
<1>3. CASE \E a \in Stoppers : Stopper(a)
  BY <1>3 DEF Stopper, KillLands, AbortedWrite, Exit, TypeOK
<1>4. CASE WindowExpires
  BY <1>4 DEF WindowExpires
<1>5. CASE MigrateRun \/ StopForMigration \/ RebootRun \/ StandbyFinish \/ StandbyStop
  BY <1>5 DEF MigrateRun, StopForMigration, RebootRun, StandbyFinish, StandbyStop
<1>6. CASE \E r \in Resurrectors : ResurrectSees(r) \/ ResurrectAwaits(r)
  BY <1>6 DEF ResurrectSees, ResurrectAwaits
<1>7. CASE DeleteChecks \/ DeleteRun
  BY <1>7 DEF DeleteChecks, DeleteRun
<1>8. CASE ReconcileOrphans \/ ReconcileOrphanedJobs
  BY <1>8 DEF ReconcileOrphans, ReconcileOrphanedJobs
<1>9. CASE UNCHANGED vars
  BY <1>9 DEF vars
<1> QED
  BY <1>1, <1>2, <1>3, <1>4, <1>5, <1>6, <1>7, <1>8, <1>9 DEF Aside

\* The process is only down after a crash.
DownAfterCrash == crashes = 0 => phase = "up"

LEMMA ReachStep ==
    ASSUME TypeOK, OthersSettled, OthersSettled', DownAfterCrash,
           ChannelsOpenWhileLive, ContainerIsHeld, [Next]_vars
    PROVE  DownAfterCrash' /\ ChannelsOpenWhileLive' /\ ContainerIsHeld'
<1>1. ASSUME NEW i \in Inc, Incarnation(i)
      PROVE  DownAfterCrash' /\ ChannelsOpenWhileLive' /\ ContainerIsHeld'
  BY <1>1, ReachIncarnation, IncarnationMoves DEF DownAfterCrash
<1>2. ASSUME NEW r \in Resurrectors, ResurrectRun(r)
      PROVE  DownAfterCrash' /\ ChannelsOpenWhileLive' /\ ContainerIsHeld'
  <2>1. UNCHANGED <<crashes, phase, cont, reg>>
    BY <1>2 DEF ResurrectRun, process, engine
  <2>2. CASE UNCHANGED <<n, pc, closed>>
    BY <2>1, <2>2 DEF DownAfterCrash, ChannelsOpenWhileLive, ContainerIsHeld, Live
  <2>3. CASE /\ n + 1 \in Inc /\ n' = n + 1 /\ pc'[n + 1] = "launched" /\ ~closed'
             /\ \A j \in Inc : j # n + 1 => pc'[j] = pc[j]
    <3>1. ~Live(n + 1)
      BY <2>3 DEF OthersSettled, TypeOK, Inc
    <3>2. crashes = 0 => cont[n + 1] = "none"
      BY <2>3, <3>1 DEF ContainerIsHeld, Holding, Live
    <3> QED BY <2>1, <2>3, <3>2 DEF DownAfterCrash, ChannelsOpenWhileLive, ContainerIsHeld, Holding
  <2> QED BY <1>2, <2>2, <2>3, ResurrectionLaunches
<1>3. CASE Crash
  <2>1. crashes' # 0
    BY <1>3, RunAssumption DEF Crash, TypeOK, RunAssumption
  <2> QED BY <1>3, <2>1, CrashSettles DEF DownAfterCrash, ChannelsOpenWhileLive, ContainerIsHeld
<1>4. CASE Aside
  <2>1. DownAfterCrash'
    BY <1>4, AsideKeeps DEF DownAfterCrash
  <2>2. ChannelsOpenWhileLive'
    BY <1>4, AsideKeeps DEF ChannelsOpenWhileLive, Live
  <2>3. ContainerIsHeld'
    BY <1>4, AsideKeeps, AsideContainers DEF DownAfterCrash, ContainerIsHeld
  <2> QED BY <2>1, <2>2, <2>3
<1> QED BY <1>1, <1>2, <1>3, <1>4, StepKinds

\* Initially nothing is closed and no container exists.
LEMMA ReachInit == Init => DownAfterCrash /\ ChannelsOpenWhileLive /\ ContainerIsHeld
  BY DEF Init, DownAfterCrash, ChannelsOpenWhileLive, ContainerIsHeld, Holding

\* While incarnations do not overlap, a run that goes on can be reached, however often it is
\* resurrected, restarted and aborted: nothing of the incarnation before closes its log and events
\* under it, and the container it waits for is the one an abort, a migration and a timeout stop
\* (services/runs.ts, runInBackground; driver/docker-driver.ts, runContainers).
THEOREM LiveRunStaysReachable == Spec /\ []OneIncarnation => []LiveRunIsReachable
<1>1. ChannelsOpenWhileLive /\ ContainerIsHeld => LiveRunIsReachable
  BY DEF LiveRunIsReachable, ContainerIsHeld, StopPathExists
<1> QED BY <1>1, SettledInit, SettledApart, ReachInit, ReachStep, TypeCorrect, PTL DEF Spec

-----------------------------------------------------------------------------
(* ViewerGoneWithRun.                                                      *)

\* No incarnation has done anything before it is launched.
UnbornIdle == \A i \in Inc : i > n => pc[i] = "none"

LEMMA UnbornStep ==
    ASSUME TypeOK, UnbornIdle, [Next]_vars
    PROVE  UnbornIdle'
<1>1. ASSUME NEW i \in Inc, Incarnation(i) PROVE UnbornIdle'
  BY <1>1, IncarnationMoves DEF UnbornIdle, Live
<1>2. ASSUME NEW r \in Resurrectors, ResurrectRun(r) PROVE UnbornIdle'
  <2>1. CASE UNCHANGED <<n, pc>>
    BY <2>1 DEF UnbornIdle
  <2>2. CASE n' = n + 1 /\ \A j \in Inc : j # n + 1 => pc'[j] = pc[j]
    BY <2>2 DEF UnbornIdle, TypeOK, Inc
  <2> QED BY <1>2, <2>1, <2>2, ResurrectionLaunches
<1>3. CASE Crash
  BY <1>3 DEF Crash, record, UnbornIdle
<1>4. CASE Aside
  BY <1>4, AsideKeeps DEF UnbornIdle
<1> QED BY <1>1, <1>2, <1>3, <1>4, StepKinds

\* The states from which runInBackground still comes to stop the viewer it started.
StopsViewer == {"viewed", "check", "starting", "created", "waiting", "exited", "restartCheck",
                "errCheck", "final", "caught", "cleanup", "graceWrite", "close"}

\* After the sweep a viewer belongs to an incarnation that will stop it, or an error took it away.
ViewerHasOwner == phase # "down" /\ viewer # 0 /\ ~stray => pc[viewer] \in StopsViewer

\* An incarnation that moves within these states, or stops its viewer, keeps that so.
LEMMA ViewerKept ==
    ASSUME TypeOK, ViewerHasOwner, NEW i \in Inc, NEW s \in IncarnationStates,
           pc' = [pc EXCEPT ![i] = s], phase' = phase, phase = "up",
           viewer' \in {0, viewer}, viewer' # 0 /\ ~stray' => ~stray,
           viewer' = i /\ ~stray' => s \in StopsViewer \/ pc[i] \notin StopsViewer
    PROVE  ViewerHasOwner'
<1>1. ASSUME NEW j \in Inc, j # i PROVE pc'[j] = pc[j]
  BY <1>1 DEF TypeOK
<1>2. pc'[i] = s
  BY DEF TypeOK
<1>3. viewer # 0 => viewer \in Inc
  BY RunAssumption DEF RunAssumption, TypeOK, Inc
<1> SUFFICES ASSUME viewer' # 0, ~stray' PROVE pc'[viewer'] \in StopsViewer
  BY DEF ViewerHasOwner
<1>4. viewer' = viewer /\ viewer \in Inc /\ pc[viewer] \in StopsViewer
  BY <1>3 DEF ViewerHasOwner
<1> QED BY <1>1, <1>2, <1>4

LEMMA ViewerIncarnation ==
    ASSUME TypeOK, ViewerHasOwner, NEW i \in Inc, Incarnation(i)
    PROVE  ViewerHasOwner'
<1>0. phase = "up" /\ phase' = phase
  BY IncarnationMoves
<1> USE <1>0, StateNames, ViewerKept DEF StopsViewer, channels, Goto, process
<1>1. CASE BecomeRunning(i)
  BY <1>1 DEF BecomeRunning
<1>2. CASE FailBeforeContainer(i) \/ FailWrite(i) \/ EscapedWrite(i)
  BY <1>2 DEF FailBeforeContainer, FailWrite, EscapedWrite, TypeOK
<1>3. CASE Escape(i)
  BY <1>3, RunAssumption DEF RunAssumption, Escape, TypeOK
<1>4. CASE StartViewer(i)
  <2>1. viewer' = i /\ pc'[i] = "viewed"
    BY <1>4 DEF StartViewer, TypeOK
  <2> QED BY <2>1 DEF ViewerHasOwner
<1>5. CASE Prepared(i)
  BY <1>5 DEF Prepared
<1>6. ASSUME StopViewer(i)
      PROVE  viewer' \in {0, viewer} /\ stray' = stray /\ (viewer' = i /\ i # 0 => stray)
  BY <1>6 DEF StopViewer
<1>7. i # 0
  BY DEF Inc
<1>8. CASE PreStartCheck(i)
  <2>1. CASE status = "RUNNING"
    BY <1>8, <2>1 DEF PreStartCheck
  <2>2. CASE status # "RUNNING"
    BY <1>6, <1>7, <1>8, <2>2 DEF PreStartCheck
  <2> QED BY <2>1, <2>2
<1>9. CASE AbortWrite(i) \/ CreateContainer(i) \/ StartFails(i)
  BY <1>9 DEF AbortWrite, CreateContainer, StartFails
<1>10. CASE StartContainer(i) \/ WaitResolves(i)
  BY <1>10 DEF StartContainer, WaitResolves
<1>11. CASE StartRunReturns(i) \/ RestartCheck(i)
  BY <1>11 DEF StartRunReturns, RestartCheck, JudgeExit
<1>12. CASE RestartAfterError(i) \/ FinalWrite(i) \/ CaughtWrite(i)
  BY <1>12 DEF RestartAfterError, FinalWrite, CaughtWrite
<1>13. CASE CancelWindow(i) \/ GraceWrite(i)
  BY <1>13 DEF CancelWindow, GraceWrite
<1>14. CASE Close(i)
  <2>1. pc' = [pc EXCEPT ![i] = "settled"] /\ StopViewer(i)
    BY <1>14 DEF Close
  <2>2. viewer' \in {0, viewer} /\ stray' = stray /\ ~(viewer' = i /\ ~stray')
    BY <1>6, <1>7, <2>1
  <2>3. "settled" \in IncarnationStates
    BY StateNames
  <2> QED BY ONLY TypeOK, ViewerHasOwner, <1>0, <2>1, <2>2, <2>3, ViewerKept
<1> QED
  BY <1>1, <1>2, <1>3, <1>4, <1>5, <1>8, <1>9, <1>10, <1>11, <1>12, <1>13, <1>14 DEF Incarnation

LEMMA ViewerStep ==
    ASSUME TypeOK, UnbornIdle, ViewerHasOwner, [Next]_vars
    PROVE  ViewerHasOwner'
<1>1. ASSUME NEW i \in Inc, Incarnation(i) PROVE ViewerHasOwner'
  BY <1>1, ViewerIncarnation
<1>2. ASSUME NEW r \in Resurrectors, ResurrectRun(r) PROVE ViewerHasOwner'
  <2>1. UNCHANGED <<phase, viewer, stray>>
    BY <1>2 DEF ResurrectRun, process
  <2>2. CASE UNCHANGED <<n, pc>>
    BY <2>1, <2>2 DEF ViewerHasOwner
  <2>3. CASE n + 1 \in Inc /\ \A j \in Inc : j # n + 1 => pc'[j] = pc[j]
    <3>1. pc[n + 1] \notin StopsViewer
      BY <2>3 DEF UnbornIdle, StopsViewer, TypeOK, Inc
    <3>2. viewer # 0 => viewer \in Inc
      BY RunAssumption DEF RunAssumption, TypeOK, Inc
    <3> QED BY <2>1, <2>3, <3>1, <3>2 DEF ViewerHasOwner
  <2> QED BY <1>2, <2>2, <2>3, ResurrectionLaunches
<1>3. CASE Crash
  BY <1>3 DEF Crash, ViewerHasOwner
<1>4. CASE Aside
  BY <1>4, AsideKeeps DEF ViewerHasOwner
<1> QED BY <1>1, <1>2, <1>3, <1>4, StepKinds

\* The browser-view sidecar of a run goes with the incarnation that started it, through aborts,
\* restarts, resurrections and incarnations that overlap, and after a crash with the sweep, wherever
\* a storage access throws; excepted is a sidecar whose stop an error took away, which is what a
\* throw between its start and the try block or at the head of the finally block does
\* (services/runs.ts:781, :791, :906).
THEOREM ViewerNeverLeft == Spec => []ViewerGoneWithRun
<1>1. Init => ViewerHasOwner /\ UnbornIdle
  BY DEF Init, ViewerHasOwner, UnbornIdle, Inc
<1>2. TypeOK /\ ViewerHasOwner /\ UnbornIdle /\ [Next]_vars => ViewerHasOwner' /\ UnbornIdle'
  BY ViewerStep, UnbornStep
<1>3. ViewerHasOwner => ViewerGoneWithRun
  BY DEF ViewerHasOwner, ViewerGoneWithRun, StopsViewer, Live
<1> QED BY <1>1, <1>2, <1>3, TypeCorrect, PTL DEF Spec

-----------------------------------------------------------------------------
(* NeverDeletesRunning.                                                    *)

\* Between the check of a delete and the delete the record is not RUNNING: only BecomeRunning makes
\* it so, and its write is behind the delete in the mutex.
DeletesEnded == deleting => status # "RUNNING"

LEMMA DeleteStep ==
    ASSUME TypeOK, DeletesEnded, [Next]_vars
    PROVE  DeletesEnded'
<1>1. ASSUME deleting' = deleting, status' = "RUNNING" => status = "RUNNING" PROVE DeletesEnded'
  BY <1>1 DEF DeletesEnded
<1> USE GateFacts, StatusNames DEF record, WriteStatus
<1>2. ASSUME NEW i \in Inc, Incarnation(i) PROVE DeletesEnded'
  <2>1. CASE BecomeRunning(i)
    <3>1. ~deleting'
      BY <2>1 DEF BecomeRunning, QueuedAhead, TypeOK
    <3> QED BY <3>1 DEF DeletesEnded
  <2>2. CASE FailBeforeContainer(i) \/ FailWrite(i) \/ EscapedWrite(i) \/ Escape(i)
    BY <1>1, <2>2 DEF FailBeforeContainer, FailWrite, EscapedWrite, Escape
  <2>3. CASE StartViewer(i) \/ Prepared(i) \/ PreStartCheck(i) \/ AbortWrite(i)
           \/ CreateContainer(i) \/ StartFails(i)
    BY <1>1, <2>3 DEF StartViewer, Prepared, PreStartCheck, AbortWrite, CreateContainer, StartFails
  <2>4. CASE StartContainer(i) \/ WaitResolves(i) \/ StartRunReturns(i) \/ RestartCheck(i)
    BY <1>1, <2>4 DEF StartContainer, WaitResolves, StartRunReturns, RestartCheck
  <2>5. CASE RestartAfterError(i) \/ FinalWrite(i) \/ CaughtWrite(i) \/ CancelWindow(i)
    BY <1>1, <2>5 DEF RestartAfterError, FinalWrite, CaughtWrite, CancelWindow
  <2>6. CASE GraceWrite(i) \/ Close(i)
    BY <1>1, <2>6 DEF GraceWrite, Close
  <2> QED BY <1>2, <2>1, <2>2, <2>3, <2>4, <2>5, <2>6 DEF Incarnation
<1>3. CASE \E i \in Inc : Environment(i)
  BY <1>1, <1>3 DEF Environment, ContainerExits, StopLands, TimeoutFires, RestartAges
<1>4. CASE \/ \E a \in Aborters, g \in Graceful : AbortRun(a, g)
           \/ \E a \in Stoppers : Stopper(a)
           \/ WindowExpires
  BY <1>1, <1>4 DEF AbortRun, Stopper, KillLands, AbortedWrite, WindowExpires
<1>5. CASE MigrateRun \/ StopForMigration \/ RebootRun \/ StandbyFinish \/ StandbyStop
  BY <1>1, <1>5 DEF MigrateRun, StopForMigration, RebootRun, StandbyFinish, StandbyStop
<1>6. CASE \E r \in Resurrectors : Resurrection(r)
  BY <1>1, <1>6 DEF Resurrection, ResurrectSees, ResurrectAwaits, ResurrectRun
<1>7. CASE DeleteChecks \/ DeleteRun
  BY <1>7 DEF DeleteChecks, DeleteRun, DeletesEnded, isTerminalJobStatus, TERMINAL_JOB_STATUSES
<1>8. CASE Crash \/ ReconcileOrphans \/ ReconcileOrphanedJobs
  BY <1>1, <1>8 DEF Crash, ReconcileOrphans, ReconcileOrphanedJobs, DeletesEnded
<1>9. CASE UNCHANGED vars
  BY <1>1, <1>9 DEF vars
<1> QED BY <1>2, <1>3, <1>4, <1>5, <1>6, <1>7, <1>8, <1>9 DEF Next

\* A status write never makes a record Gone.
LEMMA OnlyDeleteRemoves ==
    ASSUME TypeOK, [Next]_vars, status # Gone, status' = Gone
    PROVE  DeleteRun
<1>1. \A next \in JobStatuses : transitionJobStatus(status, next) # Gone
  BY DEF TypeOK, transitionJobStatus, JobStatuses, Gone
<1> USE <1>1, StatusNames DEF record, WriteStatus
<1>2. ASSUME NEW i \in Inc, Incarnation(i) PROVE FALSE
  <2>1. CASE BecomeRunning(i) \/ FailBeforeContainer(i) \/ FailWrite(i) \/ EscapedWrite(i) \/ Escape(i)
    BY <2>1 DEF BecomeRunning, FailBeforeContainer, FailWrite, EscapedWrite, Escape
  <2>2. CASE StartViewer(i) \/ Prepared(i) \/ PreStartCheck(i) \/ AbortWrite(i)
           \/ CreateContainer(i) \/ StartFails(i)
    BY <2>2 DEF StartViewer, Prepared, PreStartCheck, AbortWrite, CreateContainer, StartFails
  <2>3. CASE StartContainer(i) \/ WaitResolves(i) \/ StartRunReturns(i) \/ RestartCheck(i)
    BY <2>3 DEF StartContainer, WaitResolves, StartRunReturns, RestartCheck
  <2>4. CASE RestartAfterError(i) \/ FinalWrite(i) \/ CaughtWrite(i) \/ CancelWindow(i)
    BY <2>4 DEF RestartAfterError, FinalWrite, CaughtWrite, CancelWindow
  <2>5. CASE GraceWrite(i) \/ Close(i)
    BY <2>5 DEF GraceWrite, Close
  <2> QED BY <1>2, <2>1, <2>2, <2>3, <2>4, <2>5 DEF Incarnation
<1>3. ASSUME NEW r \in Resurrectors, Resurrection(r) PROVE FALSE
  BY <1>3 DEF Resurrection, ResurrectSees, ResurrectAwaits, ResurrectRun, Gone
<1>4. CASE \E i \in Inc : Environment(i)
  BY <1>4 DEF Environment, ContainerExits, StopLands, TimeoutFires, RestartAges
<1>5. CASE \/ \E a \in Aborters, g \in Graceful : AbortRun(a, g)
           \/ \E a \in Stoppers : Stopper(a)
           \/ WindowExpires
  BY <1>5 DEF AbortRun, Stopper, KillLands, AbortedWrite, WindowExpires
<1>6. CASE MigrateRun \/ StopForMigration \/ RebootRun \/ StandbyFinish \/ StandbyStop \/ DeleteChecks
  BY <1>6 DEF MigrateRun, StopForMigration, RebootRun, StandbyFinish, StandbyStop, DeleteChecks
<1>7. CASE Crash \/ ReconcileOrphans \/ ReconcileOrphanedJobs
  BY <1>7 DEF Crash, ReconcileOrphans, ReconcileOrphanedJobs
<1>8. CASE UNCHANGED vars
  BY <1>8 DEF vars
<1> QED BY <1>2, <1>3, <1>4, <1>5, <1>6, <1>7, <1>8 DEF Next

\* A delete never removes the record of a run that is RUNNING again, however many resurrections land
\* between its check and its delete (api/routes/runs.ts; storage/mutex.ts).
THEOREM DeletesOnlyEnded == Spec => NeverDeletesRunning
<1>1. Init => DeletesEnded
  BY DEF Init, DeletesEnded
<1>2. TypeOK /\ DeletesEnded /\ [Next]_vars => [status # Gone /\ status' = Gone => status # "RUNNING"]_vars
  BY OnlyDeleteRemoves DEF DeletesEnded, DeleteRun
<1>3. TypeOK /\ DeletesEnded /\ [Next]_vars => DeletesEnded'
  BY DeleteStep
<1> QED BY <1>1, <1>2, <1>3, TypeCorrect, PTL DEF Spec, NeverDeletesRunning

\* With one resurrection at a time nothing has to be said of how incarnations overlap: a run that
\* goes on can be reached.
COROLLARY OneResurrectorSuffices ==
    ASSUME \A q, r \in Resurrectors : q = r
    PROVE  Spec => []LiveRunIsReachable
<1>1. Spec => []OneIncarnation
  BY OneAtATime
<1> QED BY <1>1, LiveRunStaysReachable, PTL

-----------------------------------------------------------------------------
(* ImplementsJob: a run is a job.                                          *)

\* The gate of Job is this one.
LEMMA SameGate ==
    /\ \A s : AsJob!ALLOWED_NEXT(s) = ALLOWED_NEXT(s)
    /\ \A s, next : AsJob!transitionJobStatus(s, next) = transitionJobStatus(s, next)
    /\ \A s : AsJob!isTerminalJobStatus(s) <=> isTerminalJobStatus(s)
    /\ AsJob!Gone = Gone
  BY DEF AsJob!ALLOWED_NEXT, ALLOWED_NEXT, AsJob!transitionJobStatus, transitionJobStatus,
         AsJob!isTerminalJobStatus, isTerminalJobStatus, AsJob!TERMINAL_JOB_STATUSES,
         TERMINAL_JOB_STATUSES, AsJob!Gone, Gone

\* The process takes every incarnation down with it.
DeadSettled == phase # "up" => \A i \in Inc : ~Live(i)

LEMMA DeadStep ==
    ASSUME TypeOK, DeadSettled, [Next]_vars
    PROVE  DeadSettled'
<1>1. ASSUME NEW i \in Inc, Incarnation(i) PROVE DeadSettled'
  BY <1>1, IncarnationMoves DEF DeadSettled
<1>2. ASSUME NEW r \in Resurrectors, ResurrectRun(r) PROVE DeadSettled'
  BY <1>2 DEF ResurrectRun, process, DeadSettled
<1>3. CASE Crash
  BY <1>3, CrashSettles DEF DeadSettled
<1>4. CASE Aside
  BY <1>4, AsideKeeps DEF DeadSettled, Live
<1> QED BY <1>1, <1>2, <1>3, <1>4, StepKinds

\* A resurrection saw a run that was over.
SawTheEnd == \A r \in Resurrectors : rpc[r] # "idle" => isTerminalJobStatus(seen[r])

LEMMA SawStep ==
    ASSUME TypeOK, SawTheEnd, [Next]_vars
    PROVE  SawTheEnd'
<1> USE DEF SawTheEnd, resurrect
<1>1. ASSUME UNCHANGED <<rpc, seen>> PROVE SawTheEnd'
  BY <1>1
<1>2. ASSUME NEW i \in Inc, Incarnation(i) PROVE SawTheEnd'
  BY <1>1, <1>2, IncarnationMoves
<1>3. ASSUME NEW r \in Resurrectors, ResurrectSees(r) PROVE SawTheEnd'
  BY <1>3 DEF ResurrectSees, TypeOK
<1>4. ASSUME NEW r \in Resurrectors, ResurrectAwaits(r) \/ ResurrectRun(r) PROVE SawTheEnd'
  BY <1>4 DEF ResurrectAwaits, ResurrectRun, TypeOK
<1>5. CASE Crash
  BY <1>5 DEF Crash
<1>6. CASE \E i \in Inc : Environment(i)
  BY <1>1, <1>6 DEF Environment, ContainerExits, StopLands, TimeoutFires, RestartAges
<1>7. CASE \/ \E a \in Aborters, g \in Graceful : AbortRun(a, g)
           \/ \E a \in Stoppers : Stopper(a)
           \/ WindowExpires
  BY <1>1, <1>7 DEF AbortRun, Stopper, KillLands, AbortedWrite, WindowExpires
<1>8. CASE MigrateRun \/ StopForMigration \/ RebootRun \/ StandbyFinish \/ StandbyStop
  BY <1>1, <1>8 DEF MigrateRun, StopForMigration, RebootRun, StandbyFinish, StandbyStop
<1>9. CASE DeleteChecks \/ DeleteRun \/ ReconcileOrphans \/ ReconcileOrphanedJobs
  BY <1>1, <1>9 DEF DeleteChecks, DeleteRun, ReconcileOrphans, ReconcileOrphanedJobs
<1>10. CASE UNCHANGED vars
  BY <1>1, <1>10 DEF vars
<1> QED
  BY <1>2, <1>3, <1>4, <1>5, <1>6, <1>7, <1>8, <1>9, <1>10 DEF Next, Resurrection

\* What an incarnation may write.
LEMMA IncarnationWrites ==
    ASSUME NEW i \in Inc, Incarnation(i)
    PROVE  \/ status' = status
           \/ \E next \in {"RUNNING", "SUCCEEDED", "FAILED", "TIMED-OUT", "ABORTED"} :
                  status' = transitionJobStatus(status, next)
<1> USE DEF record, WriteStatus
<1>1. CASE BecomeRunning(i) \/ FailBeforeContainer(i) \/ FailWrite(i) \/ EscapedWrite(i) \/ Escape(i)
  BY <1>1 DEF BecomeRunning, FailBeforeContainer, FailWrite, EscapedWrite, Escape
<1>2. CASE StartViewer(i) \/ Prepared(i) \/ PreStartCheck(i) \/ AbortWrite(i)
           \/ CreateContainer(i) \/ StartFails(i)
  BY <1>2 DEF StartViewer, Prepared, PreStartCheck, AbortWrite, CreateContainer, StartFails
<1>3. CASE StartContainer(i) \/ WaitResolves(i) \/ StartRunReturns(i) \/ RestartCheck(i)
  BY <1>3 DEF StartContainer, WaitResolves, StartRunReturns, RestartCheck
<1>4. CASE RestartAfterError(i) \/ FinalWrite(i) \/ CaughtWrite(i) \/ CancelWindow(i)
  BY <1>4 DEF RestartAfterError, FinalWrite, CaughtWrite, CancelWindow, finalStatus
<1>5. CASE GraceWrite(i) \/ Close(i)
  BY <1>5 DEF GraceWrite, Close
<1> QED BY <1>1, <1>2, <1>3, <1>4, <1>5 DEF Incarnation

\* What a step beside the incarnations may write.
LEMMA AsideWrites ==
    ASSUME Aside
    PROVE  \/ status' = status /\ phase' = phase
           \/ status' = status /\ phase = "down" /\ phase' = "swept"
           \/ phase = "up" /\ phase' = phase /\ \E next \in {"ABORTING", "ABORTED"} :
                  status' = transitionJobStatus(status, next)
           \/ DeleteRun
           \/ ReconcileOrphanedJobs
<1> USE DEF record, process, WriteStatus
<1>1. CASE \E i \in Inc : Environment(i)
  BY <1>1 DEF Environment, ContainerExits, StopLands, TimeoutFires, RestartAges
<1>2. CASE \/ \E a \in Aborters, g \in Graceful : AbortRun(a, g)
           \/ \E a \in Stoppers : Stopper(a)
           \/ WindowExpires
  BY <1>2 DEF AbortRun, Stopper, KillLands, AbortedWrite, WindowExpires
<1>3. CASE MigrateRun \/ StopForMigration \/ RebootRun \/ StandbyFinish \/ StandbyStop
  BY <1>3 DEF MigrateRun, StopForMigration, RebootRun, StandbyFinish, StandbyStop
<1>4. CASE \E r \in Resurrectors : ResurrectSees(r) \/ ResurrectAwaits(r)
  BY <1>4 DEF ResurrectSees, ResurrectAwaits
<1>5. CASE DeleteChecks \/ ReconcileOrphans
  BY <1>5 DEF DeleteChecks, ReconcileOrphans
<1>6. CASE UNCHANGED vars
  BY <1>6 DEF vars
<1> QED BY <1>1, <1>2, <1>3, <1>4, <1>5, <1>6 DEF Aside

\* What a status write through the gate is to the job, by whoever lives to make it.
LEMMA WriteIsAJobStep ==
    ASSUME NEW next \in {"RUNNING", "SUCCEEDED", "FAILED", "TIMED-OUT", "ABORTING", "ABORTED"},
           status' = transitionJobStatus(status, next), RunHasDriver',
           \/ Worker = "on" /\ Worker' \in {"on", "off"}
           \/ Worker = "off" /\ Worker' = Worker /\ next \in {"ABORTING", "ABORTED"}
    PROVE  [AsJob!Next]_(AsJob!jobVars)
<1>1. Worker = Worker' \/ AsJob!Leaves
  BY DEF AsJob!Leaves, RunHasDriver, Worker, Live, Working
<1>2. CASE next \notin ALLOWED_NEXT(status)
  BY <1>1, <1>2 DEF transitionJobStatus, AsJob!Next, AsJob!Leave, AsJob!jobVars
<1>3. CASE next \in ALLOWED_NEXT(status)
  <2>1. AsJob!Becomes(next)
    BY <1>3, SameGate DEF transitionJobStatus, AsJob!Becomes
  <2>2. AsJob!Stays \/ AsJob!Leaves
    BY <1>1 DEF AsJob!Stays
  <2>3. AsJob!Carry \/ AsJob!Abort
    BY <2>1, <2>2 DEF AsJob!Carry, AsJob!Abort
  <2> QED BY <2>3 DEF AsJob!Next
<1> QED BY <1>2, <1>3

\* Every step of a run is a step of the job, or none.
LEMMA JobStep ==
    ASSUME TypeOK, RunHasDriver, RunHasDriver', OthersSettled, OneIncarnation', DeadSettled,
           SawTheEnd, DeletesEnded, [Next]_vars
    PROVE  [AsJob!Next]_(AsJob!jobVars)
<1>1. Worker \in {"dead", "on", "off"} /\ (phase = "up" <=> Worker # "dead")
  BY DEF Worker
<1>2. ASSUME NEW i \in Inc, Incarnation(i) PROVE [AsJob!Next]_(AsJob!jobVars)
  <2>1. Live(i) /\ phase = "up" /\ phase' = "up"
    BY <1>2, IncarnationMoves
  <2>2. Worker = "on" /\ Worker' \in {"on", "off"}
    BY <2>1 DEF Worker
  <2>3. CASE status' = status
    <3>1. Worker' = Worker \/ AsJob!Leaves
      BY <2>1, <2>2 DEF AsJob!Leaves, RunHasDriver, Worker, Live, Working
    <3> QED BY <2>3, <3>1 DEF AsJob!Next, AsJob!Leave, AsJob!jobVars
  <2>4. ASSUME NEW next \in {"RUNNING", "SUCCEEDED", "FAILED", "TIMED-OUT", "ABORTED"},
               status' = transitionJobStatus(status, next)
        PROVE  [AsJob!Next]_(AsJob!jobVars)
    BY <2>2, <2>4, WriteIsAJobStep
  <2> QED BY <1>2, <2>3, <2>4, IncarnationWrites
<1>3. ASSUME NEW r \in Resurrectors, ResurrectRun(r) PROVE [AsJob!Next]_(AsJob!jobVars)
  <2>1. phase = "up" /\ phase' = "up" /\ rpc[r] = "await"
    BY <1>3 DEF ResurrectRun, AwaitOver, process
  <2>2. CASE status = seen[r] /\ n < MaxIncarnations
    <3>1. /\ n + 1 \in Inc /\ n \in Inc /\ n # n + 1
          /\ status' = "READY" /\ pc'[n + 1] = "launched"
          /\ \A j \in Inc : j # n + 1 => pc'[j] = pc[j]
      BY <1>3, <2>2, RunAssumption DEF RunAssumption, Inc, TypeOK, ResurrectRun, Goto
    <3>2. ~Live(n) /\ ~Live(n + 1)
      BY <3>1 DEF OneIncarnation, OthersSettled, Live
    <3>3. Worker = "off" /\ Worker' = "on"
      BY <2>1, <3>1, <3>2 DEF Worker, OthersSettled, Live
    <3>4. AsJob!isTerminalJobStatus(status)
      BY <2>1, <2>2, SameGate DEF SawTheEnd
    <3> QED BY <3>1, <3>3, <3>4 DEF AsJob!Next, AsJob!Revive
  <2>3. CASE ~(status = seen[r] /\ n < MaxIncarnations)
    <3>1. UNCHANGED <<status, phase, pc>>
      BY <1>3, <2>1, <2>3 DEF ResurrectRun, record
    <3> QED BY <3>1 DEF AsJob!jobVars, Worker, Live
  <2> QED BY <2>2, <2>3
<1>4. CASE Crash
  <2>1. status' = status /\ Worker' = "dead"
    BY <1>4 DEF Crash, record, Worker
  <2> QED BY <1>1, <2>1 DEF AsJob!Next, AsJob!Die, AsJob!jobVars
<1>5. CASE Aside
  <2>1. pc' = pc
    BY <1>5, AsideKeeps
  <2>2. phase' = phase => Worker' = Worker
    BY <2>1 DEF Worker, Live
  <2>3. CASE status' = status /\ phase' = phase
    BY <2>2, <2>3 DEF AsJob!jobVars
  <2>4. CASE status' = status /\ phase = "down" /\ phase' = "swept"
    BY <2>4 DEF AsJob!jobVars, Worker
  <2>5. ASSUME phase = "up", phase' = phase, NEW next \in {"ABORTING", "ABORTED"},
               status' = transitionJobStatus(status, next)
        PROVE  [AsJob!Next]_(AsJob!jobVars)
    <3>1. Worker \in {"on", "off"} /\ Worker' = Worker
      BY <1>1, <2>2, <2>5
    <3> QED BY <2>5, <3>1, WriteIsAJobStep
  <2>6. CASE DeleteRun
    <3>1. Worker \in {"on", "off"} /\ Worker' = Worker /\ status # "RUNNING" /\ status' = Gone
      BY <1>1, <2>2, <2>6 DEF DeleteRun, process, DeletesEnded
    <3> QED BY <3>1, SameGate DEF AsJob!Next, AsJob!Delete, AsJob!Stays, AsJob!jobVars
  <2>7. CASE ReconcileOrphanedJobs
    <3>1. Worker = "dead" /\ Worker' = "off" /\ status' = transitionJobStatus(status, "ABORTED")
      BY <2>1, <2>7 DEF ReconcileOrphanedJobs, WriteStatus, Worker, DeadSettled, Live
    <3> QED BY <3>1, SameGate DEF AsJob!Next, AsJob!Reconcile
  <2> QED BY <1>5, <2>3, <2>4, <2>5, <2>6, <2>7, AsideWrites
<1>6. CASE UNCHANGED vars
  BY <1>5, <1>6 DEF Aside
<1> QED BY <1>2, <1>3, <1>4, <1>5, <1>6, StepKinds

\* A run is a job (Job.tla): whatever aborts, restarts, resurrections, deletes and crashes
\* interleave, only its background function starts it or says how it ended and does not leave it
\* READY or RUNNING, only a run that is over and left is resurrected, and a crash ends it. Of a run
\* whose incarnations do not overlap, and whose first write throws nothing.
THEOREM RunIsAJob ==
    ASSUME "launched" \notin EscapePoints
    PROVE  Spec /\ []OneIncarnation => ImplementsJob
<1>1. Init => AsJob!Init /\ OthersSettled /\ DeadSettled /\ SawTheEnd /\ DeletesEnded
  <2> SUFFICES ASSUME Init
               PROVE  AsJob!Init /\ OthersSettled /\ DeadSettled /\ SawTheEnd /\ DeletesEnded
    OBVIOUS
  <2>1. Worker = "on"
    BY Ranges DEF Init, Worker, Live
  <2>2. AsJob!Init
    BY <2>1 DEF Init, AsJob!Init
  <2> QED BY <2>2, SettledInit DEF Init, DeadSettled, SawTheEnd, DeletesEnded
<1>2. TypeOK /\ OthersSettled /\ DeadSettled /\ SawTheEnd /\ DeletesEnded /\ OneIncarnation' /\ [Next]_vars
        => OthersSettled' /\ DeadSettled' /\ SawTheEnd' /\ DeletesEnded'
  BY SettledApart, DeadStep, SawStep, DeleteStep
<1>3. TypeOK /\ RunHasDriver /\ RunHasDriver' /\ OthersSettled /\ OneIncarnation' /\ DeadSettled
          /\ SawTheEnd /\ DeletesEnded /\ [Next]_vars
        => [AsJob!Next]_(AsJob!jobVars)
  BY JobStep
<1>4. Spec => []RunHasDriver
  BY RunNeverStuck
<1> QED BY <1>1, <1>2, <1>3, <1>4, TypeCorrect, PTL DEF Spec, ImplementsJob, AsJob!Spec

\* With one resurrection at a time nothing has to be said of the incarnations.
COROLLARY OneResurrectorIsAJob ==
    ASSUME \A q, r \in Resurrectors : q = r, "launched" \notin EscapePoints
    PROVE  Spec => ImplementsJob
<1>1. Spec => []OneIncarnation
  BY OneAtATime
<1>2. Spec /\ []OneIncarnation => ImplementsJob
  BY RunIsAJob
<1> QED BY <1>1, <1>2, PTL

=============================================================================
