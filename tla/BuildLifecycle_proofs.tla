----------------------- MODULE BuildLifecycle_proofs -----------------------
(***************************************************************************)
(* Theorems about BuildLifecycle, for every set of builds, every set of    *)
(* failing registry accesses and every number of crashes.                  *)
(***************************************************************************)
EXTENDS BuildLifecycle, TLAPS

\* What the gate of job-status.ts does with the statuses that builds write.
LEMMA GateFacts ==
    ASSUME NEW s \in JobStatuses \cup {Gone}
    PROVE  /\ \A next \in JobStatuses : transitionJobStatus(s, next) \in {s, next}
           /\ transitionJobStatus(s, "RUNNING") = "RUNNING" <=> s \in {"READY", "RUNNING"}
           /\ transitionJobStatus(s, "SUCCEEDED") = "SUCCEEDED" <=> s \in {"RUNNING", "SUCCEEDED"}
           /\ \A next \in TERMINAL_JOB_STATUSES : transitionJobStatus(s, next) # "RUNNING"
           /\ transitionJobStatus(s, "ABORTED") \notin {"READY", "RUNNING", "ABORTING"}
  BY DEF transitionJobStatus, ALLOWED_NEXT, JobStatuses, TERMINAL_JOB_STATUSES, Gone

\* Every status that an action writes.
LEMMA StatusNames ==
    /\ "READY" \in JobStatuses /\ "RUNNING" \in JobStatuses /\ "ABORTING" \in JobStatuses
    /\ "SUCCEEDED" \in JobStatuses /\ "FAILED" \in JobStatuses
    /\ "TIMED-OUT" \in JobStatuses /\ "ABORTED" \in JobStatuses
    /\ TERMINAL_JOB_STATUSES = {"SUCCEEDED", "FAILED", "ABORTED", "TIMED-OUT"}
  BY DEF JobStatuses, TERMINAL_JOB_STATUSES

\* A status write changes one record, to what the gate yields.
LEMMA WriteFacts ==
    ASSUME TypeOK, NEW b \in Builds, NEW next \in JobStatuses, WriteStatus(b, next)
    PROVE  /\ status' \in [Builds -> JobStatuses \cup {Gone}]
           /\ status'[b] = transitionJobStatus(status[b], next)
           /\ status'[b] \in {status[b], next}
           /\ \A c \in Builds \ {b} : status'[c] = status[c]
<1>1. transitionJobStatus(status[b], next) \in {status[b], next}
  BY GateFacts DEF TypeOK
<1>2. status' = [status EXCEPT ![b] = transitionJobStatus(status[b], next)]
  BY DEF WriteStatus
<1> QED BY <1>1, <1>2 DEF TypeOK

\* A step of one build's program counter.
LEMMA GotoFacts ==
    ASSUME TypeOK, NEW b \in Builds, NEW s \in BuildStates, Goto(b, s)
    PROVE  /\ pc' \in [Builds -> BuildStates]
           /\ pc'[b] = s
           /\ \A c \in Builds \ {b} : pc'[c] = pc[c]
  BY DEF Goto, TypeOK

-----------------------------------------------------------------------------
(* Types.                                                                  *)

\* Every variable has its type at the start.
LEMMA TypeInit == Init => TypeOK
  BY BuildAssumption DEF BuildAssumption, Init, TypeOK, BuildStates

\* What the driver knows of a build keeps its type when it is dropped.
LEMMA TypeForget ==
    ASSUME TypeOK, NEW b \in Builds, Forget(b)
    PROVE  /\ attempt' \in [Builds -> 1..2]
           /\ aborted' \in [Builds -> BOOLEAN] /\ timedOut' \in [Builds -> BOOLEAN]
  BY DEF Forget, TypeOK

\* The steps of the background function keep the types.
LEMMA TypeBackground ==
    ASSUME TypeOK, NEW b \in Builds, Background(b)
    PROVE  TypeOK'
<1> USE StatusNames, WriteFacts, GotoFacts DEF driver, actor, process
<1>1. CASE BecomeRunning(b)
  BY <1>1 DEF BecomeRunning, TypeOK, BuildStates
<1>2. CASE PreStartCheck(b)
  BY <1>2 DEF PreStartCheck, TypeOK, BuildStates
<1>3. CASE AbortWrite(b)
  BY <1>3 DEF AbortWrite, TypeOK, BuildStates
<1>4. CASE FailBuild(b) \/ CallDriver(b) \/ Throws(b)
  BY <1>4 DEF FailBuild, CallDriver, Throws, TypeOK, BuildStates
<1>5. CASE BuildReturns(b)
  BY <1>5 DEF BuildReturns, Forget, TypeOK, BuildStates
<1>6. CASE RecordTag(b)
  BY <1>6 DEF RecordTag, TypeOK, BuildStates
<1>7. CASE SucceededWrite(b)
  BY <1>7 DEF SucceededWrite, TypeOK, BuildStates
<1>8. CASE RevertTag(b)
  BY <1>8 DEF RevertTag, TypeOK, BuildStates
<1>9. CASE CaughtWrite(b)
  BY <1>9 DEF CaughtWrite, TypeOK, BuildStates
<1> QED
  BY <1>1, <1>2, <1>3, <1>4, <1>5, <1>6, <1>7, <1>8, <1>9 DEF Background

\* So does everything else.
LEMMA TypeStep == TypeOK /\ [Next]_vars => TypeOK'
<1> SUFFICES ASSUME TypeOK, [Next]_vars PROVE TypeOK'
  OBVIOUS
<1> USE StatusNames, WriteFacts, GotoFacts DEF driver, actor, process
<1>1. ASSUME NEW b \in Builds, Background(b) PROVE TypeOK'
  BY <1>1, TypeBackground
<1>2. ASSUME NEW b \in Builds, StartBuild(b) PROVE TypeOK'
  BY <1>2 DEF StartBuild, TypeOK, BuildStates
<1>3. ASSUME NEW b \in Builds, BuildTimesOut(b) \/ RetryForPlatform(b) PROVE TypeOK'
  <2>1. CASE BuildTimesOut(b)
    BY <2>1 DEF BuildTimesOut, TypeOK
  <2>2. CASE RetryForPlatform(b)
    <3>1. attempt' \in [Builds -> 1..2]
      BY <2>2 DEF RetryForPlatform, TypeOK
    <3> QED BY <2>2, <3>1 DEF RetryForPlatform, TypeOK
  <2> QED BY <1>3, <2>1, <2>2
<1>4. ASSUME NEW b \in Builds, BuildStreamEnds(b) PROVE TypeOK'
  <2>1. pc' \in [Builds -> BuildStates]
    BY <1>4 DEF BuildStreamEnds, BuildStates
  <2>2. /\ attempt' \in [Builds -> 1..2]
        /\ aborted' \in [Builds -> BOOLEAN] /\ timedOut' \in [Builds -> BOOLEAN]
    BY <1>4, TypeForget DEF BuildStreamEnds, TypeOK
  <2> QED BY <1>4, <2>1, <2>2 DEF BuildStreamEnds, TypeOK
<1>5. ASSUME NEW b \in Builds, AbortBuild(b) PROVE TypeOK'
  BY <1>5 DEF AbortBuild, SignalAbort, TypeOK
<1>6. ASSUME NEW b \in Builds, AbortedWrite(b) PROVE TypeOK'
  BY <1>6 DEF AbortedWrite, TypeOK
<1>7. ASSUME NEW b \in Builds, DeleteBuild(b) PROVE TypeOK'
  BY <1>7 DEF DeleteBuild, TypeOK
<1>8. CASE DeleteActor
  BY <1>8 DEF DeleteActor, TypeOK
<1>9. CASE Crash
  BY <1>9, BuildAssumption DEF BuildAssumption, Crash, TypeOK, BuildStates
<1>10. CASE ReconcileOrphanedJobs
  BY <1>10, GateFacts DEF ReconcileOrphanedJobs, TypeOK
<1>11. CASE UNCHANGED vars
  BY <1>11 DEF vars, TypeOK
<1> QED
  BY <1>1, <1>2, <1>3, <1>4, <1>5, <1>6, <1>7, <1>8, <1>9, <1>10, <1>11 DEF Next

\* The variables of every build keep their types; in particular driver.startBuild makes at most
\* two attempts.
THEOREM BuildTypeCorrect == Spec => []TypeOK
  BY TypeInit, TypeStep, PTL DEF Spec

-----------------------------------------------------------------------------
(* BuildHasDriver: no build record is stuck.                               *)

\* A step of build b leaves what is owed to the other builds as it was.
LEMMA OthersOwed ==
    ASSUME TypeOK, BuildHasDriver, phase = "up", NEW b \in Builds,
           \A c \in Builds \ {b} :
               status'[c] = status[c] /\ pc'[c] = pc[c] /\ aborting'[c] = aborting[c],
           Owed(b)'
    PROVE  BuildHasDriver'
  BY DEF BuildHasDriver, Owed

\* The background function always leaves its own build with what is owed to it.
LEMMA OwedBackground ==
    ASSUME TypeOK, BuildHasDriver, NEW b \in Builds, Background(b)
    PROVE  BuildHasDriver'
<1>1. Owed(b) /\ phase = "up"
  BY DEF BuildHasDriver, Background, BecomeRunning, PreStartCheck, AbortWrite, FailBuild,
         CallDriver, BuildReturns, RecordTag, SucceededWrite, RevertTag, Throws, CaughtWrite
<1>2. status[b] \in JobStatuses \cup {Gone} /\ pc[b] \in BuildStates /\ aborting \in [Builds -> BOOLEAN]
  BY DEF TypeOK
<1> USE <1>1, <1>2, StatusNames, WriteFacts, GotoFacts, GateFacts, OthersOwed
<1>3. CASE BecomeRunning(b)
  BY <1>3 DEF BecomeRunning, Owed, BuildStates
<1>4. CASE PreStartCheck(b)
  BY <1>4 DEF PreStartCheck, Owed, BuildStates
<1>5. CASE AbortWrite(b)
  BY <1>5 DEF AbortWrite, Owed, BuildStates
<1>6. CASE FailBuild(b) \/ CallDriver(b) \/ BuildReturns(b)
  BY <1>6 DEF FailBuild, CallDriver, BuildReturns, Owed, BuildStates
<1>7. CASE RecordTag(b)
  BY <1>7 DEF RecordTag, Owed, BuildStates
<1>8. CASE SucceededWrite(b)
  BY <1>8 DEF SucceededWrite, Owed, BuildStates
<1>9. CASE RevertTag(b)
  BY <1>9 DEF RevertTag, Owed, BuildStates
<1>10. CASE Throws(b)
  BY <1>10, BuildAssumption DEF BuildAssumption, Throws, Owed, BuildStates
<1>11. CASE CaughtWrite(b)
  BY <1>11 DEF CaughtWrite, Owed, BuildStates
<1> QED
  BY <1>3, <1>4, <1>5, <1>6, <1>7, <1>8, <1>9, <1>10, <1>11 DEF Background

\* So does every other step.
LEMMA OwedStep == TypeOK /\ BuildHasDriver /\ [Next]_vars => BuildHasDriver'
<1> SUFFICES ASSUME TypeOK, BuildHasDriver, [Next]_vars PROVE BuildHasDriver'
  OBVIOUS
<1>1. ASSUME NEW b \in Builds, Background(b) PROVE BuildHasDriver'
  BY <1>1, OwedBackground
<1>2. ASSUME NEW b \in Builds, StartBuild(b) PROVE BuildHasDriver'
  BY <1>2, OthersOwed, GotoFacts DEF StartBuild, BuildHasDriver, Owed, BuildStates, TypeOK
<1>3. ASSUME NEW b \in Builds, BuildTimesOut(b) \/ RetryForPlatform(b) PROVE BuildHasDriver'
  BY <1>3 DEF BuildTimesOut, RetryForPlatform, BuildHasDriver, Owed, process
<1>4. ASSUME NEW b \in Builds, BuildStreamEnds(b) PROVE BuildHasDriver'
  <2>1. PICK s \in {"timeWrite", "failWrite", "inspecting"} : Goto(b, s)
    BY <1>4 DEF BuildStreamEnds
  <2>2. Owed(b)'
    BY <1>4, <2>1, GotoFacts
       DEF BuildStreamEnds, BuildHasDriver, Owed, BuildStates
  <2> QED BY <1>4, <2>1, <2>2, GotoFacts, OthersOwed DEF BuildStreamEnds, BuildStates
<1>5. ASSUME NEW b \in Builds, AbortBuild(b) PROVE BuildHasDriver'
  <2>1. status'[b] = "ABORTING" /\ aborting'[b]
    BY <1>5 DEF AbortBuild, TypeOK
  <2> QED BY <1>5, <2>1, OthersOwed, StatusNames, WriteFacts DEF AbortBuild, Owed, TypeOK
<1>6. ASSUME NEW b \in Builds, AbortedWrite(b) PROVE BuildHasDriver'
  <2>1. status'[b] \notin {"READY", "RUNNING", "ABORTING"}
    BY <1>6, StatusNames, WriteFacts, GateFacts DEF AbortedWrite, TypeOK
  <2> QED BY <1>6, <2>1, OthersOwed, StatusNames, WriteFacts DEF AbortedWrite, Owed, TypeOK
<1>7. ASSUME NEW b \in Builds, DeleteBuild(b) PROVE BuildHasDriver'
  BY <1>7, OthersOwed DEF DeleteBuild, Owed, TypeOK, Gone
<1>8. CASE DeleteActor \/ UNCHANGED vars
  BY <1>8 DEF DeleteActor, vars, process, BuildHasDriver, Owed
<1>9. CASE Crash
  BY <1>9 DEF Crash, BuildHasDriver
<1>10. CASE ReconcileOrphanedJobs
  <2>1. \A b \in Builds : status'[b] \notin {"READY", "RUNNING", "ABORTING"}
    BY <1>10, GateFacts DEF ReconcileOrphanedJobs, TypeOK
  <2> QED BY <2>1 DEF BuildHasDriver, Owed
<1> QED
  BY <1>1, <1>2, <1>3, <1>4, <1>5, <1>6, <1>7, <1>8, <1>9, <1>10 DEF Next

\* No build is ever left READY, RUNNING or ABORTING with nobody to end it, whatever aborts, storage
\* errors, deletes and crashes interleave, unless the write that was to start it threw.
THEOREM BuildNeverStuck == Spec => []BuildHasDriver
<1>1. Init => BuildHasDriver
  BY DEF Init, BuildHasDriver, Owed, Gone
<1> QED
  BY <1>1, OwedStep, BuildTypeCorrect, PTL DEF Spec

-----------------------------------------------------------------------------
(* SucceededKeepsTag: an older build's revert never undoes a newer success. *)

\* A build that puts the tag back did not succeed. Inductive: only SucceededWrite makes a record
\* SUCCEEDED, and that build is over then.
RefusedInv == \A b \in Builds : pc[b] = "revert" => status[b] # "SUCCEEDED"

\* The records of builds that are over may become SUCCEEDED in no other way.
LEMMA RefusedStep == TypeOK /\ RefusedInv /\ [Next]_vars => RefusedInv'
<1> SUFFICES ASSUME TypeOK, RefusedInv, [Next]_vars, NEW c \in Builds, pc'[c] = "revert"
             PROVE  status'[c] # "SUCCEEDED"
  BY DEF RefusedInv
<1>1. CASE UNCHANGED vars
  BY <1>1 DEF vars, RefusedInv
<1>2. CASE Crash \/ DeleteActor
  BY <1>2 DEF Crash, DeleteActor, RefusedInv
<1>3. CASE ReconcileOrphanedJobs
  BY <1>3, GateFacts, StatusNames DEF ReconcileOrphanedJobs, RefusedInv, TypeOK
<1>4. ASSUME NEW b \in Builds, SucceededWrite(b) PROVE status'[c] # "SUCCEEDED"
  BY <1>4, StatusNames, WriteFacts, GotoFacts DEF SucceededWrite, RefusedInv, BuildStates
<1>5. ASSUME NEW b \in Builds,
             AbortBuild(b) \/ AbortedWrite(b) \/ DeleteBuild(b)
      PROVE  status'[c] # "SUCCEEDED"
  <2>1. pc[c] = "revert"
    BY <1>5 DEF AbortBuild, AbortedWrite, DeleteBuild
  <2> QED
    BY <1>5, <2>1, StatusNames, WriteFacts
       DEF AbortBuild, AbortedWrite, DeleteBuild, RefusedInv, TypeOK, Gone
<1>6. ASSUME NEW b \in Builds, NEW s \in BuildStates \ {"revert"}, Goto(b, s),
             status' = status \/ status'[c] = status[c] \/ c = b
      PROVE  status'[c] # "SUCCEEDED"
  BY <1>6, GotoFacts DEF RefusedInv
<1>7. ASSUME NEW b \in Builds,
             BecomeRunning(b) \/ AbortWrite(b) \/ CaughtWrite(b) \/ StartBuild(b)
      PROVE  status'[c] # "SUCCEEDED"
  <2>1. \E s \in BuildStates \ {"revert"} : Goto(b, s)
    BY <1>7 DEF BecomeRunning, AbortWrite, CaughtWrite, StartBuild, BuildStates
  <2>2. c # b => status'[c] = status[c]
    BY <1>7, StatusNames, WriteFacts
       DEF BecomeRunning, AbortWrite, CaughtWrite, StartBuild, TypeOK
  <2> QED BY <1>6, <2>1, <2>2
<1>8. ASSUME NEW b \in Builds,
             \/ PreStartCheck(b) \/ FailBuild(b) \/ CallDriver(b) \/ BuildReturns(b)
             \/ RecordTag(b) \/ RevertTag(b) \/ Throws(b) \/ BuildStreamEnds(b)
      PROVE  status'[c] # "SUCCEEDED"
  <2>1. status' = status /\ \E s \in BuildStates \ {"revert"} : Goto(b, s)
    BY <1>8 DEF PreStartCheck, FailBuild, CallDriver, BuildReturns, RecordTag, RevertTag,
                Throws, BuildStreamEnds, BuildStates
  <2> QED BY <1>6, <2>1
<1>9. ASSUME NEW b \in Builds, BuildTimesOut(b) \/ RetryForPlatform(b)
      PROVE  status'[c] # "SUCCEEDED"
  BY <1>9 DEF BuildTimesOut, RetryForPlatform, RefusedInv
<1> QED
  BY <1>1, <1>2, <1>3, <1>4, <1>5, <1>7, <1>8, <1>9 DEF Next, Background

\* What a successful build recorded is only ever replaced by one recorded after it, however many
\* builds of the tag run and are aborted at the same time.
THEOREM SucceededTagKept == Spec => SucceededKeepsTag
<1>1. Init => RefusedInv
  BY DEF Init, RefusedInv
<1>2. TypeOK /\ RefusedInv /\ [Next]_vars
        => [TagMovesOn]_vars
  <2> SUFFICES ASSUME TypeOK, RefusedInv, [Next]_vars, tag' # tag, tag \in Builds,
                      status[tag] = "SUCCEEDED"
               PROVE  tag' = NoActor \/ \E b \in Builds : tag' = b /\ pc[b] = "record"
    BY DEF TagMovesOn
  <2>1. (\E b \in Builds : RecordTag(b) \/ RevertTag(b)) \/ DeleteActor
    BY DEF Next, Background, StartBuild, BecomeRunning, PreStartCheck, AbortWrite, FailBuild,
           CallDriver, BuildReturns, SucceededWrite, Throws, CaughtWrite, BuildTimesOut,
           BuildStreamEnds, RetryForPlatform, AbortBuild, AbortedWrite, DeleteBuild, Crash,
           ReconcileOrphanedJobs, actor, vars
  <2>2. CASE DeleteActor
    BY <2>2 DEF DeleteActor
  <2>3. ASSUME NEW b \in Builds, RecordTag(b) PROVE tag' = b /\ pc[b] = "record"
    BY <2>3 DEF RecordTag, actor
  <2>4. ASSUME NEW b \in Builds, RevertTag(b) PROVE FALSE
    BY <2>4 DEF RevertTag, RefusedInv
  <2> QED BY <2>1, <2>2, <2>3, <2>4
<1> QED
  BY <1>1, <1>2, RefusedStep, BuildTypeCorrect, PTL DEF Spec, SucceededKeepsTag

-----------------------------------------------------------------------------
(* SucceededHasTag: a build that succeeded was recorded, and no revert of  *)
(* other builds empties the tag again.                                     *)

\* A build that recorded its tag, or never will: its RecordTag is behind it for good.
PastRecord == {"succeed", "revert", "failWrite", "timeWrite", "abortWrite", "escaped", "lost",
               "done"}

\* A build whose record may still turn, or has turned, SUCCEEDED after it wrote the tag.
Earned(s) == pc[s] = "succeed" \/ status[s] = "SUCCEEDED"

\* However far the builds of C put the tag back, it stays in C: each of them but s found another
\* of them in the tag. And none of them writes the tag anew.
Leads(C, s) == tag \in C /\ \A c \in C : pc[c] \in PastRecord /\ (c # s => prev[c] \in C)

\* The tag leads back to every build that earned it, unless the Actor is gone. Inductive with
\* TypeOK and RefusedInv; SucceededHasTag by itself says nothing of what a revert would restore.
TagTrail ==
    tag # NoActor => \A s \in Builds : Earned(s) => \E C \in SUBSET Builds : Leads(C, s)

\* No step takes a build back before its tag's write.
LEMMA PastRecordStep ==
    ASSUME TypeOK, [Next]_vars, NEW c \in Builds, pc[c] \in PastRecord
    PROVE  pc'[c] \in PastRecord
<1>1. CASE UNCHANGED vars
  BY <1>1 DEF vars
<1>2. CASE Crash \/ DeleteActor \/ ReconcileOrphanedJobs
  BY <1>2 DEF Crash, DeleteActor, ReconcileOrphanedJobs, PastRecord
<1>3. ASSUME NEW b \in Builds,
             \/ BuildTimesOut(b) \/ RetryForPlatform(b)
             \/ AbortBuild(b) \/ AbortedWrite(b) \/ DeleteBuild(b)
      PROVE  pc' = pc
  BY <1>3 DEF BuildTimesOut, RetryForPlatform, AbortBuild, AbortedWrite, DeleteBuild
<1>4. ASSUME NEW b \in Builds, StartBuild(b) \/ Background(b) \/ BuildStreamEnds(b)
      PROVE  \E s \in BuildStates : Goto(b, s) /\ (pc[b] \in PastRecord => s \in PastRecord)
  <2>1. CASE StartBuild(b) \/ PreStartCheck(b) \/ FailBuild(b) \/ CallDriver(b) \/ BuildReturns(b)
    BY <2>1 DEF StartBuild, PreStartCheck, FailBuild, CallDriver, BuildReturns, BuildStates,
                PastRecord
  <2>2. CASE BecomeRunning(b) \/ AbortWrite(b) \/ SucceededWrite(b) \/ CaughtWrite(b)
    BY <2>2 DEF BecomeRunning, AbortWrite, SucceededWrite, CaughtWrite, BuildStates, PastRecord
  <2>3. CASE RecordTag(b) \/ RevertTag(b) \/ Throws(b)
    BY <2>3 DEF RecordTag, RevertTag, Throws, BuildStates, PastRecord
  <2>4. CASE BuildStreamEnds(b)
    BY <2>4 DEF BuildStreamEnds, BuildStates, PastRecord
  <2> QED BY <1>4, <2>1, <2>2, <2>3, <2>4 DEF Background
<1> QED BY <1>1, <1>2, <1>3, <1>4, GotoFacts DEF Next

\* A build earns its tag by writing it, and in no other way.
LEMMA EarnedByRecord ==
    ASSUME TypeOK, [Next]_vars, NEW s \in Builds, Earned(s)', ~Earned(s)
    PROVE  RecordTag(s)
<1>1. CASE UNCHANGED vars
  BY <1>1 DEF vars, Earned
<1>2. CASE Crash \/ DeleteActor
  BY <1>2 DEF Crash, DeleteActor, Earned
<1>3. CASE ReconcileOrphanedJobs
  BY <1>3, GateFacts, StatusNames DEF ReconcileOrphanedJobs, Earned, TypeOK
<1>4. ASSUME NEW b \in Builds, SucceededWrite(b) PROVE FALSE
  <2>1. pc[b] = "succeed" /\ pc' \in [Builds -> BuildStates] /\ pc'[b] # "succeed"
    BY <1>4, GotoFacts DEF SucceededWrite, BuildStates
  <2> QED BY <1>4, <2>1, StatusNames, WriteFacts, GotoFacts DEF SucceededWrite, Earned, BuildStates
<1>5. ASSUME NEW b \in Builds,
             \/ BecomeRunning(b) \/ AbortWrite(b) \/ CaughtWrite(b) \/ StartBuild(b)
             \/ AbortBuild(b) \/ AbortedWrite(b) \/ DeleteBuild(b)
      PROVE  FALSE
  <2>1. status'[s] = "SUCCEEDED" => status[s] = "SUCCEEDED"
    BY <1>5, StatusNames, WriteFacts
       DEF BecomeRunning, AbortWrite, CaughtWrite, StartBuild, AbortBuild, AbortedWrite,
           DeleteBuild, TypeOK, Gone
  <2>2. pc' = pc \/ \E t \in BuildStates \ {"succeed"} : Goto(b, t)
    BY <1>5 DEF BecomeRunning, AbortWrite, CaughtWrite, StartBuild, AbortBuild, AbortedWrite,
                DeleteBuild, BuildStates
  <2> QED BY <2>1, <2>2, GotoFacts DEF Earned
<1>6. ASSUME NEW b \in Builds,
             \/ PreStartCheck(b) \/ FailBuild(b) \/ CallDriver(b) \/ BuildReturns(b)
             \/ RevertTag(b) \/ Throws(b) \/ BuildStreamEnds(b)
      PROVE  FALSE
  <2>1. status' = status /\ \E t \in BuildStates \ {"succeed"} : Goto(b, t)
    BY <1>6 DEF PreStartCheck, FailBuild, CallDriver, BuildReturns, RevertTag, Throws,
                BuildStreamEnds, BuildStates
  <2> QED BY <2>1, GotoFacts DEF Earned
<1>7. ASSUME NEW b \in Builds, BuildTimesOut(b) \/ RetryForPlatform(b) PROVE FALSE
  BY <1>7 DEF BuildTimesOut, RetryForPlatform, Earned
<1>8. ASSUME NEW b \in Builds, RecordTag(b) PROVE b = s
  <2>1. status' = status /\ Goto(b, "succeed")
    BY <1>8 DEF RecordTag
  <2> QED BY <2>1, GotoFacts DEF Earned, BuildStates
<1> QED BY <1>1, <1>2, <1>3, <1>4, <1>5, <1>6, <1>7, <1>8 DEF Next, Background

\* Every step keeps the trail: a build that records is put before it, one that reverts leaves it.
LEMMA TrailStep == TypeOK /\ RefusedInv /\ TagTrail /\ [Next]_vars => TagTrail'
<1> SUFFICES ASSUME TypeOK, RefusedInv, TagTrail, [Next]_vars, tag' # NoActor,
                    NEW s \in Builds, Earned(s)'
             PROVE  \E C \in SUBSET Builds : Leads(C, s)'
  BY DEF TagTrail
<1>1. /\ UNCHANGED actor \/ DeleteActor \/ \E b \in Builds : RecordTag(b) \/ RevertTag(b)
      /\ tag # NoActor
  <2>1. UNCHANGED actor \/ DeleteActor \/ \E b \in Builds : RecordTag(b) \/ RevertTag(b)
    BY DEF Next, Background, StartBuild, BecomeRunning, PreStartCheck, AbortWrite, FailBuild,
           CallDriver, BuildReturns, SucceededWrite, Throws, CaughtWrite, BuildTimesOut,
           BuildStreamEnds, RetryForPlatform, AbortBuild, AbortedWrite, DeleteBuild, Crash,
           ReconcileOrphanedJobs, actor, vars
  <2> QED
    BY <2>1, BuildAssumption DEF BuildAssumption, actor, DeleteActor, RecordTag, RevertTag
<1>2. CASE ~Earned(s)
  <2>1. RecordTag(s)
    BY <1>2, EarnedByRecord
  <2>2. tag' = s /\ pc'[s] = "succeed"
    BY <1>1, <2>1, GotoFacts DEF RecordTag, BuildStates
  <2>3. Leads({s}, s)'
    BY <2>2 DEF Leads, PastRecord
  <2> QED BY <2>3
<1>3. CASE Earned(s)
  <2>1. PICK C \in SUBSET Builds : Leads(C, s)
    BY <1>1, <1>3 DEF TagTrail
  <2>2. \A c \in C : pc'[c] \in PastRecord
    BY <2>1, PastRecordStep DEF Leads
  <2>3. CASE UNCHANGED actor
    BY <2>1, <2>2, <2>3 DEF Leads, actor
  <2>4. ASSUME NEW b \in Builds, RecordTag(b) PROVE \E D \in SUBSET Builds : Leads(D, s)'
    <3>1. /\ b \notin C /\ tag' = b /\ prev' = [prev EXCEPT ![b] = tag] /\ pc'[b] = "succeed"
      BY <1>1, <2>1, <2>4, GotoFacts DEF RecordTag, Leads, PastRecord, BuildStates
    <3>2. prev'[b] = tag /\ \A c \in C : prev'[c] = prev[c]
      BY <2>1, <3>1 DEF TypeOK
    <3>3. Leads(C \cup {b}, s)'
      BY <2>1, <2>2, <3>1, <3>2 DEF Leads, PastRecord
    <3> QED BY <3>3
  <2>5. ASSUME NEW b \in Builds, RevertTag(b) PROVE Leads(C, s)'
    <3>1. b # s
      BY <1>3, <2>5 DEF Earned, RevertTag, RefusedInv
    <3> QED BY <2>1, <2>2, <2>5, <3>1 DEF RevertTag, Leads
  <2> QED BY <1>1, <2>3, <2>4, <2>5 DEF DeleteActor
<1> QED BY <1>2, <1>3

\* Once a build is SUCCEEDED the Actor's tag is never missing again: the order of the two writes
\* (tag first), and reverts that give back only what their own build found.
THEOREM SucceededKeepsATag == Spec => []SucceededHasTag
<1>1. Init => RefusedInv /\ TagTrail
  BY DEF Init, RefusedInv, TagTrail, Earned, Gone
<1>2. TypeOK /\ TagTrail => SucceededHasTag
  BY BuildAssumption DEF BuildAssumption, TypeOK, TagTrail, Earned, Leads, SucceededHasTag
<1> QED
  BY <1>1, <1>2, RefusedStep, TrailStep, BuildTypeCorrect, PTL DEF Spec

\* A build that succeeded is tagged, and its tag is moved by a newer success only, for any number
\* of builds of the tag with aborts, errors and a crash.
THEOREM SucceededStaysTagged == Spec => SucceededIsTagged
  BY SucceededKeepsATag, SucceededTagKept, PTL DEF SucceededIsTagged, SucceededKeepsTag

-----------------------------------------------------------------------------
(* ImplementsJob: each build is a job.                                     *)

\* The gate of Job is this one.
LEMMA SameGate ==
    ASSUME NEW b
    PROVE  /\ \A s : AsJob(b)!ALLOWED_NEXT(s) = ALLOWED_NEXT(s)
           /\ \A s, next : AsJob(b)!transitionJobStatus(s, next) = transitionJobStatus(s, next)
           /\ \A s : AsJob(b)!isTerminalJobStatus(s) <=> isTerminalJobStatus(s)
           /\ AsJob(b)!Gone = Gone
  BY DEF AsJob!ALLOWED_NEXT, ALLOWED_NEXT, AsJob!transitionJobStatus, transitionJobStatus,
         AsJob!isTerminalJobStatus, isTerminalJobStatus, AsJob!TERMINAL_JOB_STATUSES,
         TERMINAL_JOB_STATUSES, AsJob!Gone, Gone

\* A build that was not started has no record, and none outlives the process.
Resting ==
    \A b \in Builds : /\ pc[b] = "none" => status[b] = Gone
                      /\ phase # "up" => pc[b] \in {"none", "done"}

\* What is done to a build by requests and the clock.
Request(b) ==
    BuildTimesOut(b) \/ RetryForPlatform(b) \/ AbortBuild(b) \/ AbortedWrite(b) \/ DeleteBuild(b)

\* The background function moves and writes its own build only, through the gate.
LEMMA BackgroundWrites ==
    ASSUME TypeOK, NEW b \in Builds, Background(b) \/ BuildStreamEnds(b)
    PROVE  /\ phase = "up" /\ phase' = "up"
           /\ pc[b] \notin {"none", "lost", "done"} /\ pc'[b] # "none"
           /\ pc'[b] = "lost" => pc[b] = "escaped" /\ status'[b] = status[b]
           /\ \A c \in Builds \ {b} : pc'[c] = pc[c] /\ status'[c] = status[c]
           /\ \/ status'[b] = status[b]
              \/ \E next \in {"RUNNING", "SUCCEEDED", "FAILED", "TIMED-OUT", "ABORTED"} :
                     status'[b] = transitionJobStatus(status[b], next)
<1>1. /\ phase = "up" /\ phase' = "up" /\ pc[b] \notin {"none", "lost", "done"}
      /\ \E s \in BuildStates \ {"none"} :
             Goto(b, s) /\ (s = "lost" => pc[b] = "escaped" /\ status'[b] = "READY")
  <2> USE DEF process, BuildStates
  <2>1. CASE PreStartCheck(b) \/ FailBuild(b) \/ CallDriver(b) \/ BuildReturns(b)
    BY <2>1 DEF PreStartCheck, FailBuild, CallDriver, BuildReturns
  <2>2. CASE BecomeRunning(b) \/ AbortWrite(b) \/ SucceededWrite(b) \/ CaughtWrite(b)
    BY <2>2 DEF BecomeRunning, AbortWrite, SucceededWrite, CaughtWrite
  <2>3. CASE RecordTag(b) \/ RevertTag(b)
    BY <2>3 DEF RecordTag, RevertTag
  <2>4. CASE Throws(b) \/ BuildStreamEnds(b)
    BY <2>4, BuildAssumption DEF BuildAssumption, Throws, BuildStreamEnds
  <2> QED BY <2>1, <2>2, <2>3, <2>4 DEF Background
<1>2. \/ status' = status
      \/ \E next \in {"RUNNING", "SUCCEEDED", "FAILED", "TIMED-OUT", "ABORTED"} :
             WriteStatus(b, next)
  BY DEF Background, BecomeRunning, PreStartCheck, AbortWrite, FailBuild, CallDriver,
         BuildReturns, RecordTag, SucceededWrite, RevertTag, Throws, CaughtWrite,
         BuildStreamEnds
<1>3. status'[b] = "READY" => status[b] = "READY"
  BY <1>2, WriteFacts, StatusNames
<1> QED BY <1>1, <1>2, <1>3, GotoFacts, WriteFacts, StatusNames

\* A request aborts its build, or deletes it once it is over.
LEMMA RequestWrites ==
    ASSUME TypeOK, NEW b \in Builds, Request(b)
    PROVE  /\ phase = "up" /\ phase' = "up" /\ pc' = pc
           /\ \A c \in Builds \ {b} : status'[c] = status[c]
           /\ \/ status'[b] = status[b]
              \/ \E next \in {"ABORTING", "ABORTED"} :
                     status'[b] = transitionJobStatus(status[b], next)
              \/ isTerminalJobStatus(status[b]) /\ status'[b] = Gone
<1> USE DEF process
<1>1. CASE BuildTimesOut(b) \/ RetryForPlatform(b)
  BY <1>1 DEF BuildTimesOut, RetryForPlatform
<1>2. CASE AbortBuild(b) \/ AbortedWrite(b)
  BY <1>2, WriteFacts, StatusNames DEF AbortBuild, AbortedWrite
<1>3. CASE DeleteBuild(b)
  BY <1>3 DEF DeleteBuild, TypeOK
<1> QED BY <1>1, <1>2, <1>3 DEF Request

\* A start touches no other build.
LEMMA StartWrites ==
    ASSUME TypeOK, NEW b \in Builds, StartBuild(b)
    PROVE  /\ phase = "up" /\ phase' = "up" /\ pc[b] = "none" /\ pc'[b] = "launched"
           /\ status'[b] = "READY"
           /\ \A c \in Builds \ {b} : pc'[c] = pc[c] /\ status'[c] = status[c]
  BY GotoFacts DEF StartBuild, TypeOK, BuildStates, process

\* Every step is of one of these kinds.
LEMMA StepKinds ==
    ASSUME [Next]_vars
    PROVE  \/ \E b \in Builds : StartBuild(b) \/ Background(b) \/ BuildStreamEnds(b) \/ Request(b)
           \/ Crash \/ ReconcileOrphanedJobs
           \/ UNCHANGED <<status, pc, phase>>
  BY DEF Next, Request, DeleteActor, vars, process

\* Inductive: a request finds nothing to write in a build that was not started.
LEMMA RestingStep ==
    ASSUME TypeOK, Resting, [Next]_vars
    PROVE  Resting'
<1>1. ASSUME NEW b \in Builds, StartBuild(b) PROVE Resting'
  BY <1>1, StartWrites DEF Resting
<1>2. ASSUME NEW b \in Builds, Background(b) \/ BuildStreamEnds(b) PROVE Resting'
  BY <1>2, BackgroundWrites DEF Resting
<1>3. ASSUME NEW b \in Builds, Request(b) PROVE Resting'
  <2>1. pc[b] = "none" => status'[b] = Gone
    BY <1>3, RequestWrites DEF Resting, transitionJobStatus, ALLOWED_NEXT, Gone
  <2> QED BY <1>3, <2>1, RequestWrites DEF Resting
<1>4. CASE Crash
  BY <1>4 DEF Crash, Resting
<1>5. CASE ReconcileOrphanedJobs
  BY <1>5 DEF ReconcileOrphanedJobs, Resting, transitionJobStatus, ALLOWED_NEXT, Gone
<1>6. CASE UNCHANGED <<status, pc, phase>>
  BY <1>6 DEF Resting
<1> QED BY <1>1, <1>2, <1>3, <1>4, <1>5, <1>6, StepKinds

\* What a status write through the gate is to the job, by whoever lives to make it.
LEMMA WriteIsAJobStep ==
    ASSUME NEW b \in Builds,
           NEW next \in {"RUNNING", "SUCCEEDED", "FAILED", "TIMED-OUT", "ABORTING", "ABORTED"},
           status'[b] = transitionJobStatus(status[b], next),
           \/ Worker(b) = "on" /\ (Worker(b)' = Worker(b) \/ AsJob(b)!Leaves)
           \/ Worker(b) = "off" /\ Worker(b)' = Worker(b) /\ next \in {"ABORTING", "ABORTED"}
    PROVE  [AsJob(b)!Next]_(AsJob(b)!jobVars)
<1>1. CASE next \notin ALLOWED_NEXT(status[b])
  BY <1>1 DEF transitionJobStatus, AsJob!Next, AsJob!Leave, AsJob!jobVars
<1>2. CASE next \in ALLOWED_NEXT(status[b])
  <2>1. AsJob(b)!Becomes(next)
    BY <1>2, SameGate DEF transitionJobStatus, AsJob!Becomes
  <2>2. AsJob(b)!Carry \/ AsJob(b)!Abort
    BY <2>1 DEF AsJob!Carry, AsJob!Abort, AsJob!Stays
  <2> QED BY <2>2 DEF AsJob!Next
<1> QED BY <1>1, <1>2

\* Every step of the system is, to each build, a step of its job or none, but for the one that
\* loses it.
LEMMA JobStep ==
    ASSUME TypeOK, Resting, BuildHasDriver', [Next]_vars, NEW c \in Builds
    PROVE  Loses(c) \/ [AsJob(c)!Next]_(AsJob(c)!jobVars)
<1>1. ASSUME status'[c] = status[c], pc'[c] = pc[c], phase' = phase
      PROVE  [AsJob(c)!Next]_(AsJob(c)!jobVars)
  BY <1>1 DEF AsJob!jobVars, Worker
<1>2. ASSUME NEW b \in Builds, StartBuild(b) PROVE [AsJob(c)!Next]_(AsJob(c)!jobVars)
  <2>1. CASE b = c
    <3>1. Worker(c) = "none" /\ Worker(c)' = "on" /\ status'[c] = "READY"
      BY <1>2, <2>1, StartWrites DEF Worker
    <3> QED BY <3>1 DEF AsJob!Next, AsJob!Start
  <2>2. CASE b # c
    BY <1>1, <1>2, <2>2, StartWrites
  <2> QED BY <2>1, <2>2
<1>3. ASSUME NEW b \in Builds, Background(b) \/ BuildStreamEnds(b)
      PROVE  Loses(c) \/ [AsJob(c)!Next]_(AsJob(c)!jobVars)
  <2>1. CASE b = c /\ pc'[c] # "lost"
    <3>1. Worker(c) = "on" /\ (Worker(c)' = "off" <=> pc'[c] = "done")
                           /\ (Worker(c)' = "on" <=> pc'[c] # "done")
      BY <1>3, <2>1, BackgroundWrites DEF Worker
    <3>2. pc'[c] = "done" => status'[c] \notin {"READY", "RUNNING"}
      BY <1>3, BackgroundWrites DEF BuildHasDriver, Owed
    <3>3. Worker(c)' = Worker(c) \/ AsJob(c)!Leaves
      BY <3>1, <3>2 DEF AsJob!Leaves
    <3>4. CASE status'[c] = status[c]
      BY <3>3, <3>4 DEF AsJob!Next, AsJob!Leave, AsJob!jobVars
    <3>5. ASSUME NEW next \in {"RUNNING", "SUCCEEDED", "FAILED", "TIMED-OUT", "ABORTED"},
                 status'[c] = transitionJobStatus(status[c], next)
          PROVE  [AsJob(c)!Next]_(AsJob(c)!jobVars)
      BY <3>1, <3>3, <3>5, WriteIsAJobStep
    <3> QED BY <1>3, <2>1, <3>4, <3>5, BackgroundWrites
  <2>2. CASE b = c /\ pc'[c] = "lost"
    BY <1>3, <2>2, BackgroundWrites DEF Loses
  <2>3. CASE b # c
    BY <1>1, <1>3, <2>3, BackgroundWrites
  <2> QED BY <2>1, <2>2, <2>3
<1>4. ASSUME NEW b \in Builds, Request(b) PROVE [AsJob(c)!Next]_(AsJob(c)!jobVars)
  <2>1. phase = "up" /\ phase' = "up" /\ pc' = pc
    BY <1>4, RequestWrites
  <2>2. CASE b # c \/ status'[c] = status[c]
    BY <1>1, <1>4, <2>1, <2>2, RequestWrites
  <2>3. CASE b = c /\ status'[c] # status[c]
    <3>1. pc[c] # "none"
      BY <1>4, <2>3, RequestWrites
         DEF Resting, transitionJobStatus, ALLOWED_NEXT, isTerminalJobStatus,
             TERMINAL_JOB_STATUSES, Gone
    <3>2. Worker(c) \in {"on", "off"} /\ Worker(c)' = Worker(c)
      BY <2>1, <3>1 DEF Worker
    <3>3. ASSUME NEW next \in {"ABORTING", "ABORTED"},
                 status'[c] = transitionJobStatus(status[c], next)
          PROVE  [AsJob(c)!Next]_(AsJob(c)!jobVars)
      BY <3>2, <3>3, WriteIsAJobStep
    <3>4. CASE isTerminalJobStatus(status[c]) /\ status'[c] = Gone
      BY <3>2, <3>4, SameGate
         DEF AsJob!Next, AsJob!Delete, AsJob!Stays, isTerminalJobStatus,
             TERMINAL_JOB_STATUSES, Gone
    <3> QED BY <1>4, <2>3, <3>3, <3>4, RequestWrites
  <2> QED BY <2>2, <2>3
<1>5. CASE Crash
  <2>1. CASE pc[c] = "none" \/ phase # "up"
    <3>1. pc'[c] = pc[c] /\ status'[c] = status[c] /\ phase' # "up"
      BY <1>5, <2>1 DEF Crash, Resting
    <3> QED BY <2>1, <3>1 DEF AsJob!jobVars, Worker
  <2>2. CASE pc[c] # "none" /\ phase = "up"
    <3>1. Worker(c) \in {"on", "off"} /\ Worker(c)' = "dead" /\ status'[c] = status[c]
      BY <1>5, <2>2 DEF Crash, Worker
    <3> QED BY <3>1 DEF AsJob!Next, AsJob!Die
  <2> QED BY <2>1, <2>2
<1>6. CASE ReconcileOrphanedJobs
  <2>1. /\ phase = "down" /\ phase' = "up" /\ pc' = pc
        /\ status'[c] = transitionJobStatus(status[c], "ABORTED")
    BY <1>6 DEF ReconcileOrphanedJobs
  <2>2. CASE pc[c] = "none"
    <3>1. status'[c] = status[c]
      BY <2>1, <2>2 DEF Resting, transitionJobStatus, ALLOWED_NEXT, Gone
    <3> QED BY <2>1, <2>2, <3>1 DEF AsJob!jobVars, Worker
  <2>3. CASE pc[c] # "none"
    <3>1. Worker(c) = "dead" /\ Worker(c)' = "off"
      BY <2>1, <2>3 DEF Resting, Worker
    <3> QED BY <2>1, <3>1, SameGate DEF AsJob!Next, AsJob!Reconcile
  <2> QED BY <2>2, <2>3
<1>7. CASE UNCHANGED <<status, pc, phase>>
  BY <1>1, <1>7
<1> QED BY <1>2, <1>3, <1>4, <1>5, <1>6, <1>7, StepKinds

\* Each build is a job (Job.tla), whatever the builds beside it, their aborts, deletes, storage errors
\* and the process do: its background function alone starts it or says how it ended, and does not
\* leave it READY or RUNNING but by the refused write that follows a RUNNING write that threw; and
\* a crash ends it, lost or not.
THEOREM BuildIsAJob == Spec => ImplementsJob
<1>1. Init => Resting /\ \A b \in Builds : AsJob(b)!Init
  BY DEF Init, Resting, AsJob!Init, Worker, Gone, AsJob!Gone
<1>2. TypeOK /\ Resting /\ BuildHasDriver' /\ [Next]_vars
        => [\A b \in Builds : Loses(b) \/ [AsJob(b)!Next]_(AsJob(b)!jobVars)]_vars
  BY JobStep
<1>3. TypeOK /\ Resting /\ [Next]_vars => Resting'
  BY RestingStep
<1> QED
  BY <1>1, <1>2, <1>3, BuildTypeCorrect, BuildNeverStuck, PTL DEF Spec, ImplementsJob

=============================================================================
