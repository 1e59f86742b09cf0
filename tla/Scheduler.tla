------------------------------ MODULE Scheduler ------------------------------
(***************************************************************************)
(* One schedule and its timer (services/scheduler.ts): writes of the       *)
(* schedule's record arm the timer, the timer and manual invocations run   *)
(* the schedule's actions one after the other under a lock of the          *)
(* schedule, and each invocation by the timer sets when the next is due.   *)
(*                                                                         *)
(* Time is a number of ticks; the cron expression is "every Period ticks". *)
(* A storage access takes effect and the code runs on to the next one in   *)
(* one step. The action's target and options are not looked at: starting   *)
(* its run works or fails.                                                 *)
(***************************************************************************)
EXTENDS Integers, Sequences, FiniteSets, FiniteSetsExt

CONSTANTS
    Actions,      \* the ids of the schedule's actions
    Period,       \* the cron expression: due at the multiples of Period
    MinInterval,  \* MIN_INTERVAL_BETWEEN_RUNS_SECS
    MaxDelay,     \* MAX_TIMER_DELAY_MILLIS: the longest a timer can be set for
    MaxLog,       \* MAX_LOG_MESSAGES
    MaxTime,      \* bound: the last tick
    MaxManual,    \* bound: manual invocations
    MaxEdits,     \* bound: writes of the schedule by users
    MaxFaults     \* bound: crashes, and invocations that throw

ASSUME SchedulerAssumption ==
    /\ IsFiniteSet(Actions)
    /\ Period \in Nat \ {0} /\ MinInterval \in Nat
    /\ MaxDelay \in Nat \ {0} /\ MaxLog \in Nat
    /\ {MaxTime, MaxManual, MaxEdits, MaxFaults} \subseteq Nat

VARIABLES
    now,
    schedule,  \* the record: exists, isEnabled, actions, nextRunAt, lastRunAt, log
    timer,     \* when the schedule's timer fires, or Never
    locked,    \* the invocations that hold or wait for the schedule's lock, in order
    live,      \* the unfinished runs of each action
    runTimes,  \* history: due time and start of each invocation by the timer
    up, manual, edits, crashes,
    throws     \* invocations that threw

vars == <<now, schedule, timer, locked, live, runTimes, up, manual, edits, crashes, throws>>

Never == -1   \* null: not scheduled, not run yet

-----------------------------------------------------------------------------
(* When a schedule is due.                                                 *)

\* Mutant: the last run is not looked at.
computeNextRunAt_NoInterval(last) == CHOOSE t \in now + 1 .. now + Period : t % Period = 0

\* The first time of the expression after now that keeps the distance to the last run.
computeNextRunAt(last) ==
    Min({t \in now + 1 .. now + Period + MinInterval :
            t % Period = 0 /\ (last = Never \/ t - last >= MinInterval)})

\* nextRunAtOf, for a record that was just changed.
nextRunAtOf(s) == IF s.isEnabled THEN computeNextRunAt(s.lastRunAt) ELSE Never

\* arm: the timer for record s, instead of the one there was; it may fire before s is
\* due, if that is too far off. Nothing happens for a schedule that was deleted.
Arm(s) ==
    timer' = IF ~s.exists THEN timer
             ELSE IF s.isEnabled THEN Min({s.nextRunAt, now + MaxDelay}) ELSE Never

\* A write of the record, and the listener of the registry.
Write(s) == schedule' = s /\ Arm(s)

Init ==
    /\ now = 0
    /\ schedule = [exists |-> TRUE, isEnabled |-> TRUE, actions |-> Actions,
                   nextRunAt |-> Period, lastRunAt |-> Never, log |-> 0]
    /\ timer = Min({Period, MaxDelay})
    /\ locked = <<>>
    /\ live = [a \in Actions |-> 0]
    /\ runTimes = <<>>
    /\ up = TRUE /\ manual = 0 /\ edits = 0 /\ crashes = 0 /\ throws = 0

Tick ==
    /\ now < MaxTime
    /\ now' = now + 1
    /\ UNCHANGED <<schedule, timer, locked, live, runTimes, up, manual, edits, crashes, throws>>

-----------------------------------------------------------------------------
(* An invocation.                                                          *)

Invocation(byTimer, actions) ==
    [byTimer |-> byTimer, at |-> "waiting", startedAt |-> Never, todo |-> actions, next |-> {}]

\* Mutant: an invocation does not wait for the ones before it.
Holds_All(i) == i \in DOMAIN locked

\* invokeLocks.run: the first invocation in line holds the lock.
Holds(i) == i = 1 /\ locked # <<>>

Leaves(i) == locked' = SubSeq(locked, 1, i - 1) \o SubSeq(locked, i + 1, Len(locked))

Goes(i, invocation) == locked' = [locked EXCEPT ![i] = invocation]

TimerFires ==
    /\ up /\ timer # Never /\ timer <= now
    /\ timer' = Never
    /\ locked' = Append(locked, Invocation(TRUE, {}))
    /\ UNCHANGED <<now, schedule, live, runTimes, up, manual, edits, crashes, throws>>

\* POST /v2/schedules/:scheduleId/invoke: with the record the route read.
InvokeManually ==
    /\ up /\ schedule.exists /\ manual < MaxManual
    /\ manual' = manual + 1
    /\ locked' = Append(locked, Invocation(FALSE, schedule.actions))
    /\ UNCHANGED <<now, schedule, timer, live, runTimes, up, edits, crashes, throws>>

Due == schedule.exists /\ schedule.isEnabled /\ schedule.nextRunAt <= now

\* Mutant: a timer that fired before the schedule is due is not set again.
Fire_NotRearmed(i) ==
    /\ up /\ Holds(i) /\ locked[i].byTimer /\ locked[i].at = "waiting"
    /\ \/ /\ Due
          /\ Goes(i, [locked[i] EXCEPT !.at = "acting", !.startedAt = now, !.todo = schedule.actions])
          /\ runTimes' = Append(runTimes, [due |-> schedule.nextRunAt, started |-> now])
          /\ UNCHANGED timer
       \/ /\ ~Due /\ schedule.exists /\ schedule.isEnabled
          /\ Leaves(i)
          /\ UNCHANGED <<timer, runTimes>>
       \/ /\ ~schedule.exists \/ ~schedule.isEnabled
          /\ Leaves(i)
          /\ UNCHANGED <<timer, runTimes>>
    /\ UNCHANGED <<now, schedule, live, up, manual, edits, crashes, throws>>

\* fire: the record as it is now decides.
Fire(i) ==
    /\ up /\ Holds(i) /\ locked[i].byTimer /\ locked[i].at = "waiting"
    /\ \/ /\ Due
          /\ Goes(i, [locked[i] EXCEPT !.at = "acting", !.startedAt = now, !.todo = schedule.actions])
          /\ runTimes' = Append(runTimes, [due |-> schedule.nextRunAt, started |-> now])
          /\ UNCHANGED timer
       \/ /\ ~Due /\ schedule.exists /\ schedule.isEnabled
          /\ Leaves(i) /\ Arm(schedule)
          /\ UNCHANGED runTimes
       \/ /\ ~schedule.exists \/ ~schedule.isEnabled
          /\ Leaves(i)
          /\ UNCHANGED <<timer, runTimes>>
    /\ UNCHANGED <<now, schedule, live, up, manual, edits, crashes, throws>>

ManualStarts(i) ==
    /\ up /\ Holds(i) /\ ~locked[i].byTimer /\ locked[i].at = "waiting"
    /\ Goes(i, [locked[i] EXCEPT !.at = "acting", !.startedAt = now])
    /\ UNCHANGED <<now, schedule, timer, live, runTimes, up, manual, edits, crashes, throws>>

\* hasUnfinishedRun: the next action is skipped while a run of it is not finished.
CheckAction(i, a) ==
    /\ up /\ Holds(i) /\ locked[i].at = "acting" /\ locked[i].next = {} /\ a \in locked[i].todo
    /\ Goes(i, [locked[i] EXCEPT !.todo = @ \ {a}, !.next = IF live[a] > 0 THEN {} ELSE {a}])
    /\ UNCHANGED <<now, schedule, timer, live, runTimes, up, manual, edits, crashes, throws>>

\* startActionRun: the run is there, or it could not be started and is logged.
StartActionRun(i, a) ==
    /\ up /\ Holds(i) /\ locked[i].next = {a}
    /\ Goes(i, [locked[i] EXCEPT !.next = {}])
    /\ \/ live' = [live EXCEPT ![a] = @ + 1]
       \/ UNCHANGED live
    /\ UNCHANGED <<now, schedule, timer, runTimes, up, manual, edits, crashes, throws>>

\* appendLogs: one message more, the last MaxLog of them are kept.
appendLogs(n) == Min({n + 1, MaxLog})

\* Mutant: the next run is computed before the last one is recorded.
Recorded_StaleLast(s, invocation) ==
    LET logged == [s EXCEPT !.log = appendLogs(@)]
    IN  IF invocation.byTimer
        THEN [logged EXCEPT !.lastRunAt = invocation.startedAt, !.nextRunAt = nextRunAtOf(s)]
        ELSE logged

\* What the invocation leaves in the record: a manual one nothing but its log.
Recorded(s, invocation) ==
    LET logged == [s EXCEPT !.log = appendLogs(@)]
        ran    == [logged EXCEPT !.lastRunAt = invocation.startedAt]
    IN  IF invocation.byTimer THEN [ran EXCEPT !.nextRunAt = nextRunAtOf(ran)] ELSE logged

\* Mutant: the record is written past the listener that arms the timer.
InvocationEnds_NotArmed(i) ==
    /\ up /\ Holds(i) /\ locked[i].at = "acting" /\ locked[i].todo = {} /\ locked[i].next = {}
    /\ Leaves(i)
    /\ schedule' = IF schedule.exists THEN Recorded(schedule, locked[i]) ELSE schedule
    /\ UNCHANGED <<now, timer, live, runTimes, up, manual, edits, crashes, throws>>

\* The end of fire and of invokeScheduleManually: the record is written, if it is there.
InvocationEnds(i) ==
    /\ up /\ Holds(i) /\ locked[i].at = "acting" /\ locked[i].todo = {} /\ locked[i].next = {}
    /\ Leaves(i)
    /\ IF schedule.exists
       THEN Write(Recorded(schedule, locked[i]))
       ELSE UNCHANGED <<schedule, timer>>
    /\ UNCHANGED <<now, live, runTimes, up, manual, edits, crashes, throws>>

\* A storage access throws: the error is logged or answered, the record stays as it is.
InvocationFails(i) ==
    /\ up /\ Holds(i) /\ locked[i].at = "acting" /\ crashes + throws < MaxFaults
    /\ Leaves(i)
    /\ throws' = throws + 1
    /\ UNCHANGED <<now, schedule, timer, live, runTimes, up, manual, edits, crashes>>

RunEnds(a) ==
    /\ live[a] > 0
    /\ live' = [live EXCEPT ![a] = @ - 1]
    /\ UNCHANGED <<now, schedule, timer, locked, runTimes, up, manual, edits, crashes, throws>>

-----------------------------------------------------------------------------
(* Around the scheduler.                                                   *)

\* updateSchedule: a PUT, with the switch as it is or changed.
UpdateSchedule(isEnabled) ==
    /\ up /\ schedule.exists /\ edits < MaxEdits
    /\ edits' = edits + 1
    /\ LET next == [schedule EXCEPT !.isEnabled = isEnabled]
       IN  Write([next EXCEPT !.nextRunAt = nextRunAtOf(next)])
    /\ UNCHANGED <<now, locked, live, runTimes, up, manual, crashes, throws>>

\* removeScheduleActionsFor: the Actor or the task an action names is deleted.
RemoveScheduleAction(a) ==
    /\ up /\ schedule.exists /\ a \in schedule.actions /\ edits < MaxEdits
    /\ edits' = edits + 1
    /\ Write([schedule EXCEPT !.actions = @ \ {a}])
    /\ UNCHANGED <<now, locked, live, runTimes, up, manual, crashes, throws>>

DeleteSchedule ==
    /\ up /\ schedule.exists /\ edits < MaxEdits
    /\ edits' = edits + 1
    /\ Write([schedule EXCEPT !.exists = FALSE])
    /\ UNCHANGED <<now, locked, live, runTimes, up, manual, crashes, throws>>

Crash ==
    /\ up /\ crashes + throws < MaxFaults
    /\ up' = FALSE /\ crashes' = crashes + 1
    /\ timer' = Never /\ locked' = <<>>
    /\ UNCHANGED <<now, schedule, live, runTimes, manual, edits, throws>>

\* Mutant: the run time that passed while the process was down is kept.
Rescheduled_Kept(s) == s

\* What startScheduler makes of a record: an overdue run time is computed anew.
Rescheduled(s) ==
    IF s.isEnabled /\ s.nextRunAt <= now THEN [s EXCEPT !.nextRunAt = nextRunAtOf(s)] ELSE s

\* reconcileOrphanedJobs ended the runs of before; startScheduler.
Restart ==
    /\ ~up /\ up' = TRUE
    /\ live' = [a \in Actions |-> 0]
    /\ IF schedule.exists THEN Write(Rescheduled(schedule)) ELSE UNCHANGED <<schedule, timer>>
    /\ UNCHANGED <<now, locked, runTimes, manual, edits, crashes, throws>>

-----------------------------------------------------------------------------

InvocationStep(i) ==
    \/ Fire(i) \/ ManualStarts(i) \/ InvocationEnds(i)
    \/ \E a \in Actions : CheckAction(i, a) \/ StartActionRun(i, a)

Next ==
    \/ Tick \/ TimerFires \/ InvokeManually
    \/ \E i \in DOMAIN locked : InvocationStep(i) \/ InvocationFails(i)
    \/ \E a \in Actions : RunEnds(a) \/ RemoveScheduleAction(a)
    \/ \E isEnabled \in BOOLEAN : UpdateSchedule(isEnabled)
    \/ DeleteSchedule \/ Crash \/ Restart

Spec == Init /\ [][Next]_vars

\* Time goes on, a timer that is due fires, storage answers; no run has to end.
Fairness ==
    /\ WF_vars(Tick) /\ WF_vars(TimerFires) /\ WF_vars(Restart)
    /\ WF_vars(\E i \in DOMAIN locked : InvocationStep(i))

FairSpec == Spec /\ Fairness

-----------------------------------------------------------------------------
(* Properties                                                              *)

Firing == \E i \in DOMAIN locked : locked[i].byTimer

\* While the process is up, an enabled schedule has a timer that is not later than it is
\* due, or the timer has just had its turn: no order of edits, manual invocations and
\* firings leaves it unarmed. (An invocation that throws does; see InvocationFails.)
ArmedWhenEnabled ==
    up /\ throws = 0 /\ schedule.exists /\ schedule.isEnabled =>
        (timer # Never /\ timer <= schedule.nextRunAt) \/ Firing

\* An exclusive schedule never has two unfinished runs of one action, however the
\* timer, manual invocations and edits interleave.
ExclusiveRuns == \A a \in Actions : live[a] <= 1

\* schedule-cron.ts: "never within 10 seconds of the last run". Firings queued up behind
\* the lock, and edits made while one is under way, do not bring the next one nearer.
IntervalKept ==
    crashes + throws = 0 =>
        \A i \in 1 .. Len(runTimes) - 1 : runTimes[i + 1].due - runTimes[i].started >= MinInterval

\* The timer invokes the schedule at most once for each time it is due, also when it
\* fires again before the first invocation is over, and after a restart.
FiredOnce ==
    throws = 0 => \A i, j \in DOMAIN runTimes : runTimes[i].due = runTimes[j].due => i = j

\* One invocation for each time a schedule is due, and the times as far apart as promised.
TimesKept == FiredOnce /\ IntervalKept

\* A schedule that is due is invoked, or it is changed so that it is not due any more.
DueGetsInvoked ==
    (schedule.exists /\ schedule.isEnabled /\ schedule.nextRunAt <= now)
        ~> (throws > 0 \/ ~schedule.exists \/ ~schedule.isEnabled \/ schedule.nextRunAt > now)

=============================================================================
