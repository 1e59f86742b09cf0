-------------------------- MODULE WebhookDispatches --------------------------
(***************************************************************************)
(* The webhooks of one run (services/webhook-dispatches.ts): each write of *)
(* the run's record that means something is an event; events are turned    *)
(* into dispatch records one at a time; a dispatch is attempted until it   *)
(* is delivered, cannot be, or has been retried often enough. The process  *)
(* may crash: events in memory, timers and attempts are lost, records are  *)
(* not, and the next start goes on from the records.                       *)
(*                                                                         *)
(* A storage access takes effect, and the code runs on to the next one, in *)
(* one step. A PUT that changes a webhook is one step too: what it writes  *)
(* besides isEnabled is not looked at here. Delays are abstracted: a timer *)
(* fires some time.                                                        *)
(***************************************************************************)
EXTENDS Naturals, Sequences, FiniteSets, FiniteSetsExt

CONSTANTS
    Webhooks,       \* the webhooks whose condition names the run (or its Actor, or task)
    Subscribed,     \* eventTypes of each
    AdHoc,          \* those that are ad-hoc ones of this run
    DoNotRetry,     \* those that are not retried
    MaxRetries,     \* MAX_RETRIES
    MaxTestRetries, \* MAX_TEST_RETRIES
    Tested,         \* bound: the webhooks a test dispatch is asked for
    Edited,         \* bound: the webhooks that are changed or deleted
    MaxEvents,      \* bound: the events the run has
    MaxFaults       \* bound: crashes of the process, and storage accesses that throw

Terminal == {"SUCCEEDED", "FAILED"}   \* RUN_TERMINAL_EVENTS, two of the four
EventTypes == Terminal \cup {"CREATED", "RESURRECTED"}

ASSUME WebhooksAssumption ==
    /\ IsFiniteSet(Webhooks)
    /\ Subscribed \in [Webhooks -> SUBSET EventTypes]
    /\ {AdHoc, DoNotRetry, Tested, Edited} \subseteq SUBSET Webhooks
    /\ MaxRetries \in Nat /\ MaxTestRetries \in Nat
    /\ MaxEvents \in Nat /\ MaxFaults \in Nat

VARIABLES
    runStatus,  \* of the run's record: "none", "live" or how it ended
    events,     \* history: the types of the run's events, the n-th is event n
    queue,      \* eventQueue: the numbers of the events not turned into dispatches yet
    making,     \* createDispatches of the first of them
    webhook,    \* the webhooks' records
    touched,    \* history: webhooks disabled or deleted at some time
    dispatch,   \* the dispatches' records, by webhook and event; event 0 is TEST
    timers,     \* dispatches with a timer
    attempt,    \* attempts in flight
    accepted,   \* history: how often a dispatch was answered 2xx
    up, crashes, failures   \* failures: storage accesses that threw

vars == <<runStatus, events, queue, making, webhook, touched, dispatch, timers, attempt,
          accepted, up, crashes, failures>>

Ids == Webhooks \X (0 .. MaxEvents)

NotMaking == [step |-> "no", obsolete |-> {}, matching |-> {}]

Init ==
    /\ runStatus = "none" /\ events = <<>> /\ queue = <<>> /\ making = NotMaking
    /\ webhook = [w \in Webhooks |-> "enabled"] /\ touched = {}
    /\ dispatch = [d \in Ids |-> [status |-> "none", calls |-> 0]]
    /\ timers = {} /\ attempt = [d \in Ids |-> "no"]
    /\ accepted = [d \in Ids |-> 0]
    /\ up = TRUE /\ crashes = 0 /\ failures = 0

dispatching == <<dispatch, timers, attempt, accepted>>

-----------------------------------------------------------------------------
(* The run's record.                                                       *)

\* jobEventTypes: what the write of status `next` over `previous` means.
jobEventType(previous, next) ==
    CASE previous = "none" -> "CREATED"
      [] previous \in Terminal /\ next = "live" -> "RESURRECTED"
      [] OTHER -> next

\* Mutant: an event does not wait for the ones before it.
RunWritten_Front(next) ==
    /\ up /\ Len(events) < MaxEvents
    /\ \/ runStatus = "live" /\ next \in Terminal
       \/ runStatus # "live" /\ next = "live"
    /\ runStatus' = next
    /\ events' = Append(events, jobEventType(runStatus, next))
    /\ queue' = <<Len(events) + 1>> \o queue
    /\ UNCHANGED <<making, webhook, touched, dispatching, up, crashes, failures>>

\* The listener of the runs' registry: the write's event joins the queue.
RunWritten(next) ==
    /\ up /\ Len(events) < MaxEvents
    /\ \/ runStatus = "live" /\ next \in Terminal
       \/ runStatus # "live" /\ next = "live"
    /\ runStatus' = next
    /\ events' = Append(events, jobEventType(runStatus, next))
    /\ queue' = Append(queue, Len(events) + 1)
    /\ UNCHANGED <<making, webhook, touched, dispatching, up, crashes, failures>>

-----------------------------------------------------------------------------
(* From an event to its dispatches.                                        *)

\* deleteObsoleteAdHocWebhooks: the ad-hoc webhooks that wait for another end only.
Obsolete(type) ==
    {w \in AdHoc : /\ webhook[w] # "deleted" /\ type \in Terminal
                   /\ type \notin Subscribed[w] /\ Subscribed[w] \cap Terminal # {}}

Matching(type) == {w \in Webhooks : webhook[w] = "enabled" /\ type \in Subscribed[w]}

\* createDispatches lists the webhooks; what it does next goes by this list.
ListWebhooks ==
    /\ up /\ making.step = "no" /\ queue # <<>>
    /\ LET type == events[Head(queue)]
       IN  making' = [step |-> "delete", obsolete |-> Obsolete(type), matching |-> Matching(type)]
    /\ UNCHANGED <<runStatus, events, queue, webhook, touched, dispatching, up, crashes, failures>>

DeleteObsolete(w) ==
    /\ up /\ making.step = "delete" /\ w \in making.obsolete
    /\ webhook' = [webhook EXCEPT ![w] = "deleted"]
    /\ touched' = touched \cup {w}
    /\ making' = [making EXCEPT !.obsolete = @ \ {w}]
    /\ UNCHANGED <<runStatus, events, queue, dispatching, up, crashes, failures>>

\* insertDispatch: the record, and its first attempt at once.
InsertDispatch(d) ==
    /\ dispatch' = [dispatch EXCEPT ![d] = [status |-> "ACTIVE", calls |-> 0]]
    /\ timers' = timers \cup {d}
    /\ UNCHANGED <<attempt, accepted>>

CreateDispatch(w) ==
    /\ up /\ making.step = "delete" /\ making.obsolete = {} /\ w \in making.matching
    /\ InsertDispatch(<<w, Head(queue)>>)
    /\ making' = [making EXCEPT !.matching = @ \ {w}]
    /\ UNCHANGED <<runStatus, events, queue, webhook, touched, up, crashes, failures>>

\* Mutant: a dispatch is created for the first matching webhook only.
EventDone_First ==
    /\ up /\ making.step = "delete" /\ making.obsolete = {}
    /\ making' = NotMaking /\ queue' = Tail(queue)
    /\ UNCHANGED <<runStatus, events, webhook, touched, dispatching, up, crashes, failures>>

EventDone ==
    /\ up /\ making.step = "delete" /\ making.obsolete = {} /\ making.matching = {}
    /\ making' = NotMaking /\ queue' = Tail(queue)
    /\ UNCHANGED <<runStatus, events, webhook, touched, dispatching, up, crashes, failures>>

\* A storage access throws: enqueueEvent logs it, the rest of the event is dropped.
EventFails ==
    /\ up /\ crashes + failures < MaxFaults /\ queue # <<>>
    /\ making' = NotMaking /\ queue' = Tail(queue)
    /\ failures' = failures + 1
    /\ UNCHANGED <<runStatus, events, webhook, touched, dispatching, up, crashes>>

\* POST /v2/webhooks/:webhookId/test, once; for a disabled webhook too.
CreateTestDispatch(w) ==
    /\ up /\ w \in Tested /\ webhook[w] # "deleted" /\ dispatch[w, 0].status = "none"
    /\ InsertDispatch(<<w, 0>>)
    /\ UNCHANGED <<runStatus, events, queue, making, webhook, touched, up, crashes, failures>>

-----------------------------------------------------------------------------
(* An attempt.                                                             *)

SetAttempt(d, step) == attempt' = [attempt EXCEPT ![d] = step]

TimerFires(d) ==
    /\ up /\ d \in timers
    /\ timers' = timers \ {d}
    /\ SetAttempt(d, "started")
    /\ UNCHANGED <<runStatus, events, queue, making, webhook, touched, dispatch, accepted, up, crashes, failures>>

\* The webhook may still be used: TEST dispatches go out while it is disabled.
Allowed(d) == webhook[d[1]] = "enabled" \/ (webhook[d[1]] = "disabled" /\ d[2] = 0)

\* attemptDispatch up to the request: over already, refused, or sent.
AttemptDispatch(d) ==
    /\ up /\ attempt[d] = "started"
    /\ SetAttempt(d, IF dispatch[d].status # "ACTIVE" THEN "no"
                     ELSE IF Allowed(d) THEN "sent" ELSE "FAILED")
    /\ UNCHANGED <<runStatus, events, queue, making, webhook, touched, dispatch, timers, accepted, up, crashes, failures>>

\* deliver: accepted (2xx), worth another try (ACTIVE), or hopeless (template, URL).
Deliver(d, outcome) ==
    /\ up /\ attempt[d] = "sent"
    /\ SetAttempt(d, outcome)
    /\ accepted' = [accepted EXCEPT ![d] = @ + IF outcome = "SUCCEEDED" THEN 1 ELSE 0]
    /\ UNCHANGED <<runStatus, events, queue, making, webhook, touched, dispatch, timers, up, crashes, failures>>

\* Mutant: the retries are not counted.
MayRetry_Always(d) == d[1] \notin DoNotRetry

\* Whether finishAttempt lets a failed attempt be retried.
MayRetry(d) ==
    /\ d[1] \notin DoNotRetry
    /\ dispatch[d].calls < IF d[2] = 0 THEN MaxTestRetries ELSE MaxRetries

\* Mutant: the next attempt is scheduled before the record is written.
FinishAttempt_Early(d) ==
    /\ up /\ attempt[d] \in {"SUCCEEDED", "ACTIVE", "FAILED"}
    /\ timers' = timers \cup {d}
    /\ SetAttempt(d, "written")
    /\ dispatch' = [dispatch EXCEPT
           ![d].status = IF attempt[d] = "ACTIVE" /\ ~MayRetry(d) THEN "FAILED" ELSE attempt[d],
           ![d].calls = @ + 1]
    /\ UNCHANGED <<runStatus, events, queue, making, webhook, touched, accepted, up, crashes, failures>>

\* Mutant: a dispatch that was accepted stays ACTIVE.
FinishAttempt_StaysActive(d) ==
    /\ up /\ attempt[d] \in {"SUCCEEDED", "ACTIVE", "FAILED"}
    /\ SetAttempt(d, "written")
    /\ dispatch' = [dispatch EXCEPT
           ![d].status = IF attempt[d] = "FAILED" \/ ~MayRetry(d) THEN "FAILED" ELSE "ACTIVE",
           ![d].calls = @ + 1]
    /\ UNCHANGED <<runStatus, events, queue, making, webhook, touched, timers, accepted, up, crashes, failures>>

\* finishAttempt: the dispatch's record; the webhook's lastDispatch is next.
FinishAttempt(d) ==
    /\ up /\ attempt[d] \in {"SUCCEEDED", "ACTIVE", "FAILED"}
    /\ SetAttempt(d, "written")
    /\ dispatch' = [dispatch EXCEPT
           ![d].status = IF attempt[d] = "ACTIVE" /\ ~MayRetry(d) THEN "FAILED" ELSE attempt[d],
           ![d].calls = @ + 1]
    /\ UNCHANGED <<runStatus, events, queue, making, webhook, touched, timers, accepted, up, crashes, failures>>

\* The webhook's record is written (if it is still there), and the retry scheduled.
AttemptOver(d) ==
    /\ up /\ attempt[d] = "written"
    /\ SetAttempt(d, "no")
    /\ timers' = IF dispatch[d].status = "ACTIVE" THEN timers \cup {d} ELSE timers
    /\ UNCHANGED <<runStatus, events, queue, making, webhook, touched, dispatch, accepted, up, crashes, failures>>

\* A storage access of the attempt throws: it is logged and the attempt is over.
AttemptFails(d) ==
    /\ up /\ crashes + failures < MaxFaults /\ attempt[d] \notin {"no", "sent"}
    /\ SetAttempt(d, "no")
    /\ failures' = failures + 1
    /\ UNCHANGED <<runStatus, events, queue, making, webhook, touched, dispatch, timers, accepted, up, crashes>>

-----------------------------------------------------------------------------
(* Around the dispatcher.                                                  *)

\* PUT and DELETE /v2/webhooks/:webhookId, and the deletes of Actors and tasks.
WebhookWritten(w, next) ==
    /\ up /\ w \in Edited /\ webhook[w] \notin {"deleted", next}
    /\ webhook' = [webhook EXCEPT ![w] = next]
    /\ touched' = touched \cup {w}
    /\ UNCHANGED <<runStatus, events, queue, making, dispatching, up, crashes, failures>>

Crash ==
    /\ up /\ crashes + failures < MaxFaults
    /\ up' = FALSE /\ crashes' = crashes + 1 /\ UNCHANGED failures
    /\ queue' = <<>> /\ making' = NotMaking
    /\ timers' = {} /\ attempt' = [d \in Ids |-> "no"]
    /\ UNCHANGED <<runStatus, events, webhook, touched, dispatch, accepted>>

\* Mutant: the dispatches a previous process left are not taken up.
Resumed_None == {}

\* The dispatches startWebhookDispatcher schedules.
Resumed == {d \in Ids : dispatch[d].status = "ACTIVE"}

\* startWebhookDispatcher, then reconcileOrphanedJobs: the run the crash left live ends.
Restart ==
    /\ ~up /\ up' = TRUE
    /\ timers' = Resumed
    /\ \/ /\ runStatus = "live" /\ Len(events) < MaxEvents
          /\ runStatus' = "FAILED"
          /\ events' = Append(events, "FAILED") /\ queue' = <<Len(events) + 1>>
       \/ /\ runStatus # "live" \/ Len(events) = MaxEvents
          /\ UNCHANGED <<runStatus, events, queue>>
    /\ UNCHANGED <<making, webhook, touched, dispatch, attempt, accepted, crashes, failures>>

-----------------------------------------------------------------------------

EventStep ==
    ListWebhooks \/ EventDone \/ \E w \in Webhooks : DeleteObsolete(w) \/ CreateDispatch(w)

AttemptStep(d) ==
    \/ TimerFires(d) \/ AttemptDispatch(d) \/ FinishAttempt(d) \/ AttemptOver(d)
    \/ \E outcome \in {"SUCCEEDED", "ACTIVE", "FAILED"} : Deliver(d, outcome)

Next ==
    \/ \E next \in Terminal \cup {"live"} : RunWritten(next)
    \/ EventStep \/ EventFails
    \/ \E w \in Webhooks :
           CreateTestDispatch(w) \/ \E next \in {"enabled", "disabled", "deleted"} : WebhookWritten(w, next)
    \/ \E d \in Ids : AttemptStep(d) \/ AttemptFails(d)
    \/ Crash \/ Restart

Spec == Init /\ [][Next]_vars

\* Storage answers, timers fire, a request ends (it has a timeout), and the process is
\* started again after a crash.
Fairness ==
    /\ WF_vars(EventStep) /\ WF_vars(Restart)
    /\ \A d \in Ids : WF_vars(AttemptStep(d))

FairSpec == Spec /\ Fairness

-----------------------------------------------------------------------------
(* Properties                                                              *)

\* A dispatch is never attempted more often than its retries allow, test dispatches
\* included, whatever crashes and restarts come in between.
CallsBounded ==
    \A d \in Ids : dispatch[d].calls <= 1 + IF d[2] = 0 THEN MaxTestRetries ELSE MaxRetries

\* While the process is up, a dispatch that is not over has a timer or an attempt that
\* will move it on; and never both, so its attempts do not overlap.
ActiveIsPending ==
    up /\ failures = 0 =>
        \A d \in Ids : dispatch[d].status = "ACTIVE" => (d \in timers) # (attempt[d] # "no")

\* The receiver accepts a dispatch once; a crash before that is recorded may repeat it.
AcceptedOnce == \A d \in Ids : accepted[d] <= 1 + crashes

\* A delivery ends in time and is not made twice: attempts are counted, do not overlap, and
\* stop once the receiver accepted one.
DeliveredOnce == AcceptedOnce /\ CallsBounded /\ ActiveIsPending

\* No event is forgotten: for a webhook that was always enabled, an event it subscribes
\* to waits in the queue or has its dispatch, unless a crash lost it.
NoEventMissed ==
    /\ [](crashes = 0 /\ failures = 0 =>
           \A n \in DOMAIN events, w \in Webhooks \ touched :
               events[n] \in Subscribed[w] => \/ dispatch[w, n].status # "none"
                                              \/ \E i \in DOMAIN queue : queue[i] = n)
    /\ [][\A w \in Webhooks, n, m \in 1 .. MaxEvents :
             n < m /\ dispatch[w, m].status # "none" /\ dispatch[w, n].status = "none"
                 => dispatch'[w, n].status = "none"]_vars

\* Once the run has no more events every dispatch comes to an end: delivered, refused
\* or given up. A storage access that throws may leave one to the next start.
DispatchEnds ==
    <>[](failures > 0 \/ \A d \in Ids : dispatch[d].status # "ACTIVE")

\* The comment on deleteObsoleteAdHocWebhooks: once a run finished one way, its ad-hoc
\* webhooks waiting only for another way "can never fire". So no event they wait for
\* comes after their deletion.
\* Refuted: see README.md, Findings.
ObsoleteNeverFires ==
    [][\A w \in AdHoc \ Edited :
           webhook[w] = "deleted" /\ webhook'[w] = "deleted" /\ Len(events') > Len(events)
               => events'[Len(events')] \notin Subscribed[w]]_vars

=============================================================================
