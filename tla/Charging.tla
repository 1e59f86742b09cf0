------------------------------- MODULE Charging -------------------------------
(***************************************************************************)
(* Pay-per-event charging of one run (services/charging.ts): charge calls  *)
(* of the Actor and pushes to the run's default dataset add to the counts  *)
(* of its record, each call under an idempotency key, and the call that    *)
(* takes the total to the run's cap stamps the record and aborts the run.  *)
(*                                                                         *)
(* Prices are numbers of cents. A write of the record takes effect in one  *)
(* step, and the code runs on to its next write in the same step; one that *)
(* fails has had no effect. The run itself is its status: RunLifecycle has *)
(* the rest of it. A crash forgets the keys and the calls, and the startup *)
(* reconciliation ends the run before anything is charged again.           *)
(***************************************************************************)
EXTENDS Integers, FiniteSets, FiniteSetsExt

CONSTANTS
    Calls,        \* what may be charged: calls of the charge endpoint and pushes
    Keys,         \* idempotency keys
    Prices,       \* eventPriceUsd of each of Events
    Caps,         \* the values of maxTotalChargeUsd; NoCap is one that is absent or 0
    Ttl,          \* IDEMPOTENCY_TTL_MS
    MaxStarts,    \* bound: starts of the run, resurrections included
    MaxTime,      \* bound: the last tick
    MaxFaults,        \* bound: storage errors
    MaxChargeCrashes  \* bound: how often the process dies

Events == {"start", "item", "custom"}   \* apify-actor-start, apify-default-dataset-item, others
NoCap == 0

ASSUME ChargingAssumption ==
    /\ IsFiniteSet(Calls) /\ IsFiniteSet(Keys)
    /\ Prices \in [Events -> Nat]
    /\ Caps \subseteq Nat /\ Caps # {}
    /\ Ttl \in Nat \ {0}
    /\ {MaxStarts, MaxTime, MaxFaults, MaxChargeCrashes} \subseteq Nat

VARIABLES
    run,         \* the record: status, cap, counts, stopped, message, isStatusMessageFromRuntime
    registered,  \* defaultDatasetRuns has the run
    reserved,    \* idempotencyRecords: when the entry of a key expires, or Free
    call,        \* where each call is, with its key and the record it last saw
    now, starts, faults, crashes,
    counted,     \* history: what each call added to the counts, and when it reserved its key
    charged      \* history: the last charge since the last start looked at the cap, or will

chargingVars == <<run, registered, reserved, call, now, starts, faults, crashes, counted, charged>>

Free == -1
Statuses == {"READY", "RUNNING", "ABORTING", "ENDED"}
Messages == {"none", "actor", "cap", "orphaned"}
Runs == [status : Statuses, cap : Nat, counts : [Events -> Nat],
         stopped : BOOLEAN, message : Messages, fromRuntime : BOOLEAN]

\* The price of some counts of the events, and of those of a record.
sumEventUsageUsd(counts) == MapThenSumSet(LAMBDA e : counts[e] * Prices[e], Events)
Total(r) == sumEventUsageUsd(r.counts)

-----------------------------------------------------------------------------
FreshCounts == [e \in Events |-> IF e = "start" THEN 1 ELSE 0]   \* initialChargedEventCounts

\* startRun, with its cap.
ChargingInit ==
    /\ \E cap \in Caps :
        run = [status |-> "READY", cap |-> cap, counts |-> FreshCounts, stopped |-> FALSE,
               message |-> "none", fromRuntime |-> FALSE]
    /\ registered = TRUE
    /\ reserved = [k \in Keys |-> Free]
    /\ call = [c \in Calls |-> [at |-> "idle"]]
    /\ now = 0 /\ starts = 1 /\ faults = 0 /\ crashes = 0
    /\ counted = {}
    /\ charged = FALSE

-----------------------------------------------------------------------------
(* A charge: reserve the key, add to the count, enforce the cap.           *)

Goto(c, place) == call' = [call EXCEPT ![c].at = place]

\* pruneIdempotencyRecords.
Pruned == [k \in Keys |-> IF reserved[k] <= now THEN Free ELSE reserved[k]]

\* Mutant: the key is reserved by the write of the count, not before it.
Charge_LateReserve(c, k) ==
    /\ call[c].at = "idle"
    /\ reserved' = Pruned
    /\ call' = [call EXCEPT ![c] =
           IF Pruned[k] # Free THEN [at |-> "replayed"]
           ELSE [at |-> "count", event |-> "custom", key |-> k, since |-> now]]
    /\ UNCHANGED <<run, registered, now, starts, faults, crashes, counted, charged>>

\* chargeEvent, up to its write. A key in use is answered as its first call was.
Charge(c, k) ==
    /\ call[c].at = "idle"
    /\ reserved' = IF Pruned[k] = Free THEN [Pruned EXCEPT ![k] = now + Ttl] ELSE Pruned
    /\ call' = [call EXCEPT ![c] =
           IF Pruned[k] # Free THEN [at |-> "replayed"]
           ELSE [at |-> "count", event |-> "custom", key |-> k, since |-> now]]
    /\ UNCHANGED <<run, registered, now, starts, faults, crashes, counted, charged>>

\* recordDefaultDatasetItems: a push is charged while the run's dataset is registered.
Push(c) ==
    /\ call[c].at = "idle"
    /\ call' = [call EXCEPT ![c] =
           IF registered THEN [at |-> "count", event |-> "item", since |-> now]
           ELSE [at |-> "done"]]
    /\ UNCHANGED <<run, registered, reserved, now, starts, faults, crashes, counted, charged>>

\* The checks at the head of enforceCostLimit, on record r.
Reached(r) == r.cap # NoCap /\ ~r.stopped /\ Total(r) >= r.cap

\* Mutant: the cap is checked against the record as it was before this charge.
Increment_StaleTotal(c) ==
    LET r == [run EXCEPT !.counts[call[c].event] = @ + 1]
    IN  /\ call[c].at = "count"
        /\ run' = r
        /\ counted' = counted \cup {<<c, call[c]>>}
        /\ charged' = TRUE
        /\ Goto(c, IF Reached(run) THEN "stamp" ELSE "done")
        /\ UNCHANGED <<registered, reserved, now, starts, faults, crashes>>

\* incrementChargedEventCount; the record it wrote is the one the cap is checked against.
Increment(c) ==
    LET r == [run EXCEPT !.counts[call[c].event] = @ + 1]
    IN  /\ call[c].at = "count"
        /\ run' = r
        /\ counted' = counted \cup {<<c, call[c]>>}
        /\ charged' = TRUE
        /\ Goto(c, IF Reached(r) THEN "stamp" ELSE "done")
        /\ UNCHANGED <<registered, reserved, now, starts, faults, crashes>>

\* The write fails: the key of a charge call is free again.
IncrementFails(c) ==
    /\ call[c].at = "count" /\ faults < MaxFaults
    /\ faults' = faults + 1
    /\ reserved' = IF call[c].event = "custom" THEN [reserved EXCEPT ![call[c].key] = Free]
                   ELSE reserved
    /\ Goto(c, "failed")
    /\ UNCHANGED <<run, registered, now, starts, crashes, counted, charged>>

\* enforceCostLimit's write: the first to reach the cap stamps the record, and aborts the
\* run if it finds it RUNNING.
Stamp(c) ==
    /\ call[c].at = "stamp"
    /\ run' = [run EXCEPT !.stopped = TRUE]
    /\ Goto(c, IF ~run.stopped /\ run.status = "RUNNING" THEN "abort" ELSE "done")
    /\ UNCHANGED <<registered, reserved, now, starts, faults, crashes, counted, charged>>

\* The stamp or the abort's write fails. Nobody takes it up: the next charge looks at the cap again,
\* and a retry under the same key is answered without a look.
EnforceFails(c) ==
    /\ call[c].at \in {"stamp", "abort"} /\ faults < MaxFaults
    /\ faults' = faults + 1
    /\ charged' = (/\ charged
                   /\ call[c].at = "abort" \/ \E d \in Calls \ {c} : call[d].at = "stamp")
    /\ Goto(c, "failed")
    /\ UNCHANGED <<run, registered, reserved, now, starts, crashes, counted>>

\* abortRun's write, with the reason. A run that is ending or over is left as it is.
Abort(c) ==
    /\ call[c].at = "abort"
    /\ run' = IF run.status \in {"READY", "RUNNING"}
              THEN [run EXCEPT !.status = "ABORTING", !.message = "cap", !.fromRuntime = TRUE]
              ELSE run
    /\ Goto(c, "done")
    /\ UNCHANGED <<registered, reserved, now, starts, faults, crashes, counted, charged>>

-----------------------------------------------------------------------------
(* The run.                                                                *)

Runner == UNCHANGED <<reserved, call, now, faults, crashes, counted>>

BecomesRunning ==
    /\ run.status = "READY"
    /\ run' = [run EXCEPT !.status = "RUNNING"]
    /\ UNCHANGED <<registered, starts, charged>> /\ Runner

\* The run ends, by itself or because somebody aborts it.
Ends ==
    /\ run.status # "ENDED"
    /\ run' = [run EXCEPT !.status = "ENDED"]
    /\ UNCHANGED <<registered, starts, charged>> /\ Runner

\* unregisterDefaultDatasetForCharging, in the cleanup after the final status.
Unregister ==
    /\ run.status = "ENDED" /\ registered
    /\ registered' = FALSE
    /\ UNCHANGED <<run, starts, charged>> /\ Runner

\* resurrectRun, once the cleanup is over: the cap may not be lowered, only raised or lifted.
Resurrect ==
    /\ run.status = "ENDED" /\ ~registered /\ starts < MaxStarts
    /\ \E cap \in Caps :
        /\ cap = NoCap \/ (run.cap = NoCap \/ cap >= run.cap)
        /\ run' = [status |-> "READY", cap |-> cap, stopped |-> FALSE, message |-> "none",
                   fromRuntime |-> FALSE,
                   counts |-> [run.counts EXCEPT !["start"] = @ + 1]]
    /\ registered' = TRUE /\ starts' = starts + 1 /\ charged' = FALSE
    /\ Runner

\* Mutant: the Actor's message replaces the runtime's.
setRunStatusMessage_Always ==
    /\ run' = [run EXCEPT !.message = "actor"]
    /\ UNCHANGED <<registered, starts, charged>> /\ Runner

\* setRunStatusMessage: the Actor's message does not replace the reason the runtime gave.
setRunStatusMessage ==
    /\ ~run.fromRuntime
    /\ run' = [run EXCEPT !.message = "actor"]
    /\ UNCHANGED <<registered, starts, charged>> /\ Runner

\* The process dies with its calls, keys and registrations, and reconcileOrphanedJobs ends the
\* run that was left, whatever its message said.
CrashAndReconcile ==
    /\ crashes < MaxChargeCrashes
    /\ crashes' = crashes + 1
    /\ run' = IF run.status = "ENDED" THEN run
              ELSE [run EXCEPT !.status = "ENDED", !.message = "orphaned"]
    /\ registered' = FALSE
    /\ reserved' = [k \in Keys |-> Free]
    /\ call' = [c \in Calls |-> [at |-> "idle"]]
    /\ counted' = {} /\ charged' = FALSE
    /\ UNCHANGED <<now, starts, faults>>

\* A write never takes as long as the window of the keys.
Tick ==
    /\ now < MaxTime
    /\ \A c \in Calls : call[c].at = "count" => now + 1 < call[c].since + Ttl
    /\ now' = now + 1
    /\ UNCHANGED <<run, registered, reserved, call, starts, faults, crashes, counted, charged>>

CallStep(c) ==
    \/ \E k \in Keys : Charge(c, k)
    \/ Push(c)
    \/ Increment(c) \/ IncrementFails(c) \/ Stamp(c) \/ EnforceFails(c) \/ Abort(c)

RunStep == BecomesRunning \/ Ends \/ Unregister \/ Resurrect \/ setRunStatusMessage

ChargingNext == (\E c \in Calls : CallStep(c)) \/ RunStep \/ CrashAndReconcile \/ Tick

ChargingSpec == ChargingInit /\ [][ChargingNext]_chargingVars

\* Calls in progress go on.
ChargingFairSpec == ChargingSpec /\ \A c \in Calls : WF_chargingVars(Increment(c) \/ Stamp(c) \/ Abort(c))

-----------------------------------------------------------------------------
\* Retries of a call, concurrent ones included, are charged once: no two charges that were
\* counted reserved the same key within one window.
ChargedOncePerKey ==
    \A x, y \in counted :
        (x[1] # y[1] /\ x[2].event = "custom" /\ y[2].event = "custom" /\ x[2].key = y[2].key)
            => (x[2].since - y[2].since >= Ttl \/ y[2].since - x[2].since >= Ttl)

\* The charge that takes the run to its cap notices, however many are in progress: once all
\* calls are over, a run charged to its cap since its start is stamped, unless the last stamp
\* that was due failed.
ReachedIsStamped ==
    (charged /\ \A c \in Calls : call[c].at \notin {"count", "stamp", "abort"})
        => ~Reached(run)

\* requirements/actor-driver.md: "A run ended by its maximum total charge keeps that reason as its
\* status message". A resurrection clears it, and the reconciliation of a run that had not wound
\* down yet when the process died replaces it.
ReasonKept ==
    [][run.message = "cap" => \/ run'.message = "cap"
                              \/ starts' # starts
                              \/ crashes' # crashes /\ run.status = "ABORTING"]_chargingVars

\* A run that reached its cap says so: the stamp is there once the charge that reached it is over,
\* and the reason stays until a resurrection, or a restart that cuts the abort short.
CapIsReported == []ReachedIsStamped /\ ReasonKept

\* requirements/actor-driver.md: the maximum total charge "ends the run when reached".
\* Refuted: see README.md, Findings.
CapEnds ==
    (run.status = "RUNNING" /\ run.cap # NoCap /\ Total(run) >= run.cap) ~> run.status # "RUNNING"

=============================================================================
