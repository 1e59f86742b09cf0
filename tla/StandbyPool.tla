----------------------------- MODULE StandbyPool -----------------------------
(***************************************************************************)
(* The pool of runs behind one standby address (services/standby.ts): the  *)
(* HTTP requests for the address arrive at the same time, share the runs   *)
(* of the build that is tagged now, start runs when there are too few, and *)
(* give them up again; the pool winds down a run nobody uses for a while,  *)
(* or whose build another one replaced.                                    *)
(*                                                                         *)
(* The code between two awaits is one step. A request reads the tag, with  *)
(* the Actor's record, and the status of each pooled run in steps of their *)
(* own; picking a run (or starting one) and counting the request is one    *)
(* step, as in the code.                                                   *)
(* Whether a server answers the readiness probe, and how a run goes on, is *)
(* a choice. A run that is ABORTING, ended or deleted is "over": the pool  *)
(* tells the three apart nowhere.                                          *)
(***************************************************************************)
EXTENDS Integers, Sequences, FiniteSets, FiniteSetsExt

CONSTANTS
    Requests,   \* HTTP requests to the address, each made once
    Impatient,  \* bound: those whose client may go away before it has a run
    MaxBuild,   \* the builds that get the tag, 1 first; 0 is no tagged build
    Desired,    \* desiredRequestsPerActorRun
    MaxLoad     \* maxRequestsPerActorRun

\* standby-config.ts refuses other settings.
ASSUME StandbyAssumption ==
    /\ IsFiniteSet(Requests) /\ Impatient \subseteq Requests
    /\ MaxBuild \in Nat \ {0}
    /\ Desired \in Nat \ {0} /\ MaxLoad \in Nat /\ MaxLoad >= Desired

VARIABLES
    tagged,   \* the build config.build resolves to
    run,      \* every run started for the address, in the order they were
    pool,     \* the runs in the pool, as indices of run
    req       \* what each request is doing

vars == <<tagged, run, pool, req>>

NoRun == 0

\* A PooledRun, with the status of its run's record and how far finishRun is.
NewRun(b) == [build |-> b, start |-> "starting", status |-> "READY", open |-> 0,
              timer |-> FALSE, retiring |-> FALSE, finish |-> "no"]

\* The requests counted against run e (by the code, in openRequests).
Holders(e) == {r \in Requests : req[r].at \in {"waiting", "leased"} /\ req[r].run = e}

Init ==
    /\ tagged = 0
    /\ run = <<>> /\ pool = {}
    /\ req = [r \in Requests |->
                  [at |-> "new", build |-> 0, todo |-> {}, run |-> NoRun, gone |-> FALSE]]

Goto(r, at) == req' = [req EXCEPT ![r].at = at]

\* The request is answered, whatever the answer is.
Answered(r) ==
    req' = [req EXCEPT
                ![r] = [at |-> "done", build |-> 0, todo |-> {}, run |-> NoRun, gone |-> FALSE]]

-----------------------------------------------------------------------------
(* Around the pool: builds, and the runs it started.                       *)

BuildTagged ==
    /\ tagged < MaxBuild
    /\ tagged' = tagged + 1
    /\ UNCHANGED <<run, pool, req>>


\* startStandbyRun resolved: its run is known, and watched unless a request has it.
Started(e) ==
    /\ run[e].start = "starting"
    /\ run' = [run EXCEPT ![e].start = "started", ![e].timer = run[e].open = 0]
    /\ UNCHANGED <<tagged, pool, req>>

StartFails(e) ==
    /\ run[e].start = "starting"
    /\ run' = [run EXCEPT ![e].start = "failed", ![e].status = "over", ![e].timer = FALSE]
    /\ pool' = pool \ {e}
    /\ UNCHANGED <<tagged, req>>

BecomesRunning(e) ==
    /\ run[e].start = "started" /\ run[e].status = "READY"
    /\ run' = [run EXCEPT ![e].status = "RUNNING"]
    /\ UNCHANGED <<tagged, pool, req>>

\* The run fails, exits, is aborted or is deleted, without the pool.
EndsOnItsOwn(e) ==
    /\ run[e].start = "started" /\ run[e].status # "over"
    /\ run' = [run EXCEPT ![e].status = "over"]
    /\ UNCHANGED <<tagged, pool, req>>

-----------------------------------------------------------------------------
(* acquireStandbyRun                                                       *)

\* The router reads the Actor's record, its tags with it, and resolveStandbyBuild looks
\* the build up there; pruneEndedRuns then walks over a copy of the pool.
ResolveBuild(r) ==
    /\ req[r].at = "new"
    /\ IF tagged = 0
       THEN Answered(r)
       ELSE req' = [req EXCEPT ![r].at = "pruning", ![r].build = tagged, ![r].todo = pool]
    /\ UNCHANGED <<tagged, run, pool>>

\* pruneEndedRuns looks at the next run of its copy; one still starting is passed over.
Prune(r) ==
    /\ req[r].at = "pruning" /\ req[r].todo # {}
    /\ LET e == Min(req[r].todo)
       IN  /\ req' = [req EXCEPT ![r].todo = @ \ {e}]
           /\ \/ /\ run[e].start = "started" /\ run[e].status = "over"
                 /\ pool' = pool \ {e}
                 /\ run' = [run EXCEPT ![e].timer = FALSE]
              \/ /\ run[e].start # "started" \/ run[e].status # "over"
                 /\ UNCHANGED <<pool, run>>
    /\ UNCHANGED tagged

\* Mutant: a retired run is finished at once.
Retired_Now(e) ==
    [run[e] EXCEPT !.retiring = TRUE, !.timer = FALSE, !.finish = "waiting"]

\* retire: out of the pool, and finished now if no request has it.
Retired(e) ==
    [run[e] EXCEPT !.retiring = TRUE, !.timer = FALSE,
                   !.finish = IF run[e].open = 0 THEN "waiting" ELSE @]

\* Mutant: runs that are full are picked too.
Roomy_Any(candidates) == candidates

\* The candidates below maxRequestsPerActorRun.
Roomy(candidates) == {e \in candidates : run[e].open < MaxLoad}

\* Mutant: a run still starting is not taken for a candidate.
LeastLoaded_Started(candidates) ==
    LET known == {e \in Roomy(candidates) : run[e].start = "started"}
    IN  IF known = {} THEN NoRun
        ELSE Min({e \in known : \A f \in known : run[e].open <= run[f].open})

\* The first of the least loaded runs that have room, or NoRun.
LeastLoaded(candidates) ==
    LET roomy == Roomy(candidates)
    IN  IF roomy = {} THEN NoRun
        ELSE Min({e \in roomy : \A f \in roomy : run[e].open <= run[f].open})

\* From the end of pruneEndedRuns to the reservation and the run ahead of demand:
\* runs of another build than the one this request resolved are retired.
Reserve(r) ==
    /\ req[r].at = "pruning" /\ req[r].todo = {}
    /\ LET b      == req[r].build
           old    == {e \in pool : run[e].build # b}
           found  == LeastLoaded(pool \ old)
           picked == IF found = NoRun THEN Len(run) + 1 ELSE found
           wound  == [e \in DOMAIN run |-> IF e \in old THEN Retired(e) ELSE run[e]]
           added  == IF found = NoRun THEN Append(wound, NewRun(b)) ELSE wound
           loaded == [added EXCEPT ![picked].open = @ + 1, ![picked].timer = FALSE]
           live   == (pool \ old) \cup {picked}
       IN  /\ \/ /\ \E e \in live : loaded[e].open <= Desired
                 /\ run' = loaded /\ pool' = live
              \/ /\ \A e \in live : loaded[e].open > Desired
                 /\ run' = Append(loaded, NewRun(b)) /\ pool' = live \cup {Len(loaded) + 1}
           /\ req' = [req EXCEPT ![r].at = "waiting", ![r].run = picked]
    /\ UNCHANGED tagged

\* release, the first time it is called: the last request to let go of a run starts
\* its idle time, or its end if it was retired meanwhile.
Release(r) ==
    LET e == req[r].run
        n == run[e].open - 1
    IN  run' = [run EXCEPT
            ![e].open = n,
            ![e].timer = (n <= 0 /\ ~run[e].retiring) \/ @,
            ![e].finish = IF n <= 0 /\ run[e].retiring THEN "waiting" ELSE @]

\* waitForServer: the server of a running run answers.
Leased(r) ==
    /\ req[r].at = "waiting"
    /\ run[req[r].run].start = "started" /\ run[req[r].run].status = "RUNNING"
    /\ Goto(r, "leased")
    /\ UNCHANGED <<tagged, run, pool>>

\* The start failed, the run is over, or it takes too long to answer (503, 504).
Unavailable(r) ==
    /\ req[r].at = "waiting" /\ run[req[r].run].start # "starting"
    /\ Answered(r) /\ Release(r)
    /\ UNCHANGED <<tagged, pool>>

\* The router's onClose: the response is done or the client went away.
Closed(r) ==
    /\ req[r].at = "leased"
    /\ Answered(r) /\ Release(r)
    /\ UNCHANGED <<tagged, pool>>

\* The response closes before there is a lease: the router listens for that only afterwards.
\* (When before makes no difference: the wait for the server is the last of it.)
ClientLeaves(r) ==
    /\ r \in Impatient /\ req[r].at = "waiting" /\ ~req[r].gone
    /\ req' = [req EXCEPT ![r].gone = TRUE]
    /\ UNCHANGED <<tagged, run, pool>>

\* The lease of a client that was gone by then: nothing the router listens to need happen again.
Forgotten(r) == req[r].at = "leased" /\ req[r].gone

-----------------------------------------------------------------------------
(* Winding a run down.                                                     *)

\* armIdleTimer's callback.
IdleTimerFires(e) ==
    /\ run[e].timer
    /\ IF run[e].open = 0 /\ e \in pool
       THEN /\ pool' = pool \ {e}
            /\ run' = [run EXCEPT ![e].timer = FALSE, ![e].finish = "waiting"]
       ELSE /\ run' = [run EXCEPT ![e].timer = FALSE]
            /\ UNCHANGED pool
    /\ UNCHANGED <<tagged, req>>

\* Mutant: a run that is still READY is not waited for.
FinishRun_Impatient(e) ==
    /\ run[e].finish = "waiting" /\ run[e].start # "starting"
    /\ run' = [run EXCEPT ![e].finish = IF run[e].status = "RUNNING" THEN "warned" ELSE "done"]
    /\ UNCHANGED <<tagged, pool, req>>

\* finishRun, once the run is known and no longer READY: a running one is warned.
FinishRun(e) ==
    /\ run[e].finish = "waiting" /\ run[e].start # "starting" /\ run[e].status # "READY"
    /\ run' = [run EXCEPT ![e].finish = IF run[e].status = "RUNNING" THEN "warned" ELSE "done"]
    /\ UNCHANGED <<tagged, pool, req>>

\* 15 s later its container is stopped, or killed 15 s after that: the run ends.
StopFires(e) ==
    /\ run[e].finish = "warned"
    /\ run' = [run EXCEPT ![e].finish = "done", ![e].status = "over"]
    /\ UNCHANGED <<tagged, pool, req>>

-----------------------------------------------------------------------------

RequestStep(r) ==
    ResolveBuild(r) \/ Prune(r) \/ Reserve(r) \/ Leased(r) \/ Unavailable(r) \/ Closed(r)

RunStep(e) ==
    \/ Started(e) \/ StartFails(e) \/ BecomesRunning(e) \/ EndsOnItsOwn(e)
    \/ IdleTimerFires(e) \/ FinishRun(e) \/ StopFires(e)

Next ==
    \/ BuildTagged
    \/ \E r \in Requests : RequestStep(r) \/ ClientLeaves(r)
    \/ \E e \in DOMAIN run : RunStep(e)

Spec == Init /\ [][Next]_vars

\* No request waits for ever (the deadline, and responses end or close), timers fire, a start
\* settles, and what was started runs or ends. Nothing makes a run end on its own, and nothing
\* makes a forgotten lease end: only an upgraded connection does when the container closes it.
Fairness ==
    /\ \A r \in Requests : WF_vars(RequestStep(r) /\ req[r].at # "new" /\ ~Forgotten(r))
    /\ \A e \in 1 .. 2 * Cardinality(Requests) :
           /\ WF_vars(e \in DOMAIN run /\ (Started(e) \/ StartFails(e)))
           /\ WF_vars(e \in DOMAIN run /\ (BecomesRunning(e)))
           /\ WF_vars(e \in DOMAIN run /\ (IdleTimerFires(e)))
           /\ WF_vars(e \in DOMAIN run /\ (FinishRun(e) \/ StopFires(e)))

FairSpec == Spec /\ Fairness

-----------------------------------------------------------------------------
(* Properties                                                              *)

\* However requests arrive, no run serves more of them at once than
\* maxRequestsPerActorRun: counted over the requests, not by openRequests.
MaxRespected == \A e \in DOMAIN run : Cardinality(Holders(e)) <= MaxLoad

\* A run is wound down (idle, or replaced by another build) only when no request has
\* it, and no request gets it afterwards.
NoBusyRunFinished == \A e \in DOMAIN run : run[e].finish # "no" => Holders(e) = {}

\* Requests that arrive while a run starts share it instead of each starting one: of
\* the pooled runs still starting, at most one could take another request without
\* being above what is desired.
StartIsShared ==
    Cardinality({e \in pool : /\ run[e].start = "starting"
                              /\ Cardinality(Holders(e)) <= Desired
                              /\ Cardinality(Holders(e)) < MaxLoad}) <= 1

\* The requests are spread as the settings say: over no more runs than needed, no run above
\* its maximum.
LoadIsSpread == MaxRespected /\ StartIsShared


\* "Releasing on close frees the run's slot once the response is done or the client went away"
\* (api/standby-proxy.ts). Refuted: see README.md, Findings.
SlotIsFreed == \A r \in Requests : req[r].gone ~> req[r].at = "done"

\* What the log line of a retirement says: "a newer build now serves Actor Standby".
\* A run of the build that is tagged now is therefore never retired.
\* Refuted: see README.md, Findings.
RetiredForNewerBuild ==
    [][\A e \in DOMAIN run : run'[e].retiring /\ ~run[e].retiring => run[e].build # tagged]_vars

=============================================================================
