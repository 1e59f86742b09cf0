-------------------------- MODULE StandbyPool_proofs --------------------------
(***************************************************************************)
(* Proofs about StandbyPool, for any requests, builds and settings of the  *)
(* pool that standby-config.ts lets through.                               *)
(***************************************************************************)
EXTENDS StandbyPool, WellFoundedInduction, FiniteSetTheorems, SequenceTheorems, TLAPS

-----------------------------------------------------------------------------
(* The inductive invariant.                                                *)

Runs == [build : Nat, start : {"starting", "started", "failed"}, status : {"READY", "RUNNING", "over"},
         open : Nat, timer : BOOLEAN, retiring : BOOLEAN, finish : {"no", "waiting", "warned", "done"}]

Records == [at : {"new", "pruning", "waiting", "leased", "done"}, build : Nat, todo : SUBSET Nat,
            run : Nat, gone : BOOLEAN]

TypeOK ==
    /\ tagged \in Nat
    /\ run \in Seq(Runs)
    /\ pool \subseteq 1 .. Len(run)
    /\ req \in [Requests -> Records]

\* A request that has a run was given one that there is, and is served by one that started.
RunIsThere ==
    \A r \in Requests :
        /\ req[r].at \in {"waiting", "leased"} => req[r].run \in 1 .. Len(run)
        /\ req[r].at = "leased" => run[req[r].run].start # "starting"

\* openRequests counts the requests that have the run, and is within the maximum.
Counted == \A e \in 1 .. Len(run) : run[e].open = Cardinality(Holders(e)) /\ run[e].open <= MaxLoad

\* Pooled runs are not being wound down; a run that is has no request.
WoundDown ==
    /\ \A e \in pool : ~run[e].retiring /\ run[e].finish = "no"
    /\ \A e \in 1 .. Len(run) : run[e].finish # "no" => run[e].open = 0

\* The pooled runs still starting that could take another request; there is one at most.
Spare == {e \in pool : run[e].start = "starting" /\ run[e].open <= Desired /\ run[e].open < MaxLoad}
OneSpare == \A e, f \in Spare : e = f

PoolInv == TypeOK /\ RunIsThere /\ Counted /\ WoundDown /\ OneSpare

-----------------------------------------------------------------------------
(* The run that a request picks.                                           *)

\* A set of naturals that has members has a least one: the order of Nat is well-founded.
LEMMA NatsHaveALeast ==
    ASSUME NEW S, S \subseteq Nat, S # {}
    PROVE  \E n \in S : \A m \in S : n <= m
<1> DEFINE Less == {ss \in Nat \X Nat : ss[1] < ss[2]}
<1>1. IsWellFoundedOn(Less, Nat)
  BY NatLessThanWellFounded DEF OpToRel
<1>2. \A m, n \in Nat : m < n => <<m, n>> \in Less
  OBVIOUS
<1> HIDE DEF Less
<1>3. PICK n \in S : \A m \in S : ~(<<m, n>> \in Less)
  BY <1>1, WFMin
<1>4. \A m \in S : ~(m < n)
  BY <1>2, <1>3
<1>5. \A m, k \in Nat : ~(m < k) => k <= m
  OBVIOUS
<1> QED BY <1>4, <1>5

LEMMA MinIsLeast ==
    ASSUME NEW S, S \subseteq Nat, S # {}
    PROVE  Min(S) \in S /\ \A m \in S : Min(S) <= m
  BY NatsHaveALeast DEF Min

\* The least loaded of some runs is one of them, and below its maximum.
LEMMA LeastLoadedHasRoom ==
    ASSUME TypeOK, NEW candidates, candidates \subseteq 1 .. Len(run)
    PROVE  \/ LeastLoaded(candidates) = NoRun /\ \A e \in candidates : ~(run[e].open < MaxLoad)
           \/ /\ LeastLoaded(candidates) \in candidates
              /\ run[LeastLoaded(candidates)].open < MaxLoad
              /\ LeastLoaded(candidates) # NoRun
<1> DEFINE roomy == Roomy(candidates)
           loads == {run[e].open : e \in roomy}
           least == {e \in roomy : \A f \in roomy : run[e].open <= run[f].open}
<1>1. \A e \in 1 .. Len(run) : run[e] \in Runs
  BY ElementOfSeq DEF TypeOK
<1>2. roomy \subseteq candidates /\ roomy \subseteq 1 .. Len(run) /\ loads \subseteq Nat
  BY <1>1 DEF Roomy, Runs
<1>3. CASE roomy = {}
  BY <1>3 DEF LeastLoaded, Roomy
<1>4. CASE roomy # {}
  <2>1. PICK n \in loads : \A m \in loads : n <= m
    <3> HIDE DEF loads
    <3>1. loads # {}
      BY <1>4 DEF loads
    <3> QED BY <1>2, <3>1, NatsHaveALeast
  <2>2. least # {} /\ least \subseteq Nat
    BY <1>2, <2>1
  <2>3. Min(least) \in least
    <3> HIDE DEF least
    <3> QED BY <2>2, MinIsLeast
  <2>4. LeastLoaded(candidates) = Min(least)
    BY <1>4 DEF LeastLoaded
  <2> QED BY <1>2, <2>3, <2>4 DEF Roomy, NoRun
<1> QED BY <1>3, <1>4

-----------------------------------------------------------------------------
(* Steps that count no request.                                            *)

\* The runs and requests of a state, one by one.
LEMMA RunFacts ==
    ASSUME TypeOK
    PROVE  /\ Len(run) \in Nat /\ DOMAIN run = 1 .. Len(run)
           /\ \A e \in 1 .. Len(run) : run[e] \in Runs
  BY ElementOfSeq, LenProperties DEF TypeOK

\* The requests of each run are as before.
LEMMA HoldersStay ==
    ASSUME \A r \in Requests :
               /\ req'[r].at \in {"waiting", "leased"} <=> req[r].at \in {"waiting", "leased"}
               /\ req[r].at \in {"waiting", "leased"} => req'[r].run = req[r].run,
           NEW e
    PROVE  Holders(e)' = Holders(e)
  BY DEF Holders

\* Runs go on, leave the pool, and end once no request has them.
LEMMA RunsMove ==
    ASSUME PoolInv, TypeOK', Len(run') = Len(run), pool' \subseteq pool,
           \A e \in 1 .. Len(run) :
               /\ run'[e].open = run[e].open /\ run'[e].retiring = run[e].retiring
               /\ run'[e].start = "starting" => run[e].start = "starting"
               /\ \/ run'[e].finish = run[e].finish
                  \/ run[e].open = 0 /\ e \notin pool',
           \A r \in Requests :
               /\ req'[r].at \in {"waiting", "leased"} <=> req[r].at \in {"waiting", "leased"}
               /\ req[r].at \in {"waiting", "leased"} => req'[r].run = req[r].run
               /\ req'[r].at = "leased" => req[r].at = "leased" \/ run[req[r].run].start # "starting"
    PROVE  PoolInv'
<1>1. \A e : Holders(e)' = Holders(e)
  BY HoldersStay
<1>2. \A e \in pool' : e \in 1 .. Len(run)
  BY DEF PoolInv, TypeOK
<1>3. RunIsThere'
  BY DEF PoolInv, RunIsThere
<1>4. Counted'
  BY <1>1 DEF PoolInv, Counted
<1>5. WoundDown'
  BY <1>2 DEF PoolInv, WoundDown
<1>6. Spare' \subseteq Spare
  BY <1>2 DEF Spare
<1>7. OneSpare'
  BY <1>6 DEF PoolInv, OneSpare
<1> QED BY <1>3, <1>4, <1>5, <1>7 DEF PoolInv

\* One run's record changes.
LEMMA OneRunMoves ==
    ASSUME TypeOK, NEW e \in 1 .. Len(run), NEW new \in Runs, run' = [run EXCEPT ![e] = new]
    PROVE  /\ run' \in Seq(Runs) /\ Len(run') = Len(run) /\ run'[e] = new
           /\ \A f \in 1 .. Len(run) : f # e => run'[f] = run[f]
  BY ExceptSeq DEF TypeOK

\* A run that no request has any more, or that goes on, changes; it may leave the pool.
LEMMA RunMoves ==
    ASSUME PoolInv, NEW e \in 1 .. Len(run), NEW new \in Runs, run' = [run EXCEPT ![e] = new],
           new.open = run[e].open, new.retiring = run[e].retiring,
           new.start = "starting" => run[e].start = "starting",
           new.finish = run[e].finish \/ (run[e].open = 0 /\ e \notin pool'),
           pool' \in {pool, pool \ {e}}, tagged' = tagged, req' = req
    PROVE  PoolInv'
<1>1. /\ run' \in Seq(Runs) /\ Len(run') = Len(run) /\ run'[e] = new
      /\ \A f \in 1 .. Len(run) : f # e => run'[f] = run[f]
  BY OneRunMoves DEF PoolInv
<1>2. TypeOK' /\ pool' \subseteq pool
  BY <1>1 DEF PoolInv, TypeOK
<1>3. \A f \in 1 .. Len(run) :
          /\ run'[f].open = run[f].open /\ run'[f].retiring = run[f].retiring
          /\ run'[f].start = "starting" => run[f].start = "starting"
          /\ run'[f].finish = run[f].finish \/ (run[f].open = 0 /\ f \notin pool')
  BY <1>1
<1>4. \A r \in Requests : req'[r].at = "leased" => req[r].at = "leased"
  OBVIOUS
<1> QED BY <1>1, <1>2, <1>3, <1>4, RunsMove

LEMMA RunStepHolds ==
    ASSUME PoolInv, NEW e \in 1 .. Len(run), RunStep(e)
    PROVE  PoolInv'
<1>1. run[e] \in Runs /\ run \in Seq(Runs)
  BY RunFacts DEF PoolInv, TypeOK
<1>2. run[e].finish # "no" => run[e].open = 0 /\ e \notin pool
  BY DEF PoolInv, WoundDown
<1>3. CASE Started(e)
  <2> DEFINE new == [run[e] EXCEPT !.start = "started", !.timer = run[e].open = 0]
  <2>1. run' = [run EXCEPT ![e] = new] /\ UNCHANGED <<tagged, pool, req>>
    BY <1>3 DEF Started
  <2>2. /\ new \in Runs /\ new.open = run[e].open /\ new.retiring = run[e].retiring
        /\ new.start = "started" /\ new.finish = run[e].finish
    BY <1>1 DEF Runs
  <2> HIDE DEF new
  <2> QED BY <2>1, <2>2, RunMoves
<1>4. CASE StartFails(e)
  <2> DEFINE new == [run[e] EXCEPT !.start = "failed", !.status = "over", !.timer = FALSE]
  <2>1. run' = [run EXCEPT ![e] = new] /\ pool' = pool \ {e} /\ UNCHANGED <<tagged, req>>
    BY <1>4 DEF StartFails
  <2>2. /\ new \in Runs /\ new.open = run[e].open /\ new.retiring = run[e].retiring
        /\ new.start = "failed" /\ new.finish = run[e].finish
    BY <1>1 DEF Runs
  <2> HIDE DEF new
  <2> QED BY <2>1, <2>2, RunMoves
<1>5. CASE BecomesRunning(e) \/ EndsOnItsOwn(e)
  <2>1. PICK status \in {"RUNNING", "over"} : run' = [run EXCEPT ![e].status = status]
    BY <1>5 DEF BecomesRunning, EndsOnItsOwn
  <2> DEFINE new == [run[e] EXCEPT !.status = status]
  <2>2. run' = [run EXCEPT ![e] = new] /\ UNCHANGED <<tagged, pool, req>>
    BY <1>5, <2>1 DEF BecomesRunning, EndsOnItsOwn
  <2>3. /\ new \in Runs /\ new.open = run[e].open /\ new.retiring = run[e].retiring
        /\ new.start = run[e].start /\ new.finish = run[e].finish
    BY <1>1 DEF Runs
  <2> HIDE DEF new
  <2> QED BY <2>2, <2>3, RunMoves
<1>6. CASE IdleTimerFires(e)
  <2> DEFINE idle == run[e].open = 0 /\ e \in pool
             new  == [run[e] EXCEPT !.timer = FALSE,
                                    !.finish = IF idle THEN "waiting" ELSE run[e].finish]
  <2>1. run' = [run EXCEPT ![e] = new] /\ UNCHANGED <<tagged, req>>
    BY <1>1, <1>6 DEF IdleTimerFires, Runs
  <2>2. pool' \in {pool, pool \ {e}} /\ (idle => e \notin pool')
    BY <1>6 DEF IdleTimerFires
  <2>3. /\ new \in Runs /\ new.open = run[e].open /\ new.retiring = run[e].retiring
        /\ new.start = run[e].start /\ (new.finish = run[e].finish \/ idle)
    BY <1>1 DEF Runs
  <2> HIDE DEF new
  <2> QED BY <2>1, <2>2, <2>3, RunMoves
<1>7. CASE FinishRun(e) \/ StopFires(e)
  <2>1. PICK status \in {run[e].status, "over"}, finish \in {"warned", "done"} :
            run' = [run EXCEPT ![e].finish = finish, ![e].status = status]
    <3>1. run[e].finish \in {"waiting", "warned"}
      BY <1>7 DEF FinishRun, StopFires
    <3>2. CASE FinishRun(e)
      <4> DEFINE finish == IF run[e].status = "RUNNING" THEN "warned" ELSE "done"
      <4>1. run' = [run EXCEPT ![e].finish = finish]
        BY <3>2 DEF FinishRun
      <4>2. run' = [run EXCEPT ![e].finish = finish, ![e].status = run[e].status]
        BY <1>1, <4>1 DEF Runs
      <4> QED BY <4>2
    <3>3. CASE StopFires(e)
      BY <3>3 DEF StopFires
    <3> QED BY <1>7, <3>2, <3>3
  <2> DEFINE new == [run[e] EXCEPT !.finish = finish, !.status = status]
  <2>2. run' = [run EXCEPT ![e] = new] /\ UNCHANGED <<tagged, pool, req>>
    BY <1>7, <2>1 DEF FinishRun, StopFires
  <2>3. /\ new \in Runs /\ new.open = run[e].open /\ new.retiring = run[e].retiring
        /\ new.start = run[e].start
    BY <1>1 DEF Runs
  <2>4. run[e].finish # "no"
    BY <1>7 DEF FinishRun, StopFires
  <2> HIDE DEF new
  <2> QED BY <1>2, <2>2, <2>3, <2>4, RunMoves
<1> QED BY <1>3, <1>4, <1>5, <1>6, <1>7 DEF RunStep

\* A request's record changes.
LEMMA RequestMoves ==
    ASSUME TypeOK, NEW r \in Requests,
           NEW new \in Records,
           req' = [req EXCEPT ![r] = new]
    PROVE  /\ req' \in [Requests -> Records]
           /\ req'[r] = new /\ \A q \in Requests : q # r => req'[q] = req[q]
  BY DEF TypeOK

\* A request goes on without taking or giving up a run.
LEMMA RequestGoesOn ==
    ASSUME PoolInv, NEW r \in Requests,
           NEW new \in Records,
           req' = [req EXCEPT ![r] = new],
           new.at \in {"waiting", "leased"} <=> req[r].at \in {"waiting", "leased"},
           req[r].at \in {"waiting", "leased"} => new.run = req[r].run,
           new.at = "leased" => run[req[r].run].start # "starting",
           run' \in Seq(Runs), Len(run') = Len(run), pool' \subseteq pool, tagged' = tagged,
           \A e \in 1 .. Len(run) :
               /\ run'[e].open = run[e].open /\ run'[e].retiring = run[e].retiring
               /\ run'[e].start = run[e].start /\ run'[e].finish = run[e].finish
    PROVE  PoolInv'
<1>1. /\ req' \in [Requests -> Records]
      /\ req'[r] = new /\ \A q \in Requests : q # r => req'[q] = req[q]
  BY RequestMoves DEF PoolInv
<1>2. TypeOK'
  BY <1>1 DEF PoolInv, TypeOK
<1>3. \A q \in Requests :
          /\ req'[q].at \in {"waiting", "leased"} <=> req[q].at \in {"waiting", "leased"}
          /\ req[q].at \in {"waiting", "leased"} => req'[q].run = req[q].run
          /\ req'[q].at = "leased" => req[q].at = "leased" \/ run[req[q].run].start # "starting"
  BY <1>1
<1> QED BY <1>2, <1>3, RunsMove

LEMMA ResolveBuildHolds ==
    ASSUME PoolInv, NEW r \in Requests, ResolveBuild(r)
    PROVE  PoolInv'
<1> DEFINE new == IF tagged = 0 THEN [at |-> "done", build |-> 0, todo |-> {}, run |-> NoRun, gone |-> FALSE]
                  ELSE [req[r] EXCEPT !.at = "pruning", !.build = tagged, !.todo = pool]
<1>1. /\ tagged \in Nat /\ pool \subseteq Nat /\ run \in Seq(Runs)
      /\ req[r] \in Records
  BY RunFacts DEF PoolInv, TypeOK
<1>2. req' = [req EXCEPT ![r] = new]
  BY DEF ResolveBuild, Answered
<1>3. req[r].at = "new" /\ UNCHANGED <<tagged, run, pool>>
  BY DEF ResolveBuild
<1>4. /\ new \in Records
      /\ new.at \in {"done", "pruning"}
  BY <1>1 DEF NoRun, Records
<1> HIDE DEF new
<1> QED BY <1>1, <1>2, <1>3, <1>4, RequestGoesOn

LEMMA PruneHolds ==
    ASSUME PoolInv, NEW r \in Requests, Prune(r)
    PROVE  PoolInv'
<1> DEFINE e == Min(req[r].todo)
           new == [req[r] EXCEPT !.todo = @ \ {e}]
<1>1. /\ run \in Seq(Runs)
      /\ req[r] \in Records
  BY DEF PoolInv, TypeOK
<1>2. req[r].at = "pruning" /\ req' = [req EXCEPT ![r] = new] /\ tagged' = tagged /\ pool' \subseteq pool
  BY DEF Prune
<1>3. run' = run \/ run' = [run EXCEPT ![e].timer = FALSE]
  BY DEF Prune
<1>4. /\ new \in Records
      /\ new.at = "pruning"
  BY <1>1, <1>2 DEF Records
<1> HIDE DEF e, new
<1>5. /\ run' \in Seq(Runs) /\ Len(run') = Len(run)
      /\ \A f \in 1 .. Len(run) :
            /\ run'[f].open = run[f].open /\ run'[f].retiring = run[f].retiring
            /\ run'[f].start = run[f].start /\ run'[f].finish = run[f].finish
  <2>1. CASE e \in 1 .. Len(run) /\ run' # run
    <3> DEFINE rec == [run[e] EXCEPT !.timer = FALSE]
    <3>1. run[e] \in Runs
      BY <2>1, RunFacts DEF PoolInv
    <3>2. rec \in Runs /\ run' = [run EXCEPT ![e] = rec]
      BY <1>3, <2>1, <3>1 DEF Runs
    <3>3. /\ rec.open = run[e].open /\ rec.retiring = run[e].retiring
          /\ rec.start = run[e].start /\ rec.finish = run[e].finish
      BY <3>1 DEF Runs
    <3> HIDE DEF rec
    <3>4. /\ run' \in Seq(Runs) /\ Len(run') = Len(run) /\ run'[e] = rec
          /\ \A f \in 1 .. Len(run) : f # e => run'[f] = run[f]
      BY <2>1, <3>2, OneRunMoves DEF PoolInv
    <3> QED BY <3>3, <3>4
  <2>2. CASE e \notin 1 .. Len(run) \/ run' = run
    <3>1. run \in Seq(Runs) /\ DOMAIN run = 1 .. Len(run)
      BY RunFacts DEF PoolInv, TypeOK
    <3>2. run = [f \in DOMAIN run |-> run[f]]
      BY <3>1, LenProperties
    <3>3. run' = run
      BY <1>3, <2>2, <3>1, <3>2
    <3> QED BY <3>1, <3>3
  <2> QED BY <2>1, <2>2
<1> QED BY <1>2, <1>4, <1>5, RequestGoesOn

LEMMA LeasedHolds ==
    ASSUME PoolInv, NEW r \in Requests, Leased(r)
    PROVE  PoolInv'
<1> DEFINE new == [req[r] EXCEPT !.at = "leased"]
<1>1. /\ run \in Seq(Runs)
      /\ req[r] \in Records
  BY DEF PoolInv, TypeOK
<1>2. /\ req[r].at = "waiting" /\ run[req[r].run].start = "started"
      /\ req' = [req EXCEPT ![r] = new] /\ UNCHANGED <<tagged, run, pool>>
  BY DEF Leased, Goto
<1>3. /\ new \in Records
      /\ new.at = "leased" /\ new.run = req[r].run
  BY <1>1 DEF Records
<1> HIDE DEF new
<1> QED BY <1>1, <1>2, <1>3, RequestGoesOn

LEMMA ClientLeavesHolds ==
    ASSUME PoolInv, NEW r \in Requests, ClientLeaves(r)
    PROVE  PoolInv'
<1> DEFINE new == [req[r] EXCEPT !.gone = TRUE]
<1>1. run \in Seq(Runs) /\ req[r] \in Records
  BY DEF PoolInv, TypeOK
<1>2. req[r].at = "waiting" /\ req' = [req EXCEPT ![r] = new] /\ UNCHANGED <<tagged, run, pool>>
  BY DEF ClientLeaves
<1>3. new \in Records /\ new.at = "waiting" /\ new.run = req[r].run
  BY <1>1, <1>2 DEF Records
<1> HIDE DEF new
<1> QED BY <1>1, <1>2, <1>3, RequestGoesOn

-----------------------------------------------------------------------------
(* A request gives its run up.                                             *)

LEMMA HoldersAreFinite ==
    ASSUME StandbyAssumption, NEW e
    PROVE  IsFiniteSet(Holders(e)) /\ Cardinality(Holders(e)) \in Nat
<1>1. Holders(e) \subseteq Requests /\ IsFiniteSet(Requests)
  BY DEF Holders, StandbyAssumption
<1> QED BY <1>1, FS_Subset, FS_CardinalityType

\* What release makes of the request's run.
LEMMA ReleaseMoves ==
    ASSUME PoolInv, NEW r \in Requests, req[r].at \in {"waiting", "leased"}, Release(r)
    PROVE  LET e == req[r].run
           IN  /\ e \in 1 .. Len(run) /\ run[e].open \in Nat
               /\ run' \in Seq(Runs) \/ run[e].open = 0
               /\ Len(run') = Len(run)
               /\ \A f \in 1 .. Len(run) : f # e => run'[f] = run[f]
               /\ run'[e].open = run[e].open - 1 /\ run'[e].retiring = run[e].retiring
               /\ run'[e].start = run[e].start
               /\ \/ run'[e].finish = run[e].finish
                  \/ run'[e].open <= 0 /\ run[e].retiring
<1> DEFINE e   == req[r].run
           n   == run[e].open - 1
           new == [run[e] EXCEPT !.open = n,
                                 !.timer = (n <= 0 /\ ~run[e].retiring) \/ run[e].timer,
                                 !.finish = IF n <= 0 /\ run[e].retiring THEN "waiting" ELSE run[e].finish]
<1>1. e \in 1 .. Len(run)
  BY DEF PoolInv, RunIsThere
<1>2. run[e] \in Runs /\ run \in Seq(Runs) /\ DOMAIN run = 1 .. Len(run) /\ Len(run) \in Nat
  BY <1>1, RunFacts DEF PoolInv, TypeOK
<1>3. run[e].open \in Nat
  BY <1>2 DEF Runs
<1>4. run' = [run EXCEPT ![e] = new]
  BY <1>1, <1>2 DEF Release, Runs
<1>5. /\ new.open = n /\ new.retiring = run[e].retiring /\ new.start = run[e].start
      /\ new.finish = run[e].finish \/ (n <= 0 /\ run[e].retiring)
  BY <1>2 DEF Runs
<1>6. run[e].open # 0 => new \in Runs
  <2>1. run[e].open # 0 => n \in Nat
    BY <1>3
  <2> HIDE DEF n
  <2> QED BY <1>2, <2>1 DEF Runs
<1>7. Len(run') = Len(run) /\ run'[e] = new /\ \A f \in 1 .. Len(run) : f # e => run'[f] = run[f]
  <2> HIDE DEF new
  <2>1. DOMAIN run' = 1 .. Len(run)
    BY <1>2, <1>4
  <2>2. Len(run') = Len(run)
    BY <1>2, <2>1, LenProperties
  <2> QED BY <1>1, <1>2, <1>4, <2>2
<1>8. run' \in Seq(Runs) \/ run[e].open = 0
  <2> HIDE DEF new
  <2> QED BY <1>1, <1>4, <1>6, OneRunMoves DEF PoolInv
<1> HIDE DEF new
<1> QED BY <1>1, <1>3, <1>5, <1>7, <1>8

\* The last request to let go of a run that was retired starts its end, and no other one does.
LEMMA ReleaseHolds ==
    ASSUME StandbyAssumption, PoolInv, NEW r \in Requests, Unavailable(r) \/ Closed(r)
    PROVE  PoolInv'
<1> DEFINE over == [at |-> "done", build |-> 0, todo |-> {}, run |-> NoRun, gone |-> FALSE]
<1>1. req[r].at \in {"waiting", "leased"} /\ Release(r) /\ UNCHANGED <<tagged, pool>>
  BY DEF Unavailable, Closed
<1>2. PICK e \in Nat : e = req[r].run /\ run[e].start # "starting"
  <2>1. req[r].run \in Nat
    BY DEF PoolInv, TypeOK, Records
  <2>2. run[req[r].run].start # "starting"
    BY DEF Unavailable, Closed, PoolInv, RunIsThere
  <2> QED BY <2>1, <2>2
<1>3. /\ req' \in [Requests -> Records] /\ req'[r].at = "done"
      /\ \A q \in Requests : q # r => req'[q] = req[q]
  <2>1. over \in Records /\ over.at = "done"
    BY DEF Records, NoRun
  <2>2. req' = [req EXCEPT ![r] = over]
    BY DEF Unavailable, Closed, Answered
  <2> HIDE DEF over
  <2> QED BY <2>1, <2>2, RequestMoves DEF PoolInv
<1>4. /\ e \in 1 .. Len(run) /\ run[e].open \in Nat
      /\ run' \in Seq(Runs) \/ run[e].open = 0
      /\ Len(run') = Len(run)
      /\ \A f \in 1 .. Len(run) : f # e => run'[f] = run[f]
      /\ run'[e].open = run[e].open - 1 /\ run'[e].retiring = run[e].retiring
      /\ run'[e].start = run[e].start
      /\ run'[e].finish = run[e].finish \/ (run'[e].open <= 0 /\ run[e].retiring)
  BY <1>1, <1>2, ReleaseMoves
<1>5. /\ r \in Holders(e) /\ Holders(e)' = Holders(e) \ {r}
      /\ \A f : f # e => Holders(f)' = Holders(f)
  <2>1. req[r].run = e
    BY <1>2
  <2>2. r \in Holders(e)
    BY <1>1, <2>1 DEF Holders
  <2>3. Holders(e)' = Holders(e) \ {r}
    BY <1>3 DEF Holders
  <2>4. ASSUME NEW f, f # e PROVE Holders(f)' = Holders(f)
    <3>1. r \notin Holders(f) /\ r \notin Holders(f)'
      BY <1>3, <2>1, <2>4 DEF Holders
    <3>2. \A q \in Requests : q # r => (q \in Holders(f)' <=> q \in Holders(f))
      BY <1>3 DEF Holders
    <3>3. Holders(f) \subseteq Requests /\ Holders(f)' \subseteq Requests
      BY DEF Holders
    <3> QED BY <3>1, <3>2, <3>3
  <2> QED BY <2>2, <2>3, <2>4
<1>6. /\ Cardinality(Holders(e)) \in Nat \ {0}
      /\ Cardinality(Holders(e) \ {r}) = Cardinality(Holders(e)) - 1
  <2>1. IsFiniteSet(Holders(e)) /\ Cardinality(Holders(e)) \in Nat
    BY HoldersAreFinite
  <2> QED BY <1>5, <2>1, FS_EmptySet, FS_RemoveElement
<1>7. run[e].open = Cardinality(Holders(e)) /\ run[e].open <= MaxLoad /\ MaxLoad \in Nat
  BY <1>4 DEF PoolInv, Counted, StandbyAssumption
<1>8. /\ TypeOK' /\ RunIsThere'
  <2>1. TypeOK'
    BY <1>1, <1>3, <1>4, <1>6, <1>7 DEF PoolInv, TypeOK
  <2>2. \A f \in 1 .. Len(run) : run'[f].start = run[f].start
    BY <1>4
  <2> QED BY <1>3, <1>4, <2>1, <2>2 DEF PoolInv, RunIsThere
<1>9. Counted'
  <2>1. run'[e].open = Cardinality(Holders(e)') /\ run'[e].open <= MaxLoad
    BY <1>4, <1>5, <1>6, <1>7
  <2>2. ASSUME NEW f \in 1 .. Len(run), f # e
        PROVE  run'[f].open = Cardinality(Holders(f)') /\ run'[f].open <= MaxLoad
    BY <1>4, <1>5, <2>2 DEF PoolInv, Counted
  <2>3. \A f \in 1 .. Len(run) : run'[f].open = Cardinality(Holders(f)') /\ run'[f].open <= MaxLoad
    BY <2>1, <2>2
  <2> QED BY <1>4, <2>3 DEF Counted
<1>10. WoundDown'
  <2>1. run[e].finish = "no"
    BY <1>4, <1>6, <1>7 DEF PoolInv, WoundDown
  <2>2. e \in pool => run'[e].finish = "no" /\ ~run'[e].retiring
    BY <1>4, <2>1 DEF PoolInv, WoundDown
  <2>3. run'[e].finish # "no" => run'[e].open = 0
    BY <1>4, <1>6, <1>7, <2>1
  <2>4. pool' = pool /\ pool \subseteq 1 .. Len(run)
    BY <1>1 DEF PoolInv, TypeOK
  <2> QED BY <1>4, <2>2, <2>3, <2>4 DEF PoolInv, WoundDown
<1>11. OneSpare'
  <2>1. pool' = pool /\ pool \subseteq 1 .. Len(run)
    BY <1>1 DEF PoolInv, TypeOK
  <2>2. Spare' \subseteq Spare
    BY <1>2, <1>4, <2>1 DEF Spare
  <2> QED BY <2>2 DEF PoolInv, OneSpare
<1> QED BY <1>8, <1>9, <1>10, <1>11 DEF PoolInv

-----------------------------------------------------------------------------
(* A request is given a run.                                               *)

\* The runs of the pool, but the old ones, and what becomes of the old ones.
LEMMA OldRunsRetire ==
    ASSUME PoolInv, NEW old \in SUBSET pool, NEW wound,
           wound = [e \in DOMAIN run |-> IF e \in old THEN Retired(e) ELSE run[e]]
    PROVE  /\ wound \in Seq(Runs) /\ Len(wound) = Len(run)
           /\ \A e \in 1 .. Len(run) :
                 /\ wound[e].open = run[e].open /\ wound[e].start = run[e].start
                 /\ e \notin old => wound[e] = run[e]
                 /\ wound[e].finish = run[e].finish \/ run[e].open = 0
<1>1. Len(run) \in Nat /\ DOMAIN run = 1 .. Len(run) /\ \A e \in 1 .. Len(run) : run[e] \in Runs
  BY RunFacts DEF PoolInv
<1>2. \A e \in 1 .. Len(run) :
          /\ Retired(e) \in Runs
          /\ Retired(e).open = run[e].open /\ Retired(e).start = run[e].start
          /\ Retired(e).finish = run[e].finish \/ run[e].open = 0
  BY <1>1 DEF Retired, Runs
<1>3. /\ wound \in [1 .. Len(run) -> Runs]
      /\ \A e \in 1 .. Len(run) : wound[e] = IF e \in old THEN Retired(e) ELSE run[e]
  BY <1>1, <1>2
<1>4. wound \in Seq(Runs) /\ Len(wound) = Len(run)
  BY <1>1, <1>3, IsASeq, LenProperties
<1> QED BY <1>2, <1>3, <1>4

\* The run picked is counted one request more.
Loaded(added, picked) == [added EXCEPT ![picked].open = @ + 1, ![picked].timer = FALSE]

LEMMA PickedRunIsLoaded ==
    ASSUME NEW added \in Seq(Runs), NEW picked \in 1 .. Len(added), NEW loaded, loaded = Loaded(added, picked)
    PROVE  /\ loaded \in Seq(Runs) /\ Len(loaded) = Len(added)
           /\ \A e \in 1 .. Len(added) : e # picked => loaded[e] = added[e]
           /\ loaded[picked].open = added[picked].open + 1
           /\ loaded[picked].start = added[picked].start /\ loaded[picked].finish = added[picked].finish
           /\ loaded[picked].retiring = added[picked].retiring
<1> DEFINE new == [added[picked] EXCEPT !.open = added[picked].open + 1, !.timer = FALSE]
<1>1. added[picked] \in Runs
  BY ElementOfSeq
<1>2. /\ new \in Runs /\ new.open = added[picked].open + 1 /\ new.start = added[picked].start
      /\ new.finish = added[picked].finish /\ new.retiring = added[picked].retiring
  <2>1. added[picked].open + 1 \in Nat
    BY <1>1 DEF Runs
  <2> DEFINE more == added[picked].open + 1
  <2> HIDE DEF more
  <2>2. [added[picked] EXCEPT !.open = more, !.timer = FALSE] \in Runs
    BY <1>1, <2>1 DEF Runs, more
  <2>3. new = [added[picked] EXCEPT !.open = more, !.timer = FALSE]
    BY DEF more
  <2> QED BY <1>1, <2>2, <2>3 DEF Runs, more
<1>3. loaded = [added EXCEPT ![picked] = new]
  <2>1. DOMAIN added = 1 .. Len(added)
    BY LenProperties
  <2>2. DOMAIN added[picked] = {"build", "start", "status", "open", "timer", "retiring", "finish"}
    BY <1>1 DEF Runs
  <2> QED BY <1>1, <2>1, <2>2 DEF Runs, Loaded
<1> HIDE DEF new
<1>4. /\ loaded \in Seq(Runs) /\ Len(loaded) = Len(added)
      /\ \A e \in 1 .. Len(added) : loaded[e] = IF e = picked THEN new ELSE added[e]
  <2>1. /\ [added EXCEPT ![picked] = new] \in Seq(Runs)
        /\ Len([added EXCEPT ![picked] = new]) = Len(added)
        /\ \A e \in 1 .. Len(added) : [added EXCEPT ![picked] = new][e] = IF e = picked THEN new ELSE added[e]
    BY <1>2, ExceptSeq
  <2> QED BY <1>3, <2>1
<1> QED BY <1>2, <1>4

LEMMA NewRunIsARun ==
    ASSUME NEW b \in Nat
    PROVE  /\ NewRun(b) \in Runs /\ NewRun(b).open = 0 /\ NewRun(b).start = "starting"
           /\ NewRun(b).finish = "no" /\ ~NewRun(b).retiring
  BY DEF NewRun, Runs

\* The run that a request gets: one with room, or a new one if there is none.
Picked(picked, old) ==
    \/ picked \in pool \ old /\ run[picked].open < MaxLoad
    \/ picked = Len(run) + 1 /\ \A e \in pool \ old : ~(run[e].open < MaxLoad)

\* The runs after a request got one: those there were, the new ones, and the pool.
Reserved(picked, old) ==
    /\ run' \in Seq(Runs) /\ Len(run) <= Len(run') /\ picked \in 1 .. Len(run')
    /\ \A e \in 1 .. Len(run) :
          /\ run'[e].open = IF e = picked THEN run[e].open + 1 ELSE run[e].open
          /\ run'[e].start = run[e].start
          /\ e \notin old => run'[e].finish = run[e].finish /\ run'[e].retiring = run[e].retiring
          /\ run'[e].finish = run[e].finish \/ (run[e].open = 0 /\ e # picked)
    /\ \A e \in 1 .. Len(run') : e > Len(run) =>
          /\ run'[e].open = IF e = picked THEN 1 ELSE 0
          /\ run'[e].finish = "no" /\ ~run'[e].retiring
    /\ LET live == (pool \ old) \cup {picked}
       IN  \/ pool' = live
           \/ /\ pool' = live \cup {Len(run')} /\ Len(run) < Len(run')
              /\ \A e \in live : run'[e].open > Desired

LEMMA ReserveMoves ==
    ASSUME StandbyAssumption, PoolInv, NEW r \in Requests, Reserve(r)
    PROVE  \E picked \in Nat, old \in SUBSET pool :
               /\ Picked(picked, old) /\ Reserved(picked, old)
               /\ req' = [req EXCEPT ![r].at = "waiting", ![r].run = picked]
<1> DEFINE b      == req[r].build
           old    == {e \in pool : run[e].build # b}
           found  == LeastLoaded(pool \ old)
           n      == Len(run)
           picked == IF found = NoRun THEN n + 1 ELSE found
           wound  == [e \in DOMAIN run |-> IF e \in old THEN Retired(e) ELSE run[e]]
           added  == IF found = NoRun THEN Append(wound, NewRun(b)) ELSE wound
           loaded == Loaded(added, picked)
           live   == (pool \ old) \cup {picked}
<1>1. /\ \/ run' = loaded /\ pool' = live
         \/ /\ \A e \in live : loaded[e].open > Desired
            /\ run' = Append(loaded, NewRun(b)) /\ pool' = live \cup {Len(loaded) + 1}
      /\ req' = [req EXCEPT ![r].at = "waiting", ![r].run = picked]
  BY DEF Reserve, Loaded
<1>2. b \in Nat /\ n \in Nat /\ pool \subseteq 1 .. n /\ old \in SUBSET pool
  BY RunFacts DEF PoolInv, TypeOK, Records
<1>3. /\ wound \in Seq(Runs) /\ Len(wound) = n
      /\ \A e \in 1 .. n :
            /\ wound[e].open = run[e].open /\ wound[e].start = run[e].start
            /\ e \notin old => wound[e] = run[e]
            /\ wound[e].finish = run[e].finish \/ run[e].open = 0
  <2> HIDE DEF old
  <2> QED BY <1>2, OldRunsRetire
<1>4. \/ found = NoRun /\ \A e \in pool \ old : ~(run[e].open < MaxLoad)
      \/ found \in pool \ old /\ run[found].open < MaxLoad /\ found # NoRun
  <2> HIDE DEF old
  <2> QED BY <1>2, LeastLoadedHasRoom DEF PoolInv
<1>5. NewRun(b) \in Runs /\ NewRun(b).open = 0 /\ NewRun(b).start = "starting"
      /\ NewRun(b).finish = "no" /\ ~NewRun(b).retiring
  BY <1>2, NewRunIsARun
<1> HIDE DEF wound, found, old
<1>6. Picked(picked, old)
  BY <1>4 DEF Picked
<1>7. /\ added \in Seq(Runs) /\ Len(added) \in {n, n + 1} /\ picked \in 1 .. Len(added)
      /\ \A e \in 1 .. n : added[e] = wound[e]
      /\ Len(added) = n + 1 => added[n + 1] = NewRun(b) /\ picked = n + 1
      /\ Len(added) = n => picked \in pool \ old
  <2>1. CASE found = NoRun
    BY <1>2, <1>3, <1>5, <2>1, AppendProperties
  <2>2. CASE found # NoRun
    <3>1. added = wound /\ picked = found
      BY <2>2
    <3>2. found \in pool \ old
      BY <1>4, <2>2
    <3> HIDE DEF added, picked
    <3> QED BY <1>2, <1>3, <3>1, <3>2
  <2> QED BY <2>1, <2>2
<1> HIDE DEF added, picked
<1>8. /\ loaded \in Seq(Runs) /\ Len(loaded) = Len(added)
      /\ \A e \in 1 .. Len(added) : e # picked => loaded[e] = added[e]
      /\ loaded[picked].open = added[picked].open + 1
      /\ loaded[picked].start = added[picked].start /\ loaded[picked].finish = added[picked].finish
      /\ loaded[picked].retiring = added[picked].retiring
  <2>1. loaded = Loaded(added, picked)
    OBVIOUS
  <2> HIDE DEF loaded
  <2> QED BY <1>7, <2>1, PickedRunIsLoaded
<1> HIDE DEF loaded, n, b
<1>9. /\ \A e \in 1 .. n :
            /\ loaded[e].open = IF e = picked THEN run[e].open + 1 ELSE run[e].open
            /\ loaded[e].start = run[e].start
            /\ e \notin old => loaded[e].finish = run[e].finish /\ loaded[e].retiring = run[e].retiring
            /\ loaded[e].finish = run[e].finish \/ (run[e].open = 0 /\ e # picked)
      /\ Len(loaded) = n + 1 => /\ picked = n + 1 /\ loaded[n + 1].open = 1
                                /\ loaded[n + 1].finish = "no" /\ ~loaded[n + 1].retiring
  <2>1. ASSUME NEW e \in 1 .. n
        PROVE  /\ loaded[e].open = IF e = picked THEN run[e].open + 1 ELSE run[e].open
               /\ loaded[e].start = run[e].start
               /\ e \notin old => loaded[e].finish = run[e].finish /\ loaded[e].retiring = run[e].retiring
               /\ loaded[e].finish = run[e].finish \/ (run[e].open = 0 /\ e # picked)
    <3>1. e \in 1 .. Len(added) /\ added[e] = wound[e]
      BY <1>2, <1>7, <2>1
    <3>2. CASE e # picked
      BY <1>3, <1>8, <2>1, <3>1, <3>2
    <3>3. CASE e = picked
      <4>1. e \notin old
        BY <1>2, <1>7, <2>1, <3>3
      <4> QED BY <1>3, <1>8, <2>1, <3>1, <3>3, <4>1
    <3> QED BY <3>2, <3>3
  <2>2. Len(loaded) = n + 1 => /\ picked = n + 1 /\ loaded[n + 1].open = 1
                               /\ loaded[n + 1].finish = "no" /\ ~loaded[n + 1].retiring
    BY <1>5, <1>7, <1>8
  <2> QED BY <2>1, <2>2
<1>10. Len(loaded) \in Nat /\ Len(loaded) \in {n, n + 1}
  BY <1>2, <1>7, <1>8
<1>11. ASSUME run' = loaded, pool' = live
       PROVE  Reserved(picked, old)
  <2>1. Len(run) = n
    BY DEF n
  <2>2. \A e \in 1 .. n : e \in 1 .. Len(run')
    BY <1>2, <1>10, <1>11
  <2>3. \A e \in 1 .. Len(run') : e > n =>
            /\ run'[e].open = IF e = picked THEN 1 ELSE 0
            /\ run'[e].finish = "no" /\ ~run'[e].retiring
    <3>1. \A e \in 1 .. Len(run') : e > n => e = n + 1 /\ Len(loaded) = n + 1
      BY <1>2, <1>10, <1>11
    <3> QED BY <1>9, <1>11, <3>1
  <2>4. run' \in Seq(Runs) /\ n <= Len(run') /\ picked \in 1 .. Len(run')
    BY <1>2, <1>7, <1>8, <1>10, <1>11
  <2> HIDE DEF live
  <2>5. live = (pool \ old) \cup {picked}
    BY DEF live
  <2>6. \A e \in 1 .. n :
            /\ run'[e].open = IF e = picked THEN run[e].open + 1 ELSE run[e].open
            /\ run'[e].start = run[e].start
            /\ e \notin old => run'[e].finish = run[e].finish /\ run'[e].retiring = run[e].retiring
            /\ run'[e].finish = run[e].finish \/ (run[e].open = 0 /\ e # picked)
    BY <1>9, <1>11
  <2>7. pool' = (pool \ old) \cup {picked}
    BY <1>11, <2>5
  <2> QED BY <2>1, <2>3, <2>4, <2>6, <2>7 DEF Reserved
<1>12. ASSUME \A e \in live : loaded[e].open > Desired,
              run' = Append(loaded, NewRun(b)), pool' = live \cup {Len(loaded) + 1}
       PROVE  Reserved(picked, old)
  <2>1. /\ run' \in Seq(Runs) /\ Len(run') = Len(loaded) + 1 /\ run'[Len(loaded) + 1] = NewRun(b)
        /\ \A e \in 1 .. Len(loaded) : run'[e] = loaded[e]
    BY <1>5, <1>8, <1>12, AppendProperties
  <2>2. \A e \in live : e \in 1 .. Len(loaded)
    BY <1>2, <1>7, <1>8, <1>10
  <2>3. \A e \in 1 .. n : e \in 1 .. Len(loaded)
    BY <1>2, <1>10
  <2>4. \A e \in 1 .. Len(run') : e > n =>
            /\ run'[e].open = IF e = picked THEN 1 ELSE 0
            /\ run'[e].finish = "no" /\ ~run'[e].retiring
    <3>1. ASSUME NEW e \in 1 .. Len(run'), e > n
          PROVE  /\ run'[e].open = IF e = picked THEN 1 ELSE 0
                 /\ run'[e].finish = "no" /\ ~run'[e].retiring
      <4>1. e = Len(loaded) + 1 \/ (e = n + 1 /\ Len(loaded) = n + 1)
        BY <1>2, <1>10, <2>1, <3>1
      <4>2. e = Len(loaded) + 1 => e # picked
        BY <1>7, <1>8, <1>10
      <4>3. Len(loaded) = n + 1 => n + 1 \in 1 .. Len(loaded)
        BY <1>2
      <4> QED BY <1>5, <1>9, <2>1, <4>1, <4>2, <4>3
    <3> QED BY <3>1
  <2>5. \A e \in live : run'[e].open > Desired
    BY <1>12, <2>1, <2>2
  <2>6. n <= Len(run') /\ n < Len(run') /\ picked \in 1 .. Len(run')
    BY <1>2, <1>7, <1>8, <1>10, <2>1
  <2>7. pool' = live \cup {Len(run')}
    BY <1>12, <2>1
  <2> HIDE DEF live
  <2>8. live = (pool \ old) \cup {picked}
    BY DEF live
  <2>9. Len(run) = n
    BY DEF n
  <2>10. \A e \in 1 .. n : run'[e] = loaded[e]
    BY <2>1, <2>3
  <2>11. \A e \in 1 .. n :
            /\ run'[e].open = IF e = picked THEN run[e].open + 1 ELSE run[e].open
            /\ run'[e].start = run[e].start
            /\ e \notin old => run'[e].finish = run[e].finish /\ run'[e].retiring = run[e].retiring
            /\ run'[e].finish = run[e].finish \/ (run[e].open = 0 /\ e # picked)
    BY <1>9, <2>10
  <2> QED BY <2>1, <2>4, <2>5, <2>6, <2>7, <2>8, <2>9, <2>11 DEF Reserved
<1>13. picked \in Nat
  BY <1>7, <1>8, <1>10
<1> QED BY <1>1, <1>2, <1>6, <1>11, <1>12, <1>13

\* Of the runs still starting, one at most has room to spare afterwards: the one there was, the
\* new one the request got, or the one started ahead because all others have enough.
LEMMA ReserveSharesStart ==
    ASSUME StandbyAssumption, PoolInv, NEW picked \in Nat, NEW old \in SUBSET pool,
           Picked(picked, old), Reserved(picked, old)
    PROVE  OneSpare'
<1> DEFINE live == (pool \ old) \cup {picked}
<1>1. /\ Len(run) \in Nat /\ pool \subseteq 1 .. Len(run) /\ \A e \in 1 .. Len(run) : run[e].open \in Nat
      /\ Desired \in Nat \ {0} /\ MaxLoad \in Nat
  BY RunFacts DEF PoolInv, TypeOK, Runs, StandbyAssumption
<1>2. CASE pool' = live /\ picked \in pool \ old
  <2>1. ASSUME NEW e \in Spare' PROVE e \in Spare
    <3>1. e \in pool /\ e \in 1 .. Len(run)
      BY <1>1, <1>2, <2>1 DEF Spare
    <3>2. run[e].start = run'[e].start /\ run[e].open <= run'[e].open /\ run'[e].open \in Nat
      BY <1>1, <3>1 DEF Reserved
    <3> QED BY <1>1, <2>1, <3>1, <3>2 DEF Spare
  <2> QED BY <2>1 DEF PoolInv, OneSpare
<1>3. CASE pool' = live /\ picked = Len(run) + 1 /\ \A e \in pool \ old : ~(run[e].open < MaxLoad)
  <2>1. ASSUME NEW e \in Spare' PROVE e = picked
    <3>1. SUFFICES ASSUME e # picked PROVE FALSE
      OBVIOUS
    <3>2. e \in pool \ old /\ e \in 1 .. Len(run)
      BY <1>1, <1>3, <2>1, <3>1 DEF Spare
    <3>3. run'[e].open = run[e].open
      BY <3>1, <3>2 DEF Reserved
    <3> QED BY <1>3, <2>1, <3>2, <3>3 DEF Spare
  <2> QED BY <2>1 DEF OneSpare
<1>4. CASE pool' = live \cup {Len(run')} /\ (\A e \in live : run'[e].open > Desired)
  <2>1. \A e \in live : run'[e].open \in Nat
    <3>1. \A e \in live : e \in 1 .. Len(run')
      BY <1>1 DEF Reserved
    <3>2. \A e \in 1 .. Len(run') : run'[e] \in Runs
      BY ElementOfSeq DEF Reserved
    <3> QED BY <3>1, <3>2 DEF Runs
  <2>2. ASSUME NEW e \in Spare' PROVE e = Len(run')
    BY <1>1, <1>4, <2>1, <2>2 DEF Spare
  <2> QED BY <2>2 DEF OneSpare
<1> QED BY <1>2, <1>3, <1>4 DEF Picked, Reserved

LEMMA ReserveHolds ==
    ASSUME StandbyAssumption, PoolInv, NEW r \in Requests, Reserve(r)
    PROVE  PoolInv'
<1>1. PICK picked \in Nat, old \in SUBSET pool :
          /\ Picked(picked, old) /\ Reserved(picked, old)
          /\ req' = [req EXCEPT ![r].at = "waiting", ![r].run = picked]
  BY ReserveMoves
<1>2. req[r].at = "pruning" /\ tagged' = tagged
  BY DEF Reserve
<1>3. /\ req' \in [Requests -> Records] /\ req'[r].at = "waiting" /\ req'[r].run = picked
      /\ \A q \in Requests : q # r => req'[q] = req[q]
  <2> DEFINE new == [req[r] EXCEPT !.at = "waiting", !.run = picked]
  <2>1. req \in [Requests -> Records] /\ req[r] \in Records
    BY DEF PoolInv, TypeOK
  <2>2. req' = [req EXCEPT ![r] = new]
    BY <1>1, <2>1 DEF Records
  <2>3. new \in Records /\ new.at = "waiting" /\ new.run = picked
    BY <2>1 DEF Records
  <2> HIDE DEF new
  <2> QED BY <2>2, <2>3, RequestMoves DEF PoolInv
<1>4. /\ Len(run) \in Nat /\ pool \subseteq 1 .. Len(run) /\ \A e \in 1 .. Len(run) : run[e].open \in Nat
      /\ Desired \in Nat \ {0} /\ MaxLoad \in Nat /\ MaxLoad >= Desired
  BY RunFacts DEF PoolInv, TypeOK, Runs, StandbyAssumption
<1>5. run' \in Seq(Runs) /\ Len(run') \in Nat /\ Len(run) <= Len(run') /\ picked \in 1 .. Len(run')
  BY <1>1, LenProperties DEF Reserved
<1>6. /\ Holders(picked)' = Holders(picked) \cup {r} /\ r \notin Holders(picked)
      /\ \A f : f # picked => Holders(f)' = Holders(f)
  <2>1. Holders(picked)' = Holders(picked) \cup {r} /\ r \notin Holders(picked)
    BY <1>2, <1>3 DEF Holders
  <2>2. ASSUME NEW f, f # picked PROVE Holders(f)' = Holders(f)
    <3>1. r \notin Holders(f) /\ r \notin Holders(f)'
      BY <1>2, <1>3, <2>2 DEF Holders
    <3>2. \A q \in Requests : q # r => (q \in Holders(f)' <=> q \in Holders(f))
      BY <1>3 DEF Holders
    <3>3. Holders(f) \subseteq Requests /\ Holders(f)' \subseteq Requests
      BY DEF Holders
    <3> QED BY <3>1, <3>2, <3>3
  <2> QED BY <2>1, <2>2
<1>7. Cardinality(Holders(picked)') = Cardinality(Holders(picked)) + 1
  BY ZenonT(40), <1>6, HoldersAreFinite, FS_AddElement
<1>8. \A e : e \notin 1 .. Len(run) => Cardinality(Holders(e)) = 0
  <2>1. \A e : e \notin 1 .. Len(run) => Holders(e) = {}
    BY DEF PoolInv, RunIsThere, Holders
  <2> QED BY <2>1, FS_EmptySet
<1>9. pool' \subseteq 1 .. Len(run')
  <2>1. \A e \in 1 .. Len(run) : e \in 1 .. Len(run')
    BY <1>4, <1>5
  <2>2. Len(run') \in 1 .. Len(run')
    BY <1>5
  <2> QED BY <1>1, <1>4, <1>5, <2>1, <2>2 DEF Reserved
<1>10. TypeOK'
  BY <1>2, <1>3, <1>5, <1>9 DEF PoolInv, TypeOK
<1>11. RunIsThere'
  <2>1. \A e \in 1 .. Len(run) : e \in 1 .. Len(run') /\ run'[e].start = run[e].start
    BY <1>1, <1>4, <1>5 DEF Reserved
  <2>2. ASSUME NEW q \in Requests, q # r
        PROVE  /\ req'[q].at \in {"waiting", "leased"} => req'[q].run \in 1 .. Len(run')
               /\ req'[q].at = "leased" => run'[req'[q].run].start # "starting"
    BY <1>3, <2>1, <2>2 DEF PoolInv, RunIsThere
  <2> QED BY <1>3, <1>5, <2>2 DEF RunIsThere
<1>12. Counted'
  <2>1. ASSUME NEW e \in 1 .. Len(run'), e \in 1 .. Len(run), e # picked
        PROVE  run'[e].open = Cardinality(Holders(e)') /\ run'[e].open <= MaxLoad
    BY <1>1, <1>6, <2>1 DEF Reserved, PoolInv, Counted
  <2>2. ASSUME NEW e \in 1 .. Len(run'), e \in 1 .. Len(run), e = picked
        PROVE  run'[e].open = Cardinality(Holders(e)') /\ run'[e].open <= MaxLoad
    <3>1. run[e].open < MaxLoad
      BY <1>1, <1>4, <2>2 DEF Picked
    <3>2. run[e].open = Cardinality(Holders(e)) /\ run'[e].open = run[e].open + 1
      BY <1>1, <2>2 DEF Reserved, PoolInv, Counted
    <3> QED BY <1>4, <1>7, <2>2, <3>1, <3>2
  <2>3. ASSUME NEW e \in 1 .. Len(run'), e \notin 1 .. Len(run)
        PROVE  run'[e].open = Cardinality(Holders(e)') /\ run'[e].open <= MaxLoad
    <3>1. e > Len(run)
      BY <1>4, <1>5, <2>3
    <3>2. run'[e].open = IF e = picked THEN 1 ELSE 0
      BY <1>1, <3>1 DEF Reserved
    <3>3. Cardinality(Holders(e)) = 0
      BY <1>8, <2>3
    <3>4. CASE e = picked
      BY <1>4, <1>7, <3>2, <3>3, <3>4
    <3>5. CASE e # picked
      BY <1>4, <1>6, <3>2, <3>3, <3>5
    <3> QED BY <3>4, <3>5
  <2> QED BY <2>1, <2>2, <2>3 DEF Counted
<1>13. WoundDown'
  <2>1. ASSUME NEW e \in pool' PROVE ~run'[e].retiring /\ run'[e].finish = "no"
    <3>1. CASE e > Len(run)
      BY <1>1, <1>9, <2>1, <3>1 DEF Reserved
    <3>2. CASE ~(e > Len(run))
      <4>1. e \in 1 .. Len(run)
        BY <1>4, <1>5, <1>9, <2>1, <3>2
      <4>2. e \in pool \ old
        <5>1. pool' = (pool \ old) \cup {picked} \cup {Len(run')} /\ Len(run) < Len(run') => e # Len(run')
          BY <1>4, <1>5, <4>1
        <5>2. e = picked => e \in pool \ old
          BY <1>1, <1>4, <4>1 DEF Picked
        <5> QED BY <1>1, <2>1, <5>1, <5>2 DEF Reserved
      <4> QED BY <1>1, <4>1, <4>2 DEF Reserved, PoolInv, WoundDown
    <3> QED BY <3>1, <3>2
  <2>2. ASSUME NEW e \in 1 .. Len(run'), run'[e].finish # "no" PROVE run'[e].open = 0
    <3>1. e \in 1 .. Len(run)
      BY <1>1, <1>4, <1>5, <2>2 DEF Reserved
    <3>2. run[e].open = 0 /\ e # picked
      <4>1. CASE run'[e].finish = run[e].finish
        <5>1. run[e].open = 0 /\ e \notin pool
          BY <2>2, <3>1, <4>1 DEF PoolInv, WoundDown
        <5> QED BY <1>1, <1>4, <3>1, <5>1 DEF Picked
      <4>2. CASE run'[e].finish # run[e].finish
        BY <1>1, <3>1, <4>2 DEF Reserved
      <4> QED BY <4>1, <4>2
    <3> QED BY <1>1, <3>1, <3>2 DEF Reserved
  <2> QED BY <2>1, <2>2 DEF WoundDown
<1>14. OneSpare'
  BY <1>1, ReserveSharesStart
<1> QED BY <1>10, <1>11, <1>12, <1>13, <1>14 DEF PoolInv

-----------------------------------------------------------------------------
(* The theorems.                                                           *)

LEMMA PoolInitHolds == StandbyAssumption /\ Init => PoolInv
<1> SUFFICES ASSUME StandbyAssumption, Init PROVE PoolInv
  OBVIOUS
<1>1. TypeOK /\ Len(run) = 0
  BY EmptySeq DEF Init, TypeOK, Records, NoRun
<1> QED BY <1>1 DEF Init, PoolInv, RunIsThere, Counted, WoundDown, Spare, OneSpare

LEMMA PoolNextHolds ==
    ASSUME StandbyAssumption, PoolInv, [Next]_vars
    PROVE  PoolInv'
<1>1. CASE UNCHANGED vars
  <2>1. \A e : Holders(e)' = Holders(e)
    BY <1>1 DEF vars, Holders
  <2> QED BY <1>1, <2>1 DEF vars, PoolInv, TypeOK, RunIsThere, Counted, WoundDown, Spare, OneSpare
<1>2. CASE BuildTagged
  <2>1. tagged' \in Nat /\ UNCHANGED <<run, pool, req>>
    BY <1>2 DEF BuildTagged, PoolInv, TypeOK
  <2>2. \A e : Holders(e)' = Holders(e)
    BY <2>1 DEF Holders
  <2> QED BY <2>1, <2>2 DEF PoolInv, TypeOK, RunIsThere, Counted, WoundDown, Spare, OneSpare
<1>3. CASE \E r \in Requests : RequestStep(r) \/ ClientLeaves(r)
  BY <1>3, ResolveBuildHolds, PruneHolds, ReserveHolds, LeasedHolds, ReleaseHolds, ClientLeavesHolds
     DEF RequestStep
<1>4. CASE \E e \in DOMAIN run : RunStep(e)
  BY <1>4, RunStepHolds, RunFacts DEF PoolInv
<1> QED BY <1>1, <1>2, <1>3, <1>4 DEF Next

LEMMA PoolKeepsInv == Spec => []PoolInv
  BY StandbyAssumption, PoolInitHolds, PoolNextHolds, PTL DEF Spec

\* However requests arrive, the runs of an address are shared as its settings say: none serves more
\* requests than maxRequestsPerActorRun, and the requests that arrive while a run starts do not
\* each start one more (leastLoadedRun, acquireStandbyRun, release).
THEOREM PoolSpreadsLoad == Spec => []LoadIsSpread
<1>1. ASSUME PoolInv PROVE LoadIsSpread
  <2>1. MaxRespected
    BY <1>1, RunFacts DEF PoolInv, Counted, MaxRespected
  <2>2. \A e \in pool : run[e].open = Cardinality(Holders(e))
    BY <1>1 DEF PoolInv, TypeOK, Counted
  <2>3. {e \in pool : /\ run[e].start = "starting"
                      /\ Cardinality(Holders(e)) <= Desired
                      /\ Cardinality(Holders(e)) < MaxLoad} = Spare
    BY <2>2 DEF Spare
  <2>4. Cardinality(Spare) <= 1
    <3>1. CASE Spare = {}
      BY <3>1, FS_EmptySet
    <3>2. CASE Spare # {}
      <4>1. PICK e \in Spare : Spare = {e}
        BY <1>1, <3>2 DEF PoolInv, OneSpare
      <4> QED BY <4>1, FS_Singleton
    <3> QED BY <3>1, <3>2
  <2> QED BY <2>1, <2>3, <2>4 DEF LoadIsSpread, StartIsShared
<1> QED BY <1>1, PoolKeepsInv, PTL

\* The pool winds no run down that a request has, idle or replaced, and gives none to a request
\* afterwards (armIdleTimer, retire, release, finishRun).
THEOREM NoBusyRunIsWoundDown == Spec => []NoBusyRunFinished
<1>1. ASSUME PoolInv, StandbyAssumption PROVE NoBusyRunFinished
  <2>1. ASSUME NEW e \in DOMAIN run, run[e].finish # "no" PROVE Holders(e) = {}
    <3>1. e \in 1 .. Len(run)
      BY <1>1, <2>1, RunFacts DEF PoolInv
    <3>2. Cardinality(Holders(e)) = 0
      BY <1>1, <2>1, <3>1 DEF PoolInv, WoundDown, Counted
    <3>3. IsFiniteSet(Holders(e))
      BY <1>1, HoldersAreFinite
    <3> QED BY <3>2, <3>3, FS_EmptySet
  <2> QED BY <2>1 DEF NoBusyRunFinished
<1> QED BY <1>1, StandbyAssumption, PoolKeepsInv, PTL

=============================================================================
