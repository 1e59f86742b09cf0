--------------------------- MODULE Scheduler_proofs ---------------------------
(***************************************************************************)
(* Proofs about Scheduler, for any actions, any period and distance of the *)
(* runs, and any number of invocations, edits, crashes and ticks.          *)
(***************************************************************************)
EXTENDS Scheduler, SequenceTheorems, TLAPS

-----------------------------------------------------------------------------
(* When a schedule is due: the first multiple of Period after a bound.     *)

LEMMA MultipleHasFactor ==
    ASSUME NEW p \in Nat \ {0}, NEW k \in Int, k % p = 0
    PROVE  \E a \in Int : k = p * a
<1>1. k = p * (k \div p) + (k % p)
  BY Z3
<1>2. k \div p \in Int
  OBVIOUS
<1> QED BY <1>1, <1>2

LEMMA MultiplesAreApart ==
    ASSUME NEW p \in Nat \ {0}, NEW n \in Int, NEW m \in Int, n % p = 0, m % p = 0, n > m
    PROVE  n >= m + p
<1>1. PICK a \in Int : n = p * a
  BY MultipleHasFactor
<1>2. PICK b \in Int : m = p * b
  BY MultipleHasFactor
<1>3. a >= b + 1
  BY <1>1, <1>2
<1>4. p * a >= p * (b + 1)
  BY <1>3
<1>5. p * (b + 1) = p * b + p
  OBVIOUS
<1> QED BY <1>1, <1>2, <1>4, <1>5

\* After any bound comes a multiple, within one period.
LEMMA NextMultiple ==
    ASSUME NEW p \in Nat \ {0}, NEW bound \in Int
    PROVE  \E t \in Int : t % p = 0 /\ bound < t /\ t <= bound + p
<1> DEFINE k == bound \div p
           t == p * (k + 1)
<1>1. bound = p * k + (bound % p)
  BY Z3
<1>2. k \in Int /\ bound % p \in 0 .. p - 1
  OBVIOUS
<1> HIDE DEF k
<1>3. t = p * k + p
  BY <1>2
<1>4. t \in Int /\ t % p = 0
  BY <1>2
<1> QED BY <1>1, <1>2, <1>3, <1>4

LEMMA MinOfTwo ==
    ASSUME NEW a \in Int, NEW b \in Int
    PROVE  Min({a, b}) \in {a, b} /\ Min({a, b}) <= a /\ Min({a, b}) <= b
<1>1. CASE a <= b
  BY <1>1 DEF Min
<1>2. CASE b <= a
  BY <1>2 DEF Min
<1> QED BY <1>1, <1>2

\* The next run is later than now and keeps the distance to the last one.
LEMMA NextRunFacts ==
    ASSUME SchedulerAssumption, now \in Nat, NEW last \in Int, last = Never \/ last \in 0 .. now
    PROVE  /\ computeNextRunAt(last) \in Nat /\ computeNextRunAt(last) > now
           /\ last # Never => computeNextRunAt(last) - last >= MinInterval
<1> USE DEF SchedulerAssumption, Never
<1> DEFINE times == {t \in now + 1 .. now + Period + MinInterval :
                        t % Period = 0 /\ (last = Never \/ t - last >= MinInterval)}
           bound == IF last = Never \/ now >= last + MinInterval THEN now ELSE last + MinInterval - 1
<1>1. bound \in Int /\ now <= bound /\ bound <= now + MinInterval
  OBVIOUS
<1>2. \A y \in times : y \in Int /\ bound < y /\ y % Period = 0
  OBVIOUS
<1>3. \A y \in Int : bound < y => y > now /\ (last = Never \/ y - last >= MinInterval)
  OBVIOUS
<1> HIDE DEF bound
<1>4. PICK t \in Int : t % Period = 0 /\ bound < t /\ t <= bound + Period
  BY <1>1, NextMultiple
<1>5. t \in times
  BY <1>1, <1>3, <1>4
<1>6. ASSUME NEW y \in times PROVE t <= y
  <2>1. y \in Int /\ bound < y /\ y % Period = 0
    BY <1>2
  <2>2. t > y => t >= y + Period
    BY <2>1, <1>4, MultiplesAreApart
  <2> QED BY <1>1, <1>4, <2>1, <2>2
<1>7. Min(times) \in times
  BY <1>5, <1>6 DEF Min
<1>8. computeNextRunAt(last) = Min(times)
  BY DEF computeNextRunAt
<1> QED BY <1>7, <1>8

-----------------------------------------------------------------------------
(* The inductive invariant.                                                *)

Invocations == [byTimer : BOOLEAN, at : {"waiting", "acting"}, startedAt : Int,
                todo : SUBSET Actions, next : SUBSET Actions]
Records == [exists : BOOLEAN, isEnabled : BOOLEAN, actions : SUBSET Actions,
            nextRunAt : Int, lastRunAt : Int, log : Int]

TypeOK ==
    /\ now \in Nat /\ timer \in Int /\ schedule \in Records
    /\ locked \in Seq(Invocations) /\ live \in [Actions -> Nat]
    /\ runTimes \in Seq([due : Int, started : Int])
    /\ up \in BOOLEAN /\ throws \in Nat /\ crashes \in Nat

\* The times of a record: it is due at some time if it is enabled, and did not run later
\* than now.
SoundTimes(s) ==
    /\ s.exists /\ s.isEnabled => s.nextRunAt \in Nat
    /\ s.lastRunAt = Never \/ s.lastRunAt \in 0 .. now

\* Only the first in line runs actions.
InLine ==
    \A i \in 1 .. Len(locked) :
        /\ locked[i].at = "waiting" => locked[i].next = {}
        /\ i > 1 => locked[i].at = "waiting"
        /\ locked[i].at = "acting" => locked[i].startedAt \in 0 .. now

\* The action whose run is started next has no unfinished run.
StartsAlone == locked # <<>> => \A a \in Actions : locked[1].next = {a} => live[a] = 0

\* The first in line is an invocation by the timer that has recorded its time.
Acting == locked # <<>> /\ locked[1].byTimer /\ locked[1].at = "acting"

Past == \A j \in 1 .. Len(runTimes) : runTimes[j].due <= now /\ runTimes[j].started \in 0 .. now

\* Between invocations, the schedule is due later than it was ever invoked for ...
Fresh ==
    throws = 0 /\ up /\ schedule.exists /\ schedule.isEnabled =>
        Acting \/ \A j \in 1 .. Len(runTimes) : runTimes[j].due < schedule.nextRunAt

\* ... and as far from the last one as promised, which the record knows of.
Spaced ==
    crashes + throws = 0 /\ runTimes # <<>> /\ schedule.exists =>
        LET last == runTimes[Len(runTimes)].started
        IN  IF Acting THEN locked[1].startedAt = last
            ELSE /\ schedule.lastRunAt = last
                 /\ schedule.isEnabled => schedule.nextRunAt - last >= MinInterval

SchedulerInv ==
    /\ TypeOK /\ SoundTimes(schedule) /\ InLine /\ StartsAlone /\ Past /\ Fresh /\ Spaced
    /\ ~up => crashes > 0
    /\ ArmedWhenEnabled /\ ExclusiveRuns /\ TimesKept

-----------------------------------------------------------------------------
(* What happens to the line of invocations, and to the timer.              *)

LEMMA Joins ==
    ASSUME locked \in Seq(Invocations), NEW r \in Invocations, locked' = Append(locked, r)
    PROVE  /\ locked' \in Seq(Invocations) /\ locked' # <<>>
           /\ Len(locked) \in Nat /\ Len(locked') = Len(locked) + 1
           /\ \A k \in 1 .. Len(locked) : locked'[k] = locked[k]
           /\ locked'[Len(locked) + 1] = r
  BY AppendProperties, LenProperties

LEMMA HeadGoes ==
    ASSUME locked \in Seq(Invocations), NEW i, Holds(i), NEW r \in Invocations, Goes(i, r)
    PROVE  /\ i = 1 /\ locked' \in Seq(Invocations)
           /\ Len(locked) \in Nat \ {0} /\ Len(locked') = Len(locked)
           /\ locked # <<>> /\ locked' # <<>>
           /\ locked'[1] = r /\ \A k \in 2 .. Len(locked) : locked'[k] = locked[k]
<1>1. i = 1 /\ Len(locked) \in Nat \ {0} /\ locked # <<>>
  BY EmptySeq, LenProperties DEF Holds
<1>2. locked' = [locked EXCEPT ![1] = r]
  BY <1>1 DEF Goes
<1>3. locked' \in Seq(Invocations) /\ Len(locked') = Len(locked)
  BY <1>1, <1>2, ExceptSeq
<1>4. locked' # <<>>
  BY <1>1, <1>3, EmptySeq
<1>5. locked'[1] = r /\ \A k \in 2 .. Len(locked) : locked'[k] = locked[k]
  BY <1>1, <1>2, LenProperties
<1> QED BY <1>1, <1>3, <1>4, <1>5

LEMMA HeadLeaves ==
    ASSUME locked \in Seq(Invocations), NEW i, Holds(i), Leaves(i)
    PROVE  /\ i = 1 /\ locked' \in Seq(Invocations) /\ locked # <<>>
           /\ Len(locked) \in Nat \ {0} /\ Len(locked') = Len(locked) - 1
           /\ \A k \in 1 .. Len(locked) - 1 : locked'[k] = locked[k + 1]
<1>1. i = 1 /\ Len(locked) \in Nat \ {0} /\ locked # <<>>
  BY EmptySeq, LenProperties DEF Holds
<1>2. \A k \in 2 .. Len(locked) : locked[k] \in Invocations
  BY <1>1, ElementOfSeq
<1> DEFINE rest == SubSeq(locked, 2, Len(locked))
<1>3. /\ rest \in Seq(Invocations)
      /\ Len(rest) = IF 2 <= Len(locked) THEN Len(locked) - 2 + 1 ELSE 0
      /\ \A k \in 1 .. Len(locked) - 2 + 1 : rest[k] = locked[2 + k - 1]
  BY <1>1, <1>2, SubSeqProperties
<1>4. SubSeq(locked, 1, 0) = <<>>
  BY SubSeqEmpty
<1>5. locked' = <<>> \o rest
  BY <1>1, <1>4 DEF Leaves
<1> HIDE DEF rest
<1>6. locked' = rest
  BY <1>3, <1>5, ConcatEmptySeq
<1> QED BY <1>1, <1>3, <1>6

\* A schedule that is there and enabled has a timer then, which is not late.
LEMMA ArmFacts ==
    ASSUME SchedulerAssumption, now \in Nat, timer \in Int, NEW s \in Records, SoundTimes(s), Arm(s)
    PROVE  /\ timer' \in Int
           /\ s.exists /\ s.isEnabled => timer' # Never /\ timer' <= s.nextRunAt
<1>1. CASE s.exists /\ s.isEnabled
  <2>1. s.nextRunAt \in Nat /\ now + MaxDelay \in Nat
    BY <1>1 DEF SoundTimes, SchedulerAssumption
  <2>2. timer' = Min({s.nextRunAt, now + MaxDelay})
    BY <1>1 DEF Arm
  <2>3. Min({s.nextRunAt, now + MaxDelay}) \in {s.nextRunAt, now + MaxDelay}
        /\ Min({s.nextRunAt, now + MaxDelay}) <= s.nextRunAt
    <3> DEFINE a == s.nextRunAt
               b == now + MaxDelay
    <3>1. a \in Int /\ b \in Int
      BY <2>1
    <3> HIDE DEF a, b
    <3>2. Min({a, b}) \in {a, b} /\ Min({a, b}) <= a
      BY <3>1, MinOfTwo
    <3> QED BY <3>2 DEF a, b
  <2> QED BY <2>1, <2>2, <2>3 DEF Never
<1>2. CASE ~(s.exists /\ s.isEnabled)
  BY <1>2 DEF Arm, Never, Records
<1> QED BY <1>1, <1>2

-----------------------------------------------------------------------------
(* Each action keeps the invariant.                                        *)

LEMMA TickHolds ==
    ASSUME SchedulerAssumption, SchedulerInv, Tick
    PROVE  SchedulerInv'
<1> USE DEF SchedulerInv, Tick
<1>1. TypeOK'
  BY DEF TypeOK
<1>2. SoundTimes(schedule)'
  BY DEF TypeOK, Records, SoundTimes
<1>3. InLine'
  BY DEF TypeOK, InLine
<1>4. Past'
  <2>1. \A j \in 1 .. Len(runTimes) : runTimes[j] \in [due : Int, started : Int]
    BY ElementOfSeq DEF TypeOK
  <2> QED BY SMTT(30), <2>1 DEF TypeOK, Past
<1>5. StartsAlone' /\ Fresh' /\ Spaced' /\ (~up => crashes > 0)'
  BY DEF StartsAlone, Fresh, Spaced, Acting
<1>6. ArmedWhenEnabled' /\ ExclusiveRuns' /\ TimesKept'
  BY DEF ArmedWhenEnabled, Firing, ExclusiveRuns, TimesKept, FiredOnce, IntervalKept
<1> QED BY <1>1, <1>2, <1>3, <1>4, <1>5, <1>6

\* One invocation more is in line.
LEMMA JoiningHolds ==
    ASSUME SchedulerInv, NEW byTimer \in BOOLEAN, NEW actions \in SUBSET Actions,
           locked' = Append(locked, Invocation(byTimer, actions)),
           (byTimer /\ timer' = Never) \/ timer' = timer,
           UNCHANGED <<now, schedule, live, runTimes, up, crashes, throws>>
    PROVE  SchedulerInv'
<1> DEFINE r == Invocation(byTimer, actions)
<1>1. r \in Invocations /\ r.byTimer = byTimer /\ r.at = "waiting" /\ r.next = {}
  BY DEF Invocation, Invocations, Never
<1> HIDE DEF r
<1>2. /\ locked' \in Seq(Invocations) /\ locked' # <<>>
      /\ Len(locked) \in Nat /\ Len(locked') = Len(locked) + 1
      /\ \A k \in 1 .. Len(locked) : locked'[k] = locked[k]
      /\ locked'[Len(locked) + 1] = r
  BY <1>1, Joins DEF SchedulerInv, TypeOK, r
<1>3. locked = <<>> \/ locked'[1] = locked[1]
  BY <1>2, EmptySeq DEF SchedulerInv, TypeOK
<1>4. locked = <<>> => locked'[1] = r
  BY <1>2, EmptySeq
<1>5. (Acting' <=> Acting) /\ (Acting => locked'[1] = locked[1])
  BY <1>1, <1>2, <1>3, <1>4 DEF Acting
<1>6. TypeOK' /\ SoundTimes(schedule)' /\ Past' /\ (~up => crashes > 0)'
  BY <1>2 DEF SchedulerInv, TypeOK, SoundTimes, Past, Never
<1>7. InLine'
  BY <1>1, <1>2 DEF SchedulerInv, InLine
<1>8. StartsAlone'
  BY <1>1, <1>2, <1>3, <1>4 DEF SchedulerInv, StartsAlone
<1>9. Fresh' /\ Spaced'
  BY <1>5 DEF SchedulerInv, Fresh, Spaced
<1>10. ArmedWhenEnabled'
  <2>1. DOMAIN locked = 1 .. Len(locked) /\ DOMAIN locked' = 1 .. Len(locked) + 1
    BY <1>2, LenProperties DEF SchedulerInv, TypeOK
  <2>2. Firing => Firing'
    BY <1>2, <2>1 DEF Firing
  <2>3. ASSUME byTimer PROVE Firing'
    <3>1. r.byTimer
      BY <1>1, <2>3
    <3>2. locked'[Len(locked) + 1].byTimer /\ Len(locked) + 1 \in 1 .. Len(locked) + 1
      BY <1>2, <3>1
    <3> QED BY <2>1, <3>2 DEF Firing
  <2> QED BY <2>2, <2>3 DEF SchedulerInv, ArmedWhenEnabled
<1>11. ExclusiveRuns' /\ TimesKept'
  BY DEF SchedulerInv, ExclusiveRuns, TimesKept, FiredOnce, IntervalKept
<1> QED BY <1>6, <1>7, <1>8, <1>9, <1>10, <1>11 DEF SchedulerInv

LEMMA TimerFiresHolds ==
    ASSUME SchedulerInv, TimerFires
    PROVE  SchedulerInv'
<1>1. locked' = Append(locked, Invocation(TRUE, {})) /\ timer' = Never
      /\ UNCHANGED <<now, schedule, live, runTimes, up, crashes, throws>>
  BY DEF TimerFires
<1>2. {} \in SUBSET Actions
  OBVIOUS
<1> QED BY <1>1, <1>2, JoiningHolds

LEMMA InvokeManuallyHolds ==
    ASSUME SchedulerInv, InvokeManually
    PROVE  SchedulerInv'
<1>1. schedule.actions \in SUBSET Actions
  BY DEF SchedulerInv, TypeOK, Records
<1> QED BY <1>1, JoiningHolds DEF InvokeManually

\* The first in line goes on, as r, and the timer and the record stay.
LEMMA GoingHolds ==
    ASSUME SchedulerInv, NEW i, Holds(i), NEW r \in Invocations, Goes(i, r),
           r.byTimer = locked[i].byTimer, r.at = "acting", r.startedAt \in 0 .. now,
           locked[i].byTimer => locked[i].at = "acting" /\ r.startedAt = locked[i].startedAt,
           \A a \in Actions : r.next = {a} => live'[a] = 0,
           live' \in [Actions -> Nat], \A a \in Actions : live'[a] <= 1,
           UNCHANGED <<now, schedule, timer, runTimes, up, crashes, throws>>
    PROVE  SchedulerInv'
<1>1. /\ i = 1 /\ locked' \in Seq(Invocations)
      /\ Len(locked) \in Nat \ {0} /\ Len(locked') = Len(locked)
      /\ locked # <<>> /\ locked' # <<>>
      /\ locked'[1] = r /\ \A k \in 2 .. Len(locked) : locked'[k] = locked[k]
  BY HeadGoes DEF SchedulerInv, TypeOK
<1>2. (Acting' <=> Acting) /\ (Acting => locked'[1].startedAt = locked[1].startedAt)
  BY <1>1 DEF Acting
<1>3. TypeOK' /\ SoundTimes(schedule)' /\ Past' /\ (~up => crashes > 0)'
  BY <1>1 DEF SchedulerInv, TypeOK, SoundTimes, Past
<1>4. InLine'
  BY <1>1 DEF SchedulerInv, InLine
<1>5. StartsAlone' /\ ExclusiveRuns'
  BY <1>1 DEF StartsAlone, ExclusiveRuns
<1>6. Fresh' /\ Spaced'
  BY <1>2 DEF SchedulerInv, Fresh, Spaced
<1>7. ArmedWhenEnabled'
  <2>1. DOMAIN locked = 1 .. Len(locked) /\ DOMAIN locked' = 1 .. Len(locked)
    BY <1>1, LenProperties DEF SchedulerInv, TypeOK
  <2>2. \A k \in 1 .. Len(locked) : locked'[k].byTimer = locked[k].byTimer
    BY <1>1
  <2>3. Firing => Firing'
    BY <2>1, <2>2 DEF Firing
  <2> QED BY <2>3 DEF SchedulerInv, ArmedWhenEnabled
<1>8. TimesKept'
  BY DEF SchedulerInv, TimesKept, FiredOnce, IntervalKept
<1> QED BY <1>3, <1>4, <1>5, <1>6, <1>7, <1>8 DEF SchedulerInv

LEMMA HeadFacts ==
    ASSUME SchedulerInv, NEW i, Holds(i)
    PROVE  /\ i = 1 /\ locked[i] \in Invocations
           /\ locked[i].at = "acting" => locked[i].startedAt \in 0 .. now
           /\ locked[i].at = "waiting" => locked[i].next = {}
           /\ now \in Nat /\ live \in [Actions -> Nat]
           /\ \A a \in Actions : live[a] <= 1 /\ (locked[i].next = {a} => live[a] = 0)
<1>1. i = 1 /\ Len(locked) \in Nat \ {0} /\ locked # <<>>
  BY EmptySeq, LenProperties DEF Holds, SchedulerInv, TypeOK
<1>2. locked[1] \in Invocations
  BY <1>1, ElementOfSeq DEF SchedulerInv, TypeOK
<1>3. 1 \in 1 .. Len(locked)
  BY <1>1
<1> QED BY <1>1, <1>2, <1>3 DEF SchedulerInv, InLine, StartsAlone, TypeOK, ExclusiveRuns

LEMMA StartedFacts ==
    ASSUME NEW v \in Invocations, NEW n \in Int
    PROVE  /\ [v EXCEPT !.at = "acting", !.startedAt = n] \in Invocations
           /\ \A actions \in SUBSET Actions :
                 [v EXCEPT !.at = "acting", !.startedAt = n, !.todo = actions] \in Invocations
  BY DEF Invocations

LEMMA ManualStartsHolds ==
    ASSUME SchedulerInv, NEW i, ManualStarts(i)
    PROVE  SchedulerInv'
<1> DEFINE r == [locked[i] EXCEPT !.at = "acting", !.startedAt = now]
<1>1. Holds(i) /\ ~locked[i].byTimer /\ locked[i].at = "waiting" /\ Goes(i, r) /\ live' = live
      /\ UNCHANGED <<now, schedule, timer, runTimes, up, crashes, throws>>
  BY DEF ManualStarts
<1>2. /\ locked[i] \in Invocations /\ locked[i].next = {} /\ now \in Nat
      /\ live \in [Actions -> Nat] /\ \A a \in Actions : live[a] <= 1
  BY <1>1, HeadFacts
<1>3. r \in Invocations
  <2>1. locked[i] \in Invocations /\ now \in Int
    BY <1>2
  <2> QED BY <2>1, StartedFacts, Zenon DEF r
<1>4. r.byTimer = locked[i].byTimer /\ r.at = "acting" /\ r.startedAt = now
  BY <1>2 DEF Invocations
<1>5. r.next = locked[i].next
  BY <1>2 DEF Invocations
<1> HIDE DEF r
<1>6. \A a \in Actions : r.next # {a}
  BY <1>2, <1>5
<1> QED BY <1>1, <1>2, <1>3, <1>4, <1>6, GoingHolds

LEMMA CheckActionHolds ==
    ASSUME SchedulerInv, NEW i, NEW a \in Actions, CheckAction(i, a)
    PROVE  SchedulerInv'
<1> DEFINE r == [locked[i] EXCEPT !.todo = @ \ {a}, !.next = IF live[a] > 0 THEN {} ELSE {a}]
<1>1. Holds(i) /\ locked[i].at = "acting" /\ Goes(i, r) /\ live' = live
      /\ UNCHANGED <<now, schedule, timer, runTimes, up, crashes, throws>>
  BY DEF CheckAction
<1>2. /\ locked[i] \in Invocations /\ locked[i].startedAt \in 0 .. now /\ now \in Nat
      /\ live \in [Actions -> Nat] /\ \A b \in Actions : live[b] <= 1
  BY <1>1, HeadFacts
<1>3. /\ r \in Invocations /\ r.byTimer = locked[i].byTimer /\ r.at = "acting"
      /\ r.startedAt = locked[i].startedAt /\ r.next = IF live[a] > 0 THEN {} ELSE {a}
  BY <1>1, <1>2 DEF Invocations
<1>4. \A b \in Actions : r.next = {b} => live'[b] = 0
  BY <1>1, <1>2, <1>3
<1> HIDE DEF r
<1> QED BY <1>1, <1>2, <1>3, <1>4, GoingHolds

LEMMA StartActionRunHolds ==
    ASSUME SchedulerInv, NEW i, NEW a \in Actions, StartActionRun(i, a)
    PROVE  SchedulerInv'
<1> DEFINE r == [locked[i] EXCEPT !.next = {}]
<1>1. Holds(i) /\ locked[i].next = {a} /\ Goes(i, r)
      /\ (live' = [live EXCEPT ![a] = @ + 1] \/ live' = live)
      /\ UNCHANGED <<now, schedule, timer, runTimes, up, crashes, throws>>
  BY DEF StartActionRun
<1>2. /\ locked[i] \in Invocations /\ now \in Nat
      /\ locked[i].at = "acting" => locked[i].startedAt \in 0 .. now
      /\ locked[i].at = "waiting" => locked[i].next = {}
      /\ live \in [Actions -> Nat] /\ \A b \in Actions : live[b] <= 1
      /\ live[a] = 0
  BY <1>1, HeadFacts
<1>3. locked[i].at = "acting"
  BY <1>1, <1>2 DEF Invocations
<1>4. /\ r \in Invocations /\ r.byTimer = locked[i].byTimer /\ r.at = "acting"
      /\ r.startedAt = locked[i].startedAt /\ r.next = {}
  BY <1>2, <1>3 DEF Invocations
<1>5. live' \in [Actions -> Nat] /\ \A b \in Actions : live'[b] <= 1
  BY <1>1, <1>2
<1> HIDE DEF r
<1> QED BY <1>1, <1>2, <1>3, <1>4, <1>5, GoingHolds

\* The invocation that finds the schedule due records the time it is due.
LEMMA FireDueHolds ==
    ASSUME SchedulerInv, NEW i, Holds(i), locked[i].byTimer, locked[i].at = "waiting", up, Due,
           Goes(i, [locked[i] EXCEPT !.at = "acting", !.startedAt = now, !.todo = schedule.actions]),
           runTimes' = Append(runTimes, [due |-> schedule.nextRunAt, started |-> now]),
           UNCHANGED <<now, schedule, timer, live, up, crashes, throws>>
    PROVE  SchedulerInv'
<1> DEFINE r == [locked[i] EXCEPT !.at = "acting", !.startedAt = now, !.todo = schedule.actions]
           e == [due |-> schedule.nextRunAt, started |-> now]
           n == Len(runTimes)
<1>1. /\ i = 1 /\ locked[1] \in Invocations /\ locked[1].next = {} /\ locked # <<>>
      /\ now \in Nat /\ schedule.nextRunAt \in Nat /\ schedule.nextRunAt <= now
      /\ schedule.exists /\ schedule.isEnabled /\ schedule.actions \in SUBSET Actions
      /\ schedule.nextRunAt \in Int
  BY HeadFacts DEF Due, SchedulerInv, SoundTimes, TypeOK, Records, Holds
<1>2. r \in Invocations
  <2>1. locked[i] \in Invocations /\ now \in Int
    BY <1>1
  <2>2. schedule.actions \in SUBSET Actions
    BY <1>1
  <2> QED BY <2>1, <2>2, StartedFacts, Zenon DEF r
<1>3. r.byTimer = locked[1].byTimer /\ r.at = "acting" /\ r.startedAt = now
  BY <1>1 DEF Invocations
<1>4. r.next = locked[1].next
  BY <1>1 DEF Invocations
<1>5. Goes(i, r)
  OBVIOUS
<1> HIDE DEF r
<1>6. /\ locked' \in Seq(Invocations)
      /\ Len(locked) \in Nat \ {0} /\ Len(locked') = Len(locked)
      /\ locked # <<>> /\ locked' # <<>>
      /\ locked'[1] = r /\ \A k \in 2 .. Len(locked) : locked'[k] = locked[k]
  BY <1>2, <1>5, HeadGoes DEF SchedulerInv, TypeOK
<1>7. /\ runTimes' \in Seq([due : Int, started : Int]) /\ runTimes' # <<>>
      /\ n \in Nat /\ Len(runTimes') = n + 1
      /\ \A j \in 1 .. n : runTimes'[j] = runTimes[j]
      /\ runTimes'[n + 1].due = schedule.nextRunAt /\ runTimes'[n + 1].started = now
  <2>1. e \in [due : Int, started : Int] /\ runTimes \in Seq([due : Int, started : Int])
        /\ runTimes' = Append(runTimes, e) /\ e.due = schedule.nextRunAt /\ e.started = now
    BY <1>1 DEF SchedulerInv, TypeOK
  <2> HIDE DEF e
  <2> QED BY SMTT(30), <2>1, AppendProperties, LenProperties
<1>8. Acting' /\ locked'[1].startedAt = now /\ ~Acting
  BY <1>1, <1>3, <1>6 DEF Acting
<1> HIDE DEF n
<1>9. TypeOK' /\ SoundTimes(schedule)' /\ (~up => crashes > 0)'
  BY <1>6, <1>7 DEF SchedulerInv, TypeOK, SoundTimes
<1>10. Past'
  BY <1>1, <1>7 DEF SchedulerInv, Past
<1>11. InLine'
  BY SMTT(30), <1>1, <1>3, <1>6 DEF SchedulerInv, InLine
<1>12. StartsAlone' /\ ExclusiveRuns'
  BY <1>1, <1>4, <1>6 DEF SchedulerInv, StartsAlone, ExclusiveRuns
<1>13. Fresh' /\ Spaced'
  BY <1>7, <1>8 DEF Fresh, Spaced
<1>14. ArmedWhenEnabled'
  <2>1. DOMAIN locked' = 1 .. Len(locked) /\ 1 \in 1 .. Len(locked) /\ locked'[1].byTimer
    BY <1>1, <1>3, <1>6, LenProperties DEF SchedulerInv, TypeOK
  <2>2. Firing'
    BY <2>1 DEF Firing
  <2> QED BY <2>2 DEF ArmedWhenEnabled
<1>15. FiredOnce'
  <2>1. DOMAIN runTimes = 1 .. n /\ DOMAIN runTimes' = 1 .. n + 1
    BY <1>7, LenProperties DEF SchedulerInv, TypeOK, n
  <2>2. throws = 0 => \A j \in 1 .. n : runTimes[j].due < schedule.nextRunAt
    BY <1>1, <1>8 DEF SchedulerInv, Fresh, n
  <2>3. throws = 0 => \A j \in 1 .. n : runTimes'[j].due # runTimes'[n + 1].due
    BY <1>1, <1>7, <2>2 DEF SchedulerInv, Past, n
  <2>4. throws = 0 => \A j, k \in 1 .. n : runTimes'[j].due = runTimes'[k].due => j = k
    BY <1>7, <2>1 DEF SchedulerInv, TimesKept, FiredOnce
  <2>5. \A j \in 1 .. n + 1 : j \in 1 .. n \/ j = n + 1
    BY <1>7
  <2> QED BY ZenonT(40), <2>1, <2>3, <2>4, <2>5 DEF FiredOnce
<1>16. IntervalKept'
  <2>1. n \in Nat /\ Len(runTimes') - 1 = n
    BY <1>7
  <2>2. ASSUME crashes + throws = 0, NEW j \in 1 .. n
        PROVE  runTimes'[j + 1].due - runTimes'[j].started >= MinInterval
    <3>1. CASE j = n
      <4>1. runTimes # <<>> /\ Len(runTimes) = n
        BY <2>1, <3>1, EmptySeq DEF n
      <4>2. schedule.nextRunAt - runTimes[n].started >= MinInterval
        BY <1>1, <1>8, <2>2, <4>1 DEF SchedulerInv, Spaced
      <4> QED BY <1>7, <3>1, <4>2
    <3>2. CASE j # n
      <4>1. j \in 1 .. n - 1 /\ j + 1 \in 1 .. n
        BY <2>1, <3>2
      <4>2. runTimes[j + 1].due - runTimes[j].started >= MinInterval
        BY <2>2, <4>1 DEF SchedulerInv, TimesKept, IntervalKept, n
      <4> QED BY <1>7, <4>1, <4>2
    <3> QED BY <3>1, <3>2
  <2> QED BY <2>1, <2>2 DEF IntervalKept
<1> QED BY <1>9, <1>10, <1>11, <1>12, <1>13, <1>14, <1>15, <1>16 DEF SchedulerInv, TimesKept

\* The first in line leaves, and the record and the timer are as the invariant wants them for
\* the others.
LEMMA LeavingHolds ==
    ASSUME SchedulerInv, NEW i, Holds(i), Leaves(i),
           timer' \in Int, schedule' \in Records, SoundTimes(schedule'),
           up /\ throws' = 0 /\ schedule'.exists /\ schedule'.isEnabled =>
               timer' # Never /\ timer' <= schedule'.nextRunAt,
           throws' = 0 /\ schedule'.exists /\ schedule'.isEnabled =>
               \A j \in 1 .. Len(runTimes) : runTimes[j].due < schedule'.nextRunAt,
           crashes + throws' = 0 /\ runTimes # <<>> /\ schedule'.exists =>
               /\ schedule'.lastRunAt = runTimes[Len(runTimes)].started
               /\ schedule'.isEnabled =>
                      schedule'.nextRunAt - runTimes[Len(runTimes)].started >= MinInterval,
           throws' \in {throws, throws + 1},
           UNCHANGED <<now, live, runTimes, up, crashes>>
    PROVE  SchedulerInv'
<1>1. /\ i = 1 /\ locked' \in Seq(Invocations)
      /\ Len(locked) \in Nat \ {0} /\ Len(locked') = Len(locked) - 1
      /\ \A k \in 1 .. Len(locked) - 1 : locked'[k] = locked[k + 1]
  BY HeadLeaves DEF SchedulerInv, TypeOK
<1>2. locked' # <<>> => 1 \in 1 .. Len(locked')
  BY <1>1, EmptySeq
<1>3. \A k \in 1 .. Len(locked') : locked'[k].at = "waiting" /\ locked'[k].next = {}
  <2>1. ASSUME NEW k \in 1 .. Len(locked') PROVE locked'[k].at = "waiting" /\ locked'[k].next = {}
    <3>1. k + 1 \in 1 .. Len(locked) /\ k + 1 > 1 /\ locked'[k] = locked[k + 1]
      BY <1>1
    <3> QED BY <3>1 DEF SchedulerInv, InLine
  <2> QED BY <2>1
<1>4. SoundTimes(schedule)'
  BY DEF SoundTimes
<1>5. TypeOK' /\ Past' /\ (~up => crashes > 0)'
  BY <1>1 DEF SchedulerInv, TypeOK, Past
<1>6. InLine'
  BY <1>1, <1>3 DEF InLine
<1>7. StartsAlone' /\ ExclusiveRuns'
  BY <1>2, <1>3 DEF SchedulerInv, StartsAlone, ExclusiveRuns
<1>8. Fresh'
  BY DEF Fresh
<1>9. Spaced'
  <2>1. ~Acting'
    BY <1>2, <1>3 DEF Acting
  <2> QED BY <2>1 DEF Spaced
<1>10. ArmedWhenEnabled'
  BY DEF ArmedWhenEnabled
<1>11. TimesKept'
  <2>0. throws \in Nat /\ crashes \in Nat /\ crashes' = crashes
    BY DEF SchedulerInv, TypeOK
  <2>1. throws' = 0 => throws = 0
    BY <2>0
  <2>2. crashes' + throws' = 0 => crashes + throws = 0
    <3>1. CASE throws' = throws
      BY <2>0, <3>1
    <3>2. CASE throws' = throws + 1
      BY <2>0, <3>2
    <3> QED BY <3>1, <3>2
  <2> QED BY <2>1, <2>2 DEF SchedulerInv, TimesKept, FiredOnce, IntervalKept
<1> QED BY <1>4, <1>5, <1>6, <1>7, <1>8, <1>9, <1>10, <1>11 DEF SchedulerInv

LEMMA FireHolds ==
    ASSUME SchedulerAssumption, SchedulerInv, NEW i, Fire(i)
    PROVE  SchedulerInv'
<1>1. /\ up /\ Holds(i) /\ locked[i].byTimer /\ locked[i].at = "waiting"
      /\ UNCHANGED <<now, schedule, live, up, manual, edits, crashes, throws>>
  BY DEF Fire
<1>2. CASE Due /\ UNCHANGED timer
           /\ Goes(i, [locked[i] EXCEPT !.at = "acting", !.startedAt = now, !.todo = schedule.actions])
           /\ runTimes' = Append(runTimes, [due |-> schedule.nextRunAt, started |-> now])
  BY <1>1, <1>2, FireDueHolds
<1>3. ASSUME Leaves(i), UNCHANGED runTimes,
             Arm(schedule) \/ (timer' = timer /\ ~(schedule.exists /\ schedule.isEnabled))
      PROVE  SchedulerInv'
  <2>1. /\ timer' \in Int
        /\ schedule.exists /\ schedule.isEnabled => timer' # Never /\ timer' <= schedule.nextRunAt
    BY <1>3, ArmFacts DEF SchedulerInv, TypeOK
  <2>2. i = 1 /\ ~Acting
    BY <1>1 DEF Holds, Acting
  <2>3. throws = 0 /\ schedule.exists /\ schedule.isEnabled =>
               \A j \in 1 .. Len(runTimes) : runTimes[j].due < schedule.nextRunAt
    BY <1>1, <2>2 DEF SchedulerInv, Fresh
  <2>4. crashes + throws = 0 /\ runTimes # <<>> /\ schedule.exists =>
               /\ schedule.lastRunAt = runTimes[Len(runTimes)].started
               /\ schedule.isEnabled =>
                      schedule.nextRunAt - runTimes[Len(runTimes)].started >= MinInterval
    BY <2>2 DEF SchedulerInv, Spaced
  <2>5. schedule \in Records /\ SoundTimes(schedule)
    BY DEF SchedulerInv, TypeOK
  <2> QED BY <1>1, <1>3, <2>1, <2>3, <2>4, <2>5, LeavingHolds
<1> QED BY <1>2, <1>3 DEF Fire

LEMMA InvocationFailsHolds ==
    ASSUME SchedulerInv, NEW i, InvocationFails(i)
    PROVE  SchedulerInv'
<1>1. /\ Holds(i) /\ Leaves(i) /\ throws' = throws + 1 /\ throws \in Nat /\ crashes \in Nat
      /\ UNCHANGED <<now, schedule, timer, live, runTimes, up, crashes>>
      /\ timer \in Int /\ schedule \in Records /\ SoundTimes(schedule)
  BY DEF InvocationFails, SchedulerInv, TypeOK
<1>2. throws' # 0 /\ crashes + throws' # 0
  BY <1>1
<1> QED BY <1>1, <1>2, LeavingHolds

\* What an invocation records.
LEMMA RecordedFacts ==
    ASSUME SchedulerAssumption, now \in Nat, schedule \in Records, SoundTimes(schedule),
           NEW v \in Invocations, v.startedAt \in 0 .. now
    PROVE  LET s == Recorded(schedule, v)
           IN  /\ s \in Records /\ SoundTimes(s)
               /\ s.exists = schedule.exists /\ s.isEnabled = schedule.isEnabled
               /\ ~v.byTimer => s.lastRunAt = schedule.lastRunAt /\ s.nextRunAt = schedule.nextRunAt
               /\ v.byTimer => s.lastRunAt = v.startedAt
               /\ v.byTimer /\ s.isEnabled => s.nextRunAt > now /\ s.nextRunAt - v.startedAt >= MinInterval
<1> DEFINE logged == [schedule EXCEPT !.log = appendLogs(@)]
           ran == [logged EXCEPT !.lastRunAt = v.startedAt]
           final == [ran EXCEPT !.nextRunAt = nextRunAtOf(ran)]
<1>1. schedule.log \in Int /\ MaxLog \in Int
  BY DEF Records, SchedulerAssumption
<1>2. appendLogs(schedule.log) \in Int
  <2> DEFINE a == schedule.log + 1
  <2>1. a \in Int
    BY <1>1
  <2>2. appendLogs(schedule.log) = Min({a, MaxLog})
    BY DEF appendLogs
  <2> HIDE DEF a
  <2>3. Min({a, MaxLog}) \in {a, MaxLog}
    BY <1>1, <2>1, MinOfTwo
  <2> QED BY <1>1, <2>1, <2>2, <2>3
<1>3. /\ logged \in Records /\ logged.exists = schedule.exists /\ logged.isEnabled = schedule.isEnabled
      /\ logged.lastRunAt = schedule.lastRunAt /\ logged.nextRunAt = schedule.nextRunAt
  BY <1>2 DEF Records
<1>4. Recorded(schedule, v) = IF v.byTimer THEN final ELSE logged
  BY DEF Recorded
<1> HIDE DEF logged
<1>5. /\ ran \in Records /\ ran.exists = schedule.exists /\ ran.isEnabled = schedule.isEnabled
      /\ ran.lastRunAt = v.startedAt
  BY <1>3 DEF Records
<1> HIDE DEF ran
<1>6. /\ nextRunAtOf(ran) \in Int
      /\ ran.isEnabled => /\ nextRunAtOf(ran) \in Nat /\ nextRunAtOf(ran) > now
                          /\ nextRunAtOf(ran) - v.startedAt >= MinInterval
  <2>1. v.startedAt \in Int /\ v.startedAt # Never
    BY DEF Never
  <2>2. /\ computeNextRunAt(v.startedAt) \in Nat /\ computeNextRunAt(v.startedAt) > now
        /\ computeNextRunAt(v.startedAt) - v.startedAt >= MinInterval
    BY <2>1, NextRunFacts
  <2> QED BY <1>5, <2>2 DEF nextRunAtOf, Never
<1>7. /\ final \in Records /\ final.exists = schedule.exists /\ final.isEnabled = schedule.isEnabled
      /\ final.lastRunAt = v.startedAt /\ final.nextRunAt = nextRunAtOf(ran)
  BY <1>5, <1>6 DEF Records
<1> HIDE DEF final
<1> QED BY <1>3, <1>4, <1>5, <1>6, <1>7 DEF SoundTimes

LEMMA InvocationEndsHolds ==
    ASSUME SchedulerAssumption, SchedulerInv, NEW i, InvocationEnds(i)
    PROVE  SchedulerInv'
<1>1. /\ up /\ Holds(i) /\ locked[i].at = "acting" /\ Leaves(i)
      /\ UNCHANGED <<now, live, runTimes, up, crashes, throws>>
      /\ timer \in Int /\ schedule \in Records /\ SoundTimes(schedule) /\ now \in Nat
      /\ runTimes \in Seq([due : Int, started : Int]) /\ throws \in Nat /\ crashes \in Nat
  BY DEF InvocationEnds, SchedulerInv, TypeOK
<1>2. i = 1 /\ locked[1] \in Invocations /\ locked[1].startedAt \in 0 .. now /\ locked # <<>>
  BY <1>1, HeadFacts DEF Holds
<1>3. CASE ~schedule.exists
  <2>1. UNCHANGED <<schedule, timer>>
    BY <1>3 DEF InvocationEnds
  <2> QED BY <1>1, <1>3, <2>1, LeavingHolds
<1>4. CASE schedule.exists
  <2> DEFINE s == Recorded(schedule, locked[1])
  <2>1. schedule' = s /\ Arm(s)
    BY <1>2, <1>4 DEF InvocationEnds, Write
  <2>2. /\ s \in Records /\ SoundTimes(s)
        /\ s.exists /\ s.isEnabled = schedule.isEnabled
        /\ ~locked[1].byTimer => s.lastRunAt = schedule.lastRunAt /\ s.nextRunAt = schedule.nextRunAt
        /\ locked[1].byTimer => s.lastRunAt = locked[1].startedAt
        /\ locked[1].byTimer /\ s.isEnabled => s.nextRunAt > now /\ s.nextRunAt - locked[1].startedAt >= MinInterval
    BY <1>1, <1>2, <1>4, RecordedFacts
  <2> HIDE DEF s
  <2>3. timer' \in Int /\ (s.exists /\ s.isEnabled => timer' # Never /\ timer' <= s.nextRunAt)
    BY <1>1, <2>1, <2>2, ArmFacts
  <2>4. throws = 0 /\ s.isEnabled => \A j \in 1 .. Len(runTimes) : runTimes[j].due < s.nextRunAt
    <3>1. \A j \in 1 .. Len(runTimes) : runTimes[j].due \in Int /\ runTimes[j].due <= now
      <4>1. \A j \in 1 .. Len(runTimes) : runTimes[j] \in [due : Int, started : Int]
        BY <1>1, ElementOfSeq
      <4> QED BY <4>1 DEF SchedulerInv, Past
    <3>2. s.nextRunAt \in Int
      BY <2>2 DEF Records
    <3>3. CASE locked[1].byTimer
      BY SMTT(30), <1>1, <2>2, <3>1, <3>2, <3>3
    <3>4. CASE ~locked[1].byTimer
      BY <1>1, <1>4, <2>2, <3>4 DEF SchedulerInv, Fresh, Acting
    <3> QED BY <3>3, <3>4
  <2>5. crashes + throws = 0 /\ runTimes # <<>> =>
               /\ s.lastRunAt = runTimes[Len(runTimes)].started
               /\ s.isEnabled => s.nextRunAt - runTimes[Len(runTimes)].started >= MinInterval
    <3>1. CASE Acting
      <4>1. crashes + throws = 0 /\ runTimes # <<>> => locked[1].startedAt = runTimes[Len(runTimes)].started
        BY <1>4, <3>1 DEF SchedulerInv, Spaced
      <4> QED BY <2>2, <3>1, <4>1 DEF Acting
    <3>2. CASE ~Acting
      BY <1>1, <1>2, <1>4, <2>2, <3>2 DEF Acting, SchedulerInv, Spaced
    <3> QED BY <3>1, <3>2
  <2> QED BY <1>1, <2>1, <2>2, <2>3, <2>4, <2>5, LeavingHolds
<1> QED BY <1>3, <1>4

\* A write of the record by others than an invocation: the line stays as it is.
LEMMA EditHolds ==
    ASSUME SchedulerAssumption, SchedulerInv, NEW s \in Records, SoundTimes(s), schedule' = s, Arm(s),
           s.exists => schedule.exists, s.lastRunAt = schedule.lastRunAt,
           \/ ~s.exists \/ ~s.isEnabled
           \/ /\ schedule.isEnabled /\ s.nextRunAt = schedule.nextRunAt
           \/ /\ s.nextRunAt > now
              /\ s.lastRunAt # Never => s.nextRunAt - s.lastRunAt >= MinInterval,
           UNCHANGED <<now, locked, live, runTimes, up, crashes, throws>>
    PROVE  SchedulerInv'
<1>1. /\ timer' \in Int /\ (s.exists /\ s.isEnabled => timer' # Never /\ timer' <= s.nextRunAt)
      /\ now \in Nat /\ runTimes \in Seq([due : Int, started : Int])
      /\ s.nextRunAt \in Int
  BY ArmFacts DEF SchedulerInv, TypeOK, Records
<1>2. \A j \in 1 .. Len(runTimes) : runTimes[j].due \in Int /\ runTimes[j].due <= now
  <2>1. \A j \in 1 .. Len(runTimes) : runTimes[j] \in [due : Int, started : Int]
    BY <1>1, ElementOfSeq
  <2> QED BY <2>1 DEF SchedulerInv, Past
<1>3. Acting' <=> Acting
  BY DEF Acting
<1>4. TypeOK' /\ InLine' /\ StartsAlone' /\ Past' /\ ExclusiveRuns' /\ (~up => crashes > 0)'
  BY <1>1 DEF SchedulerInv, TypeOK, InLine, StartsAlone, Past, ExclusiveRuns
<1>5. SoundTimes(schedule)'
  BY DEF SoundTimes
<1>6. Fresh'
  <2>1. CASE s.nextRunAt > now
    <3>1. \A j \in 1 .. Len(runTimes) : runTimes[j].due < s.nextRunAt
      BY SMTT(30), <1>1, <1>2, <2>1
    <3> QED BY <3>1 DEF Fresh
  <2>2. CASE schedule.isEnabled /\ s.nextRunAt = schedule.nextRunAt
    BY <1>3, <2>2 DEF SchedulerInv, Fresh
  <2> QED BY <2>1, <2>2 DEF Fresh
<1>7. Spaced'
  <2>1. SUFFICES ASSUME crashes + throws = 0, runTimes # <<>>, s.exists, ~Acting
                 PROVE  /\ s.lastRunAt = runTimes[Len(runTimes)].started
                        /\ s.isEnabled => s.nextRunAt - runTimes[Len(runTimes)].started >= MinInterval
    BY <1>3 DEF SchedulerInv, Spaced, Acting
  <2>2. /\ s.lastRunAt = runTimes[Len(runTimes)].started
        /\ schedule.isEnabled => schedule.nextRunAt - runTimes[Len(runTimes)].started >= MinInterval
    BY <2>1 DEF SchedulerInv, Spaced
  <2>3. s.lastRunAt # Never
    <3>1. Len(runTimes) \in 1 .. Len(runTimes)
      BY <1>1, <2>1, EmptySeq, LenProperties
    <3> QED BY SMTT(30), <1>1, <2>2, <3>1 DEF SchedulerInv, Past, Never
  <2> QED BY <2>1, <2>2, <2>3
<1>8. ArmedWhenEnabled'
  BY <1>1 DEF ArmedWhenEnabled
<1>9. TimesKept'
  BY DEF SchedulerInv, TimesKept, FiredOnce, IntervalKept
<1> QED BY <1>4, <1>5, <1>6, <1>7, <1>8, <1>9 DEF SchedulerInv

\* The next run time of a record that was changed.
LEMMA ComputedFacts ==
    ASSUME SchedulerAssumption, now \in Nat, NEW s \in Records, s.lastRunAt = Never \/ s.lastRunAt \in 0 .. now
    PROVE  LET t == [s EXCEPT !.nextRunAt = nextRunAtOf(s)]
           IN  /\ t \in Records /\ SoundTimes(t) /\ t.exists = s.exists /\ t.isEnabled = s.isEnabled
               /\ t.lastRunAt = s.lastRunAt
               /\ t.isEnabled => /\ t.nextRunAt > now
                                 /\ t.lastRunAt # Never => t.nextRunAt - t.lastRunAt >= MinInterval
<1>1. s.lastRunAt \in Int /\ (s.lastRunAt = Never \/ s.lastRunAt \in 0 .. now)
  BY DEF Records, SoundTimes
<1>2. /\ computeNextRunAt(s.lastRunAt) \in Nat /\ computeNextRunAt(s.lastRunAt) > now
      /\ s.lastRunAt # Never => computeNextRunAt(s.lastRunAt) - s.lastRunAt >= MinInterval
  BY <1>1, NextRunFacts
<1>3. /\ nextRunAtOf(s) \in Int
      /\ s.isEnabled => /\ nextRunAtOf(s) \in Nat /\ nextRunAtOf(s) > now
                        /\ s.lastRunAt # Never => nextRunAtOf(s) - s.lastRunAt >= MinInterval
  BY <1>2 DEF nextRunAtOf, Never
<1> DEFINE t == [s EXCEPT !.nextRunAt = nextRunAtOf(s)]
<1>4. /\ t \in Records /\ t.exists = s.exists /\ t.isEnabled = s.isEnabled
      /\ t.lastRunAt = s.lastRunAt /\ t.nextRunAt = nextRunAtOf(s)
  BY <1>3 DEF Records
<1> HIDE DEF t
<1>5. SoundTimes(t)
  BY <1>1, <1>3, <1>4 DEF SoundTimes
<1>6. t \in Records /\ SoundTimes(t) /\ t.exists = s.exists /\ t.isEnabled = s.isEnabled
      /\ t.lastRunAt = s.lastRunAt
      /\ (t.isEnabled => t.nextRunAt > now /\ (t.lastRunAt # Never => t.nextRunAt - t.lastRunAt >= MinInterval))
  BY <1>3, <1>4, <1>5
<1> QED BY <1>6 DEF t

LEMMA UpdateScheduleHolds ==
    ASSUME SchedulerAssumption, SchedulerInv, NEW isEnabled \in BOOLEAN, UpdateSchedule(isEnabled)
    PROVE  SchedulerInv'
<1> DEFINE next == [schedule EXCEPT !.isEnabled = isEnabled]
           s == [next EXCEPT !.nextRunAt = nextRunAtOf(next)]
<1>1. schedule.exists /\ schedule' = s /\ Arm(s) /\ UNCHANGED <<now, locked, live, runTimes, up, crashes, throws>>
  BY DEF UpdateSchedule, Write
<1>2. schedule \in Records /\ SoundTimes(schedule) /\ now \in Nat
  BY DEF SchedulerInv, TypeOK
<1>3. next \in Records /\ next.exists = schedule.exists /\ next.lastRunAt = schedule.lastRunAt
  BY <1>2 DEF Records
<1> HIDE DEF next
<1>4. next.lastRunAt = Never \/ next.lastRunAt \in 0 .. now
  BY <1>2, <1>3 DEF SoundTimes
<1>5. /\ s \in Records /\ SoundTimes(s) /\ s.exists = next.exists
      /\ s.lastRunAt = next.lastRunAt
      /\ s.isEnabled => /\ s.nextRunAt > now
                        /\ s.lastRunAt # Never => s.nextRunAt - s.lastRunAt >= MinInterval
  BY <1>2, <1>3, <1>4, ComputedFacts
<1> HIDE DEF s
<1> QED BY <1>1, <1>3, <1>5, EditHolds

LEMMA RemoveScheduleActionHolds ==
    ASSUME SchedulerAssumption, SchedulerInv, NEW a \in Actions, RemoveScheduleAction(a)
    PROVE  SchedulerInv'
<1> DEFINE s == [schedule EXCEPT !.actions = @ \ {a}]
<1>1. schedule' = s /\ Arm(s) /\ UNCHANGED <<now, locked, live, runTimes, up, crashes, throws>>
  BY DEF RemoveScheduleAction, Write
<1>2. schedule \in Records /\ SoundTimes(schedule)
  BY DEF SchedulerInv, TypeOK
<1>3. /\ s \in Records /\ s.exists = schedule.exists /\ s.isEnabled = schedule.isEnabled
      /\ s.lastRunAt = schedule.lastRunAt /\ s.nextRunAt = schedule.nextRunAt
  BY <1>2 DEF Records
<1> HIDE DEF s
<1>4. SoundTimes(s)
  BY <1>2, <1>3 DEF SoundTimes
<1> QED BY <1>1, <1>3, <1>4, EditHolds

LEMMA DeleteScheduleHolds ==
    ASSUME SchedulerAssumption, SchedulerInv, DeleteSchedule
    PROVE  SchedulerInv'
<1> DEFINE s == [schedule EXCEPT !.exists = FALSE]
<1>1. schedule.exists /\ schedule' = s /\ Arm(s) /\ UNCHANGED <<now, locked, live, runTimes, up, crashes, throws>>
  BY DEF DeleteSchedule, Write
<1>2. schedule \in Records /\ SoundTimes(schedule)
  BY DEF SchedulerInv, TypeOK
<1>3. s \in Records /\ ~s.exists /\ s.lastRunAt = schedule.lastRunAt
  BY <1>2 DEF Records
<1> HIDE DEF s
<1>4. SoundTimes(s)
  BY <1>2, <1>3 DEF SoundTimes
<1> QED BY <1>1, <1>3, <1>4, EditHolds

LEMMA CrashHolds ==
    ASSUME SchedulerInv, Crash
    PROVE  SchedulerInv'
<1> USE DEF SchedulerInv, Crash
<1>1. locked' = <<>> /\ Len(locked') = 0 /\ locked' \in Seq(Invocations)
  BY EmptySeq
<1>2. TypeOK' /\ SoundTimes(schedule)' /\ Past' /\ (~up => crashes > 0)'
  <2>1. TypeOK'
    <3>1. now' \in Nat /\ schedule' \in Records /\ live' \in [Actions -> Nat]
          /\ runTimes' \in Seq([due : Int, started : Int]) /\ throws' \in Nat
      BY DEF TypeOK
    <3>2. up' \in BOOLEAN /\ timer' \in Int /\ crashes' \in Nat
      <4>1. timer' \in Int
        BY DEF Never
      <4>2. up' \in BOOLEAN /\ crashes \in Nat /\ crashes' = crashes + 1
        BY DEF TypeOK
      <4> QED BY <4>1, <4>2
    <3> QED BY <1>1, <3>1, <3>2 DEF TypeOK
  <2>2. (~up => crashes > 0)'
    BY DEF TypeOK
  <2>3. SoundTimes(schedule)' /\ Past'
    BY DEF SoundTimes, Past
  <2> QED BY <2>1, <2>2, <2>3
<1>3. InLine' /\ StartsAlone' /\ ExclusiveRuns'
  BY <1>1 DEF InLine, StartsAlone, ExclusiveRuns
<1>4. Fresh' /\ ArmedWhenEnabled'
  BY DEF Fresh, ArmedWhenEnabled
<1>5. crashes \in Nat /\ throws \in Nat /\ crashes' + throws' # 0
  BY DEF TypeOK
<1>6. Spaced'
  BY <1>5 DEF Spaced
<1>7. TimesKept'
  BY <1>5 DEF TimesKept, FiredOnce, IntervalKept
<1> QED BY <1>2, <1>3, <1>4, <1>6, <1>7

LEMMA RestartHolds ==
    ASSUME SchedulerAssumption, SchedulerInv, Restart
    PROVE  SchedulerInv'
<1> DEFINE s == Rescheduled(schedule)
<1>1. /\ ~up /\ up' /\ live' = [a \in Actions |-> 0] /\ UNCHANGED <<now, locked, runTimes, crashes, throws>>
      /\ schedule \in Records /\ SoundTimes(schedule) /\ now \in Nat /\ timer \in Int
      /\ runTimes \in Seq([due : Int, started : Int]) /\ throws \in Nat /\ crashes \in Nat /\ crashes > 0
      /\ up' \in BOOLEAN
  BY DEF Restart, SchedulerInv, TypeOK
<1>2. \A j \in 1 .. Len(runTimes) : runTimes[j].due \in Int /\ runTimes[j].due <= now
  <2>1. \A j \in 1 .. Len(runTimes) : runTimes[j] \in [due : Int, started : Int]
    BY <1>1, ElementOfSeq
  <2> QED BY <2>1 DEF SchedulerInv, Past
<1>3. /\ schedule' \in Records /\ SoundTimes(schedule') /\ timer' \in Int
      /\ schedule'.exists /\ schedule'.isEnabled =>
             /\ timer' # Never /\ timer' <= schedule'.nextRunAt
             /\ schedule'.nextRunAt > now
  <2>1. CASE ~schedule.exists
    BY <1>1, <2>1 DEF Restart
  <2>2. CASE schedule.exists
    <3>1. schedule' = s /\ Arm(s)
      BY <2>2 DEF Restart, Write
    <3>2. s \in Records /\ SoundTimes(s) /\ (s.isEnabled => s.nextRunAt > now)
      <4>1. CASE schedule.isEnabled /\ schedule.nextRunAt <= now
        <5>1. s = [schedule EXCEPT !.nextRunAt = nextRunAtOf(schedule)]
          BY <4>1 DEF Rescheduled
        <5>2. schedule.lastRunAt = Never \/ schedule.lastRunAt \in 0 .. now
          BY <1>1 DEF SoundTimes
        <5> QED BY <1>1, <5>1, <5>2, ComputedFacts
      <4>2. CASE ~(schedule.isEnabled /\ schedule.nextRunAt <= now)
        <5>1. s = schedule
          BY <4>2 DEF Rescheduled
        <5> QED BY <1>1, <4>2, <5>1 DEF Records
      <4> QED BY <4>1, <4>2
    <3> HIDE DEF s
    <3> QED BY <1>1, <3>1, <3>2, ArmFacts
  <2> QED BY <2>1, <2>2
<1>4. TypeOK' /\ InLine' /\ StartsAlone' /\ Past' /\ ExclusiveRuns' /\ (~up => crashes > 0)'
  BY SMTT(30), <1>1, <1>3 DEF SchedulerInv, TypeOK, InLine, StartsAlone, Past, ExclusiveRuns
<1>5. SoundTimes(schedule)'
  BY <1>1, <1>3 DEF SoundTimes
<1>6. Fresh'
  <2>1. schedule'.nextRunAt \in Int
    BY <1>3 DEF Records
  <2> QED BY SMTT(30), <1>1, <1>2, <1>3, <2>1 DEF Fresh
<1>7. crashes' + throws' # 0
  BY <1>1
<1>8. Spaced' /\ ArmedWhenEnabled'
  BY <1>3, <1>7 DEF Spaced, ArmedWhenEnabled
<1>9. TimesKept'
  BY <1>1, <1>7 DEF SchedulerInv, TimesKept, FiredOnce, IntervalKept
<1> QED BY <1>4, <1>5, <1>6, <1>8, <1>9 DEF SchedulerInv

LEMMA RunEndsHolds ==
    ASSUME SchedulerInv, NEW a \in Actions, RunEnds(a)
    PROVE  SchedulerInv'
<1> USE DEF SchedulerInv, RunEnds
<1>1. live' \in [Actions -> Nat] /\ \A b \in Actions : live'[b] <= live[b]
  BY DEF TypeOK
<1>2. TypeOK' /\ SoundTimes(schedule)' /\ InLine' /\ Past' /\ (~up => crashes > 0)'
  BY <1>1 DEF TypeOK, SoundTimes, InLine, Past
<1>3. StartsAlone'
  BY <1>1 DEF TypeOK, StartsAlone
<1>4. Fresh' /\ Spaced' /\ ArmedWhenEnabled'
  BY DEF Fresh, Spaced, Acting, ArmedWhenEnabled, Firing
<1>5. ExclusiveRuns'
  BY <1>1 DEF TypeOK, ExclusiveRuns
<1>6. TimesKept'
  BY DEF TimesKept, FiredOnce, IntervalKept
<1> QED BY <1>2, <1>3, <1>4, <1>5, <1>6

LEMMA SchedulerInitHolds == SchedulerAssumption /\ Init => SchedulerInv
<1> SUFFICES ASSUME SchedulerAssumption, Init PROVE SchedulerInv
  OBVIOUS
<1> USE DEF Init, Never
<1>1. Period \in Int /\ MaxDelay \in Int /\ Period \in Nat
  BY DEF SchedulerAssumption
<1>2. timer \in Int /\ timer <= Period /\ timer # Never
  <2>1. Min({Period, MaxDelay}) \in {Period, MaxDelay} /\ Min({Period, MaxDelay}) <= Period
    BY <1>1, MinOfTwo
  <2>2. timer \in {Period, MaxDelay} /\ timer <= Period
    BY <2>1
  <2> QED BY <2>2 DEF SchedulerAssumption
<1>3. /\ schedule \in Records /\ schedule.nextRunAt = Period /\ schedule.lastRunAt = Never
      /\ Len(locked) = 0 /\ Len(runTimes) = 0
  BY <1>1 DEF Records
<1>4. TypeOK /\ SoundTimes(schedule) /\ InLine /\ StartsAlone /\ Past /\ (~up => crashes > 0)
  BY <1>1, <1>2, <1>3 DEF TypeOK, SoundTimes, InLine, StartsAlone, Past
<1>5. Fresh /\ Spaced /\ ArmedWhenEnabled /\ ExclusiveRuns
  BY <1>2, <1>3 DEF Fresh, Spaced, ArmedWhenEnabled, ExclusiveRuns
<1>6. TimesKept
  BY <1>3 DEF TimesKept, FiredOnce, IntervalKept
<1> QED BY <1>4, <1>5, <1>6 DEF SchedulerInv

LEMMA SchedulerNextHolds ==
    ASSUME SchedulerAssumption, SchedulerInv, [Next]_vars
    PROVE  SchedulerInv'
<1>1. CASE UNCHANGED vars
  BY <1>1 DEF vars, SchedulerInv, TypeOK, SoundTimes, InLine, StartsAlone, Past, Fresh, Spaced, Acting,
              ArmedWhenEnabled, Firing, ExclusiveRuns, TimesKept, FiredOnce, IntervalKept
<1>2. CASE \E i \in DOMAIN locked : InvocationStep(i) \/ InvocationFails(i)
  BY <1>2, FireHolds, ManualStartsHolds, InvocationEndsHolds, CheckActionHolds, StartActionRunHolds,
     InvocationFailsHolds DEF InvocationStep
<1>3. CASE \/ Tick \/ TimerFires \/ InvokeManually \/ DeleteSchedule \/ Crash \/ Restart
           \/ \E a \in Actions : RunEnds(a) \/ RemoveScheduleAction(a)
           \/ \E isEnabled \in BOOLEAN : UpdateSchedule(isEnabled)
  BY <1>3, TickHolds, TimerFiresHolds, InvokeManuallyHolds, DeleteScheduleHolds, CrashHolds, RestartHolds,
     RunEndsHolds, RemoveScheduleActionHolds, UpdateScheduleHolds
<1> QED BY <1>1, <1>2, <1>3 DEF Next

LEMMA SchedulerKeepsInv == Spec => []SchedulerInv
  BY SchedulerAssumption, SchedulerInitHolds, SchedulerNextHolds, PTL DEF Spec

-----------------------------------------------------------------------------
(* The theorems.                                                           *)

\* However edits, manual invocations, firings and restarts follow each other, an enabled
\* schedule has a timer that is not later than it is due, unless the timer just fired
\* (services/scheduler.ts, arm and fire).
THEOREM EnabledStaysArmed == Spec => []ArmedWhenEnabled
<1>1. SchedulerInv => ArmedWhenEnabled
  BY DEF SchedulerInv
<1> QED BY <1>1, SchedulerKeepsInv, PTL

\* No two runs of one action at a time, for any number of actions and of invocations in line
\* (services/scheduler.ts, hasUnfinishedRun under invokeLocks).
THEOREM RunsStayExclusive == Spec => []ExclusiveRuns
<1>1. SchedulerInv => ExclusiveRuns
  BY DEF SchedulerInv
<1> QED BY <1>1, SchedulerKeepsInv, PTL

\* The timer invokes a schedule once for each time it is due, and the times are as far apart
\* as promised, whatever the period and the distance (schedule-cron.ts; services/scheduler.ts).
THEOREM DueOnceAndApart == Spec => []TimesKept
<1>1. SchedulerInv => TimesKept
  BY DEF SchedulerInv
<1> QED BY <1>1, SchedulerKeepsInv, PTL

=============================================================================
