----------------------- MODULE WebhookDispatches_proofs -----------------------
(***************************************************************************)
(* Proofs about WebhookDispatches, for any webhooks and subscriptions, any *)
(* numbers of events, retries, crashes and failing storage accesses.       *)
(***************************************************************************)
EXTENDS WebhookDispatches, SequenceTheorems, TLAPS

-----------------------------------------------------------------------------
(* The inductive invariant.                                                *)

Statuses == {"none", "ACTIVE", "SUCCEEDED", "FAILED"}
Steps == {"no", "started", "sent", "SUCCEEDED", "ACTIVE", "FAILED", "written"}
Written == EventTypes \cup {"live"}
Making == [step : {"no", "delete"}, obsolete : SUBSET Webhooks, matching : SUBSET Webhooks]

TypeOK ==
    /\ events \in Seq(Written) /\ queue \in Seq(Nat) /\ making \in Making
    /\ dispatch \in [Ids -> [status : Statuses, calls : Nat]]
    /\ timers \subseteq Ids /\ attempt \in [Ids -> Steps] /\ accepted \in [Ids -> Nat]
    /\ up \in BOOLEAN /\ crashes \in Nat /\ failures \in Nat

\* The numbers in the queue are those of events, in their order.
InOrder ==
    /\ \A i \in 1 .. Len(queue) : queue[i] \in 1 .. Len(events)
    /\ \A i, j \in 1 .. Len(queue) : i < j => queue[i] < queue[j]
    /\ making.step = "delete" => queue # <<>>
    /\ Len(events) <= MaxEvents

\* There are no dispatches of the events in the queue and of later ones, but of the event that
\* they are being made of.
NotMadeYet ==
    \A w \in Webhooks, n \in 1 .. MaxEvents : dispatch[<<w, n>>].status # "none" =>
        /\ n <= Len(events)
        /\ queue # <<>> =>
              \/ n < queue[1]
              \/ n = queue[1] /\ making.step = "delete" /\ w \notin making.matching

\* A timer is of a dispatch that is not over, without an attempt; an attempt, until its end is
\* recorded, of one that is not over.
Pending ==
    \A d \in Ids :
        /\ d \in timers => attempt[d] = "no" /\ dispatch[d].status = "ACTIVE"
        /\ attempt[d] \notin {"no", "written"} => dispatch[d].status = "ACTIVE"
        /\ attempt[d] = "written" => dispatch[d].status # "none"
        /\ dispatch[d].status = "none" => accepted[d] = 0

\* A dispatch with an attempt before it or on its way was not accepted since the last start.
NotAccepted ==
    \A d \in Ids :
        (\/ ~up \/ d \in timers \/ attempt[d] \in {"started", "sent", "ACTIVE"}
         \/ attempt[d] = "written" /\ dispatch[d].status = "ACTIVE")
            => accepted[d] <= crashes

\* One that is not over may be tried once more.
CallsLeft ==
    \A d \in Ids : dispatch[d].status = "ACTIVE" =>
        dispatch[d].calls <= IF d[2] = 0 THEN MaxTestRetries ELSE MaxRetries

\* What a crash leaves.
Down == ~up => /\ queue = <<>> /\ making = NotMaking /\ timers = {} /\ crashes > 0
               /\ attempt = [d \in Ids |-> "no"]

DispatchesInv ==
    /\ TypeOK /\ InOrder /\ NotMadeYet /\ Pending /\ NotAccepted /\ CallsLeft /\ Down
    /\ DeliveredOnce

\* For NoEventMissed: what the list of webhooks that an event matches was read from, and what
\* is left of it.
NotTouched == \A w \in Webhooks \ touched : webhook[w] = "enabled"
EventKept(n, w) == \/ dispatch[<<w, n>>].status # "none"
                   \/ \E i \in 1 .. Len(queue) : queue[i] = n
Listed ==
    making.step = "delete" =>
        \A w \in Webhooks \ touched : events[queue[1]] \in Subscribed[w] =>
            w \in making.matching \/ dispatch[<<w, queue[1]>>].status # "none"
AllKept == \A n \in 1 .. Len(events), w \in Webhooks \ touched : events[n] \in Subscribed[w] => EventKept(n, w)
EventsKept == crashes = 0 /\ failures = 0 => Listed /\ AllKept
EventsInv == DispatchesInv /\ NotTouched /\ EventsKept

-----------------------------------------------------------------------------
(* Steps of an attempt: the queue of events is not looked at.              *)

LEMMA QueueStays ==
    ASSUME DispatchesInv, UNCHANGED <<events, queue, making>>,
           \A d \in Ids : dispatch'[d].status = "none" <=> dispatch[d].status = "none"
    PROVE  InOrder' /\ NotMadeYet'
<1>1. InOrder'
  BY DEF DispatchesInv, InOrder
<1>2. \A w \in Webhooks, n \in 1 .. MaxEvents : <<w, n>> \in Ids
  BY DEF Ids
<1>3. NotMadeYet'
  BY <1>2 DEF DispatchesInv, NotMadeYet
<1> QED BY <1>1, <1>3

\* The dispatches that an attempt is not of, and what the crashes of the process depend on.
LEMMA AttemptSteps ==
    ASSUME DispatchesInv, NEW d \in Ids, NEW step \in Steps, SetAttempt(d, step)
    PROVE  /\ attempt' \in [Ids -> Steps] /\ attempt'[d] = step
           /\ \A c \in Ids \ {d} : attempt'[c] = attempt[c]
  BY DEF SetAttempt, DispatchesInv, TypeOK

LEMMA TimerFiresHolds ==
    ASSUME DispatchesInv, NEW d \in Ids, TimerFires(d)
    PROVE  DispatchesInv'
<1>1. /\ up /\ d \in timers /\ timers' = timers \ {d}
      /\ UNCHANGED <<events, queue, making, dispatch, accepted, up, crashes, failures>>
  BY DEF TimerFires
<1>2. /\ attempt' \in [Ids -> Steps] /\ attempt'[d] = "started"
      /\ \A c \in Ids \ {d} : attempt'[c] = attempt[c]
  BY AttemptSteps DEF TimerFires, Steps
<1>3. attempt[d] = "no" /\ dispatch[d].status = "ACTIVE" /\ accepted[d] <= crashes
  BY <1>1 DEF DispatchesInv, Pending, NotAccepted
<1>4. TypeOK' /\ Down'
  BY <1>1, <1>2 DEF DispatchesInv, TypeOK, Down
<1>5. InOrder' /\ NotMadeYet'
  BY <1>1, QueueStays
<1>6. Pending'
  BY <1>1, <1>2, <1>3 DEF DispatchesInv, Pending
<1>7. NotAccepted'
  BY <1>1, <1>2, <1>3 DEF DispatchesInv, NotAccepted
<1>8. CallsLeft'
  BY <1>1 DEF DispatchesInv, CallsLeft
<1>9. DeliveredOnce'
  BY <1>1, <1>2, <1>3 DEF DispatchesInv, DeliveredOnce, AcceptedOnce, CallsBounded, ActiveIsPending
<1> QED BY <1>4, <1>5, <1>6, <1>7, <1>8, <1>9 DEF DispatchesInv

LEMMA AttemptDispatchHolds ==
    ASSUME DispatchesInv, NEW d \in Ids, AttemptDispatch(d)
    PROVE  DispatchesInv'
<1>1. /\ up /\ attempt[d] = "started" /\ d \notin timers
      /\ dispatch[d].status = "ACTIVE" /\ accepted[d] <= crashes
      /\ UNCHANGED <<events, queue, making, dispatch, timers, accepted, up, crashes, failures>>
  BY DEF AttemptDispatch, DispatchesInv, Pending, NotAccepted
<1>2. PICK step \in {"sent", "FAILED"} : SetAttempt(d, step)
  BY <1>1 DEF AttemptDispatch
<1>3. /\ attempt' \in [Ids -> Steps] /\ attempt'[d] \in {"sent", "FAILED"}
      /\ \A c \in Ids \ {d} : attempt'[c] = attempt[c]
  BY <1>2, AttemptSteps DEF Steps
<1>4. TypeOK' /\ Down'
  BY <1>1, <1>3 DEF DispatchesInv, TypeOK, Down
<1>5. InOrder' /\ NotMadeYet'
  BY <1>1, QueueStays
<1>6. Pending'
  BY <1>1, <1>3 DEF DispatchesInv, Pending
<1>7. NotAccepted'
  BY <1>1, <1>3 DEF DispatchesInv, NotAccepted
<1>8. CallsLeft'
  BY <1>1 DEF DispatchesInv, CallsLeft
<1>9. DeliveredOnce'
  BY <1>1, <1>3 DEF DispatchesInv, DeliveredOnce, AcceptedOnce, CallsBounded, ActiveIsPending
<1> QED BY <1>4, <1>5, <1>6, <1>7, <1>8, <1>9 DEF DispatchesInv

LEMMA DeliverHolds ==
    ASSUME DispatchesInv, NEW d \in Ids, NEW outcome \in {"SUCCEEDED", "ACTIVE", "FAILED"}, Deliver(d, outcome)
    PROVE  DispatchesInv'
<1>1. /\ up /\ attempt[d] = "sent" /\ d \notin timers
      /\ dispatch[d].status = "ACTIVE" /\ accepted[d] <= crashes /\ accepted[d] \in Nat /\ crashes \in Nat
      /\ UNCHANGED <<events, queue, making, dispatch, timers, up, crashes, failures>>
  BY DEF Deliver, DispatchesInv, Pending, NotAccepted, TypeOK
<1>2. /\ attempt' \in [Ids -> Steps] /\ attempt'[d] = outcome
      /\ \A c \in Ids \ {d} : attempt'[c] = attempt[c]
  BY AttemptSteps DEF Deliver, Steps
<1>3. /\ accepted' \in [Ids -> Nat]
      /\ \A c \in Ids \ {d} : accepted'[c] = accepted[c]
      /\ accepted'[d] <= 1 + crashes /\ (outcome # "SUCCEEDED" => accepted'[d] <= crashes)
  <2>1. accepted' = [accepted EXCEPT ![d] = @ + IF outcome = "SUCCEEDED" THEN 1 ELSE 0]
        /\ accepted \in [Ids -> Nat]
    BY DEF Deliver, DispatchesInv, TypeOK
  <2> QED BY <1>1, <2>1
<1>4. TypeOK' /\ Down'
  BY <1>1, <1>2, <1>3 DEF DispatchesInv, TypeOK, Down
<1>5. InOrder' /\ NotMadeYet'
  BY <1>1, QueueStays
<1>6. Pending'
  BY <1>1, <1>2, <1>3 DEF DispatchesInv, Pending
<1>7. NotAccepted'
  BY <1>1, <1>2, <1>3 DEF DispatchesInv, NotAccepted
<1>8. CallsLeft'
  BY <1>1 DEF DispatchesInv, CallsLeft
<1>9. AcceptedOnce'
  BY <1>1, <1>3 DEF DispatchesInv, DeliveredOnce, AcceptedOnce
<1>10. CallsBounded' /\ ActiveIsPending'
  BY <1>1, <1>2 DEF DispatchesInv, DeliveredOnce, CallsBounded, ActiveIsPending
<1> QED BY <1>4, <1>5, <1>6, <1>7, <1>8, <1>9, <1>10 DEF DispatchesInv, DeliveredOnce

LEMMA FinishAttemptHolds ==
    ASSUME WebhooksAssumption, DispatchesInv, NEW d \in Ids, FinishAttempt(d)
    PROVE  DispatchesInv'
<1> DEFINE max == IF d[2] = 0 THEN MaxTestRetries ELSE MaxRetries
<1>1. /\ up /\ attempt[d] \in {"SUCCEEDED", "ACTIVE", "FAILED"} /\ d \notin timers
      /\ dispatch[d].status = "ACTIVE"
      /\ dispatch[d].calls \in Nat /\ max \in Nat /\ dispatch[d].calls <= max
      /\ attempt[d] = "ACTIVE" => accepted[d] <= crashes
      /\ UNCHANGED <<events, queue, making, timers, accepted, up, crashes, failures>>
  BY DEF FinishAttempt, DispatchesInv, Pending, NotAccepted, TypeOK, CallsLeft, WebhooksAssumption
<1>2. /\ attempt' \in [Ids -> Steps] /\ attempt'[d] = "written"
      /\ \A c \in Ids \ {d} : attempt'[c] = attempt[c]
  BY AttemptSteps DEF FinishAttempt, Steps
<1>3. /\ dispatch' \in [Ids -> [status : Statuses, calls : Nat]]
      /\ \A c \in Ids \ {d} : dispatch'[c] = dispatch[c]
      /\ dispatch'[d].status \in {"SUCCEEDED", "ACTIVE", "FAILED"}
      /\ dispatch'[d].calls = dispatch[d].calls + 1
      /\ dispatch'[d].status = "ACTIVE" => attempt[d] = "ACTIVE" /\ MayRetry(d)
  <2> DEFINE status == IF attempt[d] = "ACTIVE" /\ ~MayRetry(d) THEN "FAILED" ELSE attempt[d]
  <2>1. dispatch \in [Ids -> [status : Statuses, calls : Nat]]
    BY DEF DispatchesInv, TypeOK
  <2>2. dispatch' = [dispatch EXCEPT ![d].status = status, ![d].calls = @ + 1]
    BY DEF FinishAttempt
  <2>3. /\ status \in {"SUCCEEDED", "ACTIVE", "FAILED"}
        /\ status = "ACTIVE" => attempt[d] = "ACTIVE" /\ MayRetry(d)
    BY <1>1
  <2> HIDE DEF status
  <2> QED BY <2>1, <2>2, <2>3 DEF Statuses
<1>4. MayRetry(d) => dispatch'[d].calls <= max
  BY <1>1, <1>3 DEF MayRetry
<1>5. dispatch'[d].calls <= 1 + max
  BY <1>1, <1>3
<1>6. TypeOK' /\ Down'
  BY <1>1, <1>2, <1>3 DEF DispatchesInv, TypeOK, Down
<1>7. InOrder' /\ NotMadeYet'
  BY <1>1, <1>3, QueueStays
<1>8. Pending'
  BY <1>1, <1>2, <1>3 DEF DispatchesInv, Pending
<1>9. NotAccepted'
  BY <1>1, <1>2, <1>3 DEF DispatchesInv, NotAccepted
<1>10. CallsLeft'
  BY <1>3, <1>4 DEF DispatchesInv, CallsLeft
<1>11. CallsBounded'
  BY <1>3, <1>5 DEF DispatchesInv, DeliveredOnce, CallsBounded
<1>12. AcceptedOnce' /\ ActiveIsPending'
  BY <1>1, <1>2, <1>3 DEF DispatchesInv, DeliveredOnce, AcceptedOnce, ActiveIsPending
<1> QED BY <1>6, <1>7, <1>8, <1>9, <1>10, <1>11, <1>12 DEF DispatchesInv, DeliveredOnce

LEMMA AttemptOverHolds ==
    ASSUME DispatchesInv, NEW d \in Ids, AttemptOver(d)
    PROVE  DispatchesInv'
<1>1. /\ up /\ attempt[d] = "written" /\ d \notin timers
      /\ dispatch[d].status = "ACTIVE" => accepted[d] <= crashes
      /\ timers' = IF dispatch[d].status = "ACTIVE" THEN timers \cup {d} ELSE timers
      /\ UNCHANGED <<events, queue, making, dispatch, accepted, up, crashes, failures>>
  BY DEF AttemptOver, DispatchesInv, Pending, NotAccepted
<1>2. /\ attempt' \in [Ids -> Steps] /\ attempt'[d] = "no"
      /\ \A c \in Ids \ {d} : attempt'[c] = attempt[c]
  BY AttemptSteps DEF AttemptOver, Steps
<1>3. TypeOK' /\ Down'
  BY <1>1, <1>2 DEF DispatchesInv, TypeOK, Down
<1>4. InOrder' /\ NotMadeYet'
  BY <1>1, QueueStays
<1>5. Pending'
  BY <1>1, <1>2 DEF DispatchesInv, Pending
<1>6. NotAccepted'
  BY <1>1, <1>2 DEF DispatchesInv, NotAccepted
<1>7. CallsLeft'
  BY <1>1 DEF DispatchesInv, CallsLeft
<1>8. DeliveredOnce'
  BY <1>1, <1>2 DEF DispatchesInv, DeliveredOnce, AcceptedOnce, CallsBounded, ActiveIsPending
<1> QED BY <1>3, <1>4, <1>5, <1>6, <1>7, <1>8 DEF DispatchesInv

LEMMA AttemptFailsHolds ==
    ASSUME DispatchesInv, NEW d \in Ids, AttemptFails(d)
    PROVE  DispatchesInv'
<1>1. /\ up /\ attempt[d] \notin {"no", "sent"} /\ d \notin timers
      /\ failures \in Nat /\ failures' = failures + 1
      /\ UNCHANGED <<events, queue, making, dispatch, timers, accepted, up, crashes>>
  BY DEF AttemptFails, DispatchesInv, Pending, TypeOK
<1>2. /\ attempt' \in [Ids -> Steps] /\ attempt'[d] = "no"
      /\ \A c \in Ids \ {d} : attempt'[c] = attempt[c]
  BY AttemptSteps DEF AttemptFails, Steps
<1>3. TypeOK' /\ Down'
  BY <1>1, <1>2 DEF DispatchesInv, TypeOK, Down
<1>4. InOrder' /\ NotMadeYet'
  BY <1>1, QueueStays
<1>5. Pending'
  BY <1>1, <1>2 DEF DispatchesInv, Pending
<1>6. NotAccepted'
  BY <1>1, <1>2 DEF DispatchesInv, NotAccepted
<1>7. CallsLeft'
  BY <1>1 DEF DispatchesInv, CallsLeft
<1>8. failures' # 0
  BY <1>1
<1>9. DeliveredOnce'
  BY <1>1, <1>8 DEF DispatchesInv, DeliveredOnce, AcceptedOnce, CallsBounded, ActiveIsPending
<1> QED BY <1>3, <1>4, <1>5, <1>6, <1>7, <1>9 DEF DispatchesInv

-----------------------------------------------------------------------------
(* Steps of the queue of events.                                           *)

LEMMA HeadOfQueue ==
    ASSUME WebhooksAssumption, DispatchesInv, queue # <<>>
    PROVE  /\ Head(queue) = queue[1] /\ 1 \in 1 .. Len(queue)
           /\ queue[1] \in 1 .. Len(events) /\ queue[1] \in 1 .. MaxEvents /\ Len(events) \in Nat
<1>1. queue \in Seq(Nat) /\ events \in Seq(Written)
  BY DEF DispatchesInv, TypeOK
<1>2. 1 \in 1 .. Len(queue) /\ Head(queue) = queue[1] /\ Len(events) \in Nat
  BY <1>1, EmptySeq, LenProperties
<1>3. queue[1] \in 1 .. Len(events) /\ Len(events) <= MaxEvents
  BY <1>2 DEF DispatchesInv, InOrder
<1>4. MaxEvents \in Nat
  BY DEF WebhooksAssumption
<1> QED BY <1>2, <1>3, <1>4

\* What the dispatches of the events are is as it was.
LEMMA DispatchesStay ==
    ASSUME DispatchesInv, UNCHANGED <<dispatch, timers, attempt, accepted, up, crashes>>,
           failures' \in {failures, failures + 1}
    PROVE  Pending' /\ NotAccepted' /\ CallsLeft' /\ DeliveredOnce'
<1>1. Pending' /\ NotAccepted' /\ CallsLeft'
  BY DEF DispatchesInv, Pending, NotAccepted, CallsLeft
<1>2. failures' = 0 => failures = 0
  BY DEF DispatchesInv, TypeOK
<1>3. DeliveredOnce'
  BY <1>2 DEF DispatchesInv, DeliveredOnce, AcceptedOnce, CallsBounded, ActiveIsPending
<1> QED BY <1>1, <1>3

\* An event of the run joins the queue.
LEMMA EventJoins ==
    ASSUME WebhooksAssumption, DispatchesInv, Len(events) < MaxEvents,
           NEW type \in Written, events' = Append(events, type),
           queue' = Append(queue, Len(events) + 1), making' = making, dispatch' = dispatch
    PROVE  /\ events' \in Seq(Written) /\ queue' \in Seq(Nat) /\ queue' # <<>>
           /\ InOrder' /\ NotMadeYet'
<1> DEFINE n == Len(queue)
           m == Len(events)
<1>1. events \in Seq(Written) /\ queue \in Seq(Nat) /\ n \in Nat /\ m \in Nat /\ MaxEvents \in Nat
  BY LenProperties DEF DispatchesInv, TypeOK, WebhooksAssumption
<1>2. events' \in Seq(Written) /\ Len(events') = m + 1
  BY <1>1, AppendProperties
<1>3. /\ queue' \in Seq(Nat) /\ Len(queue') = n + 1 /\ queue' # <<>>
      /\ \A i \in 1 .. n : queue'[i] = queue[i]
      /\ queue'[n + 1] = m + 1
  BY <1>1, AppendProperties
<1>4. m < MaxEvents /\ \A i \in 1 .. n : queue[i] \in 1 .. m
  BY DEF DispatchesInv, InOrder
<1>5. n = 0 <=> queue = <<>>
  BY <1>1, EmptySeq
<1> HIDE DEF n, m
<1>6. \A i \in 1 .. n + 1 : queue'[i] \in 1 .. m + 1
  BY <1>1, <1>3, <1>4
<1>7. \A i, j \in 1 .. n + 1 : i < j => queue'[i] < queue'[j]
  <2>1. ASSUME NEW i \in 1 .. n + 1, NEW j \in 1 .. n + 1, i < j PROVE queue'[i] < queue'[j]
    <3>1. i \in 1 .. n /\ (j \in 1 .. n \/ j = n + 1)
      BY <1>1, <2>1
    <3>2. CASE j \in 1 .. n
      BY <1>3, <2>1, <3>1, <3>2 DEF DispatchesInv, InOrder, n
    <3>3. CASE j = n + 1
      BY <1>1, <1>3, <1>4, <3>1, <3>3
    <3> QED BY <3>1, <3>2, <3>3
  <2> QED BY <2>1
<1>8. InOrder'
  <2>1. Len(events') <= MaxEvents
    BY <1>1, <1>2, <1>4
  <2> QED BY <1>2, <1>3, <1>6, <1>7, <2>1 DEF InOrder
<1>9. NotMadeYet'
  <2>1. queue = <<>> => queue'[1] = m + 1
    BY <1>3, <1>5
  <2>2. queue # <<>> => queue'[1] = queue[1]
    BY <1>1, <1>3, <1>5
  <2>3. \A w \in Webhooks, k \in 1 .. MaxEvents : dispatch[<<w, k>>].status # "none" => k <= m
    BY DEF DispatchesInv, NotMadeYet, m
  <2> QED BY <1>1, <1>2, <2>1, <2>2, <2>3 DEF DispatchesInv, NotMadeYet
<1> QED BY <1>2, <1>3, <1>8, <1>9

LEMMA RunWrittenHolds ==
    ASSUME WebhooksAssumption, DispatchesInv, NEW next \in Terminal \cup {"live"}, RunWritten(next)
    PROVE  DispatchesInv'
<1>1. /\ up /\ events' = Append(events, jobEventType(runStatus, next)) /\ queue' = Append(queue, Len(events) + 1)
      /\ Len(events) < MaxEvents
      /\ UNCHANGED <<making, dispatch, timers, attempt, accepted, up, crashes, failures>>
  BY DEF RunWritten, dispatching
<1>2. jobEventType(runStatus, next) \in Written
  BY DEF jobEventType, Terminal, Written, EventTypes
<1>3. events' \in Seq(Written) /\ queue' \in Seq(Nat) /\ InOrder' /\ NotMadeYet'
  BY <1>1, <1>2, EventJoins
<1>4. TypeOK' /\ Down'
  BY <1>1, <1>3 DEF DispatchesInv, TypeOK, Down
<1> QED BY <1>1, <1>3, <1>4, DispatchesStay DEF DispatchesInv

LEMMA ListWebhooksHolds ==
    ASSUME WebhooksAssumption, DispatchesInv, ListWebhooks
    PROVE  DispatchesInv'
<1>1. /\ up /\ making.step = "no" /\ queue # <<>>
      /\ UNCHANGED <<events, queue, dispatch, timers, attempt, accepted, up, crashes, failures>>
      /\ making' \in Making
  BY DEF ListWebhooks, dispatching, Making, Obsolete, Matching, WebhooksAssumption
<1>2. TypeOK' /\ Down' /\ InOrder'
  BY <1>1 DEF DispatchesInv, TypeOK, Down, InOrder
<1>3. NotMadeYet'
  BY <1>1 DEF DispatchesInv, NotMadeYet
<1> QED BY <1>1, <1>2, <1>3, DispatchesStay DEF DispatchesInv

LEMMA DeleteObsoleteHolds ==
    ASSUME DispatchesInv, NEW w \in Webhooks, DeleteObsolete(w)
    PROVE  DispatchesInv'
<1>1. /\ up /\ making.step = "delete"
      /\ making' \in Making /\ making'.step = making.step /\ making'.matching = making.matching
      /\ UNCHANGED <<events, queue, dispatch, timers, attempt, accepted, up, crashes, failures>>
  BY DEF DeleteObsolete, dispatching, Making, DispatchesInv, TypeOK
<1>2. TypeOK' /\ Down' /\ InOrder'
  BY <1>1 DEF DispatchesInv, TypeOK, Down, InOrder
<1>3. NotMadeYet'
  BY <1>1 DEF DispatchesInv, NotMadeYet
<1> QED BY <1>1, <1>2, <1>3, DispatchesStay DEF DispatchesInv

LEMMA WebhookWrittenHolds ==
    ASSUME DispatchesInv, NEW w \in Webhooks, NEW next, WebhookWritten(w, next)
    PROVE  DispatchesInv'
<1>1. UNCHANGED <<events, queue, making, dispatch, timers, attempt, accepted, up, crashes, failures>>
  BY DEF WebhookWritten, dispatching
<1>2. TypeOK' /\ Down' /\ InOrder' /\ NotMadeYet'
  BY <1>1 DEF DispatchesInv, TypeOK, Down, InOrder, NotMadeYet
<1> QED BY <1>1, <1>2, DispatchesStay DEF DispatchesInv

\* The first event leaves the queue.
LEMMA EventLeaves ==
    ASSUME WebhooksAssumption, DispatchesInv, queue # <<>>, queue' = Tail(queue), making' = NotMaking, UNCHANGED <<events, dispatch>>
    PROVE  /\ queue' \in Seq(Nat) /\ making' \in Making /\ InOrder' /\ NotMadeYet'
           /\ Len(queue') = Len(queue) - 1 /\ Len(queue) \in Nat
           /\ \A i \in 1 .. Len(queue') : queue'[i] = queue[i + 1]
<1>1. /\ queue \in Seq(Nat) /\ Len(queue) \in Nat /\ queue' \in Seq(Nat) /\ Len(queue') = Len(queue) - 1
      /\ \A i \in 1 .. Len(queue') : queue'[i] = queue[i + 1]
  BY HeadTailProperties, LenProperties DEF DispatchesInv, TypeOK
<1>2. \A i \in 1 .. Len(queue') : i + 1 \in 1 .. Len(queue)
  BY <1>1
<1>3. \A i \in 1 .. Len(queue') : queue'[i] \in 1 .. Len(events) /\ queue[1] < queue'[i]
  <2>1. ASSUME NEW i \in 1 .. Len(queue')
        PROVE  queue'[i] \in 1 .. Len(events) /\ queue[1] < queue'[i]
    <3>1. i + 1 \in 1 .. Len(queue) /\ 1 \in 1 .. Len(queue) /\ 1 < i + 1 /\ queue'[i] = queue[i + 1]
      BY <1>1, <1>2
    <3> QED BY <3>1 DEF DispatchesInv, InOrder
  <2> QED BY <2>1
<1>4. \A i, j \in 1 .. Len(queue') : i < j => queue'[i] < queue'[j]
  <2>1. ASSUME NEW i \in 1 .. Len(queue'), NEW j \in 1 .. Len(queue'), i < j
        PROVE  queue'[i] < queue'[j]
    <3>1. i + 1 \in 1 .. Len(queue) /\ j + 1 \in 1 .. Len(queue) /\ i + 1 < j + 1
      BY <1>2, <2>1
    <3> QED BY <1>1, <3>1 DEF DispatchesInv, InOrder
  <2> QED BY <2>1
<1>5. making' \in Making /\ making'.step = "no"
  BY DEF NotMaking, Making
<1>6. InOrder'
  BY <1>3, <1>4, <1>5 DEF DispatchesInv, InOrder
<1>7. NotMadeYet'
  <2>1. queue' # <<>> => 1 \in 1 .. Len(queue')
    BY <1>1, EmptySeq
  <2>2. queue[1] \in 1 .. Len(events) /\ Len(events) \in Nat
    BY HeadOfQueue
  <2>3. queue' # <<>> => queue'[1] \in Nat /\ queue[1] < queue'[1]
    <3> SUFFICES ASSUME queue' # <<>> PROVE queue'[1] \in Nat /\ queue[1] < queue'[1]
      OBVIOUS
    <3>1. queue'[1] \in 1 .. Len(events) /\ queue[1] < queue'[1]
      BY <1>3, <2>1
    <3> QED BY <2>2, <3>1
  <2>4. ASSUME NEW w \in Webhooks, NEW n \in 1 .. MaxEvents, dispatch[<<w, n>>].status # "none"
        PROVE  n <= Len(events) /\ n <= queue[1]
    BY <2>2, <2>4 DEF DispatchesInv, NotMadeYet
  <2> QED BY <2>2, <2>3, <2>4 DEF NotMadeYet
<1> QED BY <1>1, <1>5, <1>6, <1>7

LEMMA EventDoneHolds ==
    ASSUME WebhooksAssumption, DispatchesInv, EventDone
    PROVE  DispatchesInv'
<1>1. /\ queue # <<>> /\ queue' = Tail(queue) /\ making' = NotMaking /\ up
      /\ UNCHANGED <<events, dispatch, timers, attempt, accepted, up, crashes, failures>>
  BY DEF EventDone, dispatching, DispatchesInv, InOrder
<1>2. queue' \in Seq(Nat) /\ making' \in Making /\ InOrder' /\ NotMadeYet'
  BY <1>1, EventLeaves
<1>3. TypeOK' /\ Down'
  BY <1>1, <1>2 DEF DispatchesInv, TypeOK, Down
<1> QED BY <1>1, <1>2, <1>3, DispatchesStay DEF DispatchesInv

LEMMA EventFailsHolds ==
    ASSUME WebhooksAssumption, DispatchesInv, EventFails
    PROVE  DispatchesInv'
<1>1. /\ queue # <<>> /\ queue' = Tail(queue) /\ making' = NotMaking /\ up /\ failures' = failures + 1
      /\ failures \in Nat
      /\ UNCHANGED <<events, dispatch, timers, attempt, accepted, up, crashes>>
  BY DEF EventFails, dispatching, DispatchesInv, TypeOK
<1>2. queue' \in Seq(Nat) /\ making' \in Making /\ InOrder' /\ NotMadeYet'
  BY <1>1, EventLeaves
<1>3. TypeOK' /\ Down'
  BY <1>1, <1>2 DEF DispatchesInv, TypeOK, Down
<1> QED BY <1>1, <1>2, <1>3, DispatchesStay DEF DispatchesInv

-----------------------------------------------------------------------------
(* A dispatch is made of an event, or asked for.                           *)

\* It has had no attempt yet.
LEMMA InsertHolds ==
    ASSUME WebhooksAssumption, DispatchesInv, NEW d \in Ids, dispatch[d].status = "none", up, InsertDispatch(d),
           UNCHANGED <<up, crashes, failures>>
    PROVE  /\ dispatch' \in [Ids -> [status : Statuses, calls : Nat]] /\ timers' \subseteq Ids
           /\ \A c \in Ids \ {d} : dispatch'[c] = dispatch[c]
           /\ dispatch'[d].status = "ACTIVE"
           /\ Pending' /\ NotAccepted' /\ CallsLeft' /\ DeliveredOnce'
<1>1. /\ dispatch' = [dispatch EXCEPT ![d] = [status |-> "ACTIVE", calls |-> 0]]
      /\ timers' = timers \cup {d} /\ attempt' = attempt /\ accepted' = accepted
      /\ dispatch \in [Ids -> [status : Statuses, calls : Nat]] /\ timers \subseteq Ids
      /\ attempt \in [Ids -> Steps] /\ crashes \in Nat
  BY DEF InsertDispatch, DispatchesInv, TypeOK
<1>2. /\ dispatch' \in [Ids -> [status : Statuses, calls : Nat]]
      /\ \A c \in Ids \ {d} : dispatch'[c] = dispatch[c]
      /\ dispatch'[d].status = "ACTIVE" /\ dispatch'[d].calls = 0
  BY <1>1 DEF Statuses
<1>3. d \notin timers /\ attempt[d] = "no" /\ accepted[d] = 0
  BY <1>1 DEF DispatchesInv, Pending, Steps
<1>4. Pending'
  BY <1>1, <1>2, <1>3 DEF DispatchesInv, Pending
<1>5. NotAccepted'
  BY <1>1, <1>2, <1>3 DEF DispatchesInv, NotAccepted
<1>6. CallsLeft'
  BY <1>1, <1>2 DEF DispatchesInv, CallsLeft, WebhooksAssumption
<1>7. CallsBounded'
  <2>1. \A n \in Nat : 0 <= 1 + n
    OBVIOUS
  <2> QED BY <1>1, <1>2, <2>1 DEF DispatchesInv, DeliveredOnce, CallsBounded, WebhooksAssumption
<1>8. AcceptedOnce' /\ ActiveIsPending'
  BY <1>1, <1>2, <1>3 DEF DispatchesInv, DeliveredOnce, AcceptedOnce, ActiveIsPending
<1> QED BY <1>1, <1>2, <1>4, <1>5, <1>6, <1>7, <1>8 DEF DeliveredOnce

LEMMA CreateDispatchHolds ==
    ASSUME WebhooksAssumption, DispatchesInv, NEW w \in Webhooks, CreateDispatch(w)
    PROVE  DispatchesInv'
<1> DEFINE n == queue[1]
           d == <<w, n>>
<1>1. /\ up /\ making.step = "delete" /\ w \in making.matching /\ InsertDispatch(<<w, Head(queue)>>)
      /\ making' = [making EXCEPT !.matching = @ \ {w}] /\ making \in Making
      /\ UNCHANGED <<events, queue, up, crashes, failures>>
  BY DEF CreateDispatch, DispatchesInv, TypeOK
<1>2. /\ queue # <<>> /\ Head(queue) = n /\ n \in 1 .. MaxEvents /\ n \in 1 .. Len(events) /\ Len(events) \in Nat
  BY <1>1, HeadOfQueue DEF DispatchesInv, InOrder
<1>3. MaxEvents \in Nat
  BY DEF WebhooksAssumption
<1>4. d \in Ids
  BY <1>2, <1>3 DEF Ids
<1>5. dispatch[d].status = "none"
  BY <1>1, <1>2 DEF DispatchesInv, NotMadeYet
<1>6. /\ dispatch' \in [Ids -> [status : Statuses, calls : Nat]] /\ timers' \subseteq Ids
      /\ \A c \in Ids \ {d} : dispatch'[c] = dispatch[c]
      /\ dispatch'[d].status = "ACTIVE"
      /\ Pending' /\ NotAccepted' /\ CallsLeft' /\ DeliveredOnce'
  BY <1>1, <1>2, <1>4, <1>5, InsertHolds
<1>7. /\ making' \in Making /\ making'.step = "delete" /\ making'.matching = making.matching \ {w}
  BY <1>1 DEF Making
<1>8. TypeOK' /\ Down'
  BY <1>1, <1>6, <1>7 DEF DispatchesInv, TypeOK, Down, InsertDispatch
<1>9. InOrder'
  BY <1>1, <1>2 DEF DispatchesInv, InOrder
<1>10. NotMadeYet'
  <2>1. ASSUME NEW v \in Webhooks, NEW k \in 1 .. MaxEvents, dispatch'[<<v, k>>].status # "none"
        PROVE  k <= Len(events) /\ (k < n \/ (k = n /\ v \notin making'.matching))
    <3>1. <<v, k>> \in Ids
      BY <1>3 DEF Ids
    <3>2. CASE v = w /\ k = n
      BY <1>2, <1>7, <3>2
    <3>3. CASE ~(v = w /\ k = n)
      <4>1. dispatch'[<<v, k>>] = dispatch[<<v, k>>]
        BY <1>6, <3>1, <3>3
      <4>2. k <= Len(events) /\ (k < n \/ (k = n /\ v \notin making.matching))
        <5>1. NotMadeYet /\ queue # <<>> /\ dispatch[<<v, k>>].status # "none"
          BY <1>2, <2>1, <4>1 DEF DispatchesInv
        <5>2. k <= Len(events) /\ (k < queue[1] \/ (k = queue[1] /\ v \notin making.matching))
          BY <2>1, <5>1 DEF NotMadeYet
        <5> QED BY <5>2
      <4> QED BY <1>7, <4>2
    <3> QED BY <3>2, <3>3
  <2> QED BY <1>1, <1>7, <2>1 DEF NotMadeYet
<1> QED BY <1>6, <1>8, <1>9, <1>10 DEF DispatchesInv

LEMMA CreateTestDispatchHolds ==
    ASSUME WebhooksAssumption, DispatchesInv, NEW w \in Webhooks, CreateTestDispatch(w)
    PROVE  DispatchesInv'
<1> DEFINE d == <<w, 0>>
<1>1. /\ up /\ dispatch[d].status = "none" /\ InsertDispatch(d)
      /\ UNCHANGED <<events, queue, making, up, crashes, failures>>
  BY DEF CreateTestDispatch
<1>2. MaxEvents \in Nat
  BY DEF WebhooksAssumption
<1>3. d \in Ids
  BY <1>2 DEF Ids
<1>4. \A v \in Webhooks, k \in 1 .. MaxEvents : <<v, k>> \in Ids /\ <<v, k>> # d
  BY <1>2 DEF Ids
<1> HIDE DEF d
<1>5. /\ dispatch' \in [Ids -> [status : Statuses, calls : Nat]] /\ timers' \subseteq Ids
      /\ \A c \in Ids \ {d} : dispatch'[c] = dispatch[c]
      /\ Pending' /\ NotAccepted' /\ CallsLeft' /\ DeliveredOnce'
  BY <1>1, <1>3, InsertHolds
<1>6. TypeOK' /\ Down'
  BY <1>1, <1>5 DEF DispatchesInv, TypeOK, Down, InsertDispatch
<1>7. InOrder'
  BY <1>1 DEF DispatchesInv, InOrder
<1>8. NotMadeYet'
  BY <1>1, <1>4, <1>5 DEF DispatchesInv, NotMadeYet
<1> QED BY <1>5, <1>6, <1>7, <1>8 DEF DispatchesInv

-----------------------------------------------------------------------------
(* Crash and restart.                                                      *)

LEMMA CrashHolds ==
    ASSUME DispatchesInv, Crash
    PROVE  DispatchesInv'
<1>1. /\ ~up' /\ crashes' = crashes + 1 /\ crashes \in Nat /\ queue' = <<>> /\ making' = NotMaking /\ timers' = {}
      /\ attempt' = [d \in Ids |-> "no"]
      /\ UNCHANGED <<events, dispatch, accepted, failures>> /\ accepted \in [Ids -> Nat]
  BY DEF Crash, DispatchesInv, TypeOK
<1>2. making' \in Making /\ making'.step = "no" /\ Len(queue') = 0 /\ queue' \in Seq(Nat)
  BY <1>1, EmptySeq DEF NotMaking, Making
<1>3. TypeOK' /\ Down'
  <2>1. up' \in BOOLEAN /\ attempt' \in [Ids -> Steps] /\ timers' \subseteq Ids /\ crashes' \in Nat /\ crashes' > 0
    <3>1. attempt' \in [Ids -> Steps]
      BY <1>1 DEF Steps
    <3>2. up' \in BOOLEAN
      BY DEF Crash
    <3> QED BY <1>1, <3>1, <3>2
  <2> QED BY <1>1, <1>2, <2>1 DEF DispatchesInv, TypeOK, Down
<1>4. InOrder' /\ NotMadeYet'
  BY <1>1, <1>2 DEF DispatchesInv, InOrder, NotMadeYet
<1>5. Pending' /\ CallsLeft'
  BY <1>1 DEF DispatchesInv, Pending, CallsLeft
<1>6. \A d \in Ids : accepted[d] <= crashes'
  BY <1>1 DEF DispatchesInv, DeliveredOnce, AcceptedOnce
<1>7. NotAccepted'
  BY <1>1, <1>6 DEF NotAccepted
<1>8. AcceptedOnce'
  <2>1. \A d \in Ids : accepted[d] <= 1 + crashes'
    BY <1>1, <1>6
  <2> QED BY <1>1, <2>1 DEF AcceptedOnce
<1>9. CallsBounded' /\ ActiveIsPending'
  BY <1>1 DEF DispatchesInv, DeliveredOnce, CallsBounded, ActiveIsPending
<1> QED BY <1>3, <1>4, <1>5, <1>7, <1>8, <1>9 DEF DispatchesInv, DeliveredOnce

LEMMA RestartHolds ==
    ASSUME WebhooksAssumption, DispatchesInv, Restart
    PROVE  DispatchesInv'
<1>1. /\ ~up /\ up' = TRUE /\ timers' = Resumed /\ queue = <<>> /\ making = NotMaking
      /\ attempt = [d \in Ids |-> "no"]
      /\ UNCHANGED <<making, dispatch, attempt, accepted, crashes, failures>>
  BY DEF Restart, DispatchesInv, Down
<1>2. /\ events' \in Seq(Written) /\ queue' \in Seq(Nat) /\ InOrder' /\ NotMadeYet'
  <2>1. CASE UNCHANGED <<events, queue>>
    BY <1>1, <2>1 DEF DispatchesInv, TypeOK, InOrder, NotMadeYet
  <2>2. CASE Len(events) < MaxEvents /\ events' = Append(events, "FAILED") /\ queue' = <<Len(events) + 1>>
    <3>1. Append(queue, Len(events) + 1) = <<Len(events) + 1>>
      BY <1>1
    <3>2. "FAILED" \in Written
      BY DEF Written, EventTypes, Terminal
    <3> QED BY <1>1, <2>2, <3>1, <3>2, EventJoins
  <2>3. Len(events) <= MaxEvents /\ MaxEvents \in Nat /\ Len(events) \in Nat
    BY LenProperties DEF DispatchesInv, InOrder, WebhooksAssumption, TypeOK
  <2>4. Len(events) < MaxEvents \/ Len(events) = MaxEvents
    BY <2>3
  <2> QED BY <2>1, <2>2, <2>4 DEF Restart
<1>3. TypeOK' /\ Down'
  BY <1>1, <1>2 DEF DispatchesInv, TypeOK, Down, Resumed
<1>4. Pending' /\ CallsLeft'
  BY <1>1 DEF DispatchesInv, Pending, CallsLeft, Resumed
<1>5. NotAccepted'
  BY <1>1 DEF DispatchesInv, NotAccepted
<1>6. DeliveredOnce'
  BY <1>1 DEF DispatchesInv, DeliveredOnce, AcceptedOnce, CallsBounded, ActiveIsPending, Resumed
<1> QED BY <1>2, <1>3, <1>4, <1>5, <1>6 DEF DispatchesInv

LEMMA WebhooksInitHolds == WebhooksAssumption /\ Init => DispatchesInv
<1> SUFFICES ASSUME WebhooksAssumption, Init PROVE DispatchesInv
  OBVIOUS
<1> USE DEF Init
<1>1. TypeOK
  BY EmptySeq DEF TypeOK, NotMaking, Making, Statuses, Steps
<1>2. InOrder /\ NotMadeYet
  <2>1. Len(queue) = 0 /\ Len(events) = 0 /\ making.step = "no" /\ 0 <= MaxEvents
    BY DEF NotMaking, WebhooksAssumption
  <2>2. \A w \in Webhooks, n \in 1 .. MaxEvents : <<w, n>> \in Ids
    BY DEF Ids
  <2> QED BY <2>1, <2>2 DEF InOrder, NotMadeYet
<1>3. Pending /\ NotAccepted /\ CallsLeft /\ Down
  BY DEF Pending, NotAccepted, CallsLeft, Down
<1>4. DeliveredOnce
  <2>1. \A n \in Nat : 0 <= 1 + n
    OBVIOUS
  <2> QED BY <2>1 DEF DeliveredOnce, AcceptedOnce, CallsBounded, ActiveIsPending, WebhooksAssumption
<1> QED BY <1>1, <1>2, <1>3, <1>4 DEF DispatchesInv

LEMMA WebhooksNextHolds ==
    ASSUME WebhooksAssumption, DispatchesInv, [Next]_vars
    PROVE  DispatchesInv'
<1>1. CASE UNCHANGED vars
  BY <1>1 DEF vars, DispatchesInv, TypeOK, InOrder, NotMadeYet, Pending, NotAccepted, CallsLeft, Down,
              DeliveredOnce, AcceptedOnce, CallsBounded, ActiveIsPending
<1>2. CASE \E next \in Terminal \cup {"live"} : RunWritten(next)
  BY <1>2, RunWrittenHolds
<1>3. CASE EventStep \/ EventFails
  BY <1>3, ListWebhooksHolds, EventDoneHolds, DeleteObsoleteHolds, CreateDispatchHolds, EventFailsHolds DEF EventStep
<1>4. CASE \E w \in Webhooks :
           CreateTestDispatch(w) \/ \E next \in {"enabled", "disabled", "deleted"} : WebhookWritten(w, next)
  BY <1>4, CreateTestDispatchHolds, WebhookWrittenHolds
<1>5. CASE \E d \in Ids : AttemptStep(d) \/ AttemptFails(d)
  BY <1>5, TimerFiresHolds, AttemptDispatchHolds, FinishAttemptHolds, AttemptOverHolds, DeliverHolds,
     AttemptFailsHolds DEF AttemptStep
<1>6. CASE Crash \/ Restart
  BY <1>6, CrashHolds, RestartHolds
<1> QED BY <1>1, <1>2, <1>3, <1>4, <1>5, <1>6 DEF Next

LEMMA DispatchesKeepInv == Spec => []DispatchesInv
  BY WebhooksAssumption, WebhooksInitHolds, WebhooksNextHolds, PTL DEF Spec

\* A delivery ends in time and is not made twice: no dispatch is attempted more often than its
\* retries allow, its attempts do not overlap, and they stop once the receiver accepted one, but
\* for a crash before that is recorded (deliver, finishAttempt, scheduleAttempt).
THEOREM DeliveriesAreMadeOnce == Spec => []DeliveredOnce
  BY DispatchesKeepInv, PTL DEF DispatchesInv

-----------------------------------------------------------------------------
(* No event is missed.                                                     *)

\* A step that takes nothing from the queue and no dispatch away keeps what it finds.
LEMMA KeptStays ==
    ASSUME AllKept, UNCHANGED <<events, queue>>, touched \subseteq touched',
           \A w \in Webhooks, n \in 1 .. MaxEvents :
               dispatch[<<w, n>>].status # "none" => dispatch'[<<w, n>>].status # "none",
           Len(events) <= MaxEvents, Len(events) \in Nat, MaxEvents \in Nat
    PROVE  AllKept'
<1>1. ASSUME NEW n \in 1 .. Len(events), NEW w \in Webhooks \ touched', events[n] \in Subscribed[w]
      PROVE  EventKept(n, w)'
  <2>1. n \in 1 .. MaxEvents /\ w \in Webhooks \ touched
    BY <1>1
  <2>2. EventKept(n, w)
    BY <1>1, <2>1 DEF AllKept
  <2> QED BY <2>1, <2>2 DEF EventKept
<1> QED BY <1>1 DEF AllKept

LEMMA ListedStays ==
    ASSUME WebhooksAssumption, DispatchesInv, Listed, making' = making, touched \subseteq touched',
           queue # <<>> => queue'[1] = queue[1] /\ events'[queue[1]] = events[queue[1]],
           \A w \in Webhooks, n \in 1 .. MaxEvents :
               dispatch[<<w, n>>].status # "none" => dispatch'[<<w, n>>].status # "none"
    PROVE  Listed'
<1>1. making.step = "delete" => queue # <<>>
  BY DEF DispatchesInv, InOrder
<1>2. queue # <<>> => queue[1] \in 1 .. MaxEvents
  BY HeadOfQueue
<1> QED BY <1>1, <1>2 DEF Listed

\* What the numbers of events are, for the steps below.
LEMMA EventNumbers ==
    ASSUME WebhooksAssumption, DispatchesInv
    PROVE  /\ Len(events) <= MaxEvents /\ Len(events) \in Nat /\ MaxEvents \in Nat /\ Len(queue) \in Nat
           /\ events \in Seq(Written) /\ queue \in Seq(Nat)
           /\ \A w \in Webhooks, n \in 1 .. MaxEvents : <<w, n>> \in Ids
  BY LenProperties DEF DispatchesInv, TypeOK, InOrder, WebhooksAssumption, Ids

\* Steps that leave the queue and the webhooks alone, and no dispatch without a record.
LEMMA AttemptsKeep ==
    ASSUME WebhooksAssumption, EventsInv, UNCHANGED <<events, queue, making, webhook, touched>>,
           \A d \in Ids : dispatch[d].status # "none" => dispatch'[d].status # "none",
           crashes' = 0 /\ failures' = 0 => crashes = 0 /\ failures = 0
    PROVE  NotTouched' /\ EventsKept'
<1>1. NotTouched'
  BY DEF EventsInv, NotTouched
<1>2. \A w \in Webhooks, n \in 1 .. MaxEvents :
          dispatch[<<w, n>>].status # "none" => dispatch'[<<w, n>>].status # "none"
  BY EventNumbers DEF EventsInv
<1>3. ASSUME Listed, AllKept PROVE Listed' /\ AllKept'
  BY <1>2, <1>3, ListedStays, KeptStays, EventNumbers DEF EventsInv
<1> QED BY <1>1, <1>3 DEF EventsInv, EventsKept

LEMMA AttemptStepKeeps ==
    ASSUME WebhooksAssumption, EventsInv, NEW d \in Ids, AttemptStep(d) \/ AttemptFails(d)
    PROVE  NotTouched' /\ EventsKept'
<1>1. UNCHANGED <<events, queue, making, webhook, touched, crashes>>
  BY DEF AttemptStep, TimerFires, AttemptDispatch, FinishAttempt, AttemptOver, Deliver, AttemptFails
<1>2. \A c \in Ids : dispatch[c].status # "none" => dispatch'[c].status # "none"
  <2>1. CASE FinishAttempt(d)
    <3> DEFINE status == IF attempt[d] = "ACTIVE" /\ ~MayRetry(d) THEN "FAILED" ELSE attempt[d]
    <3>1. dispatch' = [dispatch EXCEPT ![d].status = status, ![d].calls = @ + 1] /\ status # "none"
      BY <2>1 DEF FinishAttempt
    <3>2. dispatch \in [Ids -> [status : Statuses, calls : Nat]]
      BY DEF EventsInv, DispatchesInv, TypeOK
    <3> HIDE DEF status
    <3> QED BY <3>1, <3>2
  <2>2. CASE ~FinishAttempt(d)
    BY <2>2 DEF AttemptStep, TimerFires, AttemptDispatch, AttemptOver, Deliver, AttemptFails
  <2> QED BY <2>1, <2>2
<1>3. failures' = 0 => failures = 0
  BY DEF AttemptStep, TimerFires, AttemptDispatch, FinishAttempt, AttemptOver, Deliver, AttemptFails,
         EventsInv, DispatchesInv, TypeOK
<1> QED BY <1>1, <1>2, <1>3, AttemptsKeep

\* The new event waits at the end of the queue.
LEMMA RunWrittenKeeps ==
    ASSUME WebhooksAssumption, EventsInv, NEW next \in Terminal \cup {"live"}, RunWritten(next)
    PROVE  NotTouched' /\ EventsKept'
<1> DEFINE type == jobEventType(runStatus, next)
           n == Len(queue)
           m == Len(events)
<1>1. /\ events' = Append(events, type) /\ queue' = Append(queue, m + 1)
      /\ UNCHANGED <<making, webhook, touched, dispatch, crashes, failures>>
  BY DEF RunWritten, dispatching
<1>2. type \in Written
  BY DEF jobEventType, Terminal, Written, EventTypes
<1>3. events \in Seq(Written) /\ queue \in Seq(Nat) /\ n \in Nat /\ m \in Nat
  BY EventNumbers DEF EventsInv
<1> HIDE DEF type
<1>4. Len(events') = m + 1 /\ \A i \in 1 .. m : events'[i] = events[i]
  BY <1>1, <1>2, <1>3, AppendProperties
<1>5. /\ Len(queue') = n + 1 /\ queue'[n + 1] = m + 1
      /\ \A i \in 1 .. n : queue'[i] = queue[i]
  BY <1>1, <1>3, AppendProperties
<1> HIDE DEF n, m
<1>6. ASSUME Listed PROVE Listed'
  <2>1. queue # <<>> => queue'[1] = queue[1] /\ events'[queue[1]] = events[queue[1]]
    BY <1>4, <1>5, HeadOfQueue DEF EventsInv, n, m
  <2> QED BY <1>1, <1>6, <2>1, ListedStays DEF EventsInv
<1>7. ASSUME AllKept PROVE AllKept'
  <2>1. ASSUME NEW k \in 1 .. m + 1, NEW w \in Webhooks \ touched, events'[k] \in Subscribed[w]
        PROVE  dispatch[<<w, k>>].status # "none" \/ \E i \in 1 .. n + 1 : queue'[i] = k
    <3>1. CASE k = m + 1
      BY <1>3, <1>5, <3>1
    <3>2. CASE k # m + 1
      <4>1. k \in 1 .. m /\ events'[k] = events[k]
        BY <1>3, <1>4, <2>1, <3>2
      <4>2. EventKept(k, w)
        BY <1>7, <2>1, <4>1 DEF AllKept, m
      <4>3. \A i \in 1 .. n : i \in 1 .. n + 1 /\ queue'[i] = queue[i]
        BY <1>3, <1>5
      <4> QED BY <4>2, <4>3 DEF EventKept, n
    <3> QED BY <3>1, <3>2
  <2> QED BY <1>1, <1>4, <1>5, <2>1 DEF AllKept, EventKept
<1> QED BY <1>1, <1>6, <1>7 DEF EventsInv, EventsKept, NotTouched

\* The list is read from the webhooks as they are: one never disabled is on it.
LEMMA ListWebhooksKeeps ==
    ASSUME WebhooksAssumption, EventsInv, ListWebhooks
    PROVE  NotTouched' /\ EventsKept'
<1>1. /\ queue # <<>> /\ making'.matching = Matching(events[Head(queue)])
      /\ UNCHANGED <<events, queue, webhook, touched, dispatch, crashes, failures>>
  BY DEF ListWebhooks, dispatching
<1>2. Head(queue) = queue[1]
  BY <1>1, HeadOfQueue DEF EventsInv
<1>3. Listed'
  BY <1>1, <1>2 DEF Listed, Matching, EventsInv, NotTouched
<1> QED BY <1>1, <1>3 DEF EventsInv, EventsKept, NotTouched, AllKept, EventKept

\* A webhook that changes was touched, whoever changes it.
LEMMA WebhookChangeKeeps ==
    ASSUME WebhooksAssumption, EventsInv, NEW w \in Webhooks, NEW next,
           webhook' = [webhook EXCEPT ![w] = next], touched' = touched \cup {w},
           making'.step = making.step, making'.matching = making.matching,
           UNCHANGED <<events, queue, dispatch, crashes, failures>>
    PROVE  NotTouched' /\ EventsKept'
<1>1. NotTouched'
  BY DEF EventsInv, NotTouched
<1>2. ASSUME Listed PROVE Listed'
  BY <1>2 DEF Listed
<1>3. ASSUME AllKept PROVE AllKept'
  BY <1>3, KeptStays, EventNumbers DEF EventsInv
<1> QED BY <1>1, <1>2, <1>3 DEF EventsInv, EventsKept

\* A dispatch is inserted: there is one more, and no less.
LEMMA InsertKeeps ==
    ASSUME EventsInv, NEW d \in Ids, InsertDispatch(d)
    PROVE  dispatch'[d].status = "ACTIVE" /\ \A c \in Ids \ {d} : dispatch'[c] = dispatch[c]
  BY DEF InsertDispatch, EventsInv, DispatchesInv, TypeOK

LEMMA CreateDispatchKeeps ==
    ASSUME WebhooksAssumption, EventsInv, NEW w \in Webhooks, CreateDispatch(w)
    PROVE  NotTouched' /\ EventsKept'
<1>1. /\ making.step = "delete" /\ making' = [making EXCEPT !.matching = @ \ {w}]
      /\ InsertDispatch(<<w, Head(queue)>>)
      /\ UNCHANGED <<events, queue, webhook, touched, crashes, failures>>
  BY DEF CreateDispatch
<1>2. queue # <<>>
  BY <1>1 DEF EventsInv, DispatchesInv, InOrder
<1>3. Head(queue) = queue[1] /\ queue[1] \in 1 .. MaxEvents
  BY <1>2, HeadOfQueue DEF EventsInv
<1>4. /\ <<w, queue[1]>> \in Ids /\ dispatch'[<<w, queue[1]>>].status = "ACTIVE"
      /\ \A c \in Ids \ {<<w, queue[1]>>} : dispatch'[c] = dispatch[c]
  BY <1>1, <1>3, InsertKeeps, EventNumbers DEF EventsInv
<1>5. \A v \in Webhooks, n \in 1 .. MaxEvents :
          dispatch[<<v, n>>].status # "none" => dispatch'[<<v, n>>].status # "none"
  BY <1>4, EventNumbers DEF EventsInv
<1>6. making'.step = "delete" /\ \A v \in making.matching : v = w \/ v \in making'.matching
  BY <1>1 DEF EventsInv, DispatchesInv, TypeOK, Making
<1>7. ASSUME Listed PROVE Listed'
  BY <1>1, <1>3, <1>4, <1>5, <1>6, <1>7 DEF Listed
<1>8. ASSUME AllKept PROVE AllKept'
  BY <1>1, <1>5, <1>8, KeptStays, EventNumbers DEF EventsInv
<1> QED BY <1>1, <1>7, <1>8 DEF EventsInv, EventsKept, NotTouched

LEMMA CreateTestDispatchKeeps ==
    ASSUME WebhooksAssumption, EventsInv, NEW w \in Webhooks, CreateTestDispatch(w)
    PROVE  NotTouched' /\ EventsKept'
<1>1. /\ InsertDispatch(<<w, 0>>)
      /\ UNCHANGED <<events, queue, making, webhook, touched, crashes, failures>>
  BY DEF CreateTestDispatch
<1>2. <<w, 0>> \in Ids
  BY EventNumbers DEF Ids, EventsInv
<1>3. \A d \in Ids : dispatch[d].status # "none" => dispatch'[d].status # "none"
  BY <1>1, <1>2, InsertKeeps
<1> QED BY <1>1, <1>3, AttemptsKeep

\* The event that leaves the queue has a dispatch of every webhook that was on the list.
LEMMA EventDoneKeeps ==
    ASSUME WebhooksAssumption, EventsInv, EventDone
    PROVE  NotTouched' /\ EventsKept'
<1>1. /\ making.step = "delete" /\ making.matching = {} /\ queue # <<>>
      /\ queue' = Tail(queue) /\ making' = NotMaking
      /\ UNCHANGED <<events, webhook, touched, dispatch, crashes, failures>>
  BY DEF EventDone, dispatching, EventsInv, DispatchesInv, InOrder
<1>2. Listed'
  BY <1>1 DEF Listed, NotMaking
<1>3. /\ Len(queue') = Len(queue) - 1 /\ Len(queue) \in Nat
      /\ \A i \in 1 .. Len(queue') : queue'[i] = queue[i + 1]
  BY <1>1, EventLeaves DEF EventsInv
<1>4. ASSUME Listed, AllKept PROVE AllKept'
  <2>1. ASSUME NEW n \in 1 .. Len(events), NEW w \in Webhooks \ touched, events[n] \in Subscribed[w],
               dispatch[<<w, n>>].status = "none"
        PROVE  \E i \in 1 .. Len(queue') : queue'[i] = n
    <3>1. PICK i \in 1 .. Len(queue) : queue[i] = n
      BY <1>4, <2>1 DEF AllKept, EventKept
    <3>2. i # 1
      BY <1>1, <1>4, <2>1, <3>1 DEF Listed
    <3>3. i - 1 \in 1 .. Len(queue') /\ (i - 1) + 1 = i
      BY <1>3, <3>1, <3>2
    <3>4. queue'[i - 1] = n
      BY <1>3, <3>1, <3>3
    <3> QED BY <3>3, <3>4
  <2> QED BY <1>1, <2>1 DEF AllKept, EventKept
<1> QED BY <1>1, <1>2, <1>4 DEF EventsInv, EventsKept, NotTouched

\* A fault may lose an event: nothing is promised after it.
LEMMA FaultsKeep ==
    ASSUME EventsInv, EventFails \/ Crash \/ Restart
    PROVE  NotTouched' /\ EventsKept'
<1>1. UNCHANGED <<webhook, touched>>
  BY DEF EventFails, Crash, Restart
<1>2. crashes' # 0 \/ failures' # 0
  BY DEF EventFails, Crash, Restart, EventsInv, DispatchesInv, TypeOK, Down
<1> QED BY <1>1, <1>2 DEF EventsInv, EventsKept, NotTouched

LEMMA EventsNextHolds ==
    ASSUME WebhooksAssumption, EventsInv, [Next]_vars
    PROVE  EventsInv'
<1>1. DispatchesInv'
  BY WebhooksNextHolds DEF EventsInv
<1>2. CASE UNCHANGED vars
  BY <1>1, <1>2 DEF vars, EventsInv, NotTouched, EventsKept, Listed, AllKept, EventKept
<1>3. CASE \E next \in Terminal \cup {"live"} : RunWritten(next)
  BY <1>1, <1>3, RunWrittenKeeps DEF EventsInv
<1>4. CASE EventStep
  <2>1. CASE ListWebhooks \/ EventDone
    BY <1>1, <2>1, ListWebhooksKeeps, EventDoneKeeps DEF EventsInv
  <2>2. ASSUME NEW w \in Webhooks, DeleteObsolete(w) PROVE NotTouched' /\ EventsKept'
    <3>1. making'.step = making.step /\ making'.matching = making.matching
      BY <2>2 DEF DeleteObsolete, EventsInv, DispatchesInv, TypeOK, Making
    <3> QED BY <2>2, <3>1, WebhookChangeKeeps DEF DeleteObsolete, dispatching
  <2>3. ASSUME NEW w \in Webhooks, CreateDispatch(w) PROVE NotTouched' /\ EventsKept'
    BY <2>3, CreateDispatchKeeps
  <2> QED BY <1>1, <1>4, <2>1, <2>2, <2>3 DEF EventStep, EventsInv
<1>5. CASE \E w \in Webhooks :
           CreateTestDispatch(w) \/ \E next \in {"enabled", "disabled", "deleted"} : WebhookWritten(w, next)
  <2>1. ASSUME NEW w \in Webhooks, NEW next, WebhookWritten(w, next) PROVE NotTouched' /\ EventsKept'
    BY <2>1, WebhookChangeKeeps DEF WebhookWritten, dispatching
  <2> QED BY <1>1, <1>5, <2>1, CreateTestDispatchKeeps DEF EventsInv
<1>6. CASE \E d \in Ids : AttemptStep(d) \/ AttemptFails(d)
  BY <1>1, <1>6, AttemptStepKeeps DEF EventsInv
<1>7. CASE EventFails \/ Crash \/ Restart
  BY <1>1, <1>7, FaultsKeep DEF EventsInv
<1> QED BY <1>2, <1>3, <1>4, <1>5, <1>6, <1>7 DEF Next

LEMMA EventsInitHolds == WebhooksAssumption /\ Init => EventsInv
<1> SUFFICES ASSUME WebhooksAssumption, Init PROVE EventsInv
  OBVIOUS
<1>1. DispatchesInv
  BY WebhooksInitHolds
<1>2. NotTouched /\ Listed
  BY DEF Init, NotTouched, Listed, NotMaking
<1>3. AllKept
  BY DEF Init, AllKept
<1> QED BY <1>1, <1>2, <1>3 DEF EventsInv, EventsKept

\* Dispatches are made of the first event of the queue only.
LEMMA NoneOfAnEarlierEvent ==
    ASSUME WebhooksAssumption, DispatchesInv, [Next]_vars,
           NEW w \in Webhooks, NEW n \in 1 .. MaxEvents, NEW m \in 1 .. MaxEvents,
           n < m, dispatch[<<w, m>>].status # "none", dispatch[<<w, n>>].status = "none"
    PROVE  dispatch'[<<w, n>>].status = "none"
<1>1. <<w, n>> \in Ids /\ dispatch \in [Ids -> [status : Statuses, calls : Nat]] /\ MaxEvents \in Nat
  BY EventNumbers DEF DispatchesInv, TypeOK
<1>2. ASSUME NEW v \in Webhooks, CreateDispatch(v) PROVE dispatch'[<<w, n>>].status = "none"
  <2>1. making.step = "delete" /\ v \in making.matching /\ queue # <<>>
    BY <1>2 DEF CreateDispatch, DispatchesInv, InOrder
  <2>2. Head(queue) = queue[1] /\ queue[1] \in 1 .. MaxEvents
    BY <2>1, HeadOfQueue
  <2>3. m < queue[1] \/ (m = queue[1] /\ w \notin making.matching)
    BY <2>1 DEF DispatchesInv, NotMadeYet
  <2>4. n # queue[1]
    BY <2>2, <2>3
  <2>5. dispatch' = [dispatch EXCEPT ![<<v, queue[1]>>] = [status |-> "ACTIVE", calls |-> 0]]
    BY <1>2, <2>2 DEF CreateDispatch, InsertDispatch
  <2> QED BY <1>1, <2>4, <2>5
<1>3. ASSUME NEW v \in Webhooks, CreateTestDispatch(v) PROVE dispatch'[<<w, n>>].status = "none"
  <2>1. dispatch' = [dispatch EXCEPT ![<<v, 0>>] = [status |-> "ACTIVE", calls |-> 0]]
    BY <1>3 DEF CreateTestDispatch, InsertDispatch
  <2>2. <<v, 0>> # <<w, n>>
    BY <1>1
  <2> QED BY <1>1, <2>1, <2>2
<1>4. ASSUME NEW d \in Ids, FinishAttempt(d) PROVE dispatch'[<<w, n>>].status = "none"
  <2>1. dispatch[d].status = "ACTIVE"
    BY <1>4 DEF FinishAttempt, DispatchesInv, Pending
  <2> QED BY <1>1, <1>4, <2>1 DEF FinishAttempt
<1>5. ASSUME NEW d \in Ids, AttemptStep(d) \/ AttemptFails(d) PROVE dispatch'[<<w, n>>].status = "none"
  BY <1>4, <1>5 DEF AttemptStep, TimerFires, AttemptDispatch, AttemptOver, Deliver, AttemptFails
<1>6. CASE UNCHANGED dispatch
  BY <1>6
<1>7. CASE EventStep \/ EventFails \/ Crash \/ Restart \/ \E next \in Terminal \cup {"live"} : RunWritten(next)
  BY <1>2, <1>6, <1>7 DEF EventStep, ListWebhooks, EventDone, DeleteObsolete, EventFails, Crash, Restart,
                          RunWritten, dispatching
<1>8. CASE \E v \in Webhooks :
           CreateTestDispatch(v) \/ \E next \in {"enabled", "disabled", "deleted"} : WebhookWritten(v, next)
  BY <1>3, <1>6, <1>8 DEF WebhookWritten, dispatching
<1> QED BY <1>5, <1>6, <1>7, <1>8 DEF Next, vars

\* No event is forgotten: one that a webhook, enabled all the time, subscribes to waits in the
\* queue or has its dispatch, unless a crash or a failing storage access lost it; and dispatches
\* are made in the order of the events (enqueueEvent, createDispatches).
THEOREM EventsAreNotMissed == Spec => NoEventMissed
<1>1. Spec => []EventsInv
  BY WebhooksAssumption, EventsInitHolds, EventsNextHolds, PTL DEF Spec
<1>2. ASSUME EventsInv, crashes = 0, failures = 0, NEW n \in DOMAIN events, NEW w \in Webhooks \ touched,
             events[n] \in Subscribed[w]
      PROVE  dispatch[w, n].status # "none" \/ \E i \in DOMAIN queue : queue[i] = n
  <2>1. DOMAIN events = 1 .. Len(events) /\ DOMAIN queue = 1 .. Len(queue)
    BY <1>2, WebhooksAssumption, EventNumbers, LenProperties DEF EventsInv
  <2> QED BY <1>2, <2>1 DEF EventsInv, EventsKept, AllKept, EventKept
<1>3. EventsInv => (crashes = 0 /\ failures = 0 =>
           \A n \in DOMAIN events, w \in Webhooks \ touched :
               events[n] \in Subscribed[w] => \/ dispatch[w, n].status # "none"
                                              \/ \E i \in DOMAIN queue : queue[i] = n)
  BY <1>2
<1>4. EventsInv /\ [Next]_vars =>
          [\A w \in Webhooks, n, m \in 1 .. MaxEvents :
             n < m /\ dispatch[w, m].status # "none" /\ dispatch[w, n].status = "none"
                 => dispatch'[w, n].status = "none"]_vars
  BY WebhooksAssumption, NoneOfAnEarlierEvent DEF EventsInv
<1> QED BY <1>1, <1>3, <1>4, PTL DEF Spec, NoEventMissed

=============================================================================
