---------------------------- MODULE Services_proofs ----------------------------
(***************************************************************************)
(* Proofs about the services of MCServices, for any number of calls, keys, *)
(* tokens, requests, runs, failing calls and crashes: a key is charged     *)
(* once and a cap that is reached is reported (Charging), a token is one   *)
(* user (Users), nothing that the runtime creates on the side stays behind *)
(* (DevFolderProbe, BrowserViewer), and a probe of a folder says of every  *)
(* host and path what is there, on either engine and through any links     *)
(* (DevFolderProbe).                                                       *)
(***************************************************************************)
EXTENDS MCServices, SequenceTheorems, FiniteSetTheorems, WellFoundedInduction, TLAPS

-----------------------------------------------------------------------------
(* Users: the memo of a token is written once.                             *)

\* Every answer was what the memo says.
AnswersAreMemo ==
    \A x \in answered : x[1] \in DOMAIN userByToken /\ userByToken[x[1]] = x[2]

\* A token is only resolved while the memo does not have it, so that no entry is overwritten:
\* this is what the second look at the memo under the lock is for.
ResolvedOnce == \A t \in Tokens : resolving[t] # Idle => t \notin DOMAIN userByToken

UsersInv ==
    /\ DOMAIN resolving = Tokens /\ resolving = [t \in Tokens |-> resolving[t]]
    /\ AnswersAreMemo /\ ResolvedOnce

LEMMA UsersInitHolds == UsersInit => UsersInv
BY DEF UsersInit, UsersInv, AnswersAreMemo, ResolvedOnce

\* A request that resolves its token adds it to the memo, and is the one that does.
LEMMA MemoGrows ==
    ASSUME UsersInv, NEW t \in Tokens, resolving[t] # Idle, NEW id,
           userByToken' = [u \in DOMAIN userByToken \cup {t} |-> IF u = t THEN id ELSE userByToken[u]],
           Answer(t, id), resolving' = [resolving EXCEPT ![t] = Idle]
    PROVE  UsersInv'
<1>1. t \notin DOMAIN userByToken
  BY DEF UsersInv, ResolvedOnce
<1>2. AnswersAreMemo'
  BY <1>1 DEF UsersInv, AnswersAreMemo, Answer
<1>3. ResolvedOnce'
  BY DEF UsersInv, ResolvedOnce
<1> QED BY <1>2, <1>3 DEF UsersInv

\* The holder of the lock goes on to its next step.
LEMMA ResolvingGoesOn ==
    ASSUME UsersInv, NEW t \in Tokens, resolving[t] # Idle, NEW next,
           resolving' = [resolving EXCEPT ![t] = next], UNCHANGED <<userByToken, answered>>
    PROVE  UsersInv'
BY DEF UsersInv, AnswersAreMemo, ResolvedOnce

\* The steps that leave the memo alone.
LEMMA MemoStays ==
    ASSUME UsersInv, NEW t \in Tokens,
           Request(t) \/ Locked(t) \/ Probed(t) \/ AccountRead(t) \/ Numbered(t) \/ Seeded(t)
    PROVE  UsersInv'
<1>1. CASE Request(t)
  BY <1>1 DEF Request, Answer, UsersInv, AnswersAreMemo, ResolvedOnce
<1>2. CASE Locked(t)
  BY <1>2 DEF Locked, Answer, UsersInv, AnswersAreMemo, ResolvedOnce
<1>3. CASE Probed(t)
  BY <1>3, ResolvingGoesOn DEF Probed, Idle
<1>4. CASE AccountRead(t)
  <2>1. resolving[t] # Idle
    BY <1>4 DEF AccountRead, Idle
  <2> QED BY <1>4, <2>1, ResolvingGoesOn DEF AccountRead
<1>5. CASE Numbered(t)
  <2>1. resolving[t] # Idle
    BY <1>5 DEF Numbered, Idle
  <2> QED BY <1>5, <2>1, ResolvingGoesOn DEF Numbered
<1>6. CASE Seeded(t)
  <2>1. resolving[t] # Idle
    BY <1>6 DEF Seeded, Idle
  <2> QED BY <1>6, <2>1, ResolvingGoesOn DEF Seeded
<1> QED BY <1>1, <1>2, <1>3, <1>4, <1>5, <1>6

LEMMA LookedHolds == ASSUME UsersInv, NEW t \in Tokens, Looked(t) PROVE UsersInv'
<1>1. resolving[t] # Idle
  BY DEF Looked, Idle
<1>2. CASE resolving' = [resolving EXCEPT ![t] = [at |-> "probe"]] /\ UNCHANGED <<userByToken, answered>>
  BY <1>1, <1>2, ResolvingGoesOn
<1>3. ASSUME NEW i \in DOMAIN users,
             userByToken' = [u \in DOMAIN userByToken \cup {t} |-> IF u = t THEN i ELSE userByToken[u]],
             Answer(t, i), resolving' = [resolving EXCEPT ![t] = Idle]
      PROVE  UsersInv'
  BY <1>1, <1>3, MemoGrows
<1> QED BY <1>2, <1>3 DEF Looked

LEMMA UserWrittenHolds == ASSUME UsersInv, NEW t \in Tokens, UserWritten(t) PROVE UsersInv'
<1>1. resolving[t] # Idle
  BY DEF UserWritten, Idle
<1> QED BY <1>1, MemoGrows DEF UserWritten

LEMMA UsersNextHolds == UsersInv /\ [UsersNext]_userVars => UsersInv'
<1> SUFFICES ASSUME UsersInv, [UsersNext]_userVars PROVE UsersInv'
  OBVIOUS
<1>1. CASE UsersCrash
  BY <1>1 DEF UsersCrash, UsersInv, AnswersAreMemo, ResolvedOnce
<1>2. CASE UNCHANGED userVars
  BY <1>2 DEF userVars, UsersInv, AnswersAreMemo, ResolvedOnce
<1> QED BY <1>1, <1>2, MemoStays, LookedHolds, UserWrittenHolds DEF UsersNext

\* However many requests bring a token at once, and whatever requests for other tokens and
\* probes of the platform do meanwhile, all are answered with one user until the process ends
\* (services/users.ts, getOrCreateUserForToken).
THEOREM OneUserPerToken == UsersSpec => []SameUserInProcess
<1>1. UsersInv => SameUserInProcess
  BY DEF UsersInv, AnswersAreMemo, SameUserInProcess
<1> QED BY UsersInitHolds, UsersNextHolds, <1>1, PTL DEF UsersSpec

-----------------------------------------------------------------------------
(* Charging: a key is held from its reservation to the write of its count. *)

\* A charge call of the endpoint, as it was when it took its key.
IsCharge(x) == x.event = "custom"
Expiry(x) == x.since + Ttl

ChargingTypeOK ==
    /\ now \in Nat /\ starts \in Nat
    /\ reserved \in [Keys -> Int]
    /\ call = [c \in Calls |-> call[c]] /\ \A c \in Calls : "at" \in DOMAIN call[c]
    /\ DOMAIN run = {"status", "cap", "counts", "stopped", "message", "fromRuntime"}

\* The call that is about to count holds its key, and its write is not late.
HoldsKey(c) ==
    call[c].at = "count" /\ IsCharge(call[c]) =>
        /\ call[c].key \in Keys /\ call[c].since \in Nat
        /\ call[c].since <= now /\ now < Expiry(call[c])
        /\ reserved[call[c].key] = Expiry(call[c])

\* No two calls are about to count under one key.
OneHolder ==
    \A c, d \in Calls :
        call[c].at = "count" /\ call[d].at = "count" /\ IsCharge(call[c]) /\ IsCharge(call[d])
            /\ call[c].key = call[d].key => c = d

\* What was counted under a key is over, or the key is still reserved; and whoever holds the
\* key now took it when that was over.
CountedIsPast ==
    \A x \in counted : IsCharge(x[2]) =>
        /\ x[2].key \in Keys /\ x[2].since \in Nat
        /\ Expiry(x[2]) <= now \/ Expiry(x[2]) <= reserved[x[2].key]
        /\ \A c \in Calls : call[c].at = "count" /\ IsCharge(call[c]) /\ call[c].key = x[2].key
               => Expiry(x[2]) <= call[c].since

KeysInv ==
    /\ ChargingTypeOK /\ (\A c \in Calls : HoldsKey(c)) /\ OneHolder /\ CountedIsPast
    /\ ChargedOncePerKey

LEMMA ChargingInitHolds == ChargingInit => KeysInv
BY DEF ChargingInit, KeysInv, ChargingTypeOK, HoldsKey, OneHolder, CountedIsPast, ChargedOncePerKey,
       Free, FreshCounts

\* A call that goes on to where it does not count, and what else leaves the keys alone.
LEMMA KeysStay ==
    ASSUME KeysInv, NEW c \in Calls, NEW r, "at" \in DOMAIN r, r.at # "count",
           call' = [call EXCEPT ![c] = r] \/ UNCHANGED call,
           UNCHANGED <<reserved, now, counted>>, ChargingTypeOK'
    PROVE  KeysInv'
<1> USE DEF KeysInv, ChargingTypeOK
<1>1. \A d \in Calls : call'[d].at = "count" => call'[d] = call[d]
  OBVIOUS
<1>2. (\A d \in Calls : HoldsKey(d))'
  BY <1>1 DEF HoldsKey, IsCharge, Expiry
<1>3. OneHolder'
  BY <1>1 DEF OneHolder, IsCharge
<1>4. CountedIsPast'
  BY <1>1 DEF CountedIsPast, IsCharge, Expiry
<1>5. ChargedOncePerKey'
  BY DEF ChargedOncePerKey
<1> QED BY <1>2, <1>3, <1>4, <1>5

\* A key that is taken again was free: what was counted under it is over.
LEMMA ChargeHolds ==
    ASSUME ChargingAssumption, KeysInv, NEW c \in Calls, NEW k \in Keys, Charge(c, k)
    PROVE  KeysInv'
<1> USE DEF KeysInv, ChargingTypeOK
<1> DEFINE taken == Pruned[k] = Free
<1>1. Ttl \in Nat \ {0}
  BY DEF ChargingAssumption
<1>2. /\ UNCHANGED <<run, registered, now, starts, faults, counted, charged>>
      /\ call[c].at = "idle"
  BY DEF Charge
<1>3. \A j \in Keys : reserved'[j] = IF taken /\ j = k THEN now + Ttl
                                     ELSE IF reserved[j] <= now THEN Free ELSE reserved[j]
  BY DEF Charge, Pruned
<1>4. reserved' \in [Keys -> Int]
  BY <1>1 DEF Charge, Pruned, Free
<1>5. /\ \A d \in Calls \ {c} : call'[d] = call[d]
      /\ call'[c] = IF taken THEN [at |-> "count", event |-> "custom", key |-> k, since |-> now]
                    ELSE [at |-> "replayed"]
      /\ call' = [d \in Calls |-> call'[d]]
  BY DEF Charge
<1>6. ChargingTypeOK'
  BY <1>2, <1>4, <1>5
<1>7. taken => reserved[k] <= now
  BY DEF Pruned, Free
<1>8. (\A d \in Calls : HoldsKey(d))'
  BY <1>1, <1>2, <1>3, <1>5, <1>7 DEF HoldsKey, IsCharge, Expiry
<1>9. OneHolder'
  BY <1>1, <1>2, <1>5, <1>7 DEF HoldsKey, OneHolder, IsCharge, Expiry
<1>10. CountedIsPast'
  <2> SUFFICES ASSUME NEW x \in counted, IsCharge(x[2])
               PROVE  /\ x[2].key \in Keys /\ x[2].since \in Nat
                      /\ Expiry(x[2]) <= now \/ Expiry(x[2]) <= reserved'[x[2].key]
                      /\ \A d \in Calls : call'[d].at = "count" /\ IsCharge(call'[d]) /\ call'[d].key = x[2].key
                             => Expiry(x[2]) <= call'[d].since
    BY <1>2 DEF CountedIsPast, Expiry, IsCharge
  <2>1. /\ x[2].key \in Keys /\ x[2].since \in Nat
        /\ Expiry(x[2]) <= now \/ Expiry(x[2]) <= reserved[x[2].key]
    BY DEF CountedIsPast
  <2>2. Expiry(x[2]) <= now \/ Expiry(x[2]) <= reserved'[x[2].key]
    BY <1>1, <1>3, <1>7, <2>1 DEF Expiry
  <2>3. \A d \in Calls : call'[d].at = "count" /\ IsCharge(call'[d]) /\ call'[d].key = x[2].key
            => Expiry(x[2]) <= call'[d].since
    BY <1>1, <1>5, <1>7, <2>1 DEF CountedIsPast, Expiry, IsCharge
  <2> QED BY <2>1, <2>2, <2>3
<1>11. ChargedOncePerKey'
  BY <1>2 DEF ChargedOncePerKey
<1> QED BY <1>6, <1>8, <1>9, <1>10, <1>11

\* A count is added to the history: its call held the key since what was counted before was over.
LEMMA IncrementHolds ==
    ASSUME ChargingAssumption, KeysInv, NEW c \in Calls, Increment(c)
    PROVE  KeysInv'
<1> USE DEF KeysInv, ChargingTypeOK
<1> DEFINE y == <<c, call[c]>>
<1>1. Ttl \in Nat \ {0}
  BY DEF ChargingAssumption
<1>2. /\ call[c].at = "count" /\ counted' = counted \cup {y}
      /\ UNCHANGED <<now, starts, reserved>>
      /\ DOMAIN run' = {"status", "cap", "counts", "stopped", "message", "fromRuntime"}
  BY DEF Increment
<1>3. PICK place : place # "count" /\ call' = [call EXCEPT ![c].at = place]
  BY DEF Increment, Goto
<1>4. \A d \in Calls : call'[d].at = "count" => call'[d] = call[d] /\ d # c
  BY <1>3
<1>5. ChargingTypeOK'
  BY <1>2, <1>3
<1>6. (\A d \in Calls : HoldsKey(d))'
  BY <1>2, <1>4 DEF HoldsKey, IsCharge, Expiry
<1>7. OneHolder'
  BY <1>4 DEF OneHolder, IsCharge
<1>8. CountedIsPast'
  <2>1. ASSUME NEW x \in counted, IsCharge(x[2])
        PROVE  /\ x[2].key \in Keys /\ x[2].since \in Nat
               /\ Expiry(x[2]) <= now \/ Expiry(x[2]) <= reserved[x[2].key]
               /\ \A d \in Calls : call'[d].at = "count" /\ IsCharge(call'[d]) /\ call'[d].key = x[2].key
                      => Expiry(x[2]) <= call'[d].since
    BY <1>4, <2>1 DEF CountedIsPast
  <2>2. ASSUME IsCharge(call[c])
        PROVE  /\ call[c].key \in Keys /\ call[c].since \in Nat
               /\ Expiry(call[c]) <= reserved[call[c].key]
               /\ \A d \in Calls : call'[d].at = "count" /\ IsCharge(call'[d]) => call'[d].key # call[c].key
    BY <1>1, <1>2, <1>4, <2>2 DEF HoldsKey, OneHolder, Expiry
  <2> QED BY <1>2, <2>1, <2>2 DEF CountedIsPast, Expiry, IsCharge
<1>9. ChargedOncePerKey'
  <2> SUFFICES ASSUME NEW x \in counted', NEW z \in counted', x[1] # z[1],
                      IsCharge(x[2]), IsCharge(z[2]), x[2].key = z[2].key
               PROVE  x[2].since - z[2].since >= Ttl \/ z[2].since - x[2].since >= Ttl
    BY DEF ChargedOncePerKey, IsCharge
  <2>1. CASE x \in counted /\ z \in counted
    BY <2>1 DEF ChargedOncePerKey, IsCharge
  <2>2. ASSUME NEW w \in counted, IsCharge(w[2]), IsCharge(call[c]), w[2].key = call[c].key
        PROVE  call[c].since - w[2].since >= Ttl
    <3>1. w[2].since \in Nat /\ call[c].since \in Nat /\ w[2].since + Ttl <= call[c].since
      BY <1>2, <2>2 DEF CountedIsPast, HoldsKey, Expiry
    <3> QED BY <1>1, <3>1
  <2>3. CASE x \in counted /\ z = y
    BY <2>2, <2>3
  <2>4. CASE z \in counted /\ x = y
    BY <2>2, <2>4
  <2> QED BY <1>2, <2>1, <2>3, <2>4
<1> QED BY <1>5, <1>6, <1>7, <1>8, <1>9

\* A key that is freed had one holder, and what was counted under it before is over.
LEMMA IncrementFailsHolds ==
    ASSUME ChargingAssumption, KeysInv, NEW c \in Calls, IncrementFails(c)
    PROVE  KeysInv'
<1> USE DEF KeysInv, ChargingTypeOK
<1>1. Ttl \in Nat \ {0}
  BY DEF ChargingAssumption
<1>2. /\ call[c].at = "count" /\ UNCHANGED <<run, now, starts, counted>>
      /\ call' = [call EXCEPT ![c].at = "failed"]
  BY DEF IncrementFails, Goto
<1>3. \A d \in Calls : call'[d].at = "count" => call'[d] = call[d] /\ d # c
  BY <1>2
<1>4. CASE IsCharge(call[c])
  <2>1. /\ call[c].key \in Keys /\ call[c].since \in Nat /\ call[c].since <= now
        /\ reserved' = [reserved EXCEPT ![call[c].key] = Free]
    BY <1>2, <1>4 DEF HoldsKey, IncrementFails, IsCharge
  <2>2. ChargingTypeOK'
    BY <1>2, <2>1 DEF Free
  <2>3. \A d \in Calls : call'[d].at = "count" /\ IsCharge(call'[d]) => call'[d].key # call[c].key
    BY <1>2, <1>3, <1>4 DEF OneHolder
  <2>4. (\A d \in Calls : HoldsKey(d))'
    BY <1>2, <1>3, <2>1, <2>3 DEF HoldsKey, IsCharge, Expiry
  <2>5. OneHolder'
    BY <1>3 DEF OneHolder, IsCharge
  <2>6. CountedIsPast'
    <3>1. ASSUME NEW x \in counted, IsCharge(x[2]), x[2].key = call[c].key
          PROVE  Expiry(x[2]) <= now
      <4>1. x[2].since \in Nat /\ Expiry(x[2]) <= call[c].since
        BY <1>2, <1>4, <3>1 DEF CountedIsPast
      <4> QED BY <1>1, <2>1, <4>1 DEF Expiry
    <3> QED BY <1>2, <1>3, <2>1, <3>1 DEF CountedIsPast, IsCharge, Expiry
  <2>7. ChargedOncePerKey'
    BY <1>2 DEF ChargedOncePerKey
  <2> QED BY <2>2, <2>4, <2>5, <2>6, <2>7
<1>5. CASE ~IsCharge(call[c])
  <2>1. reserved' = reserved
    BY <1>5 DEF IncrementFails, IsCharge
  <2>2. ChargingTypeOK'
    BY <1>2, <2>1
  <2> DEFINE r == [call[c] EXCEPT !.at = "failed"]
  <2>3. "at" \in DOMAIN r /\ r.at # "count" /\ call' = [call EXCEPT ![c] = r]
    BY <1>2
  <2> QED BY <1>2, <2>1, <2>2, <2>3, KeysStay
<1> QED BY <1>4, <1>5

LEMMA CallStepHolds ==
    ASSUME ChargingAssumption, KeysInv, NEW c \in Calls, CallStep(c)
    PROVE  KeysInv'
<1>1. CASE Push(c)
  <2> USE DEF KeysInv, ChargingTypeOK
  <2>1. ASSUME registered PROVE KeysInv'
    <3>1. /\ call'[c] = [at |-> "count", event |-> "item", since |-> now]
          /\ \A d \in Calls \ {c} : call'[d] = call[d]
          /\ call' = [d \in Calls |-> call'[d]] /\ UNCHANGED <<run, reserved, now, starts, counted>>
      BY <1>1, <2>1 DEF Push
    <3>2. \A d \in Calls : call'[d].at = "count" /\ IsCharge(call'[d]) => call'[d] = call[d]
      BY <3>1 DEF IsCharge
    <3>3. ChargingTypeOK'
      BY <3>1
    <3>4. (\A d \in Calls : HoldsKey(d))' /\ OneHolder'
      BY <3>1, <3>2 DEF HoldsKey, OneHolder, IsCharge, Expiry
    <3>5. CountedIsPast'
      BY <3>1, <3>2 DEF CountedIsPast, IsCharge, Expiry
    <3> QED BY <3>1, <3>3, <3>4, <3>5 DEF ChargedOncePerKey
  <2>2. CASE ~registered
    BY <1>1, <2>2, KeysStay DEF Push
  <2> QED BY <2>1, <2>2
<1>2. CASE Stamp(c) \/ EnforceFails(c) \/ Abort(c)
  <2>1. PICK place : place # "count" /\ call' = [call EXCEPT ![c].at = place]
    BY <1>2 DEF Stamp, EnforceFails, Abort, Goto
  <2> DEFINE r == [call[c] EXCEPT !.at = place]
  <2>2. "at" \in DOMAIN r /\ r.at # "count" /\ call' = [call EXCEPT ![c] = r]
    BY <2>1 DEF KeysInv, ChargingTypeOK
  <2>3. ChargingTypeOK'
    BY <1>2, <2>2 DEF KeysInv, ChargingTypeOK, Stamp, EnforceFails, Abort
  <2> QED BY <1>2, <2>2, <2>3, KeysStay DEF Stamp, EnforceFails, Abort
<1> QED BY <1>1, <1>2, ChargeHolds, IncrementHolds, IncrementFailsHolds DEF CallStep

LEMMA ChargingNextHolds ==
    ASSUME ChargingAssumption, KeysInv, [ChargingNext]_chargingVars
    PROVE  KeysInv'
<1>1. CASE RunStep
  <2>1. ChargingTypeOK' /\ UNCHANGED <<call, reserved, now, counted>>
    BY <1>1 DEF RunStep, BecomesRunning, Ends, Unregister, Resurrect, setRunStatusMessage, Runner,
                KeysInv, ChargingTypeOK
  <2> QED BY <2>1 DEF KeysInv, HoldsKey, OneHolder, CountedIsPast, ChargedOncePerKey, IsCharge, Expiry
<1>2. CASE Tick
  <2>1. /\ now \in Nat /\ now' = now + 1
        /\ UNCHANGED <<run, registered, reserved, call, starts, faults, crashes, counted, charged>>
        /\ \A c \in Calls : call[c].at = "count" => now' < Expiry(call[c])
    BY <1>2 DEF Tick, KeysInv, ChargingTypeOK, Expiry
  <2>2. ChargingTypeOK' /\ OneHolder' /\ ChargedOncePerKey'
    BY <2>1 DEF KeysInv, ChargingTypeOK, OneHolder, ChargedOncePerKey, IsCharge
  <2>3. (\A c \in Calls : HoldsKey(c))'
    BY <2>1 DEF KeysInv, HoldsKey, IsCharge, Expiry
  <2>4. CountedIsPast'
    <3>1. Ttl \in Nat
      BY DEF ChargingAssumption
    <3> QED BY <2>1, <3>1 DEF KeysInv, CountedIsPast, IsCharge, Expiry
  <2> QED BY <2>2, <2>3, <2>4 DEF KeysInv
<1>3. CASE UNCHANGED chargingVars
  BY <1>3 DEF chargingVars, KeysInv, ChargingTypeOK, HoldsKey, OneHolder, CountedIsPast, ChargedOncePerKey,
              IsCharge, Expiry
<1>4. CASE CrashAndReconcile
  <2>1. /\ ChargingTypeOK' /\ counted' = {} /\ \A c \in Calls : call'[c].at = "idle"
    BY <1>4 DEF CrashAndReconcile, KeysInv, ChargingTypeOK, Free
  <2> QED BY <2>1 DEF KeysInv, HoldsKey, OneHolder, CountedIsPast, ChargedOncePerKey
<1> QED BY <1>1, <1>2, <1>3, <1>4, CallStepHolds DEF ChargingNext

\* Calls of the charge endpoint that carry one idempotency key are counted once within its
\* window, however they overlap and whichever writes fail (services/charging.ts, chargeEvent).
THEOREM RetriesChargedOnce == ChargingSpec => []ChargedOncePerKey
<1>1. KeysInv => ChargedOncePerKey
  BY DEF KeysInv
<1> QED BY ChargingAssumption, ChargingInitHolds, ChargingNextHolds, <1>1, PTL DEF ChargingSpec

\* A run charged to its cap is stamped, or the call that took it there is about to stamp it.
SomeoneStamps == charged /\ Reached(run) => \E c \in Calls : call[c].at = "stamp"

\* What the cap says is marked as said by the runtime.
RuntimesReason == run.message = "cap" => run.fromRuntime

CapInv == ChargingTypeOK /\ SomeoneStamps /\ RuntimesReason

LEMMA CapInitHolds == ChargingInit => CapInv
BY DEF ChargingInit, CapInv, ChargingTypeOK, SomeoneStamps, RuntimesReason, Free, FreshCounts

\* Whatever leaves the cap, the counts and the stamp as they are.
LEMMA ReachedStays ==
    ASSUME run'.cap = run.cap, run'.stopped = run.stopped, run'.counts = run.counts
    PROVE  Reached(run)' = Reached(run)
BY DEF Reached, Total

LEMMA CapCallHolds ==
    ASSUME ChargingAssumption, CapInv, NEW c \in Calls, CallStep(c)
    PROVE  CapInv'
<1> USE DEF CapInv, ChargingTypeOK
<1>0. RuntimesReason'
  BY DEF RuntimesReason, CallStep, Charge, Push, Increment, IncrementFails, Stamp, EnforceFails, Abort
<1>1. CASE (\E k \in Keys : Charge(c, k)) \/ Push(c) \/ IncrementFails(c)
  <2>1. UNCHANGED <<run, now, starts, charged>> /\ call[c].at # "stamp"
    BY <1>1 DEF Charge, Push, IncrementFails
  <2>2. \E r : call' = [call EXCEPT ![c] = r] /\ "at" \in DOMAIN r
    <3>1. CASE (\E k \in Keys : Charge(c, k)) \/ Push(c)
      BY <3>1 DEF Charge, Push
    <3>2. CASE IncrementFails(c)
      <4> DEFINE r == [call[c] EXCEPT !.at = "failed"]
      <4>1. call' = [call EXCEPT ![c] = r] /\ "at" \in DOMAIN r
        BY <3>2 DEF IncrementFails, Goto
      <4> QED BY <4>1
    <3> QED BY <1>1, <3>1, <3>2
  <2>3. \A d \in Calls : call[d].at = "stamp" => call'[d].at = "stamp"
    BY <2>1, <2>2
  <2>4. reserved' \in [Keys -> Int]
    <3>1. Ttl \in Nat \ {0}
      BY DEF ChargingAssumption
    <3>2. ASSUME NEW k \in Keys, Charge(c, k) PROVE reserved' \in [Keys -> Int]
      BY <3>1, <3>2 DEF Charge, Pruned, Free
    <3>3. CASE Push(c) \/ IncrementFails(c)
      BY <3>3 DEF Push, IncrementFails, Free
    <3> QED BY <1>1, <3>2, <3>3
  <2>5. SomeoneStamps'
    BY <2>1, <2>3, ReachedStays DEF SomeoneStamps
  <2> QED BY <1>0, <2>1, <2>2, <2>4, <2>5
<1>2. CASE Increment(c)
  <2>1. PICK r : /\ DOMAIN r = DOMAIN run /\ run' = r
                 /\ Goto(c, IF Reached(r) THEN "stamp" ELSE "done")
                 /\ UNCHANGED <<now, starts, reserved>>
    BY <1>2 DEF Increment
  <2>2. ChargingTypeOK' /\ (Reached(r) => call'[c].at = "stamp")
    BY <2>1 DEF Goto
  <2>3. SomeoneStamps'
    BY <2>1, <2>2 DEF SomeoneStamps, Reached, Total
  <2> QED BY <1>0, <2>2, <2>3
<1>3. CASE Stamp(c)
  <2>1. ChargingTypeOK' /\ run'.stopped
    BY <1>3 DEF Stamp, Goto
  <2> QED BY <1>0, <2>1 DEF SomeoneStamps, Reached
<1>4. CASE Abort(c)
  <2>1. /\ ChargingTypeOK' /\ UNCHANGED charged
        /\ run'.cap = run.cap /\ run'.stopped = run.stopped /\ run'.counts = run.counts
    BY <1>4 DEF Abort, Goto
  <2>2. \A d \in Calls : call[d].at = "stamp" => call'[d].at = "stamp"
    BY <1>4 DEF Abort, Goto
  <2> QED BY <1>0, <2>1, <2>2, ReachedStays DEF SomeoneStamps
<1>5. CASE EnforceFails(c)
  <2>1. ChargingTypeOK' /\ UNCHANGED run
    BY <1>5 DEF EnforceFails, Goto
  <2>2. \A d \in Calls : d # c => call'[d] = call[d]
    BY <1>5 DEF EnforceFails, Goto
  <2>3. charged' => charged /\ (call[c].at = "abort" \/ \E d \in Calls \ {c} : call[d].at = "stamp")
    BY <1>5 DEF EnforceFails
  <2>4. (charged /\ Reached(run))' => \E d \in Calls \ {c} : call[d].at = "stamp"
    BY <2>1, <2>3, ReachedStays DEF SomeoneStamps
  <2> QED BY <1>0, <2>1, <2>2, <2>4 DEF SomeoneStamps
<1> QED BY <1>1, <1>2, <1>3, <1>4, <1>5 DEF CallStep

LEMMA CapNextHolds ==
    ASSUME ChargingAssumption, CapInv, [ChargingNext]_chargingVars
    PROVE  CapInv'
<1>1. CASE Resurrect
  BY <1>1 DEF Resurrect, Runner, CapInv, ChargingTypeOK, SomeoneStamps, RuntimesReason
<1>2. CASE BecomesRunning \/ Ends \/ Unregister \/ setRunStatusMessage
  <2>1. /\ ChargingTypeOK' /\ UNCHANGED <<call, charged>>
        /\ run'.cap = run.cap /\ run'.stopped = run.stopped /\ run'.counts = run.counts
        /\ RuntimesReason'
    BY <1>2 DEF BecomesRunning, Ends, Unregister, setRunStatusMessage, Runner, CapInv, ChargingTypeOK,
                RuntimesReason
  <2> QED BY <2>1, ReachedStays DEF CapInv, SomeoneStamps
<1>3. CASE Tick \/ UNCHANGED chargingVars
  <2>1. ChargingTypeOK' /\ UNCHANGED <<run, call, charged>>
    BY <1>3 DEF Tick, chargingVars, CapInv, ChargingTypeOK
  <2> QED BY <2>1, ReachedStays DEF CapInv, SomeoneStamps, RuntimesReason
<1>4. CASE CrashAndReconcile
  BY <1>4 DEF CrashAndReconcile, CapInv, ChargingTypeOK, SomeoneStamps, RuntimesReason, Free
<1> QED BY <1>1, <1>2, <1>3, <1>4, CapCallHolds DEF ChargingNext, RunStep

\* A step that takes the reason away.
Replaced == starts' # starts \/ (crashes' # crashes /\ run.status = "ABORTING")

\* An ABORTING run is the only one that has a reason and is not ENDED.
ReasonNeedsEnd ==
    /\ run.message = "cap" => run.status \in {"ABORTING", "ENDED"}
    /\ crashes \in Nat

LEMMA ReasonNeedsEndHolds ==
    ASSUME CapInv, ReasonNeedsEnd, [ChargingNext]_chargingVars
    PROVE  ReasonNeedsEnd'
<1> USE DEF CapInv, ChargingTypeOK, ReasonNeedsEnd
<1>1. ASSUME NEW c \in Calls, CallStep(c) PROVE ReasonNeedsEnd'
  BY <1>1 DEF CallStep, Charge, Push, Increment, IncrementFails, Stamp, EnforceFails, Abort
<1>2. CASE RunStep
  BY <1>2 DEF RunStep, BecomesRunning, Ends, Unregister, Resurrect, setRunStatusMessage, Runner
<1>3. CASE CrashAndReconcile
  BY <1>3 DEF CrashAndReconcile
<1>4. CASE Tick \/ UNCHANGED chargingVars
  BY <1>4 DEF Tick, chargingVars
<1> QED BY <1>1, <1>2, <1>3, <1>4 DEF ChargingNext

\* What the cap says is not overwritten but by a resurrection, or by the reconciliation of a run
\* that was still winding down.
LEMMA CapMessageStays ==
    ASSUME CapInv, ReasonNeedsEnd, ChargingNext, run.message = "cap"
    PROVE  run'.message = "cap" \/ Replaced
<1> USE DEF CapInv, ChargingTypeOK
<1>1. ~setRunStatusMessage
  BY DEF setRunStatusMessage, RuntimesReason
<1>2. ASSUME NEW c \in Calls, CallStep(c) PROVE run'.message = "cap"
  BY <1>2 DEF CallStep, Charge, Push, Increment, IncrementFails, Stamp, EnforceFails, Abort
<1>3. CASE BecomesRunning \/ Ends \/ Unregister \/ Tick
  BY <1>3 DEF BecomesRunning, Ends, Unregister, Tick
<1>4. CASE Resurrect
  BY <1>4 DEF Resurrect, Replaced
<1>5. CASE CrashAndReconcile
  BY <1>5 DEF CrashAndReconcile, ReasonNeedsEnd, Replaced
<1> QED BY <1>1, <1>2, <1>3, <1>4, <1>5 DEF ChargingNext, RunStep

\* However many charges, writes that fail and messages of the Actor race for the record, the
\* charge that takes a run to its cap stamps it unless the stamp's own write fails, and the reason
\* stays until a resurrection or a restart that cuts the abort short (services/charging.ts,
\* enforceCostLimit; services/runs.ts, setRunStatusMessage, reconcileOrphanedJobs).
THEOREM CapReported == ChargingSpec => CapIsReported
<1>1. CapInv => ReachedIsStamped
  BY DEF CapInv, SomeoneStamps, ReachedIsStamped
<1>2. CapInv /\ ReasonNeedsEnd /\ [ChargingNext]_chargingVars =>
          [run.message = "cap" => \/ run'.message = "cap"
                                  \/ starts' # starts
                                  \/ crashes' # crashes /\ run.status = "ABORTING"]_chargingVars
  BY CapMessageStays DEF Replaced
<1>3. ChargingSpec => []ReachedIsStamped
  BY ChargingAssumption, CapInitHolds, CapNextHolds, <1>1, PTL DEF ChargingSpec
<1>4. ChargingInit => ReasonNeedsEnd
  BY DEF ChargingInit, ReasonNeedsEnd
<1>5. ChargingSpec => ReasonKept
  BY ChargingAssumption, CapInitHolds, CapNextHolds, ReasonNeedsEndHolds, <1>2, <1>4, PTL
     DEF ChargingSpec, ReasonKept
<1> QED BY <1>3, <1>5 DEF CapIsReported

-----------------------------------------------------------------------------
(* RunLog: the store, the chunk in flight and the buffer are the log.      *)

Increasing(s) == \A i, j \in 1 .. Len(s) : i < j => s[i] < s[j]

LEMMA ElementsOfConcat ==
    ASSUME NEW s \in Seq(Nat), NEW t \in Seq(Nat)
    PROVE  ToSet(s \o t) = ToSet(s) \cup ToSet(t)
<1>1. /\ Len(s) \in Nat /\ Len(t) \in Nat
      /\ DOMAIN s = 1..Len(s) /\ DOMAIN t = 1..Len(t) /\ DOMAIN (s \o t) = 1..(Len(s) + Len(t))
      /\ \A i \in 1 .. Len(s) + Len(t) : (s \o t)[i] = IF i <= Len(s) THEN s[i] ELSE t[i - Len(s)]
  BY ConcatProperties, LenProperties
<1>2. \A i \in 1..Len(t) : Len(s) + i \in 1..(Len(s) + Len(t)) /\ (s \o t)[Len(s) + i] = t[i]
  <2> SUFFICES ASSUME NEW i \in 1..Len(t)
               PROVE  Len(s) + i \in 1..(Len(s) + Len(t)) /\ (s \o t)[Len(s) + i] = t[i]
    OBVIOUS
  <2>1. Len(s) + i \in 1..(Len(s) + Len(t)) /\ ~(Len(s) + i <= Len(s)) /\ Len(s) + i - Len(s) = i
    BY <1>1
  <2> QED BY <1>1, <2>1
<1>3. \A i \in 1..Len(s) : i \in 1..(Len(s) + Len(t)) /\ (s \o t)[i] = s[i]
  BY <1>1
<1>4. \A i \in 1..(Len(s) + Len(t)) :
          (i \in 1..Len(s) /\ (s \o t)[i] = s[i]) \/ (i - Len(s) \in 1..Len(t) /\ (s \o t)[i] = t[i - Len(s)])
  BY <1>1
<1> DEFINE u == s \o t
<1> HIDE DEF u
<1>5. \A x : x \in ToSet(u) <=> \E i \in 1..(Len(s) + Len(t)) : u[i] = x
  BY <1>1 DEF ToSet, u
<1>6. \A x : x \in ToSet(s) \cup ToSet(t) <=> (\E i \in 1..Len(s) : s[i] = x) \/ (\E i \in 1..Len(t) : t[i] = x)
  BY <1>1 DEF ToSet
<1>7. ToSet(u) \subseteq ToSet(s) \cup ToSet(t)
  BY <1>4, <1>5, <1>6 DEF u
<1>8. ToSet(s) \cup ToSet(t) \subseteq ToSet(u)
  BY <1>2, <1>3, <1>5, <1>6 DEF u
<1> QED BY <1>7, <1>8 DEF u

LEMMA IncreasingPrefix ==
    ASSUME NEW s \in Seq(Nat), NEW t \in Seq(Nat), Increasing(s \o t)
    PROVE  Increasing(s)
<1>1. Len(s) \in Nat /\ Len(t) \in Nat /\ Len(s \o t) = Len(s) + Len(t)
  BY ConcatProperties, LenProperties
<1>2. \A i \in 1..Len(s) : i \in 1..Len(s \o t) /\ (s \o t)[i] = s[i]
  BY <1>1, ConcatProperties
<1> QED BY <1>2 DEF Increasing

\* An increasing sequence has no element twice.
LEMMA IncreasingLength ==
    ASSUME NEW s \in Seq(Nat), Increasing(s)
    PROVE  IsFiniteSet(ToSet(s)) /\ Cardinality(ToSet(s)) = Len(s)
<1>1. Len(s) \in Nat /\ DOMAIN s = 1..Len(s) /\ s \in [1..Len(s) -> ToSet(s)]
  BY LenProperties DEF ToSet
<1>2. s \in Bijection(1..Len(s), ToSet(s))
  <2>1. \A i, j \in 1..Len(s) : s[i] = s[j] => i = j
    <3> SUFFICES ASSUME NEW i \in 1..Len(s), NEW j \in 1..Len(s), s[i] = s[j], i # j PROVE FALSE
      OBVIOUS
    <3>1. s[i] < s[j] \/ s[j] < s[i]
      BY <1>1 DEF Increasing
    <3>2. s[i] \in Nat
      BY <1>1
    <3> QED BY <3>1, <3>2
  <2>2. \A x \in ToSet(s) : \E i \in 1..Len(s) : s[i] = x
    BY <1>1 DEF ToSet
  <2> QED BY <1>1, <2>1, <2>2 DEF Bijection, Injection, Surjection, IsInjective
<1>3. ExistsBijection(1..Len(s), ToSet(s))
  BY <1>2 DEF ExistsBijection
<1>4. IsFiniteSet(1..Len(s)) /\ Cardinality(1..Len(s)) = Len(s)
  BY <1>1, FS_Interval
<1> QED BY <1>3, <1>4, FS_Bijection

LogTypeOK ==
    /\ written \in Nat /\ lostChunks \subseteq 1..written
    /\ buffer \in Seq(Nat) /\ stored \in Seq(Nat)
    /\ flush \in [Flushers -> [at : {"idle", "queued", "read", "write", "done"}, chunk : Seq(Nat)]]
    /\ lock \in Flushers \cup {Nobody}

\* A flush is at work exactly while it has the lock; it writes what is stored and more.
LockIsHeld == \A f \in Flushers : lock = f <=> flush[f].at \in {"read", "write"}
WriteAddsOn == \A f \in Flushers :
    flush[f].at = "write" => \E t \in Seq(Nat) : flush[f].chunk = stored \o t

\* Since the output ended nothing is buffered but what the last flush has yet to take: once it
\* is done all flushes are.
LastFlush == runner = "flush" =>
    /\ flush["final"].at \in {"read", "write", "done"} => buffer = <<>>
    /\ flush["final"].at = "done" => lock = Nobody

LogInv == LogTypeOK /\ LockIsHeld /\ WriteAddsOn /\ LastFlush /\ Whole(InFlight \o buffer)

LEMMA EmptyLog == <<>> \in Seq(Nat) /\ Len(<<>>) = 0 /\ ToSet(<<>>) = {}
BY EmptySeq DEF ToSet

LEMMA LogInitHolds == LogInit => LogInv
<1> SUFFICES ASSUME LogInit PROVE LogInv
  OBVIOUS
<1>1. LogTypeOK /\ LockIsHeld /\ WriteAddsOn /\ LastFlush
  BY LogAssumption, EmptyLog DEF LogInit, LogTypeOK, LockIsHeld, WriteAddsOn, LastFlush, NoFlush, Flushers, Nobody
<1>2. InFlight \o buffer = <<>>
  BY EmptyLog, ConcatEmptySeq DEF LogInit, InFlight
<1>3. lostChunks = {} /\ 1..written = {}
  BY DEF LogInit
<1>4. \A i \in 1..Len(<<>>) : FALSE
  BY EmptyLog
<1>5. Whole(<<>>)
  BY <1>3, <1>4, EmptyLog DEF Whole
<1> QED BY <1>1, <1>2, <1>5 DEF LogInv

\* What is in flight is a sequence of chunks.
LEMMA InFlightType ==
    ASSUME LogTypeOK
    PROVE  InFlight \in Seq(Nat) /\ InFlight \o buffer \in Seq(Nat)
BY ConcatProperties DEF LogTypeOK, InFlight

\* What is stored is the first part of the log.
LEMMA StoredFirst ==
    ASSUME LogInv
    PROVE  \E t \in Seq(Nat) : InFlight \o buffer = stored \o t
<1> USE DEF LogInv, LogTypeOK
<1>1. ASSUME NEW t \in Seq(Nat), InFlight = stored \o t
      PROVE  \E u \in Seq(Nat) : InFlight \o buffer = stored \o u
  <2>1. InFlight \o buffer = stored \o (t \o buffer)
    BY SMTT(30), <1>1, ConcatAssociative
  <2>2. t \o buffer \in Seq(Nat)
    BY ConcatProperties
  <2> QED BY <2>1, <2>2
<1>2. CASE lock = Nobody
  BY <1>2 DEF InFlight
<1>3. CASE lock # Nobody
  <2>1. lock \in Flushers /\ flush[lock].at \in {"read", "write"} /\ flush[lock].chunk \in Seq(Nat)
    BY <1>3 DEF LockIsHeld
  <2>2. CASE flush[lock].at = "read"
    BY <1>1, <1>3, <2>1, <2>2 DEF InFlight
  <2>3. CASE flush[lock].at = "write"
    BY <1>1, <1>3, <2>1, <2>3 DEF InFlight, WriteAddsOn
  <2> QED BY <2>1, <2>2, <2>3
<1> QED BY <1>2, <1>3

\* A step that leaves the log of chunks alone.
LEMMA LogStays ==
    ASSUME Whole(InFlight \o buffer), UNCHANGED <<written, lostChunks>>,
           (InFlight \o buffer)' = InFlight \o buffer
    PROVE  Whole(InFlight \o buffer)'
BY DEF Whole

LEMMA AppendHolds == ASSUME LogInv, appendLog PROVE LogInv'
<1> USE DEF LogInv, LogTypeOK
<1>1. /\ written' = written + 1 /\ buffer' = Append(buffer, written + 1)
      /\ runner = "running" /\ UNCHANGED <<runner, stored, flush, lock, lostChunks>>
  BY DEF appendLog
<1> DEFINE s == InFlight \o buffer
<1>2. InFlight \in Seq(Nat) /\ s \in Seq(Nat) /\ Len(s) \in Nat
  BY InFlightType, LenProperties
<1>3. InFlight' = InFlight
  BY <1>1 DEF InFlight
<1>4. (InFlight \o buffer)' = Append(s, written + 1)
  <2>1. Append(buffer, written + 1) = buffer \o <<written + 1>> /\ <<written + 1>> \in Seq(Nat)
    BY AppendIsConcat
  <2>2. InFlight \o (buffer \o <<written + 1>>) = s \o <<written + 1>>
    BY SMTT(30), <1>2, <2>1, ConcatAssociative
  <2>3. Append(s, written + 1) = s \o <<written + 1>>
    BY <1>2, AppendIsConcat
  <2> QED BY <1>1, <1>3, <2>1, <2>2, <2>3
<1>5. ToSet(s) = 1..written \ lostChunks /\ Increasing(s)
  BY DEF Whole, Increasing
<1> DEFINE s2 == Append(s, written + 1)
<1> HIDE DEF s
<1>6. /\ Len(s2) = Len(s) + 1 /\ s2[Len(s) + 1] = written + 1
      /\ \A i \in 1..Len(s) : s2[i] = s[i] /\ s[i] \in 1..written
      /\ DOMAIN s2 = 1..(Len(s) + 1)
  <2>1. \A i \in 1..Len(s) : s[i] \in ToSet(s)
    BY <1>2, LenProperties DEF ToSet
  <2> QED BY <1>2, <1>5, <2>1, AppendProperties, LenProperties
<1> HIDE DEF s2
<1>7. Increasing(s2)
  <2> SUFFICES ASSUME NEW i \in 1..Len(s2), NEW j \in 1..Len(s2), i < j PROVE s2[i] < s2[j]
    BY DEF Increasing
  <2>0. i \in 1..(Len(s) + 1) /\ j \in 1..(Len(s) + 1) /\ i < j
    BY <1>6
  <2>1. CASE j \in 1..Len(s)
    <3>1. i \in 1..Len(s)
      BY <1>2, <2>0, <2>1
    <3>2. s[i] < s[j] /\ s2[i] = s[i] /\ s2[j] = s[j]
      BY <1>5, <1>6, <2>0, <2>1, <3>1 DEF Increasing
    <3> QED BY <3>2
  <2>2. CASE j = Len(s) + 1
    <3>1. i \in 1..Len(s)
      BY <1>2, <2>0, <2>2
    <3>2. s2[i] \in 1..written /\ s2[j] = written + 1
      BY <1>6, <2>2, <3>1
    <3> QED BY <3>2
  <2>3. \A n \in Nat : \A k \in 1..(n + 1) : k \in 1..n \/ k = n + 1
    OBVIOUS
  <2> QED BY <1>2, <2>0, <2>1, <2>2, <2>3
<1>8. ToSet(s2) = ToSet(s) \cup {written + 1}
  <2>1. DOMAIN s = 1..Len(s)
    BY <1>2, LenProperties
  <2>2. 1..(Len(s) + 1) = 1..Len(s) \cup {Len(s) + 1}
    BY <1>2
  <2> QED BY SMTT(30), <1>6, <2>1, <2>2 DEF ToSet
<1>9. Whole(InFlight \o buffer)'
  <2>1. (1..(written + 1)) \ lostChunks = (1..written \ lostChunks) \cup {written + 1}
    BY <1>1
  <2> QED BY <1>1, <1>4, <1>5, <1>7, <1>8, <2>1 DEF Whole, Increasing, s2
<1>10. buffer' \in Seq(Nat)
  BY <1>1, AppendProperties
<1>11. LogTypeOK'
  BY <1>1, <1>10
<1>12. LockIsHeld' /\ WriteAddsOn' /\ LastFlush'
  BY <1>1 DEF LockIsHeld, WriteAddsOn, LastFlush
<1> QED BY <1>9, <1>11, <1>12

\* A flush that is queued has no chunk yet, and leaves what is in flight alone.
LEMMA CalledHolds ==
    ASSUME LogInv, NEW f \in Flushers, FlushCalled(f) \/ (flush[f].at = "queued" /\ Flushing(f, "done") /\ buffer = <<>> /\ lock = Nobody),
           UNCHANGED <<written, buffer, stored, lock, lostChunks>>,
           FlushCalled(f) => f # "final" \/ runner' # runner,
           runner' = runner \/ (f = "final" /\ FlushCalled(f))
    PROVE  LogInv'
<1> USE DEF LogInv, LogTypeOK
<1>1. PICK at \in {"queued", "done"} :
          /\ flush' = [flush EXCEPT ![f].at = at] /\ flush[f].at \notin {"read", "write"}
          /\ at = "done" => buffer = <<>> /\ lock = Nobody /\ runner' = runner
          /\ at = "queued" => f # "final" \/ runner' # runner
          /\ runner' = runner \/ (f = "final" /\ at = "queued")
  BY DEF FlushCalled, Flushing
<1>2. LogTypeOK' /\ LockIsHeld' /\ WriteAddsOn'
  BY <1>1 DEF LockIsHeld, WriteAddsOn
<1>3. InFlight' = InFlight
  BY <1>1 DEF InFlight, LockIsHeld
<1>4. LastFlush'
  BY <1>1 DEF LastFlush, Flushers
<1> QED BY <1>2, <1>3, <1>4, LogStays

LEMMA FlushHolds == ASSUME LogInv, NEW f \in Flushers, FlushStep(f) PROVE LogInv'
<1> USE DEF LogInv, LogTypeOK
<1>0. Nobody \notin Flushers
  BY LogAssumption DEF Flushers, Nobody
<1>1. CASE FlushTakes(f) /\ buffer = <<>>
  BY <1>1, CalledHolds DEF FlushTakes, FlushCalled, Flushing
<1>2. CASE FlushTakes(f) /\ buffer # <<>>
  <2>1. /\ flush[f].at = "queued" /\ lock = Nobody /\ lock' = f /\ buffer' = <<>>
        /\ flush' = [flush EXCEPT ![f] = [at |-> "read", chunk |-> buffer]]
        /\ UNCHANGED <<runner, written, stored, lostChunks>>
    BY <1>2 DEF FlushTakes
  <2>2. LogTypeOK'
    BY <2>1, EmptyLog
  <2>3. LockIsHeld' /\ WriteAddsOn' /\ LastFlush'
    BY <1>0, <1>2, <2>1 DEF LockIsHeld, WriteAddsOn, LastFlush, Flushers
  <2>4. InFlight = stored /\ InFlight' = stored \o buffer
    BY <1>0, <2>1 DEF InFlight
  <2>5. (InFlight \o buffer)' = stored \o buffer
    BY <2>1, <2>4, ConcatProperties, ConcatEmptySeq
  <2> QED BY <2>1, <2>2, <2>3, <2>4, <2>5, LogStays
<1>3. CASE FlushReads(f)
  <2>1. /\ flush[f].at = "read" /\ flush' = [flush EXCEPT ![f] = [at |-> "write", chunk |-> stored \o @.chunk]]
        /\ UNCHANGED <<runner, written, buffer, stored, lock, lostChunks>>
    BY <1>3 DEF FlushReads
  <2>2. flush[f].chunk \in Seq(Nat) /\ stored \o flush[f].chunk \in Seq(Nat) /\ lock = f
    BY <2>1, ConcatProperties DEF LockIsHeld
  <2>3. LogTypeOK' /\ LockIsHeld' /\ WriteAddsOn' /\ LastFlush'
    BY <2>1, <2>2 DEF LockIsHeld, WriteAddsOn, LastFlush, Flushers
  <2>4. InFlight' = InFlight
    BY <1>0, <2>1, <2>2 DEF InFlight
  <2> QED BY <2>1, <2>3, <2>4, LogStays
<1>4. CASE FlushWrites(f)
  <2>1. /\ flush[f].at = "write" /\ stored' = flush[f].chunk /\ lock' = Nobody
        /\ flush' = [flush EXCEPT ![f] = [at |-> "done", chunk |-> <<>>]]
        /\ UNCHANGED <<runner, written, buffer, lostChunks>>
    BY <1>4 DEF FlushWrites
  <2>2. lock = f
    BY <2>1 DEF LockIsHeld
  <2>3. LogTypeOK' /\ LockIsHeld'
    BY <1>0, <2>1, <2>2, EmptyLog DEF LockIsHeld
  <2>4. WriteAddsOn' /\ LastFlush'
    BY <1>0, <2>1, <2>2 DEF LockIsHeld, WriteAddsOn, LastFlush, Flushers
  <2>5. InFlight' = InFlight
    BY <1>0, <2>1, <2>2 DEF InFlight
  <2> QED BY <2>1, <2>3, <2>4, <2>5, LogStays
<1> QED BY <1>1, <1>2, <1>3, <1>4 DEF FlushStep

\* A crash keeps what is stored, and counts the rest as lost.
LEMMA LogCrashHolds == ASSUME LogInv, LogCrash PROVE LogInv'
<1> USE DEF LogInv, LogTypeOK
<1>1. /\ lostChunks' = 1..written \ ToSet(stored) /\ runner' = "over" /\ buffer' = <<>> /\ lock' = Nobody
      /\ flush' = [f \in Flushers |-> NoFlush] /\ UNCHANGED <<written, stored>>
  BY DEF LogCrash
<1>2. LogTypeOK' /\ LockIsHeld' /\ WriteAddsOn' /\ LastFlush'
  <2>1. Nobody \notin Flushers
    BY LogAssumption DEF Flushers, Nobody
  <2> QED BY <1>1, <2>1, EmptyLog DEF LockIsHeld, WriteAddsOn, LastFlush, NoFlush
<1>3. (InFlight \o buffer)' = stored
  BY <1>1, ConcatEmptySeq DEF InFlight
<1>4. PICK t \in Seq(Nat) : InFlight \o buffer = stored \o t
  BY StoredFirst
<1>5. Increasing(stored) /\ ToSet(stored) \subseteq 1..written
  BY <1>4, IncreasingPrefix, ElementsOfConcat DEF Whole, Increasing
<1>6. 1..written \ (1..written \ ToSet(stored)) = ToSet(stored)
  BY <1>5
<1> QED BY <1>1, <1>2, <1>3, <1>5, <1>6 DEF Whole, Increasing

LEMMA LogNextHolds == LogInv /\ [LogNext]_logVars => LogInv'
<1> SUFFICES ASSUME LogInv, [LogNext]_logVars PROVE LogInv'
  OBVIOUS
<1>1. ASSUME UNCHANGED <<written, buffer, stored, flush, lock, lostChunks>>, runner' = runner \/ runner' # "flush"
      PROVE  LogInv'
  BY ZenonT(40), <1>1 DEF LogInv, LogTypeOK, LockIsHeld, WriteAddsOn, LastFlush, Whole, InFlight
<1>2. CASE TimerTicks
  BY <1>2, CalledHolds DEF TimerTicks, Flushers
<1>3. CASE RunnerFlushes
  BY <1>3, CalledHolds DEF RunnerFlushes, Flushers, Quiet
<1>4. CASE RunnerWritesStatus \/ RunnerCloses \/ Aborted \/ LogReopens
  BY <1>1, <1>4 DEF RunnerWritesStatus, RunnerCloses, Aborted, LogReopens, Quiet
<1>5. ASSUME NEW s \in Readers, Connects(s) PROVE LogInv'
  <2>1. CASE s \in Streams
    BY <1>5, <2>1, CalledHolds, LogAssumption DEF Connects, Untouched, Flushers
  <2>2. CASE s \notin Streams
    BY <1>1, <1>5, <2>2 DEF Connects, Untouched
  <2> QED BY <2>1, <2>2
<1>6. ASSUME NEW s \in Readers, ReadsLog(s) \/ Subscribes(s) \/ Polls(s) \/ PollAnswered(s) \/ Disconnects(s)
      PROVE  LogInv'
  BY <1>1, <1>6 DEF ReadsLog, Subscribes, Polls, PollAnswered, Disconnects, Untouched
<1>7. CASE UNCHANGED logVars
  BY <1>1, <1>7 DEF logVars
<1> QED BY <1>2, <1>3, <1>4, <1>5, <1>6, <1>7, AppendHolds, FlushHolds, LogCrashHolds
        DEF LogNext, RunnerStep, ReaderStep

\* When the run writes its final status every chunk is stored, but for what a crash lost.
LEMMA StoredAtEnd ==
    ASSUME LogInv, LogNext, runner = "flush", runner' = "cleanup"
    PROVE  Len(stored) + Cardinality(lostChunks) = written
<1> USE DEF LogInv, LogTypeOK
<1>1. flush["final"].at = "done"
  BY DEF LogNext, appendLog, TimerTicks, RunnerStep, RunnerFlushes, RunnerWritesStatus, RunnerCloses, Aborted,
         LogReopens, LogCrash, FlushStep, FlushTakes, FlushReads, FlushWrites, ReaderStep, Connects, ReadsLog,
         Subscribes, Polls, PollAnswered, Disconnects, Untouched
<1>2. InFlight \o buffer = stored
  BY <1>1, ConcatEmptySeq DEF LastFlush, InFlight
<1>3. Cardinality(ToSet(stored)) = Len(stored) /\ ToSet(stored) = 1..written \ lostChunks
  BY <1>2, IncreasingLength DEF Whole, Increasing
<1>4. IsFiniteSet(1..written) /\ Cardinality(1..written) = written
  BY FS_Interval
<1>5. IsFiniteSet(lostChunks) /\ Cardinality(lostChunks) \in Nat /\ (1..written) \cap lostChunks = lostChunks
  BY <1>4, FS_Subset, FS_CardinalityType
<1>6. Cardinality(1..written \ lostChunks) = written - Cardinality(lostChunks)
  <2>1. Cardinality(1..written \ lostChunks) = Cardinality(1..written) - Cardinality((1..written) \cap lostChunks)
    BY <1>4, FS_Difference
  <2> QED BY <1>4, <1>5, <2>1
<1> QED BY <1>3, <1>5, <1>6

\* However the timer, the readers and the ending run flush the log while more is written and
\* across crashes and reopenings, every chunk is stored once and in order, but for what a crash
\* loses, and all of them before the run is seen to end by itself
\* (services/logs.ts, flushLog; services/runs.ts, runInBackground).
THEOREM NoChunkLost == LogSpec => LogIsWhole
<1>1. LogInv => Whole(InFlight \o buffer)
  BY DEF LogInv
<1>2. LogInv /\ [LogNext]_logVars =>
          [(runner = "flush" /\ runner' = "cleanup") => Len(stored) + Cardinality(lostChunks) = written]_logVars
  BY StoredAtEnd
<1> QED BY LogInitHolds, LogNextHolds, <1>1, <1>2, PTL DEF LogSpec, LogIsWhole

-----------------------------------------------------------------------------
(* BrowserViewer: every stage of a view and what the engine has then.      *)

ViewerStages == {"ended", "image", "volume", "port", "create", "start", "up", "undo", "unvolume"}

ViewerTypeOK ==
    /\ viewer \in [Viewed -> [at : ViewerStages, attempt : Nat]]
    /\ sidecars \subseteq Viewed /\ volumes \subseteq Viewed /\ kept \subseteq Viewed

\* Before a run has its volume the engine has nothing of it but what it refused to remove.
NothingYet(r) ==
    viewer[r].at \in {"ended", "image", "volume"} => r \notin (sidecars \cup volumes) \ kept

\* It has its volume before its sidecar, and both while the sidecar is in use.
HasVolume(r) == viewer[r].at \in {"port", "create", "start", "up"} => r \in volumes
HasSidecar(r) == viewer[r].at \in {"start", "up"} => r \in sidecars \cap browserViewers

ViewerInv == ViewerTypeOK /\ \A r \in Viewed : NothingYet(r) /\ HasVolume(r) /\ HasSidecar(r)

LEMMA ViewerInitHolds == ViewerInit => ViewerInv
BY DEF ViewerInit, ViewerInv, ViewerTypeOK, ViewerStages, NothingYet, HasVolume, HasSidecar

\* A step of one run leaves what the others have.
LEMMA ViewerStepHolds ==
    ASSUME ViewerInv, NEW r \in Viewed, ViewerStep(r)
    PROVE  ViewerInv'
<1> USE DEF ViewerInv, ViewerTypeOK, ViewerStages, NothingYet, HasVolume, HasSidecar, Comes, ViewerStays, EngineStays
<1>1. CASE ViewerWanted(r)
  BY <1>1 DEF ViewerWanted
<1>2. CASE VolumeCreated(r)
  BY <1>2 DEF VolumeCreated
<1>3. CASE PortAllocated(r)
  BY <1>3 DEF PortAllocated
<1>4. CASE SidecarCreated(r)
  BY <1>4 DEF SidecarCreated
<1>5. CASE SidecarStarted(r)
  BY <1>5 DEF SidecarStarted
<1>6. CASE StopBrowserViewer(r)
  BY <1>6 DEF StopBrowserViewer
<1>7. CASE SidecarRemoved(r)
  BY <1>7 DEF SidecarRemoved
<1>8. CASE VolumeRemoval(r)
  BY <1>8 DEF VolumeRemoval
<1>9. QED
  BY <1>1, <1>2, <1>3, <1>4, <1>5, <1>6, <1>7, <1>8 DEF ViewerStep

LEMMA ViewerNextHolds == ViewerInv /\ [ViewerNext]_viewerVars => ViewerInv'
<1> SUFFICES ASSUME ViewerInv, [ViewerNext]_viewerVars PROVE ViewerInv'
  OBVIOUS
<1>1. CASE ImportEnds
  BY <1>1 DEF ImportEnds, ViewerInv, ViewerTypeOK, ViewerStages, NothingYet, HasVolume, HasSidecar, ViewerStays, EngineStays
<1>2. CASE ViewerCrash
  BY <1>2 DEF ViewerCrash, Swept, ViewerInv, ViewerTypeOK, ViewerStages, NothingYet, HasVolume, HasSidecar
<1>3. CASE \E r \in Viewed : ViewerStep(r)
  BY <1>3, ViewerStepHolds
<1>4. CASE UNCHANGED viewerVars
  BY <1>4 DEF viewerVars, ViewerInv, ViewerTypeOK, NothingYet, HasVolume, HasSidecar
<1>5. QED
  BY <1>1, <1>2, <1>3, <1>4 DEF ViewerNext

\* Whatever call of the engine fails and wherever the process dies, a container or volume of a
\* view belongs to a run that is busy with it, or the engine refused to remove it (or no port
\* was free), and a view in use is whole and can be stopped
\* (driver/docker-driver.ts, startBrowserViewer, stopBrowserViewer, reconcileOrphans).
THEOREM NoViewStaysBehind == ViewerSpec => []ViewersAreRemoved
<1>1. ViewerInv => ViewersAreRemoved
  BY DEF ViewerInv, ViewerTypeOK, NothingYet, HasVolume, HasSidecar, ViewersAreRemoved
<1>2. QED
  BY ViewerInitHolds, ViewerNextHolds, <1>1, PTL DEF ViewerSpec

-----------------------------------------------------------------------------
(* DevFolderProbe: a container belongs to a walk or to its removal.        *)

\* A call that is walking or removing has a record of its own; the engine's containers are of calls.
ProbeInv ==
    /\ probe = [c \in ProbeCalls |-> probe[c]]
    /\ \A c \in ProbeCalls : "at" \in DOMAIN probe[c]
    /\ probes \subseteq ProbeCalls
    /\ ProbesAreRemoved

LEMMA ProbeInitHolds == ProbeInit => ProbeInv
BY DEF ProbeInit, ProbeInv, ProbesAreRemoved, NoProbe

LEMMA ProbeStepHolds ==
    ASSUME ProbeInv, NEW c \in ProbeCalls, ProbeStep(c)
    PROVE  ProbeInv'
<1> DEFINE r == probe[c]
<1>0. "at" \in DOMAIN r /\ (c \in probes \ unremoved => r.at \in {"walk", "remove"})
  BY DEF ProbeInv, ProbesAreRemoved
<1>1. ASSUME NEW purpose, NEW path, Asks(c, purpose, path) PROVE ProbeInv'
  BY <1>0, <1>1 DEF Asks, NoProbe, ProbeStays, ProbeInv, ProbesAreRemoved
<1>2. CASE ClearsFolder(c)
  BY <1>0, <1>2 DEF ClearsFolder, Over, NoProbe, ProbeInv, ProbesAreRemoved
<1>3. CASE ProbeCreated(c)
  BY <1>0, <1>3 DEF ProbeCreated, Over, NoProbe, ProbeInv, ProbesAreRemoved
<1>4. CASE ProbeLooks(c)
  <2>1. UNCHANGED <<probes, unremoved>> /\ r.at = "walk"
    BY <1>4 DEF ProbeLooks, Walking
  <2>2. PICK stat : LooksAt(c, stat)
    BY <1>4 DEF ProbeLooks
  <2>3. CASE \E result : Finishes(c, result)
    BY <1>0, <2>1, <2>3 DEF Finishes, NoProbe, ProbeInv, ProbesAreRemoved
  <2>4. CASE Follows(c, stat)
    BY <1>0, <2>1, <2>4 DEF Follows, ProbeInv, ProbesAreRemoved
  <2>5. ASSUME NEW pending, NEW current, NEW kind,
               probe' = [probe EXCEPT ![c].pending = pending, ![c].resolved = current, ![c].kind = kind]
        PROVE  ProbeInv'
    BY <1>0, <2>1, <2>5 DEF ProbeInv, ProbesAreRemoved
  <2> QED BY <2>2, <2>3, <2>4, <2>5 DEF LooksAt
<1>5. CASE ProbeDecides(c)
  BY <1>0, <1>5 DEF ProbeDecides, Walking, Finishes, NoProbe, ProbeInv, ProbesAreRemoved
<1>6. ASSUME NEW entry, EntryAsked(c, entry) PROVE ProbeInv'
  BY <1>0, <1>6 DEF EntryAsked, Finishes, NoProbe, ProbeInv, ProbesAreRemoved
<1>7. CASE ProbeUnanswered(c)
  BY <1>0, <1>7 DEF ProbeUnanswered, NoProbe, ProbeInv, ProbesAreRemoved
<1>8. CASE ProbeRemoved(c)
  BY <1>0, <1>8 DEF ProbeRemoved, ProbeInv, ProbesAreRemoved
<1>9. CASE ProbeAnswered(c)
  BY <1>0, <1>9 DEF ProbeAnswered, Over, NoProbe, ProbeInv, ProbesAreRemoved
<1> QED BY <1>1, <1>2, <1>3, <1>4, <1>5, <1>6, <1>7, <1>8, <1>9 DEF ProbeStep

LEMMA ProbeNextHolds == ProbeInv /\ [ProbeNext]_probeVars => ProbeInv'
<1> SUFFICES ASSUME ProbeInv, [ProbeNext]_probeVars PROVE ProbeInv'
  OBVIOUS
<1>1. CASE ProbeImageBuilt
  BY <1>1 DEF ProbeImageBuilt, Over, NoProbe, ProbeInv, ProbesAreRemoved
<1>2. CASE HostChanges
  BY <1>2 DEF HostChanges, ProbeInv, ProbesAreRemoved
<1>3. CASE ProbeCrash
  BY <1>3 DEF ProbeCrash, Over, NoProbe, ProbeInv, ProbesAreRemoved
<1>4. CASE UNCHANGED probeVars
  BY <1>4 DEF probeVars, ProbeInv, ProbesAreRemoved
<1> QED BY <1>1, <1>2, <1>3, <1>4, ProbeStepHolds DEF ProbeNext

-----------------------------------------------------------------------------
(* The engine, as the probes and the views leave it.                       *)

\* The services of a behaviour of MCServices take steps of their own, or none.
LEMMA EngineSteps == [Next]_servicesVars => [ProbeNext]_probeVars /\ [ViewerNext]_viewerVars
BY DEF Next, servicesVars

\* Whatever call of the engine fails and wherever the process dies, every container or volume
\* that the runtime created for a probe or a view belongs to one under way, but for what the
\* engine refused to remove (driver/docker-driver.ts, probeDevFolder, startBrowserViewer,
\* stopBrowserViewer, reconcileOrphans).
THEOREM ServicesLeaveNothing == Spec => []NothingLeftBehind
<1>1. Init => ProbeInv /\ ViewerInv
  BY ProbeInitHolds, ViewerInitHolds DEF Init
<1>2. ProbeInv /\ ViewerInv /\ [Next]_servicesVars => (ProbeInv /\ ViewerInv)'
  BY EngineSteps, ProbeNextHolds, ViewerNextHolds
<1>3. ProbeInv /\ ViewerInv => NothingLeftBehind
  BY DEF ProbeInv, ViewerInv, ViewerTypeOK, NothingYet, HasVolume, HasSidecar, ViewersAreRemoved,
         NothingLeftBehind
<1> QED BY <1>1, <1>2, <1>3, PTL DEF Spec

-----------------------------------------------------------------------------
(* DevFolderProbe: what a probe says of the host. A walk is somewhere on   *)
(* the way that the host itself takes: what it has resolved and what is    *)
(* left are the submitted path with some of its links followed, and no     *)
(* fewer of them than it has counted. The induction over the number of     *)
(* links is of sets of numbers, by the least number outside the set.       *)

LEMMA LeastOf ==
    ASSUME NEW S, S \subseteq Nat, S # {}
    PROVE  \E n \in S : \A m \in S : n <= m
<1> DEFINE Less == {ss \in Nat \X Nat : ss[1] < ss[2]}
<1>1. IsWellFoundedOn(Less, Nat)
  BY NatLessThanWellFounded DEF OpToRel
<1>2. \A m, n \in Nat : m < n => <<m, n>> \in Less
  OBVIOUS
<1> HIDE DEF Less
<1>3. PICK n \in S : \A m \in S : ~(<<m, n>> \in Less)
  BY <1>1, WFMin
<1>4. \A m \in S : ~(m < n)
  BY <1>2, <1>3
<1>5. \A m, k \in Nat : ~(m < k) => k <= m
  OBVIOUS
<1> QED BY <1>4, <1>5

\* Induction over the naturals, of a set in place of a predicate.
LEMMA Inductive ==
    ASSUME NEW S, 0 \in S, \A n \in Nat : n \in S => n + 1 \in S
    PROVE  Nat \subseteq S
<1> SUFFICES ASSUME Nat \ S # {} PROVE FALSE
  OBVIOUS
<1>1. PICK n \in Nat \ S : \A m \in Nat \ S : n <= m
  BY LeastOf
<1>2. n # 0 /\ n - 1 \in Nat /\ n - 1 \in S
  BY <1>1
<1> QED BY <1>1, <1>2

LEMMA Iterates ==
    ASSUME NEW g, NEW x
    PROVE  /\ Iterated(g, x, 0) = x
           /\ \A n \in Nat : Iterated(g, x, n + 1) = g[Iterated(g, x, n)]
<1> DEFINE Steps(f, n) == f = [i \in 0 .. n |-> IF i = 0 THEN x ELSE g[f[i - 1]]]
           F(n) == CHOOSE f : Steps(f, n)
           Has == {n \in Nat : \E f : Steps(f, n)}
<1>1. \A n \in Nat : Iterated(g, x, n) = F(n)[n]
  BY DEF Iterated
<1>2. 0 \in Has
  <2>1. Steps([i \in 0 .. 0 |-> x], 0)
    OBVIOUS
  <2> QED BY <2>1
<1>3. ASSUME NEW n \in Nat, n \in Has PROVE n + 1 \in Has
  <2>1. PICK f : Steps(f, n)
    BY <1>3
  <2> DEFINE h == [i \in 0 .. n + 1 |-> IF i = n + 1 THEN g[f[n]] ELSE f[i]]
  <2>2. \A i \in 0 .. n : f[i] = IF i = 0 THEN x ELSE g[f[i - 1]]
    BY <2>1
  <2>3. \A i \in 0 .. n + 1 : h[i] = IF i = 0 THEN x ELSE g[h[i - 1]]
    <3> TAKE i \in 0 .. n + 1
    <3>1. CASE i = 0
      BY <3>1, <2>2
    <3>2. CASE i = n + 1
      BY <3>2
    <3>3. CASE i \in 1 .. n
      BY <3>3, <2>2
    <3> QED BY <3>1, <3>2, <3>3
  <2>4. h = [i \in 0 .. n + 1 |-> h[i]]
    OBVIOUS
  <2> HIDE DEF h
  <2>5. Steps(h, n + 1)
    BY <2>3, <2>4
  <2> QED BY <2>5
<1>4. \A n \in Nat : Steps(F(n), n)
  <2>1. Nat \subseteq Has
    BY <1>2, <1>3, Inductive
  <2> QED BY <2>1
<1> HIDE DEF F
<1>5. \A n \in Nat : \A i \in 0 .. n : F(n)[i] = IF i = 0 THEN x ELSE g[F(n)[i - 1]]
  BY <1>4
<1> HIDE DEF Steps
<1>6. ASSUME NEW n \in Nat
      PROVE  F(n + 1)[n] = F(n)[n]
  <2> DEFINE Same == {i \in Nat : i \in 0 .. n => F(n + 1)[i] = F(n)[i]}
  <2>1. 0 \in Same
    BY <1>5
  <2>2. ASSUME NEW i \in Nat, i \in Same PROVE i + 1 \in Same
    <3> SUFFICES ASSUME i + 1 \in 0 .. n PROVE F(n + 1)[i + 1] = F(n)[i + 1]
      OBVIOUS
    <3>1. F(n + 1)[i] = F(n)[i]
      BY <2>2
    <3>2. F(n)[i + 1] = g[F(n)[(i + 1) - 1]] /\ F(n + 1)[i + 1] = g[F(n + 1)[(i + 1) - 1]]
      BY <1>5
    <3>3. (i + 1) - 1 = i
      OBVIOUS
    <3> QED BY <3>1, <3>2, <3>3
  <2> HIDE DEF Same
  <2>3. n \in Same
    BY <2>1, <2>2, Inductive
  <2> QED BY <2>3 DEF Same
<1>7. Iterated(g, x, 0) = x
  BY <1>1, <1>5
<1>8. ASSUME NEW n \in Nat PROVE Iterated(g, x, n + 1) = g[Iterated(g, x, n)]
  <2>1. n + 1 \in Nat /\ n + 1 \in 0 .. n + 1 /\ (n + 1) - 1 = n /\ n + 1 # 0
    OBVIOUS
  <2>2. F(n + 1)[n + 1] = g[F(n + 1)[n]]
    BY <2>1, <1>5
  <2> QED BY <2>1, <2>2, <1>1, <1>6
<1> QED BY <1>7, <1>8

-----------------------------------------------------------------------------
\* A path and its beginnings.
LEMMA Beginnings ==
    ASSUME NEW p \in Paths, NEW k \in 0 .. Len(p)
    PROVE  /\ Len(p) \in Nat /\ Up(p, k) \in Paths /\ Len(Up(p, k)) = k
           /\ \A i \in 1 .. k : Up(p, k)[i] = p[i]
           /\ k = 0 => Up(p, k) = <<>>
           /\ k > 0 => Up(p, k) # <<>> /\ Front(Up(p, k)) = Up(p, k - 1)
           /\ \A j \in 0 .. k : Up(Up(p, k), j) = Up(p, j)
           /\ Up(p, Len(p)) = p
<1>1. /\ Len(p) \in Nat /\ \A i \in 1 .. Len(p) : p[i] \in STRING
      /\ k \in Int /\ 1 \in Int
  BY LenProperties, ElementOfSeq DEF Paths
<1>2. ASSUME NEW j \in 0 .. Len(p)
      PROVE  Up(p, j) \in Paths /\ Len(Up(p, j)) = j /\ \A i \in 1 .. j : Up(p, j)[i] = p[i]
  <2>1. \A i \in 1 .. j : p[i] \in STRING
    BY <1>1
  <2>2. /\ SubSeq(p, 1, j) \in Seq(STRING)
        /\ Len(SubSeq(p, 1, j)) = IF 1 <= j THEN j - 1 + 1 ELSE 0
        /\ \A i \in 1 .. j - 1 + 1 : SubSeq(p, 1, j)[i] = p[1 + i - 1]
    BY <1>1, <2>1, SubSeqProperties
  <2> QED BY <2>2, <1>1 DEF Up, Paths
<1>3. k = 0 => Up(p, k) = <<>>
  BY SubSeqEmpty DEF Up
<1>4. ASSUME NEW j \in 0 .. k PROVE Up(Up(p, k), j) = Up(p, j)
  <2>1. /\ Up(p, j) \in Paths /\ Len(Up(p, j)) = j /\ \A i \in 1 .. j : Up(p, j)[i] = p[i]
        /\ Up(p, k) \in Paths /\ Len(Up(p, k)) = k /\ \A i \in 1 .. k : Up(p, k)[i] = p[i]
    BY <1>1, <1>2
  <2>2. \A i \in 1 .. j : Up(p, k)[i] \in STRING
    BY <1>1, <2>1
  <2>3. /\ SubSeq(Up(p, k), 1, j) \in Seq(STRING)
        /\ Len(SubSeq(Up(p, k), 1, j)) = IF 1 <= j THEN j - 1 + 1 ELSE 0
        /\ \A i \in 1 .. j - 1 + 1 : SubSeq(Up(p, k), 1, j)[i] = Up(p, k)[1 + i - 1]
    BY <1>1, <2>2, SubSeqProperties
  <2>4. /\ Up(Up(p, k), j) \in Seq(STRING) /\ Len(Up(Up(p, k), j)) = j
        /\ \A i \in 1 .. j : Up(Up(p, k), j)[i] = Up(p, j)[i]
    BY <2>1, <2>3 DEF Up
  <2> QED BY <2>1, <2>4, SeqEqual DEF Paths
<1>5. k > 0 => Up(p, k) # <<>> /\ Front(Up(p, k)) = Up(p, k - 1)
  <2> SUFFICES ASSUME k > 0 PROVE Up(p, k) # <<>> /\ Front(Up(p, k)) = Up(p, k - 1)
    OBVIOUS
  <2>1. Up(p, k) # <<>>
    BY <1>2, EmptySeq DEF Paths
  <2>2. Front(Up(p, k)) = Up(Up(p, k), k - 1)
    BY <1>2 DEF Front, Up
  <2> QED BY <2>1, <2>2, <1>1, <1>4
<1>6. Up(p, Len(p)) = p
  BY SubSeqFull DEF Up, Paths
<1> QED BY <1>1, <1>2, <1>3, <1>4, <1>5, <1>6

\* What is put at the end of a path leaves its beginnings alone.
LEMMA BeginningsStay ==
    ASSUME NEW p \in Paths, NEW rest \in Paths, NEW k \in 0 .. Len(p)
    PROVE  /\ p \o rest \in Paths /\ Len(p \o rest) = Len(p) + Len(rest)
           /\ Len(p) \in Nat /\ Len(rest) \in Nat
           /\ Up(p \o rest, k) = Up(p, k)
<1>1. /\ p \o rest \in Paths /\ Len(p \o rest) = Len(p) + Len(rest)
      /\ \A i \in 1 .. Len(p) + Len(rest) :
             (p \o rest)[i] = IF i <= Len(p) THEN p[i] ELSE rest[i - Len(p)]
      /\ Len(p) \in Nat /\ Len(rest) \in Nat
  BY ConcatProperties, LenProperties DEF Paths
<1>2. k \in 0 .. Len(p \o rest) /\ \A i \in 1 .. k : (p \o rest)[i] = p[i]
  BY <1>1
<1>3. /\ Up(p \o rest, k) \in Paths /\ Len(Up(p \o rest, k)) = k
      /\ \A i \in 1 .. k : Up(p \o rest, k)[i] = (p \o rest)[i]
  BY <1>1, <1>2, Beginnings
<1>4. /\ Up(p, k) \in Paths /\ Len(Up(p, k)) = k
      /\ \A i \in 1 .. k : Up(p, k)[i] = p[i]
  BY Beginnings
<1>5. \A i \in 1 .. Len(Up(p, k)) : Up(p \o rest, k)[i] = Up(p, k)[i]
  BY <1>2, <1>3, <1>4
<1>6. Up(p \o rest, k) = Up(p, k)
  BY <1>3, <1>4, <1>5, SeqEqual DEF Paths
<1> QED BY <1>1, <1>6

LEMMA ThingKinds ==
    ASSUME host \in Hosts, NEW p
    PROVE  /\ Thing(p).kind \in {"none", "dir", "file", "link"}
           /\ Thing(p).kind = "link" => Thing(p).to \in LinkTargets /\ p \in Nodes
           /\ Thing(p).kind # "none" => p \in Nodes \/ p = <<>>
<1>1. \A q \in Nodes : host[q] \in {Plain("none"), Plain("dir"), Plain("file")} \cup Links
  BY DEF Hosts
<1>2. CASE p \in Nodes
  BY <1>1, <1>2 DEF Thing, Plain, Links
<1>3. CASE p \notin Nodes
  BY <1>3 DEF Thing, Plain
<1> QED BY <1>2, <1>3

\* What is somewhere on the host is in folders all the way up.
LEMMA InFolders ==
    ASSUME host \in Hosts, NEW p \in Paths,
           NEW j \in 0 .. Len(p), Thing(Up(p, j)).kind # "none", NEW k \in 0 .. j, k < j
    PROVE  Thing(Up(p, k)).kind = "dir"
<1>1. Len(p) \in Nat /\ j \in Nat /\ k \in Nat
  BY Beginnings
<1>2. ASSUME NEW i \in 1 .. j, Thing(Up(p, i)).kind # "none"
      PROVE  Thing(Up(p, i - 1)).kind = "dir"
  <2>1. /\ i \in 0 .. Len(p) /\ i > 0 /\ i - 1 \in 0 .. Len(p)
        /\ Up(p, i) # <<>> /\ Len(Up(p, i)) = i /\ Front(Up(p, i)) = Up(p, i - 1)
        /\ (i - 1 = 0 => Up(p, i - 1) = <<>>) /\ (i - 1 > 0 => Up(p, i - 1) # <<>>)
    BY <1>1, Beginnings
  <2>2. Up(p, i) \in Nodes
    BY <1>2, <2>1, ThingKinds
  <2>3. CASE i = 1
    BY <2>1, <2>3 DEF Thing, Plain
  <2>4. CASE i > 1
    <3>1. Up(p, i - 1) \in Nodes /\ host[Up(p, i)].kind # "none"
      BY <1>2, <2>1, <2>2, <2>4, ProbeAssumption DEF Thing
    <3>2. host[Up(p, i - 1)].kind = "dir"
      BY <2>1, <2>2, <2>4, <3>1 DEF Hosts
    <3> QED BY <3>1, <3>2, <2>1, <2>4 DEF Thing
  <2> QED BY <2>1, <2>3, <2>4
<1> DEFINE Dirs == {d \in Nat : d + 1 <= j => Thing(Up(p, j - (d + 1))).kind = "dir"}
<1>3. 0 \in Dirs
  BY <1>1, <1>2
<1>4. ASSUME NEW d \in Nat, d \in Dirs PROVE d + 1 \in Dirs
  <2> SUFFICES ASSUME (d + 1) + 1 <= j PROVE Thing(Up(p, j - ((d + 1) + 1))).kind = "dir"
    OBVIOUS
  <2>1. Thing(Up(p, j - (d + 1))).kind = "dir" /\ j - (d + 1) \in 1 .. j
    BY <1>1, <1>4
  <2>2. Thing(Up(p, (j - (d + 1)) - 1)).kind = "dir"
    BY <1>2, <2>1
  <2>3. (j - (d + 1)) - 1 = j - ((d + 1) + 1)
    BY <1>1
  <2> QED BY <2>2, <2>3
<1> HIDE DEF Dirs
<1>5. j - k - 1 \in Dirs
  BY <1>1, <1>3, <1>4, Inductive
<1> QED BY <1>1, <1>5 DEF Dirs

-----------------------------------------------------------------------------
\* A path has one link at most; followed, it is a path that does not begin where the mount is.
LEMMA OneLink ==
    ASSUME host \in Hosts, NEW p \in Paths, NEW k \in LinkAt(p)
    PROVE  /\ k \in 1 .. Len(p) /\ Len(p) \in Nat /\ LinkAt(p) = {k}
           /\ Deref[p] = Thing(Up(p, k)).to \o SubSeq(p, k + 1, Len(p))
           /\ Thing(Up(p, k)).to \in Paths /\ SubSeq(p, k + 1, Len(p)) \in Paths
           /\ Deref[p] \in Paths /\ Deref[p] # <<>> /\ Head(Deref[p]) # Mount
<1>1. Len(p) \in Nat /\ \A i \in 1 .. Len(p) : p[i] \in STRING
  BY Beginnings, ElementOfSeq DEF Paths
<1>2. LinkAt(p) \subseteq 1 .. Len(p) /\ \A l \in LinkAt(p) : Thing(Up(p, l)).kind = "link"
  BY DEF LinkAt
<1>3. ASSUME NEW i \in LinkAt(p), NEW l \in LinkAt(p), i < l PROVE FALSE
  <2>1. l \in 0 .. Len(p) /\ i \in 0 .. l
    BY <1>1, <1>2, <1>3
  <2> QED BY <1>2, <1>3, <2>1, InFolders
<1>4. \A l \in LinkAt(p) : l = k
  <2> TAKE l \in LinkAt(p)
  <2>1. ~(l < k) /\ ~(k < l)
    BY <1>3
  <2> QED BY <1>1, <1>2, <2>1
<1>5. LinkAt(p) = {k}
  BY <1>4
<1> DEFINE to == Thing(Up(p, k)).to
           left == SubSeq(p, k + 1, Len(p))
<1>6. Deref[p] = to \o left
  <2>1. (CHOOSE l \in LinkAt(p) : TRUE) = k
    BY <1>5
  <2> QED BY <1>5, <2>1 DEF Deref
<1>7. to \in LinkTargets
  BY <1>2, ThingKinds
<1>8. to \in Paths /\ to # <<>> /\ Head(to) # Mount
  BY <1>7, ProbeAssumption
<1>9. left \in Paths
  <2>1. \A i \in k + 1 .. Len(p) : p[i] \in STRING
    BY <1>1, <1>2
  <2>2. k + 1 \in Int /\ Len(p) \in Int
    BY <1>1, <1>2
  <2> QED BY <2>1, <2>2, SubSeqProperties DEF Paths
<1>10. to \o left \in Paths /\ to \o left # <<>> /\ Head(to \o left) # Mount
  <2> HIDE DEF to, left
  <2>1. to \in Seq(STRING) /\ left \in Seq(STRING) /\ Len(to) \in Nat \ {0}
    BY <1>8, <1>9, EmptySeq DEF Paths
  <2>2. Len(left) \in Nat
    BY <2>1, LenProperties
  <2>3. /\ to \o left \in Seq(STRING) /\ Len(to \o left) = Len(to) + Len(left)
        /\ \A i \in 1 .. Len(to) + Len(left) :
               (to \o left)[i] = IF i <= Len(to) THEN to[i] ELSE left[i - Len(to)]
    BY <2>1, ConcatProperties
  <2>4. (to \o left)[1] = to[1] /\ Len(to \o left) # 0
    BY <2>1, <2>2, <2>3
  <2>5. to \o left # <<>>
    BY <2>4, EmptySeq
  <2>6. Head(to) = to[1] /\ Head(to \o left) = (to \o left)[1]
    <3> DEFINE whole == to \o left
    <3>1. whole \in Seq(STRING) /\ whole # <<>> /\ to \in Seq(STRING) /\ to # <<>>
      BY <1>8, <2>1, <2>3, <2>5
    <3> HIDE DEF whole
    <3>2. Head(to) = to[1] /\ Head(whole) = whole[1]
      BY <3>1
    <3> QED BY <3>2 DEF whole
  <2> QED BY <1>8, <2>3, <2>4, <2>5, <2>6 DEF Paths
<1> QED BY <1>1, <1>2, <1>5, <1>6, <1>8, <1>9, <1>10

LEMMA DerefType ==
    ASSUME host \in Hosts, NEW p \in Paths
    PROVE  Deref[p] \in Paths /\ (LinkAt(p) = {} => Deref[p] = p)
<1>1. CASE LinkAt(p) = {}
  BY <1>1 DEF Deref
<1>2. CASE LinkAt(p) # {}
  BY <1>2, OneLink
<1> QED BY <1>1, <1>2

\* Following a link leaves what comes after it alone.
LEMMA LinkStays ==
    ASSUME host \in Hosts, NEW p \in Paths, NEW rest \in Paths, LinkAt(p) # {}
    PROVE  LinkAt(p \o rest) # {} /\ Deref[p \o rest] = Deref[p] \o rest
<1>1. PICK k : k \in LinkAt(p)
  OBVIOUS
<1>2. /\ k \in 1 .. Len(p) /\ Len(p) \in Nat
      /\ Deref[p] = Thing(Up(p, k)).to \o SubSeq(p, k + 1, Len(p))
      /\ Thing(Up(p, k)).to \in Paths /\ SubSeq(p, k + 1, Len(p)) \in Paths
      /\ Thing(Up(p, k)).kind = "link"
  BY <1>1, OneLink DEF LinkAt
<1>3. /\ p \o rest \in Paths /\ Len(p \o rest) = Len(p) + Len(rest) /\ Len(rest) \in Nat
      /\ Up(p \o rest, k) = Up(p, k)
  BY <1>2, BeginningsStay
<1>4. k \in LinkAt(p \o rest)
  BY <1>2, <1>3 DEF LinkAt
<1>5. Deref[p \o rest] = Thing(Up(p, k)).to \o SubSeq(p \o rest, k + 1, Len(p \o rest))
  BY <1>3, <1>4, OneLink
<1> DEFINE x == p \o rest
           to == Thing(Up(p, k)).to
           long == SubSeq(x, k + 1, Len(x))
           left == SubSeq(p, k + 1, Len(p))
<1>6. /\ \A i \in 1 .. Len(p) + Len(rest) : x[i] = IF i <= Len(p) THEN p[i] ELSE rest[i - Len(p)]
      /\ \A i \in 1 .. Len(x) : x[i] \in STRING
      /\ \A i \in 1 .. Len(p) : p[i] \in STRING
  BY <1>3, ConcatProperties, ElementOfSeq DEF Paths
<1>7. /\ Deref[p] = to \o left /\ Deref[x] = to \o long
      /\ to \in Seq(STRING) /\ left \in Seq(STRING) /\ rest \in Seq(STRING)
  BY <1>2, <1>5 DEF Paths
<1>8. x \in Paths /\ Len(x) = Len(p) + Len(rest) /\ k \in LinkAt(x)
  BY <1>3, <1>4
<1> HIDE DEF x, to
<1>9. long = left \o rest
  <2>1. k + 1 \in Int /\ Len(p) \in Int /\ Len(x) \in Int
    BY <1>2, <1>3, <1>8
  <2>2. /\ \A i \in k + 1 .. Len(x) : x[i] \in STRING
        /\ \A i \in k + 1 .. Len(p) : p[i] \in STRING
    BY <1>2, <1>6
  <2>3. /\ long \in Seq(STRING)
        /\ Len(long) = IF k + 1 <= Len(x) THEN Len(x) - (k + 1) + 1 ELSE 0
        /\ \A i \in 1 .. Len(x) - (k + 1) + 1 : long[i] = x[(k + 1) + i - 1]
    BY <2>1, <2>2, SubSeqProperties
  <2>4. /\ left \in Seq(STRING)
        /\ Len(left) = IF k + 1 <= Len(p) THEN Len(p) - (k + 1) + 1 ELSE 0
        /\ \A i \in 1 .. Len(p) - (k + 1) + 1 : left[i] = p[(k + 1) + i - 1]
    BY <2>1, <2>2, SubSeqProperties
  <2> HIDE DEF long, left
  <2>5. /\ left \o rest \in Seq(STRING) /\ Len(left \o rest) = Len(left) + Len(rest)
        /\ \A i \in 1 .. Len(left) + Len(rest) :
               (left \o rest)[i] = IF i <= Len(left) THEN left[i] ELSE rest[i - Len(left)]
    BY <2>4, ConcatProperties DEF Paths
  <2>6. Len(long) = Len(p) + Len(rest) - k /\ Len(left) = Len(p) - k
    <3>1. /\ k \in Int /\ Len(p) \in Int /\ Len(rest) \in Nat /\ k <= Len(p)
          /\ Len(x) = Len(p) + Len(rest)
      BY <1>2, <1>3, <1>8
    <3>2. Len(long) = IF k + 1 <= Len(x) THEN Len(x) - (k + 1) + 1 ELSE 0
      BY <2>3
    <3>3. Len(left) = IF k + 1 <= Len(p) THEN Len(p) - (k + 1) + 1 ELSE 0
      BY <2>4
    <3> QED BY <3>1, <3>2, <3>3
  <2>7. ASSUME NEW i \in 1 .. Len(long) PROVE long[i] = (left \o rest)[i]
    <3>1. k + i \in 1 .. Len(p) + Len(rest) /\ i \in Int /\ (k + 1) + i - 1 = k + i
      BY <1>2, <1>3, <2>6
    <3>2. long[i] = x[k + i]
      BY <1>2, <1>3, <1>8, <2>3, <2>6, <3>1
    <3>3. CASE i <= Len(left)
      <4>1. k + i <= Len(p) /\ i \in 1 .. Len(left) + Len(rest) /\ i \in 1 .. Len(p) - (k + 1) + 1
        BY SMTT(30), <1>2, <1>3, <2>6, <3>1, <3>3
      <4>2. left[i] = p[k + i]
        BY <2>4, <3>1, <4>1
      <4> QED BY <1>6, <2>5, <3>1, <3>2, <3>3, <4>1, <4>2
    <3>4. CASE ~(i <= Len(left))
      <4>1. ~(k + i <= Len(p)) /\ (k + i) - Len(p) = i - Len(left) /\ i \in 1 .. Len(left) + Len(rest)
        BY <1>2, <1>3, <2>6, <3>1, <3>4
      <4> QED BY <1>6, <2>5, <3>1, <3>2, <3>4, <4>1
    <3> QED BY <3>3, <3>4
  <2>8. Len(long) = Len(left \o rest)
    BY <1>2, <1>3, <2>5, <2>6
  <2> QED BY <2>3, <2>5, <2>7, <2>8, SeqEqual
<1> HIDE DEF long, left
<1>10. (to \o left) \o rest = to \o (left \o rest)
  BY <1>7, ConcatAssociative
<1> QED BY <1>7, <1>8, <1>9, <1>10 DEF x

\* Beneath a file or beneath nothing there is nothing.
LEMMA NothingBeneath ==
    ASSUME host \in Hosts, NEW p \in Paths, NEW k \in 0 .. Len(p),
           Thing(Up(p, k)).kind # "dir", NEW j \in 0 .. Len(p), k < j
    PROVE  Thing(Up(p, j)).kind = "none"
<1>1. k \in 0 .. j
  BY Beginnings
<1> QED BY <1>1, InFolders

LEMMA EndsThere ==
    ASSUME host \in Hosts, NEW q \in Paths, q # <<>>, NEW rest \in Paths,
           LinkAt(q) = {}, UnderFile(q) \/ Thing(q).kind = "none"
    PROVE  /\ LinkAt(q \o rest) = {}
           /\ UnderFile(q) => UnderFile(q \o rest)
           /\ ~UnderFile(q) => ~UnderFile(q \o rest) /\ Thing(q \o rest).kind = "none"
<1> DEFINE x == q \o rest
<1>1. /\ Len(q) \in Nat \ {0} /\ Len(rest) \in Nat /\ x \in Paths /\ Len(x) = Len(q) + Len(rest)
      /\ \A k \in 0 .. Len(q) : Up(x, k) = Up(q, k)
      /\ Up(q, Len(q)) = q /\ Up(x, Len(x)) = x
  <2>1. Len(q) \in Nat \ {0} /\ 0 \in 0 .. Len(q)
    BY EmptySeq DEF Paths
  <2>2. /\ Len(rest) \in Nat /\ x \in Paths /\ Len(x) = Len(q) + Len(rest)
        /\ \A k \in 0 .. Len(q) : Up(x, k) = Up(q, k)
    BY <2>1, BeginningsStay
  <2>3. Up(q, Len(q)) = q /\ Up(x, Len(x)) = x
    BY <2>2, SubSeqFull DEF Up, Paths
  <2> QED BY <2>1, <2>2, <2>3
<1> HIDE DEF x
\* The first place that is no folder.
<1>2. PICK f \in 1 .. Len(q) :
          /\ Thing(Up(x, f)).kind \in {"none", "file"}
          /\ UnderFile(q) => f < Len(q) /\ Thing(Up(x, f)).kind = "file"
          /\ ~UnderFile(q) => f = Len(q) /\ Thing(Up(x, f)).kind = "none"
  <2>1. CASE UnderFile(q)
    BY <1>1, <2>1 DEF UnderFile
  <2>2. CASE ~UnderFile(q)
    BY <1>1, <2>2
  <2> QED BY <2>1, <2>2
<1>3. \A j \in 0 .. Len(x) : f < j => Thing(Up(x, j)).kind = "none"
  BY <1>1, <1>2, NothingBeneath
<1>4. ASSUME NEW k \in LinkAt(x) PROVE FALSE
  <2>1. k \in 1 .. Len(x) /\ Thing(Up(x, k)).kind = "link"
    BY <1>4 DEF LinkAt
  <2>2. k <= f
    BY <1>1, <1>2, <1>3, <2>1
  <2>3. k \in LinkAt(q)
    BY <1>1, <1>2, <2>1, <2>2 DEF LinkAt
  <2> QED BY <2>3
<1>5. UnderFile(q) => UnderFile(x)
  BY <1>1, <1>2 DEF UnderFile
<1>6. ~UnderFile(q) => ~UnderFile(x) /\ Thing(x).kind = "none"
  <2> SUFFICES ASSUME ~UnderFile(q) PROVE ~UnderFile(x) /\ Thing(x).kind = "none"
    OBVIOUS
  <2>1. ASSUME NEW k \in 1 .. Len(x) - 1 PROVE Thing(Up(x, k)).kind # "file"
    <3>1. CASE k < Len(q)
      <4>1. Thing(Up(q, k)).kind # "file"
        BY <1>1, <3>1 DEF UnderFile
      <4> QED BY <1>1, <3>1, <4>1
    <3>2. CASE k = Len(q)
      BY <1>2, <3>2
    <3>3. CASE k > Len(q)
      BY <1>1, <1>2, <1>3, <3>3
    <3> QED BY <1>1, <3>1, <3>2, <3>3
  <2>2. Thing(x).kind = "none"
    <3>1. CASE Len(rest) = 0
      BY <1>1, <1>2, <3>1
    <3>2. CASE Len(rest) > 0
      BY <1>1, <1>2, <1>3, <3>2
    <3> QED BY <1>1, <3>1, <3>2
  <2> QED BY <2>1, <2>2 DEF UnderFile
<1> QED BY <1>4, <1>5, <1>6 DEF x

-----------------------------------------------------------------------------
\* Links followed one after the other.
LEMMA FollowedStep ==
    ASSUME host \in Hosts, NEW p \in Paths
    PROVE  /\ Followed(p, 0) = p
           /\ \A n \in Nat : Followed(p, n) \in Paths /\ Followed(p, n + 1) = Deref[Followed(p, n)]
<1>1. Followed(p, 0) = p /\ \A n \in Nat : Followed(p, n + 1) = Deref[Followed(p, n)]
  BY Iterates DEF Followed
<1> DEFINE Typed == {n \in Nat : Followed(p, n) \in Paths}
<1>2. 0 \in Typed
  BY <1>1
<1>3. ASSUME NEW n \in Nat, n \in Typed PROVE n + 1 \in Typed
  <2>1. Followed(p, n) \in Paths
    BY <1>3
  <2>2. Followed(p, n + 1) \in Paths
    BY <1>1, <2>1, DerefType
  <2> QED BY <2>2
<1> HIDE DEF Typed
<1>4. Nat \subseteq Typed
  BY <1>2, <1>3, Inductive
<1> QED BY <1>1, <1>4 DEF Typed

LEMMA FollowedOn ==
    ASSUME host \in Hosts, NEW p \in Paths, NEW m \in Nat, NEW n \in Nat
    PROVE  Followed(Followed(p, m), n) = Followed(p, m + n)
<1> DEFINE Sums == {i \in Nat : Followed(Followed(p, m), i) = Followed(p, m + i)}
<1>1. 0 \in Sums
  <2>1. m + 0 = m /\ Followed(p, m) \in Paths
    BY FollowedStep
  <2> QED BY <2>1, FollowedStep, Zenon
<1>2. ASSUME NEW i \in Nat, i \in Sums PROVE i + 1 \in Sums
  <2>0. m + i \in Nat /\ m + (i + 1) = (m + i) + 1
    OBVIOUS
  <2>1. Followed(p, m) \in Paths /\ m + i \in Nat /\ m + (i + 1) = (m + i) + 1
    BY <2>0, FollowedStep, Zenon
  <2>2. Followed(Followed(p, m), i + 1) = Deref[Followed(Followed(p, m), i)]
    BY <2>1, FollowedStep
  <2>3. Followed(p, (m + i) + 1) = Deref[Followed(p, m + i)]
    BY <2>1, FollowedStep
  <2> QED BY <1>2, <2>1, <2>2, <2>3
<1> HIDE DEF Sums
<1>3. n \in Sums
  BY <1>1, <1>2, Inductive
<1> QED BY <1>3 DEF Sums

\* A path without a link stays what it is.
LEMMA StraightStays ==
    ASSUME host \in Hosts, NEW p \in Paths, NEW m \in Nat,
           LinkAt(Followed(p, m)) = {}, NEW n \in Nat, m <= n
    PROVE  Followed(p, n) = Followed(p, m)
<1> DEFINE Same == {i \in Nat : Followed(p, m + i) = Followed(p, m)}
<1>1. 0 \in Same
  OBVIOUS
<1>2. ASSUME NEW i \in Nat, i \in Same PROVE i + 1 \in Same
  <2>0. m + i \in Nat /\ m + (i + 1) = (m + i) + 1
    OBVIOUS
  <2>1. Followed(p, m) \in Paths /\ m + i \in Nat /\ m + (i + 1) = (m + i) + 1
    BY <2>0, FollowedStep, Zenon
  <2>2. Followed(p, (m + i) + 1) = Deref[Followed(p, m + i)]
    BY <2>1, FollowedStep
  <2> QED BY <1>2, <2>1, <2>2, DerefType
<1> HIDE DEF Same
<1>3. n - m \in Same /\ m + (n - m) = n
  BY <1>1, <1>2, Inductive
<1> QED BY <1>3 DEF Same

\* The links of a path are followed before anything after it matters.
Tangled(p, n) == \A i \in 0 .. n : i < n => LinkAt(Followed(p, i)) # {}

LEMMA FollowedFirst ==
    ASSUME host \in Hosts, NEW p \in Paths, NEW rest \in Paths, NEW n \in Nat,
           Tangled(p, n)
    PROVE  Followed(p \o rest, n) = Followed(p, n) \o rest
<1> DEFINE Apart == {i \in Nat : i <= n => Followed(p \o rest, i) = Followed(p, i) \o rest}
<1>1. p \o rest \in Paths
  BY ConcatProperties DEF Paths
<1>2. 0 \in Apart
  BY <1>1, FollowedStep
<1>3. ASSUME NEW i \in Nat, i \in Apart PROVE i + 1 \in Apart
  <2> SUFFICES ASSUME i + 1 <= n PROVE Followed(p \o rest, i + 1) = Followed(p, i + 1) \o rest
    OBVIOUS
  <2>1. Followed(p \o rest, i) = Followed(p, i) \o rest /\ LinkAt(Followed(p, i)) # {}
    BY <1>3 DEF Tangled
  <2>2. /\ Followed(p, i) \in Paths /\ Followed(p, i + 1) = Deref[Followed(p, i)]
        /\ Followed(p \o rest, i + 1) = Deref[Followed(p \o rest, i)]
    BY <1>1, FollowedStep
  <2> QED BY <2>1, <2>2, LinkStays
<1> HIDE DEF Apart
<1>4. n \in Apart
  BY <1>2, <1>3, Inductive
<1> QED BY <1>4 DEF Apart

\* What a number of links leads to is where the path is straight for the first time, or all of
\* them were needed.
LEMMA StraightFirst ==
    ASSUME host \in Hosts, NEW p \in Paths, NEW n \in Nat
    PROVE  \/ LinkAt(Followed(p, n)) # {} /\ Tangled(p, n)
           \/ /\ LinkAt(Followed(p, n)) = {}
              /\ \E m \in Nat : m <= n /\ Followed(p, m) = Followed(p, n) /\ Tangled(p, m)
<1>1. CASE LinkAt(Followed(p, n)) # {}
  <2>1. ASSUME NEW i \in 0 .. n, i < n, LinkAt(Followed(p, i)) = {} PROVE FALSE
    BY <1>1, <2>1, StraightStays
  <2> QED BY <1>1, <2>1 DEF Tangled
<1>2. CASE LinkAt(Followed(p, n)) = {}
  <2> DEFINE Straight == {i \in Nat : LinkAt(Followed(p, i)) = {}}
  <2>1. n \in Straight /\ Straight \subseteq Nat
    BY <1>2
  <2>2. PICK m \in Straight : \A i \in Straight : m <= i
    BY <2>1, LeastOf
  <2>3. m \in Nat /\ m <= n /\ LinkAt(Followed(p, m)) = {}
    BY <2>1, <2>2
  <2>4. Followed(p, n) = Followed(p, m)
    BY <2>3, StraightStays
  <2>5. Tangled(p, m)
    BY <2>2, <2>3 DEF Tangled
  <2> QED BY <1>2, <2>3, <2>4, <2>5
<1> QED BY <1>1, <1>2

-----------------------------------------------------------------------------
\* What the host has, told from anywhere on the way.
LEMMA FoundOnTheWay ==
    ASSUME host \in Hosts, NEW p \in Paths, NEW d \in Nat
    PROVE  /\ LinkAt(Followed(p, d)) = {} =>
                Found(p) \in {"unknown", IF UnderFile(Followed(p, d)) THEN "under file"
                                         ELSE Thing(Followed(p, d)).kind}
           /\ LinkAt(Followed(p, d)) # {} /\ MaxSymlinkHops <= d => Found(p) = "unknown"
<1>1. MaxSymlinkHops \in Nat /\ EngineLinks \in Nat /\ MaxSymlinkHops <= EngineLinks
  BY ProbeAssumption
<1>2. ASSUME LinkAt(Followed(p, MaxSymlinkHops)) = {}
      PROVE  End(p) = Followed(p, MaxSymlinkHops)
  BY <1>1, <1>2, StraightStays DEF End
<1>3. ASSUME LinkAt(Followed(p, d)) = {}, LinkAt(Followed(p, MaxSymlinkHops)) = {}
      PROVE  Followed(p, d) = End(p)
  <2>1. CASE d <= MaxSymlinkHops
    BY <1>1, <1>2, <1>3, <2>1, StraightStays
  <2>2. CASE MaxSymlinkHops <= d
    BY <1>1, <1>2, <1>3, <2>2, StraightStays
  <2> QED BY <1>1, <2>1, <2>2
<1>4. ASSUME LinkAt(Followed(p, d)) # {}, MaxSymlinkHops <= d
      PROVE  LinkAt(Followed(p, MaxSymlinkHops)) # {}
  BY <1>1, <1>4, StraightStays
<1> QED BY <1>3, <1>4 DEF Found

\* A walk that stops at the end of a beginning of the path that has none of it left.
LEMMA StopsThere ==
    ASSUME host \in Hosts, NEW path \in Paths, NEW current \in Paths,
           NEW rest \in Paths, NEW d \in Nat, current \o rest = Followed(path, d),
           NEW m \in Nat, Tangled(current, m)
    PROVE  /\ Followed(path, d + m) = Followed(current, m) \o rest
           /\ d + m \in Nat
<1>1. /\ Followed(path, d) \in Paths /\ d + m \in Nat
      /\ Followed(Followed(path, d), m) = Followed(path, d + m)
  <2>1. d + m \in Nat
    OBVIOUS
  <2>2. Followed(path, d) \in Paths
    BY FollowedStep, Zenon
  <2> QED BY <2>1, <2>2, FollowedOn
<1>2. Followed(current \o rest, m) = Followed(current, m) \o rest
  BY FollowedFirst
<1> QED BY <1>1, <1>2

LEMMA TooManyLinks ==
    ASSUME host \in Hosts, NEW path \in Paths, NEW current \in Paths,
           NEW rest \in Paths, NEW d \in Nat, current \o rest = Followed(path, d),
           NEW m \in Nat, Tangled(current, m), LinkAt(Followed(current, m)) # {},
           MaxSymlinkHops <= d + m
    PROVE  Found(path) = "unknown"
<1>1. Followed(path, d + m) = Followed(current, m) \o rest /\ d + m \in Nat
  BY StopsThere
<1>2. Followed(current, m) \in Paths
  BY FollowedStep
<1>3. LinkAt(Followed(path, d + m)) # {}
  BY <1>1, <1>2, LinkStays
<1> QED BY <1>1, <1>3, FoundOnTheWay

LEMMA NothingFurther ==
    ASSUME host \in Hosts, NEW path \in Paths, NEW current \in Paths,
           NEW rest \in Paths, NEW d \in Nat, current \o rest = Followed(path, d),
           NEW m \in Nat, Tangled(current, m), NEW q, q = Followed(current, m), q # <<>>,
           LinkAt(q) = {}, UnderFile(q) \/ Thing(q).kind = "none"
    PROVE  /\ UnderFile(q) => Found(path) \in {"unknown", "under file"}
           /\ ~UnderFile(q) => Found(path) \in {"unknown", "none"}
<1>1. Followed(path, d + m) = q \o rest /\ d + m \in Nat /\ q \in Paths
  <2>1. Followed(path, d + m) = Followed(current, m) \o rest /\ d + m \in Nat
    BY StopsThere
  <2>2. Followed(current, m) \in Paths
    BY FollowedStep
  <2> QED BY <2>1, <2>2
<1>2. /\ LinkAt(q \o rest) = {}
      /\ UnderFile(q) => UnderFile(q \o rest)
      /\ ~UnderFile(q) => ~UnderFile(q \o rest) /\ Thing(q \o rest).kind = "none"
  BY <1>1, EndsThere
<1>3. Found(path) \in {"unknown", IF UnderFile(q \o rest) THEN "under file" ELSE Thing(q \o rest).kind}
  BY <1>1, <1>2, FoundOnTheWay
<1> QED BY <1>2, <1>3

\* A path that is not empty does not lead to "/".
LEMMA NotToTheRoot ==
    ASSUME host \in Hosts, NEW p \in Paths, p # <<>>, NEW n \in Nat
    PROVE  Followed(p, n) # <<>>
<1> DEFINE Lower == {i \in Nat : Followed(p, i) # <<>>}
<1>1. 0 \in Lower
  BY FollowedStep
<1>2. ASSUME NEW i \in Nat, i \in Lower PROVE i + 1 \in Lower
  <2>1. Followed(p, i) # <<>> /\ Followed(p, i) \in Paths /\ Followed(p, i + 1) = Deref[Followed(p, i)]
    BY <1>2, FollowedStep
  <2>2. Deref[Followed(p, i)] # <<>>
    <3>1. CASE LinkAt(Followed(p, i)) = {}
      BY <2>1, <3>1, DerefType
    <3>2. CASE LinkAt(Followed(p, i)) # {}
      BY <2>1, <3>2, OneLink
    <3> QED BY <3>1, <3>2
  <2> QED BY <2>1, <2>2
<1> HIDE DEF Lower
<1>3. n \in Lower
  BY <1>1, <1>2, Inductive
<1> QED BY <1>3 DEF Lower

-----------------------------------------------------------------------------
\* Docker, in the scope of the container: the links of a path under the mount are followed one
\* by one, until there is none left or one leads out of the mount.
InMount(p) == <<Mount>> \o p

LEMMA MountTail ==
    ASSUME NEW p \in Paths
    PROVE  /\ InMount(p) \in Paths /\ InMount(p) # <<>>
           /\ Head(InMount(p)) = Mount /\ Tail(InMount(p)) = p
<1>1. <<Mount>> \in Seq(STRING) /\ Len(<<Mount>>) = 1 /\ <<Mount>>[1] = Mount /\ p \in Seq(STRING)
  <2>1. Mount \in STRING
    BY ProbeAssumption
  <2>2. \A S : \A s \in S : <<s>> \in Seq(S) /\ Len(<<s>>) = 1 /\ <<s>>[1] = s
    OBVIOUS
  <2> QED BY <2>1, <2>2 DEF Paths
<1>2. Len(p) \in Nat
  BY <1>1, LenProperties
<1> DEFINE x == <<Mount>> \o p
<1>3. /\ x \in Seq(STRING) /\ Len(x) = 1 + Len(p)
      /\ \A i \in 1 .. 1 + Len(p) : x[i] = IF i <= 1 THEN <<Mount>>[i] ELSE p[i - 1]
  BY <1>1, ConcatProperties
<1> HIDE DEF x
<1>4. x # <<>>
  BY <1>2, <1>3, EmptySeq
<1>5. Head(x) = Mount
  <2>1. x[1] = Mount
    BY <1>1, <1>2, <1>3
  <2> QED BY <1>3, <1>4, <2>1
<1>6. Tail(x) = p
  <2>1. /\ Tail(x) \in Seq(STRING) /\ Len(Tail(x)) = Len(x) - 1
        /\ \A i \in 1 .. Len(Tail(x)) : Tail(x)[i] = x[i + 1]
    BY <1>3, <1>4, HeadTailProperties
  <2>2. Len(Tail(x)) = Len(p)
    BY <1>2, <1>3, <2>1
  <2>3. ASSUME NEW i \in 1 .. Len(Tail(x)) PROVE Tail(x)[i] = p[i]
    <3>1. i + 1 \in 1 .. 1 + Len(p) /\ ~(i + 1 <= 1) /\ (i + 1) - 1 = i
      BY <1>2, <2>2
    <3> QED BY <1>3, <2>1, <3>1
  <2> QED BY <1>1, <2>1, <2>2, <2>3, SeqEqual
<1> QED BY <1>3, <1>4, <1>5, <1>6 DEF x, InMount, Paths

LEMMA InScopeStep ==
    ASSUME host \in Hosts, NEW p \in Paths
    PROVE  /\ LinkAt(p) = {} => InScope[InMount(p)] = InMount(p)
           /\ LinkAt(p) # {} => InScope[InMount(p)] \in {InMount(Deref[p]), Deref[p]}
           /\ p = <<>> \/ Head(p) # Mount => InScope[p] = p
<1>1. /\ InMount(p) \in Paths /\ InMount(p) # <<>>
      /\ Head(InMount(p)) = Mount /\ Tail(InMount(p)) = p
  BY MountTail
<1>2. InScope[InMount(p)] =
          IF LinkAt(p) = {} THEN InMount(p)
          ELSE IF Thing(Up(p, CHOOSE k \in LinkAt(p) : TRUE)).relative
               THEN InMount(Deref[p]) ELSE Deref[p]
  BY <1>1 DEF InScope, InMount
<1>3. p = <<>> \/ Head(p) # Mount => InScope[p] = p
  BY DEF InScope
<1> QED BY <1>2, <1>3

\* Where the n-th link of a path under the mount leads, in the scope of the container.
ScopedTo(p, n, x) ==
    \E m \in Nat :
        /\ m <= n /\ Tangled(p, m)
        /\ \/ x = InMount(Followed(p, m)) /\ (m = n \/ LinkAt(Followed(p, m)) = {})
           \/ x = Followed(p, m) /\ x \in Paths /\ x # <<>> /\ Head(x) # Mount /\ m > 0

LEMMA Scoped ==
    ASSUME host \in Hosts, NEW p \in Paths, NEW n \in Nat
    PROVE  ScopedTo(p, n, Iterated(InScope, InMount(p), n))
<1> DEFINE X(i) == Iterated(InScope, InMount(p), i)
           There == {i \in Nat : ScopedTo(p, i, X(i))}
<1>1. X(0) = InMount(p) /\ \A i \in Nat : X(i + 1) = InScope[X(i)]
  BY Iterates
<1> HIDE DEF X
<1>2. 0 \in There
  <2>1. Tangled(p, 0)
    BY DEF Tangled
  <2>2. Followed(p, 0) = p
    BY FollowedStep
  <2> QED BY <1>1, <2>1, <2>2 DEF ScopedTo
<1>3. ASSUME NEW i \in Nat, i \in There PROVE i + 1 \in There
  <2>1. PICK m \in Nat :
          /\ m <= i /\ Tangled(p, m)
          /\ \/ X(i) = InMount(Followed(p, m)) /\ (m = i \/ LinkAt(Followed(p, m)) = {})
             \/ X(i) = Followed(p, m) /\ X(i) \in Paths /\ X(i) # <<>> /\ Head(X(i)) # Mount /\ m > 0
    BY <1>3 DEF ScopedTo
  <2>2. X(i + 1) = InScope[X(i)] /\ Followed(p, m) \in Paths /\ m <= i + 1
    BY <1>1, <2>1, FollowedStep
  <2>3. CASE X(i) = Followed(p, m) /\ X(i) \in Paths /\ X(i) # <<>> /\ Head(X(i)) # Mount /\ m > 0
    <3>1. X(i + 1) = X(i)
      BY <2>2, <2>3, InScopeStep
    <3> QED BY <2>1, <2>2, <2>3, <3>1 DEF ScopedTo
  <2>4. CASE X(i) = InMount(Followed(p, m)) /\ LinkAt(Followed(p, m)) = {}
    <3>1. X(i + 1) = X(i)
      BY <2>2, <2>4, InScopeStep
    <3> QED BY <2>1, <2>2, <2>4, <3>1 DEF ScopedTo
  <2>5. CASE X(i) = InMount(Followed(p, i)) /\ m = i /\ LinkAt(Followed(p, i)) # {}
    <3>1. /\ Followed(p, i) \in Paths /\ Followed(p, i + 1) = Deref[Followed(p, i)]
          /\ Followed(p, i + 1) \in Paths
      <4>1. Followed(p, i) \in Paths /\ Followed(p, i + 1) = Deref[Followed(p, i)]
        BY FollowedStep
      <4> QED BY <4>1, DerefType
    <3>2. X(i + 1) \in {InMount(Followed(p, i + 1)), Followed(p, i + 1)}
      BY <2>2, <2>5, <3>1, InScopeStep
    <3>3. Followed(p, i + 1) # <<>> /\ Head(Followed(p, i + 1)) # Mount
      BY <2>5, <3>1, OneLink
    <3>4. Tangled(p, i + 1)
      BY <2>1, <2>5 DEF Tangled
    <3> QED BY <3>1, <3>2, <3>3, <3>4 DEF ScopedTo
  <2> QED BY <2>1, <2>3, <2>4, <2>5
<1> HIDE DEF There
<1>4. n \in There
  BY <1>2, <1>3, Inductive
<1> QED BY <1>4 DEF There, X

\* A component more.
LEMMA OneMore ==
    ASSUME NEW r \in Paths, NEW comp \in STRING
    PROVE  /\ Append(r, comp) \in Paths /\ Append(r, comp) # <<>>
           /\ Len(r) \in Nat /\ Len(Append(r, comp)) = Len(r) + 1
           /\ \A k \in 0 .. Len(r) : Up(Append(r, comp), k) = Up(r, k)
           /\ Up(r, Len(r)) = r /\ Up(Append(r, comp), Len(r) + 1) = Append(r, comp)
           /\ Append(r, comp) = r \o <<comp>>
<1>1. /\ Append(r, comp) \in Paths /\ Append(r, comp) # <<>>
      /\ Len(Append(r, comp)) = Len(r) + 1 /\ Len(r) \in Nat
      /\ Append(r, comp) = r \o <<comp>>
  BY AppendProperties, AppendIsConcat, LenProperties DEF Paths
<1>2. <<comp>> \in Paths
  <2>1. \A S : \A s \in S : <<s>> \in Seq(S)
    OBVIOUS
  <2> QED BY <2>1 DEF Paths
<1>3. \A k \in 0 .. Len(r) : Up(r \o <<comp>>, k) = Up(r, k)
  BY <1>2, BeginningsStay
<1>4. Up(r, Len(r)) = r /\ Up(Append(r, comp), Len(Append(r, comp))) = Append(r, comp)
  BY <1>1, SubSeqFull DEF Up, Paths
<1> QED BY <1>1, <1>3, <1>4

LEMMA MountFront ==
    ASSUME NEW r \in Paths, NEW comp \in STRING
    PROVE  /\ InMount(Append(r, comp)) = Append(InMount(r), comp)
           /\ Front(InMount(Append(r, comp))) = InMount(r)
           /\ Last(InMount(Append(r, comp))) = comp
           /\ InMount(r) \o <<comp>> = InMount(Append(r, comp))
<1>1. InMount(r) \in Paths /\ <<Mount>> \in Paths /\ <<comp>> \in Paths
  <2>1. \A S : \A s \in S : <<s>> \in Seq(S)
    OBVIOUS
  <2> QED BY <2>1, MountTail, ProbeAssumption DEF Paths
<1>2. /\ Append(InMount(r), comp) = InMount(r) \o <<comp>>
      /\ Append(r, comp) = r \o <<comp>>
  BY <1>1, OneMore
<1>3. <<Mount>> \o (r \o <<comp>>) = (<<Mount>> \o r) \o <<comp>>
  BY <1>1, ConcatAssociative DEF Paths
<1>4. InMount(Append(r, comp)) = Append(InMount(r), comp)
  BY <1>2, <1>3 DEF InMount
<1> DEFINE x == Append(InMount(r), comp)
<1>5. /\ Len(InMount(r)) \in Nat /\ Len(x) = Len(InMount(r)) + 1
      /\ Up(x, Len(InMount(r))) = InMount(r)
      /\ x[Len(InMount(r)) + 1] = comp
  <2>1. /\ Len(InMount(r)) \in Nat /\ Len(x) = Len(InMount(r)) + 1
        /\ Up(x, Len(InMount(r))) = Up(InMount(r), Len(InMount(r)))
        /\ Up(InMount(r), Len(InMount(r))) = InMount(r)
    <3>1. /\ Len(InMount(r)) \in Nat /\ Len(x) = Len(InMount(r)) + 1
          /\ \A k \in 0 .. Len(InMount(r)) : Up(x, k) = Up(InMount(r), k)
          /\ Up(InMount(r), Len(InMount(r))) = InMount(r)
      BY <1>1, OneMore
    <3>2. Len(InMount(r)) \in 0 .. Len(InMount(r))
      BY <3>1
    <3> QED BY <3>1, <3>2
  <2>2. x[Len(InMount(r)) + 1] = comp
    BY <1>1, AppendProperties DEF Paths
  <2> QED BY <2>1, <2>2
<1> HIDE DEF x
<1>6. Front(x) = InMount(r) /\ Last(x) = comp
  <2>1. (Len(InMount(r)) + 1) - 1 = Len(InMount(r))
    BY <1>5
  <2> QED BY <1>5, <2>1 DEF Front, Last, Up
<1> QED BY <1>2, <1>4, <1>6 DEF x

\* The component that is looked at is the only one of Docker's that may be a link.
LEMMA OnlyTheLast ==
    ASSUME host \in Hosts, NEW r \in Paths, NEW comp \in STRING, LinkAt(r) = {}
    PROVE  /\ LinkAt(Append(r, comp)) # {} <=> Thing(Append(r, comp)).kind = "link"
           /\ UnderFile(Append(r, comp)) => LinkAt(Append(r, comp)) = {}
<1> DEFINE x == Append(r, comp)
<1>1. /\ x \in Paths /\ x # <<>> /\ Len(r) \in Nat /\ Len(x) = Len(r) + 1
      /\ \A k \in 0 .. Len(r) : Up(x, k) = Up(r, k)
      /\ Up(x, Len(r) + 1) = x
  BY OneMore
<1> HIDE DEF x
<1>2. ASSUME NEW k \in LinkAt(x) PROVE k = Len(x) /\ Thing(x).kind = "link"
  <2>1. k \in 1 .. Len(x) /\ Thing(Up(x, k)).kind = "link"
    BY <1>2 DEF LinkAt
  <2>2. ~(k \in 1 .. Len(r))
    <3> SUFFICES ASSUME k \in 1 .. Len(r) PROVE FALSE
      OBVIOUS
    <3>1. Up(x, k) = Up(r, k)
      BY <1>1
    <3> QED BY <2>1, <3>1 DEF LinkAt
  <2> QED BY <1>1, <2>1, <2>2
<1>3. Thing(x).kind = "link" => Len(x) \in LinkAt(x)
  BY <1>1 DEF LinkAt
<1>4. UnderFile(x) => Thing(x).kind # "link"
  <2> SUFFICES ASSUME UnderFile(x), Thing(x).kind = "link" PROVE FALSE
    OBVIOUS
  <2>1. PICK k \in 1 .. Len(x) - 1 : Thing(Up(x, k)).kind = "file"
    BY DEF UnderFile
  <2>2. k \in 0 .. Len(x) /\ Len(x) \in 0 .. Len(x) /\ k < Len(x) /\ k \in 0 .. Len(x)
    BY <1>1
  <2>3. Thing(Up(x, Len(x))).kind = "none"
    BY <1>1, <2>1, <2>2, NothingBeneath
  <2> QED BY <1>1, <2>3
<1> QED BY <1>2, <1>3, <1>4 DEF x

-----------------------------------------------------------------------------
\* What an answer about a component says of the host.
SaysTooMany(cur, stat) ==
    /\ stat = Refused("unknown")
    /\ Tangled(cur, EngineLinks) /\ LinkAt(Followed(cur, EngineLinks)) # {}

SaysNothing(cur, stat) ==
    \E m \in Nat :
        /\ Tangled(cur, m) /\ LinkAt(Followed(cur, m)) = {}
        /\ \/ UnderFile(Followed(cur, m)) /\ stat \in {Refused("not-found"), Refused("unknown")}
           \/ /\ ~UnderFile(Followed(cur, m)) /\ Thing(Followed(cur, m)).kind = "none"
              /\ stat = Refused("not-found")

SaysSomething(cur, stat) ==
    /\ stat.ok /\ stat.kind = Thing(End(cur)).kind /\ stat.kind \in {"dir", "file"}
    /\ LinkAt(End(cur)) = {} /\ ~UnderFile(End(cur))
    /\ engine = "Docker" => LinkAt(cur) = {}

SaysLink(cur, stat) ==
    /\ stat.ok /\ stat.kind = "link" /\ LinkAt(cur) # {}
    /\ \E m \in Nat \ {0} : Tangled(cur, m) /\ hostPathOfLinkTarget(stat.linkTarget) = Followed(cur, m)

Says(cur, stat) ==
    SaysTooMany(cur, stat) \/ SaysNothing(cur, stat) \/ SaysSomething(cur, stat) \/ SaysLink(cur, stat)

LEMMA PodmanTells ==
    ASSUME host \in Hosts, engine = "Podman", NEW cur \in Paths, cur # <<>>,
           NEW stat \in Answers(InMount(cur))
    PROVE  Says(cur, stat)
<1> DEFINE q == Followed(cur, EngineLinks)
<1>1. EngineLinks \in Nat
  BY ProbeAssumption
<1>2. End(Tail(InMount(cur))) = q /\ End(cur) = q
  BY MountTail DEF End
<1>3. q \in Paths /\ q # <<>>
  BY <1>1, FollowedStep, NotToTheRoot
<1> HIDE DEF q
<1>4. stat \in IF LinkAt(q) # {} THEN {Refused("unknown")} ELSE Told(q, Thing(q).kind, <<>>)
  BY <1>2 DEF Answers
<1>5. CASE LinkAt(q) # {}
  <2>1. Tangled(cur, EngineLinks)
    BY <1>1, <1>5, StraightFirst DEF q
  <2> QED BY <1>4, <1>5, <2>1 DEF Says, SaysTooMany, q
<1>6. CASE LinkAt(q) = {}
  <2>1. PICK m \in Nat : Followed(cur, m) = q /\ Tangled(cur, m)
    BY <1>1, <1>6, StraightFirst DEF q
  <2>2. stat \in Told(q, Thing(q).kind, <<>>)
    BY <1>4, <1>6
  <2>3. CASE UnderFile(q)
    <3>1. stat \in {Refused("not-found"), Refused("unknown")}
      BY <2>2, <2>3 DEF Told
    <3> QED BY <1>6, <2>1, <2>3, <3>1 DEF Says, SaysNothing
  <2>4. CASE ~UnderFile(q) /\ Thing(q).kind = "none"
    <3>1. stat = Refused("not-found")
      BY <2>2, <2>4 DEF Told
    <3> QED BY <1>6, <2>1, <2>4, <3>1 DEF Says, SaysNothing
  <2>5. CASE ~UnderFile(q) /\ Thing(q).kind # "none"
    <3>1. stat = Stat(Thing(q).kind, <<>>)
      BY <2>2, <2>5 DEF Told
    <3>2. Thing(q).kind # "link"
      <4>1. Len(q) \in Nat \ {0} /\ Up(q, Len(q)) = q
        BY <1>3, EmptySeq, SubSeqFull DEF Paths, Up
      <4> QED BY <1>6, <4>1 DEF LinkAt
    <3>3. Thing(q).kind \in {"dir", "file"}
      BY <2>5, <3>2, ThingKinds
    <3> QED BY <1>2, <1>6, <2>5, <3>1, <3>3 DEF Says, SaysSomething, Stat
  <2> QED BY <2>3, <2>4, <2>5
<1> QED BY <1>5, <1>6

LEMMA DockerTells ==
    ASSUME host \in Hosts, engine = "Docker", NEW r \in Paths, NEW comp \in STRING, LinkAt(r) = {},
           NEW stat \in Answers(InMount(Append(r, comp)))
    PROVE  Says(Append(r, comp), stat)
<1> DEFINE cur == Append(r, comp)
           end == ScopedEnd(InMount(cur))
           At(m) == Followed(cur, m)
<1>1. EngineLinks \in Nat /\ cur \in Paths /\ cur # <<>> /\ At(0) = cur
  BY ProbeAssumption, OneMore, FollowedStep
<1>2. ScopedEnd(InMount(r)) = InMount(r)
  <2>1. PICK m \in Nat :
          /\ Tangled(r, m)
          /\ \/ ScopedEnd(InMount(r)) = InMount(Followed(r, m))
             \/ m > 0
    BY <1>1, Scoped DEF ScopedTo, ScopedEnd
  <2>2. Followed(r, 0) = r
    BY FollowedStep
  <2>3. m = 0
    BY <2>1, <2>2 DEF Tangled
  <2> QED BY <2>1, <2>2, <2>3
<1>3. /\ Front(InMount(cur)) = InMount(r) /\ Last(InMount(cur)) = comp
      /\ InMount(r) \o <<comp>> = InMount(cur)
      /\ Head(InMount(r)) = Mount /\ Tail(InMount(r)) = r /\ InMount(r) # <<>>
      /\ Head(InMount(cur)) = Mount /\ Tail(InMount(cur)) = cur /\ InMount(cur) # <<>>
  BY <1>1, MountFront, MountTail
<1>4. PICK m \in Nat :
        /\ m <= EngineLinks /\ Tangled(cur, m)
        /\ \/ end = InMount(At(m)) /\ (m = EngineLinks \/ LinkAt(At(m)) = {})
           \/ end = At(m) /\ end \in Paths /\ end # <<>> /\ Head(end) # Mount /\ m > 0
  BY <1>1, Scoped DEF ScopedTo, ScopedEnd
<1>5. At(m) \in Paths /\ InMount(At(m)) # <<>> /\ Head(InMount(At(m))) = Mount /\ Tail(InMount(At(m))) = At(m)
  BY <1>1, FollowedStep, MountTail
<1>6. LinkAt(cur) # {} <=> Thing(cur).kind = "link"
  BY OnlyTheLast
<1>7. UnderFile(cur) => LinkAt(cur) = {}
  BY OnlyTheLast
<1>8. Tangled(cur, 0)
  BY DEF Tangled
<1>9. stat \in LET looping == \E w \in {InMount(r), end} : w # <<>> /\ Head(w) = Mount /\ LinkAt(Tail(w)) # {}
               IN  IF looping THEN {Refused("unknown")} ELSE Told(cur, Thing(cur).kind, end)
  BY <1>2, <1>3 DEF Answers
<1>10. LinkAt(cur) = {} => End(cur) = cur
  <2> SUFFICES ASSUME LinkAt(Followed(cur, 0)) = {} PROVE Followed(cur, EngineLinks) = Followed(cur, 0)
    BY <1>1 DEF End
  <2>1. 0 \in Nat /\ 0 <= EngineLinks
    BY <1>1
  <2> QED BY <1>1, <2>1, StraightStays
<1> HIDE DEF cur, end, At
<1>11. CASE Head(end) = Mount /\ LinkAt(Tail(end)) # {} /\ end # <<>>
  <2>1. end = InMount(At(m)) /\ m = EngineLinks /\ LinkAt(At(m)) # {}
    BY <1>4, <1>5, <1>11
  <2>2. stat = Refused("unknown")
    BY <1>9, <1>11
  <2> QED BY <1>4, <2>1, <2>2 DEF Says, SaysTooMany, At, cur
<1>12. CASE ~(Head(end) = Mount /\ LinkAt(Tail(end)) # {} /\ end # <<>>)
  <2>1. stat \in Told(cur, Thing(cur).kind, end)
    BY <1>3, <1>9, <1>12
  <2>2. CASE UnderFile(cur)
    <3>1. stat \in {Refused("not-found"), Refused("unknown")}
      BY <2>1, <2>2 DEF Told
    <3> QED BY <1>1, <1>7, <1>8, <2>2, <3>1 DEF Says, SaysNothing, At, cur
  <2>3. CASE ~UnderFile(cur) /\ Thing(cur).kind = "none"
    <3>1. stat = Refused("not-found")
      BY <2>1, <2>3 DEF Told
    <3> QED BY <1>1, <1>6, <1>8, <2>3, <3>1 DEF Says, SaysNothing, At, cur
  <2>4. CASE ~UnderFile(cur) /\ Thing(cur).kind \in {"dir", "file"}
    <3>1. stat = Stat(Thing(cur).kind, end)
      BY <2>1, <2>4 DEF Told
    <3> QED BY <1>6, <1>10, <2>4, <3>1 DEF Says, SaysSomething, Stat, cur
  <2>5. CASE ~UnderFile(cur) /\ Thing(cur).kind = "link"
    <3>1. stat = Stat("link", end)
      BY <2>1, <2>5 DEF Told
    <3>2. CASE end = InMount(At(m))
      <4>1. LinkAt(At(m)) = {}
        BY <1>5, <1>12, <3>2
      <4>2. m # 0
        BY <1>1, <1>6, <2>5, <4>1
      <4>3. hostPathOfLinkTarget(end) = At(m)
        BY <1>5, <3>2 DEF hostPathOfLinkTarget
      <4> QED BY <1>4, <1>6, <2>5, <3>1, <4>2, <4>3 DEF Says, SaysLink, Stat, At, cur
    <3>3. CASE end = At(m) /\ Head(end) # Mount /\ m > 0
      <4>1. hostPathOfLinkTarget(end) = At(m)
        BY <3>3 DEF hostPathOfLinkTarget
      <4> QED BY <1>4, <1>6, <2>5, <3>1, <3>3, <4>1 DEF Says, SaysLink, Stat, At, cur
    <3> QED BY <1>4, <3>2, <3>3
  <2> QED BY <2>2, <2>3, <2>4, <2>5, ThingKinds
<1> QED BY <1>11, <1>12

-----------------------------------------------------------------------------
\* What ProbeFollowsHost asks of one probe.
Agrees(path, result) ==
    /\ Found(path) = "dir" => result = "ok"
    /\ Found(path) = "file" => result = "not-a-directory"
    /\ Found(path) = "none" => result = "not-found"
    /\ Found(path) = "under file" => result \in {"not-found", "unknown"}

Walks == [at : {"none", "over", "image", "create", "walk", "remove", "removed"},
          purpose : {"none", "register", "start", "entry"},
          path : Paths, pending : Paths, resolved : Paths, hops : Nat,
          kind : {"none", "dir", "file", "link"},
          result : {"none", "ok", "not-a-directory", "not-found", "unknown"},
          failed : BOOLEAN]

\* How far a walk is: what is resolved and what is left are the path with some of its links
\* followed, at least as many as were counted.
OnItsWay(w) ==
    /\ \E d \in Nat : w.hops <= d /\ w.resolved \o w.pending = Followed(w.path, d)
    /\ engine = "Docker" => LinkAt(w.resolved) = {}
    /\ w.resolved # <<>> =>
           /\ LinkAt(End(w.resolved)) = {} /\ ~UnderFile(End(w.resolved))
           /\ w.kind = Thing(End(w.resolved)).kind /\ w.kind \in {"dir", "file"}
    /\ w.resolved = <<>> /\ w.pending = <<>> => w.path = <<>>

Fits(w) ==
    /\ w.at \in {"image", "create"} => w.resolved = <<>> /\ w.hops = 0
    /\ w.at = "walk" /\ w.purpose # "entry" => OnItsWay(w)
    /\ w.at \in {"remove", "removed"} /\ ~w.failed /\ w.purpose \in {"register", "start"}
           => Agrees(w.path, w.result)

WalksInv ==
    /\ host \in Hosts /\ engine \in {"Docker", "Podman"}
    /\ folder = NotRegistered \/ folder \in Paths
    /\ probe \in [ProbeCalls -> Walks]
    /\ \A c \in ProbeCalls : Fits(probe[c])

LEMMA SameHost ==
    ASSUME host' = host, engine' = engine
    PROVE  \A w : Fits(w)' <=> Fits(w)
<1>1. \A p : Thing(p)' = Thing(p)
  BY DEF Thing
<1>2. \A p : LinkAt(p)' = LinkAt(p) /\ UnderFile(p)' = UnderFile(p)
  BY <1>1 DEF LinkAt, UnderFile
<1>3. Deref' = Deref
  <2> DEFINE link(p) == CHOOSE k \in LinkAt(p) : TRUE
             to(p) == IF LinkAt(p) = {} THEN p
                      ELSE Thing(Up(p, link(p))).to \o SubSeq(p, link(p) + 1, Len(p))
  <2>1. ASSUME NEW p PROVE link(p)' = link(p)
    BY <1>2, Zenon
  <2>2. ASSUME NEW p PROVE to(p)' = to(p)
    <3> HIDE DEF link
    <3> QED BY <1>1, <1>2, <2>1 DEF Up
  <2>3. Deref = [p \in Paths |-> to(p)]
    BY DEF Deref
  <2>4. Deref' = [p \in Paths |-> to(p)']
    BY DEF Deref
  <2> HIDE DEF to
  <2> QED BY <2>2, <2>3, <2>4
<1>4. \A p, n : Followed(p, n)' = Followed(p, n)
  BY <1>3 DEF Followed, Iterated
<1>5. \A p : End(p)' = End(p)
  BY <1>4 DEF End
<1>6. \A p : Found(p)' = Found(p)
  BY <1>1, <1>2, <1>4, <1>5 DEF Found
<1>7. ASSUME NEW p, NEW q PROVE Agrees(p, q)' <=> Agrees(p, q)
  BY <1>6 DEF Agrees
<1>8. ASSUME NEW w PROVE OnItsWay(w)' <=> OnItsWay(w)
  BY <1>1, <1>2, <1>4, <1>5 DEF OnItsWay
<1>9. ASSUME NEW w PROVE Fits(w)' <=> Fits(w)
  BY <1>7, <1>8 DEF Fits
<1> QED BY <1>9

\* While the host stays, each probe goes on by itself.
LEMMA ProbesMove ==
    ASSUME WalksInv, host' = host, engine' = engine, folder' = NotRegistered \/ folder' \in Paths,
           probe' \in [ProbeCalls -> Walks], \A c \in ProbeCalls : Fits(probe'[c])
    PROVE  WalksInv'
<1>1. \A w : Fits(w)' <=> Fits(w)
  BY SameHost
<1>2. Hosts' = Hosts
  BY DEF Hosts
<1>3. ASSUME NEW c \in ProbeCalls PROVE Fits(probe[c])'
  BY <1>1
<1> QED BY <1>2, <1>3 DEF WalksInv

LEMMA ProbeMoves ==
    ASSUME WalksInv, host' = host, engine' = engine, folder' = NotRegistered \/ folder' \in Paths,
           NEW c \in ProbeCalls, NEW w \in Walks, probe' = [probe EXCEPT ![c] = w], Fits(w)
    PROVE  WalksInv'
<1>1. probe' \in [ProbeCalls -> Walks]
  BY DEF WalksInv
<1>2. \A d \in ProbeCalls : Fits(probe'[d])
  BY DEF WalksInv
<1> QED BY <1>1, <1>2, ProbesMove

\* The next component: the one that is looked at and what is left after it.
LEMMA NextComponent ==
    ASSUME NEW w \in Walks, w.pending # <<>>
    PROVE  /\ Head(w.pending) \in STRING /\ Tail(w.pending) \in Paths
           /\ w.resolved \in Paths /\ w.path \in Paths /\ w.pending \in Paths /\ w.hops \in Nat
           /\ Append(w.resolved, Head(w.pending)) \in Paths
           /\ Append(w.resolved, Head(w.pending)) # <<>>
           /\ Append(w.resolved, Head(w.pending)) \o Tail(w.pending) = w.resolved \o w.pending
<1>1. w.resolved \in Paths /\ w.path \in Paths /\ w.pending \in Paths /\ w.hops \in Nat
  BY DEF Walks
<1> DEFINE r == w.resolved
           p == w.pending
           h == Head(p)
           t == Tail(p)
<1>2. r \in Seq(STRING) /\ p \in Seq(STRING) /\ p # <<>>
  BY <1>1 DEF Paths
<1> HIDE DEF r, p
<1>3. h \in STRING /\ t \in Seq(STRING) /\ p = <<h>> \o t
  BY <1>2, HeadTailProperties
<1> HIDE DEF h, t
<1>4. Append(r, h) \in Seq(STRING) /\ Append(r, h) # <<>> /\ Append(r, h) = r \o <<h>>
  BY <1>2, <1>3, AppendProperties, AppendIsConcat
<1>5. <<h>> \in Seq(STRING)
  <2>1. \A S : \A s \in S : <<s>> \in Seq(S)
    OBVIOUS
  <2> QED BY <1>3, <2>1
<1>6. (r \o <<h>>) \o t = r \o (<<h>> \o t)
  BY <1>2, <1>3, <1>5, ConcatAssociative
<1> QED BY <1>1, <1>3, <1>4, <1>6 DEF r, p, h, t, Paths

\* Every answer is one the lemmas above know.
LEMMA EngineTells ==
    ASSUME host \in Hosts, engine \in {"Docker", "Podman"}, NEW w \in Walks, w.pending # <<>>, OnItsWay(w),
           NEW stat \in Answers(<<Mount>> \o Append(w.resolved, Head(w.pending)))
    PROVE  Says(Append(w.resolved, Head(w.pending)), stat)
<1>1. /\ Head(w.pending) \in STRING /\ w.resolved \in Paths
      /\ Append(w.resolved, Head(w.pending)) \in Paths
      /\ Append(w.resolved, Head(w.pending)) # <<>>
  BY NextComponent
<1>2. stat \in Answers(InMount(Append(w.resolved, Head(w.pending))))
  BY DEF InMount
<1>3. CASE engine = "Podman"
  BY <1>1, <1>2, <1>3, PodmanTells
<1>4. CASE engine = "Docker"
  <2>1. LinkAt(w.resolved) = {}
    BY <1>4 DEF OnItsWay
  <2> QED BY <1>1, <1>2, <1>4, <2>1, DockerTells
<1> QED BY <1>3, <1>4

Advanced(w, stat) ==
    [w EXCEPT !.pending = Tail(@), !.resolved = Append(w.resolved, Head(w.pending)), !.kind = stat.kind]

Redirected(w, stat) ==
    [w EXCEPT !.pending = hostPathOfLinkTarget(stat.linkTarget) \o Tail(@),
              !.resolved = <<>>, !.hops = @ + 1, !.kind = "link"]

LEMMA TurnOfTheWalk ==
    ASSUME host \in Hosts, engine \in {"Docker", "Podman"}, NEW w \in Walks, w.pending # <<>>, OnItsWay(w),
           NEW stat \in Answers(<<Mount>> \o Append(w.resolved, Head(w.pending)))
    PROVE  /\ ~stat.ok => stat.reason \in {"not-found", "unknown"} /\ Agrees(w.path, stat.reason)
           /\ stat.ok /\ stat.kind # "link" => Advanced(w, stat) \in Walks /\ OnItsWay(Advanced(w, stat))
           /\ stat.ok /\ stat.kind = "link" =>
                  /\ w.hops + 1 > MaxSymlinkHops => Agrees(w.path, "unknown")
                  /\ Redirected(w, stat) \in Walks /\ OnItsWay(Redirected(w, stat))
<1> DEFINE cur == Append(w.resolved, Head(w.pending))
           rest == Tail(w.pending)
<1>1. /\ rest \in Paths /\ cur \in Paths /\ cur # <<>> /\ w.path \in Paths /\ w.hops \in Nat
      /\ cur \o rest = w.resolved \o w.pending
  BY NextComponent
<1>2. PICK d \in Nat : w.hops <= d /\ cur \o rest = Followed(w.path, d)
  BY <1>1 DEF OnItsWay
<1>3. Says(cur, stat)
  BY EngineTells
<1>4. MaxSymlinkHops \in Nat /\ EngineLinks \in Nat /\ MaxSymlinkHops <= EngineLinks
  BY ProbeAssumption
<1>5. CASE SaysTooMany(cur, stat)
  <2> HIDE DEF cur, rest
  <2>1. Tangled(cur, EngineLinks) /\ LinkAt(Followed(cur, EngineLinks)) # {} /\ ~stat.ok /\ stat.reason = "unknown"
    BY <1>5 DEF SaysTooMany, Refused
  <2>2. MaxSymlinkHops <= d + EngineLinks
    BY <1>4
  <2>3. Found(w.path) = "unknown"
    BY <1>1, <1>2, <1>4, <2>1, <2>2, TooManyLinks
  <2> QED BY <2>1, <2>3 DEF Agrees
<1>6. CASE SaysNothing(cur, stat)
  <2> HIDE DEF cur, rest
  <2>1. PICK m \in Nat :
          /\ Tangled(cur, m) /\ LinkAt(Followed(cur, m)) = {}
          /\ \/ UnderFile(Followed(cur, m)) /\ stat \in {Refused("not-found"), Refused("unknown")}
             \/ /\ ~UnderFile(Followed(cur, m)) /\ Thing(Followed(cur, m)).kind = "none"
                /\ stat = Refused("not-found")
    BY <1>6 DEF SaysNothing
  <2>2. Followed(cur, m) # <<>>
    BY <1>1, NotToTheRoot
  <2>3. /\ UnderFile(Followed(cur, m)) => Found(w.path) \in {"unknown", "under file"}
        /\ ~UnderFile(Followed(cur, m)) => Found(w.path) \in {"unknown", "none"}
    BY <1>1, <1>2, <2>1, <2>2, NothingFurther
  <2>4. ~stat.ok /\ stat.reason \in {"not-found", "unknown"}
    BY <2>1 DEF Refused
  <2>5. ~UnderFile(Followed(cur, m)) => stat.reason = "not-found"
    BY <2>1 DEF Refused
  <2> QED BY <2>3, <2>4, <2>5 DEF Agrees
<1>7. CASE SaysSomething(cur, stat)
  <2>1. /\ stat.ok /\ stat.kind = Thing(End(cur)).kind /\ stat.kind \in {"dir", "file"}
        /\ LinkAt(End(cur)) = {} /\ ~UnderFile(End(cur))
        /\ engine = "Docker" => LinkAt(cur) = {}
    BY <1>7 DEF SaysSomething
  <2> DEFINE n == Advanced(w, stat)
  <2>2. /\ n \in Walks /\ n.hops = w.hops /\ n.resolved = cur /\ n.pending = rest
        /\ n.path = w.path /\ n.kind = stat.kind
    BY <1>1, <2>1 DEF Walks, Advanced
  <2> HIDE DEF n, cur, rest
  <2>3. OnItsWay(n)
    BY <1>1, <1>2, <2>1, <2>2 DEF OnItsWay
  <2> QED BY <2>1, <2>2, <2>3 DEF n
<1>8. CASE SaysLink(cur, stat)
  <2>1. PICK m \in Nat \ {0} : Tangled(cur, m) /\ hostPathOfLinkTarget(stat.linkTarget) = Followed(cur, m)
    BY <1>8 DEF SaysLink
  <2>2. stat.ok /\ stat.kind = "link" /\ LinkAt(cur) # {}
    BY <1>8 DEF SaysLink
  <2>3. Followed(cur, m) \in Paths /\ Followed(cur, m) # <<>>
    BY <1>1, <2>1, FollowedStep, NotToTheRoot
  <2>4. Followed(w.path, d + m) = Followed(cur, m) \o rest /\ d + m \in Nat
    <3> HIDE DEF cur, rest
    <3> QED BY <1>1, <1>2, <2>1, StopsThere
  <2>5. w.hops + 1 > MaxSymlinkHops => Agrees(w.path, "unknown")
    <3> SUFFICES ASSUME w.hops + 1 > MaxSymlinkHops PROVE Agrees(w.path, "unknown")
      OBVIOUS
    <3>1. MaxSymlinkHops <= d
      BY <1>1, <1>2, <1>4
    <3>2. LinkAt(cur \o rest) # {}
      <4> HIDE DEF cur, rest
      <4> QED BY <1>1, <2>2, LinkStays
    <3>3. Found(w.path) = "unknown"
      BY <1>1, <1>2, <3>1, <3>2, FoundOnTheWay
    <3> QED BY <3>3 DEF Agrees
  <2> DEFINE n == Redirected(w, stat)
  <2>6. /\ n.hops = w.hops + 1 /\ n.resolved = <<>> /\ n.pending = Followed(cur, m) \o rest
        /\ n.path = w.path /\ n \in Walks
    <3>1. Followed(cur, m) \o rest \in Paths /\ <<>> \in Paths
      BY <1>1, <2>3, ConcatProperties, EmptySeq DEF Paths
    <3>2. /\ n.hops = w.hops + 1 /\ n.resolved = <<>> /\ n.path = w.path
          /\ n.pending = hostPathOfLinkTarget(stat.linkTarget) \o Tail(w.pending)
      BY DEF Walks, Redirected
    <3>3. n.pending = Followed(cur, m) \o rest
      BY <3>2, <2>1
    <3>4. n \in Walks
      <4>1. hostPathOfLinkTarget(stat.linkTarget) \o Tail(w.pending) \in Paths
        BY <2>1, <3>1
      <4>2. w.hops + 1 \in Nat
        BY <1>1
      <4> QED BY <3>1, <4>1, <4>2 DEF Walks, Redirected
    <3> QED BY <3>2, <3>3, <3>4
  <2> HIDE DEF n, cur, rest
  <2>7. n.resolved \o n.pending = Followed(n.path, d + m) /\ n.hops <= d + m
    <3>1. <<>> \o (Followed(cur, m) \o rest) = Followed(cur, m) \o rest
      BY <1>1, <2>3, ConcatProperties, ConcatEmptySeq DEF Paths
    <3> QED BY <1>1, <1>2, <2>1, <2>4, <2>6, <3>1
  <2>8. n.pending # <<>>
    <3>1. Followed(cur, m) \o rest # <<>>
      BY <1>1, <2>3, ConcatEmptySeq, ConcatSimplifications DEF Paths
    <3> QED BY <2>6, <3>1
  <2>9. LinkAt(<<>>) = {}
    BY DEF LinkAt
  <2>10. OnItsWay(n)
    BY <2>4, <2>6, <2>7, <2>8, <2>9 DEF OnItsWay
  <2> QED BY <2>2, <2>5, <2>6, <2>10 DEF n
<1> QED BY <1>3, <1>5, <1>6, <1>7, <1>8 DEF Says

\* At the end of the walk.
LEMMA EndOfTheWalk ==
    ASSUME host \in Hosts, NEW w \in Walks, w.pending = <<>>, OnItsWay(w)
    PROVE  Agrees(w.path, IF w.path = <<>> \/ w.kind = "dir" THEN "ok" ELSE "not-a-directory")
<1>1. w.path \in Paths /\ w.resolved \in Paths /\ EngineLinks \in Nat
  BY ProbeAssumption DEF Walks
<1>2. PICK d \in Nat : w.resolved = Followed(w.path, d)
  <2>1. w.resolved \o <<>> = w.resolved
    BY <1>1, ConcatEmptySeq DEF Paths
  <2> QED BY <2>1 DEF OnItsWay
<1>3. CASE w.path = <<>>
  <2>1. LinkAt(<<>>) = {} /\ ~UnderFile(<<>>) /\ Thing(<<>>).kind = "dir"
    BY DEF LinkAt, UnderFile, Thing, Plain
  <2>2. Followed(<<>>, 0) = <<>> /\ <<>> \in Paths
    BY <1>1, <1>3, FollowedStep
  <2>3. Found(<<>>) \in {"unknown", "dir"}
    BY <2>1, <2>2, FoundOnTheWay
  <2> QED BY <1>3, <2>3 DEF Agrees
<1>4. CASE w.path # <<>>
  <2>1. w.resolved # <<>>
    BY <1>1, <1>2, <1>4, NotToTheRoot
  <2>2. /\ LinkAt(End(w.resolved)) = {} /\ ~UnderFile(End(w.resolved))
        /\ w.kind = Thing(End(w.resolved)).kind /\ w.kind \in {"dir", "file"}
    BY <2>1 DEF OnItsWay
  <2>3. End(w.resolved) = Followed(w.path, d + EngineLinks) /\ d + EngineLinks \in Nat
    <3>1. d + EngineLinks \in Nat
      BY <1>1
    <3>2. Followed(Followed(w.path, d), EngineLinks) = Followed(w.path, d + EngineLinks)
      BY <1>1, FollowedOn
    <3> QED BY <1>2, <3>1, <3>2 DEF End
  <2>4. Found(w.path) \in {"unknown", w.kind}
    BY <1>1, <2>2, <2>3, FoundOnTheWay
  <2> QED BY <1>4, <2>2, <2>4 DEF Agrees
<1> QED BY <1>3, <1>4

LEMMA Resting ==
    /\ NoProbe \in Walks /\ Over \in Walks
    /\ \A w : w.at \in {"none", "over"} => Fits(w)
    /\ NoProbe.at = "none" /\ Over.at = "over"
<1>1. <<>> \in Paths
  BY EmptySeq DEF Paths
<1>2. NoProbe \in Walks /\ Over \in Walks /\ NoProbe.at = "none" /\ Over.at = "over"
  BY <1>1 DEF NoProbe, Over, Walks
<1>3. ASSUME NEW w, w.at \in {"none", "over"} PROVE Fits(w)
  BY <1>3 DEF Fits
<1> QED BY <1>2, <1>3

LEMMA InitialProbes == ProbeInit => WalksInv
<1> SUFFICES ASSUME ProbeInit PROVE WalksInv
  OBVIOUS
<1>1. probe \in [ProbeCalls -> Walks]
  BY Resting DEF ProbeInit
<1>2. \A c \in ProbeCalls : Fits(probe[c])
  BY Resting DEF ProbeInit
<1> QED BY <1>1, <1>2 DEF ProbeInit, WalksInv

\* A probe that ends, with a result that agrees or of a kind that promises nothing.
LEMMA FinishesWell ==
    ASSUME WalksInv, host' = host, engine' = engine, folder' = folder, NEW c \in ProbeCalls,
           NEW result \in {"ok", "not-a-directory", "not-found", "unknown"}, Finishes(c, result),
           probe[c].purpose = "entry" \/ Agrees(probe[c].path, result)
    PROVE  WalksInv'
<1> DEFINE w == [NoProbe EXCEPT !.at = "remove", !.purpose = probe[c].purpose,
                                !.path = probe[c].path, !.result = result]
<1>1. probe[c] \in Walks
  BY DEF WalksInv
<1>2. /\ w \in Walks /\ w.at = "remove" /\ w.purpose = probe[c].purpose /\ w.path = probe[c].path
      /\ w.result = result
  <2>1. <<>> \in Paths
    BY EmptySeq DEF Paths
  <2> QED BY <1>1, <2>1 DEF Walks, NoProbe
<1>3. probe' = [probe EXCEPT ![c] = w]
  BY DEF Finishes
<1> HIDE DEF w
<1>4. Fits(w)
  BY <1>2 DEF Fits
<1> QED BY <1>2, <1>3, <1>4, ProbeMoves DEF WalksInv

LEMMA HostsStay ==
    ASSUME host \in Hosts, NEW p \in Nodes,
           host' = [q \in Nodes |-> IF IsPrefix(p, q) THEN Plain("none") ELSE host[q]]
    PROVE  host' \in Hosts
<1>1. host' \in [Nodes -> {Plain("none"), Plain("dir"), Plain("file")} \cup Links]
  BY DEF Hosts
<1>2. ASSUME NEW q \in Nodes, Len(q) > 1, host'[q].kind # "none"
      PROVE  host'[Front(q)].kind = "dir"
  <2>1. Front(q) \in Nodes
    BY <1>2, ProbeAssumption
  <2>2. ~IsPrefix(p, q) /\ host[q].kind # "none"
    BY <1>2 DEF Plain
  <2>3. host[Front(q)].kind = "dir"
    BY <1>2, <2>2 DEF Hosts
  <2>4. ~IsPrefix(p, Front(q))
    <3> SUFFICES ASSUME IsPrefix(p, Front(q)) PROVE IsPrefix(p, q)
      BY <2>2
    <3>1. q \in Paths /\ p \in Paths /\ Len(q) \in Nat /\ Len(p) \in Nat
      BY ProbeAssumption, LenProperties DEF Paths
    <3>2. Front(q) = Up(q, Len(q) - 1)
      BY DEF Front, Up
    <3>3. Len(q) - 1 \in 0 .. Len(q)
      BY <1>2, <3>1
    <3>4. Len(Front(q)) = Len(q) - 1 /\ \A i \in 1 .. Len(q) - 1 : Front(q)[i] = q[i]
      <4>1. Len(Up(q, Len(q) - 1)) = Len(q) - 1 /\ \A i \in 1 .. Len(q) - 1 : Up(q, Len(q) - 1)[i] = q[i]
        BY <3>1, <3>3, Beginnings
      <4> QED BY <3>2, <4>1
    <3>5. Len(p) <= Len(q) - 1 /\ \A i \in 1 .. Len(p) : p[i] = Front(q)[i]
      BY <3>4 DEF IsPrefix
    <3>6. Len(p) <= Len(q) /\ \A i \in 1 .. Len(p) : p[i] = q[i]
      BY <3>1, <3>4, <3>5
    <3> QED BY <3>6 DEF IsPrefix
  <2> QED BY <2>1, <2>3, <2>4
<1> QED BY <1>1, <1>2 DEF Hosts

LEMMA ProbeSteps == WalksInv /\ [ProbeNext]_probeVars => WalksInv'
<1> SUFFICES ASSUME WalksInv, [ProbeNext]_probeVars PROVE WalksInv'
  OBVIOUS
<1>a. /\ probe \in [ProbeCalls -> Walks] /\ \A c \in ProbeCalls : Fits(probe[c])
      /\ folder = NotRegistered \/ folder \in Paths
      /\ host \in Hosts /\ engine \in {"Docker", "Podman"}
  BY DEF WalksInv
<1>b. <<>> \in Paths
  BY EmptySeq DEF Paths
<1>c. NoProbe \in Walks /\ Over \in Walks /\ Fits(NoProbe) /\ Fits(Over)
  BY Resting
<1>1. CASE UNCHANGED probeVars
  <2>1. host' = host /\ engine' = engine /\ folder' = folder /\ probe' = probe
    BY <1>1 DEF probeVars
  <2> QED BY <1>a, <2>1, ProbesMove
<1>2. ASSUME NEW c \in ProbeCalls, NEW purpose \in {"register", "start", "entry"}, NEW path \in Paths \cup {folder},
             Asks(c, purpose, path), purpose = "register" => path \in Paths
      PROVE  WalksInv'
  <2> DEFINE w == [NoProbe EXCEPT !.at = IF probeImage = "known" THEN "create" ELSE "image",
                                  !.purpose = purpose, !.path = path]
  <2>1. /\ probe' = [probe EXCEPT ![c] = w] /\ path \in Paths
        /\ host' = host /\ engine' = engine /\ folder' = folder
    BY <1>2, <1>a DEF Asks, ProbeStays
  <2>2. w \in Walks /\ w.at \in {"image", "create"} /\ w.resolved = <<>> /\ w.hops = 0
    BY <1>b, <2>1 DEF NoProbe, Walks
  <2> HIDE DEF w
  <2>3. Fits(w)
    BY <2>2 DEF Fits
  <2> QED BY <1>a, <2>1, <2>2, <2>3, ProbeMoves
<1>3. ASSUME NEW c \in ProbeCalls, ClearsFolder(c) PROVE WalksInv'
  <2>1. probe' = [probe EXCEPT ![c] = Over] /\ folder' = NotRegistered /\ host' = host /\ engine' = engine
    BY <1>3 DEF ClearsFolder, ProbeStays
  <2> QED BY <1>c, <2>1, ProbeMoves
<1>4. CASE ProbeImageBuilt
  <2>1. host' = host /\ engine' = engine /\ folder' = folder
    BY <1>4 DEF ProbeImageBuilt, ProbeStays
  <2>2. \/ probe' = [c \in ProbeCalls |->
               IF probe[c].at = "image" THEN [probe[c] EXCEPT !.at = "create"] ELSE probe[c]]
        \/ probe' = [c \in ProbeCalls |-> IF probe[c].at = "image" THEN Over ELSE probe[c]]
    BY <1>4 DEF ProbeImageBuilt
  <2>3. ASSUME NEW w \in Walks, w.at = "image", Fits(w)
        PROVE  [w EXCEPT !.at = "create"] \in Walks /\ Fits([w EXCEPT !.at = "create"])
    <3> DEFINE n == [w EXCEPT !.at = "create"]
    <3>1. n \in Walks /\ n.at = "create" /\ n.resolved = w.resolved /\ n.hops = w.hops
      BY DEF Walks
    <3>2. w.resolved = <<>> /\ w.hops = 0
      BY <2>3 DEF Fits
    <3> HIDE DEF n
    <3>3. Fits(n)
      BY <3>1, <3>2 DEF Fits
    <3> QED BY <3>1, <3>3 DEF n
  <2>4. \A c \in ProbeCalls : probe'[c] \in Walks /\ Fits(probe'[c])
    BY <1>a, <1>c, <2>2, <2>3
  <2>5. probe' \in [ProbeCalls -> Walks]
    BY <2>2, <2>4
  <2> QED BY <1>a, <2>1, <2>4, <2>5, ProbesMove
<1>5. ASSUME NEW c \in ProbeCalls, ProbeCreated(c) PROVE WalksInv'
  <2>1. host' = host /\ engine' = engine /\ folder' = folder
    BY <1>5 DEF ProbeCreated, ProbeStays
  <2>2. CASE probe' = [probe EXCEPT ![c] = Over]
    BY <1>a, <1>c, <2>1, <2>2, ProbeMoves
  <2>3. CASE probe' = [probe EXCEPT ![c].at = "walk", ![c].pending = probe[c].path]
    <3> DEFINE w == [probe[c] EXCEPT !.at = "walk", !.pending = probe[c].path]
    <3>1. probe[c] \in Walks /\ probe[c].resolved = <<>> /\ probe[c].hops = 0
      BY <1>5, <1>a DEF ProbeCreated, Fits
    <3>2. /\ w \in Walks /\ w.at = "walk" /\ w.pending = probe[c].path /\ w.path = probe[c].path
          /\ w.resolved = <<>> /\ w.hops = 0 /\ w.path \in Paths
      BY <3>1 DEF Walks
    <3>3. probe' = [probe EXCEPT ![c] = w]
      BY <2>3, <1>a
    <3> HIDE DEF w
    <3>4. w.resolved \o w.pending = Followed(w.path, 0)
      <4>1. <<>> \o w.path = w.path
        BY <3>2, ConcatEmptySeq DEF Paths
      <4>2. Followed(w.path, 0) = w.path
        BY <1>a, <3>2, FollowedStep
      <4> QED BY <3>2, <4>1, <4>2
    <3>5. LinkAt(<<>>) = {}
      BY DEF LinkAt
    <3>6. OnItsWay(w)
      BY <3>2, <3>4, <3>5 DEF OnItsWay
    <3>7. Fits(w)
      BY <3>2, <3>6 DEF Fits
    <3> QED BY <1>a, <2>1, <3>2, <3>3, <3>7, ProbeMoves
  <2> QED BY <1>5, <2>2, <2>3 DEF ProbeCreated
<1>6. ASSUME NEW c \in ProbeCalls, ProbeLooks(c) PROVE WalksInv'
  <2> DEFINE w == probe[c]
  <2>1. host' = host /\ engine' = engine /\ folder' = folder
    BY <1>6 DEF ProbeLooks, ProbeStays
  <2>2. w \in Walks /\ w.at = "walk" /\ w.purpose # "entry" /\ w.pending # <<>> /\ Fits(w)
    BY <1>6, <1>a DEF ProbeLooks, Walking
  <2>3. OnItsWay(w)
    BY <2>2 DEF Fits
  <2>4. PICK stat \in Answers(<<Mount>> \o Append(w.resolved, Head(w.pending))) : LooksAt(c, stat)
    BY <1>6 DEF ProbeLooks
  <2> HIDE DEF w
  <2>5. /\ ~stat.ok => stat.reason \in {"not-found", "unknown"} /\ Agrees(w.path, stat.reason)
        /\ stat.ok /\ stat.kind # "link" => Advanced(w, stat) \in Walks /\ OnItsWay(Advanced(w, stat))
        /\ stat.ok /\ stat.kind = "link" =>
               /\ w.hops + 1 > MaxSymlinkHops => Agrees(w.path, "unknown")
               /\ Redirected(w, stat) \in Walks /\ OnItsWay(Redirected(w, stat))
    BY <1>a, <2>2, <2>3, <2>4, TurnOfTheWalk
  <2>6. CASE ~stat.ok
    <3>1. Finishes(c, stat.reason)
      BY <2>4, <2>6 DEF LooksAt
    <3> QED BY <2>1, <2>5, <2>6, <3>1, FinishesWell DEF w
  <2>7. CASE stat.ok /\ stat.kind # "link"
    <3>1. probe' = [probe EXCEPT ![c] = Advanced(w, stat)]
      BY <1>a, <2>4, <2>7 DEF LooksAt, Advanced, w
    <3>2. Advanced(w, stat).at = "walk"
      BY <2>2 DEF Advanced, Walks
    <3>3. Fits(Advanced(w, stat))
      BY <2>5, <2>7, <3>2 DEF Fits
    <3> QED BY <1>a, <2>1, <2>5, <2>7, <3>1, <3>3, ProbeMoves
  <2>8. CASE stat.ok /\ stat.kind = "link" /\ w.hops + 1 > MaxSymlinkHops
    <3>1. Finishes(c, "unknown")
      BY <2>4, <2>8 DEF LooksAt, w
    <3> QED BY <2>1, <2>5, <2>8, <3>1, FinishesWell DEF w
  <2>9. CASE stat.ok /\ stat.kind = "link" /\ ~(w.hops + 1 > MaxSymlinkHops)
    <3>1. probe' = [probe EXCEPT ![c] = Redirected(w, stat)]
      BY <1>a, <2>4, <2>9 DEF LooksAt, Follows, Redirected, w
    <3>2. Redirected(w, stat).at = "walk"
      BY <2>2 DEF Redirected, Walks
    <3>3. Fits(Redirected(w, stat))
      BY <2>5, <2>9, <3>2 DEF Fits
    <3> QED BY <1>a, <2>1, <2>5, <2>9, <3>1, <3>3, ProbeMoves
  <2> QED BY <2>6, <2>7, <2>8, <2>9
<1>7. ASSUME NEW c \in ProbeCalls, ProbeDecides(c) PROVE WalksInv'
  <2>1. host' = host /\ engine' = engine /\ folder' = folder
    BY <1>7 DEF ProbeDecides, ProbeStays
  <2>2. OnItsWay(probe[c]) /\ probe[c] \in Walks /\ probe[c].pending = <<>>
    BY <1>7, <1>a DEF ProbeDecides, Walking, Fits
  <2>3. Agrees(probe[c].path, IF probe[c].path = <<>> \/ probe[c].kind = "dir" THEN "ok" ELSE "not-a-directory")
    BY <1>a, <2>2, EndOfTheWalk
  <2> QED BY <1>7, <2>1, <2>3, FinishesWell DEF ProbeDecides
<1>8. ASSUME NEW c \in ProbeCalls, NEW entry, EntryAsked(c, entry) PROVE WalksInv'
  <2>1. host' = host /\ engine' = engine /\ folder' = folder /\ probe[c].purpose = "entry"
    BY <1>8 DEF EntryAsked, ProbeStays
  <2>2. Finishes(c, "ok") \/ Finishes(c, "not-found")
    BY <1>8 DEF EntryAsked
  <2> QED BY <2>1, <2>2, FinishesWell
<1>9. ASSUME NEW c \in ProbeCalls, ProbeUnanswered(c) PROVE WalksInv'
  <2> DEFINE w == [NoProbe EXCEPT !.at = "remove", !.result = "unknown", !.failed = TRUE]
  <2>1. /\ host' = host /\ engine' = engine /\ folder' = folder
        /\ probe' = [probe EXCEPT ![c] = w]
    BY <1>9 DEF ProbeUnanswered, ProbeStays
  <2>2. w \in Walks /\ w.at = "remove" /\ w.failed
    BY <1>b DEF NoProbe, Walks
  <2> HIDE DEF w
  <2>3. Fits(w)
    BY <2>2 DEF Fits
  <2> QED BY <1>a, <2>1, <2>2, <2>3, ProbeMoves
<1>10. ASSUME NEW c \in ProbeCalls, ProbeRemoved(c) PROVE WalksInv'
  <2> DEFINE w == [probe[c] EXCEPT !.at = "removed"]
  <2>1. /\ host' = host /\ engine' = engine /\ folder' = folder
        /\ probe' = [probe EXCEPT ![c] = w] /\ probe[c].at = "remove"
    BY <1>10, <1>a DEF ProbeRemoved, ProbeStays
  <2>2. /\ w \in Walks /\ w.at = "removed" /\ w.failed = probe[c].failed /\ w.path = probe[c].path
        /\ w.purpose = probe[c].purpose /\ w.result = probe[c].result
    BY <1>a DEF Walks
  <2> HIDE DEF w
  <2>3. Fits(w)
    BY <1>a, <2>1, <2>2 DEF Fits
  <2> QED BY <1>a, <2>1, <2>2, <2>3, ProbeMoves
<1>11. ASSUME NEW c \in ProbeCalls, ProbeAnswered(c) PROVE WalksInv'
  <2>1. host' = host /\ engine' = engine /\ probe' = [probe EXCEPT ![c] = Over]
    BY <1>11 DEF ProbeAnswered, ProbeStays
  <2>2. folder' = NotRegistered \/ folder' \in Paths
    <3>1. probe[c].path \in Paths
      BY <1>a DEF Walks
    <3> QED BY <1>11, <1>a, <3>1 DEF ProbeAnswered
  <2> QED BY <1>c, <2>1, <2>2, ProbeMoves
<1>12. CASE ProbeCrash
  <2>1. /\ host' = host /\ engine' = engine /\ folder' = folder
        /\ probe' = [c \in ProbeCalls |-> IF probe[c].at = "none" THEN NoProbe ELSE Over]
    BY <1>12 DEF ProbeCrash
  <2>2. \A c \in ProbeCalls : probe'[c] \in Walks /\ Fits(probe'[c])
    BY <1>c, <2>1
  <2>3. probe' \in [ProbeCalls -> Walks]
    BY <2>1, <2>2
  <2> QED BY <1>a, <2>1, <2>2, <2>3, ProbesMove
<1>13. CASE HostChanges
  <2>1. host' \in Hosts
    BY <1>13, <1>a, HostsStay DEF HostChanges
  <2>2. /\ engine' = engine /\ folder' = folder /\ probe' = probe
        /\ \A c \in ProbeCalls : probe[c].at \in {"none", "over"}
    BY <1>13 DEF HostChanges
  <2>3. ASSUME NEW c \in ProbeCalls PROVE Fits(probe[c])'
    <3>1. probe'[c].at \in {"none", "over"}
      BY <2>2
    <3> QED BY <3>1 DEF Fits
  <2>4. Hosts' = Hosts
    BY DEF Hosts
  <2> QED BY <1>a, <2>1, <2>2, <2>3, <2>4 DEF WalksInv
<1>14. ASSUME NEW c \in ProbeCalls, ProbeStep(c) PROVE WalksInv'
  <2>1. ASSUME NEW path \in Candidates, Asks(c, "register", path) PROVE WalksInv'
    BY <1>2, <2>1, ProbeAssumption
  <2>2. ASSUME NEW purpose \in {"start", "entry"}, Asks(c, purpose, folder) PROVE WalksInv'
    BY <1>2, <2>2
  <2> QED BY <1>14, <1>3, <1>5, <1>6, <1>7, <1>8, <1>9, <1>10, <1>11, <2>1, <2>2 DEF ProbeStep
<1> QED BY <1>1, <1>4, <1>12, <1>13, <1>14 DEF ProbeNext

LEMMA WalksInvKeeps == WalksInv => ProbeFollowsHost
<1> SUFFICES ASSUME WalksInv, NEW c \in ProbeCalls,
                    probe[c].at \in {"remove", "removed"}, ~probe[c].failed,
                    probe[c].purpose \in {"register", "start"}
             PROVE  CASE Found(probe[c].path) = "dir" -> probe[c].result = "ok"
                      [] Found(probe[c].path) = "file" -> probe[c].result = "not-a-directory"
                      [] Found(probe[c].path) = "none" -> probe[c].result = "not-found"
                      [] Found(probe[c].path) = "under file" -> probe[c].result \in {"not-found", "unknown"}
                      [] OTHER -> TRUE
  BY DEF ProbeFollowsHost
<1>1. Agrees(probe[c].path, probe[c].result)
  BY DEF WalksInv, Fits
<1> QED BY <1>1 DEF Agrees

\* On every host a probe can be on, for every folder submitted to it, whoever else probes and
\* whatever the engine refuses: a probe that is over, and was not cut short by an error of the
\* engine, said "ok" of a directory, "not-a-directory" of a file and "not-found" of nothing
\* (resolveDirectoryInProbe).
THEOREM ProbesFollowTheHost == ProbeSpec => []ProbeFollowsHost
<1>1. ProbeInit => WalksInv
  BY InitialProbes
<1>2. WalksInv /\ [ProbeNext]_probeVars => WalksInv'
  BY ProbeSteps
<1>3. WalksInv => ProbeFollowsHost
  BY WalksInvKeeps
<1> QED BY <1>1, <1>2, <1>3, PTL DEF ProbeSpec

=============================================================================
