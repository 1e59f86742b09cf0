--------------------- MODULE RequestQueueBuffer_proofs ---------------------
(***************************************************************************)
(* Proofs about RequestQueueBuffer, for any number of requests and of      *)
(* HTTP requests, and any caps.                                            *)
(***************************************************************************)
EXTENDS RequestQueueBuffer, SequenceTheorems, FiniteSetTheorems, TLAPS

-----------------------------------------------------------------------------
(* What the sequence operators of the model do to the members of a         *)
(* sequence.                                                               *)

\* The members of a sequence, by their positions.
LEMMA MemberFacts ==
    ASSUME NEW S, NEW s \in Seq(S)
    PROVE  /\ \A x : x \in ToSet(s) <=> \E i \in 1..Len(s) : s[i] = x
           /\ \A x : Contains(s, x) <=> \E i \in 1..Len(s) : s[i] = x
           /\ ToSet(s) \subseteq S
  BY LenProperties, ElementOfSeq DEF ToSet, Contains

\* Append adds one member.
LEMMA AppendFacts ==
    ASSUME NEW S, NEW s \in Seq(S), NEW e \in S
    PROVE  /\ Append(s, e) \in Seq(S)
           /\ ToSet(Append(s, e)) = ToSet(s) \cup {e}
           /\ \A x : Contains(Append(s, e), x) <=> Contains(s, x) \/ x = e
  BY AppendProperties DEF ToSet, Contains

\* The oldest element and the others.
LEMMA TailFacts ==
    ASSUME NEW S, NEW s \in Seq(S), s # <<>>
    PROVE  /\ Head(s) \in S /\ Tail(s) \in Seq(S)
           /\ ToSet(s) = ToSet(Tail(s)) \cup {Head(s)}
<1>1. Len(s) \in Nat \ {0} /\ Head(s) = s[1] /\ Tail(s) \in Seq(S) /\ Len(Tail(s)) = Len(s) - 1
  BY HeadTailProperties, EmptySeq
<1>2. \A i \in 1..Len(Tail(s)) : Tail(s)[i] = s[i + 1]
  BY HeadTailProperties
<1> DEFINE t == Tail(s)
<1>3. t \in Seq(S) /\ Len(t) = Len(s) - 1 /\ \A i \in 1..Len(t) : t[i] = s[i + 1]
  BY <1>1, <1>2
<1> HIDE DEF t
<1>4. ASSUME NEW x PROVE x \in ToSet(s) <=> x \in ToSet(t) \/ x = Head(s)
  <2>1. x \in ToSet(s) <=> \E i \in 1..Len(s) : s[i] = x
    BY MemberFacts
  <2>2. x \in ToSet(t) <=> \E i \in 1..Len(t) : t[i] = x
    BY <1>3, MemberFacts
  <2>3. ASSUME NEW i \in 1..Len(s), s[i] = x, i # 1
        PROVE  i - 1 \in 1..Len(t) /\ t[i - 1] = x
    <3>1. i - 1 \in 1..Len(t) /\ (i - 1) + 1 = i
      BY <1>1, <1>3, <2>3
    <3> QED BY <1>3, <2>3, <3>1
  <2>4. ASSUME NEW i \in 1..Len(t), t[i] = x
        PROVE  i + 1 \in 1..Len(s) /\ s[i + 1] = x
    BY <1>1, <1>3, <2>4
  <2>5. 1 \in 1..Len(s)
    BY <1>1
  <2> QED BY <1>1, <2>1, <2>2, <2>3, <2>4, <2>5
<1>5. Head(s) \in S
  BY <1>1, ElementOfSeq
<1> QED BY <1>3, <1>4, <1>5 DEF t

\* Concatenation.
LEMMA ConcatFacts ==
    ASSUME NEW S, NEW s \in Seq(S), NEW t \in Seq(S)
    PROVE  s \o t \in Seq(S) /\ ToSet(s \o t) = ToSet(s) \cup ToSet(t)
<1>1. /\ s \o t \in Seq(S) /\ Len(s \o t) = Len(s) + Len(t)
      /\ \A i \in 1..Len(s) + Len(t) : (s \o t)[i] = IF i <= Len(s) THEN s[i] ELSE t[i - Len(s)]
      /\ Len(s) \in Nat /\ Len(t) \in Nat
  BY ConcatProperties, LenProperties
<1>2. ASSUME NEW x PROVE x \in ToSet(s \o t) <=> x \in ToSet(s) \/ x \in ToSet(t)
  <2>1. /\ x \in ToSet(s) <=> \E i \in 1..Len(s) : s[i] = x
        /\ x \in ToSet(t) <=> \E i \in 1..Len(t) : t[i] = x
        /\ x \in ToSet(s \o t) <=> \E i \in 1..Len(s) + Len(t) : (s \o t)[i] = x
    BY <1>1, MemberFacts
  <2>2. ASSUME NEW i \in 1..Len(s) PROVE i \in 1..Len(s) + Len(t) /\ (s \o t)[i] = s[i]
    BY <1>1
  <2>3. ASSUME NEW i \in 1..Len(t)
        PROVE  i + Len(s) \in 1..Len(s) + Len(t) /\ (s \o t)[i + Len(s)] = t[i]
    BY <1>1
  <2>4. ASSUME NEW i \in 1..Len(s) + Len(t)
        PROVE  \/ i \in 1..Len(s) /\ (s \o t)[i] = s[i]
               \/ i - Len(s) \in 1..Len(t) /\ (s \o t)[i] = t[i - Len(s)]
    BY <1>1
  <2> QED BY <2>1, <2>2, <2>3, <2>4
<1> QED BY <1>1, <1>2

\* A splice at k keeps every member on one side.
LEMMA SpliceFacts ==
    ASSUME NEW S, NEW s \in Seq(S), NEW k \in 0..Len(s)
    PROVE  /\ SubSeq(s, k + 1, Len(s)) \in Seq(S)
           /\ ToSet(SubSeq(s, 1, k)) \subseteq S
           /\ \A x : Contains(s, x) =>
                x \in ToSet(SubSeq(s, 1, k)) \/ Contains(SubSeq(s, k + 1, Len(s)), x)
<1> DEFINE l == SubSeq(s, 1, k)
           r == SubSeq(s, k + 1, Len(s))
<1>1. Len(s) \in Nat /\ \A i \in 1..Len(s) : s[i] \in S
  BY LenProperties, ElementOfSeq
<1>2. l \in Seq(S) /\ Len(l) = k /\ \A i \in 1..k : l[i] = s[i]
  BY <1>1
<1>3. r \in Seq(S) /\ Len(r) = Len(s) - k /\ \A i \in 1..(Len(s) - k) : r[i] = s[k + i]
  BY <1>1
<1> HIDE DEF l, r
<1>4. ASSUME NEW x, Contains(s, x) PROVE x \in ToSet(l) \/ Contains(r, x)
  <2>1. PICK i \in 1..Len(s) : s[i] = x
    BY <1>4, MemberFacts
  <2>2. CASE i <= k
    <3>1. i \in 1..Len(l) /\ l[i] = x
      BY <1>1, <1>2, <2>1, <2>2
    <3> QED BY <1>2, <3>1, MemberFacts
  <2>3. CASE i > k
    <3>1. i - k \in 1..Len(r) /\ r[i - k] = x
      BY <1>1, <1>3, <2>1, <2>3
    <3> QED BY <1>3, <3>1, MemberFacts
  <2> QED BY <1>1, <2>2, <2>3
<1>5. ToSet(l) \subseteq S
  BY <1>2, MemberFacts
<1> QED BY <1>3, <1>4, <1>5 DEF l, r

\* Removing a position loses no other member.
LEMMA RemoveFacts ==
    ASSUME NEW S, NEW s \in Seq(S), NEW i \in 1..Len(s)
    PROVE  /\ RemoveAt(s, i) \in Seq(S)
           /\ \A x : Contains(s, x) /\ x # s[i] => Contains(RemoveAt(s, i), x)
<1> DEFINE l == SubSeq(s, 1, i - 1)
           r == SubSeq(s, i + 1, Len(s))
<1>1. Len(s) \in Nat /\ \A j \in 1..Len(s) : s[j] \in S
  BY LenProperties, ElementOfSeq
<1>2. l \in Seq(S) /\ Len(l) = i - 1 /\ \A j \in 1..(i - 1) : l[j] = s[j]
  BY <1>1
<1>3. r \in Seq(S) /\ Len(r) = Len(s) - i /\ \A j \in 1..(Len(s) - i) : r[j] = s[i + j]
  BY <1>1
<1> HIDE DEF l, r
<1>4. ASSUME NEW x, Contains(s, x), x # s[i] PROVE x \in ToSet(l) \cup ToSet(r)
  <2>1. PICK j \in 1..Len(s) : s[j] = x
    BY <1>4, MemberFacts
  <2>2. CASE j < i
    <3>1. j \in 1..Len(l) /\ l[j] = x
      BY <1>1, <1>2, <2>1, <2>2
    <3> QED BY <1>2, <3>1, MemberFacts
  <2>3. CASE j > i
    <3>1. j - i \in 1..Len(r) /\ r[j - i] = x
      BY <1>1, <1>3, <2>1, <2>3
    <3> QED BY <1>3, <3>1, MemberFacts
  <2> QED BY <1>1, <1>4, <2>1, <2>2, <2>3
<1> DEFINE lr == l \o r
<1>5. lr \in Seq(S) /\ ToSet(lr) = ToSet(l) \cup ToSet(r)
  BY <1>2, <1>3, ConcatFacts
<1> HIDE DEF lr
<1>6. \A x : x \in ToSet(lr) => Contains(lr, x)
  BY <1>5, MemberFacts
<1>7. lr = RemoveAt(s, i)
  BY DEF lr, l, r, RemoveAt
<1> QED BY <1>4, <1>5, <1>6, <1>7

-----------------------------------------------------------------------------
(* The steps the operations are made of keep the types.                    *)

\* The kinds of operation, as sets of records.
Peeks  == {o \in Operations : o.kind \in {"head", "lock"}}
Drains == {o \in Operations : o.kind \in {"mark", "reclaim"}}

\* lockHead's splice point is within the buffer.
LEMMA MinFacts ==
    ASSUME NEW a \in Nat, NEW b \in Nat
    PROVE  Min({a, b}) \in 0..b
<1>1. \E x \in {a, b} : \A y \in {a, b} : x <= y
  OBVIOUS
<1>2. Min({a, b}) \in {a, b} /\ \A y \in {a, b} : Min({a, b}) <= y
  BY <1>1 DEF Min
<1> QED BY <1>2

\* A call made for an operation joins the pending calls.
LEMMA AwaitFacts ==
    ASSUME TypeOK, NEW c \in Callers, NEW o \in Operations,
           NEW kind \in {"fetch", "add", "get", "mark", "reclaim"},
           kind # "fetch" => o.request \in Requests,
           Await(c, o, kind)
    PROVE  /\ op' \in [Callers -> Operations] /\ calls' \in Seq(Calls)
           /\ ToSet(calls') = ToSet(calls) \cup {Call(c, kind, o.request, o.forefront)}
<1>1. o.request \in Found /\ o.forefront \in BOOLEAN
  BY DEF Operations, Found
<1>2. Call(c, kind, o.request, o.forefront) \in Calls
  BY <1>1 DEF Call, Calls, Found
<1> QED BY <1>2, AppendFacts DEF Await, TypeOK

\* An idle caller's operation is one of the operations.
LEMMA IdleFacts == QueueAssumption => Idle \in Operations
  BY DEF Idle, Operations, QueueAssumption

\* topUp and the end of peekHead and of lockHead lose nothing that is held or staged.
LEMMA TopUpFacts ==
    ASSUME TypeOK, NEW c \in Callers, NEW o \in Peeks, NEW s \in Seq(Requests),
           \/ TopUp(c, o, s)
           \/ Finish(c) /\ HeadDone(o, s)
    PROVE  /\ op' \in [Callers -> Operations] /\ calls' \in Seq(Calls)
           /\ staged' \in Seq(Requests) /\ handedOut' \subseteq Requests
           /\ ToSet(calls) \subseteq ToSet(calls')
           /\ \A r : Contains(s, r) \/ r \in handedOut => LiveHandle(r)'
<1> USE QueueAssumption
<1>1. o \in Operations /\ o.kind \in {"head", "lock"} /\ o.limit \in Nat
  <2>1. o \in Operations /\ o.kind \in {"head", "lock"}
    BY DEF Peeks
  <2>2. o.limit \in Limits \cup {0}
    BY <2>1 DEF Operations
  <2>3. Limits \cup {0} \subseteq Nat
    BY DEF QueueAssumption
  <2> QED BY <2>1, <2>2, <2>3
<1>2. CASE Await(c, o, "fetch") /\ staged' = s /\ UNCHANGED handedOut
  <2>1. /\ op' \in [Callers -> Operations] /\ calls' \in Seq(Calls)
        /\ ToSet(calls) \subseteq ToSet(calls')
    BY <1>1, <1>2, AwaitFacts
  <2> QED BY <1>2, <2>1 DEF LiveHandle, TypeOK
<1>3. CASE Finish(c) /\ HeadDone(o, s)
  <2>1. op' \in [Callers -> Operations] /\ calls' = calls
    BY <1>3, IdleFacts DEF Finish, TypeOK
  <2>2. /\ staged' \in Seq(Requests) /\ handedOut' \subseteq Requests
        /\ \A r : Contains(s, r) \/ r \in handedOut => LiveHandle(r)'
    <3>1. CASE o.kind = "head"
      BY <1>3, <3>1 DEF HeadDone, LiveHandle, TypeOK
    <3>2. CASE o.kind = "lock"
      <4> DEFINE k == Min({o.limit, Len(s)})
      <4>1. k \in 0..Len(s)
        BY <1>1, MinFacts, LenProperties
      <4>2. HandOut(k, s)
        BY <1>3, <3>2 DEF HeadDone
      <4> HIDE DEF k
      <4> QED BY <4>1, <4>2, SpliceFacts DEF HandOut, LiveHandle, TypeOK
    <3> QED BY <1>1, <3>1, <3>2
  <2> QED BY <2>1, <2>2 DEF TypeOK
<1> QED BY <1>2, <1>3 DEF TopUp

\* drainUntilFound and its last resort make calls, or end the operation.
LEMMA DrainFacts ==
    ASSUME TypeOK, NEW c \in Callers, NEW o \in Drains, NEW s, NEW known,
           \/ Drain(c, o, s, known)
           \/ LastResort(c, o, known)
    PROVE  /\ op' \in [Callers -> Operations] /\ calls' \in Seq(Calls)
           /\ ToSet(calls) \subseteq ToSet(calls')
<1> USE QueueAssumption
<1>1. o \in Operations /\ o.request \in Requests /\ o.tries \in 0..DrainCap /\ DrainCap \in Nat
  BY DEF Drains, Operations, QueueAssumption
<1>2. CASE o.tries < DrainCap /\ Await(c, [o EXCEPT !.tries = @ + 1], "fetch")
  <2> DEFINE more == [o EXCEPT !.tries = @ + 1]
  <2>1. more \in Operations
    BY <1>1, <1>2 DEF Operations, Drains
  <2> HIDE DEF more
  <2>2. Await(c, more, "fetch")
    BY <1>2 DEF more
  <2> QED BY <2>1, <2>2, AwaitFacts
<1>3. CASE LastResort(c, o, known)
  <2>1. CASE Await(c, o, "get")
    BY <1>1, <2>1, AwaitFacts
  <2>2. CASE Finish(c)
    BY <2>2, IdleFacts DEF Finish, TypeOK
  <2> QED BY <1>3, <2>1, <2>2 DEF LastResort
<1> QED BY <1>2, <1>3 DEF Drain

\* What an arriving request is.
LEMMA ArrivesFacts ==
    ASSUME NEW r \in Requests, NEW f \in Forefronts
    PROVE  /\ \A kind \in {"mark", "reclaim"} :
                Arrives(kind, r, 0, f) \in Drains /\ Arrives(kind, r, 0, f).request = r
           /\ \A kind \in {"add", "release"} :
                /\ Arrives(kind, r, 0, f) \in Operations
                /\ Arrives(kind, r, 0, f).request = r
<1>1. f \in BOOLEAN /\ 0 \in 0..DrainCap
  BY QueueAssumption DEF QueueAssumption
<1>2. ASSUME NEW kind \in {"mark", "reclaim"} PROVE Arrives(kind, r, 0, f) \in Drains
  BY <1>1 DEF Arrives, Drains, Operations
<1>3. ASSUME NEW kind \in {"add", "release"} PROVE Arrives(kind, r, 0, f) \in Operations
  BY <1>1 DEF Arrives, Operations
<1>4. \A kind : Arrives(kind, r, 0, f).request = r
  BY DEF Arrives
<1> QED BY <1>2, <1>3, <1>4

\* An answer is a call of its kind; taking it leaves the younger answers.
LEMMA AnswerFacts ==
    ASSUME TypeOK, NEW c \in Callers, NEW kinds, NEW kind, Answers(c, kinds, kind)
    PROVE  /\ op[c] \in Operations /\ op[c].kind \in kinds
           /\ Head(answers) \in Calls /\ Head(answers).kind = kind
           /\ Head(answers).found \in Found
           /\ kind \in {"mark", "reclaim"} => Head(answers).request \in Requests
           /\ answers' \in Seq(Calls)
           /\ ToSet(answers) = ToSet(answers') \cup {Head(answers)}
<1>1. /\ Head(answers) \in Calls /\ answers' \in Seq(Calls)
      /\ ToSet(answers) = ToSet(answers') \cup {Head(answers)}
  BY TailFacts DEF Answers, TypeOK
<1> QED BY <1>1 DEF Answers, TypeOK, Calls

-----------------------------------------------------------------------------
(* TypeOK is inductive by itself: one lemma per group of actions.          *)

\* An arriving request only makes calls; it withdraws none.
LEMMA TypeArrivals ==
    ASSUME TypeOK, NEW c \in Callers, NEW r \in Requests, NEW f \in Forefronts,
           \/ addRequest(c, r, f) \/ releaseLock(c, r, f)
           \/ \E kind \in {"mark", "reclaim"} : markHandledOrReclaim(c, kind, r, f)
    PROVE  TypeOK' /\ ToSet(calls) \subseteq ToSet(calls')
<1>1. CASE addRequest(c, r, f)
  <2> DEFINE o == Arrives("add", r, 0, f)
  <2>1. o \in Operations /\ o.request \in Requests
    BY ArrivesFacts
  <2>2. Await(c, o, "add")
    BY <1>1 DEF addRequest
  <2> HIDE DEF o
  <2>3. op' \in [Callers -> Operations] /\ calls' \in Seq(Calls) /\ ToSet(calls) \subseteq ToSet(calls')
    BY <2>1, <2>2, AwaitFacts
  <2> QED BY <1>1, <2>3 DEF addRequest, queue, buffer, TypeOK
<1>2. CASE releaseLock(c, r, f)
  <2> DEFINE o == Arrives("release", r, 0, f)
  <2>1. o \in Operations /\ o.request \in Requests
    BY ArrivesFacts
  <2>2. Await(c, o, "reclaim")
    BY <1>2 DEF releaseLock
  <2> HIDE DEF o
  <2>3. op' \in [Callers -> Operations] /\ calls' \in Seq(Calls) /\ ToSet(calls) \subseteq ToSet(calls')
    BY <2>1, <2>2, AwaitFacts
  <2> QED BY <1>2, <2>3 DEF releaseLock, queue, buffer, TypeOK
<1>3. ASSUME NEW kind \in {"mark", "reclaim"}, markHandledOrReclaim(c, kind, r, f)
      PROVE  TypeOK' /\ ToSet(calls) \subseteq ToSet(calls')
  <2> DEFINE o == Arrives(kind, r, 0, f)
  <2>1. o \in Drains /\ o.request \in Requests
    BY ArrivesFacts
  <2>2. o \in Operations
    BY <2>1 DEF Drains
  <2>3. Await(c, o, kind) \/ Drain(c, o, staged, seen)
    BY <1>3 DEF markHandledOrReclaim
  <2> HIDE DEF o
  <2>4. op' \in [Callers -> Operations] /\ calls' \in Seq(Calls) /\ ToSet(calls) \subseteq ToSet(calls')
    BY <2>1, <2>2, <2>3, AwaitFacts, DrainFacts
  <2> QED BY <1>3, <2>4 DEF markHandledOrReclaim, queue, buffer, TypeOK
<1> QED BY <1>1, <1>2, <1>3

\* The same of GET /head and POST /head/lock.
LEMMA TypePeeks ==
    ASSUME TypeOK, NEW c \in Callers, NEW kind \in {"head", "lock"}, NEW limit \in Limits,
           peekOrLockHead(c, kind, limit)
    PROVE  /\ TypeOK' /\ ToSet(calls) \subseteq ToSet(calls')
           /\ \A r : LiveHandle(r) => LiveHandle(r)'
<1> DEFINE o == Arrives(kind, NoRequest, limit, FALSE)
<1>1. o \in Peeks
  BY QueueAssumption DEF Arrives, Peeks, Operations
<1>2. TopUp(c, o, staged) /\ staged \in Seq(Requests)
  BY DEF peekOrLockHead, TypeOK
<1> HIDE DEF o
<1>3. /\ op' \in [Callers -> Operations] /\ calls' \in Seq(Calls) /\ ToSet(calls) \subseteq ToSet(calls')
      /\ staged' \in Seq(Requests) /\ handedOut' \subseteq Requests
      /\ \A r : LiveHandle(r) => LiveHandle(r)'
  BY <1>1, <1>2, TopUpFacts DEF LiveHandle
<1> QED BY <1>3 DEF peekOrLockHead, queue, TypeOK

\* An answer makes calls, and withdraws none; a fetched request is staged.
LEMMA TypeAnswers ==
    ASSUME TypeOK, NEW c \in Callers,
           Added(c) \/ Fetched(c) \/ Drained(c) \/ Got(c) \/ Released(c) \/ Unlocked(c)
    PROVE  TypeOK' /\ ToSet(calls) \subseteq ToSet(calls')
<1> DEFINE Typed == /\ op' \in [Callers -> Operations] /\ calls' \in Seq(Calls)
                    /\ ToSet(calls) \subseteq ToSet(calls')
<1>1. ASSUME Finish(c) PROVE Typed
  BY <1>1, QueueAssumption, IdleFacts DEF Finish, TypeOK
<1>2. CASE Added(c)
  <2>1. op[c] \in Operations /\ op[c].kind \in {"add"} /\ answers' \in Seq(Calls)
    BY <1>2, AnswerFacts DEF Added
  <2>2. op[c].request \in Requests
    BY <2>1 DEF Operations
  <2>3. Typed
    BY <1>1, <1>2 DEF Added
  <2> QED BY <1>2, <2>1, <2>2, <2>3 DEF Added, queue, TypeOK
<1>3. CASE Fetched(c)
  <2> DEFINE r == Head(answers).found
  <2>1. op[c] \in Peeks /\ answers' \in Seq(Calls) /\ r \in Found
    BY <1>3, AnswerFacts DEF Fetched, Peeks
  <2>2. CASE r # NoRequest /\ seen' = seen \cup {r} /\ TopUp(c, op[c], Append(staged, r))
    <3>1. r \in Requests /\ Append(staged, r) \in Seq(Requests)
      BY <2>1, <2>2, AppendProperties DEF Found, TypeOK
    <3>2. Typed /\ staged' \in Seq(Requests) /\ handedOut' \subseteq Requests
      BY <2>1, <2>2, <3>1, TopUpFacts
    <3> QED BY <1>3, <2>1, <2>2, <3>1, <3>2 DEF Fetched, queue, TypeOK
  <2>3. CASE Finish(c) /\ HeadDone(op[c], staged) /\ UNCHANGED seen
    <3>1. staged \in Seq(Requests)
      BY DEF TypeOK
    <3>2. Typed /\ staged' \in Seq(Requests) /\ handedOut' \subseteq Requests
      BY <2>1, <2>3, <3>1, TopUpFacts
    <3> QED BY <1>3, <2>1, <2>3, <3>2 DEF Fetched, queue, TypeOK
  <2> QED BY <1>3, <2>2, <2>3 DEF Fetched
<1>4. CASE Drained(c)
  <2> DEFINE r == Head(answers).found
  <2>1. op[c] \in Drains /\ answers' \in Seq(Calls) /\ r \in Found
    BY <1>4, AnswerFacts DEF Drained, Drains
  <2>2. op[c] \in Operations /\ op[c].kind \in {"mark", "reclaim"} /\ op[c].request \in Requests
    BY <2>1 DEF Drains, Operations
  <2>3. CASE r # NoRequest /\ seen' = seen \cup {r} /\ staged' = Append(staged, r)
    <3>1. r \in Requests /\ staged' \in Seq(Requests)
      BY <2>1, <2>3, AppendProperties DEF Found, TypeOK
    <3>2. Await(c, op[c], op[c].kind) \/ Drain(c, op[c], staged', seen')
      BY <1>4, <2>3 DEF Drained
    <3>3. Typed
      BY <2>1, <2>2, <3>2, AwaitFacts, DrainFacts
    <3> QED BY <1>4, <2>1, <2>3, <3>1, <3>3 DEF Drained, queue, TypeOK
  <2>4. CASE LastResort(c, op[c], seen) /\ UNCHANGED <<seen, staged>>
    <3>1. Typed
      BY <2>1, <2>4, DrainFacts
    <3> QED BY <1>4, <2>1, <2>4, <3>1 DEF Drained, queue, TypeOK
  <2> QED BY <1>4, <2>3, <2>4 DEF Drained
<1>5. CASE Got(c)
  <2>1. op[c] \in Operations /\ op[c].kind \in {"mark", "reclaim"} /\ answers' \in Seq(Calls)
    BY <1>5, AnswerFacts DEF Got
  <2>2. op[c].request \in Requests
    BY <2>1 DEF Operations
  <2>3. Typed
    BY <1>5, <2>1, <2>2, AwaitFacts DEF Got
  <2> QED BY <1>5, <2>1, <2>3 DEF Got, queue, buffer, TypeOK
<1>6. CASE Released(c)
  <2>1. answers' \in Seq(Calls)
    BY <1>6, AnswerFacts DEF Released
  <2>2. Typed
    BY <1>1, <1>6 DEF Released
  <2>3. staged' \in Seq(Requests) /\ handedOut' \subseteq Requests
    BY <1>6, RemoveFacts DEF Released, releaseFromBuffers, TypeOK
  <2> QED BY <1>6, <2>1, <2>2, <2>3 DEF Released, queue, TypeOK
<1>7. CASE Unlocked(c)
  <2>1. answers' \in Seq(Calls)
    BY <1>7, AnswerFacts DEF Unlocked
  <2>2. Typed
    BY <1>1, <1>7 DEF Unlocked, TypeOK
  <2> QED BY <1>7, <2>1, <2>2 DEF Unlocked, queue, buffer, TypeOK
<1> QED BY <1>2, <1>3, <1>4, <1>5, <1>6, <1>7

\* The oldest call takes effect.
LEMMA TypeEffect == TypeOK /\ TakesEffect => TypeOK'
<1> SUFFICES ASSUME TypeOK, TakesEffect PROVE TypeOK'
  OBVIOUS
<1> DEFINE call == Head(calls)
           r == call.request
<1>1. call \in Calls /\ calls' \in Seq(Calls)
  BY TailFacts DEF TakesEffect, TypeOK
<1>2. ASSUME NEW found \in Found, Answered(call, found) PROVE answers' \in Seq(Calls)
  <2>1. [call EXCEPT !.found = found] \in Calls
    BY <1>1 DEF Calls
  <2> QED BY <1>2, <2>1, AppendProperties DEF Answered, TypeOK
<1>3. call.kind \in {"add", "get", "mark", "reclaim"} => r \in Requests
  BY <1>1 DEF Calls
<1>4. ASSUME r \in Requests, NEW f PROVE Put(order, r, f) \in Seq(Requests)
  <2>1. <<r>> \in Seq(Requests) /\ order \in Seq(Requests)
    BY <1>4 DEF TypeOK
  <2> QED BY <1>4, <2>1, ConcatProperties, AppendProperties DEF Put
<1> HIDE DEF call
<1> DEFINE Typed == /\ state' \in [Requests -> {"absent", "pending", "inProgress", "handled"}]
                    /\ order' \in Seq(Requests) /\ answers' \in Seq(Calls)
<1>5. CASE call.kind = "fetch" /\ order # <<>> /\ order' = Tail(order)
           /\ state' = [state EXCEPT ![Head(order)] = "inProgress"]
           /\ Answered(call, Head(order))
  <2>1. Head(order) \in Requests /\ order' \in Seq(Requests)
    BY <1>5, TailFacts DEF TypeOK
  <2>2. answers' \in Seq(Calls)
    BY <1>2, <1>5, <2>1 DEF Found
  <2>3. Typed
    BY <1>5, <2>1, <2>2 DEF TypeOK
  <2> QED BY <1>1, <2>3 DEF TakesEffect, buffer, TypeOK
<1>6. CASE r \in Requests /\ state' = [state EXCEPT ![r] = "pending"]
           /\ order' = Put(order, r, call.forefront) /\ Answered(call, r)
  <2>1. answers' \in Seq(Calls) /\ order' \in Seq(Requests)
    BY <1>2, <1>4, <1>6 DEF Found
  <2>2. Typed
    BY <1>6, <2>1 DEF TypeOK
  <2> QED BY <1>1, <2>2 DEF TakesEffect, buffer, TypeOK
<1>7. CASE r \in Requests /\ state' = [state EXCEPT ![r] = "handled"]
           /\ Answered(call, r) /\ UNCHANGED order
  <2>1. answers' \in Seq(Calls)
    BY <1>2, <1>7 DEF Found
  <2>2. Typed
    BY <1>7, <2>1 DEF TypeOK
  <2> QED BY <1>1, <2>2 DEF TakesEffect, buffer, TypeOK
<1>8. ASSUME UNCHANGED queue, NEW found \in Found, Answered(call, found)
      PROVE  TypeOK'
  <2>1. answers' \in Seq(Calls)
    BY <1>2, <1>8
  <2>2. Typed
    BY <1>8, <2>1 DEF queue, TypeOK
  <2> QED BY <1>1, <2>2 DEF TakesEffect, buffer, TypeOK
<1>9. CASE call.kind = "fetch"
  <2>1. \/ Answered(call, NoRequest) /\ UNCHANGED queue
        \/ /\ order # <<>> /\ order' = Tail(order) /\ Answered(call, Head(order))
           /\ state' = [state EXCEPT ![Head(order)] = "inProgress"]
    BY <1>9 DEF TakesEffect, call
  <2>2. CASE Answered(call, NoRequest) /\ UNCHANGED queue
    BY <1>8, <2>2 DEF Found
  <2>3. CASE order # <<>> /\ order' = Tail(order) /\ Answered(call, Head(order))
             /\ state' = [state EXCEPT ![Head(order)] = "inProgress"]
    BY <1>5, <1>9, <2>3
  <2> QED BY <2>1, <2>2, <2>3
<1>10. CASE call.kind = "get"
  BY <1>3, <1>8, <1>10 DEF TakesEffect, call, Found
<1>11. CASE call.kind = "add"
  BY <1>3, <1>6, <1>8, <1>11 DEF TakesEffect, call, Found
<1>12. CASE call.kind = "reclaim"
  <2>1. \/ Answered(call, NoRequest) /\ UNCHANGED queue
        \/ /\ state' = [state EXCEPT ![r] = "pending"] /\ Answered(call, r)
           /\ order' = Put(order, r, call.forefront)
    BY <1>12 DEF TakesEffect, call
  <2>2. CASE Answered(call, NoRequest) /\ UNCHANGED queue
    BY <1>8, <2>2 DEF Found
  <2>3. CASE state' = [state EXCEPT ![r] = "pending"] /\ Answered(call, r) /\ order' = Put(order, r, call.forefront)
    BY <1>3, <1>6, <1>12, <2>3
  <2> QED BY <2>1, <2>2, <2>3
<1>13. CASE call.kind = "mark"
  <2>1. \/ Answered(call, NoRequest) /\ UNCHANGED queue
        \/ /\ state' = [state EXCEPT ![r] = "handled"] /\ Answered(call, r)
           /\ UNCHANGED order
    BY <1>13 DEF TakesEffect, call
  <2>2. CASE Answered(call, NoRequest) /\ UNCHANGED queue
    BY <1>8, <2>2 DEF Found
  <2>3. CASE state' = [state EXCEPT ![r] = "handled"] /\ Answered(call, r) /\ UNCHANGED order
    BY <1>3, <1>7, <1>13, <2>3
  <2> QED BY <2>1, <2>2, <2>3
<1>14. call.kind \in {"fetch", "get", "add", "reclaim", "mark"}
  BY <1>1 DEF Calls
<1> QED BY <1>9, <1>10, <1>11, <1>12, <1>13, <1>14

\* The reclaims of an unlock-all: one for each request that is handed out.
LEMMA ReclaimAllFacts ==
    ASSUME TypeOK, NEW c \in Callers, ReclaimAll(c)
    PROVE  /\ calls' \in Seq(Calls)
           /\ ToSet(calls') = ToSet(calls) \cup {Call(c, "reclaim", r, FALSE) : r \in handedOut}
<1>1. PICK s \in Bijection(1..Cardinality(handedOut), handedOut) :
        calls' = calls \o [i \in DOMAIN s |-> Call(c, "reclaim", s[i], FALSE)]
  BY DEF ReclaimAll
<1>2. handedOut \subseteq Requests /\ Cardinality(handedOut) \in Nat
  BY QueueAssumption, FS_Subset, FS_CardinalityType DEF QueueAssumption, TypeOK
<1>3. /\ s \in [1..Cardinality(handedOut) -> handedOut]
      /\ \A r \in handedOut : \E i \in 1..Cardinality(handedOut) : s[i] = r
  BY DEF Bijection, Injection, Surjection
<1> DEFINE n == Cardinality(handedOut)
           t == [i \in 1..n |-> Call(c, "reclaim", s[i], FALSE)]
<1>4. \A r \in handedOut : Call(c, "reclaim", r, FALSE) \in Calls
  BY <1>2 DEF Call, Calls, Found
<1>5. DOMAIN s = 1..n /\ n \in Nat /\ \A i \in 1..n : s[i] \in handedOut
  BY <1>2, <1>3
<1> HIDE DEF n
<1>6. t \in [1..n -> Calls] /\ DOMAIN t = 1..n
  BY <1>4, <1>5
<1>7. ToSet(t) = {Call(c, "reclaim", r, FALSE) : r \in handedOut}
  BY <1>3, <1>5 DEF ToSet, n
<1> HIDE DEF t
<1>8. calls' = calls \o t
  BY <1>1, <1>5 DEF t
<1>9. t \in Seq(Calls) /\ calls \in Seq(Calls)
  BY <1>5, <1>6, SeqDef DEF TypeOK
<1>10. calls \o t \in Seq(Calls) /\ ToSet(calls \o t) = ToSet(calls) \cup ToSet(t)
  BY <1>9, ConcatFacts
<1> QED BY <1>7, <1>8, <1>10

\* takeAllHandedOut and the reclaims.
LEMMA TypeUnlockAll ==
    ASSUME TypeOK, NEW c \in Callers, unlockAll(c)
    PROVE  TypeOK'
<1>1. [Idle EXCEPT !.kind = "unlock"] \in Operations
  BY QueueAssumption DEF Idle, Operations, QueueAssumption
<1>2. op' \in [Callers -> Operations]
  BY <1>1 DEF unlockAll, TypeOK
<1>3. calls' \in Seq(Calls)
  BY ReclaimAllFacts DEF unlockAll
<1> QED BY <1>2, <1>3 DEF unlockAll, queue, TypeOK

\* A restart offers again what was in progress.
LEMMA TypeRestart == TypeOK /\ Restart => TypeOK'
<1> SUFFICES ASSUME TypeOK, Restart PROVE TypeOK'
  OBVIOUS
<1> DEFINE P == {r \in Requests : state'[r] = "pending"}
<1>1. Cardinality(P) \in Nat
  BY QueueAssumption, FS_Subset, FS_CardinalityType DEF QueueAssumption
<1>2. order' \in [1..Cardinality(P) -> P]
  BY DEF Restart, SetToSeqs
<1>3. order' \in Seq(Requests)
  <2>1. order' \in [1..Cardinality(P) -> Requests]
    BY <1>2
  <2> HIDE DEF P
  <2> QED BY <1>1, <2>1, SeqDef
<1>4. op' \in [Callers -> Operations]
  BY QueueAssumption, IdleFacts DEF Restart
<1>5. state' \in [Requests -> {"absent", "pending", "inProgress", "handled"}]
  BY DEF Restart, TypeOK
<1> QED BY <1>3, <1>4, <1>5, EmptySeq DEF Restart, TypeOK

\* A fresh queue and an empty buffer have their types.
LEMMA TypeInit == Init => TypeOK
  BY QueueAssumption, IdleFacts, EmptySeq DEF Init, TypeOK

\* Every step keeps the types: one step per group of actions.
LEMMA TypeStep == TypeOK /\ [Next]_vars => TypeOK'
<1> SUFFICES ASSUME TypeOK, [Next]_vars PROVE TypeOK'
  OBVIOUS
<1>1. CASE TakesEffect
  BY <1>1, TypeEffect
<1>2. CASE Restart
  BY <1>2, TypeRestart
<1>3. ASSUME NEW c \in Callers, unlockAll(c) PROVE TypeOK'
  BY <1>3, TypeUnlockAll
<1>4. ASSUME NEW c \in Callers,
             Added(c) \/ Fetched(c) \/ Drained(c) \/ Got(c) \/ Released(c) \/ Unlocked(c)
      PROVE  TypeOK'
  BY <1>4, TypeAnswers
<1>5. ASSUME NEW c \in Callers, NEW r \in Requests, NEW f \in Forefronts,
             \/ addRequest(c, r, f) \/ releaseLock(c, r, f)
             \/ \E kind \in {"mark", "reclaim"} : markHandledOrReclaim(c, kind, r, f)
      PROVE  TypeOK'
  BY <1>5, TypeArrivals
<1>6. ASSUME NEW c \in Callers, NEW limit \in Limits,
             NEW kind \in {"head", "lock"}, peekOrLockHead(c, kind, limit)
      PROVE  TypeOK'
  BY <1>6, TypePeeks
<1>7. CASE UNCHANGED vars
  BY <1>7 DEF vars, queue, buffer, TypeOK
<1> QED BY <1>1, <1>2, <1>3, <1>4, <1>5, <1>6, <1>7 DEF Next

\* Every variable of the queue and of its buffer always holds a value of its kind; in particular
\* a drain makes at most DRAIN_CAP fetches (drainUntilFound).
THEOREM QueueTypeCorrect == Spec => []TypeOK
  BY TypeInit, TypeStep, PTL DEF Spec

-----------------------------------------------------------------------------
(* Nothing is stranded. The one action that drops a request is Released,   *)
(* whatever the answer was; it strands nothing because of the order of the *)
(* answers: what a mark or a reclaim leaves is not in progress, and only a *)
(* fetch that took effect later, and so is answered later, makes it so.    *)

\* A request that is in progress although a mark or a reclaim of it has taken effect was fetched
\* after it: that fetch's answer is behind it.
FetchedLater ==
    \A i \in 1..Len(answers) :
        /\ answers[i].kind \in {"mark", "reclaim"}
        /\ state[answers[i].request] = "inProgress"
        => \E j \in 1..Len(answers) :
            i < j /\ answers[j].kind = "fetch" /\ answers[j].found = answers[i].request

\* A call is about to give request r back.
BeingReturned(r) ==
    \E call \in ToSet(calls) : call.kind \in {"mark", "reclaim"} /\ call.request = r

\* What a call's effect does: the answer it gives, and the one request it may move.
LEMMA EffectFacts ==
    ASSUME TypeOK, TakesEffect
    PROVE  \E a \in Calls :
        /\ answers' = Append(answers, a) /\ ToSet(calls) \subseteq ToSet(calls') \cup {Head(calls)}
        /\ a.kind = Head(calls).kind /\ a.request = Head(calls).request
        /\ \A r \in Requests : state'[r] = "inProgress" /\ state[r] # "inProgress"
                                  => a.kind = "fetch" /\ a.found = r
        /\ a.kind \in {"mark", "reclaim"} => state'[a.request] # "inProgress"
<1> DEFINE call == Head(calls)
           r == call.request
<1>1. call \in Calls /\ ToSet(calls) = ToSet(calls') \cup {call}
  BY TailFacts DEF TakesEffect, TypeOK
<1>2. call.kind \in {"add", "get", "mark", "reclaim"} => r \in Requests
  BY <1>1 DEF Calls
<1>3. call.kind \in {"fetch", "get", "add", "reclaim", "mark"}
  BY <1>1 DEF Calls
<1> DEFINE Step(found) ==
      /\ Answered(call, found)
      /\ \A q \in Requests : state'[q] = "inProgress" /\ state[q] # "inProgress"
                                => call.kind = "fetch" /\ found = q
      /\ call.kind \in {"mark", "reclaim"} => state'[r] # "inProgress"
<1>4. ASSUME NEW found \in Found, Step(found)
      PROVE  \E a \in Calls :
        /\ answers' = Append(answers, a) /\ ToSet(calls) \subseteq ToSet(calls') \cup {call}
        /\ a.kind = call.kind /\ a.request = r
        /\ \A q \in Requests : state'[q] = "inProgress" /\ state[q] # "inProgress"
                                  => a.kind = "fetch" /\ a.found = q
        /\ a.kind \in {"mark", "reclaim"} => state'[a.request] # "inProgress"
  <2> DEFINE a == [call EXCEPT !.found = found]
  <2>1. a \in Calls /\ a.kind = call.kind /\ a.request = r /\ a.found = found
    BY <1>1 DEF Calls
  <2>2. answers' = Append(answers, a)
    BY <1>4 DEF Answered
  <2> HIDE DEF a
  <2> USE <2>1
  <2> WITNESS a \in Calls
  <2> QED BY <1>1, <1>4, <2>2
<1> HIDE DEF call
<1>5. CASE call.kind = "fetch"
  <2>1. \/ Answered(call, NoRequest) /\ UNCHANGED queue
        \/ /\ order # <<>> /\ Answered(call, Head(order))
           /\ state' = [state EXCEPT ![Head(order)] = "inProgress"]
    BY <1>5 DEF TakesEffect, call
  <2>2. CASE Answered(call, NoRequest) /\ UNCHANGED queue
    <3>1. NoRequest \in Found /\ Step(NoRequest)
      BY <1>5, <2>2 DEF Found, queue
    <3> QED BY <1>4, <3>1 DEF call
  <2>3. CASE /\ order # <<>> /\ Answered(call, Head(order))
             /\ state' = [state EXCEPT ![Head(order)] = "inProgress"]
    <3>1. Head(order) \in Found
      BY <2>3, TailFacts DEF TypeOK, Found
    <3>2. Step(Head(order))
      BY <1>5, <2>3 DEF TypeOK
    <3> QED BY <1>4, <3>1, <3>2 DEF call
  <2> QED BY <2>1, <2>2, <2>3
<1>6. CASE call.kind \in {"add", "get"}
  <2>1. /\ Answered(call, r)
        /\ state' = state \/ state' = [state EXCEPT ![r] = "pending"]
    BY <1>6 DEF TakesEffect, call, queue
  <2>2. r \in Found /\ Step(r)
    BY <1>2, <1>6, <2>1 DEF Found, TypeOK
  <2> QED BY <1>4, <2>2 DEF call
<1>7. CASE call.kind \in {"mark", "reclaim"}
  <2>1. \/ Answered(call, NoRequest) /\ state[r] # "inProgress" /\ UNCHANGED queue
        \/ /\ Answered(call, r)
           /\ \/ state' = [state EXCEPT ![r] = "pending"]
              \/ state' = [state EXCEPT ![r] = "handled"]
    BY <1>7 DEF TakesEffect, call
  <2>2. CASE Answered(call, NoRequest) /\ state[r] # "inProgress" /\ UNCHANGED queue
    <3>1. NoRequest \in Found /\ Step(NoRequest)
      BY <2>2 DEF Found, queue
    <3> QED BY <1>4, <3>1 DEF call
  <2>3. CASE /\ Answered(call, r)
             /\ \/ state' = [state EXCEPT ![r] = "pending"]
                \/ state' = [state EXCEPT ![r] = "handled"]
    <3>1. r \in Found /\ Step(r)
      BY <1>2, <1>7, <2>3 DEF Found, TypeOK
    <3> QED BY <1>4, <3>1 DEF call
  <2> QED BY <2>1, <2>2, <2>3
<1> QED BY <1>3, <1>5, <1>6, <1>7

\* FetchedLater is kept by a step that leaves the answers and the queue alone.
LEMMA LaterCalls ==
    ASSUME FetchedLater, UNCHANGED <<answers, state>>
    PROVE  FetchedLater'
  BY DEF FetchedLater

\* And by a step that takes the oldest answer.
LEMMA LaterAnswers ==
    ASSUME TypeOK, FetchedLater, answers # <<>>, answers' = Tail(answers), UNCHANGED state
    PROVE  FetchedLater'
<1>1. /\ Len(answers) \in Nat /\ Len(answers') = Len(answers) - 1
      /\ \A i \in 1..Len(answers') : i + 1 \in 1..Len(answers) /\ answers'[i] = answers[i + 1]
  BY HeadTailProperties, LenProperties DEF TypeOK
<1>2. SUFFICES ASSUME NEW i \in 1..Len(answers'), answers'[i].kind \in {"mark", "reclaim"},
                      state'[answers'[i].request] = "inProgress"
               PROVE  \E j \in 1..Len(answers') : i < j /\ answers'[j].kind = "fetch"
                         /\ answers'[j].found = answers'[i].request
  BY DEF FetchedLater
<1>3. PICK j \in 1..Len(answers) : i + 1 < j /\ answers[j].kind = "fetch"
                                /\ answers[j].found = answers[i + 1].request
  BY <1>1, <1>2 DEF FetchedLater
<1>4. j - 1 \in 1..Len(answers') /\ i < j - 1 /\ (j - 1) + 1 = j
  BY <1>1, <1>3
<1>5. answers'[j - 1] = answers[j]
  BY <1>1, <1>4
<1> QED BY <1>1, <1>3, <1>4, <1>5

\* And by the effect of a call.
LEMMA LaterEffect ==
    ASSUME TypeOK, FetchedLater, TakesEffect
    PROVE  FetchedLater'
<1>1. PICK a \in Calls :
        /\ answers' = Append(answers, a)
        /\ \A r \in Requests : state'[r] = "inProgress" /\ state[r] # "inProgress"
                                  => a.kind = "fetch" /\ a.found = r
        /\ a.kind \in {"mark", "reclaim"} => state'[a.request] # "inProgress"
  BY EffectFacts
<1> DEFINE n == Len(answers)
<1>2. /\ n \in Nat /\ Len(answers') = n + 1 /\ answers'[n + 1] = a
      /\ \A i \in 1..n : answers'[i] = answers[i]
  BY <1>1, AppendProperties, LenProperties DEF TypeOK
<1>3. SUFFICES ASSUME NEW i \in 1..Len(answers'), answers'[i].kind \in {"mark", "reclaim"},
                      state'[answers'[i].request] = "inProgress"
               PROVE  \E j \in 1..Len(answers') : i < j /\ answers'[j].kind = "fetch"
                         /\ answers'[j].found = answers'[i].request
  BY DEF FetchedLater
<1>4. i \in 1..n /\ answers'[i] = answers[i]
  BY <1>1, <1>2, <1>3
<1>5. answers[i].request \in Requests
  <2>1. answers[i] \in Calls
    BY <1>4, ElementOfSeq DEF TypeOK
  <2> QED BY <1>3, <1>4, <2>1 DEF Calls
<1>6. CASE state[answers[i].request] = "inProgress"
  <2>1. PICK j \in 1..n : i < j /\ answers[j].kind = "fetch"
                          /\ answers[j].found = answers[i].request
    BY <1>3, <1>4, <1>6 DEF FetchedLater
  <2>2. j \in 1..Len(answers') /\ answers'[j] = answers[j]
    BY <1>2
  <2> QED BY <1>4, <2>1, <2>2
<1>7. CASE state[answers[i].request] # "inProgress"
  <2>1. a.kind = "fetch" /\ a.found = answers[i].request
    BY <1>1, <1>3, <1>4, <1>5, <1>7
  <2>2. n + 1 \in 1..Len(answers') /\ i < n + 1
    BY <1>2, <1>4
  <2> QED BY <1>2, <1>4, <2>1, <2>2
<1> QED BY <1>6, <1>7

\* A step that moves no request strands none, if what is staged or handed out stays so, and
\* calls are only added.
LEMMA KeptByCalls ==
    ASSUME NothingStranded, UNCHANGED <<state, answers>>, ToSet(calls) \subseteq ToSet(calls'),
           \A r \in Requests : LiveHandle(r) => LiveHandle(r)'
    PROVE  NothingStranded'
  BY DEF NothingStranded, BeingStaged

\* The same of one that takes an answer, if the request of a fetch is then staged or handed out.
LEMMA KeptByAnswer ==
    ASSUME NothingStranded, UNCHANGED state, ToSet(calls) \subseteq ToSet(calls'),
           NEW a, ToSet(answers) = ToSet(answers') \cup {a},
           \A r \in Requests : LiveHandle(r) => LiveHandle(r)',
           \A r \in Requests : a.kind = "fetch" /\ a.found = r => LiveHandle(r)'
    PROVE  NothingStranded'
<1> SUFFICES ASSUME NEW r \in Requests, state'[r] = "inProgress"
             PROVE  \/ LiveHandle(r)' \/ BeingStaged(r)' \/ BeingReturned(r)'
  BY DEF NothingStranded, BeingReturned
<1>1. LiveHandle(r) \/ BeingStaged(r) \/ BeingReturned(r)
  BY DEF NothingStranded, BeingReturned
<1>2. BeingReturned(r) => BeingReturned(r)'
  BY DEF BeingReturned
<1>3. BeingStaged(r) => BeingStaged(r)' \/ LiveHandle(r)'
  BY DEF BeingStaged
<1> QED BY <1>1, <1>2, <1>3

\* Requests that arrive.
LEMMA StrandedArrivals ==
    ASSUME TypeOK, NothingStranded, NEW c \in Callers, NEW r \in Requests, NEW f \in Forefronts,
           \/ addRequest(c, r, f) \/ releaseLock(c, r, f)
           \/ \E kind \in {"mark", "reclaim"} : markHandledOrReclaim(c, kind, r, f)
    PROVE  NothingStranded'
<1>1. ToSet(calls) \subseteq ToSet(calls')
  BY TypeArrivals
<1>2. UNCHANGED <<state, answers, staged, handedOut>>
  BY DEF addRequest, releaseLock, markHandledOrReclaim, queue, buffer
<1> QED BY <1>1, <1>2, KeptByCalls DEF LiveHandle

\* The answers other than Released. What is fetched is staged.
LEMMA StrandedAnswers ==
    ASSUME TypeOK, NothingStranded, NEW c \in Callers,
           Added(c) \/ Fetched(c) \/ Drained(c) \/ Got(c) \/ Unlocked(c)
    PROVE  NothingStranded'
<1> DEFINE a == Head(answers)
<1>1. ToSet(calls) \subseteq ToSet(calls') /\ UNCHANGED state
  BY TypeAnswers DEF Added, Fetched, Drained, Got, Unlocked, queue
<1>2. staged \in Seq(Requests)
  BY DEF TypeOK
<1>3. CASE Added(c)
  <2>1. ToSet(answers) = ToSet(answers') \cup {a} /\ a.kind = "add"
    BY <1>3, AnswerFacts DEF Added
  <2>2. UNCHANGED <<staged, handedOut>>
    BY <1>3 DEF Added
  <2> HIDE DEF a
  <2> QED BY <1>1, <2>1, <2>2, KeptByAnswer DEF LiveHandle
<1>4. CASE Fetched(c)
  <2>1. /\ ToSet(answers) = ToSet(answers') \cup {a} /\ a.kind = "fetch" /\ a.found \in Found
        /\ op[c] \in Peeks
    BY <1>4, AnswerFacts DEF Fetched, Peeks
  <2>2. CASE a.found # NoRequest /\ TopUp(c, op[c], Append(staged, a.found))
    <3>1. a.found \in Requests
      BY <2>1, <2>2 DEF Found
    <3>2. Append(staged, a.found) \in Seq(Requests)
      BY <1>2, <3>1, AppendFacts
    <3>3. \A r : Contains(Append(staged, a.found), r) \/ r \in handedOut => LiveHandle(r)'
      BY <2>1, <2>2, <3>2, TopUpFacts
    <3>4. \A r : LiveHandle(r) \/ r = a.found => LiveHandle(r)'
      BY <1>2, <3>1, <3>3, AppendFacts DEF LiveHandle
    <3> HIDE DEF a
    <3> QED BY <1>1, <2>1, <3>4, KeptByAnswer
  <2>3. CASE a.found = NoRequest /\ Finish(c) /\ HeadDone(op[c], staged)
    <3>1. \A r : LiveHandle(r) => LiveHandle(r)'
      BY <1>2, <2>1, <2>3, TopUpFacts DEF LiveHandle
    <3>2. \A r \in Requests : a.found # r
      BY <2>3, QueueAssumption DEF QueueAssumption
    <3> HIDE DEF a
    <3> QED BY <1>1, <2>1, <3>1, <3>2, KeptByAnswer
  <2> QED BY <1>4, <2>2, <2>3 DEF Fetched
<1>5. CASE Drained(c)
  <2>1. ToSet(answers) = ToSet(answers') \cup {a} /\ a.kind = "fetch" /\ a.found \in Found
    BY <1>5, AnswerFacts DEF Drained
  <2>2. handedOut' = handedOut
    BY <1>5 DEF Drained
  <2>3. CASE a.found # NoRequest /\ staged' = Append(staged, a.found)
    <3>1. a.found \in Requests
      BY <2>1, <2>3 DEF Found
    <3>2. \A r : LiveHandle(r) \/ r = a.found => LiveHandle(r)'
      BY <1>2, <2>2, <2>3, <3>1, AppendFacts DEF LiveHandle
    <3> HIDE DEF a
    <3> QED BY <1>1, <2>1, <3>2, KeptByAnswer
  <2>4. CASE a.found = NoRequest /\ staged' = staged
    <3>1. \A r \in Requests : a.found # r
      BY <2>4, QueueAssumption DEF QueueAssumption
    <3> HIDE DEF a
    <3> QED BY <1>1, <2>1, <2>2, <2>4, <3>1, KeptByAnswer DEF LiveHandle
  <2> QED BY <1>5, <2>3, <2>4 DEF Drained
<1>6. CASE Got(c)
  <2>1. ToSet(answers) = ToSet(answers') \cup {a} /\ a.kind = "get"
    BY <1>6, AnswerFacts DEF Got
  <2>2. UNCHANGED <<staged, handedOut>>
    BY <1>6 DEF Got, buffer
  <2> HIDE DEF a
  <2> QED BY <1>1, <2>1, <2>2, KeptByAnswer DEF LiveHandle
<1>7. CASE Unlocked(c)
  <2>1. ToSet(answers) = ToSet(answers') \cup {a} /\ a.kind = "reclaim"
    BY <1>7, AnswerFacts DEF Unlocked
  <2>2. UNCHANGED <<staged, handedOut>>
    BY <1>7 DEF Unlocked, buffer
  <2> HIDE DEF a
  <2> QED BY <1>1, <2>1, <2>2, KeptByAnswer DEF LiveHandle
<1> QED BY <1>3, <1>4, <1>5, <1>6, <1>7

\* Released drops the request of a mark or a reclaim: if it is in progress again, the fetch that
\* made it so is still to be answered.
LEMMA StrandedReleased ==
    ASSUME TypeOK, FetchedLater, NothingStranded, NEW c \in Callers, Released(c)
    PROVE  NothingStranded'
<1> DEFINE a == Head(answers)
<1>1. /\ ToSet(answers) = ToSet(answers') \cup {a} /\ a.kind \in {"mark", "reclaim"}
      /\ a.request \in Requests
  BY AnswerFacts DEF Released
<1>2. ToSet(calls) \subseteq ToSet(calls') /\ UNCHANGED state
  BY TypeAnswers DEF Released, queue
<1>3. answers # <<>> /\ answers' = Tail(answers)
  BY DEF Released, Answers
<1>4. /\ Len(answers) \in Nat \ {0} /\ Len(answers') = Len(answers) - 1 /\ a = answers[1]
      /\ \A i \in 1..Len(answers') : answers'[i] = answers[i + 1]
      /\ answers' \in Seq(Calls)
  BY <1>3, HeadTailProperties, EmptySeq DEF TypeOK
<1>5. PICK q \in Requests : q = a.request
  BY <1>1
<1>6. releaseFromBuffers(q)
  BY <1>5 DEF Released
<1> HIDE DEF a
<1>7. \A r : r # q /\ LiveHandle(r) => LiveHandle(r)'
  BY <1>6, RemoveFacts DEF releaseFromBuffers, LiveHandle, TypeOK
<1>8. state[q] = "inProgress" => BeingStaged(q)'
  <2>1. SUFFICES ASSUME state[q] = "inProgress" PROVE BeingStaged(q)'
    OBVIOUS
  <2>2. 1 \in 1..Len(answers)
    BY <1>4
  <2>3. PICK j \in 1..Len(answers) : 1 < j /\ answers[j].kind = "fetch"
                                  /\ answers[j].found = q
    BY <1>1, <1>5, <1>4, <2>1, <2>2 DEF FetchedLater
  <2>4. j - 1 \in 1..Len(answers') /\ (j - 1) + 1 = j
    BY <1>4, <2>3
  <2>5. answers'[j - 1] = answers[j]
    BY <1>4, <2>4
  <2>6. answers[j] \in ToSet(answers')
    BY <1>4, <2>4, <2>5, MemberFacts
  <2> QED BY <2>3, <2>6 DEF BeingStaged
<1>9. SUFFICES ASSUME NEW r \in Requests, state'[r] = "inProgress"
               PROVE  \/ LiveHandle(r)' \/ BeingStaged(r)' \/ BeingReturned(r)'
  BY DEF NothingStranded, BeingReturned
<1>10. LiveHandle(r) \/ BeingStaged(r) \/ BeingReturned(r)
  BY <1>2, <1>9 DEF NothingStranded, BeingReturned
<1>11. BeingReturned(r) => BeingReturned(r)'
  BY <1>2 DEF BeingReturned
<1>12. BeingStaged(r) => BeingStaged(r)'
  BY <1>1 DEF BeingStaged
<1> QED BY <1>2, <1>7, <1>8, <1>9, <1>10, <1>11, <1>12

\* unlockAll makes a reclaim of every request it drops.
LEMMA StrandedUnlockAll ==
    ASSUME TypeOK, NothingStranded, NEW c \in Callers, unlockAll(c)
    PROVE  NothingStranded'
<1>1. ToSet(calls') = ToSet(calls) \cup {Call(c, "reclaim", r, FALSE) : r \in handedOut}
  BY ReclaimAllFacts DEF unlockAll
<1>2. UNCHANGED <<state, answers, staged>>
  BY DEF unlockAll, queue
<1>3. \A r \in handedOut : BeingReturned(r)'
  <2> TAKE r \in handedOut
  <2>1. Call(c, "reclaim", r, FALSE) \in ToSet(calls')
    BY <1>1
  <2> QED BY <2>1 DEF BeingReturned, Call
<1>4. SUFFICES ASSUME NEW r \in Requests, state'[r] = "inProgress"
               PROVE  \/ LiveHandle(r)' \/ BeingStaged(r)' \/ BeingReturned(r)'
  BY DEF NothingStranded, BeingReturned
<1>5. LiveHandle(r) \/ BeingStaged(r) \/ BeingReturned(r)
  BY <1>2, <1>4 DEF NothingStranded, BeingReturned
<1>6. BeingReturned(r) => BeingReturned(r)'
  BY <1>1 DEF BeingReturned
<1>7. BeingStaged(r) => BeingStaged(r)'
  BY <1>2 DEF BeingStaged
<1>8. LiveHandle(r) => LiveHandle(r)' \/ r \in handedOut
  BY <1>2 DEF LiveHandle
<1> QED BY <1>3, <1>5, <1>6, <1>7, <1>8

\* A call takes effect only by leaving its request out of progress, or by fetching it.
LEMMA StrandedEffect ==
    ASSUME TypeOK, NothingStranded, TakesEffect
    PROVE  NothingStranded'
<1>1. PICK a \in Calls :
        /\ answers' = Append(answers, a) /\ ToSet(calls) \subseteq ToSet(calls') \cup {Head(calls)}
        /\ a.kind = Head(calls).kind /\ a.request = Head(calls).request
        /\ \A r \in Requests : state'[r] = "inProgress" /\ state[r] # "inProgress"
                                  => a.kind = "fetch" /\ a.found = r
        /\ a.kind \in {"mark", "reclaim"} => state'[a.request] # "inProgress"
  BY EffectFacts
<1>2. ToSet(answers') = ToSet(answers) \cup {a}
  BY <1>1, AppendFacts DEF TypeOK
<1>3. UNCHANGED <<staged, handedOut>>
  BY DEF TakesEffect, buffer
<1>4. SUFFICES ASSUME NEW r \in Requests, state'[r] = "inProgress"
               PROVE  \/ LiveHandle(r)' \/ BeingStaged(r)' \/ BeingReturned(r)'
  BY DEF NothingStranded, BeingReturned
<1>5. CASE state[r] # "inProgress"
  BY <1>1, <1>2, <1>4, <1>5 DEF BeingStaged
<1>6. CASE state[r] = "inProgress"
  <2>1. LiveHandle(r) \/ BeingStaged(r) \/ BeingReturned(r)
    BY <1>6 DEF NothingStranded, BeingReturned
  <2>2. BeingReturned(r) => BeingReturned(r)'
    BY <1>1, <1>4 DEF BeingReturned
  <2> QED BY <1>2, <1>3, <2>1, <2>2 DEF BeingStaged, LiveHandle
<1> QED BY <1>5, <1>6

\* After a restart nothing is in progress.
LEMMA StrandedRestart == TypeOK /\ Restart => NothingStranded' /\ FetchedLater'
<1> SUFFICES ASSUME TypeOK, Restart PROVE NothingStranded' /\ FetchedLater'
  OBVIOUS
<1>1. \A r \in Requests : state'[r] # "inProgress"
  BY DEF Restart, TypeOK
<1>2. answers' = <<>>
  BY DEF Restart
<1> QED BY <1>1, <1>2, EmptySeq DEF NothingStranded, FetchedLater

\* FetchedLater and NothingStranded are inductive together, with the types.
LEMMA StrandedStep ==
    TypeOK /\ FetchedLater /\ NothingStranded /\ [Next]_vars => FetchedLater' /\ NothingStranded'
<1> SUFFICES ASSUME TypeOK, FetchedLater, NothingStranded, [Next]_vars
             PROVE  FetchedLater' /\ NothingStranded'
  OBVIOUS
<1>1. CASE TakesEffect
  BY <1>1, LaterEffect, StrandedEffect
<1>2. CASE Restart
  BY <1>2, StrandedRestart
<1>3. ASSUME NEW c \in Callers, unlockAll(c) PROVE FetchedLater' /\ NothingStranded'
  <2>1. UNCHANGED <<answers, state>>
    BY <1>3 DEF unlockAll, queue
  <2> QED BY <1>3, <2>1, LaterCalls, StrandedUnlockAll
<1>4. ASSUME NEW c \in Callers,
             Added(c) \/ Fetched(c) \/ Drained(c) \/ Got(c) \/ Released(c) \/ Unlocked(c)
      PROVE  FetchedLater' /\ NothingStranded'
  <2>1. answers # <<>> /\ answers' = Tail(answers) /\ UNCHANGED state
    BY <1>4 DEF Added, Fetched, Drained, Got, Released, Unlocked, Answers, queue
  <2> QED BY <1>4, <2>1, LaterAnswers, StrandedAnswers, StrandedReleased
<1>5. ASSUME NEW c \in Callers, NEW r \in Requests, NEW f \in Forefronts,
             \/ addRequest(c, r, f) \/ releaseLock(c, r, f)
             \/ \E kind \in {"mark", "reclaim"} : markHandledOrReclaim(c, kind, r, f)
      PROVE  FetchedLater' /\ NothingStranded'
  <2>1. UNCHANGED <<answers, state>>
    BY <1>5 DEF addRequest, releaseLock, markHandledOrReclaim, queue
  <2> QED BY <1>5, <2>1, LaterCalls, StrandedArrivals
<1>6. ASSUME NEW c \in Callers, NEW limit \in Limits,
             NEW kind \in {"head", "lock"}, peekOrLockHead(c, kind, limit)
      PROVE  FetchedLater' /\ NothingStranded'
  <2>1. UNCHANGED <<answers, state>>
    BY <1>6 DEF peekOrLockHead, queue
  <2>2. ToSet(calls) \subseteq ToSet(calls') /\ \A r : LiveHandle(r) => LiveHandle(r)'
    BY <1>6, TypePeeks
  <2> QED BY <2>1, <2>2, LaterCalls, KeptByCalls
<1>7. CASE UNCHANGED vars
  BY <1>7 DEF vars, queue, buffer, FetchedLater, NothingStranded, LiveHandle, BeingStaged
<1> QED BY <1>1, <1>2, <1>3, <1>4, <1>5, <1>6, <1>7 DEF Next

\* At first no request is in progress.
LEMMA StrandedInit == Init => FetchedLater /\ NothingStranded
  BY EmptySeq DEF Init, FetchedLater, NothingStranded

\* However peeks, hand-outs, drains, marks, reclaims, releases and unlock-alls interleave, a request
\* that is in progress in the queue is held by the buffer, about to be staged or about to be given
\* back (storage/request-queue/buffer.ts): none is lost before the next restart.
THEOREM NothingLost == Spec => []NothingStranded
  BY TypeInit, TypeStep, StrandedInit, StrandedStep, PTL DEF Spec

-----------------------------------------------------------------------------
(* HeldSafely. Calls take effect, and are answered, in the order they were *)
(* made: so the buffer drops a request that was given back before it can   *)
(* stage the next fetch of it. The invariant says so of the positions of   *)
(* the unanswered calls.                                                   *)

\* The k-th answer brings request r, fetched.
FetchedAt(k, r) == answers[k].kind = "fetch" /\ answers[k].found = r

\* The k-th answer is that of a mark or a reclaim which moved r, and which will drop it.
GivenBackAt(k, r) ==
    /\ answers[k].kind \in {"mark", "reclaim"}
    /\ answers[k].request = r /\ answers[k].found = r
    /\ op[answers[k].by].kind # "unlock"

\* The buffer of staged requests s and handed-out requests h holds r at most once.
Once(s, h, r) ==
    /\ \A i, j \in 1..Len(s) : s[i] = r /\ s[j] = r => i = j
    /\ ~(r \in h /\ Contains(s, r))

\* Between two fetches of r, and before the first if it is held, r is given back; and after the
\* last, if it is not in progress.
TakesTurns(r) ==
    /\ Once(staged, handedOut, r)
    /\ LiveHandle(r) => \A k \in 1..Len(answers) :
            FetchedAt(k, r) => \E j \in 1..Len(answers) : j < k /\ GivenBackAt(j, r)
    /\ \A i, k \in 1..Len(answers) : FetchedAt(i, r) /\ FetchedAt(k, r) /\ i < k
            => \E j \in 1..Len(answers) : i < j /\ j < k /\ GivenBackAt(j, r)
    /\ state[r] # "inProgress" =>
        /\ LiveHandle(r) => \E j \in 1..Len(answers) : GivenBackAt(j, r)
        /\ \A i \in 1..Len(answers) :
            FetchedAt(i, r) => \E j \in 1..Len(answers) : i < j /\ GivenBackAt(j, r)

HeldByTurns == \A r \in Requests \ overlapped : TakesTurns(r)

\* What the queue offers is pending, and offered once.
OffersPending ==
    /\ \A i \in 1..Len(order) : state[order[i]] = "pending"
    /\ \A i, j \in 1..Len(order) : order[i] = order[j] => i = j

\* A request that a mark moved is handled for good: no fetch finds it later.
MarkedForGood ==
    \A j \in 1..Len(answers) :
        answers[j].kind = "mark" /\ answers[j].found # NoRequest =>
            /\ answers[j].found = answers[j].request /\ state[answers[j].request] = "handled"
            /\ \A k \in 1..Len(answers) : j < k => ~FetchedAt(k, answers[j].request)

\* Until the reclaim of an unlock-all takes effect, nobody else holds its request, fetches it or
\* reclaims it before.
UnlockedAt(p) ==
    LET r == calls[p].request
    IN  /\ ~LiveHandle(r) /\ state[r] \in {"inProgress", "handled"}
        /\ \A k \in 1..Len(answers) : ~FetchedAt(k, r)
        /\ \A q \in 1..Len(calls) : q < p => ~(calls[q].kind = "reclaim" /\ calls[q].request = r)

UnlockIsAlone ==
    \A p \in 1..Len(calls) : op[calls[p].by].kind = "unlock" =>
        /\ calls[p].kind = "reclaim"
        /\ calls[p].request \notin overlapped => UnlockedAt(p)

\* A caller, unless it unlocks all, waits for one call at most; an idle one for none.
OneCallEach ==
    \A c \in Callers : op[c].kind # "unlock" =>
        /\ \A p, q \in 1..Len(calls) : calls[p].by = c /\ calls[q].by = c => p = q
        /\ \A p, q \in 1..Len(answers) : answers[p].by = c /\ answers[q].by = c => p = q
        /\ \A p \in 1..Len(calls), q \in 1..Len(answers) : ~(calls[p].by = c /\ answers[q].by = c)
        /\ op[c].kind = "idle" =>
            /\ \A p \in 1..Len(calls) : calls[p].by # c
            /\ \A q \in 1..Len(answers) : answers[q].by # c

\* The inductive invariant, with the types.
HeldInv == OneCallEach /\ OffersPending /\ MarkedForGood /\ UnlockIsAlone /\ HeldByTurns

\* It says more than HeldSafely.
LEMMA HeldInvFacts == TypeOK /\ HeldByTurns => HeldSafely
<1> SUFFICES ASSUME TypeOK, NEW r \in Requests \ overlapped, TakesTurns(r)
             PROVE  /\ LiveHandle(r) =>
                        \/ state[r] = "inProgress"
                        \/ \E a \in ToSet(answers) : /\ a.kind \in {"mark", "reclaim"}
                                                     /\ a.request = r /\ op[a.by].kind # "unlock"
                    /\ Once(staged, handedOut, r)
  BY DEF HeldByTurns, HeldSafely, HeldIsUnavailable, HeldOnce, Once
<1>1. ASSUME LiveHandle(r), state[r] # "inProgress"
      PROVE  \E a \in ToSet(answers) : /\ a.kind \in {"mark", "reclaim"}
                                       /\ a.request = r /\ op[a.by].kind # "unlock"
  <2>1. PICK j \in 1..Len(answers) : GivenBackAt(j, r)
    BY <1>1 DEF TakesTurns
  <2>2. answers[j] \in ToSet(answers)
    BY MemberFacts DEF TypeOK
  <2> QED BY <2>1, <2>2 DEF GivenBackAt
<1> QED BY <1>1 DEF TakesTurns

\* The positions of the younger elements.
LEMMA TailPositions ==
    ASSUME NEW S, NEW s \in Seq(S), s # <<>>, NEW t, t = Tail(s)
    PROVE  /\ t \in Seq(S) /\ Len(s) \in Nat \ {0} /\ Len(t) = Len(s) - 1
           /\ Head(s) = s[1] /\ \A i \in 1..Len(t) : t[i] = s[i + 1]
  BY HeadTailProperties, EmptySeq, LenProperties

\* Those of a sequence with one more element.
LEMMA AppendPositions ==
    ASSUME NEW S, NEW s \in Seq(S), NEW e \in S, NEW t, t = Append(s, e)
    PROVE  /\ t \in Seq(S) /\ Len(s) \in Nat /\ Len(t) = Len(s) + 1 /\ t[Len(s) + 1] = e
           /\ \A i \in 1..Len(s) : t[i] = s[i]
  BY AppendProperties, LenProperties

-----------------------------------------------------------------------------
(* OneCallEach.                                                            *)

NoneBy(c, s) == \A p \in 1..Len(s) : s[p].by # c

\* What a step of caller c does to the calls: it answers for no call that is still out, and all it
\* adds is its own.
CallerMoves(c) ==
    /\ NoneBy(c, calls) /\ NoneBy(c, answers')
    /\ \A d \in Callers \ {c} : op'[d] = op[d]
    /\ Len(calls) \in Nat /\ Len(calls') \in Nat /\ Len(calls) <= Len(calls')
    /\ \A i \in 1..Len(calls) : calls'[i] = calls[i]
    /\ \A i \in 1..Len(calls') : i > Len(calls) => calls'[i].by = c
    /\ op'[c].kind = "idle" => Len(calls') = Len(calls)
    /\ op'[c].kind \notin {"idle", "unlock"} => Len(calls') <= Len(calls) + 1

\* A caller that starts, or is answered, has nothing else out.
LEMMA QuietCaller ==
    ASSUME TypeOK, OneCallEach, NEW c \in Callers,
           \/ op[c] = Idle /\ answers' = answers
           \/ /\ answers # <<>> /\ answers' = Tail(answers) /\ Head(answers).by = c
              /\ op[c].kind # "unlock"
    PROVE  NoneBy(c, calls) /\ NoneBy(c, answers')
<1>1. CASE op[c] = Idle /\ answers' = answers
  BY <1>1 DEF OneCallEach, Idle, NoneBy
<1>2. CASE /\ answers # <<>> /\ answers' = Tail(answers) /\ Head(answers).by = c
           /\ op[c].kind # "unlock"
  <2>1. /\ Len(answers) \in Nat \ {0} /\ Len(answers') = Len(answers) - 1
        /\ answers[1].by = c /\ \A i \in 1..Len(answers') : answers'[i] = answers[i + 1]
    BY <1>2, TailPositions DEF TypeOK
  <2>2. 1 \in 1..Len(answers) /\ \A i \in 1..Len(answers') : i + 1 \in 1..Len(answers) /\ i + 1 # 1
    BY <2>1
  <2> QED BY <2>1, <2>2 DEF OneCallEach, NoneBy
<1> QED BY <1>1, <1>2

\* A call made is a caller's move.
LEMMA AwaitMoves ==
    ASSUME TypeOK, NEW c \in Callers, NoneBy(c, calls), NoneBy(c, answers'),
           NEW o, o.kind \notin {"idle", "unlock"}, NEW kind, Await(c, o, kind)
    PROVE  CallerMoves(c)
<1> DEFINE m == Call(c, kind, o.request, o.forefront)
<1>1. /\ Len(calls) \in Nat /\ Len(calls') = Len(calls) + 1 /\ calls'[Len(calls) + 1] = m
      /\ \A i \in 1..Len(calls) : calls'[i] = calls[i]
  BY DEF Await, TypeOK
<1>2. m.by = c
  BY DEF Call
<1>3. op' = [op EXCEPT ![c] = o] /\ op'[c] = o
  BY DEF Await, TypeOK
<1> QED BY <1>1, <1>2, <1>3 DEF CallerMoves

\* So is the end of an operation.
LEMMA FinishMoves ==
    ASSUME TypeOK, NEW c \in Callers, NoneBy(c, calls), NoneBy(c, answers'), Finish(c)
    PROVE  CallerMoves(c)
  BY LenProperties DEF Finish, CallerMoves, Idle, TypeOK

\* Every operation of a caller but an unlock-all moves so, or changes neither calls nor callers.
LEMMA CallerSteps ==
    ASSUME TypeOK, OneCallEach, NEW c \in Callers,
           \/ \E r \in Requests, f \in Forefronts :
                \/ addRequest(c, r, f) \/ releaseLock(c, r, f)
                \/ \E kind \in {"mark", "reclaim"} : markHandledOrReclaim(c, kind, r, f)
           \/ \E kind \in {"head", "lock"}, limit \in Limits : peekOrLockHead(c, kind, limit)
           \/ Added(c) \/ Fetched(c) \/ Drained(c) \/ Got(c) \/ Released(c) \/ Unlocked(c)
    PROVE  /\ CallerMoves(c) \/ UNCHANGED <<op, calls>>
           /\ op'[c].kind # "unlock" \/ UNCHANGED <<op, calls>>
<1>1. ASSUME NEW r \in Requests, NEW f \in Forefronts, addRequest(c, r, f) \/ releaseLock(c, r, f)
      PROVE  CallerMoves(c) /\ op'[c].kind # "unlock"
  <2>1. PICK kind \in {"add", "release"} : \E k : Await(c, Arrives(kind, r, 0, f), k)
    BY <1>1 DEF addRequest, releaseLock
  <2>2. NoneBy(c, calls) /\ NoneBy(c, answers')
    BY <1>1, QuietCaller DEF addRequest, releaseLock
  <2>3. PICK k : Await(c, Arrives(kind, r, 0, f), k)
    BY <2>1
  <2> QED BY <2>1, <2>2, <2>3, AwaitMoves DEF Arrives, Await, TypeOK
<1>2. ASSUME NEW o, o.kind \in {"head", "lock", "mark", "reclaim"},
             NoneBy(c, calls), NoneBy(c, answers'),
             \/ \E s : TopUp(c, o, s)
             \/ \E s, known : Drain(c, o, s, known) \/ LastResort(c, o, known)
             \/ \E kind : Await(c, o, kind)
             \/ Finish(c)
      PROVE  CallerMoves(c) /\ op'[c].kind # "unlock"
  <2>1. Finish(c) \/ \E kind : Await(c, o, kind) \/ Await(c, [o EXCEPT !.tries = @ + 1], kind)
    BY <1>2 DEF TopUp, Drain, LastResort
  <2>2. [o EXCEPT !.tries = @ + 1].kind = o.kind
    OBVIOUS
  <2>3. CASE Finish(c)
    BY <1>2, <2>3, FinishMoves DEF Finish, Idle, TypeOK
  <2>4. ASSUME NEW kind, NEW q, q.kind = o.kind, Await(c, q, kind)
        PROVE  CallerMoves(c) /\ op'[c].kind # "unlock"
    BY <1>2, <2>4, AwaitMoves DEF Await, TypeOK
  <2> QED BY <2>1, <2>2, <2>3, <2>4
<1>3. ASSUME NEW r \in Requests, NEW f \in Forefronts, NEW kind \in {"mark", "reclaim"},
             markHandledOrReclaim(c, kind, r, f)
      PROVE  CallerMoves(c) /\ op'[c].kind # "unlock"
  <2>1. NoneBy(c, calls) /\ NoneBy(c, answers')
    BY <1>3, QuietCaller DEF markHandledOrReclaim
  <2> DEFINE o == Arrives(kind, r, 0, f)
  <2>2. o.kind \in {"mark", "reclaim"}
    BY DEF Arrives
  <2>3. Await(c, o, kind) \/ Drain(c, o, staged, seen)
    BY <1>3 DEF markHandledOrReclaim
  <2> HIDE DEF o
  <2> QED BY <1>2, <2>1, <2>2, <2>3
<1>4. ASSUME NEW kind \in {"head", "lock"}, NEW limit \in Limits, peekOrLockHead(c, kind, limit)
      PROVE  CallerMoves(c) /\ op'[c].kind # "unlock"
  <2>1. NoneBy(c, calls) /\ NoneBy(c, answers')
    BY <1>4, QuietCaller DEF peekOrLockHead
  <2> DEFINE o == Arrives(kind, NoRequest, limit, FALSE)
  <2>2. o.kind \in {"head", "lock"} /\ TopUp(c, o, staged)
    BY <1>4 DEF Arrives, peekOrLockHead
  <2> HIDE DEF o
  <2> QED BY <1>2, <2>1, <2>2
<1>5. CASE Added(c) \/ Fetched(c) \/ Drained(c) \/ Got(c) \/ Released(c)
  <2>1. op[c].kind \in {"add", "head", "lock", "mark", "reclaim", "release"}
        /\ answers # <<>> /\ answers' = Tail(answers) /\ Head(answers).by = c
    BY <1>5 DEF Added, Fetched, Drained, Got, Released, Answers
  <2>2. NoneBy(c, calls) /\ NoneBy(c, answers')
    BY <2>1, QuietCaller
  <2>3. CASE Added(c) \/ Released(c)
    BY <2>2, <2>3, FinishMoves DEF Added, Released, Finish, Idle, TypeOK
  <2>4. CASE Fetched(c) \/ Drained(c) \/ Got(c)
    <3>1. op[c].kind \in {"head", "lock", "mark", "reclaim"}
      BY <2>4 DEF Fetched, Drained, Got, Answers
    <3>2. \/ \E s : TopUp(c, op[c], s)
          \/ \E s, known : Drain(c, op[c], s, known) \/ LastResort(c, op[c], known)
          \/ \E kind : Await(c, op[c], kind)
          \/ Finish(c)
      BY <2>4 DEF Fetched, Drained, Got
    <3> QED BY <1>2, <2>2, <3>1, <3>2
  <2> QED BY <1>5, <2>3, <2>4
<1>6. CASE Unlocked(c)
  <2>1. CASE \E call \in ToSet(calls) \cup ToSet(answers') : call.by = c
    BY <1>6, <2>1 DEF Unlocked
  <2>2. CASE ~\E call \in ToSet(calls) \cup ToSet(answers') : call.by = c
    <3>1. answers' \in Seq(Calls) /\ calls \in Seq(Calls)
      BY <1>6, AnswerFacts DEF Unlocked, TypeOK
    <3>2. NoneBy(c, calls) /\ NoneBy(c, answers')
      BY <2>2, <3>1, MemberFacts DEF NoneBy
    <3> QED BY <1>6, <2>2, <3>2, FinishMoves DEF Unlocked, Finish, Idle, TypeOK
  <2> QED BY <2>1, <2>2
<1> QED BY <1>1, <1>3, <1>4, <1>5, <1>6

\* The reclaims of an unlock-all are its caller's move.
LEMMA UnlockMoves ==
    ASSUME TypeOK, OneCallEach, NEW c \in Callers, unlockAll(c)
    PROVE  /\ CallerMoves(c) /\ op'[c].kind = "unlock"
           /\ \A i \in 1..Len(calls') : i > Len(calls) =>
                calls'[i].kind = "reclaim" /\ calls'[i].request \in handedOut
           /\ \A i, j \in 1..Len(calls') :
                i > Len(calls) /\ j > Len(calls) /\ calls'[i].request = calls'[j].request => i = j
<1> DEFINE n == Cardinality(handedOut)
<1>1. PICK s \in Bijection(1..n, handedOut) :
        calls' = calls \o [i \in DOMAIN s |-> Call(c, "reclaim", s[i], FALSE)]
  BY DEF unlockAll, ReclaimAll
<1>2. handedOut \subseteq Requests /\ n \in Nat
  BY QueueAssumption, FS_Subset, FS_CardinalityType DEF QueueAssumption, TypeOK
<1>3. s \in [1..n -> handedOut] /\ \A i, j \in 1..n : s[i] = s[j] => i = j
  BY DEF Bijection, Injection, Surjection, IsInjective
<1> HIDE DEF n
<1> DEFINE t == [i \in 1..n |-> Call(c, "reclaim", s[i], FALSE)]
<1>4. t \in [1..n -> Calls] /\ \A i \in 1..n : t[i] = Call(c, "reclaim", s[i], FALSE)
  BY <1>2, <1>3 DEF Call, Calls, Found
<1>5. calls' = calls \o t
  BY <1>1, <1>3
<1> HIDE DEF t
<1>6. t \in Seq(Calls) /\ Len(t) = n /\ calls \in Seq(Calls) /\ Len(calls) \in Nat
  BY <1>2, <1>4, LenProperties DEF TypeOK
<1>7. /\ Len(calls') = Len(calls) + n
      /\ \A i \in 1..Len(calls') :
            calls'[i] = IF i <= Len(calls) THEN calls[i] ELSE t[i - Len(calls)]
  BY ZenonT(40), <1>5, <1>6, ConcatProperties
<1>8. \A i \in 1..Len(calls') : i > Len(calls) =>
        i - Len(calls) \in 1..n /\ calls'[i] = t[i - Len(calls)]
  BY <1>2, <1>6, <1>7
<1>9. \A i \in 1..n : /\ t[i].by = c /\ t[i].kind = "reclaim" /\ t[i].request = s[i]
                      /\ s[i] \in handedOut
  BY <1>3, <1>4 DEF Call
<1>10. op[c] = Idle /\ answers' = answers
  BY DEF unlockAll
<1>11. NoneBy(c, calls) /\ NoneBy(c, answers')
  BY <1>10, QuietCaller
<1>12. op'[c].kind = "unlock" /\ \A d \in Callers \ {c} : op'[d] = op[d]
  BY DEF unlockAll, Idle, TypeOK
<1>13. CallerMoves(c)
  <2>1. \A i \in 1..Len(calls) : i \in 1..Len(calls') /\ calls'[i] = calls[i]
    BY <1>2, <1>6, <1>7
  <2> QED BY <1>2, <1>6, <1>7, <1>8, <1>9, <1>11, <1>12, <2>1 DEF CallerMoves
<1>14. \A i \in 1..Len(calls') : i > Len(calls) =>
            calls'[i].kind = "reclaim" /\ calls'[i].request \in handedOut
  BY <1>8, <1>9
<1>15. \A i, j \in 1..Len(calls') :
            i > Len(calls) /\ j > Len(calls) /\ calls'[i].request = calls'[j].request => i = j
  <2> SUFFICES ASSUME NEW i \in 1..Len(calls'), NEW j \in 1..Len(calls'), i > Len(calls),
                      j > Len(calls), calls'[i].request = calls'[j].request
               PROVE  i = j
    OBVIOUS
  <2>1. i - Len(calls) \in 1..n /\ j - Len(calls) \in 1..n
    BY <1>8
  <2>2. s[i - Len(calls)] = s[j - Len(calls)]
    BY <1>8, <1>9, <2>1
  <2>3. i - Len(calls) = j - Len(calls)
    BY <1>3, <2>1, <2>2
  <2> QED BY <1>6, <2>3
<1> QED BY <1>12, <1>13, <1>14, <1>15

\* A caller's step leaves the answers alone or takes the oldest.
LEMMA CallerAnswers ==
    ASSUME TypeOK, NEW c \in Callers,
           \/ \E r \in Requests, f \in Forefronts :
                \/ addRequest(c, r, f) \/ releaseLock(c, r, f)
                \/ \E kind \in {"mark", "reclaim"} : markHandledOrReclaim(c, kind, r, f)
           \/ \E kind \in {"head", "lock"}, limit \in Limits : peekOrLockHead(c, kind, limit)
           \/ unlockAll(c)
           \/ Added(c) \/ Fetched(c) \/ Drained(c) \/ Got(c) \/ Released(c) \/ Unlocked(c)
    PROVE  /\ UNCHANGED queue
           /\ \/ answers' = answers
              \/ answers # <<>> /\ answers' = Tail(answers)
  BY DEF addRequest, releaseLock, markHandledOrReclaim, peekOrLockHead, unlockAll, Added, Fetched,
         Drained, Got, Released, Unlocked, Answers

\* The answers that are left, at their earlier positions.
LEMMA LeftAnswers ==
    ASSUME TypeOK, answers' = answers \/ (answers # <<>> /\ answers' = Tail(answers))
    PROVE  \E d \in {0, 1} :
             /\ Len(answers) \in Nat /\ Len(answers') \in Nat /\ Len(answers) = Len(answers') + d
             /\ d = 1 => answers # <<>> /\ answers' = Tail(answers) /\ Head(answers) = answers[1]
             /\ d = 0 => answers' = answers
             /\ \A i \in 1..Len(answers') : answers'[i] = answers[i + d]
<1>1. CASE answers' = answers
  <2>1. Len(answers) \in Nat
    BY LenProperties DEF TypeOK
  <2> WITNESS 0 \in {0, 1}
  <2> QED BY <1>1, <2>1
<1>2. CASE answers # <<>> /\ answers' = Tail(answers)
  <2>1. /\ Len(answers) \in Nat \ {0} /\ Len(answers') = Len(answers) - 1
        /\ Head(answers) = answers[1] /\ \A i \in 1..Len(answers') : answers'[i] = answers[i + 1]
    BY <1>2, TailPositions DEF TypeOK
  <2>2. Len(answers) \in Nat /\ Len(answers') \in Nat /\ Len(answers) = Len(answers') + 1
    BY <2>1
  <2>3. 1 # 0
    OBVIOUS
  <2> WITNESS 1 \in {0, 1}
  <2> QED BY <1>2, <2>1, <2>2, <2>3, Zenon
<1> QED BY <1>1, <1>2

\* A caller's move keeps OneCallEach.
LEMMA OneCallMoved ==
    ASSUME TypeOK, OneCallEach, NEW c \in Callers, CallerMoves(c) \/ UNCHANGED <<op, calls>>,
           answers' = answers \/ (answers # <<>> /\ answers' = Tail(answers))
    PROVE  OneCallEach'
<1>1. PICK d \in {0, 1} :
        /\ Len(answers) \in Nat /\ Len(answers') \in Nat /\ Len(answers) = Len(answers') + d
        /\ \A i \in 1..Len(answers') : answers'[i] = answers[i + d]
  BY LeftAnswers
<1>2. \A i \in 1..Len(answers') : i + d \in 1..Len(answers)
  BY <1>1
<1>3. SUFFICES ASSUME NEW e \in Callers, op'[e].kind # "unlock"
      PROVE  /\ \A p, q \in 1..Len(calls') : calls'[p].by = e /\ calls'[q].by = e => p = q
             /\ \A p, q \in 1..Len(answers') : answers'[p].by = e /\ answers'[q].by = e => p = q
             /\ \A p \in 1..Len(calls'), q \in 1..Len(answers') :
                    ~(calls'[p].by = e /\ answers'[q].by = e)
             /\ op'[e].kind = "idle" =>
                    /\ \A p \in 1..Len(calls') : calls'[p].by # e
                    /\ \A q \in 1..Len(answers') : answers'[q].by # e
  BY DEF OneCallEach
<1>4. CASE CallerMoves(c) /\ e = c
  <2>1. \A p \in 1..Len(calls') : calls'[p].by = e => p = Len(calls) + 1 /\ op'[c].kind # "idle"
    BY <1>3, <1>4 DEF CallerMoves, NoneBy
  <2>2. \A q \in 1..Len(answers') : answers'[q].by # e
    BY <1>4 DEF CallerMoves, NoneBy
  <2> QED BY <1>4, <2>1, <2>2
<1>5. CASE e # c \/ UNCHANGED <<op, calls>>
  <2>1. /\ op'[e] = op[e]
        /\ \A p \in 1..Len(calls') : calls'[p].by = e => p \in 1..Len(calls) /\ calls[p].by = e
    BY <1>5 DEF CallerMoves
  <2>2. /\ \A p, q \in 1..Len(calls) : calls[p].by = e /\ calls[q].by = e => p = q
        /\ \A p, q \in 1..Len(answers) : answers[p].by = e /\ answers[q].by = e => p = q
        /\ \A p \in 1..Len(calls), q \in 1..Len(answers) : ~(calls[p].by = e /\ answers[q].by = e)
        /\ op[e].kind = "idle" =>
              /\ \A p \in 1..Len(calls) : calls[p].by # e
              /\ \A q \in 1..Len(answers) : answers[q].by # e
    BY <1>3, <2>1 DEF OneCallEach
  <2>3. \A p, q \in 1..Len(answers') : answers'[p].by = e /\ answers'[q].by = e => p = q
    <3> SUFFICES ASSUME NEW p \in 1..Len(answers'), NEW q \in 1..Len(answers'),
                        answers'[p].by = e, answers'[q].by = e
                 PROVE  p = q
      OBVIOUS
    <3>1. p + d = q + d
      BY <1>1, <1>2, <2>2
    <3> QED BY <1>1, <3>1
  <2> QED BY SMTT(30), <1>1, <1>2, <2>1, <2>2, <2>3
<1> QED BY <1>4, <1>5

-----------------------------------------------------------------------------
(* The effect of a call, case by case.                                     *)

\* The call fetches the request at the head of the queue ...
EffectFetches(a) ==
    /\ order # <<>> /\ a.kind = "fetch" /\ a.found = Head(order)
    /\ state' = [state EXCEPT ![Head(order)] = "inProgress"] /\ order' = Tail(order)

\* ... or makes its request pending: a new one, or one that was in progress ...
EffectOffers(a) ==
    /\ a.kind \in {"add", "reclaim"} /\ a.request \in Requests /\ a.found = a.request
    /\ state[a.request] = IF a.kind = "add" THEN "absent" ELSE "inProgress"
    /\ state' = [state EXCEPT ![a.request] = "pending"]
    /\ order' = Put(order, a.request, a.forefront)

\* ... or marks it handled ...
EffectMarks(a) ==
    /\ a.kind = "mark" /\ a.request \in Requests /\ a.found = a.request
    /\ state[a.request] = "inProgress"
    /\ state' = [state EXCEPT ![a.request] = "handled"] /\ order' = order

\* ... or moves none.
EffectNothing(a) ==
    /\ UNCHANGED queue
    /\ a.kind \in {"fetch", "mark", "reclaim"} => a.found = NoRequest

\* These are the effects, and the call joins the answers.
LEMMA EffectCases ==
    ASSUME TypeOK, TakesEffect
    PROVE  \E a \in Calls :
        /\ answers' = Append(answers, a)
        /\ a.by = Head(calls).by /\ a.kind = Head(calls).kind /\ a.request = Head(calls).request
        /\ EffectFetches(a) \/ EffectOffers(a) \/ EffectMarks(a) \/ EffectNothing(a)
<1> DEFINE call == Head(calls)
           r == call.request
           a(found) == [call EXCEPT !.found = found]
<1>1. call \in Calls
  BY TailFacts DEF TakesEffect, TypeOK
<1>2. /\ call.kind \in {"fetch", "get", "add", "reclaim", "mark"}
      /\ call.kind # "fetch" => r \in Requests
  BY <1>1 DEF Calls
<1>3. ASSUME NEW found \in Found
      PROVE  /\ a(found) \in Calls /\ a(found).by = call.by /\ a(found).kind = call.kind
             /\ a(found).request = r /\ a(found).found = found
             /\ a(found).forefront = call.forefront
  BY <1>1, <1>3 DEF Calls
<1>4. \E found \in Found :
        /\ Answered(call, found)
        /\ \/ /\ order # <<>> /\ call.kind = "fetch" /\ found = Head(order)
              /\ state' = [state EXCEPT ![Head(order)] = "inProgress"] /\ order' = Tail(order)
           \/ /\ call.kind \in {"add", "reclaim"} /\ r \in Requests /\ found = r
              /\ state[r] = IF call.kind = "add" THEN "absent" ELSE "inProgress"
              /\ state' = [state EXCEPT ![r] = "pending"]
              /\ order' = Put(order, r, call.forefront)
           \/ /\ call.kind = "mark" /\ r \in Requests /\ found = r /\ state[r] = "inProgress"
              /\ state' = [state EXCEPT ![r] = "handled"] /\ order' = order
           \/ /\ UNCHANGED queue
              /\ call.kind \in {"fetch", "mark", "reclaim"} => found = NoRequest
  <2>1. NoRequest \in Found /\ Requests \subseteq Found
    BY DEF Found
  <2>2. order # <<>> => Head(order) \in Found
    BY TailFacts DEF TypeOK, Found
  <2> HIDE DEF call
  <2>3. CASE call.kind = "fetch"
    BY <2>1, <2>2, <2>3 DEF TakesEffect, call
  <2>4. CASE call.kind = "get"
    BY <1>2, <2>1, <2>4 DEF TakesEffect, call
  <2>5. CASE call.kind = "add"
    BY <1>2, <2>1, <2>5 DEF TakesEffect, call
  <2>6. CASE call.kind = "reclaim"
    BY <1>2, <2>1, <2>6 DEF TakesEffect, call
  <2>7. CASE call.kind = "mark"
    BY <1>2, <2>1, <2>7 DEF TakesEffect, call
  <2> QED BY <1>2, <2>3, <2>4, <2>5, <2>6, <2>7
<1> HIDE DEF call
<1>5. PICK found \in Found :
        /\ Answered(call, found)
        /\ \/ /\ order # <<>> /\ call.kind = "fetch" /\ found = Head(order)
              /\ state' = [state EXCEPT ![Head(order)] = "inProgress"] /\ order' = Tail(order)
           \/ /\ call.kind \in {"add", "reclaim"} /\ r \in Requests /\ found = r
              /\ state[r] = IF call.kind = "add" THEN "absent" ELSE "inProgress"
              /\ state' = [state EXCEPT ![r] = "pending"]
              /\ order' = Put(order, r, call.forefront)
           \/ /\ call.kind = "mark" /\ r \in Requests /\ found = r /\ state[r] = "inProgress"
              /\ state' = [state EXCEPT ![r] = "handled"] /\ order' = order
           \/ /\ UNCHANGED queue
              /\ call.kind \in {"fetch", "mark", "reclaim"} => found = NoRequest
  BY <1>4
<1> DEFINE b == a(found)
<1>6. /\ b \in Calls /\ b.by = call.by /\ b.kind = call.kind /\ b.request = r /\ b.found = found
      /\ b.forefront = call.forefront
  BY <1>3
<1>7. answers' = Append(answers, b)
  BY <1>5 DEF Answered
<1> HIDE DEF b, a
<1>8. EffectFetches(b) \/ EffectOffers(b) \/ EffectMarks(b) \/ EffectNothing(b)
  BY <1>5, <1>6 DEF EffectFetches, EffectOffers, EffectMarks, EffectNothing
<1> QED BY <1>6, <1>7, <1>8 DEF call

\* The positions of the calls and of the answers when call a takes effect.
EffectOf(a) ==
    /\ a \in Calls
    /\ EffectFetches(a) \/ EffectOffers(a) \/ EffectMarks(a) \/ EffectNothing(a)
    /\ UNCHANGED <<staged, handedOut, op, overlapped>>
    /\ Len(calls) \in Nat \ {0} /\ Len(calls') = Len(calls) - 1
    /\ calls[1].by = a.by /\ calls[1].kind = a.kind /\ calls[1].request = a.request
    /\ \A i \in 1..Len(calls') : i + 1 \in 1..Len(calls) /\ calls'[i] = calls[i + 1]
    /\ Len(answers) \in Nat /\ Len(answers') = Len(answers) + 1 /\ answers'[Len(answers) + 1] = a
    /\ \A i \in 1..Len(answers) : i \in 1..Len(answers') /\ answers'[i] = answers[i]
    /\ \A i \in 1..Len(answers') : i \in 1..Len(answers) \/ i = Len(answers) + 1

LEMMA EffectPositions ==
    ASSUME TypeOK, TakesEffect
    PROVE  \E a : EffectOf(a)
<1>1. PICK a \in Calls :
        /\ answers' = Append(answers, a)
        /\ a.by = Head(calls).by /\ a.kind = Head(calls).kind /\ a.request = Head(calls).request
        /\ EffectFetches(a) \/ EffectOffers(a) \/ EffectMarks(a) \/ EffectNothing(a)
  BY EffectCases
<1>2. calls # <<>> /\ calls' = Tail(calls) /\ UNCHANGED <<staged, handedOut, op, overlapped>>
  BY DEF TakesEffect, buffer
<1>3. /\ Len(calls) \in Nat \ {0} /\ Len(calls') = Len(calls) - 1 /\ Head(calls) = calls[1]
      /\ \A i \in 1..Len(calls') : calls'[i] = calls[i + 1]
  BY <1>2, TailPositions DEF TypeOK
<1>4. /\ Len(answers) \in Nat /\ Len(answers') = Len(answers) + 1 /\ answers'[Len(answers) + 1] = a
      /\ \A i \in 1..Len(answers) : answers'[i] = answers[i]
  BY <1>1, AppendPositions DEF TypeOK
<1>5. \A i \in 1..Len(calls') : i + 1 \in 1..Len(calls)
  BY <1>3
<1>6. /\ \A i \in 1..Len(answers) : i \in 1..Len(answers')
      /\ \A i \in 1..Len(answers') : i \in 1..Len(answers) \/ i = Len(answers) + 1
  BY <1>4
<1> QED BY <1>1, <1>2, <1>3, <1>4, <1>5, <1>6 DEF EffectOf

\* The call that takes effect stays its caller's only one.
LEMMA OneCallEffect ==
    ASSUME TypeOK, OneCallEach, TakesEffect
    PROVE  OneCallEach'
<1>1. PICK a : EffectOf(a)
  BY EffectPositions
<1>2. SUFFICES ASSUME NEW e \in Callers, op[e].kind # "unlock"
      PROVE  /\ \A p, q \in 1..Len(calls') : calls'[p].by = e /\ calls'[q].by = e => p = q
             /\ \A p, q \in 1..Len(answers') : answers'[p].by = e /\ answers'[q].by = e => p = q
             /\ \A p \in 1..Len(calls'), q \in 1..Len(answers') :
                    ~(calls'[p].by = e /\ answers'[q].by = e)
             /\ op[e].kind = "idle" =>
                    /\ \A p \in 1..Len(calls') : calls'[p].by # e
                    /\ \A q \in 1..Len(answers') : answers'[q].by # e
  BY <1>1 DEF OneCallEach, EffectOf
<1>3. /\ \A p, q \in 1..Len(calls) : calls[p].by = e /\ calls[q].by = e => p = q
      /\ \A p, q \in 1..Len(answers) : answers[p].by = e /\ answers[q].by = e => p = q
      /\ \A p \in 1..Len(calls), q \in 1..Len(answers) : ~(calls[p].by = e /\ answers[q].by = e)
      /\ op[e].kind = "idle" =>
            /\ \A p \in 1..Len(calls) : calls[p].by # e
            /\ \A q \in 1..Len(answers) : answers[q].by # e
  BY <1>2 DEF OneCallEach
<1>4. 1 \in 1..Len(calls) /\ \A i \in 1..Len(calls') : i + 1 # 1 /\ i + 1 \in 1..Len(calls)
  BY <1>1 DEF EffectOf
<1>5. \A p, q \in 1..Len(calls') : calls'[p].by = e /\ calls'[q].by = e => p = q
  <2> SUFFICES ASSUME NEW p \in 1..Len(calls'), NEW q \in 1..Len(calls'),
                      calls'[p].by = e, calls'[q].by = e
               PROVE  p = q
    OBVIOUS
  <2>1. p + 1 = q + 1
    BY <1>1, <1>3 DEF EffectOf
  <2> QED BY <1>1, <2>1 DEF EffectOf
<1>6. \A q \in 1..Len(answers') : answers'[q].by = e =>
        \/ q = Len(answers) + 1 /\ calls[1].by = e
        \/ q \in 1..Len(answers) /\ answers[q].by = e
  BY <1>1 DEF EffectOf
<1>7. \A p \in 1..Len(calls') : calls'[p].by = e => calls[p + 1].by = e /\ p + 1 \in 1..Len(calls)
  BY <1>1 DEF EffectOf
<1> QED BY SMTT(30), <1>3, <1>4, <1>5, <1>6, <1>7

-----------------------------------------------------------------------------
(* OffersPending and MarkedForGood.                                        *)

\* A request that is put among others it is not one of.
LEMMA PutOnce ==
    ASSUME NEW s \in Seq(Requests), NEW r \in Requests, NEW f, NEW t, t = Put(s, r, f),
           \A i \in 1..Len(s) : s[i] # r,
           \A i, j \in 1..Len(s) : s[i] = s[j] => i = j
    PROVE  /\ \A i \in 1..Len(t) : t[i] = r \/ \E j \in 1..Len(s) : t[i] = s[j]
           /\ \A i, j \in 1..Len(t) : t[i] = t[j] => i = j
<1>1. CASE f
  <2>1. t = <<r>> \o s /\ <<r>> \in Seq(Requests) /\ Len(<<r>>) = 1 /\ <<r>>[1] = r
    BY <1>1 DEF Put
  <2>2. /\ Len(s) \in Nat /\ Len(t) = Len(s) + 1
        /\ \A i \in 1..Len(t) : t[i] = IF i <= 1 THEN <<r>>[i] ELSE s[i - 1]
    BY <2>1, ConcatProperties, LenProperties
  <2>3. /\ \A i \in 1..Len(t) : i = 1 => t[i] = r
        /\ \A i \in 1..Len(t) : i # 1 => i - 1 \in 1..Len(s) /\ t[i] = s[i - 1]
    BY <2>1, <2>2
  <2>4. ASSUME NEW i \in 1..Len(t)
        PROVE  t[i] = r \/ \E j \in 1..Len(s) : t[i] = s[j]
    BY <2>3
  <2>5. ASSUME NEW i \in 1..Len(t), NEW j \in 1..Len(t), t[i] = t[j]
        PROVE  i = j
    <3>1. CASE i = 1 \/ j = 1
      BY <3>1, <2>3, <2>5
    <3>2. CASE i # 1 /\ j # 1
      <4>1. i - 1 \in 1..Len(s) /\ j - 1 \in 1..Len(s) /\ s[i - 1] = s[j - 1]
        BY <3>2, <2>3, <2>5
      <4>2. i - 1 = j - 1
        BY <4>1
      <4> QED BY <4>2, <2>2
    <3> QED BY <3>1, <3>2
  <2> QED BY <2>4, <2>5
<1>2. CASE ~f
  <2>1. /\ Len(s) \in Nat /\ Len(t) = Len(s) + 1 /\ t[Len(s) + 1] = r
        /\ \A i \in 1..Len(s) : t[i] = s[i]
    BY <1>2, AppendPositions DEF Put
  <2>2. \A i \in 1..Len(t) : i \in 1..Len(s) \/ i = Len(s) + 1
    BY <2>1
  <2> QED BY <2>1, <2>2
<1> QED BY <1>1, <1>2

LEMMA OffersEffect ==
    ASSUME TypeOK, OffersPending, TakesEffect
    PROVE  OffersPending'
<1>1. PICK a : EffectOf(a)
  BY EffectPositions
<1>2. order \in Seq(Requests) /\ \A i \in 1..Len(order) : order[i] \in Requests
  BY ElementOfSeq DEF TypeOK
<1>3. CASE EffectFetches(a)
  <2>1. order # <<>> /\ order' = Tail(order)
    BY <1>3 DEF EffectFetches
  <2>2. /\ Len(order) \in Nat \ {0} /\ Len(order') = Len(order) - 1 /\ Head(order) = order[1]
        /\ \A i \in 1..Len(order') : order'[i] = order[i + 1]
    BY <1>2, <2>1, TailPositions
  <2>3. 1 \in 1..Len(order) /\ \A i \in 1..Len(order') : i + 1 \in 1..Len(order) /\ i + 1 # 1
    BY <2>2
  <2>4. \A i \in 1..Len(order') : state'[order'[i]] = "pending"
    BY <1>2, <1>3, <2>2, <2>3 DEF EffectFetches, OffersPending, TypeOK
  <2>5. \A i, j \in 1..Len(order') : order'[i] = order'[j] => i = j
    <3> SUFFICES ASSUME NEW i \in 1..Len(order'), NEW j \in 1..Len(order'), order'[i] = order'[j]
                 PROVE  i = j
      OBVIOUS
    <3>1. i + 1 = j + 1
      BY <2>2, <2>3 DEF OffersPending
    <3> QED BY <2>2, <3>1
  <2> QED BY <2>4, <2>5 DEF OffersPending
<1>4. CASE EffectOffers(a)
  <2>1. a.request \in Requests /\ state[a.request] # "pending" /\ order' = Put(order, a.request, a.forefront)
        /\ state' = [state EXCEPT ![a.request] = "pending"]
    BY <1>4 DEF EffectOffers
  <2>2. /\ \A i \in 1..Len(order') : order'[i] = a.request \/ \E j \in 1..Len(order) : order'[i] = order[j]
        /\ \A i, j \in 1..Len(order') : order'[i] = order'[j] => i = j
    BY <1>2, <2>1, PutOnce DEF OffersPending
  <2>3. state'[a.request] = "pending" /\ \A j \in 1..Len(order) : state'[order[j]] = "pending"
    BY <1>2, <2>1 DEF OffersPending, TypeOK
  <2> QED BY <2>2, <2>3 DEF OffersPending
<1>5. CASE EffectMarks(a)
  BY <1>2, <1>5 DEF EffectMarks, OffersPending, TypeOK
<1>6. CASE EffectNothing(a)
  BY <1>6 DEF EffectNothing, queue, OffersPending
<1> QED BY <1>1, <1>3, <1>4, <1>5, <1>6 DEF EffectOf

\* A restart offers each request that was in progress or pending once.
LEMMA OffersRestart == Restart => OffersPending'
<1> SUFFICES ASSUME Restart PROVE OffersPending'
  OBVIOUS
<1> DEFINE P == {r \in Requests : state'[r] = "pending"}
<1>1. /\ order' \in [1..Cardinality(P) -> P]
      /\ \A i, j \in 1..Cardinality(P) : i # j => order'[i] # order'[j]
  BY DEF Restart, SetToSeqs, IsInjective
<1>2. Cardinality(P) \in Nat
  BY QueueAssumption, FS_Subset, FS_CardinalityType DEF QueueAssumption
<1>3. Len(order') = Cardinality(P)
  BY <1>1, <1>2
<1> QED BY <1>1, <1>3 DEF OffersPending

\* A marked request stays handled, and what is handled is not offered.
LEMMA MarkedEffect ==
    ASSUME TypeOK, OffersPending, MarkedForGood, TakesEffect
    PROVE  MarkedForGood'
<1>1. PICK a : EffectOf(a)
  BY EffectPositions
<1> DEFINE n == Len(answers)
<1>2. \A i \in 1..n : answers[i] \in Calls
  BY ElementOfSeq DEF TypeOK
<1>3. EffectFetches(a) => state[a.found] = "pending" /\ a.found \in Requests
  <2>1. ASSUME EffectFetches(a) PROVE 1 \in 1..Len(order) /\ Head(order) = order[1] /\ Head(order) \in Requests
    BY <2>1, TailPositions, TailFacts DEF EffectFetches, TypeOK
  <2> QED BY <2>1 DEF EffectFetches, OffersPending
<1>4. ASSUME NEW q \in Requests, state[q] = "handled"
      PROVE  state'[q] = "handled" /\ ~(a.kind = "fetch" /\ a.found = q)
  BY <1>1, <1>3, <1>4, QueueAssumption
     DEF QueueAssumption, EffectOf, EffectFetches, EffectOffers, EffectMarks, EffectNothing, queue, TypeOK
<1>5. a.kind = "mark" /\ a.found # NoRequest => a.found = a.request /\ state'[a.request] = "handled"
  BY <1>1 DEF EffectOf, EffectFetches, EffectOffers, EffectMarks, EffectNothing, TypeOK
<1>6. SUFFICES ASSUME NEW j \in 1..Len(answers'), answers'[j].kind = "mark",
                      answers'[j].found # NoRequest
      PROVE  /\ answers'[j].found = answers'[j].request /\ state'[answers'[j].request] = "handled"
             /\ \A k \in 1..Len(answers') : j < k =>
                    ~(answers'[k].kind = "fetch" /\ answers'[k].found = answers'[j].request)
  BY DEF MarkedForGood, FetchedAt
<1>7. CASE j = n + 1
  <2>1. answers'[j] = a /\ \A k \in 1..Len(answers') : ~(j < k)
    BY <1>1, <1>7 DEF EffectOf
  <2> QED BY <1>5, <1>6, <2>1
<1>8. CASE j \in 1..n
  <2> DEFINE q == answers[j].request
  <2>1. answers'[j] = answers[j] /\ q \in Requests
    BY <1>1, <1>2, <1>6, <1>8 DEF EffectOf, Calls
  <2>2. /\ answers[j].found = q /\ state[q] = "handled"
        /\ \A k \in 1..n : j < k => ~FetchedAt(k, q)
    BY <1>6, <1>8, <2>1 DEF MarkedForGood
  <2>3. state'[q] = "handled" /\ ~(a.kind = "fetch" /\ a.found = q)
    BY <1>4, <2>1, <2>2
  <2>4. ASSUME NEW k \in 1..Len(answers'), j < k
        PROVE  ~(answers'[k].kind = "fetch" /\ answers'[k].found = q)
    <3>1. CASE k = n + 1
      BY <1>1, <2>3, <3>1 DEF EffectOf
    <3>2. CASE k \in 1..n
      BY <1>1, <2>2, <2>4, <3>2 DEF EffectOf, FetchedAt
    <3> QED BY <1>1, <3>1, <3>2 DEF EffectOf
  <2> QED BY <2>1, <2>2, <2>3, <2>4
<1> QED BY <1>1, <1>7, <1>8 DEF EffectOf

-----------------------------------------------------------------------------
(* What the buffer holds of one request.                                   *)

\* MemberFacts, of one request.
LEMMA RequestMembers ==
    ASSUME NEW u \in Seq(Requests), NEW x
    PROVE  /\ Contains(u, x) <=> \E i \in 1..Len(u) : u[i] = x
           /\ x \in ToSet(u) <=> \E i \in 1..Len(u) : u[i] = x
  BY MemberFacts

\* The two sides of a splice, by their positions.
LEMMA SplicePositions ==
    ASSUME NEW s \in Seq(Requests), NEW k \in 0..Len(s)
    PROVE  /\ Len(s) \in Nat
           /\ SubSeq(s, 1, k) \in Seq(Requests) /\ Len(SubSeq(s, 1, k)) = k
           /\ \A i \in 1..k : SubSeq(s, 1, k)[i] = s[i]
           /\ SubSeq(s, k + 1, Len(s)) \in Seq(Requests)
           /\ Len(SubSeq(s, k + 1, Len(s))) = Len(s) - k
           /\ \A i \in 1..(Len(s) - k) : SubSeq(s, k + 1, Len(s))[i] = s[k + i]
<1> DEFINE l == SubSeq(s, 1, k)
           t == SubSeq(s, k + 1, Len(s))
<1>1. Len(s) \in Nat /\ \A i \in 1..Len(s) : s[i] \in Requests
  BY LenProperties, ElementOfSeq
<1>2. l \in Seq(Requests) /\ Len(l) = k /\ \A i \in 1..k : l[i] = s[i]
  BY <1>1
<1>3. t \in Seq(Requests) /\ Len(t) = Len(s) - k /\ \A i \in 1..(Len(s) - k) : t[i] = s[k + i]
  BY <1>1
<1> QED BY <1>1, <1>2, <1>3

\* lockHead's splice moves a request, and holds it no more often than before.
LEMMA SpliceOnce ==
    ASSUME NEW s \in Seq(Requests), NEW k \in 0..Len(s), NEW h, NEW r, Once(s, h, r),
           NEW t \in Seq(Requests), NEW l \in Seq(Requests), Len(s) \in Nat, Len(l) = k,
           Len(t) = Len(s) - k, \A i \in 1..k : l[i] = s[i],
           \A i \in 1..(Len(s) - k) : t[i] = s[k + i]
    PROVE  /\ Once(t, h \cup ToSet(l), r)
           /\ Contains(t, r) \/ r \in ToSet(l) => Contains(s, r)
<1>1. /\ \A i \in 1..Len(l) : i \in 1..Len(s) /\ l[i] = s[i] /\ i <= k
      /\ \A i \in 1..Len(t) : k + i \in 1..Len(s) /\ t[i] = s[k + i] /\ k + i > k
  OBVIOUS
<1>2. /\ Contains(t, r) <=> \E i \in 1..Len(t) : t[i] = r
      /\ r \in ToSet(l) <=> \E i \in 1..Len(l) : l[i] = r
      /\ Contains(s, r) <=> \E i \in 1..Len(s) : s[i] = r
  <2>1. Contains(t, r) <=> \E i \in 1..Len(t) : t[i] = r
    BY RequestMembers
  <2>2. r \in ToSet(l) <=> \E i \in 1..Len(l) : l[i] = r
    BY RequestMembers
  <2>3. Contains(s, r) <=> \E i \in 1..Len(s) : s[i] = r
    BY RequestMembers
  <2> QED BY <2>1, <2>2, <2>3
<1>3. \A i, j \in 1..Len(t) : t[i] = r /\ t[j] = r => i = j
  <2> SUFFICES ASSUME NEW i \in 1..Len(t), NEW j \in 1..Len(t), t[i] = r, t[j] = r PROVE i = j
    OBVIOUS
  <2>1. k + i \in 1..Len(s) /\ k + j \in 1..Len(s) /\ s[k + i] = r /\ s[k + j] = r
    BY <1>1
  <2>2. k + i = k + j
    BY <2>1 DEF Once
  <2> QED BY <2>2
<1>4. \A i \in 1..Len(l), j \in 1..Len(t) : ~(l[i] = r /\ t[j] = r)
  <2> SUFFICES ASSUME NEW i \in 1..Len(l), NEW j \in 1..Len(t), l[i] = r, t[j] = r PROVE FALSE
    OBVIOUS
  <2>1. i = k + j
    BY <1>1 DEF Once
  <2> QED BY <1>1, <2>1
<1> QED BY <1>1, <1>2, <1>3, <1>4 DEF Once

\* A request that is not held is staged once.
LEMMA AppendOnce ==
    ASSUME NEW s \in Seq(Requests), NEW x \in Requests, NEW h, NEW r, Once(s, h, r),
           x = r => ~(r \in h \/ Contains(s, r))
    PROVE  Once(Append(s, x), h, r)
<1>1. \A y : Contains(Append(s, x), y) <=> Contains(s, y) \/ y = x
  BY AppendFacts
<1>2. Contains(s, r) <=> \E i \in 1..Len(s) : s[i] = r
  BY MemberFacts
<1> DEFINE t == Append(s, x)
<1>3. /\ Len(s) \in Nat /\ Len(t) = Len(s) + 1 /\ t[Len(s) + 1] = x
      /\ \A i \in 1..Len(s) : t[i] = s[i]
  BY AppendPositions
<1> HIDE DEF t
<1>4. \A i \in 1..Len(t) : i \in 1..Len(s) \/ i = Len(s) + 1
  BY <1>3
<1>5. \A i, j \in 1..Len(t) : t[i] = r /\ t[j] = r => i = j
  BY <1>2, <1>3, <1>4 DEF Once
<1> QED BY <1>1, <1>5 DEF t, Once

\* A sequence without its i-th element, by its positions.
LEMMA RemovePositions ==
    ASSUME NEW s \in Seq(Requests), NEW i \in 1..Len(s)
    PROVE  /\ Len(s) \in Nat
           /\ RemoveAt(s, i) \in Seq(Requests) /\ Len(RemoveAt(s, i)) = Len(s) - 1
           /\ \A j \in 1..(Len(s) - 1) : RemoveAt(s, i)[j] = IF j < i THEN s[j] ELSE s[j + 1]
<1>1. Len(s) \in Nat /\ i - 1 \in 0..Len(s) /\ (i - 1) + 1 = i
  BY LenProperties
<1> DEFINE l == SubSeq(s, 1, i - 1)
           t == SubSeq(s, i + 1, Len(s))
<1>2. l \in Seq(Requests) /\ Len(l) = i - 1 /\ \A j \in 1..(i - 1) : l[j] = s[j]
  BY <1>1, SplicePositions
<1>3. t \in Seq(Requests) /\ Len(t) = Len(s) - i /\ \A j \in 1..(Len(s) - i) : t[j] = s[i + j]
  BY <1>1, SplicePositions
<1>4. RemoveAt(s, i) = l \o t
  BY DEF RemoveAt
<1> HIDE DEF l, t
<1> DEFINE u == l \o t
<1>5. /\ u \in Seq(Requests) /\ Len(u) = Len(l) + Len(t)
      /\ \A j \in 1..Len(l) + Len(t) : u[j] = IF j <= Len(l) THEN l[j] ELSE t[j - Len(l)]
  BY <1>2, <1>3, ConcatProperties
<1> HIDE DEF u
<1>6. ASSUME NEW j \in 1..(Len(s) - 1) PROVE u[j] = IF j < i THEN s[j] ELSE s[j + 1]
  <2>1. j \in 1..Len(l) + Len(t)
    BY <1>1, <1>2, <1>3
  <2>2. CASE j < i
    <3>1. j <= Len(l) /\ j \in 1..(i - 1)
      BY <1>1, <1>2, <2>2
    <3> QED BY <1>2, <1>5, <2>1, <2>2, <3>1
  <2>3. CASE ~(j < i)
    <3>1. ~(j <= Len(l)) /\ j - Len(l) \in 1..(Len(s) - i) /\ i + (j - Len(l)) = j + 1
      BY <1>1, <1>2, <2>3
    <3>2. u[j] = t[j - Len(l)]
      BY <1>5, <2>1, <3>1
    <3>3. t[j - Len(l)] = s[i + (j - Len(l))]
      BY <1>3, <3>1
    <3> QED BY <2>3, <3>1, <3>2, <3>3
  <2> QED BY <2>2, <2>3
<1>7. Len(u) = Len(s) - 1
  BY <1>1, <1>2, <1>3, <1>5
<1> QED BY <1>1, <1>4, <1>5, <1>6, <1>7 DEF u

\* releaseFromBuffers takes one entry: the only one of its request.
LEMMA RemoveOnce ==
    ASSUME NEW s \in Seq(Requests), NEW i \in 1..Len(s), NEW h, NEW r, Once(s, h, r),
           NEW t \in Seq(Requests), Len(s) \in Nat, Len(t) = Len(s) - 1,
           \A j \in 1..(Len(s) - 1) : t[j] = IF j < i THEN s[j] ELSE s[j + 1]
    PROVE  /\ Once(t, h, r) /\ (Contains(t, r) => Contains(s, r))
           /\ s[i] = r => ~Contains(t, r)
<1> DEFINE at(j) == IF j < i THEN j ELSE j + 1
<1>1. \A j \in 1..Len(t) : at(j) \in 1..Len(s) /\ t[j] = s[at(j)] /\ at(j) # i
  OBVIOUS
<1>2. \A j, k \in 1..Len(t) : at(j) = at(k) => j = k
  OBVIOUS
<1> HIDE DEF at
<1>3. /\ Contains(t, r) <=> \E j \in 1..Len(t) : t[j] = r
      /\ Contains(s, r) <=> \E j \in 1..Len(s) : s[j] = r
  BY MemberFacts
<1> QED BY SMTT(30), <1>1, <1>2, <1>3 DEF Once

\* topUp, and the end of peekHead and of lockHead.
LEMMA TopUpOnce ==
    ASSUME TypeOK, NEW c \in Callers, NEW o \in Peeks, NEW s \in Seq(Requests), NEW r,
           TopUp(c, o, s) \/ (Finish(c) /\ HeadDone(o, s)), Once(s, handedOut, r)
    PROVE  Once(staged', handedOut', r) /\ (LiveHandle(r)' => Contains(s, r) \/ r \in handedOut)
<1>1. o.kind \in {"head", "lock"} /\ o.limit \in Nat
  <2>1. o \in Operations /\ o.kind \in {"head", "lock"}
    BY DEF Peeks
  <2>2. o.limit \in Limits \cup {0}
    BY <2>1 DEF Operations
  <2>3. Limits \cup {0} \subseteq Nat
    BY QueueAssumption DEF QueueAssumption
  <2> QED BY <2>1, <2>2, <2>3
<1>2. CASE staged' = s /\ UNCHANGED handedOut
  BY <1>2 DEF LiveHandle
<1>3. CASE o.kind = "lock" /\ HandOut(Min({o.limit, Len(s)}), s)
  <2> DEFINE k == Min({o.limit, Len(s)})
  <2>1. k \in 0..Len(s)
    BY <1>1, MinFacts, LenProperties
  <2>2. HandOut(k, s)
    BY <1>3
  <2> HIDE DEF k
  <2>3. staged' = SubSeq(s, k + 1, Len(s)) /\ handedOut' = handedOut \cup ToSet(SubSeq(s, 1, k))
    BY <2>2 DEF HandOut
  <2> DEFINE t == SubSeq(s, k + 1, Len(s))
             l == SubSeq(s, 1, k)
  <2>4. /\ Len(s) \in Nat /\ l \in Seq(Requests) /\ Len(l) = k /\ \A i \in 1..k : l[i] = s[i]
        /\ t \in Seq(Requests) /\ Len(t) = Len(s) - k
        /\ \A i \in 1..(Len(s) - k) : t[i] = s[k + i]
    BY <2>1, SplicePositions
  <2>5. staged' = t /\ handedOut' = handedOut \cup ToSet(l)
    BY <2>3
  <2> HIDE DEF t, l
  <2>6. /\ Once(t, handedOut \cup ToSet(l), r)
        /\ Contains(t, r) \/ r \in ToSet(l) => Contains(s, r)
    BY <2>1, <2>4, SpliceOnce
  <2> QED BY <2>5, <2>6 DEF LiveHandle
<1> QED BY <1>1, <1>2, <1>3 DEF TopUp, HeadDone

\* A request that arrives makes the buffer hold no more.
LEMMA BufferArrivals ==
    ASSUME TypeOK, NEW c \in Callers, NEW x,
           \/ \E r \in Requests, f \in Forefronts :
                \/ addRequest(c, r, f) \/ releaseLock(c, r, f)
                \/ \E kind \in {"mark", "reclaim"} : markHandledOrReclaim(c, kind, r, f)
           \/ \E kind \in {"head", "lock"}, limit \in Limits : peekOrLockHead(c, kind, limit)
           \/ unlockAll(c),
           Once(staged, handedOut, x)
    PROVE  Once(staged', handedOut', x) /\ (LiveHandle(x)' => LiveHandle(x))
<1>1. ASSUME NEW kind \in {"head", "lock"}, NEW limit \in Limits, peekOrLockHead(c, kind, limit)
      PROVE  Once(staged', handedOut', x) /\ (LiveHandle(x)' => LiveHandle(x))
  <2> DEFINE o == Arrives(kind, NoRequest, limit, FALSE)
  <2>1. o \in Peeks
    BY QueueAssumption DEF Arrives, Peeks, Operations
  <2>2. TopUp(c, o, staged) /\ staged \in Seq(Requests)
    BY <1>1 DEF peekOrLockHead, TypeOK
  <2> HIDE DEF o
  <2>3. Once(staged', handedOut', x) /\ (LiveHandle(x)' => Contains(staged, x) \/ x \in handedOut)
    BY <2>1, <2>2, TopUpOnce
  <2> QED BY <2>3 DEF LiveHandle
<1>2. CASE unlockAll(c)
  BY <1>2 DEF unlockAll, Once, LiveHandle
<1>3. ASSUME NEW r \in Requests, NEW f \in Forefronts,
             \/ addRequest(c, r, f) \/ releaseLock(c, r, f)
             \/ \E kind \in {"mark", "reclaim"} : markHandledOrReclaim(c, kind, r, f)
      PROVE  Once(staged', handedOut', x) /\ (LiveHandle(x)' => LiveHandle(x))
  BY <1>3 DEF addRequest, releaseLock, markHandledOrReclaim, buffer, LiveHandle
<1> QED BY <1>1, <1>2, <1>3

\* An answer does so only of the request it brings; that of a mark or a reclaim drops its request.
LEMMA BufferAnswers ==
    ASSUME TypeOK, NEW c \in Callers, NEW x \in Requests,
           Added(c) \/ Fetched(c) \/ Drained(c) \/ Got(c) \/ Released(c) \/ Unlocked(c),
           Once(staged, handedOut, x), FetchedAt(1, x) => ~LiveHandle(x)
    PROVE  /\ Once(staged', handedOut', x)
           /\ LiveHandle(x)' => FetchedAt(1, x) \/ (LiveHandle(x) /\ ~GivenBackAt(1, x))
<1> DEFINE a == Head(answers)
<1>1. a = answers[1] /\ staged \in Seq(Requests)
  BY TailPositions DEF Added, Fetched, Drained, Got, Released, Unlocked, Answers, TypeOK
<1>2. CASE Added(c) \/ Got(c) \/ Unlocked(c)
  <2>1. UNCHANGED <<staged, handedOut>>
    BY <1>2 DEF Added, Got, Unlocked, buffer
  <2>2. a.kind \in {"add", "get"} \/ op[a.by].kind = "unlock"
    BY <1>2 DEF Added, Got, Unlocked, Answers
  <2> QED BY <1>1, <2>1, <2>2 DEF GivenBackAt, LiveHandle
<1>3. CASE Fetched(c)
  <2>1. a.kind = "fetch" /\ op[c] \in Peeks /\ a.found \in Found
    BY <1>3, AnswerFacts DEF Fetched, Peeks
  <2>2. FetchedAt(1, x) <=> a.found = x
    BY <1>1, <2>1 DEF FetchedAt
  <2>3. ~GivenBackAt(1, x)
    BY <1>1, <2>1 DEF GivenBackAt
  <2>4. CASE a.found # NoRequest /\ TopUp(c, op[c], Append(staged, a.found))
    <3>1. a.found \in Requests
      BY <2>1, <2>4 DEF Found
    <3>2. Append(staged, a.found) \in Seq(Requests)
      BY <1>1, <3>1, AppendFacts
    <3>3. Contains(Append(staged, a.found), x) <=> Contains(staged, x) \/ x = a.found
      BY <1>1, <3>1, AppendFacts
    <3>4. Once(Append(staged, a.found), handedOut, x)
      BY <1>1, <2>2, <3>1, AppendOnce DEF LiveHandle
    <3>5. /\ Once(staged', handedOut', x)
          /\ LiveHandle(x)' => Contains(Append(staged, a.found), x) \/ x \in handedOut
      BY <2>1, <2>4, <3>2, <3>4, TopUpOnce
    <3> QED BY <2>2, <2>3, <3>3, <3>5 DEF LiveHandle
  <2>5. CASE Finish(c) /\ HeadDone(op[c], staged)
    <3>1. /\ Once(staged', handedOut', x)
          /\ LiveHandle(x)' => Contains(staged, x) \/ x \in handedOut
      BY <1>1, <2>1, <2>5, TopUpOnce
    <3> QED BY <2>3, <3>1 DEF LiveHandle
  <2> QED BY <1>3, <2>4, <2>5 DEF Fetched
<1>4. CASE Drained(c)
  <2>1. a.kind = "fetch" /\ a.found \in Found /\ handedOut' = handedOut
    BY <1>4, AnswerFacts DEF Drained
  <2>2. FetchedAt(1, x) <=> a.found = x
    BY <1>1, <2>1 DEF FetchedAt
  <2>3. ~GivenBackAt(1, x)
    BY <1>1, <2>1 DEF GivenBackAt
  <2>4. CASE a.found # NoRequest /\ staged' = Append(staged, a.found)
    <3>1. a.found \in Requests
      BY <2>1, <2>4 DEF Found
    <3>2. Contains(staged', x) <=> Contains(staged, x) \/ x = a.found
      BY <1>1, <2>4, <3>1, AppendFacts
    <3>3. Once(staged', handedOut', x)
      BY <1>1, <2>1, <2>2, <2>4, <3>1, AppendOnce DEF LiveHandle
    <3> QED BY <2>1, <2>2, <2>3, <3>2, <3>3 DEF LiveHandle
  <2>5. CASE staged' = staged
    BY <2>1, <2>3, <2>5 DEF LiveHandle
  <2> QED BY <1>4, <2>4, <2>5 DEF Drained
<1>5. CASE Released(c)
  <2>1. releaseFromBuffers(a.request)
    BY <1>5 DEF Released
  <2>2. GivenBackAt(1, x) => a.request = x
    BY <1>1 DEF GivenBackAt
  <2> HIDE DEF a
  <2>3. handedOut' = handedOut \ {a.request}
    BY <2>1 DEF releaseFromBuffers
  <2>4. CASE ~Contains(staged, a.request) /\ UNCHANGED staged
    BY <2>2, <2>3, <2>4 DEF Once, LiveHandle
  <2>5. ASSUME NEW i \in 1..Len(staged), staged[i] = a.request, staged' = RemoveAt(staged, i)
        PROVE  /\ Once(staged', handedOut', x)
               /\ LiveHandle(x)' => LiveHandle(x) /\ ~GivenBackAt(1, x)
    <3>1. /\ Once(staged', handedOut, x) /\ (Contains(staged', x) => Contains(staged, x))
          /\ staged[i] = x => ~Contains(staged', x)
      <4> DEFINE t == RemoveAt(staged, i)
      <4>1. /\ Len(staged) \in Nat /\ t \in Seq(Requests) /\ Len(t) = Len(staged) - 1
            /\ \A j \in 1..(Len(staged) - 1) :
                 t[j] = IF j < i THEN staged[j] ELSE staged[j + 1]
        BY <1>1, RemovePositions
      <4>2. staged' = t
        BY <2>5
      <4> HIDE DEF t
      <4>3. /\ Once(t, handedOut, x) /\ (Contains(t, x) => Contains(staged, x))
            /\ staged[i] = x => ~Contains(t, x)
        BY <1>1, <4>1, RemoveOnce
      <4> QED BY <4>2, <4>3
    <3> QED BY <2>2, <2>3, <2>5, <3>1 DEF Once, LiveHandle
  <2> QED BY <2>1, <2>4, <2>5 DEF releaseFromBuffers
<1> QED BY <1>2, <1>3, <1>4, <1>5

-----------------------------------------------------------------------------
(* What a step of a caller keeps.                                          *)

\* The steps of a caller.
CallerStep(c) ==
    \/ \E r \in Requests, f \in Forefronts :
        \/ addRequest(c, r, f) \/ releaseLock(c, r, f)
        \/ \E kind \in {"mark", "reclaim"} : markHandledOrReclaim(c, kind, r, f)
    \/ \E kind \in {"head", "lock"}, limit \in Limits : peekOrLockHead(c, kind, limit)
    \/ unlockAll(c)
    \/ Added(c) \/ Fetched(c) \/ Drained(c) \/ Got(c) \/ Released(c) \/ Unlocked(c)

\* The calls that were out stay so, whoever made them is still the kind of operation it was, and
\* of the new calls only those of an unlock-all are an unlock-all's.
LEMMA CallsKept ==
    ASSUME TypeOK, OneCallEach, NEW c \in Callers, CallerStep(c)
    PROVE  /\ \A p \in 1..Len(calls) :
                /\ p \in 1..Len(calls') /\ calls'[p] = calls[p]
                /\ op'[calls[p].by].kind = op[calls[p].by].kind
           /\ \A p \in 1..Len(calls') :
                \/ p \in 1..Len(calls)
                \/ calls'[p].by = c /\ op'[c].kind # "unlock"
                \/ unlockAll(c) /\ p > Len(calls)
           /\ CallerMoves(c) \/ UNCHANGED <<op, calls>>
<1>1. /\ CallerMoves(c) \/ UNCHANGED <<op, calls>>
      /\ op'[c].kind # "unlock" \/ UNCHANGED <<op, calls>> \/ unlockAll(c)
  BY CallerSteps, UnlockMoves DEF CallerStep
<1>2. \A p \in 1..Len(calls) : calls[p].by \in Callers
  <2> TAKE p \in 1..Len(calls)
  <2>1. calls[p] \in Calls
    BY ElementOfSeq DEF TypeOK
  <2> QED BY <2>1 DEF Calls
<1>3. CASE UNCHANGED <<op, calls>>
  BY <1>3, <1>1
<1>4. CASE CallerMoves(c) /\ (op'[c].kind # "unlock" \/ unlockAll(c))
  <2>1. /\ \A p \in 1..Len(calls) : p \in 1..Len(calls') /\ calls'[p] = calls[p] /\ calls[p].by # c
        /\ \A p \in 1..Len(calls') : p \in 1..Len(calls) \/ (p > Len(calls) /\ calls'[p].by = c)
        /\ \A d \in Callers \ {c} : op'[d] = op[d]
    BY <1>4 DEF CallerMoves, NoneBy
  <2> QED BY <1>2, <1>4, <2>1
<1> QED BY <1>1, <1>3, <1>4

\* The same of the answers that are left.
LEMMA AnswersKept ==
    ASSUME TypeOK, OneCallEach, NEW c \in Callers, CallerStep(c)
    PROVE  \E d \in {0, 1} :
             /\ Len(answers) \in Nat /\ Len(answers') \in Nat /\ Len(answers) = Len(answers') + d
             /\ d = 1 => answers # <<>> /\ answers' = Tail(answers) /\ Head(answers) = answers[1]
             /\ d = 0 => answers' = answers
             /\ \A i \in 1..Len(answers') :
                    /\ i + d \in 1..Len(answers) /\ answers'[i] = answers[i + d]
                    /\ op'[answers'[i].by].kind = op[answers[i + d].by].kind
<1>1. answers' = answers \/ (answers # <<>> /\ answers' = Tail(answers))
  BY CallerAnswers DEF CallerStep
<1>2. PICK d \in {0, 1} :
             /\ Len(answers) \in Nat /\ Len(answers') \in Nat /\ Len(answers) = Len(answers') + d
             /\ d = 1 => answers # <<>> /\ answers' = Tail(answers) /\ Head(answers) = answers[1]
             /\ d = 0 => answers' = answers
             /\ \A i \in 1..Len(answers') : answers'[i] = answers[i + d]
  BY <1>1, LeftAnswers
<1>3. \A i \in 1..Len(answers') : i + d \in 1..Len(answers)
  BY <1>2
<1>4. \A i \in 1..Len(answers) : answers[i].by \in Callers
  <2> TAKE i \in 1..Len(answers)
  <2>1. answers[i] \in Calls
    BY ElementOfSeq DEF TypeOK
  <2> QED BY <2>1 DEF Calls
<1>5. CallerMoves(c) \/ UNCHANGED <<op, calls>>
  BY CallsKept
<1>6. \A i \in 1..Len(answers') : op'[answers'[i].by].kind = op[answers[i + d].by].kind
  BY <1>2, <1>3, <1>4, <1>5 DEF CallerMoves, NoneBy
<1> QED BY <1>2, <1>3, <1>6

\* MarkedForGood speaks of positions relative to one another.
LEMMA MarkedKept ==
    ASSUME TypeOK, OneCallEach, MarkedForGood, NEW c \in Callers, CallerStep(c)
    PROVE  MarkedForGood'
<1>1. PICK d \in {0, 1} :
        /\ Len(answers) \in Nat /\ Len(answers') \in Nat /\ Len(answers) = Len(answers') + d
        /\ \A i \in 1..Len(answers') : i + d \in 1..Len(answers) /\ answers'[i] = answers[i + d]
  BY AnswersKept
<1>2. state' = state
  BY CallerAnswers DEF CallerStep, queue
<1>3. SUFFICES ASSUME NEW j \in 1..Len(answers'), answers'[j].kind = "mark",
                      answers'[j].found # NoRequest
      PROVE  /\ answers'[j].found = answers'[j].request /\ state[answers'[j].request] = "handled"
             /\ \A k \in 1..Len(answers') : j < k =>
                    ~(answers'[k].kind = "fetch" /\ answers'[k].found = answers'[j].request)
  BY <1>2 DEF MarkedForGood, FetchedAt
<1>4. /\ j + d \in 1..Len(answers) /\ answers'[j] = answers[j + d]
      /\ answers[j + d].found = answers[j + d].request
      /\ state[answers[j + d].request] = "handled"
      /\ \A k \in 1..Len(answers) : j + d < k =>
            ~(answers[k].kind = "fetch" /\ answers[k].found = answers[j + d].request)
  BY <1>1, <1>3 DEF MarkedForGood, FetchedAt
<1>5. \A k \in 1..Len(answers') : j < k =>
        k + d \in 1..Len(answers) /\ j + d < k + d /\ answers'[k] = answers[k + d]
  BY <1>1
<1> QED BY <1>4, <1>5

\* The operations of a caller, by what they take.
LEMMA BufferSteps ==
    ASSUME TypeOK, NEW c \in Callers, CallerStep(c), NEW x \in Requests,
           Once(staged, handedOut, x), answers # <<>> => (FetchedAt(1, x) => ~LiveHandle(x))
    PROVE  /\ Once(staged', handedOut', x)
           /\ LiveHandle(x)' =>
                \/ LiveHandle(x) /\ answers' = answers
                \/ answers' = Tail(answers) /\ answers # <<>> /\
                    (FetchedAt(1, x) \/ (LiveHandle(x) /\ ~GivenBackAt(1, x)))
<1>1. CASE \/ \E r \in Requests, f \in Forefronts :
                \/ addRequest(c, r, f) \/ releaseLock(c, r, f)
                \/ \E kind \in {"mark", "reclaim"} : markHandledOrReclaim(c, kind, r, f)
           \/ \E kind \in {"head", "lock"}, limit \in Limits : peekOrLockHead(c, kind, limit)
           \/ unlockAll(c)
  <2>1. answers' = answers
    BY <1>1 DEF addRequest, releaseLock, markHandledOrReclaim, peekOrLockHead, unlockAll
  <2> QED BY <1>1, <2>1, BufferArrivals
<1>2. CASE Added(c) \/ Fetched(c) \/ Drained(c) \/ Got(c) \/ Released(c) \/ Unlocked(c)
  <2>1. answers' = Tail(answers) /\ answers # <<>>
    BY <1>2 DEF Added, Fetched, Drained, Got, Released, Unlocked, Answers
  <2> QED BY <1>2, <2>1, BufferAnswers
<1> QED BY <1>1, <1>2 DEF CallerStep

-----------------------------------------------------------------------------
(* HeldByTurns.                                                            *)

\* A caller's step takes the oldest answer at most: what follows it still alternates.
LEMMA TurnsKept ==
    ASSUME TypeOK, OneCallEach, NEW c \in Callers, CallerStep(c), NEW x \in Requests, TakesTurns(x)
    PROVE  TakesTurns(x)'
<1>1. PICK d \in {0, 1} :
        /\ Len(answers) \in Nat /\ Len(answers') \in Nat /\ Len(answers) = Len(answers') + d
        /\ d = 1 => answers # <<>> /\ answers' = Tail(answers) /\ Head(answers) = answers[1]
        /\ d = 0 => answers' = answers
        /\ \A i \in 1..Len(answers') :
            /\ i + d \in 1..Len(answers) /\ answers'[i] = answers[i + d]
            /\ op'[answers'[i].by].kind = op[answers[i + d].by].kind
  BY AnswersKept
<1>2. state' = state
  BY CallerAnswers DEF CallerStep, queue
<1>3. answers # <<>> => 1 \in 1..Len(answers)
  BY <1>1, EmptySeq DEF TypeOK
<1>4. answers # <<>> => (FetchedAt(1, x) => ~LiveHandle(x))
  BY <1>1, <1>3 DEF TakesTurns
<1>5. /\ Once(staged', handedOut', x)
      /\ LiveHandle(x)' =>
            \/ LiveHandle(x) /\ answers' = answers
            \/ answers' = Tail(answers) /\ answers # <<>> /\
                (FetchedAt(1, x) \/ (LiveHandle(x) /\ ~GivenBackAt(1, x)))
  BY <1>4, BufferSteps DEF TakesTurns
<1>6. answers' = Tail(answers) /\ answers # <<>> => d = 1
  <2> SUFFICES ASSUME answers' = Tail(answers), answers # <<>> PROVE d = 1
    OBVIOUS
  <2>1. Len(answers') = Len(answers) - 1 /\ Len(answers) \in Nat \ {0}
    BY TailPositions DEF TypeOK
  <2> QED BY <1>1, <2>1
<1>7. /\ \A i \in 1..Len(answers') :
            /\ FetchedAt(i, x)' <=> FetchedAt(i + d, x)
            /\ GivenBackAt(i, x)' <=> GivenBackAt(i + d, x)
  BY <1>1 DEF FetchedAt, GivenBackAt
<1>8. ASSUME NEW j \in 1..Len(answers), j > d, GivenBackAt(j, x)
      PROVE  j - d \in 1..Len(answers') /\ GivenBackAt(j - d, x)'
  <2>1. j - d \in 1..Len(answers') /\ (j - d) + d = j
    BY <1>1, <1>8
  <2> QED BY <1>7, <1>8, <2>1
<1>9. ASSUME LiveHandle(x)', NEW k \in 1..Len(answers'), FetchedAt(k, x)'
      PROVE  \E j \in 1..Len(answers') : j < k /\ GivenBackAt(j, x)'
  <2>1. k + d \in 1..Len(answers) /\ FetchedAt(k + d, x)
    BY <1>1, <1>7, <1>9
  <2>2. \E j \in 1..Len(answers) : d < j /\ j < k + d /\ GivenBackAt(j, x)
    <3>1. CASE LiveHandle(x) /\ answers' = answers
      <4>1. d = 0
        BY <1>1, <3>1
      <4> QED BY <2>1, <3>1, <4>1 DEF TakesTurns
    <3>2. CASE answers # <<>> /\ d = 1 /\ FetchedAt(1, x)
      <4>1. 1 < k + d
        BY <1>1, <3>2
      <4> QED BY <1>3, <2>1, <3>2, <4>1 DEF TakesTurns
    <3>3. CASE d = 1 /\ LiveHandle(x) /\ ~GivenBackAt(1, x)
      <4>1. PICK j \in 1..Len(answers) : j < k + d /\ GivenBackAt(j, x)
        BY <2>1, <3>3 DEF TakesTurns
      <4>2. j # 1 /\ j > d
        BY <3>3, <4>1
      <4> QED BY <4>1, <4>2
    <3> QED BY <1>5, <1>6, <1>9, <3>1, <3>2, <3>3
  <2>3. PICK j \in 1..Len(answers) : d < j /\ j < k + d /\ GivenBackAt(j, x)
    BY <2>2
  <2>4. j - d \in 1..Len(answers') /\ GivenBackAt(j - d, x)'
    BY <1>8, <2>3
  <2>5. j - d < k
    BY <1>1, <2>3
  <2> QED BY <2>4, <2>5
<1>10. ASSUME NEW i \in 1..Len(answers'), NEW k \in 1..Len(answers'), FetchedAt(i, x)', FetchedAt(k, x)', i < k
       PROVE  \E j \in 1..Len(answers') : i < j /\ j < k /\ GivenBackAt(j, x)'
  <2>0. /\ i + d \in 1..Len(answers) /\ k + d \in 1..Len(answers) /\ i + d < k + d
        /\ FetchedAt(i + d, x) /\ FetchedAt(k + d, x)
    BY <1>1, <1>7, <1>10
  <2>1. PICK j \in 1..Len(answers) : i + d < j /\ j < k + d /\ GivenBackAt(j, x)
    BY <2>0 DEF TakesTurns
  <2>2. j > d
    BY <1>1, <2>1
  <2>3. j - d \in 1..Len(answers') /\ GivenBackAt(j - d, x)'
    BY <1>8, <2>1, <2>2
  <2>4. i < j - d /\ j - d < k
    BY <1>1, <2>1
  <2> QED BY <2>3, <2>4
<1>11. ASSUME state[x] # "inProgress", LiveHandle(x)'
       PROVE  \E j \in 1..Len(answers') : GivenBackAt(j, x)'
  <2>1. \E j \in 1..Len(answers) : j > d /\ GivenBackAt(j, x)
    <3>1. CASE LiveHandle(x) /\ answers' = answers
      <4>1. d = 0
        BY <1>1, <3>1
      <4> QED BY <1>11, <3>1, <4>1 DEF TakesTurns
    <3>2. CASE answers # <<>> /\ d = 1 /\ FetchedAt(1, x)
      BY <1>3, <1>11, <3>2 DEF TakesTurns
    <3>3. CASE d = 1 /\ LiveHandle(x) /\ ~GivenBackAt(1, x)
      <4>1. PICK j \in 1..Len(answers) : GivenBackAt(j, x)
        BY <1>11, <3>3 DEF TakesTurns
      <4>2. j # 1 /\ j > d
        BY <3>3, <4>1
      <4> QED BY <4>1, <4>2
    <3> QED BY <1>5, <1>6, <1>11, <3>1, <3>2, <3>3
  <2> QED BY <1>8, <2>1
<1>12. ASSUME state[x] # "inProgress", NEW i \in 1..Len(answers'), FetchedAt(i, x)'
       PROVE  \E j \in 1..Len(answers') : i < j /\ GivenBackAt(j, x)'
  <2>1. PICK j \in 1..Len(answers) : i + d < j /\ GivenBackAt(j, x)
    BY <1>1, <1>7, <1>12 DEF TakesTurns
  <2>2. j > d /\ i < j - d
    BY <1>1, <2>1
  <2>3. j - d \in 1..Len(answers') /\ GivenBackAt(j - d, x)'
    BY <1>8, <2>1, <2>2
  <2> QED BY <2>2, <2>3
<1> QED BY <1>2, <1>5, <1>9, <1>10, <1>11, <1>12 DEF TakesTurns

\* An effect adds an answer: a fetch only of what is pending, so given back by then; and what
\* takes a request out of progress gives it back, unless it unlocks what nobody holds.
LEMMA TurnsEffect ==
    ASSUME TypeOK, OffersPending, UnlockIsAlone, TakesEffect,
           NEW x \in Requests \ overlapped, TakesTurns(x)
    PROVE  TakesTurns(x)'
<1>1. PICK a : EffectOf(a)
  BY EffectPositions
<1>0. PICK n : n = Len(answers)
  OBVIOUS
<1>2. /\ n \in Nat /\ Len(answers) = n /\ Len(answers') = n + 1 /\ answers'[n + 1] = a
      /\ \A i \in 1..n : i \in 1..Len(answers') /\ answers'[i] = answers[i]
      /\ \A i \in 1..Len(answers') : i \in 1..n \/ i = n + 1
      /\ UNCHANGED <<staged, handedOut, op, overlapped>>
  BY <1>0, <1>1 DEF EffectOf
<1>3. \A i \in 1..n : /\ FetchedAt(i, x)' <=> FetchedAt(i, x)
                      /\ GivenBackAt(i, x)' <=> GivenBackAt(i, x)
  BY <1>2 DEF FetchedAt, GivenBackAt
<1>4. n + 1 \in 1..Len(answers') /\ \A i \in 1..n : i < n + 1 /\ ~(n + 1 < i)
  BY <1>2
<1>5. ASSUME FetchedAt(n + 1, x)' PROVE state[x] = "pending" /\ state'[x] = "inProgress"
  <2>1. a.kind = "fetch" /\ a.found = x
    BY <1>2, <1>5 DEF FetchedAt
  <2>2. EffectFetches(a) /\ Head(order) = x
    BY <1>1, <2>1, QueueAssumption
       DEF QueueAssumption, EffectOf, EffectFetches, EffectOffers, EffectMarks, EffectNothing
  <2>3. Head(order) = order[1] /\ 1 \in 1..Len(order)
    BY <2>2, TailPositions DEF EffectFetches, TypeOK
  <2> QED BY <2>2, <2>3 DEF EffectFetches, OffersPending, TypeOK
<1>6. ASSUME state'[x] # "inProgress", state[x] = "inProgress"
      PROVE  \/ GivenBackAt(n + 1, x)'
             \/ ~LiveHandle(x) /\ \A k \in 1..n : ~FetchedAt(k, x)
  <2>1. a.kind \in {"mark", "reclaim"} /\ a.request = x /\ a.found = x
    BY <1>1, <1>6 DEF EffectOf, EffectFetches, EffectOffers, EffectMarks, EffectNothing, queue, TypeOK
  <2>2. CASE op[a.by].kind # "unlock"
    BY <1>2, <2>1, <2>2 DEF GivenBackAt
  <2>3. CASE op[a.by].kind = "unlock"
    <3>1. 1 \in 1..Len(calls) /\ calls[1].by = a.by /\ calls[1].request = x
      BY <1>1, <2>1 DEF EffectOf
    <3>2. UnlockedAt(1)
      BY <2>3, <3>1 DEF UnlockIsAlone
    <3> QED BY <1>2, <3>1, <3>2 DEF UnlockedAt
  <2> QED BY <2>2, <2>3
<1>7. Once(staged', handedOut', x) /\ (LiveHandle(x)' <=> LiveHandle(x))
  BY <1>2 DEF TakesTurns, LiveHandle
<1>8. ASSUME LiveHandle(x)', NEW k \in 1..Len(answers'), FetchedAt(k, x)'
      PROVE  \E j \in 1..Len(answers') : j < k /\ GivenBackAt(j, x)'
  <2>1. CASE k \in 1..n
    <3>1. PICK j \in 1..n : j < k /\ GivenBackAt(j, x)
      BY <1>2, <1>3, <1>7, <1>8, <2>1 DEF TakesTurns
    <3> QED BY <1>2, <1>3, <3>1
  <2>2. CASE k = n + 1
    <3>1. PICK j \in 1..n : GivenBackAt(j, x)
      BY <1>2, <1>5, <1>7, <1>8, <2>2 DEF TakesTurns
    <3> QED BY <1>2, <1>3, <1>4, <2>2, <3>1
  <2> QED BY <1>2, <2>1, <2>2
<1>9. ASSUME NEW i \in 1..Len(answers'), NEW k \in 1..Len(answers'),
             FetchedAt(i, x)', FetchedAt(k, x)', i < k
      PROVE  \E j \in 1..Len(answers') : i < j /\ j < k /\ GivenBackAt(j, x)'
  <2>1. i \in 1..n
    BY <1>2, <1>9
  <2>2. CASE k \in 1..n
    <3>1. PICK j \in 1..n : i < j /\ j < k /\ GivenBackAt(j, x)
      BY <1>2, <1>3, <1>9, <2>1, <2>2 DEF TakesTurns
    <3> QED BY <1>2, <1>3, <3>1
  <2>3. CASE k = n + 1
    <3>1. PICK j \in 1..n : i < j /\ GivenBackAt(j, x)
      BY <1>2, <1>3, <1>5, <1>9, <2>1, <2>3 DEF TakesTurns
    <3> QED BY <1>2, <1>3, <1>4, <2>3, <3>1
  <2> QED BY <1>2, <2>2, <2>3
<1>10. ASSUME state'[x] # "inProgress", LiveHandle(x)'
       PROVE  \E j \in 1..Len(answers') : GivenBackAt(j, x)'
  <2>1. CASE state[x] = "inProgress"
    BY <1>4, <1>6, <1>7, <1>10, <2>1
  <2>2. CASE state[x] # "inProgress"
    BY <1>2, <1>3, <1>7, <1>10, <2>2 DEF TakesTurns
  <2> QED BY <2>1, <2>2
<1>11. ASSUME state'[x] # "inProgress", NEW i \in 1..Len(answers'), FetchedAt(i, x)'
       PROVE  \E j \in 1..Len(answers') : i < j /\ GivenBackAt(j, x)'
  <2>1. i \in 1..n /\ FetchedAt(i, x)
    BY <1>2, <1>3, <1>5, <1>11
  <2>2. CASE state[x] = "inProgress"
    BY <1>4, <1>6, <1>11, <2>1, <2>2
  <2>3. CASE state[x] # "inProgress"
    <3>1. PICK j \in 1..n : i < j /\ GivenBackAt(j, x)
      BY <1>2, <2>1, <2>3 DEF TakesTurns
    <3> QED BY <1>2, <1>3, <3>1
  <2> QED BY <2>2, <2>3
<1> QED BY <1>7, <1>8, <1>9, <1>10, <1>11 DEF TakesTurns

-----------------------------------------------------------------------------
(* UnlockIsAlone.                                                          *)

\* The older reclaims of a request would stand before an unlock-all's in the queue of calls.
LEMMA UnlockEffect ==
    ASSUME TypeOK, OffersPending, UnlockIsAlone, TakesEffect
    PROVE  UnlockIsAlone'
<1>1. PICK a : EffectOf(a)
  BY EffectPositions
<1>2. SUFFICES ASSUME NEW p \in 1..Len(calls'), op[calls'[p].by].kind = "unlock"
      PROVE  /\ calls'[p].kind = "reclaim"
             /\ calls'[p].request \notin overlapped => UnlockedAt(p)'
  BY <1>1 DEF EffectOf, UnlockIsAlone
<1>3. p + 1 \in 1..Len(calls) /\ calls'[p] = calls[p + 1] /\ 1 < p + 1 /\ 1 \in 1..Len(calls)
  BY <1>1 DEF EffectOf
<1>4. calls[p + 1].kind = "reclaim" /\ (calls[p + 1].request \notin overlapped => UnlockedAt(p + 1))
  BY <1>2, <1>3 DEF UnlockIsAlone
<1>5. SUFFICES ASSUME UnlockedAt(p + 1) PROVE UnlockedAt(p)'
  BY <1>3, <1>4
<1>6. PICK r \in Requests : r = calls[p + 1].request
  <2>1. calls[p + 1] \in Calls
    BY <1>3, ElementOfSeq DEF TypeOK
  <2> QED BY <1>4, <2>1 DEF Calls
<1>7. /\ ~LiveHandle(r) /\ state[r] \in {"inProgress", "handled"}
      /\ \A k \in 1..Len(answers) : ~FetchedAt(k, r)
      /\ \A q \in 1..Len(calls) : q < p + 1 => ~(calls[q].kind = "reclaim" /\ calls[q].request = r)
  BY <1>5, <1>6 DEF UnlockedAt
<1>8. ~(a.kind = "reclaim" /\ a.request = r)
  BY <1>1, <1>3, <1>7 DEF EffectOf
<1>9. EffectFetches(a) => state[a.found] = "pending"
  <2> SUFFICES ASSUME EffectFetches(a) PROVE state[a.found] = "pending"
    OBVIOUS
  <2>1. Head(order) = order[1] /\ 1 \in 1..Len(order)
    BY TailPositions DEF EffectFetches, TypeOK
  <2> QED BY <2>1 DEF EffectFetches, OffersPending
<1>10. state'[r] \in {"inProgress", "handled"} /\ ~(a.kind = "fetch" /\ a.found = r)
  BY <1>1, <1>6, <1>7, <1>8, <1>9, QueueAssumption
     DEF QueueAssumption, EffectOf, EffectFetches, EffectOffers, EffectMarks, EffectNothing, queue,
         TypeOK
<1>11. \A k \in 1..Len(answers') : ~(answers'[k].kind = "fetch" /\ answers'[k].found = r)
  BY <1>1, <1>7, <1>10 DEF EffectOf, FetchedAt
<1>12. \A q \in 1..Len(calls') : q < p => ~(calls'[q].kind = "reclaim" /\ calls'[q].request = r)
  <2> TAKE q \in 1..Len(calls')
  <2>1. q + 1 \in 1..Len(calls) /\ calls'[q] = calls[q + 1] /\ (q < p => q + 1 < p + 1)
    BY <1>1 DEF EffectOf
  <2> QED BY <1>7, <2>1
<1>13. ~LiveHandle(r)'
  BY <1>1, <1>7 DEF EffectOf, LiveHandle
<1> QED BY <1>3, <1>6, <1>10, <1>11, <1>12, <1>13 DEF UnlockedAt, FetchedAt

\* A caller's step adds calls behind, and lets nobody hold what an unlock-all is about to return.
LEMMA UnlockKept ==
    ASSUME TypeOK, OneCallEach, UnlockIsAlone, HeldByTurns, NEW c \in Callers, CallerStep(c),
           NEW p \in 1..Len(calls), op[calls[p].by].kind = "unlock",
           calls[p].request \notin overlapped'
    PROVE  UnlockedAt(p)'
<1>1. /\ \A q \in 1..Len(calls) : q \in 1..Len(calls') /\ calls'[q] = calls[q]
      /\ \A q \in 1..Len(calls') : q \in 1..Len(calls) \/ q > Len(calls) \/ ~(q < p)
      /\ CallerMoves(c) \/ UNCHANGED <<op, calls>>
  <2>1. Len(calls) \in Nat /\ \A q \in 1..Len(calls') : q \in 1..Len(calls) \/ ~(q < p)
    BY LenProperties DEF TypeOK
  <2> QED BY <2>1, CallsKept
<1>2. overlapped \subseteq overlapped' /\ state' = state
  BY CallerAnswers DEF CallerStep, addRequest, releaseLock, markHandledOrReclaim, peekOrLockHead,
     unlockAll, Added, Fetched, Drained, Got, Released, Unlocked, queue
<1>3. calls[p].kind = "reclaim" /\ UnlockedAt(p)
  BY <1>2 DEF UnlockIsAlone
<1>4. PICK r \in Requests : r = calls[p].request
  <2>1. calls[p] \in Calls
    BY ElementOfSeq DEF TypeOK
  <2> QED BY <1>3, <2>1 DEF Calls
<1>5. /\ ~LiveHandle(r) /\ state[r] \in {"inProgress", "handled"}
      /\ \A k \in 1..Len(answers) : ~FetchedAt(k, r)
      /\ \A q \in 1..Len(calls) : q < p => ~(calls[q].kind = "reclaim" /\ calls[q].request = r)
  BY <1>3, <1>4 DEF UnlockedAt
<1>6. PICK d \in {0, 1} :
        \A i \in 1..Len(answers') : i + d \in 1..Len(answers) /\ answers'[i] = answers[i + d]
  BY AnswersKept
<1>7. \A k \in 1..Len(answers') : ~(answers'[k].kind = "fetch" /\ answers'[k].found = r)
  BY <1>5, <1>6 DEF FetchedAt
<1>8. ~LiveHandle(r)'
  <2>1. Once(staged, handedOut, r)
    BY <1>2, <1>4 DEF HeldByTurns, TakesTurns
  <2>2. answers # <<>> => 1 \in 1..Len(answers)
    BY EmptySeq, LenProperties DEF TypeOK
  <2> QED BY <1>5, <2>1, <2>2, BufferSteps
<1>9. \A q \in 1..Len(calls') : q < p => ~(calls'[q].kind = "reclaim" /\ calls'[q].request = r)
  <2>1. Len(calls) \in Nat
    BY LenProperties DEF TypeOK
  <2>2. \A q \in 1..Len(calls') : q < p => q \in 1..Len(calls)
    BY <2>1
  <2> QED BY <1>1, <1>5, <2>2
<1> QED BY <1>1, <1>2, <1>4, <1>5, <1>7, <1>8, <1>9 DEF UnlockedAt, FetchedAt

\* A new unlock-all: what it takes was held, and no reclaim of it is unanswered.
LEMMA UnlockNew ==
    ASSUME TypeOK, OneCallEach, MarkedForGood, HeldByTurns, NEW c \in Callers, unlockAll(c),
           NEW p \in 1..Len(calls'), p > Len(calls), calls'[p].request \notin overlapped'
    PROVE  UnlockedAt(p)'
<1>1. /\ calls'[p].request \in handedOut
      /\ \A j \in 1..Len(calls') : j > Len(calls) /\ calls'[j].request = calls'[p].request => j = p
      /\ Len(calls) \in Nat /\ \A i \in 1..Len(calls) : calls'[i] = calls[i]
  BY UnlockMoves DEF CallerMoves
<1>2. /\ overlapped' = overlapped \cup {r \in handedOut : BeingReclaimed(r)} /\ handedOut' = {}
      /\ UNCHANGED <<staged, state, answers>>
  BY DEF unlockAll, queue
<1>3. PICK r \in Requests : r = calls'[p].request /\ r \in handedOut /\ ~BeingReclaimed(r)
  BY <1>1, <1>2 DEF TypeOK
<1>4. TakesTurns(r) /\ LiveHandle(r)
  BY <1>2, <1>3 DEF HeldByTurns, LiveHandle
<1>5. ~LiveHandle(r)'
  BY <1>2, <1>3, <1>4 DEF LiveHandle, TakesTurns, Once
<1>6. ASSUME NEW j \in 1..Len(answers), GivenBackAt(j, r)
      PROVE  state[r] = "handled" /\ \A k \in 1..Len(answers) : j < k => ~FetchedAt(k, r)
  <2>1. answers[j] \in ToSet(answers)
    BY MemberFacts DEF TypeOK
  <2>2. answers[j].kind = "mark" /\ answers[j].request = r /\ answers[j].found = r
    BY <1>3, <1>6, <2>1 DEF GivenBackAt, BeingReclaimed
  <2> QED BY <2>2, QueueAssumption DEF QueueAssumption, MarkedForGood
<1>7. state[r] \in {"inProgress", "handled"}
  BY <1>4, <1>6 DEF TakesTurns
<1>8. \A k \in 1..Len(answers) : ~FetchedAt(k, r)
  BY <1>4, <1>6 DEF TakesTurns
<1>9. \A q \in 1..Len(calls') : q < p => ~(calls'[q].kind = "reclaim" /\ calls'[q].request = r)
  <2> SUFFICES ASSUME NEW q \in 1..Len(calls'), q < p, calls'[q].kind = "reclaim",
                      calls'[q].request = r
               PROVE  FALSE
    OBVIOUS
  <2>1. CASE q > Len(calls)
    BY <1>1, <1>3, <2>1
  <2>2. CASE ~(q > Len(calls))
    <3>1. q \in 1..Len(calls) /\ calls[q] = calls'[q]
      BY <1>1, <2>2
    <3>2. calls[q] \in ToSet(calls)
      BY <3>1, MemberFacts DEF TypeOK
    <3> QED BY <1>3, <3>1, <3>2 DEF BeingReclaimed
  <2> QED BY <2>1, <2>2
<1> QED BY <1>2, <1>3, <1>5, <1>7, <1>8, <1>9 DEF UnlockedAt, FetchedAt

LEMMA UnlockCaller ==
    ASSUME TypeOK, OneCallEach, UnlockIsAlone, MarkedForGood, HeldByTurns,
           NEW c \in Callers, CallerStep(c)
    PROVE  UnlockIsAlone'
<1> SUFFICES ASSUME NEW p \in 1..Len(calls'), op'[calls'[p].by].kind = "unlock"
             PROVE  /\ calls'[p].kind = "reclaim"
                    /\ calls'[p].request \notin overlapped' => UnlockedAt(p)'
  BY DEF UnlockIsAlone
<1>1. CASE p \in 1..Len(calls)
  <2>1. calls'[p] = calls[p] /\ op[calls[p].by].kind = "unlock"
    BY <1>1, CallsKept
  <2> QED BY <1>1, <2>1, UnlockKept DEF UnlockIsAlone
<1>2. CASE unlockAll(c) /\ p > Len(calls)
  BY <1>2, UnlockNew, UnlockMoves
<1> QED BY <1>1, <1>2, CallsKept

-----------------------------------------------------------------------------

\* Every step but a restart, and a restart, keep the invariant.
LEMMA HeldStep == TypeOK /\ HeldInv /\ [Next]_vars => HeldInv'
<1> SUFFICES ASSUME TypeOK, OneCallEach, OffersPending, MarkedForGood, UnlockIsAlone, HeldByTurns,
                    [Next]_vars
             PROVE  HeldInv'
  BY DEF HeldInv
<1>1. CASE TakesEffect
  <2>1. overlapped' = overlapped
    BY <1>1 DEF TakesEffect
  <2>2. HeldByTurns'
    BY <1>1, <2>1, TurnsEffect DEF HeldByTurns
  <2> QED BY <1>1, <2>2, OneCallEffect, OffersEffect, MarkedEffect, UnlockEffect DEF HeldInv
<1>2. ASSUME NEW c \in Callers, CallerStep(c) PROVE HeldInv'
  <2>1. /\ UNCHANGED queue
        /\ answers' = answers \/ (answers # <<>> /\ answers' = Tail(answers))
        /\ overlapped \subseteq overlapped'
    BY <1>2, CallerAnswers
       DEF CallerStep, addRequest, releaseLock, markHandledOrReclaim, peekOrLockHead, unlockAll,
           Added, Fetched, Drained, Got, Released, Unlocked
  <2>2. OneCallEach'
    BY <1>2, <2>1, CallsKept, OneCallMoved
  <2>3. HeldByTurns'
    BY <1>2, <2>1, TurnsKept DEF HeldByTurns
  <2>4. OffersPending'
    BY <2>1 DEF OffersPending, queue
  <2> QED BY <1>2, <2>2, <2>3, <2>4, MarkedKept, UnlockCaller DEF HeldInv
<1>3. CASE Restart
  <2>1. /\ staged' = <<>> /\ handedOut' = {} /\ calls' = <<>> /\ answers' = <<>>
        /\ Len(<<>>) = 0
    BY <1>3, EmptySeq DEF Restart
  <2>2. \A x : Once(staged', handedOut', x) /\ ~LiveHandle(x)'
    BY <2>1 DEF Once, LiveHandle, Contains
  <2>3. OneCallEach' /\ MarkedForGood' /\ UnlockIsAlone' /\ HeldByTurns'
    BY <2>1, <2>2 DEF OneCallEach, MarkedForGood, UnlockIsAlone, HeldByTurns, TakesTurns
  <2> QED BY <1>3, <2>3, OffersRestart DEF HeldInv
<1>4. CASE UNCHANGED vars
  BY <1>4 DEF vars, queue, buffer, HeldInv, OneCallEach, OffersPending, MarkedForGood,
     UnlockIsAlone, UnlockedAt, HeldByTurns, TakesTurns, LiveHandle, FetchedAt, GivenBackAt
<1> QED BY <1>1, <1>2, <1>3, <1>4 DEF Next, CallerStep

LEMMA HeldInit == Init => HeldInv
<1> SUFFICES ASSUME Init PROVE HeldInv
  OBVIOUS
<1>1. /\ staged = <<>> /\ handedOut = {} /\ calls = <<>> /\ answers = <<>> /\ order = <<>>
      /\ Len(<<>>) = 0
  BY EmptySeq DEF Init
<1>2. \A x : Once(staged, handedOut, x) /\ ~LiveHandle(x)
  BY <1>1 DEF Once, LiveHandle, Contains
<1> QED BY <1>1, <1>2 DEF HeldInv, OneCallEach, OffersPending, MarkedForGood, UnlockIsAlone,
     HeldByTurns, TakesTurns

\* The buffer's promise: what it holds the queue offers to nobody else, and it offers each request
\* once, whatever number of peeks, hand-outs, drains, marks, reclaims and releases interleave; only
\* requests that an unlock-all takes while a reclaim of them is unanswered are excepted.
THEOREM BufferHoldsSafely == Spec => []HeldSafely
  BY TypeInit, TypeStep, HeldInit, HeldStep, HeldInvFacts, PTL DEF Spec, HeldInv

-----------------------------------------------------------------------------
(* The cap. An HTTP request that starts a fetch found room, and each of    *)
(* the others may have one on its way; one that adds an entry and starts   *)
(* none has given up the fetch the entry came from.                        *)

\* What the buffer holds.
Held == Len(staged) + Cardinality(handedOut)

\* Among the calls, or the answers, s is a fetch of caller c.
FetchIn(c, s) == \E p \in 1..Len(s) : s[p].by = c /\ s[p].kind = "fetch"

\* The calls that a step makes are no fetches.
NoNewFetch == \A p \in 1..Len(calls') : p > Len(calls) => calls'[p].kind # "fetch"

\* The same of the members.
LEMMA FetchPositions ==
    ASSUME NEW s \in Seq(Calls), NEW t \in Seq(Calls), NEW c
    PROVE  (\E call \in ToSet(s) \cup ToSet(t) : call.by = c /\ call.kind = "fetch")
                <=> FetchIn(c, s) \/ FetchIn(c, t)
<1>1. \A x : x \in ToSet(s) <=> \E i \in 1..Len(s) : s[i] = x
  BY MemberFacts
<1>2. \A x : x \in ToSet(t) <=> \E i \in 1..Len(t) : t[i] = x
  BY MemberFacts
<1> QED BY <1>1, <1>2 DEF FetchIn

\* The sizes are numbers.
LEMMA SizeFacts ==
    ASSUME TypeOK
    PROVE  /\ Len(staged) \in Nat
           /\ IsFiniteSet(handedOut) /\ Cardinality(handedOut) \in Nat /\ Held \in Nat
           /\ IsFiniteSet(Fetching) /\ Cardinality(Fetching) \in Nat
           /\ Cardinality(Callers) \in Nat /\ Cardinality(Fetching) <= Cardinality(Callers)
<1>1. handedOut \in SUBSET Requests /\ Fetching \in SUBSET Callers
  BY DEF TypeOK, Fetching
<1>2. IsFiniteSet(Requests) /\ IsFiniteSet(Callers)
  BY QueueAssumption DEF QueueAssumption
<1>3. IsFiniteSet(handedOut) /\ Cardinality(handedOut) \in Nat
  BY <1>1, <1>2, FS_Subset, FS_CardinalityType
<1>4. /\ IsFiniteSet(Fetching) /\ Cardinality(Fetching) \in Nat
      /\ Cardinality(Fetching) <= Cardinality(Callers)
  BY <1>1, <1>2, FS_Subset, FS_CardinalityType
<1>5. Cardinality(Callers) \in Nat
  BY <1>2, FS_CardinalityType
<1>6. Len(staged) \in Nat
  BY LenProperties DEF TypeOK
<1> QED BY <1>3, <1>4, <1>5, <1>6 DEF Held

\* A sequence has no more members than positions.
LEMMA MembersCounted ==
    ASSUME NEW l \in Seq(Requests)
    PROVE  IsFiniteSet(ToSet(l)) /\ Cardinality(ToSet(l)) \in Nat /\ Cardinality(ToSet(l)) <= Len(l)
<1>1. Len(l) \in Nat /\ DOMAIN l = 1..Len(l)
  BY LenProperties
<1>2. ToSet(l) \in SUBSET Requests
  BY MemberFacts
<1>3. IsFiniteSet(ToSet(l)) /\ Cardinality(ToSet(l)) \in Nat
  BY <1>2, QueueAssumption, FS_Subset, FS_CardinalityType DEF QueueAssumption
<1>4. l \in [1..Len(l) -> ToSet(l)] /\ \A x \in ToSet(l) : \E i \in 1..Len(l) : l[i] = x
  <2>1. \A x : x \in ToSet(l) <=> \E i \in 1..Len(l) : l[i] = x
    BY MemberFacts
  <2>2. l \in [1..Len(l) -> Requests]
    BY LenProperties
  <2> QED BY <2>1, <2>2
<1>5. l \in Surjection(1..Len(l), ToSet(l))
  BY <1>4 DEF Surjection
<1>6. IsFiniteSet(1..Len(l)) /\ Cardinality(1..Len(l)) = Len(l)
  BY <1>1, FS_Interval
<1>7. Cardinality(ToSet(l)) <= Cardinality(1..Len(l))
  BY <1>5, <1>6, FS_Surjection
<1> QED BY <1>3, <1>6, <1>7

\* The hand-out moves entries, and makes none.
LEMMA HandOutSize ==
    ASSUME TypeOK, NEW s \in Seq(Requests), NEW k \in 0..Len(s), HandOut(k, s)
    PROVE  Len(staged') + Cardinality(handedOut') <= Len(s) + Cardinality(handedOut)
<1> DEFINE l == SubSeq(s, 1, k)
           t == SubSeq(s, k + 1, Len(s))
<1>1. /\ Len(s) \in Nat /\ l \in Seq(Requests) /\ Len(l) = k /\ Len(t) = Len(s) - k
  BY SplicePositions
<1>2. staged' = t /\ handedOut' = handedOut \cup ToSet(l)
  BY DEF HandOut
<1> HIDE DEF l, t
<1>3. IsFiniteSet(ToSet(l)) /\ Cardinality(ToSet(l)) \in Nat /\ Cardinality(ToSet(l)) <= k
  BY <1>1, MembersCounted
<1>4. IsFiniteSet(handedOut) /\ Cardinality(handedOut) \in Nat
  BY SizeFacts
<1>5. Cardinality(handedOut \cup ToSet(l)) =
        Cardinality(handedOut) + Cardinality(ToSet(l)) - Cardinality(handedOut \cap ToSet(l))
  BY <1>3, <1>4, FS_Union
<1>6. Cardinality(handedOut \cap ToSet(l)) \in Nat
  BY <1>4, FS_Subset, FS_CardinalityType
<1> DEFINE a == Cardinality(handedOut)
           b == Cardinality(ToSet(l))
           d == Cardinality(handedOut \cap ToSet(l))
           e == Cardinality(handedOut \cup ToSet(l))
<1>7. a \in Nat /\ b \in Nat /\ d \in Nat /\ b <= k /\ e = a + b - d
  BY <1>3, <1>4, <1>5, <1>6
<1> HIDE DEF a, b, d, e
<1>8. Len(t) + e <= Len(s) + a
  BY <1>1, <1>7
<1> QED BY <1>2, <1>8 DEF a, e

\* A call of another kind, and the end of an operation, start no fetch.
LEMMA QuietCalls ==
    ASSUME TypeOK, NEW c \in Callers,
           \/ \E o, kind : kind # "fetch" /\ Await(c, o, kind)
           \/ Finish(c)
           \/ UNCHANGED calls
    PROVE  NoNewFetch
<1>1. CASE Finish(c) \/ UNCHANGED calls
  BY <1>1, LenProperties DEF Finish, NoNewFetch, TypeOK
<1>2. ASSUME NEW o, NEW kind, kind # "fetch", Await(c, o, kind) PROVE NoNewFetch
  <2> DEFINE m == Call(c, kind, o.request, o.forefront)
  <2>1. Len(calls) \in Nat /\ Len(calls') = Len(calls) + 1 /\ calls'[Len(calls) + 1] = m
    BY <1>2 DEF Await, TypeOK
  <2>2. m.kind = kind
    BY DEF Call
  <2> QED BY <1>2, <2>1, <2>2 DEF NoNewFetch
<1> QED BY <1>1, <1>2

\* topUp finds room and fetches, or ends with what there is.
LEMMA TopUpSize ==
    ASSUME TypeOK, NEW c \in Callers, NEW o \in Peeks, NEW s \in Seq(Requests),
           TopUp(c, o, s) \/ (Finish(c) /\ HeadDone(o, s))
    PROVE  \/ Held' < BufferCap
           \/ NoNewFetch /\ Held' <= Len(s) + Cardinality(handedOut)
<1>1. o.kind \in {"head", "lock"} /\ o.limit \in Nat
  <2>1. o \in Operations /\ o.kind \in {"head", "lock"}
    BY DEF Peeks
  <2>2. o.limit \in Limits \cup {0}
    BY <2>1 DEF Operations
  <2>3. Limits \cup {0} \subseteq Nat
    BY QueueAssumption DEF QueueAssumption
  <2> QED BY <2>1, <2>2, <2>3
<1>2. CASE HasRoom(s) /\ staged' = s /\ UNCHANGED handedOut
  BY <1>2 DEF Held, HasRoom
<1>3. CASE Finish(c) /\ o.kind = "lock" /\ HandOut(Min({o.limit, Len(s)}), s)
  <2> DEFINE k == Min({o.limit, Len(s)})
  <2>1. k \in 0..Len(s)
    BY <1>1, MinFacts, LenProperties
  <2>2. HandOut(k, s)
    BY <1>3
  <2> HIDE DEF k
  <2> QED BY <1>3, <2>1, <2>2, HandOutSize, QuietCalls DEF Held
<1>4. CASE Finish(c) /\ staged' = s /\ UNCHANGED handedOut
  <2>1. Len(s) \in Nat /\ Cardinality(handedOut) \in Nat
    BY SizeFacts, LenProperties
  <2> QED BY <1>4, <2>1, QuietCalls DEF Held
<1> QED BY <1>1, <1>2, <1>3, <1>4 DEF TopUp, HeadDone

\* drainUntilFound finds room and fetches, or makes a call of another kind, or ends.
LEMMA DrainSize ==
    ASSUME TypeOK, NEW c \in Callers, NEW o, NEW s, NEW known,
           Drain(c, o, s, known) \/ LastResort(c, o, known)
    PROVE  HasRoom(s) \/ NoNewFetch
<1>1. HasRoom(s) \/ LastResort(c, o, known)
  BY DEF Drain
<1>2. LastResort(c, o, known) => NoNewFetch
  BY QuietCalls DEF LastResort
<1> QED BY <1>1, <1>2

\* The entries of a request that is dropped make room.
LEMMA ReleaseSize ==
    ASSUME TypeOK, NEW r, releaseFromBuffers(r)
    PROVE  Held' <= Held
<1>1. /\ Len(staged) \in Nat /\ Cardinality(handedOut) \in Nat /\ IsFiniteSet(handedOut)
  BY SizeFacts
<1>2. handedOut' = handedOut \ {r}
  BY DEF releaseFromBuffers
<1>3. Cardinality(handedOut') \in Nat /\ Cardinality(handedOut') <= Cardinality(handedOut)
  BY <1>1, <1>2, FS_Subset, FS_CardinalityType
<1>4. Len(staged') \in Nat /\ Len(staged') <= Len(staged)
  <2>1. CASE UNCHANGED staged
    BY <1>1, <2>1
  <2>2. ASSUME NEW i \in 1..Len(staged), staged' = RemoveAt(staged, i)
        PROVE  Len(staged') \in Nat /\ Len(staged') <= Len(staged)
    <3>1. Len(RemoveAt(staged, i)) = Len(staged) - 1
      BY RemovePositions DEF TypeOK
    <3> QED BY <1>1, <2>2, <3>1
  <2> QED BY <2>1, <2>2 DEF releaseFromBuffers
<1> QED BY <1>1, <1>3, <1>4 DEF Held

\* A step of a caller finds room; or it starts no fetch, and adds nothing unless it has its own
\* fetch answered.
LEMMA SizeSteps ==
    ASSUME TypeOK, OneCallEach, NEW c \in Callers, CallerStep(c)
    PROVE  \/ Held' < BufferCap
           \/ NoNewFetch /\ Held' <= Held
           \/ /\ NoNewFetch /\ Held' <= Held + 1
              /\ \E kinds : Answers(c, kinds, "fetch") /\ "unlock" \notin kinds
<1>1. Len(staged) \in Nat /\ Cardinality(handedOut) \in Nat /\ Held \in Nat
  BY SizeFacts
<1>2. ASSUME NoNewFetch, UNCHANGED <<staged, handedOut>> PROVE NoNewFetch /\ Held' <= Held
  BY <1>1, <1>2 DEF Held
<1>3. ASSUME NEW r \in Requests, NEW f \in Forefronts, addRequest(c, r, f) \/ releaseLock(c, r, f)
      PROVE  NoNewFetch /\ Held' <= Held
  <2>1. (\E o, kind : kind # "fetch" /\ Await(c, o, kind)) /\ UNCHANGED <<staged, handedOut>>
    BY <1>3 DEF addRequest, releaseLock, buffer
  <2> QED BY <1>2, <2>1, QuietCalls
<1>4. ASSUME NEW r \in Requests, NEW f \in Forefronts, NEW kind \in {"mark", "reclaim"},
             markHandledOrReclaim(c, kind, r, f)
      PROVE  Held' < BufferCap \/ (NoNewFetch /\ Held' <= Held)
  <2> DEFINE o == Arrives(kind, r, 0, f)
  <2>1. (Await(c, o, kind) \/ Drain(c, o, staged, seen)) /\ UNCHANGED <<staged, handedOut>>
    BY <1>4 DEF markHandledOrReclaim, buffer
  <2> HIDE DEF o
  <2>2. CASE Await(c, o, kind)
    BY <1>2, <2>1, <2>2, QuietCalls
  <2>3. CASE Drain(c, o, staged, seen)
    <3>1. HasRoom(staged) \/ NoNewFetch
      BY <2>3, DrainSize
    <3>2. HasRoom(staged) => Held' < BufferCap
      BY <2>1 DEF HasRoom, Held
    <3> QED BY <1>2, <2>1, <3>1, <3>2
  <2> QED BY <2>1, <2>2, <2>3
<1>5. ASSUME NEW kind \in {"head", "lock"}, NEW limit \in Limits, peekOrLockHead(c, kind, limit)
      PROVE  Held' < BufferCap \/ (NoNewFetch /\ Held' <= Held)
  <2> DEFINE o == Arrives(kind, NoRequest, limit, FALSE)
  <2>1. o \in Peeks
    BY QueueAssumption DEF Arrives, Peeks, Operations
  <2>2. TopUp(c, o, staged) /\ staged \in Seq(Requests)
    BY <1>5 DEF peekOrLockHead, TypeOK
  <2> HIDE DEF o
  <2> QED BY <2>1, <2>2, TopUpSize DEF Held
<1>6. CASE unlockAll(c)
  <2>1. UNCHANGED staged /\ handedOut' = {} /\ Cardinality({}) = 0
    BY <1>6, FS_EmptySet DEF unlockAll
  <2>2. Held' <= Held
    BY <1>1, <2>1 DEF Held
  <2>3. NoNewFetch
    <3>1. \A i \in 1..Len(calls') : i > Len(calls) => calls'[i].kind = "reclaim"
      BY <1>6, UnlockMoves
    <3> QED BY <3>1 DEF NoNewFetch
  <2> QED BY <2>2, <2>3
<1>7. CASE Added(c) \/ Got(c) \/ Unlocked(c)
  <2>1. UNCHANGED <<staged, handedOut>>
    BY <1>7 DEF Added, Got, Unlocked, buffer
  <2>2. (\E o, kind : kind # "fetch" /\ Await(c, o, kind)) \/ Finish(c) \/ UNCHANGED calls
    <3>1. CASE Got(c)
      <4>1. op[c].kind \in {"mark", "reclaim"} /\ Await(c, op[c], op[c].kind)
        BY <3>1 DEF Got, Answers
      <4>2. op[c].kind # "fetch"
        BY <4>1
      <4> QED BY <4>1, <4>2
    <3> QED BY <1>7, <3>1 DEF Added, Unlocked
  <2> QED BY <1>2, <2>1, <2>2, QuietCalls
<1>8. CASE Released(c)
  BY <1>8, ReleaseSize, QuietCalls DEF Released
<1>9. CASE Fetched(c)
  <2> DEFINE a == Head(answers)
  <2>1. /\ Answers(c, {"head", "lock"}, "fetch") /\ op[c] \in Peeks /\ a.found \in Found
        /\ staged \in Seq(Requests)
    BY <1>9, AnswerFacts DEF Fetched, Peeks, TypeOK
  <2>2. CASE a.found # NoRequest /\ TopUp(c, op[c], Append(staged, a.found))
    <3> DEFINE s == Append(staged, a.found)
    <3>1. s \in Seq(Requests) /\ Len(s) = Len(staged) + 1
      BY <2>1, <2>2, AppendPositions DEF Found
    <3>2. TopUp(c, op[c], s)
      BY <2>2
    <3> HIDE DEF s
    <3>3. Held' < BufferCap \/ (NoNewFetch /\ Held' <= Len(s) + Cardinality(handedOut))
      BY <2>1, <3>1, <3>2, TopUpSize
    <3>4. Len(s) + Cardinality(handedOut) = Held + 1
      BY <1>1, <3>1 DEF Held
    <3>5. "unlock" \notin {"head", "lock"}
      OBVIOUS
    <3> QED BY <2>1, <3>3, <3>4, <3>5
  <2>3. CASE Finish(c) /\ HeadDone(op[c], staged)
    BY <2>1, <2>3, TopUpSize DEF Held
  <2> QED BY <1>9, <2>2, <2>3 DEF Fetched
<1>10. CASE Drained(c)
  <2> DEFINE a == Head(answers)
  <2>1. /\ Answers(c, {"mark", "reclaim"}, "fetch") /\ op[c].kind \in {"mark", "reclaim"}
        /\ a.found \in Found /\ staged \in Seq(Requests) /\ handedOut' = handedOut
    BY <1>10, AnswerFacts DEF Drained, TypeOK
  <2>2. CASE /\ a.found # NoRequest /\ staged' = Append(staged, a.found)
             /\ Await(c, op[c], op[c].kind) \/ Drain(c, op[c], staged', seen')
    <3>1. Len(staged') = Len(staged) + 1
      BY <2>1, <2>2, AppendPositions DEF Found
    <3>2. Held' = Held + 1
      BY <1>1, <2>1, <3>1 DEF Held
    <3>3. HasRoom(staged') \/ NoNewFetch
      <4>1. op[c].kind # "fetch"
        BY <2>1
      <4> QED BY <2>2, <4>1, DrainSize, QuietCalls
    <3>4. HasRoom(staged') => Held' < BufferCap
      BY <2>1 DEF HasRoom, Held
    <3>5. "unlock" \notin {"mark", "reclaim"} /\ Held + 1 <= Held + 1
      BY <1>1
    <3> QED BY <2>1, <3>2, <3>3, <3>4, <3>5
  <2>3. CASE LastResort(c, op[c], seen) /\ staged' = staged
    BY <1>2, <2>1, <2>3, QuietCalls DEF LastResort
  <2> QED BY <1>10, <2>2, <2>3 DEF Drained
<1> QED BY <1>3, <1>4, <1>5, <1>6, <1>7, <1>8, <1>9, <1>10 DEF CallerStep

\* A step of a caller that starts no fetch leaves the others theirs, and itself none once its own
\* is answered.
LEMMA FetchingKept ==
    ASSUME TypeOK, TypeOK', OneCallEach, NEW c \in Callers, CallerStep(c), NoNewFetch
    PROVE  /\ Fetching' \subseteq Fetching
           /\ \A kinds : Answers(c, kinds, "fetch") /\ "unlock" \notin kinds
                => c \in Fetching /\ c \notin Fetching'
<1>1. /\ Fetching = {e \in Callers : FetchIn(e, calls) \/ FetchIn(e, answers)}
      /\ Fetching' = {e \in Callers : FetchIn(e, calls') \/ FetchIn(e, answers')}
  <2>1. calls \in Seq(Calls) /\ answers \in Seq(Calls) /\ calls' \in Seq(Calls) /\ answers' \in Seq(Calls)
    BY DEF TypeOK
  <2> QED BY <2>1, FetchPositions DEF Fetching
<1>2. Len(calls) \in Nat /\ \A p \in 1..Len(calls) : calls'[p] = calls[p]
  BY CallsKept, LenProperties DEF TypeOK
<1>3. Len(calls') \in Nat
  BY LenProperties DEF TypeOK
<1>4. PICK d \in {0, 1} : \A i \in 1..Len(answers') :
        i + d \in 1..Len(answers) /\ answers'[i] = answers[i + d]
  BY AnswersKept
<1>5. \A e : FetchIn(e, calls') => FetchIn(e, calls)
  <2> SUFFICES ASSUME NEW e, NEW p \in 1..Len(calls'), calls'[p].by = e, calls'[p].kind = "fetch"
               PROVE  FetchIn(e, calls)
    BY DEF FetchIn
  <2>1. p \in 1..Len(calls)
    BY <1>2, <1>3 DEF NoNewFetch
  <2> QED BY <1>2, <2>1 DEF FetchIn
<1>6. \A e : FetchIn(e, answers') => FetchIn(e, answers)
  BY <1>4 DEF FetchIn
<1>7. ASSUME NEW kinds, Answers(c, kinds, "fetch"), "unlock" \notin kinds
      PROVE  c \in Fetching /\ c \notin Fetching'
  <2>1. /\ answers # <<>> /\ answers' = Tail(answers) /\ Head(answers).by = c
        /\ Head(answers).kind = "fetch" /\ op[c].kind # "unlock"
    BY <1>7 DEF Answers
  <2>2. NoneBy(c, calls) /\ NoneBy(c, answers')
    BY <2>1, QuietCaller
  <2>3. ~FetchIn(c, calls) /\ ~FetchIn(c, answers')
    BY <2>2 DEF NoneBy, FetchIn
  <2>4. Len(answers) \in Nat \ {0} /\ Head(answers) = answers[1]
    BY <2>1, TailPositions DEF TypeOK
  <2>5. 1 \in 1..Len(answers)
    BY <2>4
  <2>6. FetchIn(c, answers)
    BY <2>1, <2>4, <2>5 DEF FetchIn
  <2> QED BY <1>1, <1>5, <2>3, <2>6
<1> QED BY <1>1, <1>5, <1>6, <1>7

\* The effect of a call leaves its caller waiting as it was.
LEMMA FetchingEffect ==
    ASSUME TypeOK, TypeOK', TakesEffect
    PROVE  Fetching' \subseteq Fetching
<1>1. PICK a : EffectOf(a)
  BY EffectPositions
<1>2. /\ Fetching = {e \in Callers : FetchIn(e, calls) \/ FetchIn(e, answers)}
      /\ Fetching' = {e \in Callers : FetchIn(e, calls') \/ FetchIn(e, answers')}
  <2>1. calls \in Seq(Calls) /\ answers \in Seq(Calls) /\ calls' \in Seq(Calls) /\ answers' \in Seq(Calls)
    BY DEF TypeOK
  <2> QED BY <2>1, FetchPositions DEF Fetching
<1>3. \A e : FetchIn(e, calls') => FetchIn(e, calls)
  BY <1>1 DEF EffectOf, FetchIn
<1>4. 1 \in 1..Len(calls)
  BY <1>1 DEF EffectOf
<1>5. \A e : FetchIn(e, answers') => FetchIn(e, answers) \/ FetchIn(e, calls)
  <2> SUFFICES ASSUME NEW e, NEW p \in 1..Len(answers'),
                      answers'[p].by = e, answers'[p].kind = "fetch"
               PROVE  FetchIn(e, answers) \/ FetchIn(e, calls)
    BY DEF FetchIn
  <2>1. CASE p \in 1..Len(answers)
    BY <1>1, <2>1 DEF EffectOf, FetchIn
  <2>2. CASE p = Len(answers) + 1
    BY <1>1, <1>4, <2>2 DEF EffectOf, FetchIn
  <2> QED BY <1>1, <2>1, <2>2 DEF EffectOf
<1> QED BY <1>2, <1>3, <1>5

\* Every step keeps the bound.
LEMMA BoundStep ==
    ASSUME TypeOK, TypeOK', OneCallEach, BufferBounded, [Next]_vars
    PROVE  BufferBounded'
<1> DEFINE n == Cardinality(Callers)
           f == Cardinality(Fetching)
           g == Cardinality(Fetching')
           h == Held
           k == Held'
<1>1. /\ h \in Nat /\ f \in Nat /\ n \in Nat /\ f <= n /\ IsFiniteSet(Fetching)
      /\ k \in Nat /\ g \in Nat /\ g <= n
  <2>1. Held \in Nat /\ IsFiniteSet(Fetching) /\ f \in Nat /\ n \in Nat /\ f <= n
    BY SizeFacts
  <2>2. IsFiniteSet(handedOut') /\ Cardinality(handedOut') \in Nat
    <3>1. handedOut' \in SUBSET Requests
      BY DEF TypeOK
    <3> QED BY <3>1, QueueAssumption, FS_Subset, FS_CardinalityType DEF QueueAssumption
  <2>3. Held' \in Nat
    BY <2>2, LenProperties DEF TypeOK, Held
  <2>4. Fetching' \in SUBSET Callers
    BY DEF Fetching
  <2>5. g \in Nat /\ g <= n
    BY <2>4, QueueAssumption, FS_Subset, FS_CardinalityType DEF QueueAssumption
  <2> QED BY <2>1, <2>3, <2>5
<1>2. BufferCap \in Nat \ {0}
  BY QueueAssumption DEF QueueAssumption
<1>3. h + f < BufferCap + n
  BY DEF BufferBounded, Held
<1>4. BufferBounded' <=> k + g < BufferCap + n
  BY DEF BufferBounded, Held
<1>5. Fetching' \subseteq Fetching => g <= f
  BY <1>1, FS_Subset
<1>6. ASSUME NEW c \in Fetching, Fetching' \subseteq Fetching, c \notin Fetching'
      PROVE  g <= f - 1
  <2>1. IsFiniteSet(Fetching \ {c}) /\ Cardinality(Fetching \ {c}) = f - 1
    BY <1>1, <1>6, FS_RemoveElement
  <2>2. Fetching' \in SUBSET (Fetching \ {c})
    BY <1>6
  <2>3. g <= Cardinality(Fetching \ {c})
    BY <2>1, <2>2, FS_Subset
  <2> QED BY <2>1, <2>3
<1> HIDE DEF n, f, g, h, k
<1>7. (k <= h /\ g <= f) \/ (k <= h + 1 /\ g <= f - 1) \/ k < BufferCap => k + g < BufferCap + n
  BY <1>1, <1>2, <1>3
<1>8. CASE TakesEffect
  <2>1. UNCHANGED <<staged, handedOut>>
    BY <1>8 DEF TakesEffect, buffer
  <2>2. k <= h
    BY <1>1, <2>1 DEF h, k, Held
  <2>3. g <= f
    BY <1>5, <1>8, FetchingEffect
  <2> QED BY <1>4, <1>7, <2>2, <2>3
<1>9. CASE Restart
  <2>1. Len(<<>>) = 0 /\ Cardinality({}) = 0
    BY EmptySeq, FS_EmptySet
  <2>2. k = 0
    BY <1>9, <2>1 DEF k, Held, Restart
  <2> QED BY <1>1, <1>2, <1>4, <1>7, <2>2
<1>10. CASE UNCHANGED vars
  BY <1>10 DEF vars, queue, buffer, BufferBounded, Fetching
<1>11. ASSUME NEW c \in Callers, CallerStep(c) PROVE BufferBounded'
  <2>1. CASE Held' < BufferCap
    BY <1>4, <1>7, <2>1 DEF k
  <2>2. CASE NoNewFetch /\ Held' <= Held
    <3>1. Fetching' \subseteq Fetching
      BY <1>11, <2>2, FetchingKept
    <3> QED BY <1>4, <1>5, <1>7, <2>2, <3>1 DEF h, k
  <2>3. CASE /\ NoNewFetch /\ Held' <= Held + 1
             /\ \E kinds : Answers(c, kinds, "fetch") /\ "unlock" \notin kinds
    <3>1. Fetching' \subseteq Fetching /\ c \in Fetching /\ c \notin Fetching'
      BY <1>11, <2>3, FetchingKept
    <3>2. g <= f - 1
      BY <1>6, <3>1
    <3> QED BY <1>4, <1>7, <2>3, <3>2 DEF h, k
  <2> QED BY <1>11, <2>1, <2>2, <2>3, SizeSteps
<1> QED BY <1>8, <1>9, <1>10, <1>11 DEF Next, CallerStep

\* An empty buffer with nothing on its way is within any cap.
LEMMA BoundInit == Init => BufferBounded
<1> SUFFICES ASSUME Init PROVE BufferBounded
  OBVIOUS
<1>1. Len(<<>>) = 0 /\ Cardinality({}) = 0
  BY EmptySeq, FS_EmptySet
<1>2. calls = <<>> /\ answers = <<>> /\ ToSet(<<>>) = {}
  BY EmptySeq DEF Init, ToSet
<1>3. Fetching = {}
  BY <1>2 DEF Fetching
<1>4. BufferCap \in Nat \ {0} /\ Cardinality(Callers) \in Nat
  BY QueueAssumption, FS_CardinalityType DEF QueueAssumption
<1> QED BY <1>1, <1>3, <1>4 DEF BufferBounded, Init

\* However many HTTP requests top up and drain at a time, each looking at the cap before a fetch it
\* then awaits, the buffer and the fetches on their way into it exceed the cap by less than one for
\* each of them.
THEOREM BufferStaysBounded == Spec => []BufferBounded
<1>1. TypeOK /\ HeldInv /\ BufferBounded /\ [Next]_vars => BufferBounded'
  BY TypeStep, BoundStep DEF HeldInv
<1> QED BY TypeInit, TypeStep, HeldInit, HeldStep, BoundInit, <1>1, PTL DEF Spec

=============================================================================
