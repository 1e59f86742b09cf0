------------------------ MODULE RequestQueueBuffer ------------------------
(***************************************************************************)
(* One request queue of the runtime: the native queue that owns the        *)
(* requests (pending, in progress, handled), the head buffer in front of   *)
(* it that makes a non-consuming GET /head possible                        *)
(* (storage/request-queue/buffer.ts), and the HTTP requests that use both  *)
(* at the same time (services/request-queues.ts).                          *)
(*                                                                         *)
(* Every call on the native queue is awaited. Calls take effect in the     *)
(* order they were made and are answered in that order; between a call,    *)
(* its effect and its answer any other request may run. A step is one such *)
(* effect, or one answer (or the arrival of a request) with the            *)
(* synchronous code up to the next call.                                   *)
(***************************************************************************)
EXTENDS Naturals, Sequences, SequencesExt, FiniteSets

CONSTANTS
    Requests,    \* the requests clients add, by their id
    NoRequest,   \* null
    Callers,     \* HTTP requests that may be served at the same time
    BufferCap,   \* BUFFER_CAP
    DrainCap,    \* DRAIN_CAP
    Limits,      \* the ?limit= values of GET /head and POST /head/lock
    Forefronts   \* subset of BOOLEAN: the ?forefront= values

ASSUME QueueAssumption ==
    /\ IsFiniteSet(Requests) /\ NoRequest \notin Requests
    /\ IsFiniteSet(Callers)
    /\ BufferCap \in Nat \ {0} /\ DrainCap \in Nat \ {0}
    /\ Limits \subseteq Nat \ {0}
    /\ Forefronts \subseteq BOOLEAN

VARIABLES
    state,       \* the native queue's record of each request
    order,       \* its pending requests, in the order it offers them
    staged,      \* fetched, not handed out
    handedOut,   \* handed out by POST /head/lock
    seen,        \* uniqueKeyIndex: the requests this process has seen
    calls,       \* calls on the native queue that have not taken effect
    answers,     \* calls that have, and are not answered yet
    op,          \* what each HTTP request is doing
    overlapped   \* history: requests an unlock-all took while a reclaim of them was unanswered

queue  == <<state, order>>
buffer == <<staged, handedOut, seen>>
vars   == <<queue, buffer, calls, answers, op, overlapped>>

Idle == [kind |-> "idle", request |-> NoRequest, limit |-> 0, forefront |-> FALSE, tries |-> 0]

Call(c, kind, r, forefront) ==
    [by |-> c, kind |-> kind, request |-> r, forefront |-> forefront, found |-> NoRequest]

Init ==
    /\ state = [r \in Requests |-> "absent"] /\ order = <<>>
    /\ staged = <<>> /\ handedOut = {} /\ seen = {}
    /\ calls = <<>> /\ answers = <<>>
    /\ op = [c \in Callers |-> Idle]
    /\ overlapped = {}

-----------------------------------------------------------------------------
(* The native queue: the oldest call takes effect.                         *)

Put(s, r, forefront) == IF forefront THEN <<r>> \o s ELSE Append(s, r)

Answered(call, found) == answers' = Append(answers, [call EXCEPT !.found = found])

TakesEffect ==
    /\ calls # <<>>
    /\ LET call == Head(calls)
           r    == call.request
       IN  \/ /\ call.kind = "fetch" /\ order = <<>>
              /\ Answered(call, NoRequest) /\ UNCHANGED queue
           \/ /\ call.kind = "fetch" /\ order # <<>>
              /\ state' = [state EXCEPT ![Head(order)] = "inProgress"]
              /\ order' = Tail(order)
              /\ Answered(call, Head(order))
           \/ /\ call.kind = "add" /\ state[r] = "absent"
              /\ state' = [state EXCEPT ![r] = "pending"]
              /\ order' = Put(order, r, call.forefront)
              /\ Answered(call, r)
           \/ /\ call.kind = "get" \/ (call.kind = "add" /\ state[r] # "absent")
              /\ Answered(call, r) /\ UNCHANGED queue
           \/ /\ call.kind = "reclaim" /\ state[r] = "inProgress"
              /\ state' = [state EXCEPT ![r] = "pending"]
              /\ order' = Put(order, r, call.forefront)
              /\ Answered(call, r)
           \/ /\ call.kind = "mark" /\ state[r] = "inProgress"
              /\ state' = [state EXCEPT ![r] = "handled"]
              /\ Answered(call, r) /\ UNCHANGED order
           \/ /\ call.kind \in {"reclaim", "mark"} /\ state[r] # "inProgress"
              /\ Answered(call, NoRequest) /\ UNCHANGED queue
    /\ calls' = Tail(calls)
    /\ UNCHANGED <<buffer, op, overlapped>>

-----------------------------------------------------------------------------
(* The head buffer's loops.                                                *)

\* Mutant: what is handed out does not count.
HasRoom_Staged(s) == Len(s) < BufferCap

\* bufferSize() < BUFFER_CAP, with the requests s staged.
HasRoom(s) == Len(s) + Cardinality(handedOut) < BufferCap

\* Caller c makes its next call and waits for the answer.
Await(c, operation, kind) ==
    /\ op' = [op EXCEPT ![c] = operation]
    /\ calls' = Append(calls, Call(c, kind, operation.request, operation.forefront))

Finish(c) == op' = [op EXCEPT ![c] = Idle] /\ UNCHANGED calls

\* Mutant: the requests lockHead returns are not recorded as handed out.
HandOut_Forgets(k, s) == staged' = SubSeq(s, k + 1, Len(s)) /\ UNCHANGED handedOut

\* lockHead's splice: the first k staged requests are handed out.
HandOut(k, s) ==
    /\ staged' = SubSeq(s, k + 1, Len(s))
    /\ handedOut' = handedOut \cup ToSet(SubSeq(s, 1, k))

\* The end of peekHead and of lockHead.
HeadDone(operation, s) ==
    \/ operation.kind = "head" /\ staged' = s /\ UNCHANGED handedOut
    \/ operation.kind = "lock" /\ HandOut(Min({operation.limit, Len(s)}), s)

\* topUp with the requests s staged: one more fetch, or the operation ends.
TopUp(c, operation, s) ==
    \/ /\ Len(s) < operation.limit /\ HasRoom(s)
       /\ Await(c, operation, "fetch")
       /\ staged' = s /\ UNCHANGED handedOut
    \/ /\ Len(s) >= operation.limit \/ ~HasRoom(s)
       /\ Finish(c) /\ HeadDone(operation, s)

\* resolveHandleForUpdate found no handle: the index still knows the request, or it is a 404.
LastResort(c, operation, known) ==
    \/ operation.request \in known /\ Await(c, operation, "get")
    \/ operation.request \notin known /\ Finish(c)

\* drainUntilFound with the requests s staged: one more fetch, or it gives up.
Drain(c, operation, s, known) ==
    \/ /\ operation.tries < DrainCap /\ HasRoom(s)
       /\ Await(c, [operation EXCEPT !.tries = @ + 1], "fetch")
    \/ /\ operation.tries >= DrainCap \/ ~HasRoom(s)
       /\ LastResort(c, operation, known)

\* getLiveHandle
LiveHandle(r) == r \in handedOut \/ Contains(staged, r)

-----------------------------------------------------------------------------
(* Requests that arrive.                                                   *)

Arrives(kind, r, limit, forefront) ==
    [kind |-> kind, request |-> r, limit |-> limit, forefront |-> forefront, tries |-> 0]

\* POST /requests (and /requests/batch, one request of it).
addRequest(c, r, forefront) ==
    /\ op[c] = Idle
    /\ Await(c, Arrives("add", r, 0, forefront), "add")
    /\ UNCHANGED <<queue, buffer, answers, overlapped>>

\* GET /head ("head") and POST /head/lock ("lock").
peekOrLockHead(c, kind, limit) ==
    /\ op[c] = Idle
    /\ TopUp(c, Arrives(kind, NoRequest, limit, FALSE), staged)
    /\ UNCHANGED <<queue, seen, answers, overlapped>>

\* PUT /requests/:id: "mark" with a handledAt, "reclaim" without.
markHandledOrReclaim(c, kind, r, forefront) ==
    /\ op[c] = Idle
    /\ LET operation == Arrives(kind, r, 0, forefront)
       IN  \/ LiveHandle(r) /\ Await(c, operation, kind)
           \/ ~LiveHandle(r) /\ Drain(c, operation, staged, seen)
    /\ UNCHANGED <<queue, buffer, answers, overlapped>>

\* DELETE /requests/:id/lock: only of a request with a live handle.
releaseLock(c, r, forefront) ==
    /\ op[c] = Idle /\ LiveHandle(r)
    /\ Await(c, Arrives("release", r, 0, forefront), "reclaim")
    /\ UNCHANGED <<queue, buffer, answers, overlapped>>

\* A reclaim of r is unanswered.
BeingReclaimed(r) ==
    \E call \in ToSet(calls) \cup ToSet(answers) : call.kind = "reclaim" /\ call.request = r

\* The reclaims of POST /requests/unlock, all made at once.
ReclaimAll(c) ==
    \E s \in Bijection(1..Cardinality(handedOut), handedOut) :
        calls' = calls \o [i \in DOMAIN s |-> Call(c, "reclaim", s[i], FALSE)]

\* Mutant: unlockAll leaves the requests it reclaims handed out.
unlockAll_Keeps(c) ==
    /\ op[c] = Idle /\ handedOut # {}
    /\ op' = [op EXCEPT ![c] = [Idle EXCEPT !.kind = "unlock"]]
    /\ ReclaimAll(c)
    /\ overlapped' = overlapped \cup {r \in handedOut : BeingReclaimed(r)}
    /\ UNCHANGED <<queue, buffer, answers>>

\* POST /requests/unlock: takeAllHandedOut, then one reclaim each.
unlockAll(c) ==
    /\ op[c] = Idle /\ handedOut # {}
    /\ op' = [op EXCEPT ![c] = [Idle EXCEPT !.kind = "unlock"]]
    /\ ReclaimAll(c)
    /\ handedOut' = {}
    /\ overlapped' = overlapped \cup {r \in handedOut : BeingReclaimed(r)}
    /\ UNCHANGED <<queue, staged, seen, answers>>

-----------------------------------------------------------------------------
(* Answers of the native queue.                                            *)

\* The oldest answer is one to caller c, to an operation and a call of these kinds.
Answers(c, operations, kind) ==
    /\ answers # <<>>
    /\ Head(answers).by = c /\ Head(answers).kind = kind
    /\ op[c].kind \in operations
    /\ answers' = Tail(answers)

\* addRequest: the id index learns the request.
Added(c) ==
    /\ Answers(c, {"add"}, "add")
    /\ seen' = seen \cup {op[c].request}
    /\ Finish(c)
    /\ UNCHANGED <<queue, staged, handedOut, overlapped>>

\* topUp: the fetched request is staged, or the queue is empty.
Fetched(c) ==
    /\ Answers(c, {"head", "lock"}, "fetch")
    /\ LET r == Head(answers).found
       IN  \/ /\ r # NoRequest
              /\ seen' = seen \cup {r}
              /\ TopUp(c, op[c], Append(staged, r))
           \/ /\ r = NoRequest
              /\ Finish(c) /\ HeadDone(op[c], staged)
              /\ UNCHANGED seen
    /\ UNCHANGED <<queue, overlapped>>

\* drainUntilFound: the fetched request is staged; it is the one that was looked for, or not.
Drained(c) ==
    /\ Answers(c, {"mark", "reclaim"}, "fetch")
    /\ LET r == Head(answers).found
       IN  \/ /\ r # NoRequest
              /\ seen' = seen \cup {r} /\ staged' = Append(staged, r)
              /\ \/ r = op[c].request /\ Await(c, op[c], op[c].kind)
                 \/ r # op[c].request /\ Drain(c, op[c], staged', seen')
           \/ /\ r = NoRequest
              /\ LastResort(c, op[c], seen)
              /\ UNCHANGED <<seen, staged>>
    /\ UNCHANGED <<queue, handedOut, overlapped>>

\* The last resort's handle: marked or reclaimed all the same.
Got(c) ==
    /\ Answers(c, {"mark", "reclaim"}, "get")
    /\ Await(c, op[c], op[c].kind)
    /\ UNCHANGED <<queue, buffer, overlapped>>

\* Mutant: only the hand-out is dropped.
releaseFromBuffers_HandedOut(r) ==
    handedOut' = handedOut \ {r} /\ UNCHANGED staged

releaseFromBuffers(r) ==
    /\ handedOut' = handedOut \ {r}
    /\ \/ ~Contains(staged, r) /\ UNCHANGED staged
       \/ \E i \in 1..Len(staged) :
            /\ staged[i] = r /\ \A j \in 1..(i - 1) : staged[j] # r
            /\ staged' = RemoveAt(staged, i)

\* markHandled, reclaim, releaseLock: the buffer drops the request, whatever the answer was.
Released(c) ==
    /\ \/ Answers(c, {"mark"}, "mark")
       \/ Answers(c, {"reclaim", "release"}, "reclaim")
    /\ releaseFromBuffers(Head(answers).request)
    /\ Finish(c)
    /\ UNCHANGED <<queue, seen, overlapped>>

\* unlockAll: done with the last answer.
Unlocked(c) ==
    /\ Answers(c, {"unlock"}, "reclaim")
    /\ IF \E call \in ToSet(calls) \cup ToSet(answers') : call.by = c
       THEN UNCHANGED <<op, calls>> ELSE Finish(c)
    /\ UNCHANGED <<queue, buffer, overlapped>>

\* The runtime dies and comes back: the buffer is gone, and the native queue offers what was
\* in progress again (in an order this model leaves open).
Restart ==
    /\ state' = [r \in Requests |-> IF state[r] = "inProgress" THEN "pending" ELSE state[r]]
    /\ order' \in SetToSeqs({r \in Requests : state'[r] = "pending"})
    /\ staged' = <<>> /\ handedOut' = {} /\ seen' = {}
    /\ calls' = <<>> /\ answers' = <<>>
    /\ op' = [c \in Callers |-> Idle]
    /\ overlapped' = {}

-----------------------------------------------------------------------------

Next ==
    \/ \E c \in Callers :
        \/ \E r \in Requests, f \in Forefronts :
            \/ addRequest(c, r, f) \/ releaseLock(c, r, f)
            \/ \E kind \in {"mark", "reclaim"} : markHandledOrReclaim(c, kind, r, f)
        \/ \E kind \in {"head", "lock"}, limit \in Limits : peekOrLockHead(c, kind, limit)
        \/ unlockAll(c)
        \/ Added(c) \/ Fetched(c) \/ Drained(c) \/ Got(c) \/ Released(c) \/ Unlocked(c)
    \/ TakesEffect
    \/ Restart

Spec == Init /\ [][Next]_vars

-----------------------------------------------------------------------------
(* Properties.                                                             *)

Found == Requests \cup {NoRequest}

\* The calls on the native queue: a fetch names no request, unless a drain looks for one.
Calls ==
    [by : Callers, kind : {"fetch"}, request : Found, forefront : BOOLEAN, found : Found]
        \cup
    [by : Callers, kind : {"add", "get", "mark", "reclaim"}, request : Requests,
     forefront : BOOLEAN, found : Found]

Operations ==
    [kind : {"idle", "head", "lock", "unlock"}, request : {NoRequest},
     limit : Limits \cup {0}, forefront : BOOLEAN, tries : {0}]
        \cup
    [kind : {"add", "mark", "reclaim", "release"}, request : Requests,
     limit : {0}, forefront : BOOLEAN, tries : 0..DrainCap]

\* Every variable holds a value of its kind; a drain makes at most DRAIN_CAP fetches.
TypeOK ==
    /\ state \in [Requests -> {"absent", "pending", "inProgress", "handled"}]
    /\ order \in Seq(Requests)
    /\ staged \in Seq(Requests)
    /\ handedOut \subseteq Requests /\ seen \subseteq Requests /\ overlapped \subseteq Requests
    /\ calls \in Seq(Calls) /\ answers \in Seq(Calls)
    /\ op \in [Callers -> Operations]

\* A fetch whose answer is still to come holds the request it found.
BeingStaged(r) == \E a \in ToSet(answers) : a.kind = "fetch" /\ a.found = r

\* No request is stranded in progress: the buffer holds it, or a fetch is about to stage it, or a
\* call is about to give it back. (Nothing else ever would, before a restart.)
NothingStranded ==
    \A r \in Requests : state[r] = "inProgress" =>
        \/ LiveHandle(r)
        \/ BeingStaged(r)
        \/ \E call \in ToSet(calls) : call.kind \in {"mark", "reclaim"} /\ call.request = r

\* What the buffer holds is in progress in the queue, or about to be dropped: the queue offers
\* it to nobody else ("a handed-out request stays unavailable until it is marked handled,
\* reclaimed, or unlocked"). One interleaving escapes: an unlock-all that takes a request while a
\* reclaim of it is unanswered leaves a later fetch's entry behind (see README.md, Findings).
HeldIsUnavailable ==
    \A r \in Requests \ overlapped : LiveHandle(r) =>
        \/ state[r] = "inProgress"
        \/ \E a \in ToSet(answers) :
            a.kind \in {"mark", "reclaim"} /\ a.request = r /\ op[a.by].kind # "unlock"

\* No request is offered twice, with the same exception.
HeldOnce ==
    \A r \in Requests \ overlapped :
        /\ \A i, j \in 1..Len(staged) : staged[i] = r /\ staged[j] = r => i = j
        /\ ~(r \in handedOut /\ Contains(staged, r))

\* The buffer's promise: what it holds is nobody else's, and it offers it once.
HeldSafely == HeldIsUnavailable /\ HeldOnce

\* The HTTP requests that wait for a fetch.
Fetching ==
    {c \in Callers : \E call \in ToSet(calls) \cup ToSet(answers) : call.by = c /\ call.kind = "fetch"}

\* The cap is looked at before a fetch is awaited, by each HTTP request for itself: however many
\* top up and drain at a time, what the buffer holds and what is on its way into it stay within
\* the cap and one fetch of each HTTP request but one.
BufferBounded ==
    Len(staged) + Cardinality(handedOut) + Cardinality(Fetching) < BufferCap + Cardinality(Callers)

-----------------------------------------------------------------------------
(* What the repository says of the code and the code does not do. Each is  *)
(* refuted by a configuration of its own (see README.md, Findings).        *)

\* "staged + handed-out ... entries never grow past this" (storage/request-queue/buffer.ts): two
\* top-ups may each find room for one more.
\* Refuted: see README.md, Findings.
NeverPastCap == Len(staged) + Cardinality(handedOut) <= BufferCap

\* "the only way that happens here ... is that the request is already handled"
\* (services/request-queues.ts reclaim): a PUT whose call found the request not in progress
\* answers wasAlreadyHandled, and the request is handled.
\* Refuted: see README.md, Findings.
NotInProgressMeansHandled ==
    \A a \in ToSet(answers) :
        a.kind = op[a.by].kind /\ a.kind \in {"mark", "reclaim"} /\ a.found = NoRequest
            => state[a.request] = "handled"

=============================================================================
