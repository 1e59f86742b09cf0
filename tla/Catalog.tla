-------------------------------- MODULE Catalog --------------------------------
(***************************************************************************)
(* What a user has: Actors, tasks of Actors, and the schedules and         *)
(* webhooks that name them (services/actors.ts, tasks.ts, schedules.ts,    *)
(* webhooks.ts and their routes). The registries know nothing of each      *)
(* other: that names are unique and that what names a deleted Actor or     *)
(* task goes with it is up to the requests, which list one registry and    *)
(* write another.                                                          *)
(*                                                                         *)
(* A registry access takes effect and the request runs on to its next      *)
(* await in one step.                                                      *)
(***************************************************************************)
EXTENDS FiniteSets

CONSTANTS
    Requests,     \* requests at the same time
    Actors, Tasks, Schedules, Webhooks,   \* ids: each is generated once
    Named,        \* bound: the Actors and tasks that schedules and webhooks name
    Names,        \* of each kind, the normalised names; of webhooks, the idempotency keys
    NoName,       \* a create that leaves the name to the runtime; no key
    Nobody, NotYet, Gone

\* An id is of one kind; what NotYet and Gone stand for is no record.
ASSUME CatalogAssumption ==
    /\ Actors \cap (Tasks \cup Schedules \cup Webhooks) = {}
    /\ Tasks \cap (Schedules \cup Webhooks) = {} /\ Schedules \cap Webhooks = {}
    /\ Named \subseteq Actors \cup Tasks
    /\ \A k \in {"task", "schedule", "webhook"} :
          /\ NoName \notin Names[k]
          /\ \A n \in Names[k] \cup {NoName}, refs \in SUBSET (Actors \cup Tasks) :
                [name |-> n, refs |-> refs] \notin {NotYet, Gone}
    /\ NotYet # Gone /\ Nobody \notin Requests

VARIABLES
    item,      \* each record: its name and the ids it names, or NotYet or Gone
    nameLock,  \* nameLocks of tasks and of schedules, createLocks of webhooks: who holds it
    request,   \* each request: where it is and what it has read
    owed       \* history: what named the record that a request deleted, when it deleted it

catalogVars == <<item, nameLock, request, owed>>

Ids == Actors \cup Tasks \cup Schedules \cup Webhooks
Kinds == {"task", "schedule", "webhook"}
Of(k) == CASE k = "task" -> Tasks [] k = "schedule" -> Schedules [] k = "webhook" -> Webhooks
KindOf(i) == CASE i \in Tasks -> "task" [] i \in Schedules -> "schedule" [] i \in Webhooks -> "webhook"

There(i) == item[i] \notin {NotYet, Gone}
NoRequest == [at |-> "idle"]

\* A webhook for a run is not about these records.
Targets == Actors \cup Tasks

\* The Actors are there; nothing below depends on their names, which may coincide.
CatalogInit ==
    /\ item = [i \in Ids |-> IF i \in Actors THEN [name |-> NoName, refs |-> {}] ELSE NotYet]
    /\ nameLock = [K \in Kinds |-> Nobody]
    /\ request = [c \in Requests |-> NoRequest]
    /\ owed = [c \in Requests |-> {}]

\* The ids a request's body may name. That they are there is checked before anything is locked.
Bodies(K) ==
    CASE K = "task" -> {{a} : a \in Actors}
      [] K = "webhook" -> {{t} : t \in Named}
      [] K = "schedule" -> {{}} \cup {{t} : t \in Named}   \* bound: one action

TakenIn(S) == {item[i].name : i \in {j \in S : There(j)}} \ {NoName}

Goes(c, r) == request' = [request EXCEPT ![c] = r]

-----------------------------------------------------------------------------
(* Creating.                                                               *)

\* A create request of kind K, its targets found, gets in line for the lock.
CreateStarts(c, K) ==
    /\ request[c] = NoRequest
    /\ \E n \in Names[K] \cup {NoName}, refs \in Bodies(K) :
        /\ \A t \in refs : There(t)
        /\ Goes(c, [at |-> "list", op |-> "create", kind |-> K, name |-> n, refs |-> refs])
    /\ UNCHANGED <<item, nameLock, owed>>

\* The name that a request r will have: a webhook may be without a key, others are given a
\* name that is free (bound: if one of Names is).
NamesFor(r, taken) == IF r.name = NoName /\ r.kind # "webhook" THEN Names[r.kind] \ taken ELSE {r.name}

\* Mutant: a create does not wait for the lock.
ListsTaken_Unlocked(c) ==
    LET r == request[c]
        taken == TakenIn(Of(r.kind))
    IN  /\ r.at = "list" /\ r.op = "create"
        /\ \E n \in NamesFor(r, taken) :
            IF n \in taken THEN Goes(c, NoRequest) ELSE Goes(c, [r EXCEPT !.at = "set", !.name = n])
        /\ UNCHANGED <<item, nameLock, owed>>

\* createTask, createSchedule, createWebhook: holding the lock, the request lists what is
\* there. A name taken is refused, a key taken answered with the webhook that has it.
ListsTaken(c) ==
    LET r == request[c]
        taken == TakenIn(Of(r.kind))
    IN  /\ r.at = "list" /\ r.op = "create" /\ nameLock[r.kind] = Nobody
        /\ \E n \in NamesFor(r, taken) :
            IF n \in taken
            THEN Goes(c, NoRequest) /\ UNCHANGED nameLock
            ELSE /\ Goes(c, [r EXCEPT !.at = "set", !.name = n])
                 /\ nameLock' = [nameLock EXCEPT ![r.kind] = c]
        /\ UNCHANGED <<item, owed>>

Unlocked(c) == nameLock' = [K \in Kinds |-> IF nameLock[K] = c THEN Nobody ELSE nameLock[K]]

\* The record is written under an id that was never used.
Sets(c) ==
    LET r == request[c]
    IN  /\ r.at = "set" /\ r.op = "create"
        /\ \E j \in Of(r.kind) : item[j] = NotYet
        /\ LET i == CHOOSE j \in Of(r.kind) : item[j] = NotYet
           IN  item' = [item EXCEPT ![i] = [name |-> r.name, refs |-> r.refs]]
        /\ Unlocked(c)
        /\ Goes(c, NoRequest)
        /\ UNCHANGED owed

-----------------------------------------------------------------------------
(* Updating.                                                               *)

\* A PUT finds the record, and checks the targets of a schedule; those of a webhook are
\* taken as they are. Tasks and schedules get in line for the lock.
UpdateStarts(c, i) ==
    LET K == KindOf(i)
    IN  /\ request[c] = NoRequest /\ There(i) /\ i \notin Actors
        /\ \E n \in Names[K] \cup {NoName}, refs \in Bodies(K), withRefs \in BOOLEAN :
            /\ K = "task" => ~withRefs
            /\ K = "schedule" /\ withRefs => \A t \in refs : There(t)
            /\ Goes(c, [at |-> IF K = "webhook" THEN "set" ELSE "list", op |-> "update",
                        kind |-> K, id |-> i, taken |-> {},
                        name |-> IF n = NoName /\ K = "webhook" THEN item[i].name ELSE n,
                        withRefs |-> withRefs \/ K = "webhook",
                        refs |-> IF withRefs THEN refs ELSE IF K = "webhook" THEN item[i].refs ELSE {}])
    /\ UNCHANGED <<item, nameLock, owed>>

\* updateTask, updateSchedule: holding the lock, the request lists the names of the others.
ListsOthers(c) ==
    LET r == request[c]
    IN  /\ r.at = "list" /\ r.op = "update" /\ nameLock[r.kind] = Nobody
        /\ Goes(c, [r EXCEPT !.at = "set", !.taken = TakenIn(Of(r.kind) \ {r.id})])
        /\ nameLock' = [nameLock EXCEPT ![r.kind] = c]
        /\ UNCHANGED <<item, owed>>

\* What an update makes of record v: the name stays without one in the body, and so do the
\* actions of a schedule; a webhook's fields are all taken from the record that was found.
Updated(r, v) == [name |-> IF r.name = NoName THEN v.name ELSE r.name,
                  refs |-> IF r.withRefs THEN r.refs ELSE v.refs]

\* Mutant: a record that is gone is written all the same.
Updates_Resurrects(c) ==
    LET r == request[c]
        v == IF There(r.id) THEN item[r.id] ELSE [name |-> r.name, refs |-> r.refs]
    IN  /\ r.at = "set" /\ r.op = "update"
        /\ item' = IF Updated(r, v).name \notin r.taken THEN [item EXCEPT ![r.id] = Updated(r, v)] ELSE item
        /\ owed' = IF r.withRefs /\ There(r.id) THEN [d \in Requests |-> owed[d] \ {r.id}] ELSE owed
        /\ Unlocked(c)
        /\ Goes(c, NoRequest)

\* A record gone meanwhile stays gone, and a name taken is refused.
Updates(c) ==
    LET r == request[c]
    IN  /\ r.at = "set" /\ r.op = "update"
        /\ IF There(r.id) /\ Updated(r, item[r.id]).name \notin r.taken
           THEN /\ item' = [item EXCEPT ![r.id] = Updated(r, @)]
                /\ owed' = IF r.withRefs THEN [d \in Requests |-> owed[d] \ {r.id}] ELSE owed
           ELSE UNCHANGED <<item, owed>>
        /\ Unlocked(c)
        /\ Goes(c, NoRequest)

-----------------------------------------------------------------------------
(* Deleting.                                                               *)

\* A DELETE finds the record. That of a task aborts the task's runs next: RunLifecycle has
\* what an abort does.
DeleteStarts(c, i) ==
    /\ request[c] = NoRequest /\ There(i)
    /\ Goes(c, [at |-> "delete", id |-> i])
    /\ UNCHANGED <<item, nameLock, owed>>

Naming(K, i) == {j \in K : There(j) /\ i \in item[j].refs}

\* deleteActor, deleteTask, deleteSchedule, deleteWebhook.
Deletes(c) ==
    LET i == request[c].id
    IN  /\ request[c].at = "delete"
        /\ item' = [item EXCEPT ![i] = Gone]
        /\ IF i \in Targets
           THEN /\ Goes(c, [at |-> "webhooks", id |-> i])
                /\ owed' = [owed EXCEPT ![c] = Naming(Webhooks \cup Schedules, i)]
           ELSE Goes(c, NoRequest) /\ UNCHANGED owed
        /\ UNCHANGED nameLock

\* deleteWebhooksWithCondition, then removeScheduleActionsFor: each lists the registry and
\* goes through what it found.
ListsNaming(c) ==
    LET r == request[c]
        K == IF r.at = "webhooks" THEN Webhooks ELSE Schedules
    IN  /\ r.at \in {"webhooks", "schedules"}
        /\ Goes(c, [at |-> IF r.at = "webhooks" THEN "unhook" ELSE "unschedule", id |-> r.id,
                    left |-> Naming(K, r.id)])
        /\ UNCHANGED <<item, nameLock, owed>>

Cascades(c) ==
    LET r == request[c]
    IN  /\ r.at \in {"unhook", "unschedule"} /\ r.left # {}
        /\ \E j \in r.left :
            /\ Goes(c, [r EXCEPT !.left = @ \ {j}])
            /\ item' = IF r.at = "unhook" THEN [item EXCEPT ![j] = Gone]
                       ELSE IF There(j) THEN [item EXCEPT ![j].refs = @ \ {r.id}] ELSE item
        /\ UNCHANGED <<nameLock, owed>>

\* All webhooks are gone: the schedules are next. All schedules are done: 204.
Cascaded(c) ==
    LET r == request[c]
    IN  /\ r.at \in {"unhook", "unschedule"} /\ r.left = {}
        /\ Goes(c, IF r.at = "unhook" THEN [at |-> "schedules", id |-> r.id] ELSE NoRequest)
        /\ owed' = IF r.at = "unhook" THEN owed ELSE [owed EXCEPT ![c] = {}]
        /\ UNCHANGED <<item, nameLock>>

CatalogNext ==
    \E c \in Requests :
        \/ \E K \in Kinds : CreateStarts(c, K)
        \/ \E i \in Ids : UpdateStarts(c, i) \/ DeleteStarts(c, i)
        \/ ListsTaken(c) \/ Sets(c) \/ ListsOthers(c) \/ Updates(c)
        \/ Deletes(c) \/ ListsNaming(c) \/ Cascades(c) \/ Cascaded(c)

CatalogSpec == CatalogInit /\ [][CatalogNext]_catalogVars

-----------------------------------------------------------------------------
\* services/tasks.ts, services/schedules.ts: no two tasks and no two schedules of a user have
\* one name, however many are created and renamed at the same time.
NamesUnique ==
    \A K \in {Tasks, Schedules} : \A i, j \in K :
        (There(i) /\ There(j) /\ item[i].name = item[j].name) => i = j

\* A DELETE of an Actor or a task is answered when everything that named it at its delete is
\* gone or names it no more, unless a request gave it the name again meanwhile.
CascadeComplete ==
    \A c \in Requests :
        (request[c].at = "unschedule" /\ request[c].left = {})
            => \A j \in owed[c] : ~(There(j) /\ request[c].id \in item[j].refs)

\* services/webhooks.ts:182: "Idempotency keys are unique per user".
\* Refuted: see README.md, Findings.
KeysUnique ==
    \A i, j \in Webhooks :
        (There(i) /\ There(j) /\ item[i].name = item[j].name /\ item[i].name # NoName) => i = j

=============================================================================
