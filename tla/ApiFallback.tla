----------------------------- MODULE ApiFallback -----------------------------
(***************************************************************************)
(* The fallback of the API to the platform (services/api-fallback.ts): a   *)
(* request that misses here - a record that is not there, or an endpoint   *)
(* this runtime does not have - is replayed upstream, if the toggle for    *)
(* that kind of miss is on and nothing pins the request to this runtime    *)
(* (api/server.ts, api/routes/last-run.ts, tasks.ts, actors.ts,            *)
(* run-storage-aliases.ts). Records come and go, toggles are flipped and   *)
(* the process restarts while requests are under way.                      *)
(*                                                                         *)
(* A request is of an endpoint and names what the first of Needs(endpoint) *)
(* is; each of them is looked up in turn, an await each. Authentication    *)
(* comes first and always gives a user; what a request finds in the end is *)
(* not followed further.                                                   *)
(***************************************************************************)
EXTENDS Integers, Sequences

CONSTANTS
    ApiCalls,      \* requests under way at once
    MaxRestarts    \* bound

VARIABLES
    present,       \* the records there are here: one of each kind matters
    toggles,       \* the triggers that are relayed
    restarts,
    relay          \* of each request: endpoint, how many records it found, and how it goes on

fallbackVars == <<present, toggles, restarts, relay>>

RecordKinds == {"actor", "task", "run", "build", "storage"}
Triggers == {"unimplemented", "record-not-found"}

\* What each kind of endpoint looks up, in order.
Needs(endpoint) ==
    CASE endpoint = "lastRun" -> <<"actor", "run", "storage">>
      [] endpoint = "taskRun" -> <<"task", "actor", "build">>
      [] endpoint = "taskInput" -> <<"task", "actor", "build", "task">>
      [] endpoint = "taskEdit" -> <<"task", "task">>
      [] endpoint = "actorRun" -> <<"actor", "build">>
      [] endpoint = "runStorage" -> <<"run", "storage">>
      [] endpoint = "storage" -> <<"storage">>
      [] OTHER -> <<>>

Endpoints == {"lastRun", "taskRun", "taskInput", "taskEdit", "actorRun", "runStorage", "storage",
              "offSpec", "actorRuntime"}

\* pinRequestToLocal: the number of records found after which a request is pinned. A change of
\* a task looks the task up and writes it; it is pinned only if its input is checked in between.
PinsAfter(endpoint) ==
    CASE endpoint \in {"lastRun", "taskRun", "taskInput"} -> 1 [] OTHER -> 9

NoCall == [at |-> "none", endpoint |-> "offSpec", found |-> 0, trigger |-> "unimplemented"]

FallbackInit ==
    /\ present \in {{}, RecordKinds}
    /\ toggles = {}
    /\ restarts = 0
    /\ relay = [c \in ApiCalls |-> NoCall]

\* A request arrives. What is served nowhere misses at once; a malformed parameter or body
\* is answered here whatever the toggles.
Arrives(c, endpoint) ==
    /\ relay[c].at = "none"
    /\ \/ relay' = [relay EXCEPT ![c] =
              [at |-> IF Needs(endpoint) = <<>> THEN "missed" ELSE "resolving",
               endpoint |-> endpoint, found |-> 0, trigger |-> "unimplemented"]]
       \/ relay' = [relay EXCEPT ![c] = [NoCall EXCEPT !.at = "local", !.endpoint = endpoint]]
    /\ UNCHANGED <<present, toggles, restarts>>

\* The next lookup: found, the last one ends the request here; not found, it throws
\* record-not-found to the error middleware.
LooksUp(c) ==
    LET r == relay[c]
        needs == Needs(r.endpoint)
    IN  /\ r.at = "resolving"
        /\ relay' = [relay EXCEPT ![c] =
               IF needs[r.found + 1] \notin present
               THEN [r EXCEPT !.at = "missed", !.trigger = "record-not-found"]
               ELSE [r EXCEPT !.found = @ + 1,
                              !.at = IF r.found + 1 = Len(needs) THEN "local" ELSE "resolving"]]
        /\ UNCHANGED <<present, toggles, restarts>>

\* A last-run path with nothing behind it for the run that was found.
HasNoTarget(c) ==
    /\ relay[c].at = "resolving" /\ relay[c].endpoint = "lastRun" /\ relay[c].found = 2
    /\ relay' = [relay EXCEPT ![c].at = "missed", ![c].trigger = "unimplemented"]
    /\ UNCHANGED <<present, toggles, restarts>>

\* attemptFallback before its fetch: pinned, the toggle, the namespace of this runtime.
Eligible(r) ==
    /\ r.found < PinsAfter(r.endpoint)
    /\ r.trigger \in toggles
    /\ r.endpoint # "actorRuntime"

\* respondWithLocalError: the local error unless the request is eligible.
Misses(c) ==
    /\ relay[c].at = "missed"
    /\ relay' = [relay EXCEPT ![c].at = IF Eligible(relay[c]) THEN "upstream" ELSE "local"]
    /\ UNCHANGED <<present, toggles, restarts>>

\* The platform's answer: a whole 2xx one is relayed; any other, no answer within the
\* timeout or one that breaks off leaves the local error.
UpstreamEnds(c) ==
    /\ relay[c].at = "upstream"
    /\ relay' = [relay EXCEPT ![c].at = "relayed"]
    /\ UNCHANGED <<present, toggles, restarts>>
UpstreamFails(c) ==
    /\ relay[c].at = "upstream"
    /\ relay' = [relay EXCEPT ![c].at = "local"]
    /\ UNCHANGED <<present, toggles, restarts>>

Answered(c) ==
    /\ relay[c].at \in {"local", "relayed"}
    /\ relay' = [relay EXCEPT ![c] = NoCall]
    /\ UNCHANGED <<present, toggles, restarts>>

\* setApiFallbackState with a body that mentions some of the toggles.
SetToggles(on, off) ==
    /\ on \cap off = {} /\ on \cup off # {}
    /\ toggles' = (toggles \cup on) \ off
    /\ UNCHANGED <<present, restarts, relay>>

\* Other requests create and delete records.
RecordsChange(kind) ==
    /\ present' = IF kind \in present THEN present \ {kind} ELSE present \cup {kind}
    /\ UNCHANGED <<toggles, restarts, relay>>

\* A restart drops the requests and the toggles.
FallbackRestart ==
    /\ restarts < MaxRestarts
    /\ restarts' = restarts + 1
    /\ toggles' = {}
    /\ relay' = [c \in ApiCalls |-> NoCall]
    /\ UNCHANGED present

FallbackNext ==
    \/ FallbackRestart
    \/ \E kind \in RecordKinds : RecordsChange(kind)
    \/ \E on, off \in SUBSET Triggers : SetToggles(on, off)
    \/ \E c \in ApiCalls :
        \/ \E endpoint \in Endpoints : Arrives(c, endpoint)
        \/ LooksUp(c) \/ HasNoTarget(c) \/ Misses(c) \/ UpstreamEnds(c) \/ UpstreamFails(c) \/ Answered(c)

FallbackSpec == FallbackInit /\ [][FallbackNext]_fallbackVars

-----------------------------------------------------------------------------
\* requirements/api.md: "Never splits one request between the two sources: where one request
\* resolves several records in turn, the first record decides where all of them come from."
\* Refuted: see README.md, Findings.
OneSource ==
    \A c \in ApiCalls : relay[c].at \in {"upstream", "relayed"} => relay[c].found = 0

=============================================================================
