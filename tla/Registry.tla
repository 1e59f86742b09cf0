------------------------------- MODULE Registry -------------------------------
(***************************************************************************)
(* A registry of records (storage/registry.ts) over a key-value store that *)
(* has no read-modify-write, behind a mutex per record (storage/mutex.ts): *)
(* a chain of promises, of which the map of tails knows the last.          *)
(*                                                                         *)
(* A call reads or writes the store and the code runs on to its next       *)
(* await in one step. A step of the promise machinery, the settling of a   *)
(* call before the next one starts and before its own cleanup, is a step   *)
(* here too.                                                               *)
(***************************************************************************)
EXTENDS FiniteSets

CONSTANTS
    Records, Accesses, Absent,   \* see AtomicRegistry
    None                         \* the tail of a record without a chain

ASSUME RegistryAssumption == None \notin Accesses

AccessKinds == {"get", "set", "update", "delete"}

VARIABLES
    store,    \* the store
    tails,    \* KeyedMutex.tails: the last call of each record's chain, or None
    entry,    \* each call: where it is, its kind and record, what it waits for, what it read
    tidied,   \* the calls whose own cleanup has run
    before    \* history: the calls on the same record made before it that were not over then

mutexVars == <<store, tails, entry, tidied, before>>

NotCalled == [at |-> "idle"]
Settled == {"done", "failed"}
Busy == {"waiting", "read", "write"}

\* A record may be there from an earlier process.
RegistryInit ==
    /\ store \in [Records -> {Absent, {}}]
    /\ tails = [r \in Records |-> None]
    /\ entry = [c \in Accesses |-> NotCalled]
    /\ tidied = {}
    /\ before = [c \in Accesses |-> {}]

On(c, r) == entry[c].at # "idle" /\ entry[c].record = r

\* The call made next: which one it is does not matter.
Fresh == CHOOSE c \in Accesses : entry[c] = NotCalled

\* run: behind the tail of the record's chain, whose new tail it is.
Called(c, r, k) ==
    /\ entry[c] = NotCalled /\ c = Fresh
    /\ entry' = [entry EXCEPT ![c] = [at |-> "waiting", kind |-> k, record |-> r, previous |-> tails[r]]]
    /\ before' = [before EXCEPT ![c] = {d \in Accesses : On(d, r) /\ entry[d].at \in Busy}]
    /\ tails' = [tails EXCEPT ![r] = c]
    /\ UNCHANGED <<store, tidied>>

\* The call before it is settled, whether it threw or not: get, set and update read the
\* record first (set for its listeners), delete writes at once.
Begins(c) ==
    /\ entry[c].at = "waiting"
    /\ entry[c].previous \in {None} \cup {d \in Accesses : entry[d].at \in Settled}
    /\ entry' = [entry EXCEPT ![c].at = IF entry[c].kind = "delete" THEN "write" ELSE "read"]
    /\ UNCHANGED <<store, tails, tidied, before>>

\* getValue is answered: that is all of a get; set and update go on to setValue.
Reads(c) ==
    LET e == entry[c]
    IN  /\ e.at = "read"
        /\ entry' = [entry EXCEPT ![c] =
               [at |-> IF e.kind = "get" THEN "done" ELSE "write", kind |-> e.kind,
                record |-> e.record, previous |-> e.previous, read |-> store[e.record]]]
        /\ UNCHANGED <<store, tails, tidied, before>>

\* What the call writes: the mutator of an update sees what was read.
Written(c) ==
    CASE entry[c].kind = "set" -> {c}
      [] entry[c].kind = "delete" -> Absent
      [] entry[c].kind = "update" ->
            IF entry[c].read = Absent THEN Absent ELSE entry[c].read \cup {c}

\* setValue is answered, and the listeners are told what was read and what was written; a
\* delete tells them nothing.
Writes(c) ==
    /\ entry[c].at = "write"
    /\ store' = [store EXCEPT ![entry[c].record] = Written(c)]
    /\ entry' = [entry EXCEPT ![c].at = "done"]
    /\ UNCHANGED <<tails, tidied, before>>

\* The store throws, and a write may have been made.
Fails(c) ==
    /\ entry[c].at \in {"read", "write"}
    /\ \/ UNCHANGED store
       \/ entry[c].at = "write" /\ store' = [store EXCEPT ![entry[c].record] = Written(c)]
    /\ entry' = [entry EXCEPT ![c].at = "failed"]
    /\ UNCHANGED <<tails, tidied, before>>

\* Mutant: the tail is removed although another call is behind this one.
CleansUp_Always(c) ==
    /\ entry[c].at \in Settled /\ c \notin tidied
    /\ tails' = [tails EXCEPT ![entry[c].record] = None]
    /\ tidied' = tidied \cup {c}
    /\ UNCHANGED <<store, entry, before>>

\* The finally block: a tail that is still this call is removed.
CleansUp(c) ==
    /\ entry[c].at \in Settled /\ c \notin tidied
    /\ tails' = [tails EXCEPT ![entry[c].record] = IF @ = c THEN None ELSE @]
    /\ tidied' = tidied \cup {c}
    /\ UNCHANGED <<store, entry, before>>

RegistryNext ==
    \E c \in Accesses :
        \/ \E r \in Records, k \in AccessKinds : Called(c, r, k)
        \/ Begins(c) \/ Reads(c) \/ Writes(c) \/ Fails(c) \/ CleansUp(c)

RegistrySpec == RegistryInit /\ [][RegistryNext]_mutexVars

-----------------------------------------------------------------------------
\* A call is made when run is called and takes effect when its last access of the store does.
Told(c) ==
    CASE entry[c].kind = "delete" -> <<>>
      [] entry[c].kind = "get" -> <<entry[c].read, entry[c].read>>
      [] OTHER -> <<entry[c].read, Written(c)>>

Mapped(c) ==
    LET e == entry[c]
    IN  CASE e.at = "idle" -> [at |-> "idle"]
          [] e.at \in Busy -> [at |-> "made", kind |-> e.kind, record |-> e.record]
          [] e.at = "failed" -> [at |-> "failed", kind |-> e.kind, record |-> e.record]
          [] e.at = "done" -> [at |-> "done", kind |-> e.kind, record |-> e.record, told |-> Told(c)]

Atomic == INSTANCE AtomicRegistry
              WITH value <- store, access <- [c \in Accesses |-> Mapped(c)], ahead <- before

\* A record read and written under its mutex changes in one step, in the order of the calls,
\* and the listeners see each change once with the value it really replaced, whatever the
\* store throws.
ImplementsAtomic == Atomic!AtomicSpec
=============================================================================
