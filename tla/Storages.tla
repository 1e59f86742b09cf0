------------------------------- MODULE Storages -------------------------------
(***************************************************************************)
(* The datasets, key-value stores and request queues of the users          *)
(* (services/storages.ts) under their routes: get-or-create by name behind *)
(* a lock per name, unnamed creates, reads, writes of items and records,   *)
(* renames and deletes. A storage is a record in __STORAGES__ and a        *)
(* directory that opening it creates, so an operation has a step at each.  *)
(*                                                                         *)
(* One type of storage: the name, the lock and the id are per type. A name *)
(* is a pair of what it is compared by and how it is written. Who may read *)
(* what is ownership by the user in the record.                            *)
(***************************************************************************)
EXTENDS Integers

CONSTANTS
    Callers,          \* requests under way at once
    Owners,           \* the users
    StorageIds,       \* bound: ids that can be generated
    StorageNames,     \* pairs <<what is compared, casing>>
    Unnamed,
    NotHeld

ASSUME NotHeldAssumption == NotHeld \notin Callers

VARIABLES
    storages,     \* __STORAGES__: [user, name] by id
    opened,       \* the ids with a directory
    createLock,   \* createByNameMutex: of each user and normalized name, its holder
    calls,        \* of each caller, where its request is
    fresh,        \* the ids not generated yet
    renamed       \* history: the ids whose name a rename set

storageVars == <<storages, opened, createLock, calls, fresh, renamed>>

Ready == [at |-> "ready"]

normalizeName(name) == name[1]

LockKeys == Owners \X {normalizeName(n) : n \in StorageNames}

StoragesInit ==
    /\ storages = [i \in {} |-> Ready]
    /\ opened = {}
    /\ createLock = [k \in LockKeys |-> NotHeld]
    /\ calls = [c \in Callers |-> Ready]
    /\ fresh = StorageIds
    /\ renamed = {}

StepsTo(c, where) == calls' = [calls EXCEPT ![c] = where]

\* findOwnedStorageByName.
Owned(user, name) ==
    {i \in DOMAIN storages : storages[i].user = user /\ storages[i].name # Unnamed
                                /\ normalizeName(storages[i].name) = normalizeName(name)}

\* Mutant: the lock is by the name as it is written.
LockKey_AsWritten(user, name) == <<user, name>>

\* The critical section a named create is in.
LockKey(user, name) == <<user, normalizeName(name)>>

\* createStorage with a name, once it has the lock; with none it looks for nothing.
GetOrCreateStarts(c, user, name) ==
    /\ calls[c] = Ready
    /\ IF name = Unnamed
       THEN /\ StepsTo(c, [at |-> "open", user |-> user, name |-> name])
            /\ UNCHANGED createLock
       ELSE LET key == LockKey(user, name)
            IN  /\ key \in DOMAIN createLock => createLock[key] = NotHeld
                /\ createLock' = [k \in DOMAIN createLock \cup {key} |->
                                      IF k = key THEN c ELSE createLock[k]]
                /\ StepsTo(c, [at |-> "find", user |-> user, name |-> name])
    /\ UNCHANGED <<storages, opened, fresh, renamed>>

LockReleased(c) == [k \in DOMAIN createLock |-> IF createLock[k] = c THEN NotHeld ELSE createLock[k]]

\* The list of the registry: a storage with the name is the answer, as it is.
Found(c) ==
    /\ calls[c].at = "find"
    /\ IF Owned(calls[c].user, calls[c].name) = {}
       THEN StepsTo(c, [calls[c] EXCEPT !.at = "open"]) /\ UNCHANGED createLock
       ELSE StepsTo(c, Ready) /\ createLock' = LockReleased(c)
    /\ UNCHANGED <<storages, opened, fresh, renamed>>

\* A new id, whose directory comes first,
Opened(c) ==
    /\ calls[c].at = "open"
    /\ \E i \in fresh :
        /\ fresh' = fresh \ {i}
        /\ opened' = opened \cup {i}
        /\ StepsTo(c, [at |-> "set", id |-> i, user |-> calls[c].user, name |-> calls[c].name])
    /\ UNCHANGED <<storages, createLock, renamed>>

\* then the record.
Created(c) ==
    /\ calls[c].at = "set"
    /\ LET call == calls[c]
       IN  storages' = [i \in DOMAIN storages \cup {call.id} |->
               IF i = call.id THEN [user |-> call.user, name |-> call.name] ELSE storages[i]]
    /\ createLock' = LockReleased(c)
    /\ StepsTo(c, Ready)
    /\ UNCHANGED <<opened, fresh, renamed>>

\* resolveOwnedStorage, by id or by name: what every other operation starts with. A user
\* only ever gets to storages of its own, anything else is record-not-found.
Resolved(c, user, operation) ==
    /\ calls[c] = Ready
    /\ \E i \in DOMAIN storages :
        /\ storages[i].user = user
        /\ StepsTo(c, [at |-> operation, id |-> i])
    /\ UNCHANGED <<storages, opened, createLock, fresh, renamed>>

\* A read or a write of content opens the storage, which creates a directory that is not
\* there (any more), and touches the record.
Accessed(c) ==
    /\ calls[c].at = "access"
    /\ opened' = opened \cup {calls[c].id}
    /\ StepsTo(c, [at |-> "touch", id |-> calls[c].id])
    /\ UNCHANGED <<storages, createLock, fresh, renamed>>

\* A key-value store need not be opened (a look at the store itself) and need not be touched
\* (a list of its keys, a delete of a record).
KeyValueStoreAccessed(c) ==
    /\ calls[c].at = "access"
    /\ \/ opened' = opened \cup {calls[c].id} /\ StepsTo(c, Ready)
       \/ UNCHANGED opened /\ StepsTo(c, [at |-> "touch", id |-> calls[c].id])
    /\ UNCHANGED <<storages, createLock, fresh, renamed>>

\* touchStorage: accessedAt of a record that is still there.
Touched(c) ==
    /\ calls[c].at = "touch"
    /\ StepsTo(c, Ready)
    /\ UNCHANGED <<storages, opened, createLock, fresh, renamed>>

\* renameStorage: no lock, and no look at the other names.
Renamed(c, name) ==
    /\ calls[c].at = "rename"
    /\ LET i == calls[c].id
       IN  IF i \in DOMAIN storages
           THEN /\ storages' = [storages EXCEPT ![i].name = name]
                /\ renamed' = renamed \cup {i}
           ELSE UNCHANGED <<storages, renamed>>
    /\ StepsTo(c, Ready)
    /\ UNCHANGED <<opened, createLock, fresh>>

\* dropStorage: opened to be dropped, the directory first,
Dropped(c) ==
    /\ calls[c].at = "drop"
    /\ opened' = opened \ {calls[c].id}
    /\ StepsTo(c, [at |-> "delete", id |-> calls[c].id])
    /\ UNCHANGED <<storages, createLock, fresh, renamed>>

\* the record last.
Deleted(c) ==
    /\ calls[c].at = "delete"
    /\ storages' = [i \in DOMAIN storages \ {calls[c].id} |-> storages[i]]
    /\ StepsTo(c, Ready)
    /\ UNCHANGED <<opened, createLock, fresh, renamed>>

StoragesNext ==
    \E c \in Callers :
        \/ \E user \in Owners :
            \/ \E name \in StorageNames \cup {Unnamed} : GetOrCreateStarts(c, user, name)
            \/ \E operation \in {"access", "rename", "drop"} : Resolved(c, user, operation)
        \/ \E name \in StorageNames : Renamed(c, name)
        \/ Found(c) \/ Opened(c) \/ Created(c)
        \/ Accessed(c) \/ KeyValueStoreAccessed(c) \/ Touched(c) \/ Dropped(c) \/ Deleted(c)

StoragesSpec == StoragesInit /\ [][StoragesNext]_storageVars

-----------------------------------------------------------------------------
\* services/storages.ts:15: concurrent get-or-creates of one name, in any casing, never mint
\* two records. A rename can give a storage the name of another one; without it a user has
\* one storage of a name.
OneStoragePerName ==
    \A i, j \in DOMAIN storages \ renamed :
        /\ storages[i].name # Unnamed /\ storages[j].name # Unnamed
        /\ storages[i].user = storages[j].user
        /\ normalizeName(storages[i].name) = normalizeName(storages[j].name)
        => i = j

=============================================================================
