-------------------------------- MODULE Users --------------------------------
(***************************************************************************)
(* Who a token is (services/users.ts, called by api/auth.ts for every      *)
(* request): the memo of the process, the stored users, a probe of the     *)
(* platform (services/identity-resolution.ts) and, when that tells         *)
(* nothing, a made-up local user with the next number. One request at a    *)
(* time resolves a token; requests for other tokens go on meanwhile.       *)
(*                                                                         *)
(* A storage access or the answer of the probe takes effect and the code   *)
(* runs on to its next await in one step. A user is its id and the tokens  *)
(* that belong to it.                                                      *)
(***************************************************************************)
EXTENDS Integers, FiniteSets, FiniteSetsExt, Functions

CONSTANTS
    Tokens,
    AccountOf,       \* the platform's account of each token, or Unknown
    Unknown,
    MaxRequests,     \* bound: requests that wait for a token at once
    MaxUserCrashes   \* bound: crashes of the process

VARIABLES
    users,        \* __USERS__: the tokens of each user, by id; local users have a number as id
    userByToken,  \* the memo: the id of each token resolved in this process
    fabricatedCount,
    resolving,    \* of each token, the request that holds its lock: where it is, what it read
    waiting,      \* of each token, the requests that wait for its lock
    userCrashes,
    answered      \* history: the tokens and ids requests of this process were answered with

userVars == <<users, userByToken, fabricatedCount, resolving, waiting, userCrashes, answered>>

Unset == -1
Numbers == 1 .. Cardinality(Tokens) * (MaxUserCrashes + 1)
Ids == ({AccountOf[t] : t \in Tokens} \ {Unknown}) \cup Numbers

Idle == [at |-> "idle"]
NoMemo == [t \in {} |-> 0]

UsersInit ==
    /\ users = [i \in {} |-> {}]
    /\ userByToken = NoMemo
    /\ fabricatedCount = Unset
    /\ resolving = [t \in Tokens |-> Idle]
    /\ waiting = [t \in Tokens |-> 0]
    /\ userCrashes = 0
    /\ answered = {}

\* The highest number of a stored local user.
LastNumber == Max({0} \cup (DOMAIN users \cap Numbers))

Answer(t, id) == answered' = answered \cup {<<t, id>>}

\* getOrCreateUserForToken: from the memo, or behind the lock of the token.
Request(t) ==
    /\ IF t \in DOMAIN userByToken
       THEN Answer(t, userByToken[t]) /\ UNCHANGED waiting
       ELSE /\ waiting[t] < MaxRequests
            /\ waiting' = [waiting EXCEPT ![t] = @ + 1]
            /\ UNCHANGED answered
    /\ UNCHANGED <<users, userByToken, fabricatedCount, resolving, userCrashes>>

\* Mutant: the memo is not looked at again once the lock is held.
Locked_NoRecheck(t) ==
    /\ waiting[t] > 0 /\ resolving[t] = Idle
    /\ waiting' = [waiting EXCEPT ![t] = @ - 1]
    /\ resolving' = [resolving EXCEPT ![t] = [at |-> "lookup"]]
    /\ UNCHANGED answered
    /\ UNCHANGED <<users, userByToken, fabricatedCount, userCrashes>>

\* The next request gets the lock, and looks at the memo again.
Locked(t) ==
    /\ waiting[t] > 0 /\ resolving[t] = Idle
    /\ waiting' = [waiting EXCEPT ![t] = @ - 1]
    /\ IF t \in DOMAIN userByToken
       THEN Answer(t, userByToken[t]) /\ UNCHANGED resolving
       ELSE resolving' = [resolving EXCEPT ![t] = [at |-> "lookup"]] /\ UNCHANGED answered
    /\ UNCHANGED <<users, userByToken, fabricatedCount, userCrashes>>

\* findUserByToken: a user of an earlier process, without a probe.
Looked(t) ==
    /\ resolving[t].at = "lookup"
    /\ LET stored == {i \in DOMAIN users : t \in users[i]}
       IN  \/ /\ stored = {}
              /\ resolving' = [resolving EXCEPT ![t] = [at |-> "probe"]]
              /\ UNCHANGED <<userByToken, answered>>
           \/ \E i \in stored :
              /\ userByToken' = [u \in DOMAIN userByToken \cup {t} |->
                                    IF u = t THEN i ELSE userByToken[u]]
              /\ Answer(t, i)
              /\ resolving' = [resolving EXCEPT ![t] = Idle]
    /\ UNCHANGED <<users, fabricatedCount, waiting, userCrashes>>

\* fetchRealIdentity: the account of the token, or null, which is also what an unreachable
\* platform amounts to.
Probed(t) ==
    /\ resolving[t].at = "probe"
    /\ \/ /\ AccountOf[t] # Unknown
          /\ resolving' = [resolving EXCEPT ![t] = [at |-> "account"]]
       \/ resolving' = [resolving EXCEPT ![t] = [at |-> "number"]]
    /\ UNCHANGED <<users, userByToken, fabricatedCount, waiting, userCrashes, answered>>

\* withToken: a user of the account that is known already gets the token as well.
AccountRead(t) ==
    /\ resolving[t].at = "account"
    /\ LET id == AccountOf[t]
           known == IF id \in DOMAIN users THEN users[id] ELSE {}
       IN  resolving' = [resolving EXCEPT ![t] = [at |-> "write", id |-> id, tokens |-> known \cup {t}]]
    /\ UNCHANGED <<users, userByToken, fabricatedCount, waiting, userCrashes, answered>>

\* fabricateUser: the next number, if the count is known; if not, seedFabricatedCount lists
\* the users first,
Numbered(t) ==
    /\ resolving[t].at = "number"
    /\ IF fabricatedCount = Unset
       THEN /\ resolving' = [resolving EXCEPT ![t] = [at |-> "seed", last |-> LastNumber]]
            /\ UNCHANGED fabricatedCount
       ELSE /\ fabricatedCount' = fabricatedCount + 1
            /\ resolving' = [resolving EXCEPT ![t] =
                   [at |-> "write", id |-> fabricatedCount + 1, tokens |-> {t}]]
    /\ UNCHANGED <<users, userByToken, waiting, userCrashes, answered>>

\* and sets the count from what it read then.
Seeded(t) ==
    /\ resolving[t].at = "seed"
    /\ fabricatedCount' = resolving[t].last + 1
    /\ resolving' = [resolving EXCEPT ![t] =
           [at |-> "write", id |-> resolving[t].last + 1, tokens |-> {t}]]
    /\ UNCHANGED <<users, userByToken, waiting, userCrashes, answered>>

\* The user is stored, then remembered.
UserWritten(t) ==
    /\ resolving[t].at = "write"
    /\ LET r == resolving[t]
       IN  /\ users' = [i \in DOMAIN users \cup {r.id} |-> IF i = r.id THEN r.tokens ELSE users[i]]
           /\ userByToken' = [u \in DOMAIN userByToken \cup {t} |->
                                 IF u = t THEN r.id ELSE userByToken[u]]
           /\ Answer(t, r.id)
    /\ resolving' = [resolving EXCEPT ![t] = Idle]
    /\ UNCHANGED <<fabricatedCount, waiting, userCrashes>>

\* A restart: only what is stored is left.
UsersCrash ==
    /\ userCrashes < MaxUserCrashes
    /\ userCrashes' = userCrashes + 1
    /\ userByToken' = NoMemo /\ fabricatedCount' = Unset
    /\ resolving' = [t \in Tokens |-> Idle] /\ waiting' = [t \in Tokens |-> 0]
    /\ answered' = {}
    /\ UNCHANGED users

UsersNext ==
    \/ UsersCrash
    \/ \E t \in Tokens :
        \/ Request(t) \/ Locked(t) \/ Looked(t) \/ Probed(t)
        \/ AccountRead(t) \/ Numbered(t) \/ Seeded(t) \/ UserWritten(t)

UsersSpec == UsersInit /\ [][UsersNext]_userVars

-----------------------------------------------------------------------------
\* All requests with a token, however many arrive before it is resolved, are answered with
\* one user as long as the process lives.
SameUserInProcess == \A x, y \in answered : x[1] = y[1] => x[2] = y[2]

\* api/auth.ts:38: "Different tokens resolve to different users", unless they are tokens of
\* one account of the platform.
\* Refuted: see README.md, Findings.
DifferentUsers ==
    \A x, y \in answered :
        (x[1] # y[1] /\ x[2] = y[2]) => (AccountOf[x[1]] = AccountOf[y[1]] /\ AccountOf[x[1]] # Unknown)

=============================================================================
