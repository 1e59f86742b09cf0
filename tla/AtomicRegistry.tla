---------------------------- MODULE AtomicRegistry ----------------------------
(***************************************************************************)
(* What the other services take a registry of records to be                *)
(* (storage/registry.ts): the calls on one record take effect in one step  *)
(* each, in the order they were made, and a change listener is told the    *)
(* value the call found and the value it left. Registry implements it.     *)
(*                                                                         *)
(* A value is absent or the set of the calls it carries the mark of, which *)
(* is enough to see a lost update.                                         *)
(***************************************************************************)
CONSTANTS
    Records,    \* the ids of the records
    Accesses,   \* the calls: each is made once
    Absent      \* the value of a record that is not there

AccessKinds == {"get", "set", "update", "delete"}

VARIABLES
    value,    \* of each record
    access,   \* each call: where it is, and its kind and record
    ahead     \* the calls on the same record that were made before it and had not taken effect

registryVars == <<value, access, ahead>>

NotMade == [at |-> "idle"]
Over == {"done", "failed"}

\* What a call of kind k leaves of value v: an update keeps a record that is gone gone.
Left(k, c, v) ==
    CASE k = "get" -> v
      [] k = "set" -> {c}
      [] k = "delete" -> Absent
      [] k = "update" -> IF v = Absent THEN Absent ELSE v \cup {c}

AtomicInit ==
    /\ value \in [Records -> {Absent, {}}]
    /\ access = [c \in Accesses |-> NotMade]
    /\ ahead = [c \in Accesses |-> {}]

\* What the caller or the listeners are told: what the call found and left. A delete tells
\* nothing.
Told(k, c, v) == IF k = "delete" THEN <<>> ELSE <<v, Left(k, c, v)>>

\* The calls on a record that have been made and are not over.
Unsettled(r) == {c \in Accesses : access[c].at = "made" /\ access[c].record = r}

Made(c, r, k) ==
    /\ access[c] = NotMade
    /\ access' = [access EXCEPT ![c] = [at |-> "made", kind |-> k, record |-> r]]
    /\ ahead' = [ahead EXCEPT ![c] = Unsettled(r)]
    /\ UNCHANGED value

\* The call takes effect.
TakesEffect(c) ==
    LET k == access[c].kind
        r == access[c].record
    IN  /\ access[c].at = "made"
        /\ \A d \in ahead[c] : access[d].at \in Over
        /\ value' = [value EXCEPT ![r] = Left(k, c, @)]
        /\ access' = [access EXCEPT ![c] =
               [at |-> "done", kind |-> k, record |-> r, told |-> Told(k, c, value[r])]]
        /\ UNCHANGED ahead

\* The store fails it: it may have taken effect all the same.
Throws(c) ==
    LET k == access[c].kind
        r == access[c].record
    IN  /\ access[c].at = "made"
        /\ \A d \in ahead[c] : access[d].at \in Over
        /\ value' \in {value, [value EXCEPT ![r] = Left(k, c, @)]}
        /\ access' = [access EXCEPT ![c] = [at |-> "failed", kind |-> k, record |-> r]]
        /\ UNCHANGED ahead

AtomicNext ==
    \E c \in Accesses :
        \/ \E r \in Records, k \in AccessKinds : Made(c, r, k)
        \/ TakesEffect(c)
        \/ Throws(c)

AtomicSpec == AtomicInit /\ [][AtomicNext]_registryVars

=============================================================================
