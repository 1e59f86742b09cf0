----------------------------- MODULE Catalog_proofs -----------------------------
(***************************************************************************)
(* Proofs about the registries and what is built from them (the parts of   *)
(* MCCatalog), for any number of records, requests, names, bodies and      *)
(* overlaps.                                                               *)
(***************************************************************************)
EXTENDS Catalog, ActorVersions, Registry, Storages, StandbyConfig, RunEnvironment, Pricing,
        SequenceTheorems, TLAPS

-----------------------------------------------------------------------------
(* Registry: it implements AtomicRegistry. The argument is about the chain  *)
(* of promises: of two calls on one record that are not over, one is in     *)
(* front of the other (InLine), the tail is behind all of them (TailIsLast),*)
(* a call waits for the last of those in front of it (Behind), so once it   *)
(* is in its turn all of those are over (InTurn), it is alone on the        *)
(* record, and what it has read is still there (StillThere) when it writes. *)

Values == (SUBSET Accesses) \cup {Absent}

Previous == Accesses \cup {None}
Starting == [at : {"waiting", "read", "failed"}, kind : AccessKinds, record : Records, previous : Previous]
Deleting == [at : {"write", "done", "failed"}, kind : {"delete"}, record : Records, previous : Previous]
Informed == [at : {"write", "done", "failed"}, kind : AccessKinds \ {"delete"}, record : Records,
             previous : Previous, read : Values]

\* A delete does not read and a get does not write.
KindFits(c) ==
    /\ entry[c].at = "read" => entry[c].kind # "delete"
    /\ entry[c].at = "write" => entry[c].kind # "get"

RegistryTypeOK ==
    /\ store \in [Records -> Values]
    /\ tails \in [Records -> Previous]
    /\ entry \in [Accesses -> {NotCalled} \cup Starting \cup Deleting \cup Informed]
    /\ \A c \in Accesses : KindFits(c)
    /\ before \in [Accesses -> SUBSET Accesses]
    /\ \A c \in Accesses : entry[c] = NotCalled => before[c] = {}

\* Whether a call is under way, and is at its store accesses.
IsBusy(c) == entry[c].at \in Busy
HasTurn(c) == entry[c].at \in {"read", "write"}

OnOneRecord(c, d) == entry[c].record = entry[d].record

InLine ==
    \A c, d \in Accesses :
        (IsBusy(c) /\ IsBusy(d) /\ c # d /\ OnOneRecord(c, d)) => (c \in before[d] \/ d \in before[c])

TailIsLast ==
    \A c \in Accesses : IsBusy(c) =>
        LET t == tails[entry[c].record]
        IN  t \in Accesses /\ (c = t \/ c \in before[t])

Behind ==
    \A c \in Accesses : entry[c].at = "waiting" =>
        \A d \in before[c] :
            \/ entry[d].at \in Settled
            \/ d = entry[c].previous
            \/ entry[c].previous \in Accesses /\ d \in before[entry[c].previous]

InTurn ==
    \A c \in Accesses : (HasTurn(c) \/ entry[c].at \in Settled) =>
        \A d \in before[c] : entry[d].at \in Settled

StillThere ==
    \A c \in Accesses : (entry[c].at = "write" /\ entry[c].kind # "delete") =>
        entry[c].read = store[entry[c].record]

\* A tail is a call on its record.
TailsOn == \A r \in Records : tails[r] \in Accesses => (entry[tails[r]].at # "idle" /\ entry[tails[r]].record = r)

LineInv == RegistryTypeOK /\ TailsOn /\ InLine /\ TailIsLast /\ Behind /\ InTurn /\ StillThere

-----------------------------------------------------------------------------
(* The invariant holds.                                                    *)

LEMMA LineInitHolds == RegistryInit => LineInv
<1> SUFFICES ASSUME RegistryInit PROVE LineInv
  OBVIOUS
<1> USE RegistryAssumption DEF RegistryInit
<1>1. RegistryTypeOK
  <2>1. store \in [Records -> Values] /\ tails \in [Records -> Previous]
    BY DEF Values, Previous
  <2>2. \A c \in Accesses : entry[c].at = "idle"
    BY DEF NotCalled
  <2> QED
    BY <2>1, <2>2 DEF RegistryTypeOK, KindFits
<1>2. \A c \in Accesses : entry[c].at = "idle"
  BY DEF NotCalled
<1>3. TailsOn /\ InLine /\ TailIsLast /\ Behind /\ InTurn /\ StillThere
  BY <1>2 DEF TailsOn, InLine, TailIsLast, Behind, InTurn, StillThere, IsBusy, HasTurn, Busy, Settled
<1> QED
  BY <1>1, <1>3 DEF LineInv

\* A call that has its turn is the only one of its record that has.
LEMMA Alone ==
    ASSUME LineInv, NEW c \in Accesses, NEW d \in Accesses, HasTurn(c), HasTurn(d), OnOneRecord(c, d)
    PROVE  c = d
BY DEF LineInv, InLine, InTurn, IsBusy, HasTurn, Busy, Settled

\* A call joins the line behind all those on its record that are not over.
LEMMA CalledKeeps ==
    ASSUME LineInv, NEW c \in Accesses, NEW r \in Records, NEW k \in AccessKinds, Called(c, r, k)
    PROVE  LineInv'
<1> USE RegistryAssumption DEF LineInv
<1>1. entry[c] = NotCalled /\ entry[c].at = "idle" /\ before[c] = {}
  BY DEF Called, NotCalled, RegistryTypeOK
<1>2. /\ entry'[c] = [at |-> "waiting", kind |-> k, record |-> r, previous |-> tails[r]]
      /\ before'[c] = {d \in Accesses : On(d, r) /\ entry[d].at \in Busy}
      /\ tails'[r] = c
      /\ store' = store
      /\ \A d \in Accesses : d # c => entry'[d] = entry[d] /\ before'[d] = before[d]
      /\ \A s \in Records : s # r => tails'[s] = tails[s]
  BY DEF Called, RegistryTypeOK
<1>3. RegistryTypeOK'
  <2>1. tails[r] \in Previous
    BY DEF RegistryTypeOK
  <2>2. [at |-> "waiting", kind |-> k, record |-> r, previous |-> tails[r]] \in Starting
    BY <2>1 DEF Starting
  <2>3. entry' \in [Accesses -> {NotCalled} \cup Starting \cup Deleting \cup Informed]
    BY <2>2 DEF Called, RegistryTypeOK
  <2>4. ASSUME NEW d \in Accesses
        PROVE  /\ KindFits(d)'
               /\ entry'[d] = NotCalled => before'[d] = {}
    <3>1. CASE d = c
      BY <3>1, <1>2 DEF NotCalled, KindFits
    <3>2. CASE d # c
      BY <3>2, <1>2 DEF RegistryTypeOK, KindFits
    <3> QED
      BY <3>1, <3>2
  <2>5. before' \in [Accesses -> SUBSET Accesses] /\ tails' \in [Records -> Previous]
    BY DEF Called, RegistryTypeOK, Previous
  <2> QED
    BY <1>2, <2>3, <2>4, <2>5 DEF RegistryTypeOK
<1>4. TailsOn'
  BY <1>1, <1>2 DEF TailsOn, RegistryTypeOK, Previous
<1>5. InLine'
  <2> SUFFICES ASSUME NEW d \in Accesses, NEW e \in Accesses, IsBusy(d)', IsBusy(e)', d # e, OnOneRecord(d, e)'
               PROVE  d \in before'[e] \/ e \in before'[d]
    BY DEF InLine
  <2>1. CASE d # c /\ e # c
    BY <2>1, <1>2 DEF InLine, IsBusy, OnOneRecord
  <2>2. ASSUME NEW x \in Accesses, x # c, IsBusy(x)', entry'[x].record = r PROVE x \in before'[c]
    BY <2>2, <1>2 DEF IsBusy, Busy, On
  <2>3. CASE d = c
    BY <2>2, <2>3, <1>2 DEF OnOneRecord
  <2>4. CASE e = c
    BY <2>2, <2>4, <1>2 DEF OnOneRecord
  <2> QED
    BY <2>1, <2>3, <2>4
<1>6. TailIsLast'
  <2> SUFFICES ASSUME NEW d \in Accesses, IsBusy(d)'
               PROVE  tails'[entry'[d].record] \in Accesses
                      /\ (d = tails'[entry'[d].record] \/ d \in before'[tails'[entry'[d].record]])
    BY DEF TailIsLast
  <2>1. CASE entry'[d].record = r
    BY <2>1, <1>2 DEF IsBusy, On, Busy
  <2>2. CASE entry'[d].record # r
    <3>1. d # c /\ IsBusy(d) /\ entry'[d] = entry[d]
      BY <2>2, <1>2 DEF IsBusy
    <3>2. entry[d].record \in Records
      BY <3>1 DEF RegistryTypeOK, IsBusy, Busy, NotCalled, Starting, Deleting, Informed
    <3>3. tails[entry[d].record] # c
      BY <1>1, <3>2 DEF TailsOn
    <3> QED
      BY <3>1, <3>2, <3>3, <2>2, <1>2 DEF TailIsLast
  <2> QED
    BY <2>1, <2>2
<1>7. Behind'
  <2> SUFFICES ASSUME NEW e \in Accesses, entry'[e].at = "waiting", NEW d \in before'[e]
               PROVE  \/ entry'[d].at \in Settled
                      \/ d = entry'[e].previous
                      \/ entry'[e].previous \in Accesses /\ d \in before'[entry'[e].previous]
    BY DEF Behind
  <2>1. CASE e = c
    <3>1. d \in Accesses /\ On(d, r) /\ IsBusy(d)
      BY <2>1, <1>2 DEF IsBusy
    <3>2. tails[r] \in Accesses /\ (d = tails[r] \/ d \in before[tails[r]])
      BY <3>1 DEF TailIsLast, On
    <3>3. tails[r] # c
      BY <1>1, <3>2 DEF TailsOn
    <3> QED
      BY <2>1, <3>2, <3>3, <1>2
  <2>2. CASE e # c
    <3>1. d \in before[e] /\ entry'[e] = entry[e] /\ d \in Accesses
      BY <2>2, <1>2 DEF RegistryTypeOK
    <3>2. \/ entry[d].at \in Settled
          \/ d = entry[e].previous
          \/ entry[e].previous \in Accesses /\ d \in before[entry[e].previous]
      BY <3>1 DEF Behind
    <3>3. entry[d].at \in Settled => entry'[d].at \in Settled
      BY <3>1, <1>1, <1>2 DEF Settled
    <3>4. (entry[e].previous \in Accesses /\ d \in before[entry[e].previous])
             => d \in before'[entry[e].previous]
      BY <1>1, <1>2
    <3> QED
      BY <3>1, <3>2, <3>3, <3>4
  <2> QED
    BY <2>1, <2>2
<1>8. InTurn'
  <2> SUFFICES ASSUME NEW e \in Accesses, HasTurn(e)' \/ entry'[e].at \in Settled, NEW d \in before'[e]
               PROVE  entry'[d].at \in Settled
    BY DEF InTurn
  <2>1. e # c
    BY <1>2 DEF HasTurn, Settled
  <2>2. d \in Accesses /\ entry[d].at \in Settled
    BY <2>1, <1>2 DEF InTurn, HasTurn, RegistryTypeOK
  <2> QED
    BY <2>2, <1>1, <1>2 DEF Settled
<1>9. StillThere'
  BY <1>2 DEF StillThere
<1> QED
  BY <1>3, <1>4, <1>5, <1>6, <1>7, <1>8, <1>9

\* What Begins, Reads, Writes and Fails have in common: one call goes on, to a place that is
\* under way or over; nothing else changes but the store.
Moves(c, to) ==
    /\ IsBusy(c)
    /\ entry' = [entry EXCEPT ![c] = entry'[c]]
    /\ entry'[c].at = to /\ entry'[c].record = entry[c].record /\ entry'[c].previous = entry[c].previous
    /\ UNCHANGED <<tails, before>>

\* Such a step keeps the line, provided all in front of the call are over.
LEMMA MovesKeeps ==
    ASSUME LineInv, NEW c \in Accesses, NEW to \in {"read", "write", "done", "failed"}, Moves(c, to), RegistryTypeOK',
           \A d \in before[c] : entry[d].at \in Settled
    PROVE  TailsOn' /\ InLine' /\ TailIsLast' /\ Behind' /\ InTurn'
<1> USE RegistryAssumption DEF LineInv
<1>1. /\ \A d \in Accesses : d # c => entry'[d] = entry[d]
      /\ entry'[c].at = to /\ entry'[c].record = entry[c].record /\ entry'[c].previous = entry[c].previous
      /\ before' = before /\ tails' = tails
  BY DEF Moves, RegistryTypeOK
<1>2. /\ \A d \in Accesses : IsBusy(d)' => IsBusy(d)
      /\ \A d \in Accesses : entry'[d].record = entry[d].record
      /\ \A d \in Accesses : entry[d].at \in Settled => entry'[d].at \in Settled
      /\ \A d \in Accesses : entry[d].at # "idle" => entry'[d].at # "idle"
      /\ before \in [Accesses -> SUBSET Accesses]
  BY <1>1 DEF Moves, IsBusy, Busy, Settled, RegistryTypeOK
<1>3. TailsOn'
  BY <1>1, <1>2 DEF TailsOn, RegistryTypeOK
<1>4. InLine'
  BY <1>1, <1>2 DEF InLine, OnOneRecord
<1>5. TailIsLast'
  BY <1>1, <1>2 DEF TailIsLast
<1>6. Behind'
  <2> SUFFICES ASSUME NEW e \in Accesses, entry'[e].at = "waiting", NEW d \in before'[e]
               PROVE  \/ entry'[d].at \in Settled
                      \/ d = entry'[e].previous
                      \/ entry'[e].previous \in Accesses /\ d \in before'[entry'[e].previous]
    BY DEF Behind
  <2>1. e # c /\ entry'[e] = entry[e] /\ d \in before[e] /\ d \in Accesses
    BY <1>1, <1>2
  <2> QED
    BY <2>1, <1>1, <1>2 DEF Behind
<1>7. InTurn'
  <2> SUFFICES ASSUME NEW e \in Accesses, HasTurn(e)' \/ entry'[e].at \in Settled, NEW d \in before'[e]
               PROVE  entry'[d].at \in Settled
    BY DEF InTurn
  <2>1. d \in before[e] /\ d \in Accesses
    BY <1>1, <1>2
  <2>2. CASE e = c
    BY <2>1, <2>2, <1>2
  <2>3. CASE e # c
    BY <2>1, <2>3, <1>1, <1>2 DEF InTurn, HasTurn
  <2> QED
    BY <2>2, <2>3
<1> QED
  BY <1>3, <1>4, <1>5, <1>6, <1>7

LEMMA BeginsKeeps ==
    ASSUME LineInv, NEW c \in Accesses, Begins(c)
    PROVE  LineInv'
<1> USE RegistryAssumption DEF LineInv
<1> DEFINE to == IF entry[c].kind = "delete" THEN "write" ELSE "read"
<1>1. entry[c] \in Starting /\ entry[c].at = "waiting"
  BY DEF Begins, RegistryTypeOK, NotCalled, Starting, Deleting, Informed
<1>2. \A d \in before[c] : entry[d].at \in Settled
  <2> SUFFICES ASSUME NEW d \in before[c] PROVE entry[d].at \in Settled
    OBVIOUS
  <2>1. d \in Accesses
    BY DEF RegistryTypeOK
  <2>2. entry[c].previous = None \/ (entry[c].previous \in Accesses /\ entry[entry[c].previous].at \in Settled)
    BY DEF Begins
  <2>3. \/ entry[d].at \in Settled
        \/ d = entry[c].previous
        \/ entry[c].previous \in Accesses /\ d \in before[entry[c].previous]
    BY <1>1, <2>1 DEF Behind
  <2> QED
    BY <2>1, <2>2, <2>3 DEF InTurn
<1>3. entry' = [entry EXCEPT ![c].at = to] /\ UNCHANGED <<store, tails, before>>
  BY DEF Begins
<1>4. /\ entry'[c] = [entry[c] EXCEPT !.at = to]
      /\ entry'[c].at = to /\ entry'[c].kind = entry[c].kind
      /\ entry'[c].record = entry[c].record /\ entry'[c].previous = entry[c].previous
      /\ \A d \in Accesses : d # c => entry'[d] = entry[d]
  BY <1>1, <1>3 DEF RegistryTypeOK, Starting
<1>5. /\ entry'[c] \in Starting \cup Deleting
      /\ to = "read" => entry[c].kind # "delete"
      /\ to = "write" => entry[c].kind # "get"
  BY <1>1, <1>4 DEF Starting, Deleting
<1>6. RegistryTypeOK'
  <2>1. entry' \in [Accesses -> {NotCalled} \cup Starting \cup Deleting \cup Informed]
    BY <1>3, <1>5 DEF RegistryTypeOK
  <2>2. ASSUME NEW d \in Accesses
        PROVE  KindFits(d)'
    <3>1. CASE d = c
      BY <3>1, <1>4, <1>5 DEF KindFits
    <3>2. CASE d # c
      BY <3>2, <1>4 DEF RegistryTypeOK, KindFits
    <3> QED
      BY <3>1, <3>2
  <2>3. \A d \in Accesses : entry'[d] = NotCalled => before'[d] = {}
    BY <1>3, <1>4 DEF RegistryTypeOK, NotCalled
  <2> QED
    BY <2>1, <2>2, <2>3, <1>3 DEF RegistryTypeOK
<1>7. Moves(c, to)
  BY <1>1, <1>3, <1>4 DEF Moves, IsBusy, Busy, RegistryTypeOK
<1>8. TailsOn' /\ InLine' /\ TailIsLast' /\ Behind' /\ InTurn'
  BY <1>2, <1>6, <1>7, MovesKeeps
<1>9. StillThere'
  BY <1>3, <1>4 DEF StillThere
<1> QED
  BY <1>6, <1>8, <1>9

LEMMA ReadsKeeps ==
    ASSUME LineInv, NEW c \in Accesses, Reads(c)
    PROVE  LineInv'
<1> USE RegistryAssumption DEF LineInv
<1> DEFINE to == IF entry[c].kind = "get" THEN "done" ELSE "write"
<1>0. entry[c].at = "read" /\ entry[c].kind # "delete"
  BY DEF Reads, RegistryTypeOK, KindFits
<1>1. entry[c] \in Starting /\ entry[c].at = "read" /\ entry[c].kind # "delete"
  BY <1>0 DEF RegistryTypeOK, NotCalled, Deleting, Informed
<1>2. \A d \in before[c] : entry[d].at \in Settled
  BY <1>1 DEF InTurn, HasTurn
<1>3. /\ entry'[c] = [at |-> to, kind |-> entry[c].kind, record |-> entry[c].record,
                      previous |-> entry[c].previous, read |-> store[entry[c].record]]
      /\ entry' = [entry EXCEPT ![c] = entry'[c]]
      /\ UNCHANGED <<store, tails, before>>
      /\ \A d \in Accesses : d # c => entry'[d] = entry[d]
  BY DEF Reads, RegistryTypeOK
<1>4. entry'[c] \in Informed
  BY <1>1, <1>3 DEF Starting, Informed, RegistryTypeOK
<1>5. RegistryTypeOK'
  <2>1. entry' \in [Accesses -> {NotCalled} \cup Starting \cup Deleting \cup Informed]
    BY <1>3, <1>4 DEF RegistryTypeOK
  <2>2. ASSUME NEW d \in Accesses
        PROVE  /\ KindFits(d)'
               /\ entry'[d] = NotCalled => before'[d] = {}
    <3>1. CASE d = c
      BY <3>1, <1>1, <1>3 DEF NotCalled, KindFits
    <3>2. CASE d # c
      BY <3>2, <1>3 DEF RegistryTypeOK, KindFits
    <3> QED
      BY <3>1, <3>2
  <2> QED
    BY <2>1, <2>2, <1>3 DEF RegistryTypeOK
<1>6. Moves(c, to)
  BY <1>1, <1>3 DEF Moves, IsBusy, Busy
<1>7. TailsOn' /\ InLine' /\ TailIsLast' /\ Behind' /\ InTurn'
  BY <1>2, <1>5, <1>6, MovesKeeps
<1>8. StillThere'
  BY <1>3 DEF StillThere
<1> QED
  BY <1>5, <1>7, <1>8

\* A call that writes or fails at its store access.
LEMMA EndsKeeps ==
    ASSUME LineInv, NEW c \in Accesses, Writes(c) \/ Fails(c)
    PROVE  LineInv'
<1> USE RegistryAssumption DEF LineInv
<1>1. entry[c].at \in {"read", "write"} /\ entry[c] \in Starting \cup Deleting \cup Informed
  BY DEF Writes, Fails, RegistryTypeOK, NotCalled
<1>2. \A d \in before[c] : entry[d].at \in Settled
  BY <1>1 DEF InTurn, HasTurn
<1>3. PICK to \in {"done", "failed"} :
        entry' = [entry EXCEPT ![c].at = to] /\ (to = "done" => entry[c].at = "write")
  BY DEF Writes, Fails
<1>4. /\ entry'[c] = [entry[c] EXCEPT !.at = to]
      /\ \A d \in Accesses : d # c => entry'[d] = entry[d]
      /\ UNCHANGED <<tails, before>>
  BY <1>3 DEF RegistryTypeOK, Writes, Fails
<1>5. /\ entry'[c].at = to /\ entry'[c].kind = entry[c].kind
      /\ entry'[c].record = entry[c].record /\ entry'[c].previous = entry[c].previous
      /\ entry'[c] \in Starting \cup Deleting \cup Informed
  BY <1>1, <1>3, <1>4 DEF Starting, Deleting, Informed
<1>6. store' \in [Records -> Values] /\ \A r \in Records : r # entry[c].record => store'[r] = store[r]
  <2>1. entry[c].at = "write" => Written(c) \in Values
    <3> SUFFICES ASSUME entry[c].at = "write" PROVE Written(c) \in Values
      OBVIOUS
    <3>1. \/ entry[c].kind = "delete"
          \/ entry[c].kind \in {"set", "update"} /\ entry[c].read \in Values
      BY <1>1 DEF RegistryTypeOK, KindFits, Starting, Deleting, Informed, AccessKinds
    <3> QED
      BY <3>1 DEF Written, Values
  <2> QED
    BY <2>1, <1>1 DEF Writes, Fails, RegistryTypeOK, Starting, Deleting, Informed
<1>7. RegistryTypeOK'
  <2>1. entry' \in [Accesses -> {NotCalled} \cup Starting \cup Deleting \cup Informed]
    BY <1>3, <1>5 DEF RegistryTypeOK
  <2>2. ASSUME NEW d \in Accesses
        PROVE  KindFits(d)'
    <3>1. CASE d = c
      BY <3>1, <1>5 DEF KindFits
    <3>2. CASE d # c
      BY <3>2, <1>4 DEF RegistryTypeOK, KindFits
    <3> QED
      BY <3>1, <3>2
  <2>3. \A d \in Accesses : entry'[d] = NotCalled => before'[d] = {}
    BY <1>4, <1>5 DEF RegistryTypeOK, NotCalled
  <2> QED
    BY <2>1, <2>2, <2>3, <1>4, <1>6 DEF RegistryTypeOK
<1>8. Moves(c, to)
  BY <1>1, <1>3, <1>4, <1>5 DEF Moves, IsBusy, Busy, RegistryTypeOK
<1>9. TailsOn' /\ InLine' /\ TailIsLast' /\ Behind' /\ InTurn'
  BY <1>2, <1>7, <1>8, MovesKeeps
<1>10. StillThere'
  <2> SUFFICES ASSUME NEW d \in Accesses, entry'[d].at = "write", entry'[d].kind # "delete"
               PROVE  entry'[d].read = store'[entry'[d].record]
    BY DEF StillThere
  <2>1. d # c /\ entry'[d] = entry[d]
    BY <1>4, <1>5
  <2>2. entry[d].record # entry[c].record
    BY <2>1, <1>1, Alone DEF HasTurn, OnOneRecord
  <2>3. entry[d].record \in Records
    BY <2>1 DEF RegistryTypeOK, NotCalled, Starting, Deleting, Informed
  <2> QED
    BY <2>1, <2>2, <2>3, <1>6 DEF StillThere
<1> QED
  BY <1>7, <1>9, <1>10

LEMMA CleansUpKeeps ==
    ASSUME LineInv, NEW c \in Accesses, CleansUp(c)
    PROVE  LineInv'
<1> USE RegistryAssumption DEF LineInv
<1>1. /\ entry[c].at \in Settled /\ entry[c].record \in Records
      /\ UNCHANGED <<store, entry, before>>
  BY DEF CleansUp, RegistryTypeOK, Settled, NotCalled, Starting, Deleting, Informed
<1>2. \A r \in Records : tails'[r] = IF r = entry[c].record /\ tails[r] = c THEN None ELSE tails[r]
  BY <1>1 DEF CleansUp, RegistryTypeOK
<1>3. RegistryTypeOK' /\ TailsOn'
  BY <1>1, <1>2 DEF CleansUp, RegistryTypeOK, TailsOn, Previous, KindFits
<1>4. TailIsLast'
  <2> SUFFICES ASSUME NEW d \in Accesses, IsBusy(d)
               PROVE  tails'[entry[d].record] \in Accesses
                      /\ (d = tails'[entry[d].record] \/ d \in before[tails'[entry[d].record]])
    BY <1>1 DEF TailIsLast, IsBusy
  <2>1. entry[d].record \in Records
    BY DEF RegistryTypeOK, IsBusy, Busy, NotCalled, Starting, Deleting, Informed
  <2>2. tails[entry[d].record] # c
    <3> SUFFICES ASSUME tails[entry[d].record] = c PROVE FALSE
      OBVIOUS
    <3>1. d = c \/ d \in before[c]
      BY DEF TailIsLast
    <3>2. entry[d].at \in Settled
      BY <3>1, <1>1 DEF InTurn
    <3> QED
      BY <3>2 DEF IsBusy, Busy, Settled
  <2> QED
    BY <2>1, <2>2, <1>2 DEF TailIsLast
<1>5. InLine' /\ Behind' /\ InTurn' /\ StillThere'
  BY <1>1 DEF InLine, Behind, InTurn, StillThere, IsBusy, HasTurn, OnOneRecord
<1> QED
  BY <1>3, <1>4, <1>5

LEMMA NextKeeps == LineInv /\ [RegistryNext]_mutexVars => LineInv'
<1> SUFFICES ASSUME LineInv, [RegistryNext]_mutexVars PROVE LineInv'
  OBVIOUS
<1>1. CASE UNCHANGED mutexVars
  BY <1>1 DEF mutexVars, LineInv, RegistryTypeOK, TailsOn, InLine, TailIsLast, Behind, InTurn, StillThere,
              IsBusy, HasTurn, OnOneRecord, KindFits
<1>2. ASSUME NEW c \in Accesses, NEW r \in Records, NEW k \in AccessKinds, Called(c, r, k) PROVE LineInv'
  BY <1>2, CalledKeeps
<1>3. ASSUME NEW c \in Accesses, Begins(c) \/ Reads(c) \/ Writes(c) \/ Fails(c) \/ CleansUp(c) PROVE LineInv'
  BY <1>3, BeginsKeeps, ReadsKeeps, EndsKeeps, CleansUpKeeps
<1> QED
  BY <1>1, <1>2, <1>3 DEF RegistryNext

-----------------------------------------------------------------------------
(* Every step is a step of AtomicRegistry, or none.                        *)

LEMMA MapIdle == ASSUME NEW c \in Accesses, entry[c].at = "idle" PROVE Mapped(c) = [at |-> "idle"]
BY DEF Mapped, Busy

LEMMA MapBusy ==
    ASSUME NEW c \in Accesses, IsBusy(c)
    PROVE  Mapped(c) = [at |-> "made", kind |-> entry[c].kind, record |-> entry[c].record]
BY DEF Mapped, Busy, IsBusy

LEMMA MapFailed ==
    ASSUME NEW c \in Accesses, entry[c].at = "failed"
    PROVE  Mapped(c) = [at |-> "failed", kind |-> entry[c].kind, record |-> entry[c].record]
BY DEF Mapped, Busy

LEMMA MapDone ==
    ASSUME NEW c \in Accesses, entry[c].at = "done"
    PROVE  Mapped(c) = [at |-> "done", kind |-> entry[c].kind, record |-> entry[c].record, told |-> Told(c)]
BY DEF Mapped, Busy

LEMMA InitMaps == RegistryInit => Atomic!AtomicInit
<1> SUFFICES ASSUME RegistryInit PROVE Atomic!AtomicInit
  OBVIOUS
<1>1. \A c \in Accesses : Mapped(c) = [at |-> "idle"]
  BY MapIdle DEF RegistryInit, NotCalled
<1> QED
  BY <1>1 DEF RegistryInit, Atomic!AtomicInit, Atomic!NotMade

\* A step that leaves the calls as AtomicRegistry sees them.
LEMMA NothingMaps ==
    ASSUME LineInv, NEW c \in Accesses, Begins(c) \/ CleansUp(c) \/ (Reads(c) /\ entry[c].kind # "get")
    PROVE  UNCHANGED <<store, [d \in Accesses |-> Mapped(d)], before>>
<1>1. UNCHANGED <<store, before>>
  BY DEF Begins, CleansUp, Reads
<1>2. ASSUME NEW d \in Accesses PROVE Mapped(d)' = Mapped(d)
  <2>1. CASE entry'[d] = entry[d]
    BY <2>1 DEF Mapped, Told, Written
  <2>2. CASE entry'[d] # entry[d]
    <3>1. d = c /\ ~CleansUp(c)
      BY <2>2 DEF Begins, CleansUp, Reads, LineInv, RegistryTypeOK
    <3>2. entry[c] \in Starting /\ entry[c].at \in {"waiting", "read"}
      BY <3>1 DEF Begins, Reads, LineInv, RegistryTypeOK, NotCalled, Deleting, Informed
    <3>3. entry'[c].at \in {"read", "write"} /\ entry'[c].kind = entry[c].kind /\ entry'[c].record = entry[c].record
      <4>1. CASE Begins(c)
        BY <4>1, <3>2 DEF Begins, LineInv, RegistryTypeOK, Starting
      <4>2. CASE Reads(c) /\ entry[c].kind # "get"
        BY <4>2, <3>2 DEF Reads, LineInv, RegistryTypeOK
      <4> QED
        BY <3>1, <4>1, <4>2
    <3> QED
      BY <3>1, <3>2, <3>3 DEF Mapped, Busy
  <2> QED
    BY <2>1, <2>2
<1> QED
  BY <1>1, <1>2

LEMMA CalledMaps ==
    ASSUME LineInv, NEW c \in Accesses, NEW r \in Records, NEW k \in AccessKinds, Called(c, r, k)
    PROVE  Atomic!Made(c, r, k)
<1> DEFINE acc == [d \in Accesses |-> Mapped(d)]
<1>1. /\ entry[c] = NotCalled
      /\ entry'[c] = [at |-> "waiting", kind |-> k, record |-> r, previous |-> tails[r]]
      /\ \A d \in Accesses : d # c => entry'[d] = entry[d]
      /\ store' = store
  BY DEF Called, LineInv, RegistryTypeOK
<1>2. Mapped(c) = [at |-> "idle"] /\ Mapped(c)' = [at |-> "made", kind |-> k, record |-> r]
  BY <1>1 DEF Mapped, Busy, NotCalled
<1>3. \A d \in Accesses : d # c => Mapped(d)' = Mapped(d)
  BY <1>1 DEF Mapped, Told, Written
<1>4. acc' = [acc EXCEPT ![c] = [at |-> "made", kind |-> k, record |-> r]]
  BY <1>2, <1>3
<1>5. ASSUME NEW d \in Accesses
      PROVE  (On(d, r) /\ entry[d].at \in Busy) <=> (acc[d].at = "made" /\ acc[d].record = r)
  <2>1. entry[d].at \in {"idle", "done", "failed"} \cup Busy
    BY DEF LineInv, RegistryTypeOK, NotCalled, Starting, Deleting, Informed, Busy
  <2>2. CASE entry[d].at \in Busy
    BY <2>2, MapBusy DEF On, IsBusy, Busy
  <2>3. CASE entry[d].at \notin Busy
    BY <2>1, <2>3, MapIdle, MapFailed, MapDone
  <2> QED
    BY <2>2, <2>3
<1>6. before' = [before EXCEPT ![c] = Atomic!Unsettled(r)]
  BY <1>5 DEF Called, Atomic!Unsettled
<1> QED
  BY <1>1, <1>2, <1>4, <1>6 DEF Atomic!Made, Atomic!NotMade

\* What AtomicRegistry sees of a call depends on that call alone.
LEMMA OthersMap ==
    ASSUME NEW c \in Accesses, NEW d \in Accesses, entry'[d] = entry[d]
    PROVE  Mapped(d)' = Mapped(d)
BY DEF Mapped, Told, Written

\* All in front of a call in its turn are over for AtomicRegistry too.
LEMMA AheadIsOver ==
    ASSUME LineInv, NEW c \in Accesses, HasTurn(c), NEW d \in before[c]
    PROVE  Mapped(d).at \in {"done", "failed"}
<1>1. d \in Accesses /\ entry[d].at \in Settled
  BY DEF LineInv, RegistryTypeOK, InTurn
<1> QED
  BY <1>1, MapDone, MapFailed DEF Settled

\* A get takes effect when getValue is answered.
LEMMA GetMaps ==
    ASSUME LineInv, NEW c \in Accesses, Reads(c), entry[c].kind = "get"
    PROVE  Atomic!TakesEffect(c)
<1> DEFINE acc == [d \in Accesses |-> Mapped(d)]
           r == entry[c].record
           done == [at |-> "done", kind |-> "get", record |-> r, told |-> <<store[r], store[r]>>]
<1>1. entry[c].at = "read" /\ entry[c] \in Starting /\ r \in Records
  BY DEF Reads, LineInv, RegistryTypeOK, NotCalled, Starting, Deleting, Informed
<1>2. /\ entry'[c] = [at |-> "done", kind |-> "get", record |-> r,
                      previous |-> entry[c].previous, read |-> store[r]]
      /\ \A d \in Accesses : d # c => entry'[d] = entry[d]
      /\ UNCHANGED <<store, before>>
  BY <1>1 DEF Reads, LineInv, RegistryTypeOK
<1>3. Mapped(c) = [at |-> "made", kind |-> "get", record |-> r]
  BY <1>1, MapBusy DEF IsBusy, Busy
<1>4. Mapped(c)' = done
  BY <1>2 DEF Mapped, Told, Busy
<1>5. acc' = [acc EXCEPT ![c] = done]
  BY <1>2, <1>4, OthersMap
<1>6. \A d \in before[c] : d \in Accesses /\ acc[d].at \in {"done", "failed"}
  BY <1>1, AheadIsOver DEF HasTurn, LineInv, RegistryTypeOK
<1>7. store' = [store EXCEPT ![r] = store[r]]
  BY <1>1, <1>2 DEF LineInv, RegistryTypeOK
<1>8. acc[c].at = "made" /\ acc[c].kind = "get" /\ acc[c].record = r
  BY <1>3
<1> QED
  BY <1>2, <1>5, <1>6, <1>7, <1>8 DEF Atomic!TakesEffect, Atomic!Left, Atomic!Told, Atomic!Over

\* What a call writes is what AtomicRegistry says it leaves: what it read is still there.
LEMMA WritesWhatIsLeft ==
    ASSUME LineInv, NEW c \in Accesses, entry[c].at = "write"
    PROVE  /\ entry[c].record \in Records
           /\ Written(c) = Atomic!Left(entry[c].kind, c, store[entry[c].record])
           /\ Told(c) = Atomic!Told(entry[c].kind, c, store[entry[c].record])
<1>1. entry[c] \in Deleting \cup Informed /\ entry[c].kind # "get"
  BY DEF LineInv, RegistryTypeOK, NotCalled, Starting, KindFits
<1>2. entry[c].kind # "delete" => entry[c].read = store[entry[c].record]
  BY DEF LineInv, StillThere
<1>3. entry[c].record \in Records /\ entry[c].kind \in {"set", "update", "delete"}
  BY <1>1 DEF Deleting, Informed, AccessKinds
<1>4. CASE entry[c].kind = "delete"
  BY <1>3, <1>4 DEF Written, Told, Atomic!Left, Atomic!Told
<1>5. CASE entry[c].kind \in {"set", "update"}
  BY <1>2, <1>3, <1>5 DEF Written, Told, Atomic!Left, Atomic!Told
<1> QED
  BY <1>3, <1>4, <1>5

\* The others take effect when setValue is answered.
LEMMA WriteMaps ==
    ASSUME LineInv, NEW c \in Accesses, Writes(c)
    PROVE  Atomic!TakesEffect(c)
<1> DEFINE acc == [d \in Accesses |-> Mapped(d)]
           r == entry[c].record
           k == entry[c].kind
           done == [at |-> "done", kind |-> k, record |-> r, told |-> Told(c)]
<1>1. entry[c].at = "write"
  BY DEF Writes
<1>2. /\ entry'[c] = [entry[c] EXCEPT !.at = "done"]
      /\ \A d \in Accesses : d # c => entry'[d] = entry[d]
      /\ store' = [store EXCEPT ![r] = Written(c)]
      /\ before' = before
  BY DEF Writes, LineInv, RegistryTypeOK
<1>3. Mapped(c) = [at |-> "made", kind |-> k, record |-> r]
  BY <1>1, MapBusy DEF IsBusy, Busy
<1>4. Mapped(c)' = done
  <2>1. entry[c] \in Deleting \cup Informed
    BY <1>1 DEF LineInv, RegistryTypeOK, NotCalled, Starting
  <2>2. /\ entry'[c].at = "done" /\ entry'[c].kind = k /\ entry'[c].record = r
        /\ k # "delete" => entry'[c].read = entry[c].read
    BY <2>1, <1>2 DEF Deleting, Informed
  <2>3. Told(c)' = Told(c)
    <3>1. k \in {"set", "update", "delete"}
      BY <2>1, <1>1 DEF LineInv, RegistryTypeOK, KindFits, Deleting, Informed, AccessKinds
    <3> QED
      BY <2>2, <3>1 DEF Told, Written
  <2> QED
    BY <2>2, <2>3 DEF Mapped, Busy
<1>5. acc' = [acc EXCEPT ![c] = done]
  BY <1>2, <1>4, OthersMap
<1>6. \A d \in before[c] : d \in Accesses /\ acc[d].at \in {"done", "failed"}
  BY <1>1, AheadIsOver DEF HasTurn, LineInv, RegistryTypeOK
<1>7. Written(c) = Atomic!Left(k, c, store[r]) /\ Told(c) = Atomic!Told(k, c, store[r])
  BY <1>1, WritesWhatIsLeft
<1>8. acc[c].at = "made" /\ acc[c].kind = k /\ acc[c].record = r
  BY <1>3
<1> QED
  BY <1>2, <1>5, <1>6, <1>7, <1>8 DEF Atomic!TakesEffect, Atomic!Over

\* A failing access may have written.
LEMMA FailMaps ==
    ASSUME LineInv, NEW c \in Accesses, Fails(c)
    PROVE  Atomic!Throws(c)
<1> DEFINE acc == [d \in Accesses |-> Mapped(d)]
           r == entry[c].record
           k == entry[c].kind
           failed == [at |-> "failed", kind |-> k, record |-> r]
<1>1. entry[c].at \in {"read", "write"}
  BY DEF Fails
<1>2. /\ entry'[c] = [entry[c] EXCEPT !.at = "failed"]
      /\ \A d \in Accesses : d # c => entry'[d] = entry[d]
      /\ before' = before
  BY DEF Fails, LineInv, RegistryTypeOK
<1>3. Mapped(c) = [at |-> "made", kind |-> k, record |-> r]
  BY <1>1, MapBusy DEF IsBusy, Busy
<1>4. Mapped(c)' = failed
  <2>1. entry[c] \in Starting \cup Deleting \cup Informed
    BY <1>1 DEF LineInv, RegistryTypeOK, NotCalled
  <2>2. entry'[c].at = "failed" /\ entry'[c].kind = k /\ entry'[c].record = r
    BY <2>1, <1>2 DEF Starting, Deleting, Informed
  <2> QED
    BY <2>2 DEF Mapped, Busy
<1>5. acc' = [acc EXCEPT ![c] = failed]
  BY <1>2, <1>4, OthersMap
<1>6. \A d \in before[c] : d \in Accesses /\ acc[d].at \in {"done", "failed"}
  BY <1>1, AheadIsOver DEF HasTurn, LineInv, RegistryTypeOK
<1>7. \/ store' = store
      \/ store' = [store EXCEPT ![r] = Atomic!Left(k, c, store[r])]
  BY WritesWhatIsLeft DEF Fails
<1>8. acc[c].at = "made" /\ acc[c].kind = k /\ acc[c].record = r
  BY <1>3
<1> QED
  BY <1>2, <1>5, <1>6, <1>7, <1>8 DEF Atomic!Throws, Atomic!Over

LEMMA NextMaps == LineInv /\ [RegistryNext]_mutexVars => [Atomic!AtomicNext]_(Atomic!registryVars)
<1> SUFFICES ASSUME LineInv, [RegistryNext]_mutexVars
             PROVE  Atomic!AtomicNext \/ UNCHANGED <<store, [d \in Accesses |-> Mapped(d)], before>>
  BY DEF Atomic!registryVars
<1>1. CASE UNCHANGED mutexVars
  BY <1>1, OthersMap DEF mutexVars
<1>2. ASSUME NEW c \in Accesses, NEW r \in Records, NEW k \in AccessKinds, Called(c, r, k)
      PROVE  Atomic!AtomicNext
  BY <1>2, CalledMaps DEF Atomic!AtomicNext, Atomic!AccessKinds, AccessKinds
<1>3. ASSUME NEW c \in Accesses, Begins(c) \/ CleansUp(c) \/ (Reads(c) /\ entry[c].kind # "get")
      PROVE  UNCHANGED <<store, [d \in Accesses |-> Mapped(d)], before>>
  BY <1>3, NothingMaps
<1>4. ASSUME NEW c \in Accesses, Writes(c) \/ Fails(c) \/ (Reads(c) /\ entry[c].kind = "get")
      PROVE  Atomic!AtomicNext
  BY <1>4, GetMaps, WriteMaps, FailMaps DEF Atomic!AtomicNext
<1> QED
  BY <1>1, <1>2, <1>3, <1>4 DEF RegistryNext

-----------------------------------------------------------------------------
\* The line of calls on a record is always whole: of two calls under way one is in front, the
\* tail is behind all, and what a call in its turn has read is still in the store.
THEOREM LineIsWhole == RegistrySpec => []LineInv
<1>1. RegistryInit => LineInv
  BY LineInitHolds
<1>2. LineInv /\ [RegistryNext]_mutexVars => LineInv'
  BY NextKeeps
<1> QED
  BY <1>1, <1>2, PTL DEF RegistrySpec

\* A record behind its mutex changes in one step per call, in the order of the calls, and the
\* listeners are told the value each change really replaced, for any number of calls and
\* records and whatever the store throws.
THEOREM RegistryIsAtomic == RegistrySpec => ImplementsAtomic
<1>1. RegistryInit => Atomic!AtomicInit
  BY InitMaps
<1>2. LineInv /\ [RegistryNext]_mutexVars => [Atomic!AtomicNext]_(Atomic!registryVars)
  BY NextMaps
<1> QED
  BY <1>1, <1>2, LineIsWhole, PTL DEF RegistrySpec, ImplementsAtomic, Atomic!AtomicSpec

-----------------------------------------------------------------------------
(* Storages: the id that a get-or-create is about to store is new, and its  *)
(* name is free because it holds the lock of the name.                      *)

NamesHeld == StorageNames \cup {Unnamed}

StorageRequests ==
    [at : {"ready"}] \cup [at : {"find", "open"}, user : Owners, name : NamesHeld]
        \cup [at : {"set"}, id : StorageIds, user : Owners, name : NamesHeld]
        \cup [at : {"access", "touch", "rename", "drop", "delete"}, id : StorageIds]

StoragesTypeOK ==
    /\ storages \in [DOMAIN storages -> [user : Owners, name : NamesHeld]]
    /\ DOMAIN storages \subseteq StorageIds /\ fresh \subseteq StorageIds
    /\ createLock \in [LockKeys -> Callers \cup {NotHeld}]
    /\ calls \in [Callers -> StorageRequests]

\* The request is between the lock and its release.
InSection(c) == calls[c].at \in {"find", "open", "set"} /\ calls[c].name # Unnamed

HoldsLock == \A c \in Callers : InSection(c) => createLock[LockKey(calls[c].user, calls[c].name)] = c

\* An id that is to be stored was never stored, and is of one request.
NewIds ==
    /\ fresh \cap (DOMAIN storages \cup renamed) = {}
    /\ \A c \in Callers : calls[c].at = "set" => calls[c].id \notin fresh \cup DOMAIN storages \cup renamed
    /\ \A c, d \in Callers : calls[c].at = "set" /\ calls[d].at = "set" /\ calls[c].id = calls[d].id => c = d

\* What was looked for and not found is still not there.
NameFree ==
    \A c \in Callers :
        InSection(c) /\ calls[c].at # "find" => Owned(calls[c].user, calls[c].name) \subseteq renamed

StoragesInv == StoragesTypeOK /\ HoldsLock /\ NewIds /\ NameFree /\ OneStoragePerName

LEMMA StoragesInitHolds == StoragesInit => StoragesInv
BY DEF StoragesInit, StoragesInv, StoragesTypeOK, HoldsLock, NewIds, NameFree, OneStoragePerName, InSection, Ready, StorageRequests, NamesHeld

\* The key of a named request is one of the lock's.
LEMMA KeyIsLockKey ==
    ASSUME NEW user \in Owners, NEW name \in NamesHeld, name # Unnamed
    PROVE  LockKey(user, name) \in LockKeys
BY DEF LockKey, LockKeys, NamesHeld

LEMMA StartHolds ==
    ASSUME StoragesInv, NEW c \in Callers, NEW user \in Owners, NEW name \in NamesHeld, GetOrCreateStarts(c, user, name)
    PROVE  StoragesInv'
<1> USE DEF StoragesInv, GetOrCreateStarts, StepsTo, Ready
<1>1. StoragesTypeOK'
  <2>1. CASE name = Unnamed
    BY <2>1 DEF StoragesTypeOK, StorageRequests
  <2>2. CASE name # Unnamed
    <3>1. LockKey(user, name) \in DOMAIN createLock
      BY <2>2, KeyIsLockKey DEF StoragesTypeOK
    <3>2. createLock' \in [LockKeys -> Callers \cup {NotHeld}]
      BY <2>2, <3>1 DEF StoragesTypeOK
    <3>3. calls' \in [Callers -> StorageRequests]
      BY <2>2 DEF StoragesTypeOK, StorageRequests
    <3> QED BY <3>2, <3>3 DEF StoragesTypeOK
  <2> QED BY <2>1, <2>2
<1>2. HoldsLock'
  <2>1. CASE name = Unnamed
    BY <2>1 DEF StoragesTypeOK, HoldsLock, InSection, LockKey, normalizeName
  <2>2. CASE name # Unnamed
    <3> DEFINE key == LockKey(user, name)
    <3>1. key \in DOMAIN createLock /\ createLock[key] = NotHeld
      BY <2>2, KeyIsLockKey DEF StoragesTypeOK
    <3>2. createLock' = [createLock EXCEPT ![key] = c]
      BY <2>2, <3>1 DEF StoragesTypeOK
    <3> SUFFICES ASSUME NEW d \in Callers, InSection(d)'
                 PROVE  (createLock[LockKey(calls[d].user, calls[d].name)] = d)'
      BY DEF HoldsLock
    <3>3. CASE d = c
      BY <2>2, <3>1, <3>2, <3>3 DEF StoragesTypeOK, LockKey
    <3>4. CASE d # c
      <4>1. calls'[d] = calls[d] /\ InSection(d)
        BY <2>2, <3>4 DEF StoragesTypeOK, InSection
      <4>2. createLock[LockKey(calls[d].user, calls[d].name)] = d
        BY <4>1 DEF HoldsLock
      <4>3. LockKey(calls[d].user, calls[d].name) # key
        BY <4>2, <3>1, NotHeldAssumption
      <4>4. createLock'[LockKey(calls[d].user, calls[d].name)] = d
        <5>1. calls[d].user \in Owners /\ calls[d].name \in NamesHeld
          BY <4>1 DEF StoragesTypeOK, InSection, StorageRequests
        <5>2. LockKey(calls[d].user, calls[d].name) \in LockKeys
          BY <5>1, <4>1, KeyIsLockKey DEF InSection
        <5> QED BY <5>2, <4>2, <4>3, <3>2 DEF StoragesTypeOK
      <4> QED BY <4>1, <4>4 DEF LockKey
    <3> QED BY <3>3, <3>4
  <2> QED BY <2>1, <2>2
<1>3. NewIds'
  BY DEF StoragesTypeOK, NewIds
<1>4. NameFree'
  BY DEF StoragesTypeOK, NameFree, InSection, Owned, normalizeName
<1>5. OneStoragePerName'
  BY DEF OneStoragePerName
<1> QED BY <1>1, <1>2, <1>3, <1>4, <1>5

\* A request that lets go of its lock leaves the locks of the others.
LEMMA ReleaseKeepsOthers ==
    ASSUME StoragesTypeOK, HoldsLock, NEW c \in Callers, createLock' = LockReleased(c),
           NEW d \in Callers, d # c, InSection(d), calls'[d] = calls[d]
    PROVE  (createLock[LockKey(calls[d].user, calls[d].name)] = d)'
<1>1. LockKey(calls[d].user, calls[d].name) \in LockKeys
  <2>1. calls[d].user \in Owners /\ calls[d].name \in NamesHeld
    BY DEF StoragesTypeOK, InSection, StorageRequests
  <2> QED BY <2>1, KeyIsLockKey DEF InSection
<1>2. createLock[LockKey(calls[d].user, calls[d].name)] = d
  BY DEF HoldsLock
<1> QED BY <1>1, <1>2 DEF StoragesTypeOK, LockReleased, LockKey, normalizeName

LEMMA ReleaseIsTyped ==
    ASSUME StoragesTypeOK, NEW c \in Callers
    PROVE  LockReleased(c) \in [LockKeys -> Callers \cup {NotHeld}]
BY DEF StoragesTypeOK, LockReleased

LEMMA FoundHolds ==
    ASSUME StoragesInv, NEW c \in Callers, Found(c)
    PROVE  StoragesInv'
<1> USE DEF StoragesInv, Found, StepsTo, Ready
<1>1. CASE Owned(calls[c].user, calls[c].name) = {}
  <2>1. StoragesTypeOK'
    BY <1>1 DEF StoragesTypeOK, StorageRequests
  <2>2. \A d \in Callers : d # c => calls'[d] = calls[d]
    BY <1>1 DEF StoragesTypeOK
  <2>3. calls'[c] = [calls[c] EXCEPT !.at = "open"]
    BY <1>1 DEF StoragesTypeOK
  <2>4. calls'[c].at = "open" /\ calls'[c].user = calls[c].user /\ calls'[c].name = calls[c].name
    BY <2>3 DEF StoragesTypeOK, StorageRequests
  <2>5. HoldsLock'
    BY <1>1, <2>2, <2>4 DEF HoldsLock, InSection, LockKey, normalizeName
  <2>6. NewIds'
    BY <2>2, <2>4 DEF NewIds
  <2>7. NameFree'
    BY <1>1, <2>2, <2>4 DEF NameFree, InSection, Owned, normalizeName
  <2> QED BY <2>1, <2>5, <2>6, <2>7 DEF OneStoragePerName
<1>2. CASE Owned(calls[c].user, calls[c].name) # {}
  <2>1. createLock' = LockReleased(c) /\ calls' = [calls EXCEPT ![c] = Ready]
    BY <1>2
  <2>2. StoragesTypeOK'
    BY <2>1, ReleaseIsTyped DEF StoragesTypeOK, StorageRequests
  <2>3. calls'[c].at = "ready" /\ \A d \in Callers : d # c => calls'[d] = calls[d]
    BY <2>1 DEF StoragesTypeOK
  <2>4. HoldsLock'
    BY <2>1, <2>3, ReleaseKeepsOthers DEF HoldsLock, InSection
  <2>5. NewIds' /\ NameFree'
    BY <2>3 DEF NewIds, NameFree, InSection, Owned, normalizeName
  <2> QED BY <2>2, <2>4, <2>5 DEF OneStoragePerName
<1> QED BY <1>1, <1>2

LEMMA OpenedHolds ==
    ASSUME StoragesInv, NEW c \in Callers, Opened(c)
    PROVE  StoragesInv'
<1> USE DEF StoragesInv, Opened, StepsTo
<1>1. PICK i \in fresh :
        /\ fresh' = fresh \ {i}
        /\ calls' = [calls EXCEPT ![c] =
               [at |-> "set", id |-> i, user |-> calls[c].user, name |-> calls[c].name]]
  OBVIOUS
<1>2. StoragesTypeOK'
  BY <1>1 DEF StoragesTypeOK, StorageRequests
<1>3. /\ calls'[c].at = "set" /\ calls'[c].id = i
      /\ calls'[c].user = calls[c].user /\ calls'[c].name = calls[c].name
      /\ \A d \in Callers : d # c => calls'[d] = calls[d]
  BY <1>1 DEF StoragesTypeOK
<1>4. HoldsLock'
  BY <1>3 DEF HoldsLock, InSection, LockKey, normalizeName
<1>5. NewIds'
  BY <1>1, <1>3 DEF NewIds
<1>6. NameFree'
  BY <1>3 DEF NameFree, InSection, Owned, normalizeName
<1> QED BY <1>2, <1>4, <1>5, <1>6 DEF OneStoragePerName

\* The one step that adds a storage: no other request has the lock of its name, so none has
\* looked for it in vain, and there was none.
LEMMA CreatedHolds ==
    ASSUME StoragesInv, NEW c \in Callers, Created(c)
    PROVE  StoragesInv'
<1> DEFINE call == calls[c]
           stored == [user |-> call.user, name |-> call.name]
<1> USE DEF StoragesInv, Created, StepsTo, Ready
<1>1. call.id \in StorageIds /\ call.user \in Owners /\ call.name \in NamesHeld
  BY DEF StoragesTypeOK, StorageRequests
<1>2. call.id \notin DOMAIN storages /\ call.id \notin renamed /\ call.id \notin fresh
  BY DEF NewIds
<1>3. /\ DOMAIN storages' = DOMAIN storages \cup {call.id}
      /\ storages'[call.id] = stored
      /\ \A i \in DOMAIN storages : storages'[i] = storages[i]
  BY <1>2
<1>4. /\ calls'[c].at = "ready"
      /\ \A d \in Callers : d # c => calls'[d] = calls[d]
  BY DEF StoragesTypeOK
<1>5. StoragesTypeOK'
  <2>1. storages' \in [DOMAIN storages' -> [user : Owners, name : NamesHeld]]
    <3>1. \A i \in DOMAIN storages' : storages'[i] \in [user : Owners, name : NamesHeld]
      BY <1>1, <1>3 DEF StoragesTypeOK
    <3>2. storages' = [i \in DOMAIN storages' |-> storages'[i]]
      BY <1>3
    <3> QED BY <3>1, <3>2
  <2>2. calls' \in [Callers -> StorageRequests]
    BY DEF StoragesTypeOK, StorageRequests
  <2> QED BY <2>1, <2>2, <1>1, <1>3, ReleaseIsTyped DEF StoragesTypeOK
<1>6. HoldsLock'
  BY <1>4, ReleaseKeepsOthers DEF HoldsLock, InSection
<1>7. NewIds'
  BY <1>2, <1>3, <1>4 DEF NewIds
<1>8. NameFree'
  <2> SUFFICES ASSUME NEW d \in Callers, InSection(d)', calls'[d].at # "find",
                      NEW i \in Owned(calls[d].user, calls[d].name)'
               PROVE  i \in renamed
    BY DEF NameFree
  <2>0. /\ d # c /\ InSection(d) /\ calls[d].at # "find" /\ i \in DOMAIN storages \cup {call.id}
        /\ storages'[i].user = calls[d].user /\ storages'[i].name # Unnamed
        /\ normalizeName(storages'[i].name) = normalizeName(calls[d].name)
    BY <1>3, <1>4 DEF InSection, Owned, normalizeName
  <2>1. CASE i = call.id
    <3>1. InSection(c) /\ LockKey(call.user, call.name) = LockKey(calls[d].user, calls[d].name)
      BY <2>0, <2>1, <1>3 DEF InSection, LockKey
    <3>2. c = d
      BY <2>0, <3>1 DEF HoldsLock
    <3> QED BY <2>0, <3>2
  <2>2. CASE i # call.id
    BY <2>0, <2>2, <1>3 DEF NameFree, Owned
  <2> QED BY <2>1, <2>2
<1>9. OneStoragePerName'
  <2>1. call.name # Unnamed => \A i \in DOMAIN storages \ renamed :
            ~ (/\ storages[i].user = call.user /\ storages[i].name # Unnamed
               /\ normalizeName(storages[i].name) = normalizeName(call.name))
    BY DEF NameFree, InSection, Owned
  <2> QED BY <2>1, <1>2, <1>3 DEF OneStoragePerName
<1> QED BY <1>5, <1>6, <1>7, <1>8, <1>9

\* A rename marks its storage, which the property then leaves out; no other one changes.
LEMMA RenamedHolds ==
    ASSUME StoragesInv, NEW c \in Callers, NEW name \in StorageNames, Renamed(c, name)
    PROVE  StoragesInv'
<1> USE DEF StoragesInv, Renamed, StepsTo, Ready
<1>1. /\ calls'[c].at = "ready" /\ calls[c].at = "rename" /\ calls' \in [Callers -> StorageRequests]
      /\ \A d \in Callers : d # c => calls'[d] = calls[d]
  BY DEF StoragesTypeOK, StorageRequests
<1>2. /\ DOMAIN storages' = DOMAIN storages /\ renamed \subseteq renamed'
      /\ renamed' \subseteq renamed \cup DOMAIN storages
      /\ \A i \in DOMAIN storages \ renamed' : storages'[i] = storages[i]
  BY DEF StoragesTypeOK
<1>3. StoragesTypeOK'
  BY <1>1 DEF StoragesTypeOK, NamesHeld
<1>4. HoldsLock'
  BY <1>1 DEF HoldsLock, InSection, LockKey, normalizeName
<1>5. NewIds'
  BY <1>1, <1>2 DEF NewIds
<1>6. NameFree'
  BY <1>1, <1>2 DEF NameFree, InSection, Owned, normalizeName
<1>7. OneStoragePerName'
  BY <1>2 DEF OneStoragePerName, normalizeName
<1> QED BY <1>3, <1>4, <1>5, <1>6, <1>7

LEMMA DeletedHolds ==
    ASSUME StoragesInv, NEW c \in Callers, Deleted(c)
    PROVE  StoragesInv'
<1> USE DEF StoragesInv, Deleted, StepsTo, Ready
<1>1. /\ calls'[c].at = "ready" /\ calls[c].at = "delete" /\ calls' \in [Callers -> StorageRequests]
      /\ \A d \in Callers : d # c => calls'[d] = calls[d]
  BY DEF StoragesTypeOK, StorageRequests
<1>2. DOMAIN storages' \subseteq DOMAIN storages /\ \A i \in DOMAIN storages' : storages'[i] = storages[i]
  OBVIOUS
<1>3. StoragesTypeOK'
  BY <1>1 DEF StoragesTypeOK
<1>4. HoldsLock'
  BY <1>1 DEF HoldsLock, InSection, LockKey, normalizeName
<1>5. NewIds' /\ NameFree'
  BY <1>1, <1>2 DEF NewIds, NameFree, InSection, Owned, normalizeName
<1>6. OneStoragePerName'
  BY <1>2 DEF OneStoragePerName, normalizeName
<1> QED BY <1>3, <1>4, <1>5, <1>6

\* The steps of a request that has no lock and leaves the records.
LEMMA ContentHolds ==
    ASSUME StoragesInv, NEW c \in Callers,
           \/ \E user \in Owners, operation \in {"access", "rename", "drop"} : Resolved(c, user, operation)
           \/ Accessed(c) \/ KeyValueStoreAccessed(c) \/ Touched(c) \/ Dropped(c)
    PROVE  StoragesInv'
<1> USE DEF StoragesInv, Resolved, Accessed, KeyValueStoreAccessed, Touched, Dropped, StepsTo, Ready
<1>1. UNCHANGED <<storages, createLock, fresh, renamed>>
  OBVIOUS
<1>2. /\ calls' \in [Callers -> StorageRequests]
      /\ calls'[c].at \notin {"find", "open", "set"}
      /\ \A d \in Callers : d # c => calls'[d] = calls[d]
  BY DEF StoragesTypeOK, StorageRequests
<1>3. StoragesTypeOK'
  BY <1>1, <1>2 DEF StoragesTypeOK
<1>4. HoldsLock' /\ NewIds' /\ NameFree' /\ OneStoragePerName'
  BY <1>1, <1>2
     DEF HoldsLock, NewIds, NameFree, OneStoragePerName, InSection, LockKey, Owned, normalizeName
<1> QED BY <1>3, <1>4

LEMMA StoragesNextHolds == StoragesInv /\ [StoragesNext]_storageVars => StoragesInv'
<1> SUFFICES ASSUME StoragesInv, [StoragesNext]_storageVars PROVE StoragesInv'
  OBVIOUS
<1>1. ASSUME NEW c \in Callers, NEW user \in Owners, NEW name \in StorageNames \cup {Unnamed},
             GetOrCreateStarts(c, user, name)
      PROVE  StoragesInv'
  BY <1>1, StartHolds DEF NamesHeld
<1>2. ASSUME NEW c \in Callers, Found(c) \/ Opened(c) \/ Created(c) \/ Deleted(c) PROVE StoragesInv'
  BY <1>2, FoundHolds, OpenedHolds, CreatedHolds, DeletedHolds
<1>3. CASE UNCHANGED storageVars
  BY <1>3 DEF storageVars, StoragesInv, StoragesTypeOK, HoldsLock, NewIds, NameFree, OneStoragePerName, InSection,
              LockKey, Owned, normalizeName
<1> QED BY <1>1, <1>2, <1>3, RenamedHolds, ContentHolds DEF StoragesNext

\* However get-or-creates of a name, in any casing, overlap with each other and with reads,
\* writes and deletes, a user has one storage of the name, but for renames
\* (services/storages.ts, createStorage under createByNameMutex).
THEOREM NameMintsOnce == StoragesSpec => []OneStoragePerName
<1>1. StoragesInv => OneStoragePerName
  BY DEF StoragesInv
<1> QED BY StoragesInitHolds, StoragesNextHolds, <1>1, PTL DEF StoragesSpec

-----------------------------------------------------------------------------
(* StandbyConfig: Valid is not inductive for the merge of two records. It   *)
(* is because a task stores all of the integer fields, which then win       *)
(* together or not at all.                                                  *)

TaskSettings(s) == DOMAIN s = Fields \ ActorOnlyFields /\ Valid(s)

ActorStored == actorStandby = NoSettings \/ Valid(actorStandby)
TaskStored == taskStandby = NoSettings \/ TaskSettings(taskStandby)
EditsSound ==
    \A e \in ConfigEditors :
        /\ edits[e].of = "actor" => Valid(edits[e].settings)
        /\ edits[e].of = "task" =>
              edits[e].settings = NoSettings \/ TaskSettings(edits[e].settings)

\* The inductive invariant: what is stored, and what is about to be, obeys the rules.
StandbyInv == edits = [e \in ConfigEditors |-> edits[e]] /\ ActorStored /\ TaskStored /\ EditsSound

\* The integer fields are the task's when it has settings.
LEMMA OverIsValid ==
    ASSUME NEW t, NEW a, TaskSettings(t)
    PROVE  Valid(Over(t, a))
  BY DEF TaskSettings, Valid, Over, Fields, IntegerFields, BooleanFields, ActorOnlyFields

\* Leaving out the Actor's own fields leaves the rules as they are.
LEMMA TaskFieldsSound ==
    ASSUME NEW body, NEW m, Valid(m)
    PROVE  TaskSettings(TaskFields(body, m))
  BY DEF TaskSettings, TaskFields, Valid, Fields, IntegerFields, BooleanFields, ActorOnlyFields

LEMMA StandbyInvImplies == StandbyInv => EffectiveConfigValid
  BY OverIsValid DEF StandbyInv, ActorStored, TaskStored, EffectiveConfigValid, taskStandbyConfig

LEMMA StandbyInitSound == StandbyConfigInit => StandbyInv
  BY DEF StandbyConfigInit, StandbyInv, ActorStored, TaskStored, EditsSound, Nothing

LEMMA StandbyNextSound == StandbyInv /\ [StandbyConfigNext]_standbyConfigVars => StandbyInv'
<1> SUFFICES ASSUME StandbyInv, [StandbyConfigNext]_standbyConfigVars PROVE StandbyInv'
  OBVIOUS
<1> USE DEF StandbyInv, ActorStored, TaskStored, EditsSound
<1>1. CASE UNCHANGED standbyConfigVars
  BY <1>1 DEF standbyConfigVars
<1>2. CASE PushEnables
  BY <1>2 DEF PushEnables
<1>3. ASSUME NEW e \in ConfigEditors, NEW body \in ActorBodies, PutActor(e, body) PROVE StandbyInv'
  BY <1>3 DEF PutActor
<1>4. ASSUME NEW e \in ConfigEditors, NEW body \in TaskBodies, PutTask(e, body) PROVE StandbyInv'
  <2>1. TaskSettings(TaskFields(body, Merged(body, taskStandby)))
    BY <1>4, TaskFieldsSound DEF PutTask
  <2> QED BY <1>4, <2>1 DEF PutTask
<1>5. ASSUME NEW e \in ConfigEditors, ClearTask(e) PROVE StandbyInv'
  BY <1>5 DEF ClearTask
<1>6. ASSUME NEW e \in ConfigEditors, Stored(e) PROVE StandbyInv'
  BY <1>6 DEF Stored, Nothing
<1> QED
  BY <1>1, <1>2, <1>3, <1>4, <1>5, <1>6 DEF StandbyConfigNext

\* services/standby-config.ts:50: for all bodies and all overlaps of edits, the config a
\* standby run is started and filled by obeys the rules of the merge.
THEOREM ConfigAlwaysValid == StandbyConfigSpec => []EffectiveConfigValid
  BY StandbyInitSound, StandbyNextSound, StandbyInvImplies, PTL DEF StandbyConfigSpec

-----------------------------------------------------------------------------
(* Pricing: every list that is stored or read is a history of its own.      *)

\* What one entry of a list is charged at is settled.
EntryOK(info) ==
    /\ info.startedAt \in Nat
    /\ validatePricingInfo(info)
    /\ info.events # FREE => \A e \in DOMAIN info.events :
          info.events[e].tiers # Omitted =>
              \A tier \in DOMAIN info.events[e].tiers : info.events[e].tiers[tier] # Omitted

\* A list is in order, with one entry to come at most.
Listed(list) ==
    /\ Len(list) \in Nat /\ DOMAIN list = 1..Len(list)
    /\ \A i \in 1..Len(list) : EntryOK(list[i])
    /\ \A i, j \in 1..Len(list) : i < j => list[i].startedAt < list[j].startedAt

OneToCome(list) == \A i, j \in 1..Len(list) : Future(list[i]) /\ Future(list[j]) => i = j

PricingInv ==
    /\ day \in Nat
    /\ Listed(pricingInfos) /\ OneToCome(pricingInfos)
    /\ submitted = [e \in PriceEditors |-> submitted[e]]
    /\ \A e \in PriceEditors : submitted[e].ok => Listed(submitted[e].list) /\ OneToCome(submitted[e].list)
    /\ starting = [r \in PricedRuns |-> starting[r]]
    /\ \A r \in PricedRuns : starting[r].at = "read" => Listed(starting[r].list)
    /\ PricedByOneEntry

LEMMA PricingInitHolds == PricingInit => PricingInv
BY DEF PricingInit, PricingInv, Listed, OneToCome, PricedByOneEntry, NothingSubmitted, NotRequested

\* A submission is what was there and one entry more at most, later than all of it.
LEMMA SubmissionListed ==
    ASSUME PricingAssumption, day \in Nat, NEW given \in PriceLists, NEW existing,
           Listed(existing), OneToCome(existing), validatePricingInfosUpdate(Filled(given), existing)
    PROVE  Listed(Filled(given)) /\ OneToCome(Filled(given))
<1> DEFINE n == Len(given)  m == Len(existing)  list == Filled(given)
<1>1. /\ given \in Seq(SubmittedInfos) /\ n \in Nat /\ DOMAIN given = 1..n
      /\ \A i \in 1..n : given[i] \in SubmittedInfos
  BY DEF PricingAssumption
<1>2. /\ DOMAIN list = 1..n
      /\ \A i \in 1..n : list[i] = IF given[i].startedAt = Omitted
                                   THEN [given[i] EXCEPT !.startedAt = day] ELSE given[i]
  BY <1>1 DEF Filled
<1>3. \A i \in 1..n : EntryOK(list[i])
  <2> SUFFICES ASSUME NEW i \in 1..n PROVE EntryOK(list[i])
    OBVIOUS
  <2> DEFINE info == given[i]
  <2>1. /\ info \in SubmittedInfos /\ DOMAIN info = {"startedAt", "events"}
        /\ info.startedAt \in Nat \cup {Omitted}
        /\ info.events # FREE => \A e \in DOMAIN info.events :
              info.events[e].tiers # Omitted =>
                  \A tier \in DOMAIN info.events[e].tiers : info.events[e].tiers[tier] # Omitted
    BY <1>1 DEF PricingAssumption
  <2>2. list[i].startedAt \in Nat /\ list[i].events = info.events
    BY <1>2, <2>1
  <2>3. validatePricingInfo(list[i])
    BY <1>2 DEF validatePricingInfosUpdate
  <2> QED BY <2>1, <2>2, <2>3 DEF EntryOK
<1>4. Len(list) = n
  <2>1. list \in Seq({list[i] : i \in 1..n})
    BY <1>1, <1>2 DEF Filled
  <2> QED BY <1>1, <1>2, <2>1
<1>5. /\ m \in Nat /\ DOMAIN existing = 1..m /\ n \in Nat /\ (n = m \/ n = m + 1)
      /\ SubSeq(list, 1, m) = existing
  <2>1. m \in Nat /\ DOMAIN existing = 1..m
    BY DEF Listed
  <2>2. n - m \in {0, 1} /\ SubSeq(list, 1, m) = existing
    BY <1>4 DEF validatePricingInfosUpdate
  <2>3. \A a, b \in Nat : a - b \in {0, 1} => a = b \/ a = b + 1
    OBVIOUS
  <2> QED BY <1>1, <2>1, <2>2, <2>3
<1> HIDE DEF list, n, m
<1>6. \A i \in 1..m : list[i] = existing[i]
  <2>1. \A i \in 1..m : list[i] \in {list[k] : k \in 1..m}
    OBVIOUS
  <2>2. \A i \in 1..(m - 1 + 1) : SubSeq(list, 1, m)[i] = list[1 + i - 1]
    BY <1>5, <2>1, SubSeqProperties
  <2>3. m - 1 + 1 = m /\ \A i \in 1..m : 1 + i - 1 = i
    BY <1>5
  <2> QED BY <1>5, <2>2, <2>3
<1>7. n = m + 1 => /\ \A i \in 1..m : list[n].startedAt > existing[i].startedAt
                   /\ ~(Future(list[n]) /\ \E i \in 1..m : Future(existing[i]))
  BY <1>4, <1>5 DEF validatePricingInfosUpdate, list, n, m
<1>8. \A i \in 1..n : i \in 1..m \/ (n = m + 1 /\ i = n)
  BY <1>5
<1>9. ASSUME NEW i \in 1..n, NEW j \in 1..n, i < j PROVE list[i].startedAt < list[j].startedAt
  <2>1. i \in 1..m /\ (j \in 1..m \/ (n = m + 1 /\ j = n))
    BY <1>5, <1>8, <1>9
  <2>2. list[i] = existing[i] /\ existing[i].startedAt \in Nat /\ list[j].startedAt \in Nat
    BY <1>3, <1>6, <2>1 DEF EntryOK, m
  <2>3. CASE j \in 1..m
    BY <1>6, <1>9, <2>1, <2>2, <2>3 DEF Listed, m
  <2>4. CASE n = m + 1 /\ j = n
    BY <1>7, <2>1, <2>2, <2>4
  <2> QED BY <2>1, <2>3, <2>4
<1>10. ASSUME NEW i \in 1..n, NEW j \in 1..n, Future(list[i]), Future(list[j]) PROVE i = j
  <2>1. CASE i \in 1..m /\ j \in 1..m
    BY <1>6, <1>10, <2>1 DEF OneToCome, m
  <2>2. CASE n = m + 1 /\ i = n /\ j \in 1..m
    BY <1>6, <1>7, <1>10, <2>2
  <2>3. CASE n = m + 1 /\ j = n /\ i \in 1..m
    BY <1>6, <1>7, <1>10, <2>3
  <2> QED BY <1>8, <2>1, <2>2, <2>3
<1> QED BY <1>1, <1>2, <1>3, <1>4, <1>9, <1>10 DEF Listed, OneToCome, list, n

\* Of a list in order one entry at most is in force, and it has all its prices.
LEMMA OneInForce ==
    ASSUME NEW list, Listed(list), NEW date \in Nat,
           NEW p \in {resolveRunPricingInfo(i) : i \in effectivePricingInfo(list, date)},
           NEW q \in {resolveRunPricingInfo(i) : i \in effectivePricingInfo(list, date)}
    PROVE  p = q /\ (p.events # FREE => \A e \in DOMAIN p.events : p.events[e] # Omitted)
<1>1. PICK i \in 1..Len(list), j \in 1..Len(list) :
          /\ p = resolveRunPricingInfo(list[i]) /\ q = resolveRunPricingInfo(list[j])
          /\ list[i].startedAt <= list[j].startedAt /\ list[j].startedAt <= list[i].startedAt
  BY DEF effectivePricingInfo, Listed
<1>2. i = j
  <2>1. list[i].startedAt \in Nat /\ list[j].startedAt \in Nat /\ i \in Nat /\ j \in Nat
    BY DEF Listed, EntryOK
  <2>2. ~(i < j) /\ ~(j < i)
    BY <1>1, <2>1 DEF Listed
  <2> QED BY <2>1, <2>2
<1>3. EntryOK(list[i])
  BY DEF Listed
<1>4. p.events # FREE => \A e \in DOMAIN p.events : p.events[e] # Omitted
  BY <1>1, <1>3 DEF EntryOK, resolveRunPricingInfo, validatePricingInfo, validateChargeEvent, RESOLVED_PRICING_TIER
<1> QED BY <1>1, <1>2, <1>4

LEMMA PricingNextHolds ==
    ASSUME PricingAssumption, PricingInv, [PricingNext]_pricingVars
    PROVE  PricingInv'
<1>1. ASSUME NEW e \in PriceEditors, NEW given \in PriceLists, Submits(e, given) PROVE PricingInv'
  <2>1. Listed(Filled(given)) /\ OneToCome(Filled(given))
    BY <1>1, SubmissionListed DEF Submits, PricingInv
  <2>2. PICK list : list = Filled(given)
    OBVIOUS
  <2>3. /\ submitted' = [submitted EXCEPT ![e] = [ok |-> TRUE, list |-> list]]
        /\ UNCHANGED <<pricingInfos, day, starting>> /\ Listed(list) /\ OneToCome(list)
    BY <1>1, <2>1, <2>2 DEF Submits
  <2>4. \A l : OneToCome(l)' = OneToCome(l)
    BY <2>3 DEF OneToCome, Future
  <2> QED BY <2>3, <2>4 DEF PricingInv, PricedByOneEntry
<1>2. ASSUME NEW e \in PriceEditors, PricesStored(e) PROVE PricingInv'
  BY ZenonT(40), <1>2 DEF PricesStored, PricingInv, PricedByOneEntry, OneToCome, Future, NothingSubmitted
<1>3. ASSUME NEW r \in PricedRuns, RunRequested(r) PROVE PricingInv'
  BY <1>3 DEF RunRequested, PricingInv, PricedByOneEntry, OneToCome, Future
<1>4. ASSUME NEW r \in PricedRuns, RunPriced(r) PROVE PricingInv'
  <2> DEFINE by == {resolveRunPricingInfo(i) : i \in effectivePricingInfo(starting[r].list, day)}
  <2>1. /\ starting' = [starting EXCEPT ![r] = [at |-> "priced", by |-> by]]
        /\ UNCHANGED <<pricingInfos, day, submitted>>
    BY <1>4 DEF RunPriced
  <2>2. \A p, q \in by : p = q /\ (p.events # FREE => \A e \in DOMAIN p.events : p.events[e] # Omitted)
    BY ZenonT(40), <1>4, OneInForce DEF RunPriced, PricingInv
  <2> HIDE DEF by
  <2> QED BY <2>1, <2>2 DEF PricingInv, PricedByOneEntry, OneToCome, Future
<1>5. CASE DayPasses
  <2>1. day' = day + 1 /\ day \in Nat /\ UNCHANGED <<pricingInfos, submitted, starting>>
    BY <1>5 DEF DayPasses, PricingInv
  <2>2. ASSUME NEW list, Listed(list), OneToCome(list) PROVE OneToCome(list)'
    BY <2>1, <2>2 DEF OneToCome, Future, Listed, EntryOK
  <2> QED BY <2>1, <2>2 DEF PricingInv, PricedByOneEntry
<1>6. CASE UNCHANGED pricingVars
  BY <1>6 DEF pricingVars, PricingInv, PricedByOneEntry, OneToCome, Future
<1> QED BY <1>1, <1>2, <1>3, <1>4, <1>5, <1>6 DEF PricingNext

\* However submissions of prices overlap, the list is in the order its entries start, one at
\* most is to come, and a run is priced by one entry that has every price
\* (services/pricing.ts, validatePricingInfosUpdate, effectivePricingInfo, resolveRunPricingInfo).
THEOREM PricesStayAHistory == PricingSpec => []PricesAreAHistory
<1>1. PricingInv => PricesAreAHistory
  BY DEF PricingInv, PricesAreAHistory, HistoryInOrder, Listed, OneToCome
<1> QED BY PricingAssumption, PricingInitHolds, PricingNextHolds, <1>1, PTL DEF PricingSpec

-----------------------------------------------------------------------------
(* ActorVersions: a file is of the version it was pushed for, and whoever   *)
(* deletes it has taken it from that version.                               *)

Pending(e, op) == editor[e].at = "update" /\ editor[e].op = op

\* The files that a request deletes, or will.
Doomed(e) == IF editor[e].at = "delete" \/ Pending(e, "actor") THEN editor[e].doomed ELSE {}

VersionsTypeOK ==
    /\ used \subseteq Files /\ files \subseteq used
    /\ DOMAIN version \subseteq Versions /\ version = [v \in DOMAIN version |-> version[v]]
    /\ \A v \in DOMAIN version :
          DOMAIN version[v] = {"context", "env"} /\ version[v].context \in used \cup {NoFile}
    /\ editor = [e \in Editors |-> editor[e]]
    /\ \A e \in Editors :
        /\ editor[e].at = "delete" => editor[e] = [at |-> "delete", doomed |-> editor[e].doomed]
        /\ editor[e].at = "update" /\ editor[e].op # "actor" => editor[e].number \in Versions
    /\ ~actor => DOMAIN version = {}

\* The file of a push under way is stored, and nobody else's.
PushesAreFresh ==
    \A e \in Editors : Pending(e, "push") =>
        /\ editor[e].file \in files
        /\ \A v \in DOMAIN version : version[v].context # editor[e].file
        /\ \A d \in Editors :
            /\ editor[e].file \notin Doomed(d)
            /\ Pending(d, "push") => d = e \/ editor[d].file # editor[e].file
            /\ Pending(d, "put") \/ Pending(d, "delete") => editor[d].existing # editor[e].file

\* What is to be deleted is named by no version any more but by one that was put back; what a
\* delete of the Actor will delete goes with all the versions.
DoomedAreTaken ==
    \A e \in Editors :
        /\ Doomed(e) \subseteq used
        /\ editor[e].at = "delete" =>
              \A v \in DOMAIN version \ putBack : version[v].context \notin editor[e].doomed

\* o says which version a file was pushed for.
PushedFor(o) ==
    /\ \A v \in DOMAIN version : version[v].context # NoFile => o[version[v].context] = v
    /\ \A e \in Editors : Pending(e, "put") \/ Pending(e, "delete") =>
          /\ editor[e].existing \in used \cup {NoFile}
          /\ editor[e].existing # NoFile => o[editor[e].existing] = editor[e].number

VersionsInv ==
    /\ VersionsTypeOK /\ PushesAreFresh /\ DoomedAreTaken /\ ContextHasFile
    /\ \E o \in [Files -> Versions \cup {NoFile}] : PushedFor(o)

LEMMA PushStartsHolds ==
    ASSUME VersionsAssumption, VersionsInv, NEW e \in Editors, NEW v \in Versions, PushStarts(e, v)
    PROVE  VersionsInv'
<1> USE DEF VersionsInv, VersionsTypeOK, NoEdit
<1>1. VersionsTypeOK'
  BY DEF PushStarts, VersionsAssumption
<1>2. PushesAreFresh'
  <2>1. PICK file \in Files :
            /\ file \notin used /\ used' = used \cup {file} /\ files' = files \cup {file}
            /\ editor' = [editor EXCEPT ![e] = [at |-> "update", op |-> "push", number |-> v, file |-> file]]
            /\ UNCHANGED <<actor, version, putBack>>
    BY DEF PushStarts
  <2>2. \A w \in DOMAIN version : version[w].context # file
    BY <2>1, VersionsAssumption DEF VersionsAssumption
  <2>3. /\ editor'[e] = [at |-> "update", op |-> "push", number |-> v, file |-> file]
        /\ \A d \in Editors \ {e} : editor'[d] = editor[d]
    BY <2>1
  <2>4. \A d \in Editors \ {e} :
            /\ file \notin Doomed(d)
            /\ Pending(d, "push") => editor[d].file # file
            /\ Pending(d, "put") \/ Pending(d, "delete") => editor[d].existing # file
    BY <2>1, VersionsAssumption DEF PushesAreFresh, DoomedAreTaken, PushedFor, VersionsAssumption
  <2>5. \A d \in Editors \ {e} : Doomed(d)' = Doomed(d) /\ \A op : Pending(d, op)' = Pending(d, op)
    BY <2>3 DEF Doomed, Pending
  <2>6. Doomed(e)' = {} /\ ~Pending(e, "put")' /\ ~Pending(e, "delete")'
    BY <2>3 DEF Doomed, Pending
  <2> QED BY <2>1, <2>2, <2>3, <2>4, <2>5, <2>6 DEF PushesAreFresh
<1>3. DoomedAreTaken'
  BY DEF PushStarts, PushesAreFresh, DoomedAreTaken, PushedFor, Pending, Doomed, VersionsAssumption
<1>4. ContextHasFile'
  BY DEF PushStarts, ContextHasFile, PushesAreFresh, DoomedAreTaken, Pending, Doomed, VersionsAssumption
<1>5. (\E o \in [Files -> Versions \cup {NoFile}] : PushedFor(o))'
  BY DEF PushStarts, PushedFor, PushesAreFresh, Pending, VersionsAssumption
<1> QED BY <1>1, <1>2, <1>3, <1>4, <1>5

LEMMA setSourceContextHolds ==
    ASSUME VersionsAssumption, VersionsInv, NEW e \in Editors, setSourceContext(e)
    PROVE  VersionsInv'
<1> USE DEF VersionsInv, VersionsTypeOK, NoEdit
<1>1. VersionsTypeOK'
  BY DEF setSourceContext, Update, addOrReplaceVersion, Then, PushesAreFresh, Pending, VersionsAssumption
<1>2. PushesAreFresh'
  BY DEF setSourceContext, Update, addOrReplaceVersion, Then, PushesAreFresh, Pending, Doomed
<1>3. DoomedAreTaken'
  BY DEF setSourceContext, Update, addOrReplaceVersion, Then, PushesAreFresh, DoomedAreTaken, PushedFor, Pending, Doomed, VersionsAssumption
<1>4. ContextHasFile'
  BY DEF setSourceContext, Update, addOrReplaceVersion, Then, ContextHasFile, PushesAreFresh, DoomedAreTaken, Pending, Doomed, VersionsAssumption
<1>5. (\E o \in [Files -> Versions \cup {NoFile}] : PushedFor(o))'
  <2> DEFINE v == editor[e].number
             file == editor[e].file
  <2>1. PICK o \in [Files -> Versions \cup {NoFile}] : PushedFor(o)
    OBVIOUS
  <2>2. Pending(e, "push") /\ v \in Versions /\ file \in Files
    BY DEF setSourceContext, Update, Pending, PushesAreFresh
  <2>3. PICK to \in Versions, f \in Files : to = v /\ f = file
    BY <2>2
  <2> DEFINE o2 == [o EXCEPT ![f] = to]
  <2>4. \A g \in Files : o2[g] = IF g = f THEN to ELSE o[g]
    OBVIOUS
  <2>5. \A d \in Editors : Pending(d, "put")' \/ Pending(d, "delete")' =>
            editor'[d] = editor[d] /\ (Pending(d, "put") \/ Pending(d, "delete")) /\ editor[d].existing # f
    BY <2>2, <2>3 DEF setSourceContext, Update, Then, Pending, PushesAreFresh
  <2>6. \A w \in DOMAIN version' :
            \/ w = to /\ version'[w].context = f
            \/ w \in DOMAIN version /\ version'[w].context = version[w].context /\ version[w].context # f
    BY <2>2, <2>3 DEF setSourceContext, addOrReplaceVersion, PushesAreFresh
  <2>7. used' = used
    BY DEF setSourceContext, Update
  <2>8. PushedFor(o2)'
    <3> HIDE DEF o2
    <3> QED BY <2>1, <2>3, <2>4, <2>5, <2>6, <2>7 DEF PushedFor
  <2>9. o2 \in [Files -> Versions \cup {NoFile}]
    OBVIOUS
  <2> HIDE DEF o2
  <2> QED BY <2>8, <2>9
<1> QED BY <1>1, <1>2, <1>3, <1>4, <1>5

LEMMA PostStartsHolds ==
    ASSUME VersionsAssumption, VersionsInv, NEW e \in Editors, NEW v \in Versions, PostStarts(e, v)
    PROVE  VersionsInv'
<1> USE DEF VersionsInv, VersionsTypeOK, NoEdit
<1>1. VersionsTypeOK'
  BY DEF PostStarts, VersionsAssumption
<1>2. PushesAreFresh'
  BY DEF PostStarts, PushesAreFresh, Pending, Doomed
<1>3. DoomedAreTaken'
  BY DEF PostStarts, PushesAreFresh, DoomedAreTaken, PushedFor, Pending, Doomed, VersionsAssumption
<1>4. ContextHasFile'
  BY DEF PostStarts, ContextHasFile, PushesAreFresh, DoomedAreTaken, Pending, Doomed, VersionsAssumption
<1>5. (\E o \in [Files -> Versions \cup {NoFile}] : PushedFor(o))'
  BY DEF PostStarts, PushedFor, PushesAreFresh, Pending, VersionsAssumption
<1> QED BY <1>1, <1>2, <1>3, <1>4, <1>5

LEMMA createVersionHolds ==
    ASSUME VersionsAssumption, VersionsInv, NEW e \in Editors, createVersion(e)
    PROVE  VersionsInv'
<1> USE DEF VersionsInv, VersionsTypeOK, NoEdit
<1>1. VersionsTypeOK'
  BY DEF createVersion, Update, addOrReplaceVersion, Then, VersionsAssumption
<1>2. PushesAreFresh'
  BY DEF createVersion, Update, addOrReplaceVersion, Then, PushesAreFresh, Pending, Doomed
<1>3. DoomedAreTaken'
  BY DEF createVersion, Update, addOrReplaceVersion, Then, PushesAreFresh, DoomedAreTaken, PushedFor, Pending, Doomed, VersionsAssumption
<1>4. ContextHasFile'
  BY DEF createVersion, Update, addOrReplaceVersion, Then, ContextHasFile, PushesAreFresh, DoomedAreTaken, Pending, Doomed, VersionsAssumption
<1>5. (\E o \in [Files -> Versions \cup {NoFile}] : PushedFor(o))'
  BY DEF createVersion, Update, addOrReplaceVersion, Then, PushedFor, PushesAreFresh, Pending, VersionsAssumption
<1> QED BY <1>1, <1>2, <1>3, <1>4, <1>5

LEMMA PutStartsHolds ==
    ASSUME VersionsAssumption, VersionsInv, NEW e \in Editors, NEW v \in Versions, PutStarts(e, v)
    PROVE  VersionsInv'
<1> USE DEF VersionsInv, VersionsTypeOK, NoEdit
<1>1. VersionsTypeOK'
  BY DEF PutStarts, VersionsAssumption
<1>2. PushesAreFresh'
  BY DEF PutStarts, PushesAreFresh, Pending, Doomed
<1>3. DoomedAreTaken'
  BY DEF PutStarts, PushesAreFresh, DoomedAreTaken, PushedFor, Pending, Doomed, VersionsAssumption
<1>4. ContextHasFile'
  BY DEF PutStarts, ContextHasFile, PushesAreFresh, DoomedAreTaken, Pending, Doomed, VersionsAssumption
<1>5. (\E o \in [Files -> Versions \cup {NoFile}] : PushedFor(o))'
  BY DEF PutStarts, PushedFor, PushesAreFresh, Pending, VersionsAssumption
<1> QED BY <1>1, <1>2, <1>3, <1>4, <1>5

LEMMA updateVersionHolds ==
    ASSUME VersionsAssumption, VersionsInv, NEW e \in Editors, updateVersion(e)
    PROVE  VersionsInv'
<1> USE DEF VersionsInv, VersionsTypeOK, NoEdit
<1>1. VersionsTypeOK'
  BY DEF updateVersion, PutVersion, Kept, Update, addOrReplaceVersion, Then, PushedFor, Pending, VersionsAssumption
<1>2. PushesAreFresh'
  BY DEF updateVersion, PutVersion, Kept, Update, addOrReplaceVersion, Then, PushesAreFresh, Pending, Doomed
<1>3. DoomedAreTaken'
  BY DEF updateVersion, PutVersion, Kept, Update, addOrReplaceVersion, Then, PushesAreFresh, DoomedAreTaken, PushedFor, Pending, Doomed, VersionsAssumption
<1>4. ContextHasFile'
  BY DEF updateVersion, PutVersion, Kept, Update, addOrReplaceVersion, Then, ContextHasFile, PushesAreFresh, DoomedAreTaken, Pending, Doomed, VersionsAssumption
<1>5. (\E o \in [Files -> Versions \cup {NoFile}] : PushedFor(o))'
  BY DEF updateVersion, PutVersion, Kept, Update, addOrReplaceVersion, Then, PushedFor, PushesAreFresh, Pending, VersionsAssumption
<1> QED BY <1>1, <1>2, <1>3, <1>4, <1>5

LEMMA EnvStartsHolds ==
    ASSUME VersionsAssumption, VersionsInv, NEW e \in Editors, NEW v \in Versions, EnvStarts(e, v)
    PROVE  VersionsInv'
<1> USE DEF VersionsInv, VersionsTypeOK, NoEdit
<1>1. VersionsTypeOK'
  BY DEF EnvStarts, VersionsAssumption
<1>2. PushesAreFresh'
  BY DEF EnvStarts, PushesAreFresh, Pending, Doomed
<1>3. DoomedAreTaken'
  BY DEF EnvStarts, PushesAreFresh, DoomedAreTaken, PushedFor, Pending, Doomed, VersionsAssumption
<1>4. ContextHasFile'
  BY DEF EnvStarts, ContextHasFile, PushesAreFresh, DoomedAreTaken, Pending, Doomed, VersionsAssumption
<1>5. (\E o \in [Files -> Versions \cup {NoFile}] : PushedFor(o))'
  BY DEF EnvStarts, PushedFor, PushesAreFresh, Pending, VersionsAssumption
<1> QED BY <1>1, <1>2, <1>3, <1>4, <1>5

LEMMA changeEnvVarHolds ==
    ASSUME VersionsAssumption, VersionsInv, NEW e \in Editors, changeEnvVar(e)
    PROVE  VersionsInv'
<1> USE DEF VersionsInv, VersionsTypeOK, NoEdit
<1>1. VersionsTypeOK'
  BY DEF changeEnvVar, Update, Then, VersionsAssumption
<1>2. PushesAreFresh'
  BY DEF changeEnvVar, Update, Then, PushesAreFresh, Pending, Doomed
<1>3. DoomedAreTaken'
  BY DEF changeEnvVar, Update, Then, PushesAreFresh, DoomedAreTaken, PushedFor, Pending, Doomed, VersionsAssumption
<1>4. ContextHasFile'
  BY DEF changeEnvVar, Update, Then, ContextHasFile, PushesAreFresh, DoomedAreTaken, Pending, Doomed, VersionsAssumption
<1>5. (\E o \in [Files -> Versions \cup {NoFile}] : PushedFor(o))'
  BY DEF changeEnvVar, Update, Then, PushedFor, PushesAreFresh, Pending, VersionsAssumption
<1> QED BY <1>1, <1>2, <1>3, <1>4, <1>5

LEMMA FileDeleteStartsHolds ==
    ASSUME VersionsAssumption, VersionsInv, NEW e \in Editors, NEW v \in Versions, FileDeleteStarts(e, v)
    PROVE  VersionsInv'
<1> USE DEF VersionsInv, VersionsTypeOK, NoEdit
<1>1. VersionsTypeOK'
  BY DEF FileDeleteStarts, VersionsAssumption
<1>2. PushesAreFresh'
  BY DEF FileDeleteStarts, PushesAreFresh, Pending, Doomed
<1>3. DoomedAreTaken'
  BY DEF FileDeleteStarts, PushesAreFresh, DoomedAreTaken, PushedFor, Pending, Doomed, VersionsAssumption
<1>4. ContextHasFile'
  BY DEF FileDeleteStarts, ContextHasFile, PushesAreFresh, DoomedAreTaken, Pending, Doomed, VersionsAssumption
<1>5. (\E o \in [Files -> Versions \cup {NoFile}] : PushedFor(o))'
  BY DEF FileDeleteStarts, PushedFor, PushesAreFresh, Pending, VersionsAssumption
<1> QED BY <1>1, <1>2, <1>3, <1>4, <1>5

LEMMA deleteVersionHolds ==
    ASSUME VersionsAssumption, VersionsInv, NEW e \in Editors, deleteVersion(e)
    PROVE  VersionsInv'
<1> USE DEF VersionsInv, VersionsTypeOK, NoEdit
<1>1. VersionsTypeOK'
  BY DEF deleteVersion, Update, Then, VersionsAssumption
<1>2. PushesAreFresh'
  BY DEF deleteVersion, Update, Then, PushesAreFresh, Pending, Doomed
<1>3. DoomedAreTaken'
  BY DEF deleteVersion, Update, Then, PushesAreFresh, DoomedAreTaken, PushedFor, Pending, Doomed, VersionsAssumption
<1>4. ContextHasFile'
  BY DEF deleteVersion, Update, Then, ContextHasFile, PushesAreFresh, DoomedAreTaken, Pending, Doomed, VersionsAssumption
<1>5. (\E o \in [Files -> Versions \cup {NoFile}] : PushedFor(o))'
  BY DEF deleteVersion, Update, Then, PushedFor, PushesAreFresh, Pending, VersionsAssumption
<1> QED BY <1>1, <1>2, <1>3, <1>4, <1>5

LEMMA DeleteActorStartsHolds ==
    ASSUME VersionsAssumption, VersionsInv, NEW e \in Editors, DeleteActorStarts(e)
    PROVE  VersionsInv'
<1> USE DEF VersionsInv, VersionsTypeOK, NoEdit
<1>1. VersionsTypeOK'
  BY DEF DeleteActorStarts, VersionsAssumption
<1>2. PushesAreFresh'
  BY DEF DeleteActorStarts, PushesAreFresh, Pending, Doomed
<1>3. DoomedAreTaken'
  BY DEF DeleteActorStarts, PushesAreFresh, DoomedAreTaken, PushedFor, Pending, Doomed, VersionsAssumption
<1>4. ContextHasFile'
  BY DEF DeleteActorStarts, ContextHasFile, PushesAreFresh, DoomedAreTaken, Pending, Doomed, VersionsAssumption
<1>5. (\E o \in [Files -> Versions \cup {NoFile}] : PushedFor(o))'
  BY DEF DeleteActorStarts, PushedFor, PushesAreFresh, Pending, VersionsAssumption
<1> QED BY <1>1, <1>2, <1>3, <1>4, <1>5

LEMMA deleteActorHolds ==
    ASSUME VersionsAssumption, VersionsInv, NEW e \in Editors, deleteActor(e)
    PROVE  VersionsInv'
<1> USE DEF VersionsInv, VersionsTypeOK, NoEdit
<1>1. VersionsTypeOK'
  BY DEF deleteActor, Update, VersionsAssumption
<1>2. PushesAreFresh'
  BY DEF deleteActor, Update, PushesAreFresh, Pending, Doomed
<1>3. DoomedAreTaken'
  BY DEF deleteActor, Update, PushesAreFresh, DoomedAreTaken, PushedFor, Pending, Doomed, VersionsAssumption
<1>4. ContextHasFile'
  BY DEF deleteActor, Update, ContextHasFile, PushesAreFresh, DoomedAreTaken, Pending, Doomed, VersionsAssumption
<1>5. (\E o \in [Files -> Versions \cup {NoFile}] : PushedFor(o))'
  BY DEF deleteActor, Update, PushedFor, PushesAreFresh, Pending, VersionsAssumption
<1> QED BY <1>1, <1>2, <1>3, <1>4, <1>5

LEMMA DeletesFileHolds ==
    ASSUME VersionsAssumption, VersionsInv, NEW e \in Editors, DeletesFile(e)
    PROVE  VersionsInv'
<1> USE DEF VersionsInv, VersionsTypeOK, NoEdit
<1>0. PICK file \in Doomed(e) : \E r :
          /\ files' = files \ {file} /\ editor' = [editor EXCEPT ![e] = r]
          /\ UNCHANGED <<actor, version, used, putBack>> /\ editor[e].at = "delete"
          /\ r = NoEdit \/ r = [at |-> "delete", doomed |-> editor[e].doomed \ {file}]
  <2>1. PICK file \in editor[e].doomed :
            /\ files' = files \ {file} /\ editor[e].at = "delete"
            /\ editor' = [editor EXCEPT ![e] =
                   IF editor[e].doomed = {file} THEN NoEdit
                   ELSE [at |-> "delete", doomed |-> editor[e].doomed \ {file}]]
    BY DEF DeletesFile
  <2> DEFINE r == IF editor[e].doomed = {file} THEN NoEdit
                  ELSE [at |-> "delete", doomed |-> editor[e].doomed \ {file}]
  <2>2. editor' = [editor EXCEPT ![e] = r]
    BY <2>1
  <2>3. r = NoEdit \/ r = [at |-> "delete", doomed |-> editor[e].doomed \ {file}]
    OBVIOUS
  <2> HIDE DEF r
  <2> QED BY <2>1, <2>2, <2>3 DEF DeletesFile, Doomed
<1>1. VersionsTypeOK'
  BY <1>0 DEF Doomed
<1>2. PushesAreFresh'
  BY <1>0 DEF PushesAreFresh, Pending, Doomed
<1>3. DoomedAreTaken'
  BY <1>0 DEF DoomedAreTaken, Pending, Doomed
<1>4. ContextHasFile'
  BY DEF DeletesFile, ContextHasFile, PushesAreFresh, DoomedAreTaken, Pending, Doomed, VersionsAssumption
<1>5. (\E o \in [Files -> Versions \cup {NoFile}] : PushedFor(o))'
  BY DEF DeletesFile, PushedFor, PushesAreFresh, Pending, VersionsAssumption
<1> QED BY <1>1, <1>2, <1>3, <1>4, <1>5

LEMMA VersionsInitHolds == VersionsAssumption /\ VersionsInit => VersionsInv
<1> SUFFICES ASSUME VersionsAssumption, VersionsInit PROVE VersionsInv
  OBVIOUS
<1>1. VersionsTypeOK /\ PushesAreFresh /\ DoomedAreTaken /\ ContextHasFile
  BY DEF VersionsInit, VersionsTypeOK, PushesAreFresh, DoomedAreTaken, ContextHasFile, Pending, Doomed, Bare, NoEdit
<1>2. PushedFor([f \in Files |-> NoFile])
  BY DEF VersionsInit, PushedFor, Pending, Bare, NoEdit
<1> QED BY <1>1, <1>2 DEF VersionsInv

LEMMA VersionsNextHolds ==
    ASSUME VersionsAssumption, VersionsInv, [VersionsNext]_versionVars
    PROVE  VersionsInv'
<1>1. CASE UNCHANGED versionVars
  BY <1>1 DEF versionVars, VersionsInv, VersionsTypeOK, PushesAreFresh, DoomedAreTaken, ContextHasFile, PushedFor,
              Pending, Doomed
<1> QED BY <1>1, PushStartsHolds, setSourceContextHolds, PostStartsHolds, createVersionHolds, PutStartsHolds,
           updateVersionHolds, EnvStartsHolds, changeEnvVarHolds, FileDeleteStartsHolds, deleteVersionHolds,
           DeleteActorStartsHolds, deleteActorHolds, DeletesFileHolds DEF VersionsNext

\* However pushes, updates and deletes of versions and of the Actor overlap, the file a version
\* is built from is there, unless a PUT put the version back after it was deleted
\* (api/routes/actors.ts; services/source-context.ts).
THEOREM NamedFilesStay == VersionsSpec => []ContextHasFile
<1>1. VersionsInv => ContextHasFile
  BY DEF VersionsInv
<1> QED BY VersionsAssumption, VersionsInitHolds, VersionsNextHolds, <1>1, PTL DEF VersionsSpec

-----------------------------------------------------------------------------
(* RunEnvironment: what a container was given is what buildEnv and          *)
(* resolveRunMemory make of the build, the request and the plan.            *)

OptionsOK(options) == options # Unset => options.memoryMbytes \in Nat
DebugOK(debug) == debug # Unset => debug \in DebugSettings

\* What the values of the variables are joined of.
Parts == STRING \cup {"payload", "5678", "9229"}

\* A plan has its variables, each with a value, and none of the platform's.
PlanOK(plan) ==
    \A n \in DOMAIN plan.env :
        n \in {"NODE_OPTIONS", "PYTHONPATH", "DEBUG_PORT"} /\ plan.env[n] \in Seq(Parts) /\ plan.env[n] # <<>>

RunOK ==
    /\ run = [f \in {"status", "build", "request", "memory", "timeout", "plan", "env", "mount"} |-> run[f]]
    /\ run.build \in Builds /\ run.memory \in Nat /\ MemoryInBounds
    /\ PlanOK(run.plan) /\ run.env = buildEnv(run.build, run.request, run.plan)

EnvironmentInv ==
    /\ settings = [f \in {"options", "debug", "folder", "live"} |-> settings[f]]
    /\ OptionsOK(settings.options) /\ DebugOK(settings.debug)
    /\ edit.field = "options" => OptionsOK(edit.value)
    /\ edit.field = "debug" => DebugOK(edit.value)
    /\ run # NoRun => RunOK

\* resolveRunMemory stays within the bounds of the build, one of them where they contradict
\* each other.
LEMMA MemoryIsBounded ==
    ASSUME EnvironmentAssumption, NEW build \in Builds, NEW requested \in Nat \cup {Unset}, NEW fallback \in Nat,
           NEW memory \in resolveRunMemory(build, requested, fallback)
    PROVE  /\ memory \in Nat
           /\ LET bounds == {build.min, build.max}
              IN  IF Unset \notin bounds /\ build.min > build.max THEN memory \in bounds
                  ELSE /\ build.min # Unset => memory >= build.min
                       /\ build.max # Unset => memory <= build.max
<1>1. /\ build.min \in Nat \cup {Unset} /\ build.max \in Nat \cup {Unset} /\ build.default \in Nat \cup {Unset}
  BY DEF EnvironmentAssumption
<1>2. PICK m \in Nat :
          memory = IF build.min # Unset /\ m < build.min THEN build.min
                   ELSE IF build.max # Unset /\ m > build.max THEN build.max
                   ELSE m
  BY <1>1 DEF resolveRunMemory
<1> QED BY <1>1, <1>2

\* The variables of the debugger.
LEMMA PlansAreSound ==
    ASSUME EnvironmentAssumption, NEW build \in Builds, NEW debug \in DebugSettings
    PROVE  PlanOK(resolveDebugPlan(debug, build))
<1> DEFINE language == IF debug.language = "auto" THEN detectLanguage(build) ELSE debug.language
           port == IF debug.port # Unset THEN debug.port ELSE DEFAULT_PORT_BY_LANGUAGE[language]
           list == IF language = "node" THEN "NODE_OPTIONS" ELSE "PYTHONPATH"
           first == IF language = "node" THEN <<port>> ELSE <<"payload">>
           image == Value(build.imageEnv, list)
           names == {list} \cup (IF language = "node" THEN {} ELSE {"DEBUG_PORT"})
           env == [n \in names |->
                      IF n = list THEN prependDebugEnvValue(n, first, Value(build.imageEnv, n)) ELSE <<port>>]
<1>1. resolveDebugPlan(debug, build) = IF language = "refused" THEN Refused ELSE [language |-> language, env |-> env]
  BY DEF resolveDebugPlan
<1>2. language \in {"node", "python", "refused"} /\ debug.port \in Parts \cup {Unset}
  BY DEF EnvironmentAssumption, detectLanguage, Parts
<1>3. language # "refused" => port \in Parts
  <2>1. DEFAULT_PORT_BY_LANGUAGE["node"] = "9229" /\ DEFAULT_PORT_BY_LANGUAGE["python"] = "5678"
    BY DEF DEFAULT_PORT_BY_LANGUAGE
  <2>2. "9229" \in Parts /\ "5678" \in Parts
    BY DEF Parts
  <2> HIDE DEF language
  <2> QED BY <1>2, <2>1, <2>2
<1>4. image \in Seq(Parts)
  <2>1. ASSUME NEW n \in DOMAIN build.imageEnv
        PROVE  build.imageEnv[n] \in Seq(Parts)
    <3>1. build.imageEnv[n] \in Seq(STRING)
      BY DEF EnvironmentAssumption
    <3> DEFINE strings == STRING
    <3>2. strings \subseteq Parts
      BY DEF Parts
    <3>3. build.imageEnv[n] \in Seq(strings)
      BY <3>1
    <3> HIDE DEF strings
    <3> QED BY <3>2, <3>3
  <2>2. <<>> \in Seq(Parts)
    BY EmptySeq
  <2> QED BY <2>1, <2>2 DEF Value
<1>5. CASE language = "refused"
  <2>1. DOMAIN Refused.env = {}
    BY DEF Refused
  <2> QED BY <1>1, <1>5, <2>1 DEF PlanOK
<1>6. CASE language # "refused"
  <2>1. first \in Seq(Parts) /\ Len(first) = 1 /\ first # <<>>
    <3>1. port \in Parts
      BY <1>3, <1>6
    <3>2. "payload" \in Parts
      BY DEF Parts
    <3> HIDE DEF port, language
    <3> QED BY <3>1, <3>2
  <2>2. list \in {"NODE_OPTIONS", "PYTHONPATH"}
    OBVIOUS
  <2>3. env[list] = first \o image
    BY <2>2 DEF prependDebugEnvValue
  <2> HIDE DEF first, image
  <2>4. first \o image \in Seq(Parts) /\ Len(first \o image) # 0
    BY <1>4, <2>1, ConcatProperties, LenProperties
  <2>5. first \o image # <<>>
    BY <2>4, EmptySeq
  <2>6. \A n \in names : n # list => env[n] = <<port>>
    OBVIOUS
  <2>7. <<port>> \in Seq(Parts) /\ <<port>> # <<>>
    <3>1. port \in Parts
      BY <1>3, <1>6
    <3> HIDE DEF port, language
    <3> QED BY <3>1
  <2>8. names \subseteq {"NODE_OPTIONS", "PYTHONPATH", "DEBUG_PORT"} /\ DOMAIN env = names
    OBVIOUS
  <2>9. resolveDebugPlan(debug, build).env = env
    BY <1>1, <1>6
  <2> HIDE DEF env, names, list, port
  <2> QED BY <2>3, <2>4, <2>5, <2>6, <2>7, <2>8, <2>9 DEF PlanOK
<1> QED BY <1>5, <1>6

\* What buildEnv makes of the build, the request and a sound plan is the platform's contract.
LEMMA TheEnvironmentKeepsItsOrder ==
    ASSUME EnvironmentAssumption, NEW build \in Builds, NEW asked, NEW plan, PlanOK(plan)
    PROVE  LET env == buildEnv(build, asked, plan)
           IN  /\ \A n \in DOMAIN PlatformEnv(build, asked) : env[n] = PlatformEnv(build, asked)[n]
               /\ \A n \in DOMAIN plan.env :
                     /\ Head(env[n]) = Head(plan.env[n])
                     /\ (n \in {"NODE_OPTIONS", "PYTHONPATH"} /\ n \in DOMAIN build.versionEnv)
                           => env[n][Len(env[n])] = build.versionEnv[n].value
<1> DEFINE env == buildEnv(build, asked, plan)
           versionEnv == versionEnvOf(build)
           debugEnv == [n \in DOMAIN plan.env |-> prependDebugEnvValue(n, plan.env[n], Value(versionEnv, n))]
           platformEnv == PlatformEnv(build, asked)
<1>1. env = [n \in DOMAIN versionEnv \cup DOMAIN debugEnv \cup DOMAIN platformEnv |->
               IF n \in DOMAIN platformEnv THEN platformEnv[n]
               ELSE IF n \in DOMAIN debugEnv THEN debugEnv[n]
               ELSE versionEnv[n]]
  BY DEF buildEnv
<1>2. DOMAIN debugEnv = DOMAIN plan.env /\ \A n \in DOMAIN plan.env :
         debugEnv[n] = prependDebugEnvValue(n, plan.env[n], Value(versionEnv, n))
  OBVIOUS
<1>3. DOMAIN platformEnv \subseteq {"ACTOR_WEB_SERVER_PORT", "ACTOR_STANDBY_PORT", "APIFY_TOKEN", "APIFY_PROXY_PASSWORD"}
  BY DEF PlatformEnv, PortVars
<1>4. /\ DOMAIN versionEnv = DOMAIN build.versionEnv
      /\ \A n \in DOMAIN build.versionEnv :
            versionEnv[n] = <<build.versionEnv[n].value>> /\ build.versionEnv[n].value \in Parts
  BY DEF versionEnvOf, EnvironmentAssumption, Parts
<1> HIDE DEF env, debugEnv, platformEnv, versionEnv
<1>5. \A n \in DOMAIN platformEnv : env[n] = platformEnv[n]
  BY <1>1
<1>6. ASSUME NEW n \in DOMAIN plan.env
      PROVE  /\ Head(env[n]) = Head(plan.env[n])
             /\ (n \in {"NODE_OPTIONS", "PYTHONPATH"} /\ n \in DOMAIN build.versionEnv)
                   => env[n][Len(env[n])] = build.versionEnv[n].value
  <2> DEFINE p == plan.env[n]
             v == Value(versionEnv, n)
  <2>1. p \in Seq(Parts) /\ p # <<>> /\ n \in {"NODE_OPTIONS", "PYTHONPATH", "DEBUG_PORT"}
    BY DEF PlanOK
  <2>2. env[n] = prependDebugEnvValue(n, p, v)
    BY <1>1, <1>2, <1>3, <2>1
  <2>3. CASE n \notin {"NODE_OPTIONS", "PYTHONPATH"}
    BY <2>2, <2>3 DEF prependDebugEnvValue
  <2>4. CASE n \in {"NODE_OPTIONS", "PYTHONPATH"}
    <3>1. env[n] = p \o v
      BY <2>2, <2>4 DEF prependDebugEnvValue
    <3>2. v \in Seq(Parts)
      <4>1. <<>> \in Seq(Parts)
        BY EmptySeq
      <4>2. CASE n \in DOMAIN versionEnv
        <5> DEFINE w == build.versionEnv[n].value
        <5>1. w \in Parts /\ versionEnv[n] = <<w>>
          BY <1>4, <4>2
        <5> HIDE DEF w
        <5> QED BY <5>1, <4>2 DEF Value
      <4> QED BY <4>1, <4>2 DEF Value
    <3>3. Len(p) \in Nat /\ Len(p) > 0
      BY <2>1, LenProperties, EmptySeq
    <3> HIDE DEF p, v
    <3>4. /\ Len(p \o v) = Len(p) + Len(v)
          /\ \A i \in 1 .. Len(p) + Len(v) : (p \o v)[i] = IF i <= Len(p) THEN p[i] ELSE v[i - Len(p)]
          /\ p \o v \in Seq(Parts)
      BY <2>1, <3>2, ConcatProperties
    <3>5. Len(v) \in Nat
      BY <3>2, LenProperties
    <3>6. (p \o v)[1] = p[1]
      BY <3>3, <3>4, <3>5
    <3>7. Head(env[n]) = Head(p)
      BY <3>1, <3>6, <2>1, <3>4, <3>3, <3>5
    <3>8. ASSUME n \in DOMAIN build.versionEnv
          PROVE  env[n][Len(env[n])] = build.versionEnv[n].value
      <4> DEFINE w == build.versionEnv[n].value
      <4>1. v = <<w>>
        BY <3>8, <1>4 DEF v, Value
      <4> HIDE DEF w
      <4>2. Len(v) = 1 /\ v[1] = w
        BY <4>1
      <4>3. (p \o v)[Len(p) + 1] = v[1]
        BY <3>3, <3>4, <4>2
      <4> QED BY <3>1, <3>4, <4>2, <4>3 DEF w
    <3> QED BY <3>7, <3>8 DEF p
  <2> QED BY <2>3, <2>4
<1> QED BY <1>5, <1>6 DEF env, platformEnv

\* A run that startRun or resurrectRun prepared.
LEMMA PreparedHolds ==
    ASSUME EnvironmentAssumption, EnvironmentInv, NEW build \in Builds, NEW asked \in RunRequests,
           NEW requested \in Nat \cup {Unset}, NEW fallback \in Nat,
           NEW memory \in resolveRunMemory(build, requested, fallback), NEW timeout,
           Prepared(build, asked, memory, timeout)
    PROVE  EnvironmentInv'
<1>1. PICK plan : /\ plan = NoPlan \/ (settings.debug # Unset /\ plan = resolveDebugPlan(settings.debug, build))
                  /\ run' = [status |-> IF plan = Refused THEN "failed" ELSE "ready",
                             build |-> build, request |-> asked, memory |-> memory, timeout |-> timeout,
                             plan |-> plan, env |-> buildEnv(build, asked, plan),
                             mount |-> DevMount(build, asked)]
  BY DEF Prepared
<1>2. PlanOK(plan)
  <2>1. PlanOK(NoPlan)
    BY DEF PlanOK, NoPlan
  <2>2. settings.debug # Unset => settings.debug \in DebugSettings
    BY DEF EnvironmentInv, DebugOK
  <2> QED BY <1>1, <2>1, <2>2, PlansAreSound
<1>3. UNCHANGED <<settings, edit>>
  BY DEF Prepared
<1>4. /\ run'.build = build /\ run'.request = asked /\ run'.memory = memory /\ run'.plan = plan
      /\ run'.env = buildEnv(build, asked, plan)
      /\ run' = [f \in {"status", "build", "request", "memory", "timeout", "plan", "env", "mount"} |-> run'[f]]
  BY <1>1
<1>5. memory \in Nat /\ MemoryInBounds'
  BY <1>4, MemoryIsBounded DEF MemoryInBounds
<1>6. RunOK'
  BY <1>2, <1>4, <1>5 DEF RunOK, PlanOK
<1> QED BY <1>3, <1>6 DEF EnvironmentInv, OptionsOK, DebugOK

LEMMA StartRunHolds ==
    ASSUME EnvironmentAssumption, EnvironmentInv, NEW build \in Builds, NEW asked \in RunRequests,
           StartRun(build, asked)
    PROVE  EnvironmentInv'
<1> DEFINE defaults == defaultRunOptionsOf(settings.options)
<1>1. defaults.memoryMbytes \in Nat
  BY DEF defaultRunOptionsOf, DEFAULT_RUN_OPTIONS, EnvironmentInv, OptionsOK
<1>2. asked.memory \in Nat \cup {Unset}
  BY DEF EnvironmentAssumption
<1>3. PICK memory \in resolveRunMemory(build, asked.memory, defaults.memoryMbytes) :
         Prepared(build, asked, memory, OrElse(asked.timeout, defaults.timeoutSecs))
  BY DEF StartRun
<1> HIDE DEF defaults
<1> QED BY <1>1, <1>2, <1>3, PreparedHolds

LEMMA ResurrectRunHolds ==
    ASSUME EnvironmentAssumption, EnvironmentInv, NEW build \in Builds, NEW asked \in RunRequests,
           ResurrectRun(build, asked)
    PROVE  EnvironmentInv'
<1> DEFINE requested == OrElse(asked.memory, run.memory)
<1>1. run # NoRun
  BY DEF ResurrectRun, NoRun
<1>2. run.memory \in Nat
  BY <1>1 DEF EnvironmentInv, RunOK
<1>3. requested \in Nat \cup {Unset}
  BY <1>2 DEF EnvironmentAssumption, OrElse
<1>4. PICK memory \in resolveRunMemory(build, requested, run.memory) :
         Prepared(build, asked, memory, OrElse(asked.timeout, run.timeout))
  BY DEF ResurrectRun
<1> HIDE DEF requested
<1> QED BY <1>2, <1>3, <1>4, PreparedHolds

\* The container's start and end change the status alone.
LEMMA StatusHolds ==
    ASSUME EnvironmentInv, run # NoRun, NEW status, run' = [run EXCEPT !.status = status], UNCHANGED <<settings, edit>>
    PROVE  EnvironmentInv'
<1>1. RunOK
  BY DEF EnvironmentInv
<1>2. /\ run'.build = run.build /\ run'.request = run.request /\ run'.memory = run.memory
      /\ run'.plan = run.plan /\ run'.env = run.env
      /\ run' = [f \in {"status", "build", "request", "memory", "timeout", "plan", "env", "mount"} |-> run'[f]]
  BY <1>1 DEF RunOK
<1>3. RunOK'
  BY <1>1, <1>2 DEF RunOK, PlanOK, MemoryInBounds
<1> QED BY <1>3 DEF EnvironmentInv, OptionsOK, DebugOK

LEMMA ContainerHolds ==
    ASSUME EnvironmentInv, ContainerStarts \/ RunEnds
    PROVE  EnvironmentInv'
<1>1. run # NoRun
  BY DEF ContainerStarts, RunEnds, NoRun
<1>2. CASE ContainerStarts
  BY <1>1, <1>2, StatusHolds DEF ContainerStarts
<1>3. CASE RunEnds
  BY <1>1, <1>3, StatusHolds DEF RunEnds
<1> QED BY <1>2, <1>3

\* A setter reads the Actor.
LEMMA SetterReadsHolds ==
    ASSUME EnvironmentInv, NEW field, NEW value, SetterReads(field, value),
           field = "options" => OptionsOK(value), field = "debug" => DebugOK(value)
    PROVE  EnvironmentInv'
<1>1. edit'.field = field /\ edit'.value = value /\ UNCHANGED <<settings, run>>
  BY DEF SetterReads
<1>2. (run # NoRun => RunOK)'
  BY <1>1 DEF EnvironmentInv, RunOK, PlanOK, MemoryInBounds
<1> QED BY <1>1, <1>2 DEF EnvironmentInv, OptionsOK, DebugOK

LEMMA EditsHolds ==
    ASSUME EnvironmentAssumption, EnvironmentInv, Edits \/ \E folder \in Folders : FolderProbed(folder)
    PROVE  EnvironmentInv'
<1>1. ASSUME NEW debug \in DebugSettings \cup {Unset}, SetterReads("debug", debug)
      PROVE  EnvironmentInv'
  BY <1>1, SetterReadsHolds DEF DebugOK
<1>2. ASSUME NEW live \in BOOLEAN, SetterReads("live", live)
      PROVE  EnvironmentInv'
  BY <1>2, SetterReadsHolds
<1>3. ASSUME NEW folder, SetterReads("folder", folder)
      PROVE  EnvironmentInv'
  BY <1>3, SetterReadsHolds
<1>4. ASSUME NEW body \in OptionBodies, SetterReads("options", MergedOptions(body, settings.options))
      PROVE  EnvironmentInv'
  <2>1. OptionsOK(MergedOptions(body, settings.options))
    BY DEF EnvironmentAssumption, EnvironmentInv, OptionsOK, MergedOptions, OrElse, defaultRunOptionsOf, DEFAULT_RUN_OPTIONS
  <2> QED BY <1>4, <2>1, SetterReadsHolds
<1> QED BY <1>1, <1>2, <1>3, <1>4 DEF Edits, FolderProbed

LEMMA EditStoredHolds ==
    ASSUME EnvironmentInv, EditStored
    PROVE  EnvironmentInv'
<1>1. /\ settings' = [settings EXCEPT ![edit.field] = edit.value] /\ edit' = NoSetter /\ UNCHANGED run
      /\ settings = [f \in {"options", "debug", "folder", "live"} |-> settings[f]]
  BY DEF EditStored, EnvironmentInv
<1>2. (run # NoRun => RunOK)'
  BY <1>1 DEF EnvironmentInv, RunOK, PlanOK, MemoryInBounds
<1>3. /\ settings' = [f \in {"options", "debug", "folder", "live"} |-> settings'[f]]
      /\ settings'.options = IF edit.field = "options" THEN edit.value ELSE settings.options
      /\ settings'.debug = IF edit.field = "debug" THEN edit.value ELSE settings.debug
  BY <1>1
<1>4. edit'.field = "none"
  BY <1>1 DEF NoSetter
<1> QED BY <1>2, <1>3, <1>4 DEF EnvironmentInv, OptionsOK, DebugOK

LEMMA EnvironmentUnchanged ==
    ASSUME EnvironmentInv, UNCHANGED <<settings, edit, run>>
    PROVE  EnvironmentInv'
<1>1. (run # NoRun => RunOK)'
  BY DEF EnvironmentInv, RunOK, PlanOK, MemoryInBounds
<1> QED BY <1>1 DEF EnvironmentInv, OptionsOK, DebugOK

LEMMA EnvironmentNextHolds ==
    ASSUME EnvironmentAssumption, EnvironmentInv, [EnvironmentNext]_environmentVars
    PROVE  EnvironmentInv'
<1>1. CASE UNCHANGED environmentVars
  BY <1>1, EnvironmentUnchanged DEF environmentVars
<1>2. ASSUME NEW folder \in Folders, HostChanges(folder)
      PROVE  EnvironmentInv'
  BY <1>2, EnvironmentUnchanged DEF HostChanges
<1> QED BY <1>1, <1>2, EditsHolds, EditStoredHolds, ContainerHolds, StartRunHolds, ResurrectRunHolds DEF EnvironmentNext

\* Whatever the settings, the requests and the builds, and however a run is resurrected while
\* its Actor is edited: a started container has the platform's own variables, the debugger
\* first in the variables that are lists, what the version had in them, and a memory within
\* the bounds of its build (services/runs.ts; actor-memory.ts; debug-mode.ts).
THEOREM ContainersGetTheirContract == EnvironmentSpec => []StartedAsPromised
<1>1. EnvironmentInit => EnvironmentInv
  BY DEF EnvironmentInit, EnvironmentInv, OptionsOK, DebugOK, NoSetter
<1>2. ASSUME EnvironmentAssumption, EnvironmentInv
      PROVE  StartedAsPromised
  <2> SUFFICES ASSUME run.status = "started"
               PROVE  PlatformVarsWin /\ DebuggerFirst /\ MemoryInBounds
    BY DEF StartedAsPromised
  <2>1. run # NoRun
    BY DEF NoRun
  <2>2. RunOK
    BY <2>1, <1>2 DEF EnvironmentInv
  <2>3. run.build \in Builds /\ PlanOK(run.plan) /\ run.env = buildEnv(run.build, run.request, run.plan)
    BY <2>2 DEF RunOK
  <2> QED BY <2>2, <2>3, <1>2, TheEnvironmentKeepsItsOrder DEF RunOK, PlatformVarsWin, DebuggerFirst
<1> QED BY EnvironmentAssumption, <1>1, <1>2, EnvironmentNextHolds, PTL DEF EnvironmentSpec

-----------------------------------------------------------------------------
(* Catalog. Names: who writes a name holds the lock of its kind, so what it *)
(* has listed is what is there. Cascades: of what named a deleted record at *)
(* its delete, what names it still is either left to be gone through or     *)
(* listed later; a record that is new was not owed.                         *)

AllNames == (UNION {Names[K] : K \in Kinds}) \cup {NoName}
Items == [name : AllNames, refs : SUBSET Targets]
CreateShapes == [at : {"list", "set"}, op : {"create"}, kind : Kinds, name : AllNames, refs : SUBSET Targets]
UpdateShapes == [at : {"list", "set"}, op : {"update"}, kind : Kinds, id : Ids, taken : SUBSET AllNames,
                 name : AllNames, withRefs : BOOLEAN, refs : SUBSET Targets]
DeleteShapes == [at : {"delete", "webhooks", "schedules"}, id : Ids]
CascadeShapes == [at : {"unhook", "unschedule"}, id : Ids, left : SUBSET (Webhooks \cup Schedules)]

CatalogTypeOK ==
    /\ item \in [Ids -> Items \cup {NotYet, Gone}]
    /\ nameLock \in [Kinds -> Requests \cup {Nobody}]
    /\ request \in [Requests -> {NoRequest} \cup CreateShapes \cup UpdateShapes \cup DeleteShapes \cup CascadeShapes]
    /\ owed \in [Requests -> SUBSET (Webhooks \cup Schedules)]

\* A create about to write holds the lock, and its name is still free.
CreateOK(c) ==
    (request[c].at = "set" /\ request[c].op = "create") =>
        /\ nameLock[request[c].kind] = c
        /\ request[c].kind # "webhook" =>
              request[c].name # NoName /\ request[c].name \notin TakenIn(Of(request[c].kind))

\* An update is of a record of its kind; one about to write a name holds the lock, and knows
\* the names of the others.
UpdateOK(c) ==
    (request[c].at \in {"list", "set"} /\ request[c].op = "update") =>
        /\ request[c].id \in Of(request[c].kind)
        /\ (request[c].at = "set" /\ request[c].kind # "webhook") =>
              /\ nameLock[request[c].kind] = c
              /\ TakenIn(Of(request[c].kind) \ {request[c].id}) \subseteq request[c].taken

AllNamed == \A i \in Tasks \cup Schedules : There(i) => item[i].name # NoName

\* What a request still owes: named the deleted record at its delete, and does.
Owes(c, j) == j \in owed[c] /\ There(j) /\ request[c].id \in item[j].refs

OwedOK(c) ==
    /\ request[c].at \notin {"webhooks", "unhook", "schedules", "unschedule"} => owed[c] = {}
    /\ \A j \in owed[c] : item[j] # NotYet
    /\ request[c].at = "unhook" => \A j \in Webhooks : Owes(c, j) => j \in request[c].left
    /\ request[c].at \in {"schedules", "unschedule"} => \A j \in Webhooks : ~Owes(c, j)
    /\ request[c].at = "unschedule" => \A j \in Schedules : Owes(c, j) => j \in request[c].left

CatalogInv ==
    /\ CatalogTypeOK
    /\ \A c \in Requests : CreateOK(c)
    /\ \A c \in Requests : UpdateOK(c)
    /\ AllNamed
    /\ NamesUnique
    /\ \A c \in Requests : OwedOK(c)

LEMMA KindsAre ==
    /\ Of("task") = Tasks /\ Of("schedule") = Schedules /\ Of("webhook") = Webhooks
    /\ \A K \in Kinds : Of(K) \subseteq Ids
BY DEF Of, Kinds, Ids

LEMMA KindsOfIds ==
    ASSUME CatalogAssumption, NEW i \in Ids, i \notin Actors
    PROVE  KindOf(i) \in Kinds /\ i \in Of(KindOf(i))
<1>1. CASE i \in Tasks
  <2>1. KindOf(i) = "task"
    BY <1>1 DEF KindOf
  <2> QED BY <2>1, <1>1, KindsAre DEF Kinds
<1>2. CASE i \in Schedules
  <2>1. KindOf(i) = "schedule"
    BY <1>2 DEF KindOf, CatalogAssumption
  <2> QED BY <2>1, <1>2, KindsAre DEF Kinds
<1>3. CASE i \in Webhooks
  <2>1. KindOf(i) = "webhook"
    BY <1>3 DEF KindOf, CatalogAssumption
  <2> QED BY <2>1, <1>3, KindsAre DEF Kinds
<1> QED BY <1>1, <1>2, <1>3 DEF Ids

LEMMA Shapes ==
    ASSUME CatalogTypeOK, NEW c \in Requests
    PROVE  /\ (request[c].at \in {"list", "set"} /\ request[c].op = "create") => request[c] \in CreateShapes
           /\ (request[c].at \in {"list", "set"} /\ request[c].op = "update") => request[c] \in UpdateShapes
           /\ request[c].at \in {"delete", "webhooks", "schedules"} => request[c] \in DeleteShapes
           /\ request[c].at \in {"unhook", "unschedule"} => request[c] \in CascadeShapes
<1>1. request[c] \in {NoRequest} \cup CreateShapes \cup UpdateShapes \cup DeleteShapes \cup CascadeShapes
  BY DEF CatalogTypeOK
<1> QED BY <1>1 DEF CreateShapes, UpdateShapes, DeleteShapes, CascadeShapes, NoRequest

LEMMA TakenFades ==
    ASSUME NEW S, \A i \in S : There(i)' => (There(i) /\ item'[i].name = item[i].name)
    PROVE  TakenIn(S)' \subseteq TakenIn(S)
BY DEF TakenIn, There

\* A step of request c that takes no lock from another, writes names only under the lock, and
\* lets no record name more of what the others owe: what is left to show is about c.
LEMMA StepKeeps ==
    ASSUME CatalogInv, CatalogTypeOK', NEW c \in Requests, NEW r, Goes(c, r),
           \A K \in Kinds : nameLock[K] \in Requests \ {c} => nameLock'[K] = nameLock[K],
           \A K \in {"task", "schedule"} :
              nameLock[K] = c \/ \A i \in Of(K) : There(i)' => (There(i) /\ item'[i].name = item[i].name),
           \A d \in Requests \ {c} : owed'[d] \subseteq owed[d] /\ \A j \in owed'[d] :
              item'[j] # NotYet /\ (There(j)' => (There(j) /\ item'[j].refs \subseteq item[j].refs)),
           AllNamed', NamesUnique', CreateOK(c)', UpdateOK(c)', OwedOK(c)'
    PROVE  CatalogInv'
<1>1. ASSUME NEW d \in Requests, d # c
      PROVE  request'[d] = request[d]
  BY <1>1 DEF Goes, CatalogInv, CatalogTypeOK
<1>2. ASSUME NEW d \in Requests, d # c, NEW K \in Kinds, nameLock[K] = d, K # "webhook"
      PROVE  \A i \in Of(K) : There(i)' => (There(i) /\ item'[i].name = item[i].name)
  BY <1>2 DEF Kinds
<1>3. ASSUME NEW d \in Requests, d # c
      PROVE  CreateOK(d)'
  <2> SUFFICES ASSUME request[d].at = "set", request[d].op = "create"
               PROVE  /\ nameLock'[request[d].kind] = d
                      /\ request[d].kind # "webhook" =>
                            request[d].name # NoName /\ request[d].name \notin TakenIn(Of(request[d].kind))'
    BY <1>1, <1>3 DEF CreateOK
  <2>1. PICK K \in Kinds : K = request[d].kind
    BY Shapes DEF CatalogInv, CreateShapes
  <2>2. /\ nameLock[K] = d
        /\ K # "webhook" => request[d].name # NoName /\ request[d].name \notin TakenIn(Of(K))
    BY <2>1 DEF CatalogInv, CreateOK
  <2>3. nameLock'[K] = d
    BY <2>1, <2>2, <1>3
  <2>4. K # "webhook" => TakenIn(Of(K))' \subseteq TakenIn(Of(K))
    <3>1. K # "webhook" => \A i \in Of(K) : There(i)' => (There(i) /\ item'[i].name = item[i].name)
      BY <1>2, <1>3, <2>1, <2>2
    <3>2. PICK S : S = Of(K)
      OBVIOUS
    <3>3. Of(K)' = Of(K)
      BY DEF Of
    <3>4. K # "webhook" => TakenIn(S)' \subseteq TakenIn(S)
      BY <3>1, <3>2, TakenFades
    <3> QED BY <3>2, <3>3, <3>4 DEF TakenIn
  <2> QED BY <1>1, <1>3, <2>1, <2>2, <2>3, <2>4
<1>4. ASSUME NEW d \in Requests, d # c
      PROVE  UpdateOK(d)'
  <2> SUFFICES ASSUME request[d].at \in {"list", "set"}, request[d].op = "update"
               PROVE  /\ request[d].id \in Of(request[d].kind)
                      /\ (request[d].at = "set" /\ request[d].kind # "webhook") =>
                            /\ nameLock'[request[d].kind] = d
                            /\ TakenIn(Of(request[d].kind) \ {request[d].id})' \subseteq request[d].taken
    BY <1>1, <1>4 DEF UpdateOK, Of
  <2>1. PICK K \in Kinds, i \in Ids : K = request[d].kind /\ i = request[d].id
    BY Shapes DEF CatalogInv, UpdateShapes
  <2>2. /\ i \in Of(K)
        /\ (request[d].at = "set" /\ K # "webhook") =>
              nameLock[K] = d /\ TakenIn(Of(K) \ {i}) \subseteq request[d].taken
    BY <2>1 DEF CatalogInv, UpdateOK
  <2>3. nameLock[K] = d => nameLock'[K] = d
    BY <2>1, <1>4
  <2>4. (K # "webhook" /\ nameLock[K] = d) => TakenIn(Of(K) \ {i})' \subseteq TakenIn(Of(K) \ {i})
    <3> SUFFICES ASSUME K # "webhook", nameLock[K] = d
                 PROVE  TakenIn(Of(K) \ {i})' \subseteq TakenIn(Of(K) \ {i})
      OBVIOUS
    <3>1. \A h \in Of(K) : There(h)' => (There(h) /\ item'[h].name = item[h].name)
      BY <1>2, <1>4, <2>1
    <3>2. PICK S : S = Of(K) \ {i}
      OBVIOUS
    <3>3. Of(K)' = Of(K)
      BY DEF Of
    <3>4. TakenIn(S)' \subseteq TakenIn(S)
      BY <3>1, <3>2, TakenFades
    <3> QED BY <3>2, <3>3, <3>4 DEF TakenIn
  <2> QED BY <1>1, <1>4, <2>1, <2>2, <2>3, <2>4
<1>5. ASSUME NEW d \in Requests, d # c
      PROVE  OwedOK(d)'
  <2>1. OwedOK(d)
    BY DEF CatalogInv
  <2>2. \A j : Owes(d, j)' => Owes(d, j)
    BY <1>1, <1>5 DEF Owes
  <2>3. owed'[d] \subseteq owed[d] /\ \A j \in owed'[d] : item'[j] # NotYet
    BY <1>5
  <2> QED BY <1>1, <1>5, <2>1, <2>2, <2>3 DEF OwedOK
<1> QED BY <1>3, <1>4, <1>5 DEF CatalogInv

\* A step of request c that writes no record.
LEMMA ReadKeeps ==
    ASSUME CatalogInv, CatalogTypeOK', NEW c \in Requests, NEW r, Goes(c, r), UNCHANGED item,
           \A d \in Requests \ {c} : owed'[d] = owed[d],
           \A K \in Kinds : nameLock[K] \in Requests \ {c} => nameLock'[K] = nameLock[K],
           CreateOK(c)', UpdateOK(c)', OwedOK(c)'
    PROVE  CatalogInv'
<1>1. \A i : There(i)' <=> There(i)
  BY DEF There
<1>2. AllNamed' /\ NamesUnique'
  BY <1>1 DEF CatalogInv, AllNamed, NamesUnique
<1>3. \A d \in Requests \ {c} : owed'[d] \subseteq owed[d] /\ \A j \in owed'[d] :
          item'[j] # NotYet /\ (There(j)' => (There(j) /\ item'[j].refs \subseteq item[j].refs))
  BY <1>1 DEF CatalogInv, OwedOK
<1>4. \A K \in {"task", "schedule"} :
          nameLock[K] = c \/ \A i \in Of(K) : There(i)' => (There(i) /\ item'[i].name = item[i].name)
  BY <1>1
<1> QED BY <1>2, <1>3, <1>4, StepKeeps


LEMMA NamesOfKinds == \A n : n \in AllNames <=> \E K \in Kinds : n \in Names[K] \cup {NoName}
<1> DEFINE U == UNION {Names[K] : K \in Kinds}
<1>1. \A n : n \in U <=> \E K \in Kinds : n \in Names[K]
  OBVIOUS
<1>2. "task" \in Kinds
  BY DEF Kinds
<1>3. AllNames = U \cup {NoName}
  BY DEF AllNames
<1> HIDE DEF U
<1> QED BY <1>1, <1>2, <1>3

LEMMA BodiesAreTargets == CatalogAssumption => \A K \in Kinds : Bodies(K) \subseteq SUBSET Targets
BY DEF CatalogAssumption, Bodies, Kinds, Targets

LEMMA CreateStartsKeeps ==
    ASSUME CatalogAssumption, CatalogInv, NEW c \in Requests, NEW K \in Kinds, CreateStarts(c, K)
    PROVE  CatalogInv'
<1>1. PICK n \in Names[K] \cup {NoName}, refs \in Bodies(K) :
         Goes(c, [at |-> "list", op |-> "create", kind |-> K, name |-> n, refs |-> refs])
  BY DEF CreateStarts
<1> DEFINE r == [at |-> "list", op |-> "create", kind |-> K, name |-> n, refs |-> refs]
<1>2. r \in CreateShapes
  <2>1. n \in AllNames
    BY NamesOfKinds
  <2>2. refs \in SUBSET Targets
    BY BodiesAreTargets
  <2> QED BY <2>1, <2>2 DEF CreateShapes
<1>3. r.at = "list" /\ r.op = "create"
  OBVIOUS
<1> HIDE DEF r
<1>4. request'[c] = r /\ CatalogTypeOK' /\ UNCHANGED <<item, nameLock, owed>>
  BY <1>1, <1>2 DEF CreateStarts, Goes, CatalogInv, CatalogTypeOK, r
<1>5. owed[c] = {}
  BY DEF CatalogInv, OwedOK, CreateStarts, NoRequest
<1>6. CreateOK(c)' /\ UpdateOK(c)' /\ OwedOK(c)'
  BY <1>3, <1>4, <1>5 DEF CreateOK, UpdateOK, OwedOK
<1> QED BY <1>1, <1>4, <1>6, ReadKeeps DEF r

LEMMA ListsTakenKeeps ==
    ASSUME CatalogAssumption, CatalogInv, NEW c \in Requests, ListsTaken(c)
    PROVE  CatalogInv'
<1> DEFINE q == request[c]
<1>1. PICK K \in Kinds : q.kind = K
  BY Shapes DEF ListsTaken, CatalogInv, CreateShapes
<1>2. PICK taken : taken = TakenIn(Of(K))
  OBVIOUS
<1>3. /\ q.at = "list" /\ q.op = "create" /\ nameLock[K] = Nobody
      /\ UNCHANGED <<item, owed>>
      /\ \E n \in NamesFor(q, taken) :
            IF n \in taken
            THEN Goes(c, NoRequest) /\ UNCHANGED nameLock
            ELSE Goes(c, [q EXCEPT !.at = "set", !.name = n]) /\ nameLock' = [nameLock EXCEPT ![K] = c]
  BY <1>1, <1>2 DEF ListsTaken
<1>4. PICK n \in NamesFor(q, taken) :
          IF n \in taken
          THEN Goes(c, NoRequest) /\ UNCHANGED nameLock
          ELSE Goes(c, [q EXCEPT !.at = "set", !.name = n]) /\ nameLock' = [nameLock EXCEPT ![K] = c]
  BY <1>3
<1>5. q \in CreateShapes /\ owed[c] = {}
  BY <1>3, Shapes DEF CatalogInv, OwedOK
<1>6. CASE n \in taken
  <2>1. request'[c] = NoRequest /\ CatalogTypeOK' /\ UNCHANGED <<item, nameLock, owed>>
    BY <1>3, <1>4, <1>6 DEF Goes, CatalogInv, CatalogTypeOK
  <2>2. CreateOK(c)' /\ UpdateOK(c)' /\ OwedOK(c)'
    BY <1>5, <2>1 DEF CreateOK, UpdateOK, OwedOK, NoRequest
  <2> QED BY <1>4, <1>6, <2>1, <2>2, ReadKeeps
<1>7. CASE n \notin taken
  <2> DEFINE r == [q EXCEPT !.at = "set", !.name = n]
  <2>1. n \in AllNames /\ (K # "webhook" => n # NoName)
    BY <1>1, <1>5 DEF NamesFor, AllNames, CreateShapes, CatalogAssumption, Kinds
  <2>2. r \in CreateShapes /\ r.at = "set" /\ r.op = "create" /\ r.kind = K /\ r.name = n
    BY <1>1, <1>3, <1>5, <2>1 DEF CreateShapes
  <2>3. Goes(c, r) /\ nameLock' = [nameLock EXCEPT ![K] = c]
    BY <1>4, <1>7
  <2> HIDE DEF r
  <2>4. request'[c] = r /\ CatalogTypeOK' /\ nameLock'[K] = c
    BY <1>3, <2>2, <2>3 DEF Goes, CatalogInv, CatalogTypeOK
  <2>5. TakenIn(Of(K))' = taken
    BY <1>2, <1>3 DEF TakenIn, There, Of
  <2>6. CreateOK(c)'
    <3>1. request'[c].kind = K
      BY <2>2, <2>4
    <3>2. TakenIn(Of(request[c].kind))' = taken
      BY <3>1, <2>5 DEF TakenIn, Of
    <3> QED BY <1>7, <2>1, <2>2, <2>4, <3>1, <3>2 DEF CreateOK
  <2>7. UpdateOK(c)' /\ OwedOK(c)'
    BY <1>3, <1>5, <2>2, <2>4 DEF UpdateOK, OwedOK
  <2>8. \A k \in Kinds : nameLock[k] \in Requests \ {c} => nameLock'[k] = nameLock[k]
    BY <1>3, <2>3 DEF CatalogAssumption, CatalogInv, CatalogTypeOK
  <2> QED BY <1>3, <2>3, <2>4, <2>6, <2>7, <2>8, ReadKeeps
<1> QED BY <1>6, <1>7

\* What releases the lock of a request leaves the others theirs.
LEMMA UnlockedKeeps ==
    ASSUME CatalogInv, NEW c \in Requests, Unlocked(c)
    PROVE  /\ nameLock' \in [Kinds -> Requests \cup {Nobody}]
           /\ \A K \in Kinds : nameLock[K] \in Requests \ {c} => nameLock'[K] = nameLock[K]
BY DEF Unlocked, CatalogInv, CatalogTypeOK

LEMMA SetsKeeps ==
    ASSUME CatalogAssumption, CatalogInv, NEW c \in Requests, Sets(c)
    PROVE  CatalogInv'
<1> DEFINE q == request[c]
<1>1. q \in CreateShapes /\ q.at = "set" /\ q.op = "create" /\ owed[c] = {}
  BY Shapes DEF Sets, CatalogInv, OwedOK
<1>2. PICK K \in Kinds : q.kind = K
  BY <1>1 DEF CreateShapes
<1>3. PICK i : i \in Of(K) /\ item[i] = NotYet /\ item' = [item EXCEPT ![i] = [name |-> q.name, refs |-> q.refs]]
  <2>1. \E j \in Of(K) : item[j] = NotYet
    BY <1>2 DEF Sets
  <2> DEFINE i == CHOOSE j \in Of(K) : item[j] = NotYet
  <2>2. item' = [item EXCEPT ![i] = [name |-> q.name, refs |-> q.refs]]
    BY <1>2 DEF Sets
  <2> QED BY <2>1, <2>2
<1>4. nameLock[K] = c /\ (K # "webhook" => q.name # NoName /\ q.name \notin TakenIn(Of(K)))
  BY <1>1, <1>2 DEF CatalogInv, CreateOK
<1>5. PICK name \in AllNames, refs \in SUBSET Targets : name = q.name /\ refs = q.refs
  BY <1>1 DEF CreateShapes
<1> DEFINE v == [name |-> name, refs |-> refs]
<1>6. i \in Ids /\ i \in Of(K) /\ item[i] = NotYet /\ item' = [item EXCEPT ![i] = v] /\ v \in Items
  BY <1>3, <1>5, KindsAre DEF Items
<1>7. v \notin {NotYet, Gone}
  <2>1. PICK k \in Kinds : name \in Names[k] \cup {NoName}
    BY NamesOfKinds
  <2> QED BY <2>1 DEF CatalogAssumption, Kinds, Targets
<1>8. v.name = name /\ v.refs = refs
  OBVIOUS
<1> HIDE DEF v
<1>9. /\ Goes(c, NoRequest) /\ Unlocked(c) /\ UNCHANGED owed
      /\ request'[c] = NoRequest /\ CatalogTypeOK'
  <2>1. Goes(c, NoRequest) /\ Unlocked(c) /\ UNCHANGED owed
    BY DEF Sets
  <2>2. nameLock' \in [Kinds -> Requests \cup {Nobody}]
    BY <2>1, UnlockedKeeps
  <2>3. item' \in [Ids -> Items \cup {NotYet, Gone}]
    BY <1>6 DEF CatalogInv, CatalogTypeOK
  <2> QED BY <2>1, <2>2, <2>3 DEF Goes, CatalogInv, CatalogTypeOK
<1>10. CreateOK(c)' /\ UpdateOK(c)' /\ OwedOK(c)'
  BY <1>1, <1>9 DEF CreateOK, UpdateOK, OwedOK, NoRequest
<1>11. item'[i] = v /\ \A j \in Ids : j # i => item'[j] = item[j]
  BY <1>6 DEF CatalogInv, CatalogTypeOK
<1>12. \A L \in {"task", "schedule"} : L = K \/ i \notin Of(L)
  BY <1>6, KindsAre DEF CatalogAssumption, Kinds
<1>13. \A L \in {"task", "schedule"} :
          nameLock[L] = c \/ \A j \in Of(L) : There(j)' => (There(j) /\ item'[j].name = item[j].name)
  BY <1>4, <1>11, <1>12, KindsAre DEF There, Kinds
<1>14. \A d \in Requests \ {c} : owed'[d] \subseteq owed[d] /\ \A j \in owed'[d] :
          item'[j] # NotYet /\ (There(j)' => (There(j) /\ item'[j].refs \subseteq item[j].refs))
  <2> SUFFICES ASSUME NEW d \in Requests \ {c}, NEW j \in owed[d]
               PROVE  item'[j] # NotYet /\ (There(j)' => (There(j) /\ item'[j].refs \subseteq item[j].refs))
    BY <1>9
  <2>1. item[j] # NotYet /\ j \in Ids
    BY DEF CatalogInv, OwedOK, CatalogTypeOK, Ids
  <2>2. item'[j] = item[j]
    BY <2>1, <1>6, <1>11
  <2> QED BY <2>1, <2>2 DEF There
<1>15. AllNamed'
  <2>1. i \in Tasks \cup Schedules => name # NoName
    BY <1>4, <1>5, <1>6, KindsAre DEF CatalogAssumption, Kinds
  <2> QED BY <2>1, <1>8, <1>11 DEF CatalogInv, AllNamed, There, Ids
<1>16. NamesUnique'
  <2> SUFFICES ASSUME NEW L \in {Tasks, Schedules}, NEW g \in L, NEW h \in L, g # h, There(g)', There(h)',
                      item'[g].name = item'[h].name
               PROVE  FALSE
    BY DEF NamesUnique
  <2>1. g \in Ids /\ h \in Ids
    BY DEF Ids
  <2>2. CASE i \notin {g, h}
    BY <1>11, <2>1, <2>2 DEF CatalogInv, NamesUnique, There
  <2>3. ASSUME NEW j \in L, j # i, There(j)', item'[j].name = name, i \in L
        PROVE  FALSE
    <3>1. L = Of(K) /\ K # "webhook"
      BY <1>6, <2>3, KindsAre DEF CatalogAssumption, Kinds
    <3>2. There(j) /\ item[j].name = name
      BY <1>11, <2>3 DEF There, Ids
    <3>3. name # NoName /\ name \notin TakenIn(L)
      BY <3>1, <1>4, <1>5
    <3> QED BY <3>2, <3>3, <2>3 DEF TakenIn
  <2> QED BY <1>8, <1>11, <2>2, <2>3
<1> QED BY <1>9, <1>10, <1>13, <1>14, <1>15, <1>16, UnlockedKeeps, StepKeeps


LEMMA UpdateStartsKeeps ==
    ASSUME CatalogAssumption, CatalogInv, NEW c \in Requests, NEW i \in Ids, UpdateStarts(c, i)
    PROVE  CatalogInv'
<1>1. PICK K : K = KindOf(i)
  OBVIOUS
<1>2. PICK n \in Names[K] \cup {NoName}, refs \in Bodies(K), withRefs \in BOOLEAN :
         Goes(c, [at |-> IF K = "webhook" THEN "set" ELSE "list", op |-> "update",
                  kind |-> K, id |-> i, taken |-> {},
                  name |-> IF n = NoName /\ K = "webhook" THEN item[i].name ELSE n,
                  withRefs |-> withRefs \/ K = "webhook",
                  refs |-> IF withRefs THEN refs ELSE IF K = "webhook" THEN item[i].refs ELSE {}])
  <2> DEFINE P(k, n, refs, withRefs) ==
                Goes(c, [at |-> IF k = "webhook" THEN "set" ELSE "list", op |-> "update",
                         kind |-> k, id |-> i, taken |-> {},
                         name |-> IF n = NoName /\ k = "webhook" THEN item[i].name ELSE n,
                         withRefs |-> withRefs \/ k = "webhook",
                         refs |-> IF withRefs THEN refs ELSE IF k = "webhook" THEN item[i].refs ELSE {}])
  <2>1. \E n \in Names[KindOf(i)] \cup {NoName}, refs \in Bodies(KindOf(i)), withRefs \in BOOLEAN :
           P(KindOf(i), n, refs, withRefs)
    BY ZenonT(40) DEF UpdateStarts
  <2>2. \E n \in Names[K] \cup {NoName}, refs \in Bodies(K), withRefs \in BOOLEAN : P(K, n, refs, withRefs)
    <3> HIDE DEF P
    <3> QED BY <1>1, <2>1
  <2> QED BY <2>2
<1>3. K \in Kinds /\ i \in Of(K) /\ item[i] \in Items /\ owed[c] = {}
  <2>1. There(i) /\ i \notin Actors /\ request[c] = NoRequest
    BY DEF UpdateStarts
  <2>2. K \in Kinds /\ i \in Of(K)
    BY <1>1, <2>1, KindsOfIds
  <2>3. owed[c] = {}
    BY <2>1 DEF CatalogInv, OwedOK, NoRequest
  <2> QED BY <2>1, <2>2, <2>3 DEF There, CatalogInv, CatalogTypeOK
<1> DEFINE at == IF K = "webhook" THEN "set" ELSE "list"
           name == IF n = NoName /\ K = "webhook" THEN item[i].name ELSE n
           names == IF withRefs THEN refs ELSE IF K = "webhook" THEN item[i].refs ELSE {}
           r == [at |-> at, op |-> "update", kind |-> K, id |-> i, taken |-> {}, name |-> name,
                 withRefs |-> withRefs \/ K = "webhook", refs |-> names]
<1>4. r \in UpdateShapes
  <2>1. n \in AllNames
    BY <1>3, NamesOfKinds
  <2>2. refs \in SUBSET Targets
    BY <1>3, BodiesAreTargets
  <2>3. item[i].name \in AllNames /\ item[i].refs \in SUBSET Targets
    BY <1>3 DEF Items
  <2>4. name \in AllNames /\ names \in SUBSET Targets /\ at \in {"list", "set"}
    BY <2>1, <2>2, <2>3
  <2>5. (withRefs \/ K = "webhook") \in BOOLEAN
    OBVIOUS
  <2> HIDE DEF name, names, at
  <2> QED BY <2>4, <2>5, <1>3 DEF UpdateShapes
<1>5. r.at \in {"list", "set"} /\ r.op = "update" /\ r.kind = K /\ r.id = i /\ (r.at = "set" => K = "webhook")
  OBVIOUS
<1>6. Goes(c, r)
  BY <1>2
<1> HIDE DEF r
<1>7. request'[c] = r /\ CatalogTypeOK' /\ UNCHANGED <<item, nameLock, owed>>
  BY <1>4, <1>6 DEF UpdateStarts, Goes, CatalogInv, CatalogTypeOK
<1>8. CreateOK(c)' /\ OwedOK(c)'
  BY <1>3, <1>5, <1>7 DEF CreateOK, OwedOK
<1>9. UpdateOK(c)'
  BY <1>3, <1>5, <1>7 DEF UpdateOK, Of
<1> QED BY <1>6, <1>7, <1>8, <1>9, ReadKeeps

LEMMA ListsOthersKeeps ==
    ASSUME CatalogAssumption, CatalogInv, NEW c \in Requests, ListsOthers(c)
    PROVE  CatalogInv'
<1> DEFINE q == request[c]
<1>1. q \in UpdateShapes /\ q.at = "list" /\ q.op = "update" /\ owed[c] = {}
  BY Shapes DEF ListsOthers, CatalogInv, OwedOK
<1>2. PICK K \in Kinds, i \in Ids : q.kind = K /\ q.id = i
  BY <1>1 DEF UpdateShapes
<1>3. PICK taken : taken = TakenIn(Of(K) \ {i})
  OBVIOUS
<1> DEFINE r == [q EXCEPT !.at = "set", !.taken = taken]
<1>4. /\ nameLock[K] = Nobody /\ nameLock' = [nameLock EXCEPT ![K] = c]
      /\ Goes(c, r) /\ UNCHANGED <<item, owed>>
  BY <1>2, <1>3 DEF ListsOthers
<1>5. i \in Of(K)
  BY <1>1, <1>2 DEF CatalogInv, UpdateOK
<1>6. taken \in SUBSET AllNames
  <2>1. \A j \in Of(K) : There(j) => item[j].name \in AllNames
    BY KindsAre DEF There, CatalogInv, CatalogTypeOK, Items
  <2> QED BY <1>3, <2>1 DEF TakenIn
<1>7. /\ r \in UpdateShapes /\ r.at = "set" /\ r.op = "update" /\ r.kind = K /\ r.id = i /\ r.taken = taken
  BY <1>1, <1>2, <1>6 DEF UpdateShapes
<1> HIDE DEF r
<1>8. request'[c] = r /\ CatalogTypeOK' /\ nameLock'[K] = c
  BY <1>4, <1>7 DEF Goes, CatalogInv, CatalogTypeOK
<1>9. UpdateOK(c)'
  <2>1. request'[c].kind = K /\ request'[c].id = i
    BY <1>7, <1>8
  <2>2. (Of(request[c].kind) \ {request[c].id})' = Of(K) \ {i}
    BY <2>1 DEF Of
  <2>3. TakenIn(Of(request[c].kind) \ {request[c].id})' = taken
    BY <1>3, <1>4, <2>2 DEF TakenIn, There
  <2>4. Of(request[c].kind)' = Of(K)
    BY <2>1 DEF Of
  <2> QED BY <1>5, <1>7, <1>8, <2>1, <2>3, <2>4 DEF UpdateOK
<1>10. CreateOK(c)' /\ OwedOK(c)'
  BY <1>1, <1>4, <1>7, <1>8 DEF CreateOK, OwedOK
<1>11. \A k \in Kinds : nameLock[k] \in Requests \ {c} => nameLock'[k] = nameLock[k]
  BY <1>4 DEF CatalogAssumption, CatalogInv, CatalogTypeOK
<1> QED BY <1>4, <1>8, <1>9, <1>10, <1>11, ReadKeeps

LEMMA DeleteStartsKeeps ==
    ASSUME CatalogInv, NEW c \in Requests, NEW i \in Ids, DeleteStarts(c, i)
    PROVE  CatalogInv'
<1> DEFINE r == [at |-> "delete", id |-> i]
<1>1. r \in DeleteShapes /\ r.at = "delete"
  BY DEF DeleteShapes
<1>2. Goes(c, r) /\ UNCHANGED <<item, nameLock, owed>> /\ owed[c] = {}
  BY DEF DeleteStarts, CatalogInv, OwedOK, NoRequest
<1> HIDE DEF r
<1>3. request'[c] = r /\ CatalogTypeOK'
  BY <1>1, <1>2 DEF Goes, CatalogInv, CatalogTypeOK
<1>4. CreateOK(c)' /\ UpdateOK(c)' /\ OwedOK(c)'
  BY <1>1, <1>2, <1>3 DEF CreateOK, UpdateOK, OwedOK
<1> QED BY <1>2, <1>3, <1>4, ReadKeeps

\* What a record is after a step that has it as it was, gone, or naming less.
LEMMA FadingKeeps ==
    ASSUME CatalogInv, CatalogTypeOK', NEW c \in Requests, NEW r, Goes(c, r), UNCHANGED nameLock,
           \A d \in Requests \ {c} : owed'[d] = owed[d],
           \A j \in Ids : item[j] # NotYet => item'[j] # NotYet,
           \A j \in Ids : There(j)' =>
              (There(j) /\ item'[j].name = item[j].name /\ item'[j].refs \subseteq item[j].refs),
           CreateOK(c)', UpdateOK(c)', OwedOK(c)'
    PROVE  CatalogInv'
<1>1. AllNamed' /\ NamesUnique'
  <2>1. \A j \in Tasks \cup Schedules : There(j)' => (There(j) /\ item'[j].name = item[j].name)
    BY DEF Ids
  <2> QED BY <2>1 DEF CatalogInv, AllNamed, NamesUnique
<1>2. \A d \in Requests \ {c} : owed'[d] \subseteq owed[d] /\ \A j \in owed'[d] :
          item'[j] # NotYet /\ (There(j)' => (There(j) /\ item'[j].refs \subseteq item[j].refs))
  BY DEF CatalogInv, OwedOK, CatalogTypeOK, Ids
<1>3. \A K \in {"task", "schedule"} :
          nameLock[K] = c \/ \A i \in Of(K) : There(i)' => (There(i) /\ item'[i].name = item[i].name)
  BY KindsAre DEF Kinds
<1> QED BY <1>1, <1>2, <1>3, StepKeeps


LEMMA ItemsAreThere == ASSUME CatalogAssumption, NEW v \in Items PROVE v \notin {NotYet, Gone}
<1>1. PICK name \in AllNames, refs \in SUBSET Targets : v = [name |-> name, refs |-> refs]
  BY DEF Items
<1>2. PICK k \in Kinds : name \in Names[k] \cup {NoName}
  BY NamesOfKinds
<1> QED BY <1>1, <1>2 DEF CatalogAssumption, Kinds, Targets

LEMMA UpdatesKeeps ==
    ASSUME CatalogAssumption, CatalogInv, NEW c \in Requests, Updates(c)
    PROVE  CatalogInv'
<1> DEFINE q == request[c]
<1>1. q \in UpdateShapes /\ q.at = "set" /\ q.op = "update" /\ owed[c] = {}
  BY Shapes DEF Updates, CatalogInv, OwedOK
<1>2. PICK K \in Kinds, i \in Ids : q.kind = K /\ q.id = i
  BY <1>1 DEF UpdateShapes
<1>3. /\ Unlocked(c) /\ Goes(c, NoRequest)
      /\ IF There(i) /\ Updated(q, item[i]).name \notin q.taken
         THEN /\ item' = [item EXCEPT ![i] = Updated(q, item[i])]
              /\ owed' = IF q.withRefs THEN [d \in Requests |-> owed[d] \ {i}] ELSE owed
         ELSE UNCHANGED <<item, owed>>
  BY <1>2 DEF Updates
<1>4. i \in Of(K) /\ (K # "webhook" => nameLock[K] = c /\ TakenIn(Of(K) \ {i}) \subseteq q.taken)
  BY <1>1, <1>2 DEF CatalogInv, UpdateOK
<1>5. /\ request'[c] = NoRequest
      /\ nameLock' \in [Kinds -> Requests \cup {Nobody}]
      /\ \A L \in Kinds : nameLock[L] \in Requests \ {c} => nameLock'[L] = nameLock[L]
  BY <1>3, UnlockedKeeps DEF Goes, CatalogInv, CatalogTypeOK
<1>6. CASE ~(There(i) /\ Updated(q, item[i]).name \notin q.taken)
  <2>1. UNCHANGED <<item, owed>>
    BY <1>3, <1>6
  <2>2. CatalogTypeOK'
    BY <2>1, <1>3, <1>5 DEF Goes, CatalogInv, CatalogTypeOK
  <2>3. CreateOK(c)' /\ UpdateOK(c)' /\ OwedOK(c)'
    BY <1>1, <1>5, <2>1 DEF CreateOK, UpdateOK, OwedOK, NoRequest
  <2> QED BY <1>3, <1>5, <2>1, <2>2, <2>3, ReadKeeps
<1>7. CASE There(i) /\ Updated(q, item[i]).name \notin q.taken
  <2>1. PICK v : v = Updated(q, item[i])
    OBVIOUS
  <2>2. item[i] \in Items
    BY <1>7 DEF There, CatalogInv, CatalogTypeOK
  <2>3. v \in Items
    BY <1>1, <2>1, <2>2 DEF Updated, UpdateShapes, Items
  <2>4. v \notin {NotYet, Gone}
    BY <2>3, ItemsAreThere
  <2>5. v.name \notin q.taken
    BY <1>7, <2>1
  <2>6. /\ q.name # NoName \/ v.name = item[i].name
        /\ q.name = NoName \/ v.name = q.name
        /\ q.withRefs \/ v.refs = item[i].refs
    BY <2>1 DEF Updated
  <2>7. /\ item' = [item EXCEPT ![i] = v]
        /\ owed' = IF q.withRefs THEN [d \in Requests |-> owed[d] \ {i}] ELSE owed
    BY <1>3, <1>7, <2>1
  <2>8. item'[i] = v /\ \A j \in Ids : j # i => item'[j] = item[j]
    BY <2>7 DEF CatalogInv, CatalogTypeOK
  <2>9. \A d \in Requests : owed'[d] = IF q.withRefs THEN owed[d] \ {i} ELSE owed[d]
    BY <2>7
  <2>10. CatalogTypeOK'
    <3>1. item' \in [Ids -> Items \cup {NotYet, Gone}]
      BY <2>3, <2>7 DEF CatalogInv, CatalogTypeOK
    <3>2. owed' \in [Requests -> SUBSET (Webhooks \cup Schedules)]
      BY <2>7 DEF CatalogInv, CatalogTypeOK
    <3> QED BY <3>1, <3>2, <1>3, <1>5 DEF Goes, CatalogInv, CatalogTypeOK
  <2>11. CreateOK(c)' /\ UpdateOK(c)' /\ OwedOK(c)'
    <3>1. owed'[c] = {}
      BY <1>1, <2>9
    <3> QED BY <1>5, <3>1 DEF CreateOK, UpdateOK, OwedOK, NoRequest
  <2>12. \A L \in {"task", "schedule"} : L = K \/ i \notin Of(L)
    BY <1>4, KindsAre DEF CatalogAssumption, Kinds
  <2>13. \A L \in {"task", "schedule"} :
            nameLock[L] = c \/ \A j \in Of(L) : There(j)' => (There(j) /\ item'[j].name = item[j].name)
    BY <1>4, <2>8, <2>12, KindsAre DEF There, Kinds
  <2>14. ASSUME NEW d \in Requests \ {c}, NEW j \in owed'[d]
         PROVE  item'[j] # NotYet /\ (There(j)' => (There(j) /\ item'[j].refs \subseteq item[j].refs))
    <3>1. j \in owed[d] /\ (j = i => ~q.withRefs)
      BY <2>9, <2>14
    <3>2. item[j] # NotYet /\ j \in Ids
      BY <3>1 DEF CatalogInv, OwedOK, CatalogTypeOK, Ids
    <3>3. CASE j = i
      BY <3>1, <3>3, <1>7, <2>4, <2>6, <2>8
    <3>4. CASE j # i
      BY <3>2, <3>4, <2>8 DEF There
    <3> QED BY <3>3, <3>4
  <2>15. i \in Tasks \cup Schedules => K # "webhook" /\ (K = "task" \/ K = "schedule")
    BY <1>4, KindsAre DEF CatalogAssumption, Kinds
  <2>16. i \in Tasks \cup Schedules => v.name # NoName
    BY <1>7, <2>6 DEF CatalogInv, AllNamed
  <2>17. AllNamed'
    BY <2>8, <2>16 DEF CatalogInv, AllNamed, There, Ids
  <2>18. NamesUnique'
    <3> SUFFICES ASSUME NEW L \in {Tasks, Schedules}, NEW g \in L, NEW h \in L, g # h, There(g)', There(h)',
                        item'[g].name = item'[h].name
                 PROVE  FALSE
      BY DEF NamesUnique
    <3>1. g \in Ids /\ h \in Ids
      BY DEF Ids
    <3>2. CASE i \notin {g, h}
      BY <2>8, <3>1, <3>2 DEF CatalogInv, NamesUnique, There
    <3>3. ASSUME NEW j \in L, j # i, There(j)', item'[j].name = v.name, i \in L
          PROVE  FALSE
      <4>1. L = Of(K) /\ K # "webhook"
        BY <1>4, <2>15, <3>3, KindsAre DEF CatalogAssumption
      <4>2. There(j) /\ item[j].name = v.name
        BY <2>8, <3>3 DEF There, Ids
      <4>3. v.name # NoName
        BY <2>16, <3>3
      <4>4. v.name \in TakenIn(Of(K) \ {i})
        BY <4>1, <4>2, <4>3, <3>3 DEF TakenIn
      <4> QED BY <4>1, <4>4, <1>4, <2>5
    <3> QED BY <2>8, <3>2, <3>3
  <2>19. \A d \in Requests \ {c} : owed'[d] \subseteq owed[d]
    BY <2>9
  <2> QED BY <1>3, <1>5, <2>10, <2>11, <2>13, <2>14, <2>17, <2>18, <2>19, StepKeeps
<1> QED BY <1>6, <1>7

LEMMA DeletesKeeps ==
    ASSUME CatalogAssumption, CatalogInv, NEW c \in Requests, Deletes(c)
    PROVE  CatalogInv'
<1>1. request[c] \in DeleteShapes /\ request[c].at = "delete" /\ owed[c] = {}
  BY Shapes DEF Deletes, CatalogInv, OwedOK
<1>2. PICK i \in Ids : request[c].id = i
  BY <1>1 DEF DeleteShapes
<1>3. /\ item' = [item EXCEPT ![i] = Gone] /\ UNCHANGED nameLock
      /\ IF i \in Targets
         THEN /\ Goes(c, [at |-> "webhooks", id |-> i])
              /\ owed' = [owed EXCEPT ![c] = Naming(Webhooks \cup Schedules, i)]
         ELSE Goes(c, NoRequest) /\ UNCHANGED owed
  BY <1>2 DEF Deletes
<1>4. /\ item' \in [Ids -> Items \cup {NotYet, Gone}]
      /\ item'[i] = Gone /\ \A j \in Ids : j # i => item'[j] = item[j]
  BY <1>3 DEF CatalogInv, CatalogTypeOK
<1>5. /\ \A j \in Ids : item[j] # NotYet => item'[j] # NotYet
      /\ \A j \in Ids : There(j)' =>
            (There(j) /\ item'[j].name = item[j].name /\ item'[j].refs \subseteq item[j].refs)
  BY <1>4 DEF There, CatalogAssumption
<1>6. CASE i \in Targets
  <2> DEFINE r == [at |-> "webhooks", id |-> i]
  <2>1. r \in DeleteShapes /\ r.at = "webhooks"
    BY DEF DeleteShapes
  <2>2. Goes(c, r) /\ owed' = [owed EXCEPT ![c] = Naming(Webhooks \cup Schedules, i)]
    BY <1>3, <1>6
  <2> HIDE DEF r
  <2>3. /\ Naming(Webhooks \cup Schedules, i) \subseteq Webhooks \cup Schedules
        /\ \A j \in Naming(Webhooks \cup Schedules, i) : item[j] # NotYet
    BY DEF Naming, There
  <2>4. request'[c] = r /\ CatalogTypeOK' /\ owed'[c] = Naming(Webhooks \cup Schedules, i)
    BY <1>3, <1>4, <2>1, <2>2, <2>3 DEF Goes, CatalogInv, CatalogTypeOK
  <2>5. CreateOK(c)' /\ UpdateOK(c)'
    BY <2>1, <2>4 DEF CreateOK, UpdateOK
  <2>6. OwedOK(c)'
    BY <1>5, <2>1, <2>3, <2>4 DEF OwedOK, Ids
  <2>7. \A d \in Requests \ {c} : owed'[d] = owed[d]
    BY <2>2 DEF CatalogInv, CatalogTypeOK
  <2> QED BY <1>3, <1>5, <2>2, <2>4, <2>5, <2>6, <2>7, FadingKeeps
<1>7. CASE i \notin Targets
  <2>1. Goes(c, NoRequest) /\ UNCHANGED owed
    BY <1>3, <1>7
  <2>2. request'[c] = NoRequest /\ CatalogTypeOK'
    BY <1>3, <1>4, <2>1 DEF Goes, CatalogInv, CatalogTypeOK
  <2>3. CreateOK(c)' /\ UpdateOK(c)' /\ OwedOK(c)'
    BY <1>1, <2>1, <2>2 DEF CreateOK, UpdateOK, OwedOK, NoRequest
  <2> QED BY <1>3, <1>5, <2>1, <2>2, <2>3, FadingKeeps
<1> QED BY <1>6, <1>7

LEMMA ListsNamingKeeps ==
    ASSUME CatalogInv, NEW c \in Requests, ListsNaming(c)
    PROVE  CatalogInv'
<1>1. request[c] \in DeleteShapes /\ request[c].at \in {"webhooks", "schedules"} /\ UNCHANGED <<item, nameLock, owed>>
  BY Shapes DEF ListsNaming, CatalogInv
<1>2. PICK i \in Ids : request[c].id = i
  BY <1>1 DEF DeleteShapes
<1>3. PICK at, left :
        /\ at = IF request[c].at = "webhooks" THEN "unhook" ELSE "unschedule"
        /\ left = Naming(IF request[c].at = "webhooks" THEN Webhooks ELSE Schedules, i)
        /\ Goes(c, [at |-> at, id |-> i, left |-> left])
  BY <1>2 DEF ListsNaming
<1> DEFINE r == [at |-> at, id |-> i, left |-> left]
<1>4. at \in {"unhook", "unschedule"} /\ left \subseteq Webhooks \cup Schedules
  BY <1>3 DEF Naming
<1>5. r \in CascadeShapes /\ r.at = at /\ r.id = i /\ r.left = left
  BY <1>4 DEF CascadeShapes
<1>6. Goes(c, r)
  BY <1>3
<1> HIDE DEF r
<1>7. request'[c] = r /\ CatalogTypeOK'
  BY <1>1, <1>5, <1>6 DEF Goes, CatalogInv, CatalogTypeOK
<1>8. CreateOK(c)' /\ UpdateOK(c)'
  BY <1>4, <1>5, <1>7 DEF CreateOK, UpdateOK
<1>9. OwedOK(c)'
  <2>1. \A j : Owes(c, j)' <=> Owes(c, j)
    BY <1>1, <1>2, <1>5, <1>7 DEF Owes, There
  <2>2. OwedOK(c)
    BY DEF CatalogInv
  <2>3. at = "unhook" => \A j \in Webhooks : Owes(c, j) => j \in left
    BY <1>1, <1>2, <1>3 DEF Owes, Naming
  <2>4. at = "unschedule" => \A j \in Schedules : Owes(c, j) => j \in left
    BY <1>1, <1>2, <1>3 DEF Owes, Naming
  <2>5. at = "unschedule" => \A j \in Webhooks : ~Owes(c, j)
    BY <1>1, <1>3, <2>2 DEF OwedOK
  <2> QED BY <1>1, <1>4, <1>5, <1>7, <2>1, <2>2, <2>3, <2>4, <2>5 DEF OwedOK
<1> QED BY <1>1, <1>6, <1>7, <1>8, <1>9, ReadKeeps


LEMMA CascadesKeeps ==
    ASSUME CatalogAssumption, CatalogInv, NEW c \in Requests, Cascades(c)
    PROVE  CatalogInv'
<1> DEFINE q == request[c]
<1>1. q \in CascadeShapes /\ q.at \in {"unhook", "unschedule"} /\ UNCHANGED <<nameLock, owed>>
  BY Shapes DEF Cascades, CatalogInv
<1>2. PICK j \in q.left :
        /\ Goes(c, [q EXCEPT !.left = q.left \ {j}])
        /\ item' = IF q.at = "unhook" THEN [item EXCEPT ![j] = Gone]
                   ELSE IF There(j) THEN [item EXCEPT ![j].refs = item[j].refs \ {q.id}] ELSE item
  BY DEF Cascades
<1>3. j \in Ids /\ item \in [Ids -> Items \cup {NotYet, Gone}]
  BY <1>1 DEF CascadeShapes, Ids, CatalogInv, CatalogTypeOK
<1>4. /\ item' \in [Ids -> Items \cup {NotYet, Gone}]
      /\ \A h \in Ids : h # j => item'[h] = item[h]
      /\ q.at = "unhook" => item'[j] = Gone
      /\ (q.at = "unschedule" /\ ~There(j)) => item'[j] = item[j]
      /\ (q.at = "unschedule" /\ There(j)) =>
            item'[j] \in Items /\ item'[j].name = item[j].name /\ item'[j].refs = item[j].refs \ {q.id}
  <2>1. CASE q.at = "unhook"
    BY <1>2, <1>3, <2>1
  <2>2. CASE q.at = "unschedule" /\ ~There(j)
    BY <1>2, <1>3, <2>2
  <2>3. CASE q.at = "unschedule" /\ There(j)
    <3>1. PICK v \in Items : v = item[j]
      BY <1>3, <2>3 DEF There
    <3>2. item' = [item EXCEPT ![j] = [v EXCEPT !.refs = v.refs \ {q.id}]]
      BY <1>2, <2>3, <3>1
    <3>3. PICK w : w = [v EXCEPT !.refs = v.refs \ {q.id}]
      OBVIOUS
    <3>4. w \in Items /\ w.name = v.name /\ w.refs = v.refs \ {q.id}
      BY <3>1, <3>3 DEF Items
    <3>5. item' = [item EXCEPT ![j] = w]
      BY <3>2, <3>3
    <3> QED BY <3>1, <3>4, <3>5, <1>3, <2>3
  <2> QED BY <1>1, <2>1, <2>2, <2>3
<1>5. \A h \in Ids : item[h] # NotYet => item'[h] # NotYet
  BY <1>1, <1>4, ItemsAreThere DEF CatalogAssumption
<1>6. \A h \in Ids : There(h)' =>
         (There(h) /\ item'[h].name = item[h].name /\ item'[h].refs \subseteq item[h].refs)
  BY <1>1, <1>3, <1>4 DEF There
<1>7. PICK left : left = q.left \ {j}
  OBVIOUS
<1> DEFINE r == [q EXCEPT !.left = left]
<1>8. Goes(c, r)
  BY <1>2, <1>7
<1>9. r \in CascadeShapes /\ r.at = q.at /\ r.id = q.id /\ r.left = left
  BY <1>1, <1>7 DEF CascadeShapes
<1> HIDE DEF r
<1>10. request'[c] = r /\ CatalogTypeOK'
  BY <1>1, <1>4, <1>8, <1>9 DEF Goes, CatalogInv, CatalogTypeOK
<1>11. CreateOK(c)' /\ UpdateOK(c)'
  BY <1>1, <1>9, <1>10 DEF CreateOK, UpdateOK
<1>12. OwedOK(c)'
  <2>1. OwedOK(c)
    BY DEF CatalogInv
  <2>2. \A h \in Ids : Owes(c, h)' => Owes(c, h) /\ h # j
    BY <1>1, <1>3, <1>4, <1>6, <1>9, <1>10 DEF Owes, There
  <2>3. \A h \in owed[c] : h \in Ids /\ item'[h] # NotYet
    BY <1>5, <2>1 DEF OwedOK, CatalogInv, CatalogTypeOK, Ids
  <2> QED BY <1>1, <1>7, <1>9, <1>10, <2>1, <2>2, <2>3 DEF OwedOK, Ids
<1>13. \A d \in Requests \ {c} : owed'[d] = owed[d]
  BY <1>1
<1> QED BY <1>1, <1>5, <1>6, <1>8, <1>10, <1>11, <1>12, <1>13, FadingKeeps

LEMMA CascadedKeeps ==
    ASSUME CatalogInv, NEW c \in Requests, Cascaded(c)
    PROVE  CatalogInv'
<1>1. /\ request[c] \in CascadeShapes /\ request[c].at \in {"unhook", "unschedule"} /\ request[c].left = {}
      /\ UNCHANGED <<item, nameLock>>
  BY Shapes DEF Cascaded, CatalogInv
<1>2. PICK i \in Ids : request[c].id = i
  BY <1>1 DEF CascadeShapes
<1>3. CASE request[c].at = "unhook"
  <2> DEFINE r == [at |-> "schedules", id |-> i]
  <2>1. r \in DeleteShapes /\ r.at = "schedules" /\ r.id = i
    BY DEF DeleteShapes
  <2>2. Goes(c, r) /\ UNCHANGED owed
    BY <1>2, <1>3 DEF Cascaded
  <2> HIDE DEF r
  <2>3. request'[c] = r /\ CatalogTypeOK'
    BY <1>1, <2>1, <2>2 DEF Goes, CatalogInv, CatalogTypeOK
  <2>4. CreateOK(c)' /\ UpdateOK(c)'
    BY <2>1, <2>3 DEF CreateOK, UpdateOK
  <2>5. OwedOK(c)'
    <3>1. \A j : Owes(c, j)' <=> Owes(c, j)
      BY <1>1, <1>2, <2>1, <2>2, <2>3 DEF Owes, There
    <3>2. OwedOK(c)
      BY DEF CatalogInv
    <3> QED BY <1>1, <1>3, <2>1, <2>2, <2>3, <3>1, <3>2 DEF OwedOK
  <2> QED BY <1>1, <2>2, <2>3, <2>4, <2>5, ReadKeeps
<1>4. CASE request[c].at = "unschedule"
  <2>1. Goes(c, NoRequest) /\ owed' = [owed EXCEPT ![c] = {}]
    BY <1>4 DEF Cascaded
  <2>2. request'[c] = NoRequest /\ owed'[c] = {} /\ CatalogTypeOK'
    BY <1>1, <2>1 DEF Goes, CatalogInv, CatalogTypeOK
  <2>3. CreateOK(c)' /\ UpdateOK(c)' /\ OwedOK(c)'
    BY <2>2 DEF CreateOK, UpdateOK, OwedOK, NoRequest
  <2>4. \A d \in Requests \ {c} : owed'[d] = owed[d]
    BY <2>1 DEF CatalogInv, CatalogTypeOK
  <2> QED BY <1>1, <2>1, <2>2, <2>3, <2>4, ReadKeeps
<1> QED BY <1>1, <1>3, <1>4

LEMMA CatalogInitHolds == CatalogAssumption /\ CatalogInit => CatalogInv
<1> SUFFICES ASSUME CatalogAssumption, CatalogInit PROVE CatalogInv
  OBVIOUS
<1>1. [name |-> NoName, refs |-> {}] \in Items
  BY NamesOfKinds DEF Items, AllNames
<1>2. CatalogTypeOK
  BY <1>1 DEF CatalogInit, CatalogTypeOK
<1>3. \A i \in Tasks \cup Schedules \cup Webhooks : ~There(i)
  BY DEF CatalogInit, CatalogAssumption, There, Ids
<1>4. AllNamed /\ NamesUnique
  BY <1>3 DEF AllNamed, NamesUnique
<1>5. \A c \in Requests : CreateOK(c) /\ UpdateOK(c) /\ OwedOK(c)
  BY DEF CatalogInit, CreateOK, UpdateOK, OwedOK, NoRequest
<1> QED BY <1>2, <1>4, <1>5 DEF CatalogInv

LEMMA CatalogNextHolds ==
    ASSUME CatalogAssumption, CatalogInv, [CatalogNext]_catalogVars
    PROVE  CatalogInv'
<1>1. CASE UNCHANGED catalogVars
  <2>1. UNCHANGED <<item, nameLock, request, owed>>
    BY <1>1 DEF catalogVars
  <2>2. CatalogTypeOK' /\ AllNamed' /\ NamesUnique'
    BY <2>1 DEF CatalogInv, CatalogTypeOK, AllNamed, NamesUnique, There
  <2>3. ASSUME NEW c \in Requests
        PROVE  CreateOK(c)' /\ UpdateOK(c)' /\ OwedOK(c)'
    <3> DEFINE names == TakenIn(Of(request[c].kind))
               others == TakenIn(Of(request[c].kind) \ {request[c].id})
    <3>4. names' = names /\ others' = others /\ Of(request[c].kind)' = Of(request[c].kind)
      BY <2>1 DEF TakenIn, There, Of
    <3>1. CreateOK(c)'
      BY <2>1, <3>4 DEF CatalogInv, CreateOK
    <3>2. UpdateOK(c)'
      BY <2>1, <3>4 DEF CatalogInv, UpdateOK
    <3>3. OwedOK(c)'
      BY <2>1 DEF CatalogInv, OwedOK, Owes, There
    <3> QED BY <3>1, <3>2, <3>3
  <2> QED BY <2>2, <2>3 DEF CatalogInv
<1> QED BY <1>1, CreateStartsKeeps, UpdateStartsKeeps, DeleteStartsKeeps, ListsTakenKeeps, SetsKeeps,
           ListsOthersKeeps, UpdatesKeeps, DeletesKeeps, ListsNamingKeeps, CascadesKeeps, CascadedKeeps
        DEF CatalogNext

LEMMA CatalogHolds == CatalogSpec => []CatalogInv
BY CatalogAssumption, CatalogInitHolds, CatalogNextHolds, PTL DEF CatalogSpec

\* However many requests create and rename tasks and schedules at the same time, no two of a
\* kind come to have one name (services/tasks.ts, services/schedules.ts).
THEOREM NamesStayUnique == CatalogSpec => []NamesUnique
<1>1. CatalogInv => NamesUnique
  BY DEF CatalogInv
<1> QED BY <1>1, CatalogHolds, PTL

\* Whatever is created, updated and deleted while a DELETE of an Actor or a task goes through
\* the webhooks and the schedules: when it answers, nothing that named the record at its delete
\* does so any more, unless a request wrote the name anew (api/routes/actors.ts,
\* api/routes/tasks.ts).
THEOREM CascadesComplete == CatalogSpec => []CascadeComplete
<1>1. CatalogInv => CascadeComplete
  <2> SUFFICES ASSUME CatalogInv, NEW c \in Requests, request[c].at = "unschedule", request[c].left = {},
                      NEW j \in owed[c], There(j), request[c].id \in item[j].refs
               PROVE  FALSE
    BY DEF CascadeComplete
  <2>1. OwedOK(c) /\ Owes(c, j) /\ j \in Webhooks \cup Schedules
    BY DEF CatalogInv, CatalogTypeOK, Owes
  <2> QED BY <2>1 DEF OwedOK
<1> QED BY <1>1, CatalogHolds, PTL

=============================================================================
