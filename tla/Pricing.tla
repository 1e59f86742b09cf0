-------------------------------- MODULE Pricing --------------------------------
(***************************************************************************)
(* The prices of an Actor (services/pricing.ts): the list of pricing infos *)
(* in its record, the PUT and the console's form that submit a new list,   *)
(* and the price a run is given when it starts. A submission is checked    *)
(* against the list its request read, and stored, whole, when it gets to   *)
(* the record; a run is priced by the list its request read, too.          *)
(*                                                                         *)
(* Times are days. A submitted pricing info is [startedAt, events], with   *)
(* FREE for the events of that model; an event has a flat price, prices    *)
(* per tier, or both or neither in a body that is wrong. Bodies that are   *)
(* not of this form, and other pricing models, are refused as they are.    *)
(***************************************************************************)
EXTENDS Integers, Sequences

CONSTANTS
    PriceEditors,     \* requests that submit prices, under way at once
    PricedRuns,       \* runs
    PriceLists,       \* the lists that are submitted
    FREE,             \* the pricing model without events
    Omitted,          \* a field that a body leaves out
    MaxDay            \* bound: the last day

RESOLVED_PRICING_TIER == "BRONZE"

\* A body has the times and prices that its schema lets through.
SubmittedInfos == UNION {{list[i] : i \in DOMAIN list} : list \in PriceLists}

ASSUME PricingAssumption ==
    /\ PriceLists \subseteq Seq(SubmittedInfos)
    /\ Omitted \notin Nat
    /\ \A info \in SubmittedInfos :
        /\ DOMAIN info = {"startedAt", "events"} /\ info.startedAt \in Nat \cup {Omitted}
        /\ info.events # FREE => \A e \in DOMAIN info.events :
              info.events[e].tiers # Omitted =>
                  \A tier \in DOMAIN info.events[e].tiers : info.events[e].tiers[tier] # Omitted

VARIABLES
    pricingInfos,   \* the Actor's record: a sequence of pricing infos
    day,            \* new Date()
    submitted,      \* of each editor, the list it is about to store
    starting        \* of each run, the list its request read, or the price it got

pricingVars == <<pricingInfos, day, submitted, starting>>

NothingSubmitted == [ok |-> FALSE]
NotRequested == [at |-> "no"]

-----------------------------------------------------------------------------
\* validateChargeEvent: a flat price or prices by tier, those with the one runs go by.
validateChargeEvent(event) ==
    /\ (event.flat = Omitted) # (event.tiers = Omitted)
    /\ event.tiers # Omitted => RESOLVED_PRICING_TIER \in DOMAIN event.tiers

\* validatePricingInfo.
validatePricingInfo(info) ==
    info.events # FREE =>
        /\ DOMAIN info.events # {}
        /\ \A e \in DOMAIN info.events : validateChargeEvent(info.events[e])

\* validatePricingInfos: what is stored has a start, the time of the request if need be.
Filled(list) ==
    [i \in DOMAIN list |->
        IF list[i].startedAt = Omitted THEN [list[i] EXCEPT !.startedAt = day] ELSE list[i]]

Future(info) == info.startedAt > day

\* Mutant: the entries an update has to keep are counted, and not compared.
validatePricingInfosUpdate_Counts(list, existing) ==
    /\ \A i \in DOMAIN list : validatePricingInfo(list[i])
    /\ Len(list) - Len(existing) \in {0, 1}
    /\ Len(list) > Len(existing) =>
        LET added == list[Len(list)]
        IN  /\ \A i \in DOMAIN existing : added.startedAt > existing[i].startedAt
            /\ ~(Future(added) /\ \E i \in DOMAIN existing : Future(existing[i]))

\* validatePricingInfosUpdate: the existing entries unchanged and at most one more, that
\* starts after them all; and only one of all that has not started yet.
validatePricingInfosUpdate(list, existing) ==
    /\ \A i \in DOMAIN list : validatePricingInfo(list[i])
    /\ Len(list) - Len(existing) \in {0, 1}
    /\ SubSeq(list, 1, Len(existing)) = existing
    /\ Len(list) > Len(existing) =>
        LET added == list[Len(list)]
        IN  /\ \A i \in DOMAIN existing : added.startedAt > existing[i].startedAt
            /\ ~(Future(added) /\ \E i \in DOMAIN existing : Future(existing[i]))

\* effectivePricingInfo: the entries of the list that is the latest one started by the date.
effectivePricingInfo(list, date) ==
    {list[i] : i \in {j \in DOMAIN list :
        /\ list[j].startedAt <= date
        /\ \A k \in DOMAIN list : list[k].startedAt <= date => list[k].startedAt <= list[j].startedAt}}

\* resolveRunPricingInfo: the price of each event, tiers collapsed.
resolveRunPricingInfo(info) ==
    [startedAt |-> info.startedAt,
     events |-> IF info.events = FREE THEN FREE
                ELSE [e \in DOMAIN info.events |->
                        IF info.events[e].flat # Omitted THEN info.events[e].flat
                        ELSE info.events[e].tiers[RESOLVED_PRICING_TIER]]]

-----------------------------------------------------------------------------
\* createActor: prices cannot be set by the POST.
PricingInit ==
    /\ pricingInfos = <<>>
    /\ day = 1
    /\ submitted = [e \in PriceEditors |-> NothingSubmitted]
    /\ starting = [r \in PricedRuns |-> NotRequested]

\* pricingInfosFromBody of a PUT, setActorPricingInfos of the console: against the list
\* that the request read.
Submits(e, list) ==
    /\ ~submitted[e].ok
    /\ validatePricingInfosUpdate(Filled(list), pricingInfos)
    /\ submitted' = [submitted EXCEPT ![e] = [ok |-> TRUE, list |-> Filled(list)]]
    /\ UNCHANGED <<pricingInfos, day, starting>>

\* The update of the Actor's record replaces the list there is by then.
PricesStored(e) ==
    /\ submitted[e].ok
    /\ pricingInfos' = submitted[e].list
    /\ submitted' = [submitted EXCEPT ![e] = NothingSubmitted]
    /\ UNCHANGED <<day, starting>>

\* startActorRun has read the Actor, and looks for the build.
RunRequested(r) ==
    /\ starting[r] = NotRequested
    /\ starting' = [starting EXCEPT ![r] = [at |-> "read", list |-> pricingInfos]]
    /\ UNCHANGED <<pricingInfos, day, submitted>>

\* startRun: the price of the run from now on, if any is in force.
RunPriced(r) ==
    /\ starting[r].at = "read"
    /\ starting' = [starting EXCEPT ![r] =
           [at |-> "priced",
            by |-> {resolveRunPricingInfo(i) : i \in effectivePricingInfo(starting[r].list, day)}]]
    /\ UNCHANGED <<pricingInfos, day, submitted>>

DayPasses ==
    /\ day < MaxDay
    /\ day' = day + 1
    /\ UNCHANGED <<pricingInfos, submitted, starting>>

PricingNext ==
    \/ \E e \in PriceEditors : PricesStored(e) \/ \E list \in PriceLists : Submits(e, list)
    \/ \E r \in PricedRuns : RunRequested(r) \/ RunPriced(r)
    \/ DayPasses

PricingSpec == PricingInit /\ [][PricingNext]_pricingVars

-----------------------------------------------------------------------------
\* The list of prices is a history, whatever submissions overlap: in the order its entries
\* start, so that one of them is in force at any time, with one still to come at most.
HistoryInOrder ==
    /\ \A i, j \in DOMAIN pricingInfos :
          i < j => pricingInfos[i].startedAt < pricingInfos[j].startedAt
    /\ \A i, j \in DOMAIN pricingInfos :
          Future(pricingInfos[i]) /\ Future(pricingInfos[j]) => i = j

\* A run has one price at most, and never another price than the entry in force gave it:
\* no event of a run is charged at the 0 that stands for a missing price.
PricedByOneEntry ==
    \A r \in PricedRuns : starting[r].at = "priced" =>
        \A p, q \in starting[r].by :
            /\ p = q
            /\ p.events # FREE => \A e \in DOMAIN p.events : p.events[e] # Omitted

\* What a run is charged at, over all edits of the prices.
PricesAreAHistory == HistoryInOrder /\ PricedByOneEntry

\* The comment on validatePricingInfosUpdate: an update only appends, "so a price a run was
\* charged at can always be read back".
\* Refuted with two submissions at once: see README.md, Findings.
PriceCanBeReadBack ==
    \A r \in PricedRuns : starting[r].at = "priced" =>
        \A p \in starting[r].by :
            \E i \in DOMAIN pricingInfos : resolveRunPricingInfo(pricingInfos[i]) = p

=============================================================================
