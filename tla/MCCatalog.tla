------------------------------- MODULE MCCatalog -------------------------------
(* A registry, and the parts that are built from registries, side by side in one *)
(* run of the checker: they share no state, a behaviour is one of one of them.          *)
EXTENDS Catalog, ActorVersions, Registry, Storages, StandbyConfig, RunEnvironment, Pricing, TLC

CONSTANTS n1, n2, lower, upper

VARIABLE part   \* the one that this behaviour is of

partsVars == <<part, catalogVars, versionVars, mutexVars, storageVars, standbyConfigVars,
               environmentVars, pricingVars>>

Init ==
    /\ CatalogInit /\ VersionsInit /\ RegistryInit
    /\ StoragesInit /\ StandbyConfigInit /\ EnvironmentInit /\ PricingInit
    /\ part \in {"catalog", "versions", "registry", "storages", "standby", "environment",
                "pricing"}
    /\ part # "registry" => \A r \in Records : store[r] = Absent

Next ==
    /\ UNCHANGED part
    /\ \/ part = "catalog" /\ CatalogNext
          /\ UNCHANGED <<versionVars, mutexVars, storageVars, standbyConfigVars, environmentVars, pricingVars>>
       \/ part = "versions" /\ VersionsNext
          /\ UNCHANGED <<catalogVars, mutexVars, storageVars, standbyConfigVars, environmentVars, pricingVars>>
       \/ part = "registry" /\ RegistryNext
          /\ UNCHANGED <<catalogVars, versionVars, storageVars, standbyConfigVars, environmentVars, pricingVars>>
       \/ part = "storages" /\ StoragesNext
          /\ UNCHANGED <<catalogVars, versionVars, mutexVars, standbyConfigVars, environmentVars, pricingVars>>
       \/ part = "standby" /\ StandbyConfigNext
          /\ UNCHANGED <<catalogVars, versionVars, mutexVars, storageVars, environmentVars, pricingVars>>
       \/ part = "environment" /\ EnvironmentNext
          /\ UNCHANGED <<catalogVars, versionVars, mutexVars, storageVars, standbyConfigVars, pricingVars>>
       \/ part = "pricing" /\ PricingNext
          /\ UNCHANGED <<catalogVars, versionVars, mutexVars, storageVars, standbyConfigVars, environmentVars>>

Spec == Init /\ [][Next]_partsVars

\* The requests of every part are the same two, and alike.
RequestsAlike == Permutations(Requests)

\* Two tasks can be in each other's way; one schedule and one webhook cannot.
NamesOf == [task |-> {n1, n2}, schedule |-> {n1}, webhook |-> {n1}]

\* One name in two casings.
Casings == {<<n1, lower>>, <<n1, upper>>}

\* Bodies of requests that touch on the rules of the settings: enabled or not, overriding
\* or not, and numbers that are only valid over some of the stored ones.
Body(enabled, disable, desired, maximum) ==
    [f \in Fields |-> CASE f = "isEnabled" -> enabled
                        [] f = "disableStandbyFieldsOverride" -> disable
                        [] f = "desiredRequestsPerActorRun" -> desired
                        [] f = "maxRequestsPerActorRun" -> maximum
                        [] OTHER -> Unmentioned]
BodiesOfActors ==
    {Body(e, Unmentioned, Unmentioned, Unmentioned) : e \in BOOLEAN}
        \cup {Body(Unmentioned, d, Unmentioned, Unmentioned) : d \in BOOLEAN}
        \cup {Body(Unmentioned, Unmentioned, 2, 2), Body(Unmentioned, Unmentioned, Unmentioned, 6),
              Body(Unmentioned, Unmentioned, 5, Unmentioned)}
BodiesOfTasks ==
    {Body(Unmentioned, Unmentioned, 4, Unmentioned), Body(Unmentioned, Unmentioned, 1, 2),
     Body(Unmentioned, Unmentioned, Unmentioned, 5)}

\* Builds with one bound, with bounds that contradict each other and with a default; of a
\* package manager, of node and of a shell; with variables of the debugger's and of the
\* platform's names, secret ones included.
NoVars == [n \in {} |-> <<>>]
BuildsOf == {
    [min |-> Unset, max |-> 512, default |-> 256, words |-> {"npm"}, fingerprint |-> "node",
     imageEnv |-> NoVars, workdir |-> FALSE,
     versionEnv |-> ("APIFY_TOKEN" :> [value |-> "mine", isSecret |-> TRUE])],
    [min |-> 256, max |-> 128, default |-> Unset, words |-> {"node"}, fingerprint |-> Unset,
     imageEnv |-> ("NODE_OPTIONS" :> <<"image">>), workdir |-> TRUE,
     versionEnv |-> ("NODE_OPTIONS" :> [value |-> "mine", isSecret |-> FALSE])
                 @@ ("ACTOR_STANDBY_PORT" :> [value |-> "80", isSecret |-> FALSE])
                 @@ ("ACTOR_WEB_SERVER_PORT" :> [value |-> "81", isSecret |-> TRUE])],
    [min |-> 512, max |-> 2048, default |-> 128, words |-> {"sh"}, fingerprint |-> "python",
     imageEnv |-> ("PYTHONPATH" :> <<"image">>), workdir |-> TRUE,
     versionEnv |-> ("PYTHONPATH" :> [value |-> "mine", isSecret |-> FALSE])
                 @@ ("APIFY_PROXY_PASSWORD" :> [value |-> "mine", isSecret |-> TRUE])]}
RequestsOf == {
    [memory |-> Unset, timeout |-> Unset, devFolder |-> TRUE, proxyPassword |-> FALSE],
    [memory |-> 4096, timeout |-> 0, devFolder |-> FALSE, proxyPassword |-> TRUE]}
OptionsOf == {[memoryMbytes |-> 4096, timeoutSecs |-> Unset], [memoryMbytes |-> 1000, timeoutSecs |-> 60]}
DebugOf == {[language |-> "auto", port |-> Unset], [language |-> "node", port |-> "9999"]}

\* Lists of up to three entries with starts on three days: free, priced flat, priced
\* by tier; one without the tier that runs go by, and one with both kinds of price.
Flat == [flat |-> 2, tiers |-> Omitted]
Tiered == [flat |-> Omitted, tiers |-> ("BRONZE" :> 1) @@ ("GOLD" :> 3)]
NoTier == [flat |-> Omitted, tiers |-> ("GOLD" :> 3)]
Infos == {[startedAt |-> 1, events |-> FREE], [startedAt |-> Omitted, events |-> ("item" :> Flat)],
          [startedAt |-> 1, events |-> ("item" :> Flat)], [startedAt |-> 2, events |-> ("item" :> Tiered)],
          [startedAt |-> 3, events |-> FREE]}
ListsOfPrices ==
    UNION {[1 .. n -> Infos] : n \in 0 .. 3}
        \cup {<<[startedAt |-> 1, events |-> ("item" :> e)]>> :
                  e \in {NoTier, [Flat EXCEPT !.tiers = Tiered.tiers]}}
=============================================================================
