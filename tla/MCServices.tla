------------------------------ MODULE MCServices ------------------------------
(* The services around a run that share no state with each other, side by side in one  *)
(* run of the checker: a behaviour is one of one of them, so the states add up.        *)
EXTENDS Charging, RunLog, Users, DevFolderProbe, BrowserViewer, TLC

CONSTANTS t1, t2, t3, account

VARIABLE service   \* the one that this behaviour is of

servicesVars == <<service, chargingVars, logVars, userVars, probeVars, viewerVars>>

\* t1 and t2 are tokens of one account, t3 is not known to the platform.
Accounts == (t1 :> account) @@ (t2 :> account) @@ (t3 :> Unknown)

OneCent == [e \in Events |-> 1]

\* A host with room for a folder /b/b, links to both folders of its root, and /a/b submitted.
HostNodes == {<<"a">>, <<"b">>, <<"b", "b">>}
HostTargets == {<<"a">>, <<"b">>}
SubmittedFolders == {<<"a", "b">>}

\* The readers of the log and those of the events do not meet: each kind on its own.
NeverConnects(readers) == \A s \in readers : stream'[s] = NotConnected

\* The hosts matter to the probe and the caps to the charges.
Init ==
    /\ service \in {"charging", "log", "events", "users", "probe", "viewer"}
    /\ ChargingInit /\ (service # "charging" => run.cap = NoCap)
    /\ LogInit /\ UsersInit
    /\ ViewerInit /\ (service # "viewer" => sharesNetns)
    /\ ProbeInit /\ (service # "probe" => engine = "Docker" /\ \A p \in Nodes : host[p].kind = "none")

Next ==
    /\ UNCHANGED service
    /\ \/ service = "charging" /\ ChargingNext
          /\ UNCHANGED <<logVars, userVars, probeVars, viewerVars>>
       \/ service = "log" /\ LogNext /\ NeverConnects(Sockets)
          /\ UNCHANGED <<chargingVars, userVars, probeVars, viewerVars>>
       \/ service = "events" /\ LogNext /\ NeverConnects(Streams)
          /\ UNCHANGED <<chargingVars, userVars, probeVars, viewerVars>>
       \/ service = "users" /\ UsersNext
          /\ UNCHANGED <<chargingVars, logVars, probeVars, viewerVars>>
       \/ service = "probe" /\ ProbeNext
          /\ UNCHANGED <<chargingVars, logVars, userVars, viewerVars>>
       \/ service = "viewer" /\ ViewerNext
          /\ UNCHANGED <<chargingVars, logVars, userVars, probeVars>>

Spec == Init /\ [][Next]_servicesVars /\ LogFairness

\* Whatever fails or crashes, the containers and volumes that the runtime creates on the side
\* are those of a probe or a view under way, but for what the engine refused to remove.
NothingLeftBehind == ProbesAreRemoved /\ ViewersAreRemoved
=============================================================================
