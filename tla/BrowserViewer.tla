----------------------------- MODULE BrowserViewer -----------------------------
(***************************************************************************)
(* The browser-view sidecars of runs (DockerDriver.startBrowserViewer,     *)
(* stopBrowserViewer): a volume for a socket and a container for each run, *)
(* under names made of the run's id, on an engine whose calls may fail.    *)
(* The run's background (services/runs.ts) starts the sidecar before its   *)
(* container and stops it in its finally block; a resurrected run starts   *)
(* it again. What a crash of the process leaves is swept at the next start *)
(* (reconcileOrphans).                                                     *)
(***************************************************************************)
EXTENDS Integers, FiniteSets

CONSTANTS
    Viewed,                 \* runs of Actors with the browser view on
    VOLUME_REMOVE_ATTEMPTS, \* 10 in the code
    MaxViewerStarts,        \* bound: incarnations of a run
    MaxViewerFaults,        \* bound: calls of the engine that fail
    MaxViewerCrashes        \* bound: crashes of the process

VARIABLES
    sharesNetns,      \* sharesRuntimeNetns: each sidecar needs a port of its own
    viewerImage,      \* "none", "importing" (browserViewerImport), "known" (browserViewerImageId)
    viewer,           \* each run: where its background is, its attempt to remove the volume
    browserViewers,   \* the runs with an entry
    sidecars, volumes,\* what the engine has
    viewerStarts, viewerFaults, viewerCrashes,
    kept              \* history: runs of which something was left when it was to be removed

viewerVars == <<sharesNetns, viewerImage, viewer, browserViewers, sidecars, volumes,
                viewerStarts, viewerFaults, viewerCrashes, kept>>

ViewerInit ==
    /\ sharesNetns \in BOOLEAN
    /\ viewerImage = "none"
    /\ viewer = [r \in Viewed |-> [at |-> "ended", attempt |-> 0]]
    /\ browserViewers = {} /\ sidecars = {} /\ volumes = {}
    /\ viewerStarts = [r \in Viewed |-> 0]
    /\ viewerFaults = 0 /\ viewerCrashes = 0
    /\ kept = {}

Comes(r, at) == viewer' = [viewer EXCEPT ![r] = [at |-> at, attempt |-> 0]]
Errs == viewerFaults < MaxViewerFaults /\ viewerFaults' = viewerFaults + 1
Succeeds == UNCHANGED viewerFaults
ViewerStays == UNCHANGED <<sharesNetns, viewerStarts, viewerCrashes>>
EngineStays == UNCHANGED <<sidecars, volumes, kept>>

\* The run is started or resurrected: ensureBrowserViewerImage, which joins or begins the import.
ViewerWanted(r) ==
    /\ viewer[r].at = "ended" /\ viewerStarts[r] < MaxViewerStarts
    /\ viewerStarts' = [viewerStarts EXCEPT ![r] = @ + 1]
    /\ Comes(r, IF viewerImage = "known" THEN "volume" ELSE "image")
    /\ viewerImage' = IF viewerImage = "none" THEN "importing" ELSE viewerImage
    /\ Succeeds /\ EngineStays /\ UNCHANGED <<sharesNetns, viewerCrashes, browserViewers>>

\* importBrowserViewerImage ends, for every run that waits; a failed one is forgotten, and
\* those runs fail before they have anything.
ImportEnds ==
    /\ viewerImage = "importing"
    /\ \E ok \in BOOLEAN :
           /\ IF ok THEN Succeeds ELSE Errs
           /\ viewerImage' = IF ok THEN "known" ELSE "none"
           /\ viewer' = [r \in Viewed |-> IF viewer[r].at # "image" THEN viewer[r]
                             ELSE [at |-> IF ok THEN "volume" ELSE "ended", attempt |-> 0]]
    /\ EngineStays /\ ViewerStays /\ UNCHANGED browserViewers

\* createVolume, which finds a volume of that name as well as it creates one.
VolumeCreated(r) ==
    /\ viewer[r].at = "volume"
    /\ \/ Succeeds /\ volumes' = volumes \cup {r}
          /\ Comes(r, IF sharesNetns THEN "port" ELSE "create")
       \/ Errs /\ Comes(r, "ended") /\ UNCHANGED volumes
    /\ ViewerStays /\ UNCHANGED <<viewerImage, browserViewers, sidecars, kept>>

\* allocateFreePort, outside of the block that cleans up: if it fails the volume stays.
PortAllocated(r) ==
    /\ viewer[r].at = "port"
    /\ \/ Succeeds /\ Comes(r, "create") /\ UNCHANGED kept
       \/ Errs /\ Comes(r, "ended") /\ kept' = kept \cup {r}
    /\ ViewerStays /\ UNCHANGED <<viewerImage, browserViewers, sidecars, volumes>>

\* createContainer, which fails on a name that is taken.
SidecarCreated(r) ==
    /\ viewer[r].at = "create"
    /\ \/ /\ r \notin sidecars /\ Succeeds
          /\ sidecars' = sidecars \cup {r}
          /\ browserViewers' = browserViewers \cup {r}
          /\ Comes(r, "start")
       \/ /\ IF r \in sidecars THEN Succeeds ELSE Errs
          /\ browserViewers' = browserViewers \ {r}
          /\ Comes(r, "unvolume") /\ UNCHANGED sidecars
    /\ ViewerStays /\ UNCHANGED <<viewerImage, volumes, kept>>

\* container.start, and container.inspect for the address on the Actors' network.
SidecarStarted(r) ==
    /\ viewer[r].at = "start"
    /\ \/ Succeeds /\ Comes(r, "up") /\ UNCHANGED browserViewers
       \/ Errs /\ browserViewers' = browserViewers \ {r} /\ Comes(r, "undo")
    /\ EngineStays /\ ViewerStays /\ UNCHANGED viewerImage

\* The run is over, or was aborted before its container came: stopBrowserViewer.
StopBrowserViewer(r) ==
    /\ viewer[r].at = "up"
    /\ Comes(r, IF r \in browserViewers THEN "undo" ELSE "ended")
    /\ browserViewers' = browserViewers \ {r}
    /\ Succeeds /\ EngineStays /\ ViewerStays /\ UNCHANGED viewerImage

\* The sidecar is removed; an error is passed over.
SidecarRemoved(r) ==
    /\ viewer[r].at = "undo"
    /\ \/ Succeeds /\ sidecars' = sidecars \ {r} /\ UNCHANGED kept
       \/ Errs /\ kept' = kept \cup {r} /\ UNCHANGED sidecars
    /\ Comes(r, "unvolume")
    /\ ViewerStays /\ UNCHANGED <<viewerImage, browserViewers, volumes>>

\* removeVolumeWithRetry: an attempt; a volume that a container uses is refused.
VolumeRemoval(r) ==
    /\ viewer[r].at = "unvolume"
    /\ \/ /\ Succeeds /\ r \notin sidecars
          /\ volumes' = volumes \ {r} /\ kept' = kept \ {r}
          /\ Comes(r, "ended")
       \/ /\ IF r \in sidecars THEN Succeeds ELSE Errs
          /\ IF viewer[r].attempt + 1 >= VOLUME_REMOVE_ATTEMPTS
             THEN Comes(r, "ended") /\ kept' = kept \cup {r}
             ELSE viewer' = [viewer EXCEPT ![r].attempt = @ + 1] /\ UNCHANGED kept
          /\ UNCHANGED volumes
    /\ ViewerStays /\ UNCHANGED <<viewerImage, browserViewers, sidecars>>

\* Mutant: the runs that are swept are those whose container is there, not those of a volume.
Swept_Containers == sidecars

\* reconcileOrphans looks for the label on containers and on volumes.
Swept == sidecars \cup volumes

\* The process dies and starts again: the runs are over, and every sidecar, then every volume
\* is removed before the API is served, but what the engine refuses to remove.
ViewerCrash ==
    /\ viewerCrashes < MaxViewerCrashes /\ viewerCrashes' = viewerCrashes + 1
    /\ viewer' = [r \in Viewed |-> [at |-> "ended", attempt |-> 0]]
    /\ browserViewers' = {} /\ viewerImage' = "none"
    /\ \/ Succeeds /\ sidecars' = sidecars \ Swept /\ volumes' = volumes \ Swept /\ kept' = kept \ Swept
       \/ \E r \in Swept :
              /\ Errs /\ kept' = {r}
              /\ sidecars' \in {{}, sidecars \cap {r}} /\ volumes' = volumes \cap {r}
              /\ r \in sidecars' \cup volumes'
    /\ UNCHANGED <<sharesNetns, viewerStarts>>

ViewerStep(r) ==
    \/ ViewerWanted(r) \/ VolumeCreated(r) \/ PortAllocated(r) \/ SidecarCreated(r)
    \/ SidecarStarted(r) \/ StopBrowserViewer(r) \/ SidecarRemoved(r) \/ VolumeRemoval(r)

ViewerNext == ImportEnds \/ ViewerCrash \/ \E r \in Viewed : ViewerStep(r)

ViewerSpec == ViewerInit /\ [][ViewerNext]_viewerVars

-----------------------------------------------------------------------------
\* The comment on startBrowserViewer: "Anything created here is removed again if a later step
\* fails", and a run's end removes what is left. A sidecar or volume on the engine belongs to
\* a run that uses it or is removing it, unless the engine refused to remove it or no port was
\* free; a sidecar in use is there whole, and can be stopped.
ViewersAreRemoved ==
    /\ \A r \in (sidecars \cup volumes) \ kept : viewer[r].at # "ended"
    /\ \A r \in Viewed : viewer[r].at = "up" => r \in browserViewers \cap sidecars \cap volumes

\* The same without the exception of the port. Refuted: see README.md, Findings.
StartLeavesNothing ==
    [][\A r \in Viewed : viewer[r].at = "port" /\ viewer'[r].at = "ended" /\ viewerCrashes' = viewerCrashes
           => r \notin volumes']_viewerVars

=============================================================================
