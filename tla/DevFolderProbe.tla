---------------------------- MODULE DevFolderProbe ----------------------------
(***************************************************************************)
(* Does a folder exist on the host? The runtime sits in a container and    *)
(* cannot look: DockerDriver.probeDevFolder creates a container that binds *)
(* the host's root, never starts it, and asks the engine about one path    *)
(* component after the other, following symbolic links by itself where the *)
(* engine does not. services/dev-folder.ts registers a folder after such a *)
(* probe, and a run that mounts it probes again before it starts.          *)
(*                                                                         *)
(* A path is a sequence of names. A folder may be removed from the host    *)
(* between two probes, never during one.                                   *)
(* What the engine answers is modelled from the comments on probeDevFolder *)
(* and hostPathOfLinkTarget.                                               *)
(***************************************************************************)
EXTENDS Integers, Sequences, SequencesExt

CONSTANTS
    Nodes,            \* the paths of the host where something may be
    LinkTargets,      \* where a link of the host may lead
    Candidates,       \* the folders submitted
    ProbeCalls,       \* the requests and runs that probe at the same time
    MaxSymlinkHops,   \* MAX_SYMLINK_HOPS, 16 in the code
    EngineLinks,      \* the links an engine, or the host, follows before it gives up
    MaxProbeFaults,   \* bound: answers of the engine that are errors
    MaxProbeCrashes,  \* bound: crashes of the process
    MaxRemovals       \* bound: removals of a file or folder of the host

VARIABLES
    host,          \* what is at each of the Nodes
    engine,        \* "Docker" or "Podman"
    folder,        \* actor.localDevFolder, or NotRegistered
    probeImage,    \* "none", "building" (probeImageBuild), "known" (probeImageId)
    probe,         \* each call: where it is, its walk, its result
    probes,        \* the calls whose container the engine has
    probeFaults, probeCrashes, removals,
    unremoved      \* history: the calls whose container the engine refused to remove

probeVars == <<host, engine, folder, probeImage, probe, probes, probeFaults, probeCrashes,
               removals, unremoved>>

NotRegistered == <<"not registered">>
Mount == "probe"   \* PROBE_MOUNT_TARGET

Paths == Seq(STRING)

\* A folder has its place in another one, a link does not lead to "/", and no link leads to what
\* a host may have at the mount's own path (see README.md, Findings, for those that do). An
\* engine follows more links than the walk does.
ASSUME ProbeAssumption ==
    /\ Nodes \subseteq Paths \ {<<>>} /\ Candidates \subseteq Paths /\ Mount \in STRING
    /\ \A p \in Nodes : Len(p) > 1 => Front(p) \in Nodes
    /\ \A to \in LinkTargets : to \in Paths /\ to # <<>> /\ Head(to) # Mount
    /\ MaxSymlinkHops \in Nat /\ EngineLinks \in Nat /\ MaxSymlinkHops <= EngineLinks

-----------------------------------------------------------------------------
(* The host and the engine.                                                *)

Plain(kind) == [kind |-> kind, to |-> <<>>, relative |-> FALSE]
Links == [kind : {"link"}, to : LinkTargets, relative : BOOLEAN]

\* What is in a folder is there only with the folder.
Hosts == {h \in [Nodes -> {Plain("none"), Plain("dir"), Plain("file")} \cup Links] :
              \A p \in Nodes : Len(p) > 1 /\ h[p].kind # "none" => h[Front(p)].kind = "dir"}

Thing(p) == IF p = <<>> THEN Plain("dir") ELSE IF p \in Nodes THEN host[p] ELSE Plain("none")

Up(p, k) == SubSeq(p, 1, k)
LinkAt(p) == {k \in 1 .. Len(p) : Thing(Up(p, k)).kind = "link"}   \* one at most
UnderFile(p) == \E k \in 1 .. Len(p) - 1 : Thing(Up(p, k)).kind = "file"

\* The path with its link followed once; n times; to its end, unless that takes too many.
Deref[p \in Paths] ==
    IF LinkAt(p) = {} THEN p
    ELSE LET k == CHOOSE k \in LinkAt(p) : TRUE
         IN  Thing(Up(p, k)).to \o SubSeq(p, k + 1, Len(p))

Iterated(g, x, n) == LET f[i \in 0 .. n] == IF i = 0 THEN x ELSE g[f[i - 1]] IN f[n]

Followed(p, n) == Iterated(Deref, p, n)
End(p) == Followed(p, EngineLinks)

\* Docker follows a link in the scope of the container: an absolute one leads out of the mount.
InScope[cp \in Paths] ==
    IF cp = <<>> \/ Head(cp) # Mount \/ LinkAt(Tail(cp)) = {} THEN cp
    ELSE LET p == Tail(cp)
             k == CHOOSE k \in LinkAt(p) : TRUE
         IN  IF Thing(Up(p, k)).relative THEN <<Mount>> \o Deref[p] ELSE Deref[p]
ScopedEnd(cp) == Iterated(InScope, cp, EngineLinks)

Refused(reason) == [ok |-> FALSE, reason |-> reason, kind |-> "none", linkTarget |-> <<>>]
Stat(kind, linkTarget) == [ok |-> TRUE, reason |-> "none", kind |-> kind, linkTarget |-> linkTarget]

\* What the engine may answer about host path p, which ends in q as the engine sees it.
Told(p, kind, linkTarget) ==
    IF UnderFile(p) THEN {Refused("not-found"), Refused("unknown")}
    ELSE IF kind = "none" THEN {Refused("not-found")} ELSE {Stat(kind, linkTarget)}

\* infoArchive of a path of the container. Docker follows the folders on the way, and says of
\* a link that it is one and where it leads in the end; Podman follows it.
Answers(cp) ==
    IF engine = "Podman"
    THEN LET q == End(Tail(cp))
         IN  IF LinkAt(q) # {} THEN {Refused("unknown")} ELSE Told(q, Thing(q).kind, <<>>)
    ELSE LET way == ScopedEnd(Front(cp)) \o <<Last(cp)>>
             end == ScopedEnd(way)
             looping == \E w \in {Front(way), end} : w # <<>> /\ Head(w) = Mount /\ LinkAt(Tail(w)) # {}
         IN  IF looping THEN {Refused("unknown")}
             ELSE IF Head(way) # Mount THEN {Refused("not-found")}
             ELSE Told(Tail(way), Thing(Tail(way)).kind, end)

-----------------------------------------------------------------------------
(* The probe.                                                              *)

NoProbe == [at |-> "none", purpose |-> "none", path |-> <<>>, pending |-> <<>>, resolved |-> <<>>,
            hops |-> 0, kind |-> "none", result |-> "none", failed |-> FALSE]
Over == [NoProbe EXCEPT !.at = "over"]

ProbeInit ==
    /\ host \in Hosts
    /\ engine \in {"Docker", "Podman"}
    /\ folder = NotRegistered
    /\ probeImage = "none"
    /\ probe = [c \in ProbeCalls |-> NoProbe]
    /\ probes = {} /\ unremoved = {}
    /\ probeFaults = 0 /\ probeCrashes = 0 /\ removals = 0

Fails == probeFaults < MaxProbeFaults /\ probeFaults' = probeFaults + 1
Works == UNCHANGED probeFaults
ProbeStays == UNCHANGED <<host, engine, probeCrashes, removals>>

\* A folder is submitted (setDevFolder), a run is about to mount the registered one
\* (assertDevFolderStillPresent), or looks for its entrypoint in it (devFolderHasEntry).
\* ensureProbeImage: the image is there, or its build is joined or begun.
Asks(c, purpose, path) ==
    /\ probe[c].at = "none"
    /\ purpose # "register" => folder # NotRegistered /\ path = folder
    /\ probe' = [probe EXCEPT ![c] =
           [NoProbe EXCEPT !.at = IF probeImage = "known" THEN "create" ELSE "image",
                           !.purpose = purpose, !.path = path]]
    /\ probeImage' = IF probeImage = "none" THEN "building" ELSE probeImage
    /\ Works /\ ProbeStays /\ UNCHANGED <<folder, probes, unremoved>>

\* The empty string clears the registration, without a probe.
ClearsFolder(c) ==
    /\ probe[c].at = "none"
    /\ folder' = NotRegistered
    /\ probe' = [probe EXCEPT ![c] = Over]
    /\ Works /\ ProbeStays /\ UNCHANGED <<probeImage, probes, unremoved>>

\* The build ends, for everyone who waits for it; a failed one is forgotten.
ProbeImageBuilt ==
    /\ probeImage = "building"
    /\ \/ /\ Works
          /\ probeImage' = "known"
          /\ probe' = [c \in ProbeCalls |->
                 IF probe[c].at = "image" THEN [probe[c] EXCEPT !.at = "create"] ELSE probe[c]]
       \/ /\ Fails
          /\ probeImage' = "none"
          /\ probe' = [c \in ProbeCalls |->
                 IF probe[c].at = "image" THEN Over ELSE probe[c]]
    /\ ProbeStays /\ UNCHANGED <<folder, probes, unremoved>>

\* The container is created; if that fails ("unreachable", "image-missing" or "unknown") there
\* is nothing to undo.
ProbeCreated(c) ==
    /\ probe[c].at = "create"
    /\ \/ /\ Works
          /\ probes' = probes \cup {c}
          /\ probe' = [probe EXCEPT ![c].at = "walk", ![c].pending = probe[c].path]
       \/ /\ Fails
          /\ probe' = [probe EXCEPT ![c] = Over]
          /\ UNCHANGED probes
    /\ ProbeStays /\ UNCHANGED <<folder, probeImage, unremoved>>

Finishes(c, result) ==
    probe' = [probe EXCEPT ![c] = [NoProbe EXCEPT !.at = "remove", !.purpose = probe[c].purpose,
                                                  !.path = probe[c].path, !.result = result]]

\* hostPathOfLinkTarget: what is under the mount is that path of the host; what is not was an
\* absolute link, and is the host's path as it stands.
hostPathOfLinkTarget(target) ==
    IF target # <<>> /\ Head(target) = Mount THEN Tail(target) ELSE target

\* Mutant: what comes after the link is dropped.
Follows_OnlyLink(c, stat) ==
    probe' = [probe EXCEPT ![c].pending = hostPathOfLinkTarget(stat.linkTarget),
                           ![c].resolved = <<>>, ![c].hops = @ + 1, ![c].kind = "link"]

\* A link: the walk starts again from where it leads, with what is left after it.
Follows(c, stat) ==
    probe' = [probe EXCEPT ![c].pending = hostPathOfLinkTarget(stat.linkTarget) \o Tail(@),
                           ![c].resolved = <<>>, ![c].hops = @ + 1, ![c].kind = "link"]

\* One turn of resolveDirectoryInProbe: the next component is looked at.
LooksAt(c, stat) ==
    LET current == Append(probe[c].resolved, Head(probe[c].pending))
    IN  IF ~stat.ok THEN Finishes(c, stat.reason)
        ELSE IF stat.kind # "link"
        THEN probe' = [probe EXCEPT ![c].pending = Tail(@), ![c].resolved = current, ![c].kind = stat.kind]
        ELSE IF probe[c].hops + 1 > MaxSymlinkHops THEN Finishes(c, "unknown") ELSE Follows(c, stat)

Walking(c) == probe[c].at = "walk" /\ probe[c].purpose # "entry"

ProbeLooks(c) ==
    /\ Walking(c) /\ probe[c].pending # <<>>
    /\ \E stat \in Answers(<<Mount>> \o Append(probe[c].resolved, Head(probe[c].pending))) : LooksAt(c, stat)
    /\ Works /\ ProbeStays /\ UNCHANGED <<folder, probeImage, probes, unremoved>>

\* The last stat decides; "/" itself, with no component to look at, is a directory.
ProbeDecides(c) ==
    /\ Walking(c) /\ probe[c].pending = <<>>
    /\ Finishes(c, IF probe[c].path = <<>> \/ probe[c].kind = "dir" THEN "ok" ELSE "not-a-directory")
    /\ Works /\ ProbeStays /\ UNCHANGED <<folder, probeImage, probes, unremoved>>

\* devFolderHasEntry asks once, about the whole path.
EntryAsked(c, entry) ==
    /\ probe[c].at = "walk" /\ probe[c].purpose = "entry"
    /\ \E stat \in Answers(<<Mount>> \o Append(probe[c].path, entry)) :
           Finishes(c, IF stat.ok THEN "ok" ELSE "not-found")
    /\ Works /\ ProbeStays /\ UNCHANGED <<folder, probeImage, probes, unremoved>>

\* A stat the engine does not answer, or answers with an error or without a header: the
\* reason is "unreachable" or "unknown".
ProbeUnanswered(c) ==
    /\ probe[c].at = "walk" /\ Fails
    /\ probe' = [probe EXCEPT ![c] = [NoProbe EXCEPT !.at = "remove", !.result = "unknown", !.failed = TRUE]]
    /\ ProbeStays /\ UNCHANGED <<folder, probeImage, probes, unremoved>>

\* Mutant: the container is removed only after a probe that succeeded.
ProbeRemoved_IfOk(c) ==
    /\ probe[c].at = "remove"
    /\ probes' = IF probe[c].result = "ok" THEN probes \ {c} ELSE probes
    /\ probe' = [probe EXCEPT ![c].at = "removed"]
    /\ Works /\ ProbeStays /\ UNCHANGED <<folder, probeImage, unremoved>>

\* Whatever came out, the container is removed; that it is not is only logged.
ProbeRemoved(c) ==
    /\ probe[c].at = "remove"
    /\ \/ Works /\ probes' = probes \ {c} /\ UNCHANGED unremoved
       \/ Fails /\ unremoved' = unremoved \cup {c} /\ UNCHANGED probes
    /\ probe' = [probe EXCEPT ![c].at = "removed"]
    /\ ProbeStays /\ UNCHANGED <<folder, probeImage>>

\* setDevFolder writes the path it was given if the probe confirmed it.
ProbeAnswered(c) ==
    /\ probe[c].at = "removed"
    /\ folder' = IF probe[c].purpose = "register" /\ probe[c].result = "ok" THEN probe[c].path ELSE folder
    /\ probe' = [probe EXCEPT ![c] = Over]
    /\ Works /\ ProbeStays /\ UNCHANGED <<probeImage, probes, unremoved>>

\* The process dies and starts again: reconcileOrphans removes every container with the
\* probe's label before the API is served; a removal that fails is passed over.
ProbeCrash ==
    /\ probeCrashes < MaxProbeCrashes /\ probeCrashes' = probeCrashes + 1
    /\ probe' = [c \in ProbeCalls |->
           IF probe[c].at = "none" THEN NoProbe ELSE Over]
    /\ probeImage' = "none"
    /\ \/ Works /\ probes' = {} /\ UNCHANGED unremoved
       \/ \E c \in probes : Fails /\ probes' = {c} /\ unremoved' = unremoved \cup {c}
    /\ UNCHANGED <<host, engine, folder, removals>>

\* The user removes something from the host.
HostChanges ==
    /\ removals < MaxRemovals /\ removals' = removals + 1
    /\ \A c \in ProbeCalls : probe[c].at \in {"none", "over"}
    /\ \E p \in Nodes : host[p].kind # "none"
           /\ host' = [q \in Nodes |-> IF IsPrefix(p, q) THEN Plain("none") ELSE host[q]]
    /\ Works /\ UNCHANGED <<engine, folder, probeImage, probe, probes, probeCrashes, unremoved>>

ProbeStep(c) ==
    \/ \E path \in Candidates : Asks(c, "register", path)
    \/ \E purpose \in {"start", "entry"} : Asks(c, purpose, folder)
    \/ ClearsFolder(c) \/ ProbeCreated(c) \/ ProbeLooks(c) \/ ProbeDecides(c)
    \/ \E p \in Nodes : EntryAsked(c, Last(p))
    \/ ProbeUnanswered(c) \/ ProbeRemoved(c) \/ ProbeAnswered(c)

ProbeNext == ProbeImageBuilt \/ HostChanges \/ ProbeCrash \/ \E c \in ProbeCalls : ProbeStep(c)

ProbeSpec == ProbeInit /\ [][ProbeNext]_probeVars

-----------------------------------------------------------------------------
\* What the host has at the end of a path, if it takes no more links than a probe follows.
Found(p) ==
    IF LinkAt(Followed(p, MaxSymlinkHops)) # {} THEN "unknown"
    ELSE IF UnderFile(End(p)) THEN "under file" ELSE Thing(End(p)).kind

\* The comment on probeDevFolder: on either engine a probe says "ok" of a directory,
\* "not-a-directory" of a file and "not-found" of nothing, through any links; it does not
\* guess: only an error of the engine, or too many links, makes it say anything else.
ProbeFollowsHost ==
    \A c \in ProbeCalls :
        /\ probe[c].at \in {"remove", "removed"} /\ ~probe[c].failed
        /\ probe[c].purpose \in {"register", "start"}
        => CASE Found(probe[c].path) = "dir" -> probe[c].result = "ok"
             [] Found(probe[c].path) = "file" -> probe[c].result = "not-a-directory"
             [] Found(probe[c].path) = "none" -> probe[c].result = "not-found"
             [] Found(probe[c].path) = "under file" -> probe[c].result \in {"not-found", "unknown"}
             [] OTHER -> TRUE

\* Every probe container belongs to a probe under way, or the engine refused to remove it.
ProbesAreRemoved ==
    \A c \in probes \ unremoved : probe[c].at \in {"walk", "remove"}

\* The comment on preserveHiddenEntrypoint: the image's own copy of a file is used "unless
\* the dev folder carries its own copy".
\* Refuted: see README.md, Findings.
EntryFollowsHost ==
    [][\A c \in ProbeCalls, p \in Nodes :
           /\ EntryAsked(c, Last(p))
           /\ Thing(End(Append(probe[c].path, Last(p)))).kind \in {"dir", "file"}
           => probe'[c].result = "ok"]_probeVars

=============================================================================
