----------------------------- MODULE ActorVersions -----------------------------
(***************************************************************************)
(* The versions of one Actor (api/routes/actors.ts): each may have the     *)
(* pushed repository it is built from, which is a file beside the record   *)
(* (services/source-context.ts), and its environment variables. Requests   *)
(* read the Actor, change its record in one registry update, and delete    *)
(* the files the record no longer names.                                   *)
(*                                                                         *)
(* A registry or file access takes effect and the request runs on to its   *)
(* next await in one step.                                                 *)
(***************************************************************************)
CONSTANTS
    Editors,    \* requests at the same time
    Versions,   \* version numbers
    Files,      \* ids of files: each is generated once
    EnvNames,   \* names of environment variables
    NoFile      \* localSourceContext is absent

ASSUME VersionsAssumption == NoFile \notin Files

VARIABLES
    actor,       \* the record is there
    version,     \* its versions: the context and the environment variables of each
    files,       \* the files that are stored
    used,        \* the ids generated so far
    editor,      \* each request: where it is and what it has read
    putBack      \* history: the versions that a PUT put back after they were deleted

versionVars == <<actor, version, files, used, editor, putBack>>

NoEdit == [at |-> "idle"]
Bare == [context |-> NoFile, env |-> {}]

VersionsInit ==
    /\ actor = TRUE
    /\ version \in [Versions -> {Bare}]
    /\ files = {} /\ used = {}
    /\ editor = [e \in Editors |-> NoEdit]
    /\ putBack = {}

\* addOrReplaceVersion.
addOrReplaceVersion(v, r) == version' = [w \in DOMAIN version \cup {v} |-> IF w = v THEN r ELSE version[w]]

\* deleteSourceContextFiles of the file the update dropped, then the answer.
Then(e, file) ==
    editor' = [editor EXCEPT ![e] = IF file = NoFile THEN NoEdit ELSE [at |-> "delete", doomed |-> {file}]]

DeletesFile(e) ==
    /\ editor[e].at = "delete"
    /\ \E file \in editor[e].doomed :
        /\ files' = files \ {file}
        /\ editor' = [editor EXCEPT ![e] =
               IF editor[e].doomed = {file} THEN NoEdit
               ELSE [at |-> "delete", doomed |-> editor[e].doomed \ {file}]]
    /\ UNCHANGED <<actor, version, used, putBack>>

\* The update of a request that finds its Actor or version gone changes nothing: 404.
Update(e, op) ==
    /\ editor[e].at = "update" /\ editor[e].op = op
    /\ UNCHANGED used

-----------------------------------------------------------------------------
\* setSourceContext: the file is stored before the record names it.
PushStarts(e, v) ==
    /\ editor[e] = NoEdit /\ actor /\ v \in DOMAIN version
    /\ used # Files
    /\ LET file == CHOOSE f \in Files : f \notin used
       IN  /\ used' = used \cup {file}
           /\ files' = files \cup {file}
           /\ editor' = [editor EXCEPT ![e] = [at |-> "update", op |-> "push", number |-> v, file |-> file]]
    /\ UNCHANGED <<actor, version, putBack>>

\* Its update; without a version to name it the new file is deleted again.
setSourceContext(e) ==
    LET v == editor[e].number
    IN  /\ Update(e, "push")
        /\ IF actor /\ v \in DOMAIN version
           THEN /\ addOrReplaceVersion(v, [version[v] EXCEPT !.context = editor[e].file])
                /\ Then(e, version[v].context)
                /\ putBack' = putBack \ {v}
           ELSE UNCHANGED <<version, putBack>> /\ Then(e, editor[e].file)
        /\ UNCHANGED <<actor, files>>

\* POST of a version: it starts afresh.
PostStarts(e, v) ==
    /\ editor[e] = NoEdit /\ actor
    /\ \E env \in SUBSET EnvNames :
        editor' = [editor EXCEPT ![e] = [at |-> "update", op |-> "post", number |-> v, env |-> env]]
    /\ UNCHANGED <<actor, version, files, used, putBack>>

createVersion(e) ==
    LET v == editor[e].number
    IN  /\ Update(e, "post")
        /\ IF actor
           THEN /\ addOrReplaceVersion(v, [context |-> NoFile, env |-> editor[e].env])
                /\ Then(e, IF v \in DOMAIN version THEN version[v].context ELSE NoFile)
                /\ putBack' = putBack \ {v}
           ELSE UNCHANGED <<version, putBack>> /\ Then(e, NoFile)
        /\ UNCHANGED <<actor, files>>

\* PUT of a version, with or without files of its own and environment variables of its own.
PutStarts(e, v) ==
    \E withFiles \in BOOLEAN, env \in SUBSET EnvNames, withEnv \in BOOLEAN :
        /\ editor[e] = NoEdit /\ actor /\ v \in DOMAIN version
        /\ ~withEnv => env = version[v].env
        /\ editor' = [editor EXCEPT ![e] = [at |-> "update", op |-> "put", number |-> v,
               existing |-> version[v].context, env |-> env,
               withEnv |-> withEnv, withFiles |-> withFiles]]
        /\ UNCHANGED <<actor, version, files, used, putBack>>

\* What the PUT keeps of a version: the environment variables were settled when the version
\* was found, the repository is the one that is there now.
Kept(e, latest) == [context |-> IF editor[e].withFiles THEN NoFile ELSE latest, env |-> editor[e].env]

PutVersion(e, latest) ==
    LET v == editor[e].number
    IN  /\ Update(e, "put")
        /\ IF actor
           THEN /\ addOrReplaceVersion(v, Kept(e, latest))
                /\ Then(e, IF editor[e].withFiles THEN latest ELSE NoFile)
                /\ putBack' = IF v \in DOMAIN version THEN putBack ELSE putBack \cup {v}
           ELSE UNCHANGED <<version, putBack>> /\ Then(e, NoFile)
        /\ UNCHANGED <<actor, files>>

\* Mutant: the repository is the one that was there when the version was found.
updateVersion_Stale(e) == PutVersion(e, editor[e].existing)

\* updateVersion: a version deleted meanwhile is taken as it was found.
updateVersion(e) ==
    PutVersion(e, IF editor[e].number \in DOMAIN version THEN version[editor[e].number].context
                  ELSE editor[e].existing)

\* The endpoints of single environment variables, which look at the version again under the
\* lock: POST of one that is not there, PUT that may rename it, DELETE.
EnvStarts(e, v) ==
    /\ editor[e] = NoEdit /\ actor /\ v \in DOMAIN version
    /\ \E from, to \in {{}} \cup {{n} : n \in EnvNames} :
        /\ from \cup to # {}
        /\ from \subseteq version[v].env
        /\ editor' = [editor EXCEPT ![e] =
               [at |-> "update", op |-> "env", number |-> v, from |-> from, to |-> to]]
    /\ UNCHANGED <<actor, version, files, used, putBack>>

changeEnvVar(e) ==
    LET v == editor[e].number
        o == editor[e]
    IN  /\ Update(e, "env")
        /\ Then(e, NoFile)
        /\ IF actor /\ v \in DOMAIN version /\ o.to \cap version[v].env = {}
              /\ (o.to = {} \/ o.from \subseteq version[v].env)
           THEN version' = [version EXCEPT ![v].env = (@ \ o.from) \cup o.to]
           ELSE UNCHANGED version
        /\ UNCHANGED <<actor, files, putBack>>

\* DELETE of a version removes the file it found at first.
FileDeleteStarts(e, v) ==
    /\ editor[e] = NoEdit /\ actor /\ v \in DOMAIN version
    /\ editor' = [editor EXCEPT ![e] =
           [at |-> "update", op |-> "delete", number |-> v, existing |-> version[v].context]]
    /\ UNCHANGED <<actor, version, files, used, putBack>>

deleteVersion(e) ==
    LET v == editor[e].number
    IN  /\ Update(e, "delete")
        /\ version' = [w \in DOMAIN version \ {v} |-> version[w]]
        /\ putBack' = putBack \ {v}
        /\ Then(e, editor[e].existing)
        /\ UNCHANGED <<actor, files>>

\* DELETE of the Actor: the record, and then the files of the versions it found at first.
DeleteActorStarts(e) ==
    /\ editor[e] = NoEdit /\ actor
    /\ editor' = [editor EXCEPT ![e] = [at |-> "update", op |-> "actor",
           doomed |-> {version[v].context : v \in DOMAIN version} \ {NoFile}]]
    /\ UNCHANGED <<actor, version, files, used, putBack>>

deleteActor(e) ==
    /\ Update(e, "actor")
    /\ actor' = FALSE
    /\ version' = [v \in {} |-> Bare]
    /\ editor' = [editor EXCEPT ![e] =
           IF editor[e].doomed = {} THEN NoEdit ELSE [at |-> "delete", doomed |-> editor[e].doomed]]
    /\ putBack' = {}
    /\ UNCHANGED files

VersionsNext ==
    \E e \in Editors :
        \/ \E v \in Versions : PushStarts(e, v) \/ PostStarts(e, v) \/ PutStarts(e, v)
                               \/ EnvStarts(e, v) \/ FileDeleteStarts(e, v)
        \/ DeleteActorStarts(e)
        \/ setSourceContext(e) \/ createVersion(e) \/ updateVersion(e) \/ changeEnvVar(e)
        \/ deleteVersion(e) \/ deleteActor(e) \/ DeletesFile(e)

VersionsSpec == VersionsInit /\ [][VersionsNext]_versionVars

-----------------------------------------------------------------------------
\* However pushes, updates and deletes of a version overlap, the file of the repository it
\* names is there, so that it can be built; a version put back after its delete is the
\* exception.
ContextHasFile ==
    \A v \in DOMAIN version \ putBack : version[v].context \in files \cup {NoFile}

\* services/env-vars.ts:41: a body that does not mention envVars leaves them unchanged.
\* Refuted: see README.md, Findings.
EnvUnmentionedIsKept ==
    [][\A e \in Editors, v \in Versions :
          (editor[e].at = "update" /\ editor[e].op = "put" /\ ~editor[e].withEnv
           /\ editor'[e] # editor[e] /\ editor[e].number = v /\ v \in DOMAIN version /\ actor)
              => version'[v].env = version[v].env]_versionVars

=============================================================================
