---------------------------- MODULE RunEnvironment ----------------------------
(***************************************************************************)
(* What a container of a run gets: the options of the run out of the       *)
(* request, the Actor's defaultRunOptions and the build's memory settings  *)
(* (services/default-run-options.ts, actor-memory.ts), the debugger        *)
(* (debug-mode.ts), the live dev folder (dev-folder.ts,                    *)
(* live-dev-folder.ts) and the environment (services/runs.ts), while the   *)
(* settings of the Actor are edited. A run works with the Actor as it was  *)
(* read when the run was started or resurrected.                           *)
(*                                                                         *)
(* The value of a variable is the sequence of the parts it is joined of.   *)
(***************************************************************************)
EXTENDS Integers, Sequences

CONSTANTS
    Builds,         \* [min, max, default: memory settings, words, fingerprint: of the image,
                    \*  imageEnv, workdir, versionEnv: name -> [value, isSecret]]
    RunRequests,    \* [memory, timeout, devFolder, proxyPassword]
    OptionBodies,   \* defaultRunOptions bodies [memoryMbytes, timeoutSecs]
    DebugSettings,  \* localDebug values [language, port]
    Folders,
    Ports,          \* the values of variables that are port numbers
    Unset,
    MaxLaunches     \* bound: starts of the run

\* actor.json, the requests' bodies and the setters are checked for these kinds of values; the
\* fingerprint is one of the two languages or none.
ASSUME EnvironmentAssumption ==
    /\ \A b \in Builds :
          /\ {b.min, b.max, b.default} \subseteq Nat \cup {Unset}
          /\ b.fingerprint \in {"node", "python", Unset}
          /\ \A n \in DOMAIN b.imageEnv : b.imageEnv[n] \in Seq(STRING)
          /\ \A n \in DOMAIN b.versionEnv : b.versionEnv[n].value \in STRING
    /\ \A q \in RunRequests : q.memory \in Nat \cup {Unset}
    /\ \A o \in OptionBodies : o.memoryMbytes \in Nat \cup {Unset}
    /\ \A d \in DebugSettings : d.language \in {"auto", "node", "python"} /\ d.port \in STRING \cup {Unset}

VARIABLES
    settings,     \* the Actor: [options, debug, folder, live]
    edit,         \* the edit under way, of a request that has read the Actor
    hostFolders,  \* the folders that are directories on the host
    run,          \* the run, and what its container was given
    launches

environmentVars == <<settings, edit, hostFolders, run, launches>>

-----------------------------------------------------------------------------
\* The options of a run.
MIN_MEMORY_MBYTES == 128
MAX_MEMORY_MBYTES == 32768
MemorySizes == {2 ^ i : i \in 7 .. 15}
MAX_TIMEOUT_SECS == 999999999

DEFAULT_RUN_OPTIONS == [memoryMbytes |-> 1024, timeoutSecs |-> 300]

defaultRunOptionsOf(options) == IF options = Unset THEN DEFAULT_RUN_OPTIONS ELSE options

OrElse(value, fallback) == IF value # Unset THEN value ELSE fallback

\* mergeDefaultRunOptionsUpdate: over the defaults, and valid as a whole.
MergedOptions(body, options) ==
    LET current == defaultRunOptionsOf(options)
    IN  [memoryMbytes |-> OrElse(body.memoryMbytes, current.memoryMbytes),
         timeoutSecs |-> OrElse(body.timeoutSecs, current.timeoutSecs)]
ValidOptions(options) ==
    options.memoryMbytes \in MemorySizes /\ options.timeoutSecs \in 0 .. MAX_TIMEOUT_SECS

\* Mutant: a memory the caller asks for is taken as it is.
resolveRunMemory_Requested(build, requested, fallback) ==
    IF requested # Unset THEN {requested} ELSE {fallback}

\* resolveRunMemory: what was asked for, or the Actor's expression (which may fail to give a
\* value), then the bounds of the build; min wins over max. A set of what can come out.
resolveRunMemory(build, requested, fallback) ==
    LET unclamped == IF requested # Unset THEN {requested}
                     ELSE IF build.default # Unset THEN {build.default, fallback}
                     ELSE {fallback}
        Clamp(m) == IF build.min # Unset /\ m < build.min THEN build.min
                    ELSE IF build.max # Unset /\ m > build.max THEN build.max
                    ELSE m
    IN  {Clamp(m) : m \in unclamped}

-----------------------------------------------------------------------------
\* The debugger.
DEFAULT_PORT_BY_LANGUAGE == [python |-> "5678", node |-> "9229"]

\* detectLanguage: the words of the image's command, a package manager before the env.
detectLanguage(build) ==
    IF "python" \in build.words THEN "python"
    ELSE IF "node" \in build.words THEN "node"
    ELSE IF "npm" \in build.words THEN "refused"
    ELSE IF build.fingerprint # Unset THEN build.fingerprint
    ELSE "refused"

Value(env, name) == IF name \in DOMAIN env THEN env[name] ELSE <<>>

\* prependDebugEnvValue: joined for the variables that are lists, replaced otherwise.
prependDebugEnvValue(name, value, existing) ==
    IF name \in {"NODE_OPTIONS", "PYTHONPATH"} THEN value \o existing ELSE value

\* resolveDebugPlan: the variables of the debugger; none of them when debugging is off.
NoPlan == [language |-> "none", env |-> <<>>]
Refused == [language |-> "refused", env |-> <<>>]
resolveDebugPlan(debug, build) ==
    LET language == IF debug.language = "auto" THEN detectLanguage(build) ELSE debug.language
        port == IF debug.port # Unset THEN debug.port ELSE DEFAULT_PORT_BY_LANGUAGE[language]
        list == IF language = "node" THEN "NODE_OPTIONS" ELSE "PYTHONPATH"
        first == IF language = "node" THEN <<port>> ELSE <<"payload">>
        env == [n \in {list} \cup (IF language = "node" THEN {} ELSE {"DEBUG_PORT"}) |->
                   IF n = list THEN prependDebugEnvValue(n, first, Value(build.imageEnv, n))
                   ELSE <<port>>]
    IN  IF language = "refused" THEN Refused ELSE [language |-> language, env |-> env]

-----------------------------------------------------------------------------
\* The environment.
PortVars == {"ACTOR_WEB_SERVER_PORT", "ACTOR_STANDBY_PORT"}
DEFAULT_CONTAINER_SERVER_PORT == "4321"

\* versionEnvOf: the variables of the version, decrypted.
versionEnvOf(build) == [n \in DOMAIN build.versionEnv |-> <<build.versionEnv[n].value>>]

\* containerServerPortFor: the first of the two variables that is a port, secrets not read.
containerServerPortFor(build) ==
    LET IsPort(n) == /\ n \in DOMAIN build.versionEnv
                     /\ ~build.versionEnv[n].isSecret
                     /\ build.versionEnv[n].value \in Ports
    IN  IF IsPort("ACTOR_WEB_SERVER_PORT") THEN build.versionEnv["ACTOR_WEB_SERVER_PORT"].value
        ELSE IF IsPort("ACTOR_STANDBY_PORT") THEN build.versionEnv["ACTOR_STANDBY_PORT"].value
        ELSE DEFAULT_CONTAINER_SERVER_PORT

\* The variables the platform owns; the proxy password only where there is one to set.
PlatformEnv(build, request) ==
    [n \in PortVars \cup {"APIFY_TOKEN"}
            \cup (IF request.proxyPassword THEN {"APIFY_PROXY_PASSWORD"} ELSE {}) |->
        IF n \in PortVars THEN <<containerServerPortFor(build)>> ELSE <<"platform">>]

\* buildEnv: the version's variables below the debugger's, those below the platform's.
buildEnv(build, request, plan) ==
    LET versionEnv == versionEnvOf(build)
        debugEnv == [n \in DOMAIN plan.env |->
                        prependDebugEnvValue(n, plan.env[n], Value(versionEnv, n))]
        platformEnv == PlatformEnv(build, request)
    IN  [n \in DOMAIN versionEnv \cup DOMAIN debugEnv \cup DOMAIN platformEnv |->
            IF n \in DOMAIN platformEnv THEN platformEnv[n]
            ELSE IF n \in DOMAIN debugEnv THEN debugEnv[n]
            ELSE versionEnv[n]]

\* The folder a run mounts over the image's working directory.
DevMount(build, request) ==
    IF settings.live /\ settings.folder # Unset /\ build.workdir /\ request.devFolder
    THEN settings.folder ELSE Unset

-----------------------------------------------------------------------------
NoRun == [status |-> "none"]
NoSetter == [field |-> "none", value |-> Unset]

EnvironmentInit ==
    /\ settings = [options |-> Unset, debug |-> Unset, folder |-> Unset, live |-> FALSE]
    /\ edit = NoSetter
    /\ hostFolders = Folders
    /\ run = NoRun
    /\ launches = 0

\* startRun and resurrectRun from here on: the plan, the environment and the mount of the
\* container. A refusal of the debugger fails the run before there is one.
Prepared(build, request, memory, timeout) ==
    LET plan == IF settings.debug = Unset THEN NoPlan ELSE resolveDebugPlan(settings.debug, build)
    IN  /\ run' = [status |-> IF plan = Refused THEN "failed" ELSE "ready",
                   build |-> build, request |-> request, memory |-> memory, timeout |-> timeout,
                   plan |-> plan, env |-> buildEnv(build, request, plan),
                   mount |-> DevMount(build, request)]
        /\ launches' = launches + 1
        /\ UNCHANGED <<settings, edit, hostFolders>>

\* startRun: an option that the request leaves out is the Actor's.
StartRun(build, request) ==
    LET defaults == defaultRunOptionsOf(settings.options)
    IN  /\ run = NoRun /\ launches < MaxLaunches
        /\ \E memory \in resolveRunMemory(build, request.memory, defaults.memoryMbytes) :
              Prepared(build, request, memory, OrElse(request.timeout, defaults.timeoutSecs))

\* resurrectRun, of a run that is over: an option that the request leaves out is the run's
\* own; the memory is bounded by the build the run goes on with.
ResurrectRun(build, request) ==
    /\ run.status \in {"failed", "ended"} /\ launches < MaxLaunches
    /\ \E memory \in resolveRunMemory(build, OrElse(request.memory, run.memory), run.memory) :
          Prepared(build, request, memory, OrElse(request.timeout, run.timeout))

\* The driver's startRun: a folder that is to be mounted must still be a directory.
ContainerStarts ==
    /\ run.status = "ready"
    /\ run' = [run EXCEPT !.status =
                  IF run.mount = Unset \/ run.mount \in hostFolders THEN "started" ELSE "failed"]
    /\ UNCHANGED <<settings, edit, hostFolders, launches>>

RunEnds ==
    /\ run.status = "started"
    /\ run' = [run EXCEPT !.status = "ended"]
    /\ UNCHANGED <<settings, edit, hostFolders, launches>>

\* The setters of the Actor's settings, each a request that has read the Actor: what clears
\* a setting that was not there, and what changes nothing, writes nothing.
SetterReads(field, value) ==
    /\ edit = NoSetter /\ settings[field] # value
    /\ edit' = [field |-> field, value |-> value]
    /\ UNCHANGED <<settings, hostFolders, run, launches>>

\* setDebugMode, setLiveDevFolder, the clear of setDevFolder, and a PUT of the options.
Edits ==
    \/ \E debug \in DebugSettings \cup {Unset} : SetterReads("debug", debug)
    \/ \E live \in BOOLEAN : SetterReads("live", live)
    \/ SetterReads("folder", Unset)
    \/ \E body \in OptionBodies :
        /\ ValidOptions(MergedOptions(body, settings.options))
        /\ SetterReads("options", MergedOptions(body, settings.options))

\* setDevFolder: a folder is only registered if the probe finds it on the host.
FolderProbed(folder) ==
    /\ folder \in hostFolders
    /\ SetterReads("folder", folder)

EditStored ==
    /\ edit # NoSetter
    /\ settings' = [settings EXCEPT ![edit.field] = edit.value]
    /\ edit' = NoSetter
    /\ UNCHANGED <<hostFolders, run, launches>>

\* The developer moves a folder away, or back.
HostChanges(folder) ==
    /\ hostFolders' = IF folder \in hostFolders THEN hostFolders \ {folder}
                      ELSE hostFolders \cup {folder}
    /\ UNCHANGED <<settings, edit, run, launches>>

EnvironmentNext ==
    \/ Edits \/ EditStored \/ ContainerStarts \/ RunEnds
    \/ \E folder \in Folders : FolderProbed(folder) \/ HostChanges(folder)
    \/ \E build \in Builds, request \in RunRequests :
          StartRun(build, request) \/ ResurrectRun(build, request)

EnvironmentSpec == EnvironmentInit /\ [][EnvironmentNext]_environmentVars

-----------------------------------------------------------------------------
\* No version can take a variable from the platform, a debug run included.
PlatformVarsWin ==
    \A n \in DOMAIN PlatformEnv(run.build, run.request) :
        run.env[n] = PlatformEnv(run.build, run.request)[n]

\* A debug run's debugger comes first in a variable that is a list, and what the version
\* had in it stays.
DebuggerFirst ==
    \A n \in DOMAIN run.plan.env :
        /\ Head(run.env[n]) = Head(run.plan.env[n])
        /\ (n \in {"NODE_OPTIONS", "PYTHONPATH"} /\ n \in DOMAIN run.build.versionEnv)
              => run.env[n][Len(run.env[n])] = run.build.versionEnv[n].value

\* The memory is within the bounds of the build the run works with now; of bounds that
\* contradict each other it is one of the two.
MemoryInBounds ==
    LET bounds == {run.build.min, run.build.max}
    IN  IF Unset \notin bounds /\ run.build.min > run.build.max THEN run.memory \in bounds
        ELSE /\ run.build.min # Unset => run.memory >= run.build.min
             /\ run.build.max # Unset => run.memory <= run.build.max

\* Whatever the request, the settings, the build and the number of resurrections: a started
\* container has the contract of the platform.
StartedAsPromised ==
    run.status = "started" => PlatformVarsWin /\ DebuggerFirst /\ MemoryInBounds

=============================================================================
