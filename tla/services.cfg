SPECIFICATION Spec
CONSTANTS
    Calls = {c1, c2}
    Keys = {k1}
    Prices <- OneCent
    Caps = {0, 2}
    Ttl = 2
    MaxStarts = 2
    MaxTime = 2
    MaxFaults = 1
    MaxChargeCrashes = 1
    Streams = {s1}
    Sockets = {e1}
    MaxChunks = 2
    MaxLogStarts = 2
    MaxLogCrashes = 1
    t1 = t1
    t2 = t2
    t3 = t3
    account = account
    Unknown = unknown
    Tokens = {t1, t2, t3}
    AccountOf <- Accounts
    MaxRequests = 1
    MaxUserCrashes = 1
    Nodes <- HostNodes
    LinkTargets <- HostTargets
    Candidates <- SubmittedFolders
    ProbeCalls = {p1, p2}
    MaxSymlinkHops = 1
    EngineLinks = 6
    MaxProbeFaults = 1
    MaxProbeCrashes = 1
    MaxRemovals = 1
    Viewed = {r1, r2}
    VOLUME_REMOVE_ATTEMPTS = 2
    MaxViewerStarts = 2
    MaxViewerFaults = 2
    MaxViewerCrashes = 1
INVARIANTS
    ProbeFollowsHost
    NothingLeftBehind
    ChargedOncePerKey
    SameUserInProcess
PROPERTIES
    CapIsReported
    LogIsWhole
    ReadersLetGo
CHECK_DEADLOCK FALSE
