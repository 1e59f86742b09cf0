SPECIFICATION FairSpec
CONSTANTS
    Requests = {r1, r2, r3}
    Impatient = {r1}
    MaxBuild = 2
    Desired = 1
    MaxLoad = 2
INVARIANTS
    LoadIsSpread
    NoBusyRunFinished
 
CHECK_DEADLOCK FALSE
