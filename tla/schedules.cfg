SPECIFICATION FairSpec
CONSTANTS
    Actions = {a1}
    Period = 2
    MinInterval = 3
    MaxDelay = 1
    MaxLog = 2
    MaxTime = 7
    MaxManual = 1
    MaxEdits = 2
    MaxFaults = 1
INVARIANTS
    ArmedWhenEnabled
    ExclusiveRuns
    TimesKept
PROPERTY DueGetsInvoked
CHECK_DEADLOCK FALSE
