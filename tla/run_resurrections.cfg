SPECIFICATION Spec
CONSTANTS
    Aborters = {a1}
    Resurrectors = {r1, r2}
    Window = window
    MaxIncarnations = 3
    MaxCrashes = 1
    MaxRestarts = 1
    RestartOnError = FALSE
    HasTimeout = FALSE
    IsStandby = FALSE
    Graceful = {FALSE}
    Stops = {"reboot"}
    EscapePoints = {"prep", "viewed", "check", "cleanup", "restartCheck", "errCheck", "final"}
INVARIANTS
    OneIncarnation
    LiveRunIsReachable
PROPERTY ImplementsJob
SYMMETRY Symmetry
CHECK_DEADLOCK FALSE
