SPECIFICATION Spec
CONSTANTS
    Aborters = {a1, a2}
    Resurrectors = {}
    Window = window
    MaxIncarnations = 1
    MaxCrashes = 1
    MaxRestarts = 2
    RestartOnError = TRUE
    HasTimeout = TRUE
    IsStandby = TRUE
    Graceful = {TRUE, FALSE}
    Stops = {"migrate", "reboot"}
    EscapePoints = {"prep", "viewed", "check", "cleanup", "restartCheck", "errCheck", "final"}
INVARIANTS
    RunHasDriver
    AbortHasOwner
    ViewerGoneWithRun
SYMMETRY Symmetry
CHECK_DEADLOCK FALSE
