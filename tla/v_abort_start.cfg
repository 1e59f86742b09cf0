SPECIFICATION Spec
CONSTANTS
    Aborters = {a1}
    Resurrectors = {}
    Window = window
    MaxIncarnations = 1
    MaxCrashes = 0
    MaxRestarts = 1
    RestartOnError = FALSE
    HasTimeout = FALSE
    IsStandby = FALSE
    Graceful = {FALSE}
    Stops = {}
    EscapePoints = {}
INVARIANT AbortedMeansStopped
CHECK_DEADLOCK FALSE
