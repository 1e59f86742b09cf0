SPECIFICATION Spec
CONSTANTS
    Aborters = {a1, a2}
    Resurrectors = {r1, r2}
    Window = window
    MaxIncarnations = 3
    MaxCrashes = 0
    MaxRestarts = 1
    RestartOnError = FALSE
    HasTimeout = FALSE
    IsStandby = FALSE
    Graceful = {FALSE}
    Stops = {}
    EscapePoints = {}
INVARIANT OneIncarnation
CHECK_DEADLOCK FALSE
