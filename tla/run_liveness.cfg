SPECIFICATION FairSpec
CONSTANTS
    Aborters = {a1}
    Resurrectors = {r1}
    Window = window
    MaxIncarnations = 2
    MaxCrashes = 1
    MaxRestarts = 1
    RestartOnError = TRUE
    HasTimeout = TRUE
    IsStandby = FALSE
    Graceful = {TRUE}
    Stops = {"reboot"}
    EscapePoints = {"prep", "viewed", "check", "cleanup", "restartCheck", "errCheck", "final"}
PROPERTIES
    RunsMoveOn
CHECK_DEADLOCK FALSE
