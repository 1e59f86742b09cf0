SPECIFICATION FairSpec
CONSTANTS
    Builds = {b1, b2}
    NoBuild = noBuild
    NoActor = noActor
    FailPoints = {"launched", "abortWrite", "check", "record", "succeed", "revert"}
    MaxCrashes = 1
INVARIANTS
    BuildHasDriver
PROPERTIES
    SucceededIsTagged
    BuildEnds
    ImplementsJob
CHECK_DEADLOCK FALSE
