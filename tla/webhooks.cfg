SPECIFICATION FairSpec
CONSTANTS
    ofActor = ofActor
    ofRun = ofRun
    Webhooks <- MCWebhooks
    Subscribed <- MCSubscribed
    AdHoc <- MCAdHoc
    DoNotRetry <- MCDoNotRetry
    Tested <- MCTested
    Edited <- MCEdited
    MaxRetries = 1
    MaxTestRetries = 0
    MaxEvents = 3
    MaxFaults = 1
INVARIANTS
    DeliveredOnce
PROPERTIES
    NoEventMissed
    DispatchEnds
CHECK_DEADLOCK FALSE
