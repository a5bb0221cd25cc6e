SPECIFICATION Spec
CONSTANTS
    DELAYED_AFTER = 0
    OFFLINE_AFTER = 1
    Readings <- TwoReadings
    Replicas <- OneReplica
    MaxReadings = 1
    MaxIntrusions = 0
    MaxFaults = 0
CHECK_DEADLOCK FALSE
INVARIANT
    SilenceShows
