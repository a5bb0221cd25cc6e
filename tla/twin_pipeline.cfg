SPECIFICATION Spec
CONSTANTS
    DELAYED_AFTER = 0
    OFFLINE_AFTER = 1
    Readings <- TwoReadings
    Replicas <- OneReplica
    MaxReadings = 2
    MaxIntrusions = 1
    MaxFaults = 1
CHECK_DEADLOCK FALSE
INVARIANTS
    JudgedIsRecorded
    AlarmsComeFirst
PROPERTIES
    BackOnlyByResending
    MirrorsTheRobot
