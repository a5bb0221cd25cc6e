SPECIFICATION OperationsSpec
CONSTANTS
    Consumers = {"engine"}
    ATTEMPTS = 3
    MaxOutages = 2
    MaxFaults = 2
    Qualities <- SomeQualities
    MaxCommits = 3
    MaxStarts = 3
    Turns = {"first", "second", "third"}
    Others = {"grafana", "ops"}
    LIMIT = 4
    N = 900
    BATCH = 70
    DELAYED_AFTER = 2
    OFFLINE_AFTER = 10
    LAG = 2
    MaxStalls = 1
    MaxBacklog = 1
    MaxChanges = 1
    NOTEBOOKS <- TwoNotebooks
    MaxEdits = 2
    MaxRuns = 2
CHECK_DEADLOCK FALSE
INVARIANTS
    TypesOK
    OutagesAreSurvived
    ServesWhatPassed
    OneAfterAnother
    StatesRestOnTelemetry
    ShownIsInjected
    ReadersServed
    ExportsAreCurrent
PROPERTIES
    ConsumersComeBack
    TwinRecovers
