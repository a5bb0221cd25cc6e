SPECIFICATION ServiceSpec
CONSTANTS
    DELAYED_AFTER = 2
    OFFLINE_AFTER = 10
    Readings <- SomeReadings
    Coverages = {10, 60}
    LEARNED <- TrainedDetector
    Z_THRESHOLD = 45
    TrainedVerdicts <- SomeVerdicts
    MAXLEN = 3
    MIN_POINTS = 2
    WINDOW = 2
    MINUTE = 2
    RETURN_SOC = 20
    WARN_MINUTES = 1
    MaxTime = 4
    MaxMessages = 4
    Levels <- SomeLevels
CHECK_DEADLOCK FALSE
INVARIANTS
    JudgesAgree
    MotorTroubleIsTold
    EmptyBatteryIsTold
    ForecastFades
    TrainedOnWhatIsReported
    FlagsOverload
    WorseIsNoHealthier
