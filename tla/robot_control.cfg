SPECIFICATION Spec
CONSTANTS
    GRID_ROWS = 4
    GRID_COLS = 6
    Desks <- DeskInTheRow
    Path <- LawnmowerPath
    Commands <- DrivingCommands
    Faults <- NoFaults
    TICKS_TO_CLEAN = 2
    BATTERY_FULL_SCALE = 1
    CHARGE_THRESHOLD = 0
    CHARGE_FULL = 1
    BATTERY_DROP = 0
    TANK_FULL_SCALE = 1
    WATER_THRESHOLD = 0
    WATER_FULL = 1
    WATER_DROP = 0
    DRAIN_UNITS <- NoDrain
    SEQUENCE_WRAP = 1
INVARIANTS
    ModeTellsSteering
    DirtMatchesCleaned
PROPERTIES
    ManualKeepsClear
    DesksCrossedOnlyGoingHome
    HandbackTakesNearestWork
    StoppedStaysPut
