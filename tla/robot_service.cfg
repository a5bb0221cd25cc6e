SPECIFICATION Spec
CONSTANTS
    GRID_ROWS = 4
    GRID_COLS = 4
    Desks <- NoDesks
    Path <- LawnmowerPath
    Commands <- ServiceCommands
    Faults <- ServiceFaults
    TICKS_TO_CLEAN = 1
    BATTERY_FULL_SCALE = 4
    CHARGE_THRESHOLD = 1
    CHARGE_FULL = 3
    BATTERY_DROP = 2
    TANK_FULL_SCALE = 4
    WATER_THRESHOLD = 1
    WATER_FULL = 3
    WATER_DROP = 2
    DRAIN_UNITS <- Drain
    SEQUENCE_WRAP = 1
INVARIANTS
    CycleCoversRoom
PROPERTIES
    LowRobotOnlyDrivesHome
    LowTankIsServed
    ObstacleIsForgotten
    FloorIsCleanedAgain
