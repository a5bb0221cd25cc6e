--------------------------- MODULE RobotSimulator ---------------------------
(***************************************************************************)
(* The robot simulator (services/robot-simulator/simulator.py and           *)
(* robot_state.py): one shared RobotPhysicsState that three threads change  *)
(* under its lock.                                                          *)
(*                                                                          *)
(*   - the MQTT thread runs _apply_command, one action per command;         *)
(*   - the HTTP thread runs inject_fault;                                   *)
(*   - the main loop runs _update_physics once per TELEMETRY_INTERVAL, one  *)
(*     action per path through that function.                               *)
(*                                                                          *)
(* Each of these holds the lock from its first read to its last write, so   *)
(* each is one atomic step and the threads interleave between steps.        *)
(*                                                                          *)
(* The two tanks are counted in service ticks: a battery unit is what one   *)
(* tick at the dock charges (1/6 %) and a water unit is what it refills     *)
(* (5/12 %), both rounded down.  The thresholds of the code are whole       *)
(* numbers of units (120, 480 and 600; 36, 216 and 240), so comparisons,    *)
(* charging and the injected drops are exact; ordinary use takes less than  *)
(* a unit per tick, so a tick of it takes one of DRAIN_UNITS.               *)
(***************************************************************************)
EXTENDS GridMap, FiniteSets

CONSTANTS
    Path,               \* self._path, the waypoints in cleaning order
    Commands,           \* the commands the operator may send
    Faults,             \* the faults the operator may inject
    TICKS_TO_CLEAN,
    BATTERY_FULL_SCALE, CHARGE_THRESHOLD, CHARGE_FULL, BATTERY_DROP,
    TANK_FULL_SCALE, WATER_THRESHOLD, WATER_FULL, WATER_DROP,
    DRAIN_UNITS,        \* what ordinary use may take from a tank in one tick
    SEQUENCE_WRAP       \* sequence is counted modulo this bound

FaultNames == {"obstacle", "motor", "battery", "water"}

\* Every (delta row, delta column) an operator can command.
MANUAL_MOVES ==
    [MOVE_UP   |-> <<1, 0>>,  MOVE_UP_RIGHT  |-> <<1, 1>>,
     MOVE_RIGHT |-> <<0, 1>>, MOVE_DOWN_RIGHT |-> <<-1, 1>>,
     MOVE_DOWN |-> <<-1, 0>>, MOVE_DOWN_LEFT |-> <<-1, -1>>,
     MOVE_LEFT |-> <<0, -1>>, MOVE_UP_LEFT   |-> <<1, -1>>]

MoveNames == DOMAIN MANUAL_MOVES

ASSUME PathAssumption ==
    /\ Path \in Seq(AccessibleCells)
    /\ Path # <<>>

ASSUME TankAssumption ==
    /\ BATTERY_FULL_SCALE \in Nat
    /\ CHARGE_FULL \in 0 .. BATTERY_FULL_SCALE
    /\ CHARGE_THRESHOLD \in 0 .. CHARGE_FULL
    /\ TANK_FULL_SCALE \in Nat
    /\ WATER_FULL \in 0 .. TANK_FULL_SCALE
    /\ WATER_THRESHOLD \in 0 .. WATER_FULL
    /\ BATTERY_DROP \in Nat /\ WATER_DROP \in Nat
    /\ DRAIN_UNITS \subseteq {0, 1} /\ DRAIN_UNITS # {}

ASSUME BoundAssumption ==
    /\ TICKS_TO_CLEAN \in Nat \ {0}
    /\ SEQUENCE_WRAP \in Nat \ {0}
    /\ Faults \subseteq FaultNames

VARIABLES
    row, col,           \* the cell the robot is in
    speed_mps,          \* in tenths: 0, 1 or 2
    obstacle_cm,        \* what the range sensor last reported
    motor_current_a,    \* "nominal", or "overload" (3.5 A)
    battery_soc,        \* in battery units
    water_level_pct,    \* in water units
    brush_on, pump_on,
    mode, paused, stopped, returning_home, manual_mode,
    sequence,
    path_index,         \* index into self._path, from 0
    ticks_in_cell,      \* stops counting at TICKS_TO_CLEAN
    faults,             \* the inject_* flags that are set
    cleaned,            \* self._cleaned
    dirt                \* the cells where self._dirt_map is above zero

pose      == <<row, col>>
sensors   == <<speed_mps, obstacle_cm, motor_current_a>>
tanks     == <<battery_soc, water_level_pct>>
actuators == <<brush_on, pump_on>>
flags     == <<mode, paused, stopped, returning_home, manual_mode>>
progress  == <<path_index, ticks_in_cell>>
floor     == <<cleaned, dirt>>
vars == <<row, col, speed_mps, obstacle_cm, motor_current_a, battery_soc,
          water_level_pct, brush_on, pump_on, mode, paused, stopped,
          returning_home, manual_mode, sequence, path_index, ticks_in_cell,
          faults, cleaned, dirt>>

Init ==
    /\ row = HOME[1] /\ col = HOME[2]
    /\ speed_mps = 0 /\ obstacle_cm = 200 /\ motor_current_a = "nominal"
    /\ battery_soc = BATTERY_FULL_SCALE /\ water_level_pct = TANK_FULL_SCALE
    /\ brush_on = TRUE /\ pump_on = FALSE
    /\ mode = "CLEANING"
    /\ paused = FALSE /\ stopped = FALSE
    /\ returning_home = FALSE /\ manual_mode = FALSE
    /\ sequence = 0 /\ path_index = 0 /\ ticks_in_cell = 0
    /\ faults = {}
    /\ cleaned = {} /\ dirt = AccessibleCells

AtHome == pose = HOME

Held == stopped \/ paused

Lower(level, amount) == IF level > amount THEN level - amount ELSE 0

Raise(level, fullScale) == IF level < fullScale THEN level + 1 ELSE fullScale

\* (slip) The cell is counted as cleaned but its dirt stays on the map.
CleanCellKeepingDirt(cell) == cleaned' = cleaned \cup {cell} /\ dirt' = dirt

\* A cell is cleaned once; its dirt goes to zero with it.
CleanCell(cell) ==
    /\ cleaned' = cleaned \cup {cell}
    /\ dirt' = IF cell \in cleaned THEN dirt ELSE dirt \ {cell}

-----------------------------------------------------------------------------
(* Commands: _apply_command, on the MQTT thread *)

Waypoints == 0 .. Len(Path) - 1

\* (slip) The nearest waypoint, whether or not its cell is clean already.
AnyWaypoint == Waypoints

\* Waypoints in cells still to be cleaned come first, all of them otherwise.
PreferredWaypoints ==
    LET pending == {i \in Waypoints : Path[i + 1] \notin cleaned}
    IN  IF pending = {} THEN Waypoints ELSE pending

\* The first of the preferred waypoints at the least distance: one index.
NearestPathIndex(cell) ==
    {i \in PreferredWaypoints : \A j \in PreferredWaypoints :
        \/ Manhattan(Path[i + 1], cell) < Manhattan(Path[j + 1], cell)
        \/ Manhattan(Path[i + 1], cell) = Manhattan(Path[j + 1], cell) /\ i <= j}

LeaveManual ==
    /\ manual_mode' = FALSE
    /\ \/ /\ manual_mode
          /\ path_index' \in NearestPathIndex(pose)
          /\ ticks_in_cell' = 0
       \/ /\ ~manual_mode
          /\ UNCHANGED progress

\* (slip) START without _leave_manual.
StartKeepingManual ==
    /\ "START" \in Commands
    /\ paused' = FALSE /\ stopped' = FALSE /\ returning_home' = FALSE
    /\ mode' = "CLEANING"
    /\ UNCHANGED <<pose, sensors, tanks, actuators, manual_mode, sequence,
                   progress, faults, floor>>

Start ==
    /\ "START" \in Commands
    /\ paused' = FALSE /\ stopped' = FALSE /\ returning_home' = FALSE
    /\ LeaveManual
    /\ mode' = "CLEANING"
    /\ UNCHANGED <<pose, sensors, tanks, actuators, sequence, faults, floor>>

Pause ==
    /\ "PAUSE" \in Commands
    /\ paused' = TRUE
    /\ speed_mps' = 0
    /\ UNCHANGED <<pose, obstacle_cm, motor_current_a, tanks, actuators, mode,
                   stopped, returning_home, manual_mode, sequence, progress,
                   faults, floor>>

\* (slip) RESUME undoes a STOP as well as a PAUSE.
ResumeAfterStop ==
    /\ "RESUME" \in Commands
    /\ paused' = FALSE /\ stopped' = FALSE
    /\ UNCHANGED <<pose, sensors, tanks, actuators, mode, returning_home,
                   manual_mode, sequence, progress, faults, floor>>

Resume ==
    /\ "RESUME" \in Commands
    /\ paused' = FALSE
    /\ UNCHANGED <<pose, sensors, tanks, actuators, mode, stopped,
                   returning_home, manual_mode, sequence, progress, faults, floor>>

Stop ==
    /\ "STOP" \in Commands
    /\ stopped' = TRUE /\ paused' = FALSE
    /\ speed_mps' = 0
    /\ mode' = "IDLE"
    /\ UNCHANGED <<pose, obstacle_cm, motor_current_a, tanks, actuators,
                   returning_home, manual_mode, sequence, progress, faults, floor>>

ReturnHome ==
    /\ "RETURN_HOME" \in Commands
    /\ LeaveManual
    /\ returning_home' = TRUE
    /\ mode' = "RETURNING"
    /\ UNCHANGED <<pose, sensors, tanks, actuators, paused, stopped, sequence,
                   faults, floor>>

SwitchBrush ==
    /\ \/ "BRUSH_ON" \in Commands /\ brush_on' = TRUE
       \/ "BRUSH_OFF" \in Commands /\ brush_on' = FALSE
    /\ UNCHANGED <<pose, sensors, tanks, pump_on, flags, sequence, progress,
                   faults, floor>>

SwitchPump ==
    /\ \/ "PUMP_ON" \in Commands /\ pump_on' = TRUE
       \/ "PUMP_OFF" \in Commands /\ pump_on' = FALSE
    /\ UNCHANGED <<pose, sensors, tanks, brush_on, flags, sequence, progress,
                   faults, floor>>

ManualMode ==
    /\ "MANUAL_MODE" \in Commands
    /\ manual_mode' = TRUE
    /\ paused' = FALSE /\ stopped' = FALSE /\ returning_home' = FALSE
    /\ mode' = "MANUAL"
    /\ speed_mps' = 0
    /\ UNCHANGED <<pose, obstacle_cm, motor_current_a, tanks, actuators,
                   sequence, progress, faults, floor>>

AutoMode ==
    /\ "AUTO_MODE" \in Commands
    /\ LeaveManual
    /\ mode' = "CLEANING"
    /\ UNCHANGED <<pose, sensors, tanks, actuators, paused, stopped,
                   returning_home, sequence, faults, floor>>

\* (slip) Only the target cell is looked at.
MoveBlockedAtTarget(d) == ~IsAccessible(row + d[1], col + d[2])

\* A move is refused into a wall or a desk, and across the corner of one.
MoveBlocked(d) ==
    \/ ~IsAccessible(row + d[1], col + d[2])
    \/ /\ d[1] # 0 /\ d[2] # 0
       /\ \/ ~IsAccessible(row + d[1], col)
          \/ ~IsAccessible(row, col + d[2])

ManualBlocked(move) ==
    /\ manual_mode
    /\ MoveBlocked(MANUAL_MOVES[move])
    /\ speed_mps' = 0 /\ obstacle_cm' = 20
    /\ UNCHANGED <<pose, motor_current_a, tanks, actuators, flags, sequence,
                   progress, faults, floor>>

ManualStep(move) ==
    LET d == MANUAL_MOVES[move]
    IN  /\ manual_mode
        /\ ~MoveBlocked(d)
        /\ row' = row + d[1] /\ col' = col + d[2]
        /\ speed_mps' = 2 /\ obstacle_cm' = 200
        /\ ticks_in_cell' = 0
        /\ IF brush_on THEN CleanCell(pose') ELSE UNCHANGED floor
        /\ UNCHANGED <<motor_current_a, tanks, actuators, flags, sequence,
                       path_index, faults>>

\* Without manual mode a move changes nothing: it is only refused.
ManualMove ==
    \E move \in Commands \cap MoveNames : ManualBlocked(move) \/ ManualStep(move)

Command ==
    \/ Start \/ Pause \/ Resume \/ Stop \/ ReturnHome
    \/ SwitchBrush \/ SwitchPump
    \/ ManualMode \/ AutoMode \/ ManualMove

-----------------------------------------------------------------------------
(* Fault injection: inject_fault, on the HTTP thread *)

InjectFault ==
    /\ \E fault \in Faults : faults' = faults \cup {fault}
    /\ UNCHANGED <<pose, sensors, tanks, actuators, flags, sequence, progress, floor>>

ClearFaults ==
    /\ faults' = {}
    /\ UNCHANGED <<pose, sensors, tanks, actuators, flags, sequence, progress, floor>>

-----------------------------------------------------------------------------
(* _update_consumables: what a working tick uses *)

DockModes == {"CHARGING", "REFILLING"}

\* battery, motor and running are the tank, current and mode the tick has
\* computed before it gets here.
Consumables(battery, motor, running) ==
    /\ IF "battery" \in faults \/ running \in DockModes
       THEN battery_soc' = battery
       ELSE \E used \in DRAIN_UNITS : battery_soc' = Lower(battery, used)
    /\ motor_current_a' = IF "motor" \in faults THEN motor ELSE "nominal"
    /\ IF "water" \in faults /\ running \notin DockModes
       THEN water_level_pct' = Lower(water_level_pct, WATER_DROP)
       ELSE IF pump_on
       THEN \E used \in DRAIN_UNITS :
                water_level_pct' = Lower(water_level_pct, used)
       ELSE UNCHANGED water_level_pct
    /\ sequence' = (sequence + 1) % SEQUENCE_WRAP

-----------------------------------------------------------------------------
(* _update_physics: one tick of the main loop *)

TickHeld ==
    /\ Held
    /\ speed_mps' = 0
    /\ UNCHANGED <<pose, obstacle_cm, motor_current_a, tanks, actuators, flags,
                   sequence, progress, faults, floor>>

TickManual ==
    /\ ~Held /\ manual_mode
    /\ speed_mps' = 0
    /\ Consumables(battery_soc, motor_current_a, mode)
    /\ UNCHANGED <<pose, obstacle_cm, actuators, flags, progress, faults, floor>>

\* The decision to go home, taken at the head of every autonomous tick.
LowBattery == battery_soc < CHARGE_THRESHOLD /\ "battery" \notin faults
LowWater   == water_level_pct < WATER_THRESHOLD
\* (slip) Only the battery sends the robot home.
AutoReturnForBattery == mode = "CLEANING" /\ ~returning_home /\ LowBattery

AutoReturn == mode = "CLEANING" /\ ~returning_home /\ (LowBattery \/ LowWater)
HomeBound  == returning_home \/ AutoReturn

\* The dock serves a robot that came home, and lets it go when both tanks
\* are full enough.
NeedsCharge == battery_soc < CHARGE_FULL
NeedsWater  == water_level_pct < WATER_FULL
AtDock      == AtHome /\ (AutoReturn \/ mode \in DockModes \cup {"RETURNING"})
Servicing   == AtDock /\ (NeedsCharge \/ NeedsWater)

TickService ==
    /\ ~Held /\ ~manual_mode /\ Servicing
    /\ returning_home' = FALSE
    /\ mode' = IF NeedsCharge THEN "CHARGING" ELSE "REFILLING"
    /\ speed_mps' = 0
    /\ brush_on' = FALSE /\ pump_on' = FALSE
    /\ battery_soc' = IF NeedsCharge THEN Raise(battery_soc, BATTERY_FULL_SCALE)
                                     ELSE battery_soc
    /\ water_level_pct' = IF NeedsWater THEN Raise(water_level_pct, TANK_FULL_SCALE)
                                        ELSE water_level_pct
    /\ UNCHANGED <<pose, obstacle_cm, motor_current_a, paused, stopped,
                   manual_mode, sequence, progress, faults, floor>>

\* What the rest of an autonomous tick finds once the dock has let go.
ModeNow    == IF AtDock THEN "CLEANING" ELSE IF AutoReturn THEN "RETURNING" ELSE mode
\* (slip) The brush the dock lifted is never lowered again.
BrushLeftUp == brush_on

BrushNow   == brush_on \/ AtDock
MotorNow   == IF "motor" \in faults THEN "overload" ELSE motor_current_a
BatteryNow == IF "battery" \in faults /\ ModeNow # "CHARGING"
              THEN Lower(battery_soc, BATTERY_DROP) ELSE battery_soc

Driving == ~Held /\ ~manual_mode /\ ~Servicing

\* The injected obstacle ends the tick before anything else is looked at.
TickObstacleFault ==
    /\ Driving /\ "obstacle" \in faults
    /\ obstacle_cm' = 15 /\ speed_mps' = 0
    /\ mode' = ModeNow /\ returning_home' = HomeBound /\ brush_on' = BrushNow
    /\ UNCHANGED <<pose, motor_current_a, tanks, pump_on, paused, stopped,
                   manual_mode, sequence, progress, faults, floor>>

FreeToDrive == Driving /\ "obstacle" \notin faults

TickArriveHome ==
    /\ FreeToDrive /\ HomeBound /\ AtHome
    /\ returning_home' = FALSE /\ stopped' = TRUE /\ mode' = "IDLE"
    /\ speed_mps' = 0
    /\ brush_on' = BrushNow
    /\ motor_current_a' = MotorNow /\ battery_soc' = BatteryNow
    /\ UNCHANGED <<pose, obstacle_cm, water_level_pct, pump_on, paused,
                   manual_mode, sequence, progress, faults, floor>>

\* The way home is a straight king's walk: nothing is scanned on it.
TickDriveHome ==
    /\ FreeToDrive /\ HomeBound /\ ~AtHome
    /\ row' = Toward(pose, HOME)[1] /\ col' = Toward(pose, HOME)[2]
    /\ speed_mps' = 2
    /\ mode' = "RETURNING" /\ returning_home' = TRUE
    /\ motor_current_a' = MotorNow /\ battery_soc' = BatteryNow
    /\ UNCHANGED <<obstacle_cm, water_level_pct, actuators, paused, stopped,
                   manual_mode, sequence, progress, faults, floor>>

Cleaning == FreeToDrive /\ ~HomeBound

\* The next cycle starts with the whole floor dirty again.
TickNewCycle ==
    /\ Cleaning /\ path_index >= Len(Path)
    /\ path_index' = 0
    /\ cleaned' = {} /\ dirt' = AccessibleCells
    /\ mode' = ModeNow /\ brush_on' = BrushNow
    /\ motor_current_a' = MotorNow /\ battery_soc' = BatteryNow
    /\ UNCHANGED <<pose, speed_mps, obstacle_cm, water_level_pct, pump_on,
                   paused, stopped, returning_home, manual_mode, sequence,
                   ticks_in_cell, faults>>

OnCourse == Cleaning /\ path_index < Len(Path)

\* (slip) The index is taken one too low.
TargetOffByOne == Path[IF path_index = 0 THEN 1 ELSE path_index]

Target == Path[path_index + 1]

\* (slip) The range is taken to the waypoint instead of the next cell.
ScanWaypoint == IF IsAccessible(Target[1], Target[2]) THEN 200 ELSE 20

\* (slip) A reading that stopped the robot is kept until something resets it.
ScanHoldingReading == IF obstacle_cm < 25 THEN obstacle_cm ELSE ScanWaypoint

\* The range to the next cell on the way to the waypoint.
ScanObstacle ==
    LET ahead == Toward(pose, Target)
    IN  IF IsAccessible(ahead[1], ahead[2]) THEN 200 ELSE 20

\* A waypoint with an obstacle in front of it is given up for this cycle.
TickSkipWaypoint ==
    /\ OnCourse /\ ScanObstacle < 25
    /\ obstacle_cm' = ScanObstacle /\ speed_mps' = 0
    /\ path_index' = path_index + 1
    /\ mode' = ModeNow /\ brush_on' = BrushNow
    /\ motor_current_a' = MotorNow /\ battery_soc' = BatteryNow
    /\ UNCHANGED <<pose, water_level_pct, pump_on, paused, stopped,
                   returning_home, manual_mode, sequence, ticks_in_cell,
                   faults, floor>>

\* What a tick that keeps its waypoint does besides cleaning or stepping.
Advance ==
    /\ OnCourse /\ ScanObstacle >= 25
    /\ obstacle_cm' = ScanObstacle
    /\ speed_mps' = IF ScanObstacle < 50 THEN 1 ELSE 2
    /\ mode' = ModeNow /\ brush_on' = BrushNow
    /\ Consumables(BatteryNow, MotorNow, ModeNow)
    /\ UNCHANGED <<pump_on, paused, stopped, returning_home, manual_mode, faults>>

TickCleanCell ==
    /\ Advance /\ pose = Target
    /\ UNCHANGED pose
    /\ IF BrushNow /\ ticks_in_cell + 1 >= TICKS_TO_CLEAN
       THEN /\ CleanCell(pose)
            /\ path_index' = path_index + 1
            /\ ticks_in_cell' = 0
       ELSE /\ ticks_in_cell' = IF ticks_in_cell < TICKS_TO_CLEAN
                                THEN ticks_in_cell + 1 ELSE ticks_in_cell
            /\ UNCHANGED <<path_index, floor>>

TickDriveToWaypoint ==
    /\ Advance /\ pose # Target
    /\ row' = Toward(pose, Target)[1] /\ col' = Toward(pose, Target)[2]
    /\ ticks_in_cell' = 0
    /\ UNCHANGED <<path_index, floor>>

Tick ==
    \/ TickHeld \/ TickManual \/ TickService \/ TickObstacleFault
    \/ TickArriveHome \/ TickDriveHome
    \/ TickNewCycle \/ TickSkipWaypoint \/ TickCleanCell \/ TickDriveToWaypoint

-----------------------------------------------------------------------------
Next == Command \/ InjectFault \/ ClearFaults \/ Tick

\* The main loop never stops ticking; nobody is obliged to send anything.
Spec == Init /\ [][Next]_vars /\ WF_vars(Tick)

-----------------------------------------------------------------------------
(* Safety *)

Modes == {"CLEANING", "RETURNING", "CHARGING", "REFILLING", "IDLE", "MANUAL"}

\* Every variable of the shared state keeps its range: the robot is inside the
\* wall, path_index is a waypoint or one past the last (robot_state.py).
TypeOK ==
    /\ row \in 1 .. GRID_ROWS - 2 /\ col \in 1 .. GRID_COLS - 2
    /\ speed_mps \in 0 .. 2
    /\ obstacle_cm \in {15, 20, 200}
    /\ motor_current_a \in {"nominal", "overload"}
    /\ battery_soc \in 0 .. BATTERY_FULL_SCALE
    /\ water_level_pct \in 0 .. TANK_FULL_SCALE
    /\ brush_on \in BOOLEAN /\ pump_on \in BOOLEAN
    /\ mode \in Modes
    /\ paused \in BOOLEAN /\ stopped \in BOOLEAN
    /\ returning_home \in BOOLEAN /\ manual_mode \in BOOLEAN
    /\ sequence \in 0 .. SEQUENCE_WRAP - 1
    /\ path_index \in 0 .. Len(Path)
    /\ ticks_in_cell \in 0 .. TICKS_TO_CLEAN
    /\ faults \subseteq FaultNames
    /\ cleaned \subseteq AccessibleCells /\ dirt \subseteq AccessibleCells

\* The mode the robot reports tells who is steering it: no autonomous mode is
\* reported while the physics loop is parked in the manual branch
\* (_leave_manual), RETURNING is reported only on the way home, IDLE only when
\* stopped, and the dock modes only by a robot standing on the dock.
ModeTellsSteering ==
    /\ mode \in {"CLEANING", "RETURNING"} \cup DockModes => ~manual_mode
    /\ mode = "MANUAL" => manual_mode
    /\ mode = "RETURNING" => returning_home
    /\ mode = "IDLE" => stopped
    /\ mode \in DockModes => AtHome /\ ~stopped
    /\ returning_home => mode \notin {"MANUAL"} \cup DockModes /\ ~manual_mode

\* The dirt map and the set of cleaned cells never disagree, whoever cleaned the
\* cell and whether or not a new cycle has begun.
DirtMatchesCleaned == dirt = AccessibleCells \ cleaned

\* In a room without desks and with nobody driving by hand, the lawnmower path
\* leaves no cell dirty at the end of a cycle, however often the robot was
\* called home, held or stopped on the way.
CycleCoversRoom == path_index = Len(Path) => cleaned = AccessibleCells

-----------------------------------------------------------------------------
(* What a step may never do *)

\* A robot in autonomous motion with a tank below its threshold moves nowhere
\* but closer to the dock, and does not leave the dock (the auto-return block).
LowRobotDrivesHome ==
    ~manual_mode /\ (LowBattery \/ LowWater) /\ pose' # pose
        => Manhattan(pose', HOME) < Manhattan(pose, HOME)

LowRobotOnlyDrivesHome == [][LowRobotDrivesHome]_vars

\* Under manual control the robot moves one king's step at a time, never into
\* a wall or a desk and never across the corner of one (_manual_step), and no
\* tick of the main loop moves it.
ManualMoveIsClear ==
    manual_mode /\ pose' # pose =>
        /\ {row, row'} \X {col, col'} \subseteq AccessibleCells \cup {pose}
        /\ Magnitude(row' - row) <= 1 /\ Magnitude(col' - col) <= 1
        /\ speed_mps' > 0

ManualKeepsClear == [][ManualMoveIsClear]_vars

\* The robot steps onto a cell it may not clean only on its way home, which is
\* driven blind: following the path it looks one cell ahead (_scan_obstacle),
\* and by hand it is refused (_manual_step).
DeskIsOnTheWayHome ==
    pose' # pose /\ pose' \notin AccessibleCells => HomeBound /\ ~manual_mode

DesksCrossedOnlyGoingHome == [][DeskIsOnTheWayHome]_vars

\* Handing control back heads for a cell that still needs cleaning whenever the
\* path has one, and for the nearest of them (_nearest_path_index).
HandbackIsNearest ==
    manual_mode /\ ~manual_mode' =>
        LET togo == {i \in Waypoints : Path[i + 1] \notin cleaned'}
        IN  togo # {} =>
              /\ path_index' \in togo
              /\ \A i \in togo : Manhattan(Path[path_index' + 1], pose')
                                   <= Manhattan(Path[i + 1], pose')

HandbackTakesNearestWork == [][HandbackIsNearest]_vars

\* A stopped robot nobody is driving by hand stays where it is until START or
\* MANUAL_MODE releases it: no other command and no tick sets it in motion.
StopIsKept ==
    stopped /\ ~manual_mode =>
        /\ pose' = pose
        /\ ~stopped' => mode' \in {"CLEANING", "MANUAL"}

StoppedStaysPut == [][StopIsKept]_vars

-----------------------------------------------------------------------------
(* Liveness *)

\* A robot that runs low is served, if it is left to itself: its way home ends,
\* unless it is held, driven by hand, sent back to work or blocked; the dock
\* serves it until it lets it go, whatever is injected meanwhile, and only a
\* pause keeps it there; and the levels are above the thresholds again.
LowTankIsServed ==
    /\ returning_home ~> (~returning_home \/ Held \/ "obstacle" \in faults)
    /\ mode \in DockModes ~> (mode \notin DockModes \/ paused)
    /\ (LowBattery \/ LowWater)
          ~> (~(LowBattery \/ LowWater) \/ Held \/ manual_mode \/ "obstacle" \in faults)

\* Left alone, without faults and unless somebody holds it, the robot cleans the
\* whole floor again and again, whatever was done to it before and however often
\* low tanks interrupt a cycle.
FloorIsCleanedAgain ==
    <>[][Tick]_vars /\ <>[](faults = {} /\ ~Held) => []<>(cleaned = AccessibleCells)

\* The reading an injected obstacle left behind outlives the fault while the
\* robot is held, served or homing; once the obstacle is gone for good and
\* nobody holds or drives the robot, the reading goes for good, too, whatever
\* commands and other faults keep coming.
ObstacleIsForgotten ==
    <>[]("obstacle" \notin faults /\ ~Held /\ ~manual_mode) => <>[](obstacle_cm # 15)

-----------------------------------------------------------------------------
(* Promises of the documentation the code does not keep *)

\* "Otherwise the robot accepts the command, reports RETURNING, and never
\* leaves the spot" (RETURN_HOME): a robot that reports RETURNING gets home,
\* unless it is paused or blocked on the way.
ReturningRobotGetsHome ==
    mode = "RETURNING" ~> (mode # "RETURNING" \/ paused \/ "obstacle" \in faults)
=============================================================================
