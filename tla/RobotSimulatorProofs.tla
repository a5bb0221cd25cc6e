------------------------ MODULE RobotSimulatorProofs ------------------------
(***************************************************************************)
(* Theorems about RobotSimulator for every room, path, tank and menu of     *)
(* commands and faults its assumptions admit.                               *)
(***************************************************************************)
EXTENDS RobotSimulator, TLAPS

-----------------------------------------------------------------------------
(* Geometry *)

\* The inside of the room, coordinate by coordinate.
LEMMA InsideCoordinates ==
    /\ GRID_ROWS - 2 \in Nat /\ GRID_COLS - 2 \in Nat
    /\ 1 \in 1 .. GRID_ROWS - 2 /\ 1 \in 1 .. GRID_COLS - 2
    /\ \A r, c : <<r, c>> \in AccessibleCells
                    => r \in 1 .. GRID_ROWS - 2 /\ c \in 1 .. GRID_COLS - 2
    /\ \A p \in AccessibleCells :
          p[1] \in 1 .. GRID_ROWS - 2 /\ p[2] \in 1 .. GRID_COLS - 2
BY GridAssumption DEF AccessibleCells, Inside

\* The next waypoint is a cell the robot may clean.
LEMMA TargetIsAccessible ==
    ASSUME TypeOK, path_index < Len(Path)
    PROVE  Target \in AccessibleCells
BY PathAssumption DEF TypeOK, Target

\* A walking step toward an accessible cell stays inside the wall.
LEMMA TowardStaysInside ==
    ASSUME TypeOK, NEW q \in AccessibleCells \cup {HOME}
    PROVE  /\ Toward(pose, q)[1] \in 1 .. GRID_ROWS - 2
           /\ Toward(pose, q)[2] \in 1 .. GRID_COLS - 2
<1>1. q[1] \in 1 .. GRID_ROWS - 2 /\ q[2] \in 1 .. GRID_COLS - 2
  BY InsideCoordinates DEF HOME
<1>2. row + Sign(q[1] - row) \in 1 .. GRID_ROWS - 2
  BY <1>1, InsideCoordinates DEF TypeOK, Sign
<1>3. col + Sign(q[2] - col) \in 1 .. GRID_COLS - 2
  BY <1>1, InsideCoordinates DEF TypeOK, Sign
<1> QED BY <1>2, <1>3 DEF Toward, pose

-----------------------------------------------------------------------------
(* Tanks *)

\* Draining a tank and filling it keep its level on the scale.
LEMMA TankLevels ==
    ASSUME NEW scale \in Nat, NEW level \in 0 .. scale
    PROVE  /\ \A amount \in Nat : Lower(level, amount) \in 0 .. scale
           /\ Raise(level, scale) \in 0 .. scale
BY DEF Lower, Raise

\* What a tick has computed before it acts is of the right type.
LEMMA TickValues ==
    ASSUME TypeOK
    PROVE  /\ ModeNow \in Modes
           /\ BrushNow \in BOOLEAN
           /\ HomeBound \in BOOLEAN
           /\ MotorNow \in {"nominal", "overload"}
           /\ BatteryNow \in 0 .. BATTERY_FULL_SCALE
<1>1. BatteryNow \in 0 .. BATTERY_FULL_SCALE
  BY TankLevels, TankAssumption DEF TypeOK, BatteryNow
<1>2. BrushNow \in BOOLEAN
  BY DEF TypeOK, BrushNow, AtDock
<1>3. HomeBound \in BOOLEAN
  BY DEF TypeOK, HomeBound, AutoReturn
<1> QED BY <1>1, <1>2, <1>3 DEF TypeOK, ModeNow, MotorNow, Modes

\* The consumables of a working tick keep their types.
LEMMA ConsumablesType ==
    ASSUME TypeOK,
           NEW b \in 0 .. BATTERY_FULL_SCALE, NEW m \in {"nominal", "overload"},
           NEW r, Consumables(b, m, r)
    PROVE  /\ battery_soc' \in 0 .. BATTERY_FULL_SCALE
           /\ water_level_pct' \in 0 .. TANK_FULL_SCALE
           /\ motor_current_a' \in {"nominal", "overload"}
           /\ sequence' \in 0 .. SEQUENCE_WRAP - 1
<1>1. battery_soc' \in 0 .. BATTERY_FULL_SCALE
  BY TankLevels, TankAssumption DEF Consumables
<1>2. water_level_pct' \in 0 .. TANK_FULL_SCALE
  <2>1. /\ water_level_pct \in 0 .. TANK_FULL_SCALE
        /\ \A amount \in Nat : Lower(water_level_pct, amount) \in 0 .. TANK_FULL_SCALE
    BY TankLevels, TankAssumption DEF TypeOK
  <2>2. DRAIN_UNITS \subseteq Nat /\ WATER_DROP \in Nat
    BY TankAssumption
  <2> QED BY <2>1, <2>2 DEF Consumables
<1>3. sequence' \in 0 .. SEQUENCE_WRAP - 1
  BY BoundAssumption DEF Consumables, TypeOK
<1> QED BY <1>1, <1>2, <1>3 DEF Consumables

-----------------------------------------------------------------------------
(* Type correctness *)

\* Manual control is left at a waypoint of the path.
LEMMA LeaveManualType ==
    ASSUME TypeOK, LeaveManual
    PROVE  /\ manual_mode' \in BOOLEAN
           /\ path_index' \in 0 .. Len(Path)
           /\ ticks_in_cell' \in 0 .. TICKS_TO_CLEAN
<1>1. Len(Path) \in Nat
  BY PathAssumption
<1>2. NearestPathIndex(pose) \subseteq 0 .. Len(Path)
  BY <1>1 DEF NearestPathIndex, PreferredWaypoints, Waypoints
<1>3. 0 \in 0 .. TICKS_TO_CLEAN
  BY BoundAssumption
<1>4. CASE manual_mode
  <2>1. path_index' \in NearestPathIndex(pose) /\ ticks_in_cell' = 0
    BY <1>4 DEF LeaveManual
  <2> QED BY <1>2, <1>3, <2>1 DEF LeaveManual
<1>5. CASE ~manual_mode
  <2>1. UNCHANGED progress /\ manual_mode' = FALSE
    BY <1>5 DEF LeaveManual
  <2> QED BY <2>1 DEF TypeOK, progress
<1> QED BY <1>4, <1>5

\* Cleaning an accessible cell keeps the map among the accessible cells.
LEMMA CleanCellType ==
    ASSUME TypeOK, NEW cell \in AccessibleCells, CleanCell(cell)
    PROVE  cleaned' \subseteq AccessibleCells /\ dirt' \subseteq AccessibleCells
BY DEF TypeOK, CleanCell

\* No command takes a variable out of its range.
LEMMA CommandType == ASSUME TypeOK, Command PROVE TypeOK'
<1> USE DEF TypeOK, pose, sensors, tanks, actuators, flags, progress, floor
<1>1. CASE Start
  BY <1>1, LeaveManualType DEF Start, Modes
<1>2. CASE Pause
  BY <1>2 DEF Pause
<1>3. CASE Resume
  BY <1>3 DEF Resume
<1>4. CASE Stop
  <2>1. mode' \in Modes
    BY <1>4 DEF Stop, Modes
  <2>2. speed_mps' \in 0 .. 2
    BY <1>4 DEF Stop
  <2> QED BY <1>4, <2>1, <2>2 DEF Stop
<1>5. CASE ReturnHome
  BY <1>5, LeaveManualType DEF ReturnHome, Modes
<1>6. CASE SwitchBrush
  BY <1>6 DEF SwitchBrush
<1>7. CASE SwitchPump
  BY <1>7 DEF SwitchPump
<1>8. CASE ManualMode
  <2>1. mode' \in Modes
    BY <1>8 DEF ManualMode, Modes
  <2>2. speed_mps' \in 0 .. 2
    BY <1>8 DEF ManualMode
  <2> QED BY <1>8, <2>1, <2>2 DEF ManualMode
<1>9. CASE AutoMode
  BY <1>9, LeaveManualType DEF AutoMode, Modes
<1>10. CASE ManualMove
  <2>1. PICK move \in Commands \cap MoveNames : ManualBlocked(move) \/ ManualStep(move)
    BY <1>10 DEF ManualMove
  <2>2. CASE ManualBlocked(move)
    BY <2>2 DEF ManualBlocked
  <2>3. CASE ManualStep(move)
    <3>1. pose' \in AccessibleCells
      BY <2>3 DEF ManualStep, MoveBlocked, IsAccessible
    <3>2. cleaned' \subseteq AccessibleCells /\ dirt' \subseteq AccessibleCells
      BY <2>3, <3>1, CleanCellType DEF ManualStep
    <3>3. row' \in 1 .. GRID_ROWS - 2 /\ col' \in 1 .. GRID_COLS - 2
      BY <3>1, InsideCoordinates
    <3> QED BY <2>3, <3>2, <3>3, BoundAssumption DEF ManualStep
  <2> QED BY <2>1, <2>2, <2>3
<1> QED
  BY <1>1, <1>2, <1>3, <1>4, <1>5, <1>6, <1>7, <1>8, <1>9, <1>10 DEF Command

\* No tick takes a variable out of its range.
LEMMA TickType == ASSUME TypeOK, Tick PROVE TypeOK'
<1> USE DEF TypeOK, pose, sensors, tanks, actuators, flags, progress, floor
<1>1. CASE TickHeld
  BY <1>1 DEF TickHeld
<1>2. CASE TickManual
  BY <1>2, ConsumablesType DEF TickManual
<1>3. CASE TickService
  <2>1. mode' \in Modes
    BY <1>3 DEF TickService, Modes
  <2>2. battery_soc' \in 0 .. BATTERY_FULL_SCALE
    BY <1>3, TankLevels, TankAssumption DEF TickService
  <2>3. water_level_pct' \in 0 .. TANK_FULL_SCALE
    BY <1>3, TankLevels, TankAssumption DEF TickService
  <2>4. speed_mps' \in 0 .. 2
    BY <1>3 DEF TickService
  <2> QED BY <1>3, <2>1, <2>2, <2>3, <2>4 DEF TickService
<1>4. CASE TickObstacleFault
  BY <1>4, TickValues DEF TickObstacleFault
<1>5. CASE TickArriveHome
  <2>1. mode' \in Modes
    BY <1>5 DEF TickArriveHome, Modes
  <2>2. speed_mps' \in 0 .. 2
    BY <1>5 DEF TickArriveHome
  <2> QED BY <1>5, <2>1, <2>2, TickValues DEF TickArriveHome
<1>6. CASE TickDriveHome
  BY <1>6, TickValues, TowardStaysInside DEF TickDriveHome, Modes
<1>7. CASE TickNewCycle
  BY <1>7, TickValues, PathAssumption DEF TickNewCycle
<1>8. CASE TickSkipWaypoint
  <2>1. path_index' \in 0 .. Len(Path)
    BY <1>8, PathAssumption DEF TickSkipWaypoint, OnCourse
  <2>2. obstacle_cm' \in {15, 20, 200}
    BY <1>8 DEF TickSkipWaypoint, ScanObstacle
  <2> QED BY <1>8, <2>1, <2>2, TickValues DEF TickSkipWaypoint
<1>9. ASSUME Advance
      PROVE  /\ path_index < Len(Path)
             /\ Target \in AccessibleCells
             /\ obstacle_cm' \in {15, 20, 200} /\ speed_mps' \in 0 .. 2
             /\ mode' \in Modes /\ brush_on' \in BOOLEAN /\ pump_on' \in BOOLEAN
             /\ paused' \in BOOLEAN /\ stopped' \in BOOLEAN
             /\ returning_home' \in BOOLEAN /\ manual_mode' \in BOOLEAN
             /\ battery_soc' \in 0 .. BATTERY_FULL_SCALE
             /\ water_level_pct' \in 0 .. TANK_FULL_SCALE
             /\ motor_current_a' \in {"nominal", "overload"}
             /\ sequence' \in 0 .. SEQUENCE_WRAP - 1
             /\ faults' \subseteq FaultNames
  <2>1. path_index < Len(Path) /\ Target \in AccessibleCells
    BY <1>9, TargetIsAccessible DEF Advance, OnCourse
  <2>2. obstacle_cm' \in {15, 20, 200} /\ speed_mps' \in 0 .. 2
    BY <1>9 DEF Advance, ScanObstacle
  <2>3. Consumables(BatteryNow, MotorNow, ModeNow)
    BY <1>9 DEF Advance
  <2>4. /\ battery_soc' \in 0 .. BATTERY_FULL_SCALE
        /\ water_level_pct' \in 0 .. TANK_FULL_SCALE
        /\ motor_current_a' \in {"nominal", "overload"}
        /\ sequence' \in 0 .. SEQUENCE_WRAP - 1
    BY <2>3, TickValues, ConsumablesType
  <2> QED BY <1>9, <2>1, <2>2, <2>4, TickValues DEF Advance
<1>10. CASE TickCleanCell
  <2>1. Advance /\ pose \in AccessibleCells /\ path_index < Len(Path)
    BY <1>9, <1>10 DEF TickCleanCell
  <2>2. cleaned' \subseteq AccessibleCells /\ dirt' \subseteq AccessibleCells
    BY <1>10, <2>1, CleanCellType DEF TickCleanCell
  <2>3. path_index' \in 0 .. Len(Path) /\ ticks_in_cell' \in 0 .. TICKS_TO_CLEAN
    BY <1>10, <2>1, PathAssumption, BoundAssumption DEF TickCleanCell
  <2> QED BY <1>9, <1>10, <2>1, <2>2, <2>3 DEF TickCleanCell
<1>11. CASE TickDriveToWaypoint
  <2>1. Advance /\ Target \in AccessibleCells
    BY <1>9, <1>11 DEF TickDriveToWaypoint
  <2>2. row' \in 1 .. GRID_ROWS - 2 /\ col' \in 1 .. GRID_COLS - 2
    BY <1>11, <2>1, TowardStaysInside DEF TickDriveToWaypoint
  <2> QED BY <1>9, <1>11, <2>1, <2>2, BoundAssumption DEF TickDriveToWaypoint
<1> QED
  BY <1>1, <1>2, <1>3, <1>4, <1>5, <1>6, <1>7, <1>8, <1>10, <1>11 DEF Tick

\* Whatever the operator sends and injects, every variable of the shared state
\* keeps its range; above all, the robot never leaves the walls.
THEOREM TypeCorrect == Spec => []TypeOK
<1>1. Init => TypeOK
  <2> SUFFICES ASSUME Init PROVE TypeOK
    OBVIOUS
  <2> USE DEF Init
  <2>1. row \in 1 .. GRID_ROWS - 2 /\ col \in 1 .. GRID_COLS - 2
    BY InsideCoordinates DEF HOME
  <2>2. /\ battery_soc \in 0 .. BATTERY_FULL_SCALE
        /\ water_level_pct \in 0 .. TANK_FULL_SCALE
    BY TankAssumption
  <2>3. /\ sequence \in 0 .. SEQUENCE_WRAP - 1
        /\ path_index \in 0 .. Len(Path)
        /\ ticks_in_cell \in 0 .. TICKS_TO_CLEAN
    BY PathAssumption, BoundAssumption
  <2>4. mode \in Modes
    BY DEF Modes
  <2>5. speed_mps \in 0 .. 2 /\ obstacle_cm \in {15, 20, 200}
    OBVIOUS
  <2>6. faults \subseteq FaultNames /\ cleaned \subseteq AccessibleCells
    OBVIOUS
  <2> QED BY <2>1, <2>2, <2>3, <2>4, <2>5, <2>6 DEF TypeOK
<1>2. TypeOK /\ [Next]_vars => TypeOK'
  <2> SUFFICES ASSUME TypeOK, [Next]_vars PROVE TypeOK'
    OBVIOUS
  <2>1. CASE Command
    BY <2>1, CommandType
  <2>2. CASE InjectFault \/ ClearFaults
    BY <2>2, BoundAssumption
       DEF InjectFault, ClearFaults, TypeOK, pose, sensors, tanks, actuators,
           flags, progress, floor
  <2>3. CASE Tick
    BY <2>3, TickType
  <2>4. CASE UNCHANGED vars
    BY <2>4 DEF vars, TypeOK
  <2> QED BY <2>1, <2>2, <2>3, <2>4 DEF Next
<1> QED BY <1>1, <1>2, PTL DEF Spec

-----------------------------------------------------------------------------
(* The reported mode *)

\* A tick that leaves the head of _update_physics is in one of two modes, and
\* drives home in one of them.
LEMMA ModeNowIsAutonomous ==
    ASSUME TypeOK, ModeTellsSteering, Driving
    PROVE  /\ ModeNow \in {"CLEANING", "RETURNING"}
           /\ ModeNow = "RETURNING" => HomeBound
BY DEF TypeOK, ModeTellsSteering, Modes, DockModes, Driving, Held, ModeNow,
       AtDock, AutoReturn, HomeBound

\* An autonomous tick that reports ModeNow, and RETURNING only when it is home
\* bound, reports the truth.
LEMMA AutonomousTickTells ==
    ASSUME TypeOK, ModeTellsSteering, Driving, mode' = ModeNow,
           returning_home' = HomeBound, UNCHANGED <<stopped, manual_mode>>
    PROVE  ModeTellsSteering'
BY ModeNowIsAutonomous
   DEF TypeOK, ModeTellsSteering, Driving, DockModes

LEMMA CommandModeTells ==
    ASSUME TypeOK, ModeTellsSteering, Command PROVE ModeTellsSteering'
<1> USE DEF ModeTellsSteering, DockModes, AtHome
<1>1. CASE Start
  BY <1>1 DEF Start, LeaveManual
<1>2. CASE Pause
  BY <1>2 DEF Pause, pose
<1>3. CASE Resume
  BY <1>3 DEF Resume, pose
<1>4. CASE Stop
  BY <1>4 DEF Stop
<1>5. CASE ReturnHome
  BY <1>5 DEF ReturnHome, LeaveManual
<1>6. CASE SwitchBrush \/ SwitchPump
  BY <1>6 DEF SwitchBrush, SwitchPump, flags, pose
<1>7. CASE ManualMode
  BY <1>7 DEF ManualMode
<1>8. CASE AutoMode
  BY <1>8 DEF AutoMode, LeaveManual
<1>9. CASE ManualMove
  BY <1>9 DEF ManualMove, ManualBlocked, ManualStep, flags, pose
<1> QED
  BY <1>1, <1>2, <1>3, <1>4, <1>5, <1>6, <1>7, <1>8, <1>9 DEF Command

LEMMA TickModeTells ==
    ASSUME TypeOK, ModeTellsSteering, Tick PROVE ModeTellsSteering'
<1>1. CASE TickHeld \/ TickManual
  BY <1>1 DEF TickHeld, TickManual, ModeTellsSteering, AtHome, pose, flags
<1>2. CASE TickService
  BY <1>2 DEF TickService, ModeTellsSteering, Servicing, AtDock, AtHome, Held,
              DockModes, pose
<1>3. CASE TickObstacleFault
  BY <1>3, AutonomousTickTells DEF TickObstacleFault
<1>4. CASE TickArriveHome
  BY <1>4 DEF TickArriveHome, ModeTellsSteering, DockModes
<1>5. CASE TickDriveHome
  BY <1>5 DEF TickDriveHome, ModeTellsSteering, DockModes, FreeToDrive, Driving
<1>6. ASSUME Cleaning, mode' = ModeNow,
             UNCHANGED <<stopped, returning_home, manual_mode>>
      PROVE  ModeTellsSteering'
  BY <1>6, AutonomousTickTells DEF Cleaning, FreeToDrive, HomeBound, AutoReturn, TypeOK
<1>7. CASE TickNewCycle
  BY <1>6, <1>7 DEF TickNewCycle
<1>8. CASE TickSkipWaypoint
  BY <1>6, <1>8 DEF TickSkipWaypoint, OnCourse
<1>9. CASE TickCleanCell \/ TickDriveToWaypoint
  BY <1>6, <1>9 DEF TickCleanCell, TickDriveToWaypoint, Advance, OnCourse
<1> QED
  BY <1>1, <1>2, <1>3, <1>4, <1>5, <1>7, <1>8, <1>9 DEF Tick

\* The reported mode tells who is steering: after every command and every tick,
\* in whatever order they come, no autonomous mode is reported by a robot in
\* the manual branch and no dock mode away from the dock.
THEOREM ModeCorrect == Spec => []ModeTellsSteering
<1>1. Init => ModeTellsSteering
  BY DEF Init, ModeTellsSteering, DockModes
<1>2. TypeOK /\ ModeTellsSteering /\ [Next]_vars => ModeTellsSteering'
  <2> SUFFICES ASSUME TypeOK, ModeTellsSteering, [Next]_vars
               PROVE  ModeTellsSteering'
    OBVIOUS
  <2>1. CASE Command
    BY <2>1, CommandModeTells
  <2>2. CASE InjectFault \/ ClearFaults
    BY <2>2 DEF InjectFault, ClearFaults, ModeTellsSteering, AtHome, pose, flags
  <2>3. CASE Tick
    BY <2>3, TickModeTells
  <2>4. CASE UNCHANGED vars
    BY <2>4 DEF vars, ModeTellsSteering, AtHome, pose
  <2> QED BY <2>1, <2>2, <2>3, <2>4 DEF Next
<1> QED BY <1>1, <1>2, TypeCorrect, PTL DEF Spec

-----------------------------------------------------------------------------
(* The dirt map *)

\* CleanCell keeps the dirt the complement of what is cleaned.
LEMMA CleanCellDirt ==
    ASSUME DirtMatchesCleaned, NEW cell, CleanCell(cell)
    PROVE  DirtMatchesCleaned'
BY DEF DirtMatchesCleaned, CleanCell, AccessibleCells

\* The dirt map and the cleaned cells agree after any mixture of autonomous
\* cleaning, cleaning by hand and new cycles.
THEOREM DirtCorrect == Spec => []DirtMatchesCleaned
<1>1. Init => DirtMatchesCleaned
  BY DEF Init, DirtMatchesCleaned
<1>2. DirtMatchesCleaned /\ [Next]_vars => DirtMatchesCleaned'
  <2> SUFFICES ASSUME DirtMatchesCleaned, [Next]_vars PROVE DirtMatchesCleaned'
    OBVIOUS
  <2>1. ASSUME UNCHANGED floor PROVE DirtMatchesCleaned'
    BY <2>1 DEF floor, DirtMatchesCleaned, AccessibleCells
  <2>2. CASE Command
    <3>1. CASE ManualMove
      BY <3>1, <2>1, CleanCellDirt DEF ManualMove, ManualBlocked, ManualStep
    <3>2. CASE ~ManualMove
      BY <2>2, <3>2, <2>1
         DEF Command, Start, Pause, Resume, Stop, ReturnHome, SwitchBrush,
             SwitchPump, ManualMode, AutoMode
    <3> QED BY <3>1, <3>2
  <2>3. CASE InjectFault \/ ClearFaults
    BY <2>3, <2>1 DEF InjectFault, ClearFaults
  <2>4. CASE Tick
    <3>1. CASE TickCleanCell
      BY <3>1, <2>1, CleanCellDirt DEF TickCleanCell, floor
    <3>2. CASE TickNewCycle
      BY <3>2 DEF TickNewCycle, DirtMatchesCleaned, AccessibleCells
    <3>3. CASE ~TickCleanCell /\ ~TickNewCycle
      BY <2>4, <3>3, <2>1
         DEF Tick, TickHeld, TickManual, TickService, TickObstacleFault,
             TickArriveHome, TickDriveHome, TickSkipWaypoint, TickDriveToWaypoint
    <3> QED BY <3>1, <3>2, <3>3
  <2>5. CASE UNCHANGED vars
    BY <2>5, <2>1 DEF vars, floor
  <2> QED BY <2>2, <2>3, <2>4, <2>5 DEF Next
<1> QED BY <1>1, <1>2, PTL DEF Spec

-----------------------------------------------------------------------------
(* Steps *)

\* The steps that move the robot.
LEMMA MovingSteps ==
    ASSUME [Next]_vars, pose' # pose
    PROVE  ManualMove \/ TickDriveHome \/ TickDriveToWaypoint
<1> USE DEF pose
<1>1. CASE Command
  BY <1>1 DEF Command, Start, Pause, Resume, Stop, ReturnHome, SwitchBrush,
              SwitchPump, ManualMode, AutoMode
<1>2. CASE InjectFault \/ ClearFaults
  BY <1>2 DEF InjectFault, ClearFaults
<1>3. CASE Tick
  BY <1>3 DEF Tick, TickHeld, TickManual, TickService, TickObstacleFault,
              TickArriveHome, TickNewCycle, TickSkipWaypoint, TickCleanCell
<1>4. CASE UNCHANGED vars
  BY <1>4 DEF vars
<1> QED BY <1>1, <1>2, <1>3, <1>4 DEF Next

\* A step toward the dock from another cell shortens the way to it.
LEMMA TowardHomeIsCloser ==
    ASSUME NEW r \in Nat \ {0}, NEW c \in Nat \ {0}, <<r, c>> # HOME
    PROVE  Manhattan(Toward(<<r, c>>, HOME), HOME) < Manhattan(<<r, c>>, HOME)
BY DEF Manhattan, Magnitude, Toward, Sign, HOME

\* A robot with a low tank that is in autonomous motion has decided to go home.
LEMMA LowRobotIsHomeBound ==
    ASSUME TypeOK, ModeTellsSteering, Driving, LowBattery \/ LowWater
    PROVE  HomeBound
<1>1. LowBattery => NeedsCharge
  BY TankAssumption DEF LowBattery, NeedsCharge, TypeOK
<1>2. LowWater => NeedsWater
  BY TankAssumption DEF LowWater, NeedsWater, TypeOK
<1>3. mode \in {"CLEANING", "RETURNING"}
  BY <1>1, <1>2 DEF TypeOK, Modes, ModeTellsSteering, Driving, Held, Servicing,
                    AtDock, DockModes
<1> QED BY <1>3 DEF HomeBound, AutoReturn, ModeTellsSteering

\* Whatever sent it where it is, an autonomous robot with a low tank only drives
\* toward the dock.
THEOREM LowRobotCorrect == Spec => LowRobotOnlyDrivesHome
<1>1. TypeOK /\ ModeTellsSteering /\ [Next]_vars => [LowRobotDrivesHome]_vars
  <2> SUFFICES ASSUME TypeOK, ModeTellsSteering, [Next]_vars, ~manual_mode,
                      LowBattery \/ LowWater, pose' # pose
               PROVE  Manhattan(pose', HOME) < Manhattan(pose, HOME)
    BY DEF LowRobotDrivesHome
  <2>1. ~ManualMove
    BY DEF ManualMove, ManualBlocked, ManualStep
  <2>2. ~TickDriveToWaypoint
    BY LowRobotIsHomeBound
       DEF TickDriveToWaypoint, Advance, OnCourse, Cleaning, FreeToDrive
  <2>3. TickDriveHome
    BY <2>1, <2>2, MovingSteps
  <2>4. pose' = Toward(pose, HOME) /\ pose # HOME
    BY <2>3 DEF TickDriveHome, AtHome, pose, Toward
  <2>5. row \in Nat \ {0} /\ col \in Nat \ {0}
    BY GridAssumption DEF TypeOK
  <2> QED BY <2>4, <2>5, TowardHomeIsCloser DEF pose
<1> QED BY <1>1, TypeCorrect, ModeCorrect, PTL DEF Spec, LowRobotOnlyDrivesHome

\* Under manual control only an operator's move changes the cell, and the move
\* is a king's step over accessible cells.
THEOREM ManualCorrect == Spec => ManualKeepsClear
<1>1. TypeOK /\ [Next]_vars => [ManualMoveIsClear]_vars
  <2> SUFFICES ASSUME TypeOK, [Next]_vars, manual_mode, pose' # pose
               PROVE  ManualMoveIsClear
    BY DEF ManualMoveIsClear
  <2>1. ~TickDriveHome /\ ~TickDriveToWaypoint
    BY DEF TickDriveHome, TickDriveToWaypoint, Advance, OnCourse, Cleaning,
           FreeToDrive, Driving
  <2>2. PICK move \in Commands \cap MoveNames : ManualStep(move)
    BY <2>1, MovingSteps DEF ManualMove, ManualBlocked
  <2> DEFINE d == MANUAL_MOVES[move]
  <2>3. d[1] \in -1 .. 1 /\ d[2] \in -1 .. 1
    BY DEF MoveNames, MANUAL_MOVES
  <2>4. ~MoveBlocked(d) /\ row' = row + d[1] /\ col' = col + d[2] /\ speed_mps' = 2
    BY <2>2 DEF ManualStep
  <2>5. row \in Int /\ col \in Int
    BY GridAssumption DEF TypeOK
  <2> HIDE DEF d
  <2>6. {row, row'} \X {col, col'} \subseteq AccessibleCells \cup {pose}
    BY <2>3, <2>4, <2>5 DEF MoveBlocked, IsAccessible, pose
  <2>7. Magnitude(row' - row) <= 1 /\ Magnitude(col' - col) <= 1
    BY <2>3, <2>4, <2>5 DEF Magnitude
  <2> QED BY <2>4, <2>6, <2>7 DEF ManualMoveIsClear
<1> QED BY <1>1, TypeCorrect, PTL DEF Spec, ManualKeepsClear

\* A desk is stepped onto only by a robot on its way home.
THEOREM DesksCorrect == Spec => DesksCrossedOnlyGoingHome
<1>1. [Next]_vars => [DeskIsOnTheWayHome]_vars
  <2> SUFFICES ASSUME [Next]_vars, pose' # pose, pose' \notin AccessibleCells
               PROVE  HomeBound /\ ~manual_mode
    BY DEF DeskIsOnTheWayHome
  <2>1. CASE ManualMove
    BY <2>1 DEF ManualMove, ManualBlocked, ManualStep, MoveBlocked, IsAccessible, pose
  <2>2. CASE TickDriveToWaypoint
    BY <2>2 DEF TickDriveToWaypoint, Advance, ScanObstacle, IsAccessible, pose
  <2>3. CASE TickDriveHome
    BY <2>3 DEF TickDriveHome, FreeToDrive, Driving
  <2> QED BY <2>1, <2>2, <2>3, MovingSteps
<1> QED BY <1>1, PTL DEF Spec, DesksCrossedOnlyGoingHome

\* The steps that leave manual mode go through _leave_manual and stand still.
LEMMA HandbackSteps ==
    ASSUME [Next]_vars, manual_mode, ~manual_mode'
    PROVE  LeaveManual /\ UNCHANGED <<pose, floor>>
<1>1. CASE Command
  BY <1>1 DEF Command, Start, Pause, Resume, Stop, ReturnHome, SwitchBrush,
              SwitchPump, ManualMode, AutoMode, ManualMove, ManualBlocked,
              ManualStep, flags
<1>2. CASE InjectFault \/ ClearFaults
  BY <1>2 DEF InjectFault, ClearFaults, flags
<1>3. CASE Tick
  BY <1>3 DEF Tick, TickHeld, TickManual, TickService, TickObstacleFault,
              TickArriveHome, TickDriveHome, TickNewCycle, TickSkipWaypoint,
              TickCleanCell, TickDriveToWaypoint, Advance, flags
<1>4. CASE UNCHANGED vars
  BY <1>4 DEF vars
<1> QED BY <1>1, <1>2, <1>3, <1>4 DEF Next

\* Distances between cells of the room are whole numbers.
LEMMA DistanceType ==
    ASSUME TypeOK, NEW i \in Waypoints
    PROVE  Manhattan(Path[i + 1], pose) \in Int
<1>1. Path[i + 1] \in AccessibleCells
  BY PathAssumption DEF Waypoints
<1>2. Path[i + 1][1] \in Int /\ Path[i + 1][2] \in Int
  BY <1>1, InsideCoordinates
<1>3. row \in Int /\ col \in Int
  BY DEF TypeOK
<1> QED BY <1>2, <1>3 DEF Manhattan, Magnitude, pose

\* However control is handed back, the robot heads for the nearest cell that
\* still needs cleaning.
THEOREM HandbackCorrect == Spec => HandbackTakesNearestWork
<1>1. TypeOK /\ [Next]_vars => [HandbackIsNearest]_vars
  <2> SUFFICES ASSUME TypeOK, [Next]_vars, manual_mode, ~manual_mode'
               PROVE  HandbackIsNearest
    BY DEF HandbackIsNearest
  <2> DEFINE togo == {i \in Waypoints : Path[i + 1] \notin cleaned}
  <2>1. path_index' \in NearestPathIndex(pose)
    BY HandbackSteps DEF LeaveManual
  <2>2. cleaned' = cleaned /\ pose' = pose
    BY HandbackSteps DEF floor
  <2>3. ASSUME togo # {}
        PROVE  /\ path_index' \in togo
               /\ \A i \in togo : Manhattan(Path[path_index' + 1], pose)
                                    <= Manhattan(Path[i + 1], pose)
    <3>1. PreferredWaypoints = togo
      BY <2>3 DEF PreferredWaypoints
    <3>2. path_index' \in togo
      BY <2>1, <3>1 DEF NearestPathIndex
    <3>3. \A i \in togo :
            \/ Manhattan(Path[path_index' + 1], pose) < Manhattan(Path[i + 1], pose)
            \/ Manhattan(Path[path_index' + 1], pose) = Manhattan(Path[i + 1], pose)
      BY <2>1, <3>1 DEF NearestPathIndex
    <3> QED BY <3>2, <3>3, DistanceType
  <2> QED BY <2>2, <2>3 DEF HandbackIsNearest
<1> QED BY <1>1, TypeCorrect, PTL DEF Spec, HandbackTakesNearestWork

\* Nothing but START, MANUAL_MODE or an operator at the controls gets a stopped
\* robot to move.
THEOREM StopCorrect == Spec => StoppedStaysPut
<1>1. [Next]_vars => [StopIsKept]_vars
  <2> SUFFICES ASSUME [Next]_vars, stopped, ~manual_mode PROVE StopIsKept
    BY DEF StopIsKept
  <2>1. pose' = pose
    BY MovingSteps
       DEF ManualMove, ManualBlocked, ManualStep, TickDriveHome,
           TickDriveToWaypoint, Advance, OnCourse, Cleaning, FreeToDrive,
           Driving, Held
  <2>2. stopped' \/ mode' \in {"CLEANING", "MANUAL"}
    <3>1. CASE Command
      BY <3>1 DEF Command, Start, Pause, Resume, Stop, ReturnHome, SwitchBrush,
                  SwitchPump, ManualMode, AutoMode, ManualMove, ManualBlocked,
                  ManualStep, flags
    <3>2. CASE InjectFault \/ ClearFaults
      BY <3>2 DEF InjectFault, ClearFaults, flags
    <3>3. CASE Tick
      BY <3>3 DEF Tick, TickHeld, TickManual, TickService, TickObstacleFault,
                  TickArriveHome, TickDriveHome, TickNewCycle, TickSkipWaypoint,
                  TickCleanCell, TickDriveToWaypoint, Advance, flags
    <3>4. CASE UNCHANGED vars
      BY <3>4 DEF vars
    <3> QED BY <3>1, <3>2, <3>3, <3>4 DEF Next
  <2> QED BY <2>1, <2>2 DEF StopIsKept
<1> QED BY <1>1, PTL DEF Spec, StoppedStaysPut

-----------------------------------------------------------------------------
(* Coverage *)

\* What makes a finished cycle a clean floor: nobody drove by hand, and every
\* waypoint the index has passed is clean.
PassedIsClean ==
    /\ manual_mode = FALSE
    /\ \A i \in 1 .. path_index : Path[i] \in cleaned

\* In a room without desks the way to a waypoint is never blocked.
LEMMA NothingInTheWay ==
    ASSUME TypeOK, Desks = {}, path_index < Len(Path)
    PROVE  ScanObstacle = 200
<1>1. /\ Toward(pose, Target)[1] \in 1 .. GRID_ROWS - 2
      /\ Toward(pose, Target)[2] \in 1 .. GRID_COLS - 2
  BY TargetIsAccessible, TowardStaysInside
<1> QED BY <1>1 DEF ScanObstacle, IsAccessible, AccessibleCells, Inside

\* One step of a robot nobody may drive by hand, in a room without desks.
LEMMA PassedIsCleanStep ==
    ASSUME Desks = {}, "MANUAL_MODE" \notin Commands,
           TypeOK, PassedIsClean, [Next]_vars
    PROVE  PassedIsClean'
<1> USE DEF PassedIsClean
<1>1. ASSUME manual_mode' = FALSE, UNCHANGED <<path_index, cleaned>>
      PROVE  PassedIsClean'
  BY <1>1
<1>2. CASE Command
  BY <1>1, <1>2
     DEF Command, Start, Pause, Resume, Stop, ReturnHome, SwitchBrush,
         SwitchPump, ManualMode, AutoMode, ManualMove, ManualBlocked,
         ManualStep, LeaveManual, flags, progress, floor
<1>3. CASE InjectFault \/ ClearFaults
  BY <1>1, <1>3 DEF InjectFault, ClearFaults, flags, progress, floor
<1>4. CASE TickNewCycle
  BY <1>4 DEF TickNewCycle
<1>5. CASE TickSkipWaypoint
  BY <1>5, NothingInTheWay DEF TickSkipWaypoint, OnCourse
<1>6. CASE TickCleanCell
  <2>1. path_index \in Nat /\ pose = Path[path_index + 1] /\ manual_mode' = FALSE
    BY <1>6, PathAssumption DEF TickCleanCell, Advance, Target, TypeOK
  <2>2. CASE path_index' = path_index + 1 /\ CleanCell(pose)
    BY <2>1, <2>2 DEF CleanCell
  <2>3. CASE UNCHANGED <<path_index, floor>>
    BY <1>1, <2>1, <2>3 DEF floor
  <2> QED BY <1>6, <2>2, <2>3 DEF TickCleanCell
<1>7. CASE Tick /\ ~TickNewCycle /\ ~TickSkipWaypoint /\ ~TickCleanCell
  BY <1>1, <1>7
     DEF Tick, TickHeld, TickManual, TickService, TickObstacleFault,
         TickArriveHome, TickDriveHome, TickDriveToWaypoint, Advance, flags,
         progress, floor
<1>8. CASE UNCHANGED vars
  BY <1>1, <1>8 DEF vars
<1> QED BY <1>2, <1>3, <1>4, <1>5, <1>6, <1>7, <1>8 DEF Next

\* A path through every cell of a room without desks leaves no cell dirty at
\* the end of a cycle, however often the robot was held, stopped, sent home or
\* served at the dock on the way.
THEOREM CoverageCorrect ==
    ASSUME Desks = {}, "MANUAL_MODE" \notin Commands,
           \A cell \in AccessibleCells : \E i \in 1 .. Len(Path) : Path[i] = cell
    PROVE  Spec => []CycleCoversRoom
<1>1. Init => PassedIsClean
  BY DEF Init, PassedIsClean
<1>2. TypeOK /\ PassedIsClean /\ [Next]_vars => PassedIsClean'
  BY PassedIsCleanStep
<1>3. TypeOK /\ PassedIsClean => CycleCoversRoom
  <2> SUFFICES ASSUME TypeOK, PassedIsClean, path_index = Len(Path)
               PROVE  cleaned = AccessibleCells
    BY DEF CycleCoversRoom
  <2>1. \A i \in 1 .. Len(Path) : Path[i] \in cleaned
    BY DEF PassedIsClean
  <2>2. AccessibleCells \subseteq cleaned
    BY <2>1
  <2> QED BY <2>2 DEF TypeOK
<1> QED BY <1>1, <1>2, <1>3, TypeCorrect, PTL DEF Spec
=============================================================================
