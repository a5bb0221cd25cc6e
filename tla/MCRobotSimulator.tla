-------------------------- MODULE MCRobotSimulator --------------------------
(* Small rooms, operators and fault menus for model-checking RobotSimulator. *)
EXTENDS RobotSimulator

\* The lawnmower path visits every accessible cell of the room once, whatever
\* the desks (lawnmower_path).
ASSUME PathVisitsEveryCellOnce ==
    /\ {Path[i] : i \in 1 .. Len(Path)} = AccessibleCells
    /\ Len(Path) = Cardinality(AccessibleCells)

R == INSTANCE SceneRoom

\* The room that is drawn is the room the robot works in (create_scene.py,
\* grid_map.py, live_update.py).
ASSUME RoomIsTheRobots ==
    R!DesksStandWhereTheyBlock /\ R!WallsAreClear /\ R!TilesAreUnderTheRobot

NoDesks == {}

\* In a room two cells deep and four wide, a desk in the row of the dock: the
\* path has waypoints to give up, manual driving has corners to cut and the way
\* home has a desk on it.
DeskInTheRow == {<<1, 3>>}

NoFaults == {}
ServiceFaults == {"battery", "water", "obstacle"}

DrivingCommands ==
    {"START", "PAUSE", "RESUME", "STOP", "RETURN_HOME", "MANUAL_MODE",
     "AUTO_MODE", "BRUSH_ON", "BRUSH_OFF"} \cup MoveNames

ServiceCommands == {"START", "PAUSE", "RESUME", "STOP", "RETURN_HOME",
                    "AUTO_MODE", "PUMP_ON", "PUMP_OFF"}

StopAndReturn == {"STOP", "RETURN_HOME"}

NoDrain == {0}
Drain   == {0, 1}
=============================================================================
