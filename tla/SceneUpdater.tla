---------------------------- MODULE SceneUpdater ----------------------------
(***************************************************************************)
(* The Omniverse scene (omniverse/create_scene.py) and the loop that keeps  *)
(* it up to date (omniverse/live_update.py).  Once a second the loop reads  *)
(* the latest telemetry and state from InfluxDB and moves and colours the   *)
(* robot; tiles of the floor light up where the robot has been.             *)
(*                                                                          *)
(* Everything runs on the event loop of the 3D application: a tick is one   *)
(* step, and the operator's calls (start, stop, create the scene) fall      *)
(* between the ticks.  The robot's position is the tile it is over.  The    *)
(* trail of dots, the battery bar, headings and what create_scene builds    *)
(* and nobody changes are left out.                                         *)
(***************************************************************************)
EXTENDS Naturals, FiniteSets

CONSTANTS
    Tiles, HOME,    \* the floor, and the tile a cleaning loop starts from
    LoopTiles,      \* tiles visited before a return home counts as a new loop
    MaxCalls,       \* bound: calls of the operator
    MaxFailures     \* bound: ticks that fail

ASSUME SceneAssumption ==
    HOME \in Tiles /\ LoopTiles \in Nat /\ MaxCalls \in Nat /\ MaxFailures \in Nat

SafetyStates == {"SAFE", "WARNING", "EMERGENCY"}
Colours == [SAFE |-> "green", WARNING |-> "orange", EMERGENCY |-> "red"]

VARIABLES
    position, safety,   \* what a query of the last 15 s finds: at most one each
    scene,              \* has create_scene been run
    lit,                \* the tiles in the colour of a cleaned floor
    body, light, cube,  \* the robot's colours; is the obstacle cube shown
    task,               \* _task and how far it is
    running,            \* _running
    visited, flash,     \* the updater's _visited and _flash
    seen,               \* (history) the tiles the robot was seen on since the
                        \* floor was last built or dirtied
    calls, failures     \* bounds

database == <<position, safety>>
stage    == <<scene, lit, body, light, cube>>
updater  == <<visited, flash>>
vars == <<database, stage, task, running, updater, seen, calls, failures>>

Init ==
    /\ position = {} /\ safety = {}
    /\ scene = FALSE /\ lit = {} /\ body = "none" /\ light = "none" /\ cube = FALSE
    /\ task = "none" /\ running = FALSE /\ visited = {} /\ flash = FALSE
    /\ seen = {} /\ calls = 0 /\ failures = 0

-----------------------------------------------------------------------------
(* The pipeline that fills InfluxDB *)

NewTelemetry ==
    /\ \E tile \in Tiles : position' = {tile}
    /\ UNCHANGED <<safety, stage, task, running, updater, seen, calls, failures>>

NewState ==
    /\ \E s \in SafetyStates : safety' = {s}
    /\ UNCHANGED <<position, stage, task, running, updater, seen, calls, failures>>

\* A measurement has had no point for 15 seconds.
Silence ==
    /\ position' \in {position, {}} /\ safety' \in {safety, {}}
    /\ UNCHANGED <<stage, task, running, updater, seen, calls, failures>>

-----------------------------------------------------------------------------
(* One tick *)

\* _apply_pose: the tile under the robot is lit unless the updater remembers it.
Lit == lit \cup (position \ visited)
Visited == visited \cup position

\* (slip) Returning home forgets the tiles but leaves their colour.
FloorAfterForgetting(newLoop) ==
    /\ visited' = IF newLoop THEN {} ELSE Visited
    /\ lit' = Lit
    /\ seen' = IF newLoop THEN {} ELSE seen \cup position

\* A new cleaning loop dirties the whole floor, the home tile included.
FloorAfter(newLoop) ==
    /\ visited' = IF newLoop THEN {} ELSE Visited
    /\ lit' = IF newLoop THEN {} ELSE Lit
    /\ seen' = IF newLoop THEN {} ELSE seen \cup position

\* Without a scene or a position the floor and the memory are left alone.
ApplyPose ==
    IF scene /\ position # {}
    THEN FloorAfter(HOME \in position /\ Cardinality(Visited) > LoopTiles)
    ELSE UNCHANGED <<lit, visited, seen>>

\* A state that is missing reads as SAFE.
ShownState == IF safety = {} THEN "SAFE" ELSE CHOOSE s \in safety : TRUE

\* _apply_safety: while in EMERGENCY the light alternates.
ApplySafety ==
    /\ flash' = (ShownState = "EMERGENCY" /\ ~flash)
    /\ IF scene
       THEN /\ body' = Colours[ShownState]
            /\ light' = IF flash' THEN "dark red" ELSE Colours[ShownState]
       ELSE UNCHANGED <<body, light>>

\* (slip) The cube is there whenever something is near.
ApplyCubeUnlessSafe == cube' = IF scene THEN ShownState # "SAFE" ELSE cube

\* _apply_obstacle_indicator
ApplyCube == cube' = IF scene THEN ShownState = "EMERGENCY" ELSE cube

\* (slip) Without telemetry there is nothing to draw.
NoDataWithoutTelemetry == position = {}

NoData == position = {} /\ safety = {}

\* A tick that finds no data changes nothing.
TickDraw ==
    /\ task = "looping" /\ running /\ ~NoData
    /\ ApplyPose /\ ApplySafety /\ ApplyCube
    /\ UNCHANGED <<database, scene, task, running, calls, failures>>

\* A tick that fails reconnects to InfluxDB and leaves the scene as it is.
TickFail ==
    /\ task = "looping" /\ running
    /\ failures < MaxFailures /\ failures' = failures + 1
    /\ UNCHANGED <<database, stage, task, running, updater, seen, calls>>

\* The loop looks at _running when it wakes up.
LoopEnd ==
    /\ task = "looping" /\ ~running
    /\ task' = "done"
    /\ UNCHANGED <<database, stage, running, updater, seen, calls, failures>>

\* The event loop runs the task for the first time.
LoopStart ==
    /\ task = "created"
    /\ task' = "looping" /\ running' = TRUE
    /\ UNCHANGED <<database, stage, updater, seen, calls, failures>>

-----------------------------------------------------------------------------
(* The operator's calls *)

Call == calls < MaxCalls /\ calls' = calls + 1

\* A second loop is refused for as long as the first has not ended.
StartLiveUpdate ==
    /\ Call
    /\ IF task \in {"none", "done"}
       THEN task' = "created" /\ visited' = {} /\ flash' = FALSE
       ELSE UNCHANGED <<task, visited, flash>>
    /\ UNCHANGED <<database, stage, running, seen, failures>>

StopLiveUpdate ==
    /\ Call
    /\ running' = FALSE
    /\ UNCHANGED <<database, stage, task, updater, seen, failures>>

\* The scene is built, or built again over the one there is.
CreateScene ==
    /\ Call
    /\ scene' = TRUE /\ lit' = {} /\ seen' = {}
    /\ body' = "green" /\ light' = "green" /\ cube' = FALSE
    /\ UNCHANGED <<database, task, running, updater, failures>>

-----------------------------------------------------------------------------

Tick == TickDraw \/ TickFail
Loop == LoopStart \/ Tick \/ LoopEnd

Next ==
    \/ NewTelemetry \/ NewState \/ Silence
    \/ Loop
    \/ StartLiveUpdate \/ StopLiveUpdate \/ CreateScene

\* The event loop runs its tasks.
Spec == Init /\ [][Next]_vars /\ WF_vars(LoopStart \/ TickDraw \/ LoopEnd)

-----------------------------------------------------------------------------
(* Properties *)

\* The loop, its memory and the scene keep their types.
TypeOK ==
    /\ position \subseteq Tiles /\ Cardinality(position) <= 1
    /\ safety \subseteq SafetyStates /\ Cardinality(safety) <= 1
    /\ scene \in BOOLEAN /\ lit \subseteq Tiles /\ cube \in BOOLEAN
    /\ body \in {"none", "green", "orange", "red"}
    /\ light \in {"none", "green", "orange", "red", "dark red"}
    /\ task \in {"none", "created", "looping", "done"} /\ running \in BOOLEAN
    /\ visited \subseteq Tiles /\ flash \in BOOLEAN /\ seen \subseteq Tiles
    /\ calls \in 0 .. MaxCalls /\ failures \in 0 .. MaxFailures

\* A tile shows as cleaned only where the robot has been seen since the floor
\* was built or dirtied, across restarts of the loop and of the scene.
LitWasSeen == lit \subseteq seen

\* The cube in front of the robot and the red body tell the same, whatever
\* order scene, loop and data came in; the light may be dark only then.
SignsAgree ==
    /\ cube <=> body = "red"
    /\ light = "dark red" => body = "red"

\* A loop that goes on shows the robot's state: if the state stays EMERGENCY,
\* the body turns red for good, and if it stays SAFE, green; telemetry may be
\* missing, ticks may fail, and the scene may have been built in between.  A loop
\* that was told to stop ends, unless it was told before its first step.
SceneFollows ==
    /\ \A s \in SafetyStates :
        <>[](scene /\ safety = {s} /\ task = "looping" /\ running) => <>[](body = Colours[s])
    /\ (task = "looping" /\ ~running) ~> task = "done"
=============================================================================
