# Verification of SmartClean Twin

SmartClean Twin is a digital twin of a cleaning robot: a simulated robot on a 10x10 grid, services that
observe it, judge it, predict it and command it, an operator's page and a 3D scene. They talk over MQTT
(Mosquitto) and HTTP and store points in InfluxDB. The modules in this directory model its core logic in
TLA+, check small instances with TLC and prove what matters most, for every instance, with TLAPS.

`PROJECT.json` is the index: which definition models which lines, which run checks which property,
which slip of the code each property catches, which hazards are known.

## 1. Inventory of the system

| Part | State it keeps | Operations | Talks to | Module |
|---|---|---|---|---|
| Robot simulator (`services/robot-simulator`) | `RobotPhysicsState` (pose, sensors, tanks, actuators, mode and control flags, path index), cleaned set, dirt map | 19 commands, fault injection, a physics tick per second, telemetry | commands in, acknowledgements and raw telemetry out (MQTT); `/fault`, `/health` (HTTP) | `RobotSimulator`, `GridMap` |
| Command API (`services/command-api`) | `_pending_acks`, `_ack_results`, `_command_history` | `POST /commands` blocks for the acknowledgement (5 s), `_on_ack` callback | HTTP in; commands out, acknowledgements in; InfluxDB | `CommandApi`, `RemoteCommand` |
| Telemetry ingestion (`services/telemetry-ingestion`) | counters | validate, forward, record, quarantine | raw in, validated out; InfluxDB | `TwinPipeline` |
| State engine (`services/state-engine`) | last message time, sequence | `rules.evaluate` per message, publish and record state and alarms | validated in, state and alerts out; InfluxDB | `TwinPipeline`, `TwinState`, `TwinMirror` |
| AI service (`services/ai-service`) | two trend histories, five models | load models, classify, forecast, recommend; `/whatif` | validated and state in, predictions out; InfluxDB | `AiForecast`, `HealthModels`, `ModelTraining` |
| Web control server (`services/web-control/main.py`) | none | state queries, commands, macros | HTTP to Command API and simulator; InfluxDB | `OperatorConsole` |
| Web console (`static/app.js`) | the manual flag, hold timers | poll, pad, mode buttons, keys, macros | HTTP to its server | `OperatorConsole`, `HoldPad` |
| Omniverse (`omniverse/`) | visited tiles, flash, the loop's task | create the scene, start and stop the loop, tick; the fault demonstration | InfluxDB, USD stage, `/fault` | `SceneUpdater`, `SceneRoom`, `LiveDemo` |
| Start and connections (every `_start_mqtt`, `docker-compose.yml`) | attempts, session | connect, give up, reconnect, restart | broker, Docker | `ServiceStartup` |
| Model training (`train_model.py`, the image) | files of five models | invent data, train, compare with targets, exit; build, deploy, load | Docker | `ModelTraining`, `HealthModels`, `AiForecast` (labels) |
| InfluxDB as all of them use it | the types fields have got | write a point, query | every service, script and notebook | `InfluxRecords` |
| Scripts (`scripts/`) | lists of points, temporary files | make the dashboard, invent data, export notebooks; smoke and persistence tests | InfluxDB, browser, services | `DashboardSetup`, `DemoData`, `NotebookExport` |
| Notebooks (`*.ipynb`) | none between runs | inject faults and look, query, show | `/fault`, Command API, InfluxDB | `LiveDemo`, `InfluxRecords` |
| Shared models and clients | none | - | - | value sets in `TwinState`, `AiForecast` |

How they interact: the operator's page asks its server, which asks the Command API, which publishes a
command and waits for the robot's acknowledgement. The robot publishes telemetry; ingestion validates it,
forwards it and records it; the State Engine and the AI service both hear the validated message, and the
AI service hears the State Engine's state, too. The page and the scene read none of this from MQTT: they
query InfluxDB for the latest points, of each measurement by itself.

What is hard in it:

- **Three threads, one state.** Commands (MQTT thread), faults (HTTP thread) and physics (main loop)
  change the robot's state under one lock. What can go wrong is not a torn write but a *sequence*: a
  flag one handler forgets and another depends on (`stopped`, `paused`, `manual_mode`,
  `returning_home`, `mode`), a path index that is stale after manual driving, a tank that runs low at
  the wrong moment.
- **Threads without a lock.** The Command API shares three dictionaries between one callback thread
  and a worker per request; timeouts race late acknowledgements.
- **Delivery.** QoS 1 with a clean session: a reconnection sends again what was sent already and loses
  what was queued; replicas of the ingestion service share one client id and put each other out;
  commands reach the robot through overlapping subscriptions and may come twice or not at all.
- **Crashes and failed writes** between the steps of a callback; attempts to connect that are counted
  per process.
- **Overlapping answers.** The page polls without waiting for the poll before, while commands it sent
  are in flight.
- **Timers with one variable for several fingers.**
- **Time.** Silence is judged only when the next message arrives; the window of a trend ends with its
  last point.
- **Numbers.** Thresholds written down in four places, features and ranges in two, two tanks, skipped
  waypoints, a forecast of exactly zero minutes.
- **Things agreed on nowhere.** Field types, measurement names, the geometry of the room and how long to
  wait before looking are each stated by several programs on their own.
- **Scripts that stop half-way**, beside themselves or beside the running system.

What makes each part correct:

- *Robot*: the reported mode tells who steers; a low robot drives home and nowhere else, is served, and
  works again; manual driving hits nothing; a stop is kept; handing control back continues the work; an
  obstacle that has gone is forgotten; the floor gets clean again and again; dirt map and cleaned set
  agree.
- *Command API*: one answer per request; a verdict only if the robot gave it on that command; what is
  reported as received is recorded, unless the database refuses it; nobody waits for ever.
- *Pipeline*: the twin shows the rules' judgement of a reading the robot published; a judged reading is
  recorded and its alarms precede its state; the twin goes back in time only by a message sent again;
  every reading is judged or was lost with a session.
- *AI service*: it agrees with the State Engine; motor trouble and an empty battery are never advised away;
  old trends fade.
- *Console*: what it says of a mode change or a refusal is a verdict of the robot on that command, also when the
  command arrives twice; a macro reported complete ran in its order;
  the pad comes to agree with the robot; a button repeats while it is held.
- *Scene*: lit tiles were seen, the signs of an emergency agree, the scene follows the state, a stopped
  loop ends.
- *Start*: an outage never leaves a connected process deaf, and the consumers come back.
- *Models*: what predicts was trained by the code that runs, met its targets, and meets in service the
  features and ranges it was trained on.
- *Records*: no writer's point is refused, and queries find what they ask for, but for those the property names.
- *Demonstrations and scripts*: what is shown was injected, unless the pipeline stood still; what is left behind is
  labelled by the rules, current, and written to its end.

The hazards list of `PROJECT.json` has each of these at its line with the properties that would catch it.

## 2. Modules

| Module | Models | Theorems in |
|---|---|---|
| `GridMap` | `grid_map.py`: layout, accessibility, lawnmower path, and the small geometry the navigation code writes in place | - |
| `RobotSimulator` | `simulator.py`, `robot_state.py`: every command, fault and path through the tick | `RobotSimulatorProofs` |
| `RemoteCommand` | abstract specification of the command path, as the operator sees it | - |
| `CommandApi` | `command-api/main.py`: workers and callback, statement by statement; implements `RemoteCommand` | `CommandApiProofs` |
| `TwinState` | the schemas (`models.py`) and `rules.evaluate` as an operator over every field it reads | - |
| `TwinMirror` | abstract specification of the pipeline, without queues | - |
| `TwinPipeline` | publishing loop, broker sessions, `telemetry-ingestion/main.py`, `state-engine/main.py`; implements `TwinMirror` | `TwinPipelineProofs` |
| `AiForecast` | `ai-service/main.py`, `predictor.py`, the labels and statistics of `train_model.py` | `AiServiceProofs` |
| `OperatorConsole` | `web-control/main.py` and `static/app.js`: polls, commands, macros | `OperatorConsoleProofs` |
| `HoldPad` | `static/app.js`: press-and-hold timers of the pad, keys | `HoldPadProofs` |
| `SceneUpdater` | `omniverse/live_update.py`, what `create_scene.py` builds that the loop changes | `SceneUpdaterProofs` |
| `ServiceStartup` | `_start_mqtt` and `main` of the services, restart policy | `OperationsProofs` |
| `SceneRoom` | geometry of `create_scene.py` beside `grid_map.py` and `live_update.py` | - |
| `ModelTraining` | `train_model.py`'s calls, gates and exit, the image, `load_models` | `OperationsProofs` |
| `HealthModels` | the readings the motor model produces, `_hw4_features`, `generate_hw4_dataset`, the anomaly detector | `AiServiceProofs` |
| `LiveDemo` | `fault_demo.py` and the cells of three notebooks that inject faults | `OperationsProofs` |
| `InfluxRecords` | the points of all services and of the demo script, the queries of dashboards, console, scene and notebooks | `OperationsProofs` |
| `DashboardSetup` | `scripts/make_influx_dashboard.py` | `OperationsProofs` |
| `DemoData` | `scripts/generate_demo_data.py` | `OperationsProofs` |
| `NotebookExport` | the three `scripts/notebooks_to_*.py` | `OperationsProofs` |
| `AiService` | `AiForecast` and `HealthModels` as the two parts of one specification | `AiServiceProofs` |
| `Operations` | `ServiceStartup`, `ModelTraining`, `LiveDemo`, `InfluxRecords`, `DashboardSetup`, `DemoData` and `NotebookExport` as the jobs of one specification | `OperationsProofs` |
| `MC...` | rooms, readings, requests for TLC; assumptions that the interesting cases happen | - |

Operators marked `(slip)` are not part of the model: each is a plausible slip of the code next to it,
and is there to show that a property notices it (the mutants of `PROJECT.json`).

### 2.1 RobotSimulator

Each of `_apply_command`, `inject_fault` and `_update_physics` holds the state lock from its first
read to its last write, so each is one atomic step, and the threads interleave between steps.

*Variables* have the names of the fields of `RobotPhysicsState`. `faults` is the set of `inject_*`
flags; `cleaned` is `self._cleaned`; `dirt` is the set of cells where `self._dirt_map` is above zero.

*Commands*: one action each (`Start`, `Pause`, `Resume`, `Stop`, `ReturnHome`, `SwitchBrush`,
`SwitchPump`, `ManualMode`, `AutoMode`, `ManualMove`). A move is `ManualStep` or `ManualBlocked`;
outside manual mode a move changes nothing, so it has no action. `LeaveManual` and
`NearestPathIndex` are `_leave_manual` and `_nearest_path_index`.

*The tick* has one action per path through `_update_physics`: `TickHeld`, `TickManual`,
`TickService` (charging or refilling), `TickObstacleFault`, `TickArriveHome`, `TickDriveHome`,
`TickNewCycle`, `TickSkipWaypoint`, `TickCleanCell`, `TickDriveToWaypoint`. What the code computes on
the way (auto-return, leaving the dock, injected faults) is in the state functions `HomeBound`,
`ModeNow`, `BrushNow`, `MotorNow`, `BatteryNow`, and is written by every action that gets that far.

*Numbers.* A battery unit is what one tick at the dock charges (1/6 %), so the code's 20 %, 80 % and
100 % are 120, 480 and 600 units and an injected drop is 30. A water unit is what one tick refills
(5/12 %): 15 %, 90 % and 100 % are 36, 216 and 240 and an injected drop is 12. Tanks are rounded down
to units; because thresholds, charging and drops are whole units, comparisons are exact. Ordinary use
takes less than a unit per tick, so whether a tick crosses a unit is a choice from `DRAIN_UNITS`.
Speed is in tenths. `ticks_in_cell` stops at `TICKS_TO_CLEAN`, beyond which only `>=` is asked of it.

*Left out*, because no control depends on it: heading, volts and amperes of the battery, motor
temperature, the dirt score of the message (the map itself is modelled), mission id, and
`bumper_active`, which no code sets because no range below 5 cm is ever produced.

### 2.2 CommandApi and RemoteCommand

`issue_command` runs in a worker thread per request, `_on_ack` in the MQTT thread; they share
dictionaries without a lock. Every statement that touches shared state is an action: `Register`,
`Publish`, `Record`, `Wake` or `TimeOut`, `Collect`, `Drop`, `Close` for a worker (`pc[r]` is its next
statement) and `Receive`, `StoreResult`, `SignalWaiter`, `WriteAck` for the callback. A dictionary
entry that may be absent is a set with at most one member. The acknowledgement dictionary is one
Python object: the worker stores `latency_ms` in the object the callback is about to write, which is
what `timed` records. `WriteAck` writes the point, or the database refuses it, which the callback logs and forgets
(`unwritten`). `TimeOut` follows `threading.Event.wait`: the wait returns False if the event was
not set in time, although it may be set before the worker's next statement.

Broker and robot are external. `Publish` chooses how many deliveries there will be, 0 (lost) up to
`Deliveries[r]` (the simulator subscribes to `command/#` and to the two topics under it); `Obey`
accepts or refuses each delivery and its acknowledgement arrives at any later time or never. Messages
on their way are sets, so they may overtake each other.

`RemoteCommand` says it without threads: requests are asked, obeyed and answered once; a response may
carry a verdict only if the robot gave it on that request, must carry one if it says an acknowledgement
was received, and every request is answered. `KeepsPromise` is that specification under the mapping
`asked <- {r : pc[r] # "idle"}`. Two behaviours it deliberately allows, because the code has them and
no document forbids them: an answer that says *timeout* and still carries a verdict (the result was
stored between the timeout and the read), and a robot that obeys after the answer.

Not modelled there: connection retries (no shared state), failed writes of the command's own point (caught, logged, no
state), the refusals of unknown robots and commands (no state), and the 503 branch (`_mqtt_client` is
always set by the time requests are served). Redelivery after a reconnect does not occur: the client
uses a clean session, so the broker drops it instead, which is a lost acknowledgement.

### 2.3 TwinState, TwinPipeline and TwinMirror

`TwinState` has one operator per state variable of `rules.evaluate` (`SafetyState`, `BatteryState`, ...,
`TwinQuality`), over a reading with the fields the rules read; `Evaluate` puts them together. Readings are
integers at the scale of the thresholds (tenths of ampere, centimetres, percent), so comparisons are exact.
The age of the previous message is `heard` and `gap`, in seconds.

`TwinPipeline` composes the robot's publishing loop, ingestion, the State Engine and the broker between them.
A callback runs on its client's network thread, one message after the other; each *write* a callback makes is
a step, since readers of InfluxDB come between: `ForwardValid`, `WriteTelemetry` for ingestion, `Judge`,
`WriteAlarm`, `WriteState` for the engine. A write may fail (`unwritten`), a message may be neither JSON nor
valid (`Intrude`, `RejectInvalid`). The broker is modelled as what `paho-mqtt` and Mosquitto do with QoS 1 and
clean sessions: an outbox per publisher, emptied by acknowledgements and sent again after `Reconnect`; a queue
per subscription, dropped when the session goes. `RestartPublisher` and `RestartEngine` are restarts of the
containers: outbox, half-made writes and the engine's `_last_msg_time` are gone. All replicas have the client
id `telemetry-ingestion` (main.py:142), so `holder` is the one the broker talks to.

`TwinMirror` says it without queues: the robot takes readings; the twin shows the judgement, at some age, of one
of them; every reading is settled in the end, judged or lost. `MirrorsTheRobot` is that specification under
`shown <- the state of the last message`, `settled <- judged \cup lost`.

### 2.4 AiForecast

Callbacks come one after the other on one thread, so each handler is one step: `OnTelemetry`, `OnState`. The
histories hold points `(now, value)`; `HasTrend`, `Rise` and `Span` are `_trend_per_minute`, and a forecast is
abstracted to zero, below the warning level (`soon`) or `later`, compared without division. Whether models were
loaded is chosen at the start; what trained classifiers answer is any of `TrainedVerdicts`, while the anomaly
detector is computed from the means and deviations `train_model.py` learns. `LabelMotorHealth` is what the
classifier is taught. A forecast of 0.0 is falsy in Python and published as none (`Rounded`), while the advice
is made from the number itself: `EmptyBatteryIsTold` depends on just that. Confidences, scores and the
remaining life are left out, nothing depends on them.

### 2.5 OperatorConsole and HoldPad

`OperatorConsole` has polls under way (a set of identities, each answered with the mode of the latest state or
with nothing), the pad's flag `manualOn`, the requests sent, and one macro. Robot, Command API and pipeline are
as the console meets them: `Execute` may come after the answer, and up to `Deliveries` times, each time with a verdict of
its own, because the simulator's three subscriptions overlap and it does not look at the id of a command
(simulator.py:78-93); the answer holds whichever acknowledgement came last. `Answer` may be an acknowledgement, a timeout, an
error status or no connection at all, other operators steer as well (`Elsewhere`). `PollRender` is `poll` and
`render`, of which only the pad's synchronisation (app.js:47-53) is control.

`HoldPad` has the browser's timers by id and the two variables the page has for them. `Press` overwrites
`holdTimer` without clearing it, `StopHold` clears what the variables say, `DelayFires` leaves the old id in
`holdTimer`. Ids are never given twice, so `Fresh` avoids those the page may still name.

### 2.6 SceneUpdater

Everything runs on the event loop of the 3D application, so a tick is one step (`TickDraw`) and the operator's
calls fall between ticks. The position is the tile; `seen` is history. `_running`, `_task` and `_visited` are
the code's.

### 2.7 ServiceStartup

A service is trying, connected, reconnecting (the library's business), given up or exited. Consumers run
`loop_forever` in the main thread and end with it, the simulator runs in a thread beside its HTTP server and
the Command API connects before it serves: giving up means three different things. Attempts are counted per
process and are also spent by exceptions in callbacks. Docker restarts what has exited.

### 2.8 ModelTraining and HealthModels

`ModelTraining` follows a commit: `StartBuild`, the three training calls of `train_model.py`'s main part
(`TrainAndSave`, `TrainAndSaveHw4`, `TrainAndSaveAnomaly`), `FinishBuild` with the script's exit status, `Up` or
`Restart`, `LoadModels`. A commit's quality is the set of its measures that are on target, any of `Qualities`; training
is deterministic (`SEED`), so the quality belongs to the commit. A file holds the commit that wrote it. A build may be
cut off after any call, and the loads may break off after any file, which leaves `_loaded` false.

`HealthModels` is the simulator's motor model (`UpdateConsumables`, over the branches of `_update_physics` that do and
do not reach it) beside the two copies of the features, `Hw4Features` in `predictor.py` and `Hw4DatasetRow` in
`train_model.py`, the ranges the data sets are drawn from, the labels, and the anomaly detector. Numbers are integers in
the smallest unit the formulas need; temperatures are hundredths of a degree, rounded to either side. Which branch a
tick takes is left open, which only adds readings.

### 2.9 LiveDemo

A demonstration is a sequence of `Post`, `Sleep` and `Show` steps: the notebook cells and `_demo_sequence` are constants
of the module. Around it the robot measures once a second (`Tick`), a reading is stored up to `LAG` seconds later
together with what is concluded from it, the pipeline may `Stall`, somebody else may `Change` what the robot does, and
a request may be answered, refused or time out. A reading is two facts: whether the distance is the injected one and
whether the current is. A pipeline that stands still loses what is on its way (a service that restarts, a session that is
cut) or keeps it: QoS 1 sends again after an outage, messages wait behind a write that blocks, and either way readings go
on being measured and queued. When it flows again they are stored at once, with the time of writing (ingestion
main.py:85), so that the newest record may be older than the request. `steady` and `smooth` are history: since the last
answered request the robot has worked on, and the pipeline has flowed. `ShownIsInjected` says that a smooth pipeline
shows no reading from before the request, and that a reading from after it shows the fault if the robot was steady.

### 2.10 InfluxRecords

A writer's point is the set of its columns with types, a query the columns it needs, the types it can use and whether it
reads by name or by position. `Write` is InfluxDB's rule: the first type of a field stays, and a point that
contradicts it is refused, which the services only log. `Served` says that a query finds what it asks for. The queries
are those of the InfluxDB dashboard, the Grafana dashboard (`grafana/dashboards/smartclean_twin.json`), the console, the
scene and the four notebooks that query; the counts of two test scripts and the examples in `docs/` are left out. Two kinds
of them fail, and `ReadersServed` says exactly when: the counts of one notebook always, and Grafana's panels of
`minutes_to_empty` and `minutes_to_finish` until the AI service has had such a forecast to write.

### 2.11 DashboardSetup, DemoData, NotebookExport

Each request, file or subprocess of a script is a step, and each may fail where the script does not or does look.
`DashboardSetup` has several runs of the script, after or beside each other; `DemoData` checks the script's labels
against the rules of `TwinState` for every second stored; `NotebookExport` has the three converters beside each other
while notebooks are edited, with files as the version of the notebook they were made from and what, if anything, cut them
short. Two of the scripts look only whether a file exists (notebooks_to_html.py:83, notebooks_to_pdf.py:100 and :124), so
one that nbconvert or the browser has not finished is taken and reported OK, here as there.

### 2.12 SceneRoom

A module of definitions: desks, walls and tiles as `create_scene.py` places them, cells and poses as the robot has them,
and `_apply_pose`'s tile of a position. `MCRobotSimulator` assumes, and TLC evaluates on every run, that the three agree
(`RoomIsTheRobots`).

### 2.13 AiService and Operations

Components that share no state are composed so that a behaviour is about one of them: `part` (`job`) is chosen
initially and never changes, the steps are those of the chosen component, and the variables of the others stay as they
are. A property of the whole is the component's property under the condition that it is chosen. `OperationsFairness` is
the fairness of the two jobs with liveness, `ServiceStartup` and `LiveDemo`.

## 3. Runs

| Run | Instance | Shows |
|---|---|---|
| `robot_control` | 2x4 cells inside the wall, a desk in the row of the dock, all driving commands, no faults, tanks constant (570 000 states) | every order of commands and ticks: `ModeTellsSteering`, `DirtMatchesCleaned`, `ManualKeepsClear`, `DesksCrossedOnlyGoingHome`, `HandbackTakesNearestWork`, `StoppedStaysPut` |
| `robot_service` | 2x2 cells, tanks of 4 units with thresholds 1 and 3, battery, water and obstacle faults, all commands but manual driving and the brush (399 000 states) | `LowRobotOnlyDrivesHome`, `CycleCoversRoom`, and the liveness `LowTankIsServed` (with the end of the drive home and of the stay at the dock), `ObstacleIsForgotten`, `FloorIsCleanedAgain` |
| `command_api` | two concurrent requests, one delivered up to twice, any write of an acknowledgement refused (382 000 states) | `KeepsPromise` (refinement, liveness included), `ReceivedIsRecorded` |
| `twin_pipeline` | two readings, one with two alarms, an invalid message, a reconnection, restart or failed write anywhere (628 000 states) | `JudgedIsRecorded`, `AlarmsComeFirst`, `BackOnlyByResending`, `MirrorsTheRobot` (refinement, liveness included) |
| `ai_service` | histories of 3 points, windows of 2 s, readings on both sides of every threshold, with and without models; or every reading of the motor model at four levels of battery and tank (1 232 000 states) | `JudgesAgree`, `MotorTroubleIsTold`, `EmptyBatteryIsTold`, `ForecastFades`; `TrainedOnWhatIsReported`, `FlagsOverload`, `WorseIsNoHealthier` |
| `operator_console` | two overlapping polls, two requests delivered up to twice, a macro, a surprise (1 572 000 states) | `ReportsAreTrue`, `MacroInOrder`, `PadSettles` |
| `scene_updater` | three tiles, five calls of the operator, a failing tick (59 000 states) | `LitWasSeen`, `SignsAgree`, and the liveness `SceneFollows` (with the end of a stopped loop) |
| `operations` | one of seven jobs per behaviour (1 028 609 states). *Start*: a consumer, the simulator and the Command API, three attempts, two outages, two exceptions or kills. *Training*: three commits, three starts. *Dashboard*: three runs, two other dashboards, an answer of four. *Demo data*: all 900 s, in batches of 70. *Demonstration*: all four, 2 s of lag, a stall with a backlog of one, a change of what the robot does. *Records*: every writer in every order. *Export*: two notebooks, three scripts, an edit, two runs | `OutagesAreSurvived` and the liveness `ConsumersComeBack`; `ServesWhatPassed`; `OneAfterAnother`; `StatesRestOnTelemetry`; `ShownIsInjected` and the liveness `TwinRecovers`; `ReadersServed`; `ExportsAreCurrent`; the types of the jobs' variables |
| `robot_return_after_stop` | violation | RETURN_HOME after STOP reports RETURNING for ever (`simulator.py:121-123` says it does not) |
| `hold_two_fingers` | violation | with two fingers on the pad a timer outlives its finger, and the page goes on sending moves (`app.js:289-290` says it repeats while the button stays held) |
| `twin_silence` | violation | a twin that hears nothing goes on saying SYNCHRONIZED (`full-walkthrough.md:345-347` says it marks itself) |
| `console_pretends` | violation | a move that timed out is reported as made and acknowledged (`full-walkthrough.md:592-595`: "It never pretends") |

**Why the bounds are enough.** The desk of `robot_control` lies where all three ways of driving meet
it: the path must skip waypoints behind it, manual moves can cut its corners and the way home crosses
it; two rows give both directions of the lawnmower, four columns a waypoint behind the desk. In
`robot_service` a tank has a level below, at and above each threshold, an injected drop empties it from
above, and the battery can run out on the way home; in 2x2 cells every cell but the dock is away from
it and diagonal moves occur. `TICKS_TO_CLEAN` is 1 or 2 (the code has 3). `SEQUENCE_WRAP = 1` keeps
the telemetry counter out of the state, which no property of the robot reads. In `command_api` two
requests are enough for one to time out, wake or be answered at every step of the other, and two
deliveries for an acknowledgement to arrive after, or over, another of the same request. Two readings
and one fault are what it takes to put a reading that is sent again behind a younger one. In
`ai_service` the histories are longer than a trend needs and shorter than the run, so points fall out of
both the history and the window. Two polls can overtake each other; two requests make a whole macro, or a
command in flight under a mode change; two deliveries let a move be made and refused, and the first command of a macro
come again after the second; one surprise is another operator, a failed poll or a minute without a state. The script's
batches of 100 divide its 900 seconds, so batches of 70 are what exercises its last, smaller one. A stall longer than
every pause with one reading that waits is what it takes to show an old one; the proof is for any backlog. Three tiles leave the robot one to be seen on besides the two of a
loop. Three attempts and two exceptions let a consumer spend attempts before and after an outage. Three commits
put a good one, a bad one and another between a container and the image it came from; three runs of the dashboard
script are one that dies, one that follows and one beside it; two exports are one that dies, leaving its temporary
folder, and one after it, or two beside each other. The readings of `HealthModels` are not bounded at all: the motor
model settles, and the state space is all there is. The proofs below lift every invariant, and every action property, to all
values of the bounds (`CycleCoversRoom` where neither desks nor manual driving interfere, as in its run).

Since a behaviour of `operations` is about one job, and one of `ai_service` about one part, the sum of the components'
state spaces is checked, not the product. The types of the other modules, whose `TypeOK` is proved as well, are not
checked again by a run.

A larger instance of `twin_pipeline`, with two replicas and two faults, was run outside the list to 1.8
million states: the safety properties hold. `Settling` does not hold there, because a replica that is put
out and never connects again keeps what it has not sent.

`CHECK_DEADLOCK FALSE` is given where the model really stops: each request is issued once (Command API),
the readings, messages and seconds are bounded (pipeline, AI service), and the broker's
outages, the scripts and the demonstrations end (operations).

**Fairness.** Of the robot, weak fairness of `Tick` alone: `run` loops until the process ends, whatever
happens, and every tick takes one of the paths. Nothing is assumed of the operator or of faults, so
every liveness property names the ways an operator can prevent it: holding the robot, or keeping an
obstacle in front of it. `FloorIsCleanedAgain` is stated for a robot that is left
alone in the end, whatever was done to it before (`BRUSH_OFF` is not among the commands of its run). With an
operator who goes on it is false of the code, and no document says otherwise: START sent again and again at
the dock cuts each service short, RETURN_HOME and START in turn keep the robot near the dock, and BRUSH_OFF
stops the path for good. Of the Command API, weak fairness of each worker and of the callback thread, since the operating
system schedules threads that can run, and a wait has a timeout; nothing of robot or broker. Of the pipeline,
the network threads and callbacks; nothing of the robot, of acknowledgements, of reconnections or the clock.
Of the console, the polls (`setInterval`) and the State Engine's writes; nothing of answers to commands or of
operators. Of the scene, the event loop runs its task; of the services, their attempts, the library's
reconnection and Docker's restart; nothing of the broker. Of `LiveDemo`, that seconds pass, the pipeline delivers and
starts again after a stall, and the script's requests come to one of their ends (they have timeouts); strong fairness
of `Advance`, because a robot that works does not skip waypoints for ever: the path is finite and its waypoints are
not all blocked.

## 4. Proofs

All theorems hold for every value of the constants under the assumptions of the modules (`GridAssumption`,
`PathAssumption`, `TankAssumption`, `BoundAssumption`, `DeliveriesAssumption`, `AgeAssumption`,
`PipelineAssumption`, `ForecastAssumption`, `DetectorAssumption`, `ConsoleAssumption`, `SceneAssumption`,
`StartupAssumption`, `LevelsAssumption`, `TrainingAssumption`, `DashboardAssumption`, `DemoAssumption`,
`LagAssumption`, `NotebookAssumption`), which say what the code's constants satisfy: thresholds are ordered, the path
runs over accessible cells, the dock is not a desk, a trend needs two points, the overload the simulator injects lies
beyond what the anomaly detector has learned, a script names each notebook once, a reading reaches the database within
the two seconds the demonstrations leave it. `DemoAssumption` bounds the invented history by 1000 seconds (the script
has 900): in a longer one the invented motor gets hotter than the labels of the script allow for. TLC evaluates the
assumptions on the instances.

`RobotSimulatorProofs`:

- `TypeCorrect`: `TypeOK` is inductive. The one argument that is not a case split is that a king's step
  towards a cell inside the wall stays inside the wall, which is what keeps the blind drive home in the
  room although it may cross desks.
- `ModeCorrect`: `ModeTellsSteering` is inductive once it speaks of all four flags together; its last
  conjunct (`returning_home` excludes MANUAL and the dock modes) is the strengthening that makes the
  others hold through `TickService` and `LeaveManual`.
- `DirtCorrect`: `DirtMatchesCleaned` is inductive given the types, over the three places that clean.
- `CoverageCorrect`: without desks and without MANUAL_MODE, for any path through every cell,
  `CycleCoversRoom`. The invariant behind it: every waypoint below `path_index` is in a cleaned cell. It
  needs both hypotheses: a desk makes the robot skip a waypoint, manual driving makes the index jump.
- `LowRobotCorrect`, `ManualCorrect`, `DesksCorrect`, `HandbackCorrect`, `StopCorrect`: the action
  properties, each from the types and, for the first, the mode invariant (a robot that reports
  RETURNING really is on its way home). `LowRobotCorrect` needs that a king's step towards the dock
  lowers the Manhattan distance to it.

`CommandApiProofs`:

- `TypeCorrect`.
- `RecordedCorrect`: `ReceivedIsRecorded`, from the invariant that a set event has its point in the
  database, in the hands of the callback, or among those the database refused (`SignalledIsRecorded`).
- `PromiseKept`: `Spec => Remote!Safety`. The inductive invariant `RefinementInv` has four parts beside
  the types: every copy of an acknowledgement comes from the robot and sits under its key
  (`Provenance`), an event is set over a stored result and the result is read after waking
  (`StoredBeforeSignalled`), a delivery under way was published and not yet obeyed (`DeliveredOnce`), and
  a response exists only at the end (`AnsweredLast`). `Register` maps to `Ask`, `Obey` to `Obey`, `Close` to
  `Answer`, and every other step to a stutter.

`TwinPipelineProofs`, for any number of replicas, readings and faults:

- `TypeCorrect`, with `Busy`: alarms are due only of a message in hand.
- `RecordedCorrect`: `RecordedInv` adds to `JudgedIsRecorded` every reading that is on its way from ingestion to the
  engine (in an outbox of a replica, or queued as validated): each is recorded, being recorded, or its write failed.
  `RecordedForGood` says that what is once recorded stays so, over every step.
- `AlarmsCorrect`: `AlarmsInHand` says of the message the engine is busy with what `AlarmsComeFirst` says of the
  last one: an alarm is due, written, or its write failed.
- `OrderCorrect`: `BackOnlyByResending`. The invariant `OrderInv` follows the readings upstream: in every queue and
  outbox the messages that are not sent again are in order and not older than anything ahead of them, up to the twin
  (`OrderedQueue`, `OrderedBox`). One lemma per way of joining and leaving a queue.
- `PipelineMirrors`: `Spec => Mirror!Safety`; `Judge` maps to `Show`, a lost session or a restart to `Lose`, the rest to
  `Take` or a stutter.

`AiServiceProofs`:

- of `AiForecast`: `TypeCorrect`; `AdvisedCorrect`, whose invariant says that what is published was advised from a
  verdict `Predict` may give on that reading and from the battery's history *as it still is*; from it `JudgesCorrect`,
  `MotorTroubleTold`, `LabelsCorrect`, and, over `Window`, `EmptyBatteryTold` (a falling window is a trend) and
  `ForecastsFade` (a window that does not fall gives no forecast). `ServiceForecasts`: `ServiceSpec => Spec`, so that
  all of this holds of the composition.
- of `HealthModels`: `SensorsCorrect`, the readings the motor model can produce. `SensorsInv` gives the currents, one by
  one, and the temperatures as an interval that a tick of warming or cooling does not leave at these currents; TLC's
  reachable readings lie within it. From it `TrainedCorrect` (the two copies of the features agree, and what is reported
  lies in the ranges trained on), `FlagsCorrect` (deviations of those currents beside what is learned as normal) and
  `MonotoneCorrect` (a lower battery or tank raises the risk, which decides the label, and leaves less life).

`OperatorConsoleProofs`, for any number of deliveries of a command: `TypeCorrect` and `ReportsCorrect`, from `ConsoleInv`.
An answer holds a verdict the robot gave on that request, and two different verdicts take two deliveries (`RequestsInv`,
`Sound`); what the box says stays true of its request, whatever is executed, answered or sent later, because verdicts are
added and never taken back (`BoxInv`, `Later`). `MacroCorrect` (`MacroInOrder`), from `MacroInv`: a command of a macro
with a verdict was taken (`Taken`); a macro's commands are the listed ones, and each is sent when the one before it was
answered (`InTurn`); so one whose answer holds a verdict was taken before any that follows it (`Ordered`), and "all
accepted" is said of a whole macro whose answers all hold one (`Reported`). That an answer holds a verdict is what
matters: a command that timed out without one may still be taken after the next, and any may be taken again.

`HoldPadProofs`: `OnePointerRepeatsWhileHeld`. With one pointer every timer that runs is the one the page remembers and
belongs to the button that is down (`HoldInv`). The hypothesis is needed: `hold_two_fingers` has two.

`SceneUpdaterProofs`: `TypeCorrect`, `LitCorrect` (for every floor; `visited` may be anything), `SignsCorrect`.

`OperationsProofs` has one invariant per job. `Starts` and `Apart` carry each from the job's own steps to
`OperationsSpec`, where a job either takes its step or stays as it is:

- `TypesCorrect`: the types of the jobs' variables, each from the job's invariant (`TypeCorrect` for `ServiceStartup` by
  itself).
- `StartupCorrect` (`OutagesCorrect` for `ServiceStartup` by itself), from `MetInv`: who has been connected tries again
  only as a consumer, whose giving up ends the process.
- `TrainingCorrect`: `TrainingInv` follows a commit through the pipeline. A build has results and files of its own
  commit only, the files of the steps it has finished; an image, and a container, exists only of a commit that passed,
  with all its models; a process that says it has loaded has what is in its container.
- `DashboardCorrect`: `OneAfterAnother` speaks of the end of a run; `Untroubled` adds what a run has found and not yet
  deleted, and that nothing of the name is left when it creates its own.
- `DemoCorrect`: `DemoInv` orders the three measurements and says where the batch is between two requests. The property
  is about the labels of every stored second, and the lemma
  `Labels` compares the script's labels with `TwinState`'s rules for every second, by arithmetic and not by cases.
- `LiveCorrect`: `LiveInv` says how old a reading can be that is on its way or stored, while the script sleeps and the
  pipeline has flowed since its request (`Aging`), and what a reading taken since the last request says of the faults
  (`Measured`). A window shorter than the sleep by the pipeline's two seconds therefore holds no older reading. After a
  stall only the second part holds, and the property claims no more.
- `RecordsCorrect`: the invariant gives every column name one type, whatever the measurement, and says which columns a
  writer that has written is sure to have left. That no point is refused, and that queries find what they ask for, is
  proved reader by reader, and so is that the two kinds the property names are not served.
- `ExportsCorrect`: a version in a folder, a file or a notebook is not older than the run that made it (`Recent`); `OK`
  is only said of what the run has passed (`Underway`), and a file with the run's name on it is of that run (`Kept`). What
  is proved of the output is that the script has written it to its end, and for webpdf that it is whole; a file cut short
  by nbconvert or the browser is one the code accepts.

**Only model-checked**: everything about liveness (`LowTankIsServed`, `ObstacleIsForgotten`,
`FloorIsCleanedAgain`, `PadSettles`, `SceneFollows`, `ConsumersComeBack`, `TwinRecovers`, the liveness of
`KeepsPromise` and `MirrorsTheRobot`), which is beyond the prover; that `LawnmowerPath` visits every accessible cell
once, an assumption of `MCRobotSimulator` that TLC evaluates for each room it runs; `SceneRoom`, whose geometry is
evaluated for the rooms of the runs; and the violations.

## 5. What the code does that a reader should know

Beside the four findings, none of these contradicts a run, and most are notes of the hazards list:

- In the shipped room an undisturbed cycle ends with 38 of 59 cells cleaned (64 %): a waypoint behind a desk is
  skipped with all later ones in that row, and `docs/demo-script.md:290` asks for 90 %. After manual driving, cells
  whose waypoints lie before the resumed one are left for the next cycle.
- `latency_ms` of an acknowledgement point is 0.0 whenever the callback writes before the woken worker
  (`command-api/main.py:111` and `:242`), which one request is enough for. An acknowledgement after the timeout is
  not recorded at all.
- `obstacle_cm` keeps the injected value while the robot is held, docked or driven by hand, so the twin stays in
  EMERGENCY after the fault is cleared, although the page (`app.js:210`) and `fault_demo.py:81` promise SAFE in seconds.
- A move that reaches the robot twice can be made and then refused, and the second acknowledgement replaces the first
  (`command-api/main.py:110`): the page then says that a wall or a desk is in the way and that the robot did not move
  (`app.js:280-281`). A macro's command that comes again is obeyed again.
- A look at the newest record after a stall may show a reading from before the request: waiting messages are stored with
  the time of writing.
- An HTML or PDF file cut short by nbconvert or the browser is copied and reported OK by two of the export scripts.
- Two of Grafana's panels are empty until the first forecast.
- A simulator that cannot reach the broker at its start loses its thread, but the process and `/health` stay.
- A macro whose second command fails in transport drops the acknowledgements of the commands already executed.
- The forecast of the cleaning time stays as it was when no state message comes any more.
- An interval of the pad that the page has lost is not stopped by disarming the pad either: it waits for the pad to be
  armed again.

- `train_model.py:397-406` compares three measures with targets and prints three others, among them the accuracy of the
  motor and dirt classifiers, for which `docs/architecture.md:116` gives a target; `docs/full-walkthrough.md:826` says
  the job "fails if quality drops". An image can be built with a motor classifier below its target.
- Heat is per minute and cooling per tick (`simulator.py:421-425`): at 3.5 A the motor settles below 31 degrees, so
  OVERHEATED and the labels CRITICAL and FAULT are never met by the simulated robot (`docs/review-liang.md:307-308`
  expects a rise to 70). The injected overload has no effect under manual control.
- Until the first working tick the battery current is 0.5 A, outside what the anomaly detector has learned as normal.
- `fault_demo.py:80-81` drops the result of its second request and prints that the robot will be SAFE; a robot that is held
  keeps the injected distance, as the recorded output of `submission_1_visualization.ipynb:565` shows.
- `make_influx_dashboard.py:31` throws the answer to its DELETE away and prints "removed previous dashboard"; a refused
  deletion leaves two, although the docstring (lines 3-4) says that none are left.
- The predictions of `generate_demo_data.py:96` call floors dirty that `docs/architecture.md:113` labels moderate.
- `submission_3_data_streaming.ipynb:543` counts `robot_alert`, which nobody writes (the State Engine writes
  `robot_alarm`), and its counts (lines 403-415) read the seventh column of answers that have no time, where it is
  another: the recorded outputs are `None` and `battery_soc`.
- In the 3D scene a cell is a corner of its tile, not its centre: robot and desks stand at multiples of 0.5 m, tiles
  are centred between them. Robot, desk and tile still belong together (`SceneRoom`).

## 6. Not modelled, and why

- **Notebooks** beyond the cells that inject faults and the queries of the running stack: text, recorded outputs,
  figures, and cells that print files of the repository or repeat commands by hand.
- **What the models learn**: random forests and a regression are numeric library code; how good they get is left open.
- **Smoke and persistence tests**: requests from outside, one after the other, and a comparison of their answers.
- **Layout**: drawing the map, tiles, trail and battery bar, and the static part of the scene; the login, the phone's
  address, and the history, fault and what-if proxies of the web server, which pass on what they get and keep nothing.
- **The broker's and InfluxDB's configuration**: they appear as what they may do to a message or a point.

What could still be added, at the price of larger instances: the Command API composed with the robot's own verdicts
(which moves are refused, and where), and an abstract duty cycle of the robot (working, homing, serviced, held) that
`RobotSimulator` implements.
