---------------------------- MODULE InfluxRecords ----------------------------
(***************************************************************************)
(* What the services and the demo script write to the database, beside what *)
(* InfluxDB and Grafana dashboards, the console, the scene and the notebooks *)
(* ask of it.  Two checks that only count points (tests/system, scripts/     *)
(* persistence_test.py) and the examples of docs/ are left out.              *)
(*                                                                          *)
(* No schema is declared anywhere.  InfluxDB gives a field the type of its  *)
(* first value and refuses every later point with another; the services log *)
(* the refusal and go on.  A query is a string in some other program: a     *)
(* name nobody writes, or types that do not mix, give it an error or        *)
(* nothing.  Values and times are left out.                                 *)
(***************************************************************************)
VARIABLES
    schema,     \* the columns there are, with their types
    wrote,      \* writers that have written, and forecasts that were written
    refused     \* writers that have been refused

vars == <<schema, wrote, refused>>

Init == schema = {} /\ wrote = {} /\ refused = {}

\* A tag is a string and never conflicts with a field here.
Columns(m, type, names) == {[measurement |-> m, name |-> n, type |-> type] : n \in names}

Conflict(c, d) == c.measurement = d.measurement /\ c.name = d.name /\ c.type # d.type

\* writers: the service, with the fields it adds to this point only.
Write(writers, point) ==
    /\ wrote' = wrote \cup writers
    /\ IF \E c \in point, d \in schema : Conflict(c, d)
       THEN refused' = refused \cup writers /\ UNCHANGED schema
       ELSE schema' = schema \cup point /\ UNCHANGED refused

-----------------------------------------------------------------------------
(* The writers *)

Sensors == {"obstacle_cm", "battery_v", "battery_soc", "battery_a", "motor_current_a",
            "motor_temperature_c", "dirt_score", "water_level_pct"}
Pose == {"x_m", "y_m", "heading_deg", "speed_mps"}
Switches == {"bumper_active", "brush_on", "pump_on"}

Telemetry ==
    Columns("robot_telemetry", "float", Pose \cup Sensors)
    \cup Columns("robot_telemetry", "integer", Switches \cup {"sequence"})
    \cup Columns("robot_telemetry", "tag", {"robot_id"})

Invalid ==
    Columns("robot_telemetry_invalid", "integer", {"count"})
    \cup Columns("robot_telemetry_invalid", "string", {"raw_preview"})
    \cup Columns("robot_telemetry_invalid", "tag", {"reason"})

Judgements == {"safety_state", "battery_state", "mission_state", "motion_state",
               "operation_mode", "motor_health", "dirt_level", "connection_state",
               "twin_quality"}
State ==
    Columns("robot_state", "string", Judgements)
    \cup Columns("robot_state", "float", {"cleaning_coverage_pct"})
    \cup Columns("robot_state", "integer", {"alarm_count"})
    \cup Columns("robot_state", "tag", {"robot_id"})

Alarm ==
    Columns("robot_alarm", "string", {"description"})
    \cup Columns("robot_alarm", "float", {"value", "threshold"})
    \cup Columns("robot_alarm", "tag", {"robot_id", "alarm_type", "severity"})

Forecasts == {"minutes_to_empty", "minutes_to_finish"}

\* With the forecasts there are.
Prediction(forecasts) ==
    Columns("robot_prediction", "string",
            {"motor_health", "dirt_level", "health_state", "recommendation"})
    \cup Columns("robot_prediction", "float",
                 {"motor_health_confidence", "dirt_level_confidence",
                  "health_state_confidence", "predicted_rul_minutes", "anomaly_score"}
                 \cup forecasts)
    \cup Columns("robot_prediction", "integer", {"is_anomaly"})
    \cup Columns("robot_prediction", "tag", {"robot_id", "model"})

Command ==
    Columns("robot_command", "string", {"command_id", "status"})
    \cup Columns("robot_command", "tag", {"robot_id", "command"})

Acknowledgement ==
    Columns("robot_acknowledgement", "string", {"command_id"})
    \cup Columns("robot_acknowledgement", "float", {"latency_ms"})
    \cup Columns("robot_acknowledgement", "tag", {"robot_id", "command", "accepted"})

\* generate_demo_data.py: the same telemetry, and some of the others' fields.
DemoTelemetry ==
    Columns("robot_telemetry", "float", Pose \cup Sensors)
    \cup Columns("robot_telemetry", "integer", Switches \cup {"sequence"})
    \cup Columns("robot_telemetry", "tag", {"robot_id"})
DemoState ==
    Columns("robot_state", "string",
            {"safety_state", "battery_state", "motor_health", "mission_state"})
    \cup Columns("robot_state", "float", {"cleaning_coverage_pct"})
    \cup Columns("robot_state", "integer", {"alarm_count"})
    \cup Columns("robot_state", "tag", {"robot_id"})
DemoPrediction ==
    Columns("robot_prediction", "string", {"motor_health", "dirt_level"})
    \cup Columns("robot_prediction", "float",
                 {"motor_health_confidence", "dirt_level_confidence"})
    \cup Columns("robot_prediction", "tag", {"robot_id", "model"})

Next ==
    \/ Write({"telemetry-ingestion"}, Telemetry)
    \/ Write({"validation gate"}, Invalid)
    \/ Write({"state-engine"}, State)
    \/ Write({"alarms"}, Alarm)
    \/ \E forecasts \in SUBSET Forecasts : Write({"ai-service"} \cup forecasts, Prediction(forecasts))
    \/ Write({"commands"}, Command)
    \/ Write({"acknowledgements"}, Acknowledgement)
    \/ Write({"demo telemetry"}, DemoTelemetry)
    \/ Write({"demo states"}, DemoState)
    \/ Write({"demo predictions"}, DemoPrediction)

Spec == Init /\ [][Next]_vars

\* The service that is to write a measurement.
Writer ==
    [robot_telemetry |-> "telemetry-ingestion", robot_telemetry_invalid |-> "validation gate",
     robot_state |-> "state-engine", robot_alarm |-> "alarms", robot_alert |-> "alarms",
     robot_prediction |-> "ai-service", robot_command |-> "commands",
     robot_acknowledgement |-> "acknowledgements"]

-----------------------------------------------------------------------------
(* The queries.  names: columns it asks for, none: whatever is there.       *)
(* needs: "number", to calculate or to draw; "text", to compare with names; *)
(* "any", each field in a table of its own; "alike", all in one column;     *)
(* "cast", the same as strings.                                             *)
(* timed: the answer has a time.  reads: "name", or the position that a     *)
(* column has in an answer with a time.                                     *)

Query(ms, names, needs, timed, reads) ==
    [measurements |-> ms, names |-> names, needs |-> needs, timed |-> timed, reads |-> reads]

XyView(m, names) == Query({m}, names, "number", TRUE, "name")
SingleStat(m, name) == Query({m}, {name}, "number", TRUE, "name")
TableView(ms, names, needs) == Query(ms, names, needs, TRUE, "name")

\* (slip) Strings and numbers are put in one column as they are.
DashboardUncast ==
    {TableView({"robot_telemetry", "robot_state", "robot_prediction"}, {}, "alike"),
     TableView({"robot_state"}, {}, "alike")}

DashboardTables ==
    {TableView({"robot_telemetry", "robot_state", "robot_prediction"}, {}, "cast"),
     TableView({"robot_state"}, {}, "cast"),
     TableView({"robot_acknowledgement"}, {"command", "accepted"}, "any"),
     TableView({"robot_telemetry_invalid"}, {"reason"}, "cast")}

DashboardCells ==
    {XyView("robot_telemetry", {"x_m", "y_m"}), XyView("robot_telemetry", {"battery_soc"}),
     XyView("robot_telemetry", {"motor_temperature_c"}),
     XyView("robot_prediction", {"anomaly_score"}),
     Query({"robot_telemetry"}, {"battery_soc"}, "number", FALSE, "name"),
     SingleStat("robot_state", "cleaning_coverage_pct"),
     SingleStat("robot_prediction", "predicted_rul_minutes")}

\* Grafana's, one per panel and field; four turn names into numbers.
Panels(m, names, needs) == {TableView({m}, {n}, needs) : n \in names}

GrafanaPanels ==
    Panels("robot_state", {"safety_state", "mission_state"}, "text")
    \cup Panels("robot_prediction", {"motor_health", "dirt_level"}, "text")
    \cup Panels("robot_prediction", {"health_state", "is_anomaly", "recommendation"}, "any")
    \cup Panels("robot_prediction",
                {"predicted_rul_minutes", "anomaly_score"} \cup Forecasts, "number")
    \cup Panels("robot_state", {"cleaning_coverage_pct", "alarm_count"}, "number")
    \cup Panels("robot_telemetry", {"battery_soc", "battery_v", "obstacle_cm", "motor_current_a",
                                    "motor_temperature_c", "dirt_score"}, "number")
    \cup {XyView("robot_telemetry", {"x_m", "y_m"}),
          TableView({"robot_alarm"}, {"description"}, "any"), TableView({"robot_alarm"}, {}, "any")}

\* live_update.py: one row of all that is asked for.
SceneQueries ==
    {Query({"robot_telemetry"}, {"x_m", "y_m", "heading_deg", "battery_soc"}, "cast", TRUE, "name"),
     Query({"robot_state"}, {"safety_state", "mission_state", "cleaning_coverage_pct"},
           "cast", TRUE, "name")}

\* last() of a measurement, by position: the console and the show_last of four
\* notebooks.
LastOf(m, names) == Query({m}, names, "any", TRUE, "position")
ConsoleQueries == {LastOf(m, {}) : m \in {"robot_telemetry", "robot_state", "robot_prediction"}}
VisualizationCells == ConsoleQueries
ModelCells == {LastOf("robot_prediction", {})}
WalkthroughCells ==
    {LastOf("robot_telemetry", {}), LastOf("robot_telemetry", {"speed_mps"}),
     LastOf("robot_prediction", {"recommendation", "anomaly_score", "health_state"})}

\* The aggregations of the streaming notebook.
Aggregate(m, name) == Query({m}, {name}, "number", TRUE, "position")
StreamingCells ==
    {LastOf("robot_telemetry", {}), LastOf("robot_state", {}),
     Aggregate("robot_telemetry", "motor_current_a"),
     Aggregate("robot_telemetry", "motor_temperature_c"),
     Aggregate("robot_telemetry", "battery_soc"),
     Aggregate("robot_state", "cleaning_coverage_pct")}

\* Its counts: their answers have no time, so first_value looks at the wrong
\* column, and one asks for a measurement nobody writes.
CountCells ==
    {Query({"robot_telemetry"}, {"battery_soc"}, "any", FALSE, "position")}
    \cup {Query({m}, {}, "any", FALSE, "position") :
             m \in {"robot_telemetry", "robot_state", "robot_prediction", "robot_alert"}}

\* The presentation reads data frames, by name.
FrameOf(m, names) == Query({m}, names, "any", TRUE, "name")
PresentedTelemetry ==
    {FrameOf("robot_telemetry", {"x_m", "y_m", "heading_deg", "battery_soc",
                                 "motor_temperature_c", "water_level_pct", "obstacle_cm"})}
PresentedState ==
    {FrameOf("robot_state", {"safety_state", "battery_state", "motor_health", "dirt_level",
                             "cleaning_coverage_pct", "twin_quality"}),
     FrameOf("robot_telemetry",
             {"obstacle_cm", "battery_soc", "motor_temperature_c", "dirt_score"})}
PresentedRejections == {FrameOf("robot_telemetry_invalid", {"reason"})}
PresentedScene ==
    {FrameOf("robot_telemetry", {"x_m", "y_m", "heading_deg", "battery_soc"})}
PresentedPrediction == {FrameOf("robot_prediction", {})}
PresentedPosition == {FrameOf("robot_telemetry", {"x_m", "y_m"})}

\* Each field is counted in a table of its own before they are added.
PresentedCounts ==
    {Query({m}, {}, "any", FALSE, "name") :
        m \in {"robot_telemetry", "robot_state", "robot_prediction",
               "robot_command", "robot_acknowledgement", "robot_alarm"}}

Queries ==
    DashboardTables \cup DashboardCells \cup GrafanaPanels \cup SceneQueries \cup ConsoleQueries
    \cup VisualizationCells \cup ModelCells \cup WalkthroughCells \cup StreamingCells
    \cup CountCells \cup PresentedTelemetry \cup PresentedState \cup PresentedRejections
    \cup PresentedScene \cup PresentedPrediction \cup PresentedPosition \cup PresentedCounts

-----------------------------------------------------------------------------
(* Properties *)

Found(q) == {c \in schema : c.measurement \in q.measurements
                            /\ (q.names = {} => c.type # "tag")
                            /\ (q.names # {} => c.name \in q.names)}

\* A query finds all it asks for, of types it can use, where it looks.
Served(q) ==
    /\ Found(q) # {} /\ q.names \subseteq {c.name : c \in Found(q)}
    /\ q.needs = "number" => \A c \in Found(q) : c.type \in {"integer", "float"}
    /\ q.needs = "text" => \A c \in Found(q) : c.type = "string"
    /\ q.needs = "alike" => \A c, d \in Found(q) : c.type = d.type
    /\ q.reads = "position" => q.timed

\* In whatever order services and demo script write, no point is refused; and once
\* the services a query reads from have written it is served, but for exactly two
\* kinds: the counts of submission_3_data_streaming.ipynb never, and a panel that
\* shows a forecast only from the first point that carries it.
ReadersServed ==
    /\ refused = {}
    /\ \A q \in Queries :
          (\A m \in q.measurements : Writer[m] \in wrote) =>
              (Served(q) <=> q \notin CountCells /\ q.names \cap Forecasts \subseteq wrote)
=============================================================================
