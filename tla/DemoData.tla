------------------------------ MODULE DemoData ------------------------------
(***************************************************************************)
(* scripts/generate_demo_data.py: N seconds of invented telemetry, with the *)
(* states and predictions that go with it, written to the database in three *)
(* requests per BATCH seconds.  Any request may fail, and ends the script;  *)
(* one that timed out may have been stored all the same.                    *)
(*                                                                          *)
(* The states are labelled in the script and not by the State Engine: the   *)
(* rules they should follow are those of TwinState.                         *)
(***************************************************************************)
EXTENDS TwinState, FiniteSetsExt

CONSTANTS N, BATCH      \* seconds, and seconds per batch

Measurements == {"robot_telemetry", "robot_state", "robot_prediction"}

VARIABLES
    i,          \* the next second
    batch,      \* seconds in the lists, not written yet
    next,       \* what is written next: "none" while points are made
    points,     \* per measurement, the seconds stored
    status

vars == <<i, batch, next, points, status>>

Init ==
    /\ i = 0 /\ batch = {} /\ next = "none" /\ status = "running"
    /\ points = [m \in Measurements |-> {}]

-----------------------------------------------------------------------------
(* One second: its telemetry in the units of TwinState, and its labels *)

Coverage(s) == Min({95, (100 * s) \div N})

TelemetryAt(s) ==
    [obstacle_cm |-> IF s % 90 = 45 THEN 15 ELSE 150, bumper_active |-> FALSE,
     speed_mps |-> 2, battery_soc |-> Max({60, (100000 - 22 * s) \div 1000}),
     motor_current_a |-> IF s % 60 < 10 THEN 13 ELSE 8,
     motor_temperature_c |-> 30 + Min({45, (4 * s) \div 100}),
     dirt_score |-> Max({0, (140 * N - Min({100 * s, 95 * N})) \div (2 * N)}),
     water_level_pct |-> Max({20, (100000 - 8 * s) \div 1000}), brush_on |-> TRUE,
     mode |-> "CLEANING", coverage |-> Coverage(s)]

\* (slip) The labels see the obstacle a second after the telemetry does.
EmergencyLate(s) == s % 90 = 46

Emergency(s) == s % 90 = 45

StateAt(s) ==
    LET t == TelemetryAt(s)
    IN  [safety_state |-> IF Emergency(s) THEN "EMERGENCY" ELSE "SAFE",
         battery_state |-> IF t.battery_soc < 10 THEN "CRITICAL"
                           ELSE IF t.battery_soc < 20 THEN "LOW" ELSE "NORMAL",
         motor_health |-> IF t.motor_current_a > 25 THEN "HIGH_LOAD" ELSE "NORMAL",
         mission_state |-> IF Coverage(s) >= 90 THEN "COMPLETED" ELSE "RUNNING",
         alarm_count |-> IF Emergency(s) THEN 1 ELSE 0]

-----------------------------------------------------------------------------
(* The script *)

MakePoint ==
    /\ status = "running" /\ next = "none" /\ i < N
    /\ batch' = batch \cup {i} /\ i' = i + 1
    /\ next' = IF Cardinality(batch') >= BATCH THEN "robot_telemetry" ELSE "none"
    /\ UNCHANGED <<points, status>>

Cleared(m) == m = "robot_prediction"

WriteBatch(m) ==
    /\ status = "running" /\ next = m
    /\ points' = [points EXCEPT ![m] = @ \cup batch]
    /\ next' = [robot_telemetry |-> "robot_state", robot_state |-> "robot_prediction",
                robot_prediction |-> "none"][m]
    /\ batch' = IF Cleared(m) THEN {} ELSE batch
    /\ UNCHANGED <<i, status>>

WriteFails(m) ==
    /\ status = "running" /\ next = m /\ status' = "failed"
    /\ points' \in {points, [points EXCEPT ![m] = @ \cup batch]}
    /\ UNCHANGED <<i, batch, next>>

\* What is left over when the last batch was not full.
LastBatch ==
    /\ status = "running" /\ next = "none" /\ i = N /\ batch # {}
    /\ next' = "robot_telemetry"
    /\ UNCHANGED <<i, batch, points, status>>

Close ==
    /\ status = "running" /\ next = "none" /\ i = N /\ batch = {}
    /\ status' = "done"
    /\ UNCHANGED <<i, batch, next, points>>

Next ==
    \/ MakePoint \/ LastBatch \/ Close
    \/ \E m \in Measurements : WriteBatch(m) \/ WriteFails(m)

Spec == Init /\ [][Next]_vars

-----------------------------------------------------------------------------
(* Properties *)

\* The lists hold seconds that were made.
TypeOK ==
    /\ i \in 0..N /\ batch \subseteq 0..(i - 1)
    /\ next \in Measurements \cup {"none"} /\ status \in {"running", "failed", "done"}
    /\ \A m \in Measurements : points[m] \subseteq 0..(i - 1)

\* The seconds whose labels are what the State Engine's rules say of their telemetry.
WellLabelled ==
    {s \in 0..(N - 1) :
        LET t == TelemetryAt(s)
            labels == StateAt(s)
        IN  /\ labels.safety_state = SafetyState(t) /\ labels.battery_state = BatteryState(t)
            /\ labels.motor_health = MotorHealth(t) /\ labels.mission_state = MissionState(t)
            /\ labels.alarm_count = Cardinality(Alarms(t))}

\* Every stored state of the invented data, obstacle seconds and current spikes
\* included, rests on the telemetry of its second, stored as well, and says what the
\* State Engine's rules say of it; wherever the script fails, only the batch being
\* written lacks some of the three.
StatesRestOnTelemetry ==
    /\ points["robot_prediction"] \subseteq points["robot_state"]
    /\ points["robot_state"] \subseteq points["robot_telemetry"] \cap WellLabelled
    /\ points["robot_telemetry"] \ points["robot_prediction"] \subseteq batch
=============================================================================
