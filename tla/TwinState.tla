----------------------------- MODULE TwinState -----------------------------
(***************************************************************************)
(* What the State Engine concludes from one valid telemetry message:        *)
(* rules.evaluate (services/state-engine/rules.py), rule by rule, over the  *)
(* fields of the message it looks at.  The value sets are the enumerations  *)
(* of shared/smartclean_common/models.py.                                   *)
(*                                                                          *)
(* Numbers are whole: speeds and currents in tenths, dirt in percent.  Two  *)
(* ages matter besides the message: heard tells whether an earlier message  *)
(* was received at all, and gap how many seconds ago that was.              *)
(***************************************************************************)
EXTENDS Naturals

CONSTANTS DELAYED_AFTER, OFFLINE_AFTER   \* seconds between two messages

ASSUME AgeAssumption ==
    /\ DELAYED_AFTER \in Nat /\ OFFLINE_AFTER \in Nat
    /\ DELAYED_AFTER < OFFLINE_AFTER

-----------------------------------------------------------------------------
(* The enumerations of models.py, without the members the engine never uses *)

MotionStates     == {"STOPPED", "MOVING", "AVOIDING"}
OperationModes   == {"IDLE", "INSPECTING", "CLEANING", "RETURNING", "CHARGING",
                     "REFILLING", "MANUAL"}
SafetyStates     == {"SAFE", "WARNING", "EMERGENCY"}
BatteryStates    == {"NORMAL", "LOW", "CRITICAL"}
CleaningStates   == {"OFF", "ACTIVE", "REPEAT_REQUIRED"}
MotorStates      == {"NORMAL", "HIGH_LOAD", "OVERHEATED"}
DirtLevels       == {"CLEAN", "MODERATE", "DIRTY"}
MissionStates    == {"NOT_STARTED", "RUNNING", "PAUSED", "COMPLETED"}
ConnectionStates == {"ONLINE", "DELAYED", "OFFLINE"}
TwinQualities    == {"SYNCHRONIZED", "DELAYED", "INVALID"}

AlarmTypes == {"OBSTACLE_EMERGENCY", "BATTERY_CRITICAL", "MOTOR_HIGH_LOAD",
               "MOTOR_OVERHEATED", "LOW_WATER"}

\* What a TelemetryMessage that passed validation can hold.  Its mode is any
\* string: OTHER stands for those that name no operation mode.
Telemetry ==
    [obstacle_cm : 0 .. 500, bumper_active : BOOLEAN, speed_mps : 0 .. 20,
     battery_soc : 0 .. 100, motor_current_a : 0 .. 100,
     motor_temperature_c : 0 .. 120, dirt_score : 0 .. 100,
     water_level_pct : 0 .. 100, brush_on : BOOLEAN,
     mode : OperationModes \cup {"OTHER"}, coverage : 0 .. 100]

DigitalTwinState ==
    [motion_state : MotionStates, operation_mode : OperationModes,
     safety_state : SafetyStates, battery_state : BatteryStates,
     cleaning_state : CleaningStates, motor_health : MotorStates,
     dirt_level : DirtLevels, mission_state : MissionStates,
     connection_state : ConnectionStates, twin_quality : TwinQualities,
     active_alarms : SUBSET AlarmTypes]

-----------------------------------------------------------------------------
(* The rules *)

\* Three bands of a measure: below low, between, and from high upwards.
Band(value, low, high, lowName, midName, highName) ==
    IF value < low THEN lowName ELSE IF value < high THEN midName ELSE highName

SafetyState(m) ==
    IF m.bumper_active THEN "EMERGENCY"
    ELSE Band(m.obstacle_cm, 25, 50, "EMERGENCY", "WARNING", "SAFE")

MotionState(m) ==
    CASE SafetyState(m) = "EMERGENCY" -> "STOPPED"
      [] SafetyState(m) = "WARNING"   -> "AVOIDING"
      [] SafetyState(m) = "SAFE"      -> IF m.speed_mps = 0 THEN "STOPPED" ELSE "MOVING"

BatteryState(m) == Band(m.battery_soc, 10, 20, "CRITICAL", "LOW", "NORMAL")

MotorHealth(m) ==
    IF m.motor_temperature_c > 70 THEN "OVERHEATED"
    ELSE IF m.motor_current_a > 25 THEN "HIGH_LOAD" ELSE "NORMAL"

DirtLevel(m) == Band(m.dirt_score, 30, 70, "CLEAN", "MODERATE", "DIRTY")

CleaningState(m) ==
    IF ~m.brush_on THEN "OFF"
    ELSE IF DirtLevel(m) = "DIRTY" /\ m.coverage > 0 /\ m.dirt_score > 80
         THEN "REPEAT_REQUIRED" ELSE "ACTIVE"

\* A mode the map does not know reads as IDLE.
OperationMode(m) == IF m.mode = "OTHER" THEN "IDLE" ELSE m.mode

CriticalAlarms(m) ==
    {a \in {"BATTERY_CRITICAL"} : BatteryState(m) = "CRITICAL"}
    \cup {a \in {"MOTOR_OVERHEATED"} : MotorHealth(m) = "OVERHEATED"}

Alarms(m) ==
    CriticalAlarms(m)
    \cup {a \in {"OBSTACLE_EMERGENCY"} : SafetyState(m) = "EMERGENCY"}
    \cup {a \in {"MOTOR_HIGH_LOAD"} : MotorHealth(m) = "HIGH_LOAD"}
    \cup {a \in {"LOW_WATER"} : m.water_level_pct < 10}

\* The cascade of the mission rule; the first case that applies decides.
MissionState(m) ==
    LET idle == OperationMode(m) = "IDLE"
    IN  IF idle /\ m.coverage = 0 THEN "NOT_STARTED"
        ELSE IF BatteryState(m) = "LOW" \/ m.mode = "RETURNING" THEN "RUNNING"
        ELSE IF m.coverage >= 90 /\ CriticalAlarms(m) = {} THEN "COMPLETED"
        ELSE IF idle THEN "PAUSED" ELSE "RUNNING"

\* Nothing heard before counts as in time.
Age(heard, gap) ==
    CASE ~heard \/ gap <= DELAYED_AFTER                       -> "fresh"
      [] heard /\ gap > DELAYED_AFTER /\ gap <= OFFLINE_AFTER -> "late"
      [] heard /\ gap > OFFLINE_AFTER                         -> "lost"

ConnectionState(heard, gap) ==
    [fresh |-> "ONLINE", late |-> "DELAYED", lost |-> "OFFLINE"][Age(heard, gap)]

TwinQuality(heard, gap) ==
    [fresh |-> "SYNCHRONIZED", late |-> "DELAYED", lost |-> "INVALID"][Age(heard, gap)]

Evaluate(m, heard, gap) ==
    [motion_state |-> MotionState(m), operation_mode |-> OperationMode(m),
     safety_state |-> SafetyState(m), battery_state |-> BatteryState(m),
     cleaning_state |-> CleaningState(m), motor_health |-> MotorHealth(m),
     dirt_level |-> DirtLevel(m), mission_state |-> MissionState(m),
     connection_state |-> ConnectionState(heard, gap),
     twin_quality |-> TwinQuality(heard, gap), active_alarms |-> Alarms(m)]
=============================================================================
