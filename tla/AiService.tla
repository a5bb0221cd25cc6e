----------------------------- MODULE AiService -----------------------------
(***************************************************************************)
(* The AI service at work, AiForecast, and what its models see,             *)
(* HealthModels.  The two share no state, so a behaviour is about one or    *)
(* the other: part says which, from the start.                              *)
(***************************************************************************)
EXTENDS AiForecast

CONSTANT Levels     \* levels of battery and tank to look at, in percent

ASSUME LevelsAssumption == Levels \subseteq 0 .. 100

VARIABLES
    part,
    motor_current_a, motor_temperature_c, speed_mps, battery_a, brush_on,
    inject_motor_overload

sensors == <<motor_current_a, motor_temperature_c, speed_mps, battery_a, brush_on,
             inject_motor_overload>>

H == INSTANCE HealthModels

-----------------------------------------------------------------------------
ServiceInit ==
    /\ part \in {"service", "sensors"}
    /\ Init /\ H!Init
    /\ part = "sensors" => loaded

ServiceNext ==
    \/ part = "service" /\ Next /\ UNCHANGED <<part, sensors>>
    \/ part = "sensors" /\ H!Next /\ UNCHANGED <<part, vars>>

ServiceSpec == ServiceInit /\ [][ServiceNext]_<<part, vars, sensors>>

-----------------------------------------------------------------------------
(* Properties, each of the part that bears it *)

\* What the models are given in service is what they were trained for
\* (HealthModels).
TrainedOnWhatIsReported == part = "sensors" => H!TrainedOnWhatIsReported

\* A working robot's reading is flagged exactly when it carries the overload
\* (HealthModels).
FlagsOverload == part = "sensors" => H!FlagsOverload

\* Less battery and water never look healthier (HealthModels).
WorseIsNoHealthier == part = "sensors" => H!WorseIsNoHealthier
=============================================================================
