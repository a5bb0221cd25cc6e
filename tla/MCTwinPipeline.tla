--------------------------- MODULE MCTwinPipeline ---------------------------
(* Small instances of TwinPipeline for TLC *)
EXTENDS TwinPipeline

Nominal ==
    [obstacle_cm |-> 200, bumper_active |-> FALSE, speed_mps |-> 2,
     battery_soc |-> 80, motor_current_a |-> 9, motor_temperature_c |-> 30,
     dirt_score |-> 40, water_level_pct |-> 60, brush_on |-> TRUE,
     mode |-> "CLEANING", coverage |-> 50]

\* An obstacle close by while the battery is nearly empty: two alarms.
Trouble == [Nominal EXCEPT !.obstacle_cm = 15, !.speed_mps = 0, !.battery_soc = 5]

TwoReadings == {Nominal, Trouble}
OneReplica  == {"ingestion"}
=============================================================================
