---------------------------- MODULE MCAiService ----------------------------
(* Small instances of AiService for TLC *)
EXTENDS AiService

SomeLevels == {0, 20, 80, 100}

Reading(soc, current, temperature, dirt) ==
    [obstacle_cm |-> 200, bumper_active |-> FALSE, speed_mps |-> 2,
     battery_soc |-> soc, motor_current_a |-> current,
     motor_temperature_c |-> temperature, dirt_score |-> dirt,
     water_level_pct |-> 60, brush_on |-> TRUE, mode |-> "CLEANING", coverage |-> 50]

\* A healthy motor at four levels of the battery, and at one level the loads
\* and temperatures on both sides of every threshold.
SomeReadings ==
    {Reading(soc, 9, 30, 30) : soc \in {19, 20, 21, 40}}
    \cup {Reading(21, current, 30, 70) : current \in {16, 25, 26, 31}}
    \cup {Reading(21, current, temperature, 29) :
             current \in {9, 36}, temperature \in {70, 71}}

\* Each piece of advice, from trained models.
Verdict(motor, health, anomaly) ==
    [motor |-> motor, dirt |-> "CLEAN", health |-> health, anomaly |-> anomaly]

SomeVerdicts ==
    {Verdict("NORMAL", "NORMAL", FALSE), Verdict("NORMAL", "CRITICAL", TRUE),
     Verdict("HIGH_LOAD", "NORMAL", TRUE), Verdict("NORMAL", "WARNING", FALSE),
     Verdict("FAULT", "NORMAL", FALSE)}

\* As train_model.py draws normal operation.
Normal(mean, std) == [mean |-> mean, std |-> std]
TrainedDetector ==
    [motor_current_a |-> Normal(75, 18), motor_temperature_c |-> Normal(420, 110),
     speed_mps |-> Normal(16, 7)]
=============================================================================
