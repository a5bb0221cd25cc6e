---------------------------- MODULE HealthModels ----------------------------
(***************************************************************************)
(* The readings the robot's motor model can produce, beside the ranges,     *)
(* labels and statistics the AI service's models were trained on.           *)
(*                                                                          *)
(* The simulator decides what current, temperature, speed and battery       *)
(* current are reported.  train_model.py invents readings of its own and    *)
(* turns them into features; predictor.py turns the reported ones into the  *)
(* same features in a second copy of the formulas.                          *)
(*                                                                          *)
(* Numbers are whole: currents and speeds in tenths, temperature in         *)
(* hundredths of a degree, voltage in millivolts.  Which branch of          *)
(* _update_physics a tick takes is left open, and so are the levels of      *)
(* battery and tank.                                                        *)
(***************************************************************************)
EXTENDS Integers, FiniteSetsExt

CONSTANT Levels     \* levels of battery and tank to look at, in percent

VARIABLES
    motor_current_a, motor_temperature_c, speed_mps, battery_a, brush_on,
    inject_motor_overload

vars == <<motor_current_a, motor_temperature_c, speed_mps, battery_a, brush_on,
          inject_motor_overload>>

Init ==
    /\ motor_current_a = 5 /\ motor_temperature_c = 2500 /\ speed_mps = 0
    /\ battery_a = 5 /\ brush_on = TRUE /\ inject_motor_overload = FALSE

-----------------------------------------------------------------------------
(* The simulator *)

\* Heat is per minute and cooling per tick.  Hundredths are rounded down, and
\* what was rounded off before may make one hundredth more.
Warmed(t, current) ==
    LET exact == 60 * t + 50 * current - 3 * (t - 2500)
    IN  {Min({12000, Max({2000, h})}) : h \in {exact \div 60, exact \div 60 + 1}}

\* _update_consumables, with the brush and the current as the tick left them.
UpdateConsumables(brush, current) ==
    /\ battery_a' = 12 + (IF brush THEN 3 ELSE 0)
    /\ motor_current_a' = IF inject_motor_overload THEN current
                          ELSE 6 + (IF brush THEN 3 ELSE 0)
    /\ motor_temperature_c' \in Warmed(motor_temperature_c, motor_current_a')

Overload == IF inject_motor_overload THEN 35 ELSE motor_current_a

\* An autonomous tick that works on a cell; resuming at the dock turns the
\* brush on.
Work(resumes) ==
    /\ speed_mps' = 2 /\ brush_on' = (brush_on \/ resumes)
    /\ UpdateConsumables(brush_on', Overload)
    /\ UNCHANGED inject_motor_overload

\* Under manual control the overload is not applied, only kept.
ManualTick ==
    /\ speed_mps' = 0 /\ UpdateConsumables(brush_on, motor_current_a)
    /\ UNCHANGED <<brush_on, inject_motor_overload>>

\* Returning, skipping a waypoint, starting the path again.
Passes(resumes) ==
    /\ motor_current_a' = Overload /\ speed_mps' \in {0, 2, speed_mps}
    /\ brush_on' = (brush_on \/ resumes)
    /\ UNCHANGED <<motor_temperature_c, battery_a, inject_motor_overload>>

\* Stopped, paused, in front of an injected obstacle; the dock lifts the brush
\* and lowers it again.
Waits(brush) ==
    /\ speed_mps' = 0 /\ brush_on' = brush
    /\ UNCHANGED <<motor_current_a, motor_temperature_c, battery_a, inject_motor_overload>>

\* MOVE_UP and its like
ManualStep ==
    /\ speed_mps' = 2
    /\ UNCHANGED <<motor_current_a, motor_temperature_c, battery_a, brush_on,
                   inject_motor_overload>>

\* BRUSH_ON, BRUSH_OFF
Brush(on) ==
    /\ brush_on' = on
    /\ UNCHANGED <<motor_current_a, motor_temperature_c, speed_mps, battery_a,
                   inject_motor_overload>>

\* The fault motor, and clear
InjectFault(on) ==
    /\ inject_motor_overload' = on
    /\ UNCHANGED <<motor_current_a, motor_temperature_c, speed_mps, battery_a, brush_on>>

-----------------------------------------------------------------------------
(* Features, in predictor.py and in train_model.py *)

BatteryV(soc) == 10000 + 26 * soc

\* (slip) The age of the asset is how full its battery is.
Hw4FeaturesOfCharge(soc, water, pump) ==
    [temperature |-> motor_temperature_c, vibration |-> 12 * speed_mps,
     rpm |-> 50 * speed_mps + 100, power |-> BatteryV(soc) * battery_a,
     load |-> 20 * motor_current_a, current |-> motor_current_a,
     noise |-> 2 * (42 + (IF brush_on THEN 12 ELSE 0) + (IF pump THEN 8 ELSE 0)) + speed_mps,
     age |-> soc, maintenance |-> water]

\* Vibration in tenths, load in sevenths of a percent, noise in half decibels.
Hw4Features(soc, water, pump) ==
    [temperature |-> motor_temperature_c, vibration |-> 12 * speed_mps,
     rpm |-> 50 * speed_mps + 100, power |-> BatteryV(soc) * battery_a,
     load |-> 20 * motor_current_a, current |-> motor_current_a,
     noise |-> 2 * (42 + (IF brush_on THEN 12 ELSE 0) + (IF pump THEN 8 ELSE 0)) + speed_mps,
     age |-> 100 - soc, maintenance |-> water]

Clip(x, low, high) == Max({low, Min({high, x})})

\* What generate_hw4_dataset makes of the same reading, with its noise at zero.
Hw4DatasetRow(soc, water, pump) ==
    [temperature |-> motor_temperature_c,
     vibration |-> Clip(12 * speed_mps, 0, 70),
     rpm |-> Clip(50 * speed_mps + 100, 50, 800),
     power |-> BatteryV(soc) * battery_a,
     load |-> Clip(20 * motor_current_a, 0, 700), current |-> motor_current_a,
     noise |-> Clip(84 + (IF brush_on THEN 24 ELSE 0) + (IF pump THEN 16 ELSE 0) + speed_mps,
                    70, 160),
     age |-> Clip(100 - soc, 0, 100), maintenance |-> water]

\* The sensor ranges both generators draw from.
DatasetRanges ==
    /\ motor_current_a \in 3..40 /\ motor_temperature_c \in 2000..9500
    /\ speed_mps \in 0..5 /\ battery_a \in 5..35

\* (slip) A well maintained robot is at risk.
RiskOfMaintenance(f) ==
    14 * (f.temperature - 2500) + 1750 * (f.vibration - 5)
    + 90 * f.load + 490 * f.age + 350 * f.maintenance

\* risk_score times 350000
RiskScore(f) ==
    14 * (f.temperature - 2500) + 1750 * (f.vibration - 5)
    + 90 * f.load + 490 * f.age + 350 * (100 - f.maintenance)

HealthState(f) ==
    IF RiskScore(f) >= 227500 THEN "CRITICAL"
    ELSE IF RiskScore(f) >= 122500 THEN "WARNING" ELSE "NORMAL"

\* remaining_useful_life_minutes times 17500
RemainingUsefulLife(f) ==
    Clip(2100000 - 4 * RiskScore(f) - 14000 * f.age + 8750 * f.maintenance - 1000 * f.load,
         5 * 17500, 130 * 17500)

-----------------------------------------------------------------------------
(* The anomaly detector *)

\* (slip) Overloads are among the samples: mean and deviation learn them.
LearnedFromAll ==
    {<<10 * motor_current_a, 140, 110>>, <<motor_temperature_c, 4200, 1100>>,
     <<100 * speed_mps, 155, 74>>, <<10 * battery_a, 135, 12>>}

\* Per sensor the reading, and mean and deviation of normal operation.  The
\* voltage is left out: its range is the one of the simulator.
Learned ==
    {<<10 * motor_current_a, 75, 18>>, <<motor_temperature_c, 4200, 1100>>,
     <<100 * speed_mps, 155, 74>>, <<10 * battery_a, 135, 12>>}

ANOMALY_Z_THRESHOLD == 45

AnomalyPredict ==
    \E s \in Learned : 10 * Max({s[1] - s[2], s[2] - s[1]}) > ANOMALY_Z_THRESHOLD * s[3]

-----------------------------------------------------------------------------
Next ==
    \/ \E resumes \in BOOLEAN : Work(resumes)
    \/ ManualTick
    \/ \E resumes \in BOOLEAN : Passes(resumes)
    \/ \E brush \in BOOLEAN : Waits(brush)
    \/ ManualStep
    \/ \E on \in BOOLEAN : Brush(on)
    \/ \E on \in BOOLEAN : InjectFault(on)

Spec == Init /\ [][Next]_vars

-----------------------------------------------------------------------------
(* Properties *)

\* The models meet in service what they met in training: what the robot reports
\* stays in the ranges the classifiers were trained on (a forest does not
\* extrapolate), and both copies of the formulas make the same features of it,
\* so no clipping that only training does ever applies.
TrainedOnWhatIsReported ==
    /\ DatasetRanges
    /\ \A soc, water \in Levels : \A pump \in BOOLEAN :
          Hw4Features(soc, water, pump) = Hw4DatasetRow(soc, water, pump)

\* From the first working tick on a reading is flagged exactly when it carries
\* the injected overload, also when the fault is cleared and the current stale:
\* no healthy reading is flagged, and no mode of the robot hides an overload.
FlagsOverload == battery_a # 5 => (AnomalyPredict <=> motor_current_a = 35)

\* Less battery and less water never make a robot look healthier, nor longer
\* lived: the labels the classifier and the regressor learn are monotone.
WorseIsNoHealthier ==
    \A s1, s2, w1, w2 \in Levels :
        LET better == Hw4Features(s1, w1, FALSE)
            worse  == Hw4Features(s2, w2, FALSE)
        IN  s2 <= s1 /\ w2 <= w1 =>
                /\ HealthState(worse) = "NORMAL" => HealthState(better) = "NORMAL"
                /\ HealthState(better) = "CRITICAL" => HealthState(worse) = "CRITICAL"
                /\ RemainingUsefulLife(worse) <= RemainingUsefulLife(better)
=============================================================================
