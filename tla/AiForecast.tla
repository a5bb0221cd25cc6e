----------------------------- MODULE AiForecast -----------------------------
(***************************************************************************)
(* The AI service (services/ai-service): from every valid telemetry message *)
(* it predicts the motor's health, forecasts how long the battery and the   *)
(* cleaning will take, and advises the operator.  The coverage comes from   *)
(* the State Engine's messages; POST /whatif runs the same models on        *)
(* invented readings.                                                       *)
(*                                                                          *)
(* Callbacks come one after the other on the MQTT client's thread, so every *)
(* handler is one step; a what-if request reads and writes nothing of       *)
(* theirs, and is an operator.  What the trained classifiers make of a      *)
(* reading is not known here: it is any of TrainedVerdicts.  The anomaly    *)
(* detector is known: it has learned the mean and deviation of each sensor  *)
(* (train_model.py).  Without models the rules of predict decide.           *)
(* Readings are those of TwinState; confidences, remaining life and scores  *)
(* are left out.                                                            *)
(***************************************************************************)
EXTENDS TwinState, Integers, Sequences, FiniteSets

CONSTANTS
    Readings,                   \* the telemetry the robot may send
    Coverages,                  \* the coverages a state message may carry
    TrainedVerdicts,            \* what the trained models may say of a reading
    LEARNED, Z_THRESHOLD,       \* the anomaly detector, all in tenths
    MAXLEN,                     \* points a history keeps
    MIN_POINTS, WINDOW, MINUTE, \* points a trend needs, and its seconds
    RETURN_SOC, WARN_MINUTES,   \* the levels of the battery forecast
    MaxTime, MaxMessages        \* bounds: seconds, and messages in all

\* Only the AI service uses FAULT.
MotorPredictions == MotorStates \cup {"FAULT"}
HealthStates == {"NORMAL", "WARNING", "CRITICAL"}
Advices == {"STOP robot", "Sensor anomaly", "Battery low", "Schedule maintenance",
            "Motor issue", "Normal operation"}

\* How long a forecast gives: none of these, or one of them.
Minutes == {"zero", "soon", "later"}

Verdicts == [motor : MotorPredictions, dirt : DirtLevels,
             health : HealthStates, anomaly : BOOLEAN]

\* The motor current that inject_motor_overload sets, in tenths of an ampere.
OVERLOAD == 35

\* The sensors the anomaly detector looks at, without the battery's two.
Features == {"motor_current_a", "motor_temperature_c", "speed_mps"}

ASSUME ForecastAssumption ==
    /\ Readings \subseteq Telemetry /\ Coverages \subseteq 0 .. 100
    /\ TrainedVerdicts \subseteq Verdicts
    /\ LEARNED \in [Features -> [mean : Nat, std : Nat]] /\ Z_THRESHOLD \in Nat
    /\ MAXLEN \in Nat \ {0} /\ MIN_POINTS \in Nat \ {0, 1}
    /\ WINDOW \in Nat /\ MINUTE \in Nat \ {0}
    /\ RETURN_SOC \in 0 .. 100 /\ WARN_MINUTES \in Nat
    /\ MaxTime \in Nat /\ MaxMessages \in Nat

\* The overload is far from the normal operation the detector has learned.
ASSUME DetectorAssumption ==
    10 * (10 * OVERLOAD - LEARNED["motor_current_a"].mean)
        > Z_THRESHOLD * LEARNED["motor_current_a"].std

VARIABLES
    loaded,             \* _loaded: all five model files were there at the start
    now,                \* time.monotonic()
    socHistory,         \* _soc_history
    coverageHistory,    \* _coverage_history
    prediction,         \* the last one published: at most one
    messages            \* bound: messages received

vars == <<loaded, now, socHistory, coverageHistory, prediction, messages>>

Init ==
    /\ loaded \in BOOLEAN
    /\ now = 0 /\ socHistory = <<>> /\ coverageHistory = <<>>
    /\ prediction = {} /\ messages = 0

-----------------------------------------------------------------------------
(* Histories and trends *)

\* A history keeps its MAXLEN youngest points.
Push(history, value) ==
    LET longer == Append(history, [t |-> now, v |-> value])
    IN  IF Len(longer) <= MAXLEN THEN longer ELSE Tail(longer)

\* (slip) The trend is that of the whole history.
RecentEver(history) == DOMAIN history

\* The window ends with the last point of the history, whenever that came.
Recent(history) ==
    {i \in DOMAIN history : history[Len(history)].t - history[i].t <= WINDOW}

\* The first point of the window; the times of a history do not fall.
Oldest(history) == history[CHOOSE i \in Recent(history) : \A j \in Recent(history) : i <= j]
Youngest(history) == history[Len(history)]

HasTrend(history) ==
    /\ Len(history) >= MIN_POINTS
    /\ Cardinality(Recent(history)) >= MIN_POINTS
    /\ Youngest(history).t # Oldest(history).t

Rise(history) == Youngest(history).v - Oldest(history).v
Span(history) == Youngest(history).t - Oldest(history).t

\* How long distance lasts at the trend of history, in the classes that matter.
Lasts(distance, pace, history) ==
    IF distance <= 0 THEN "zero"
    ELSE IF distance * Span(history) < WARN_MINUTES * MINUTE * pace THEN "soon"
    ELSE "later"

\* Nothing unless the battery falls: readings have two decimals, so a rate the
\* code takes for zero (above -0.001 a minute) is a level that did not fall.
BatteryMinutesToEmpty(history, soc) ==
    IF HasTrend(history) /\ Rise(history) < 0
    THEN {Lasts(soc - RETURN_SOC, -Rise(history), history)} ELSE {}

CleaningMinutesToFinish(history) ==
    IF HasTrend(history) /\ Rise(history) > 0
    THEN {Lasts(100 - Youngest(history).v, Rise(history), history)} ELSE {}

\* A forecast of 0.0 is falsy in Python: it is published as none.
Rounded(forecast) == forecast \ {"zero"}

-----------------------------------------------------------------------------
(* predictor.py *)

\* (slip) The thresholds are reached rather than passed.
FallbackMotorReached(m) ==
    IF m.motor_current_a >= 35 /\ m.motor_temperature_c >= 70 THEN "FAULT"
    ELSE IF m.motor_temperature_c >= 70 THEN "OVERHEATED"
    ELSE IF m.motor_current_a >= 25 THEN "HIGH_LOAD" ELSE "NORMAL"

FallbackMotor(m) ==
    IF m.motor_current_a > 35 /\ m.motor_temperature_c > 70 THEN "FAULT"
    ELSE IF m.motor_temperature_c > 70 THEN "OVERHEATED"
    ELSE IF m.motor_current_a > 25 THEN "HIGH_LOAD" ELSE "NORMAL"

FallbackHealth(m) ==
    CASE FallbackMotor(m) = "FAULT"                       -> "CRITICAL"
      [] FallbackMotor(m) \in {"OVERHEATED", "HIGH_LOAD"} -> "WARNING"
      [] FallbackMotor(m) = "NORMAL"                      -> "NORMAL"

FallbackDirt(m) ==
    IF m.dirt_score >= 70 THEN "DIRTY" ELSE IF m.dirt_score >= 30 THEN "MODERATE" ELSE "CLEAN"

FallbackAnomaly(m) == m.motor_current_a > 30 \/ m.motor_temperature_c > 80

\* (slip) Only what is far below the mean is far from it.
DeviatesBelow(m, f) == 10 * (LEARNED[f].mean - 10 * m[f]) > Z_THRESHOLD * LEARNED[f].std

\* More than Z_THRESHOLD deviations from the mean of normal operation.
Deviates(m, f) ==
    \/ 10 * (10 * m[f] - LEARNED[f].mean) > Z_THRESHOLD * LEARNED[f].std
    \/ 10 * (LEARNED[f].mean - 10 * m[f]) > Z_THRESHOLD * LEARNED[f].std

\* Any one sensor that deviates makes an anomaly; the battery's may, too.
Trained(m) ==
    {verdict \in TrainedVerdicts : (\E f \in Features : Deviates(m, f)) => verdict.anomaly}

\* The verdicts predict may return on m.
Predict(m) ==
    IF loaded THEN Trained(m)
    ELSE {[motor |-> FallbackMotor(m), dirt |-> FallbackDirt(m),
           health |-> FallbackHealth(m), anomaly |-> FallbackAnomaly(m)]}

\* The label train_model.py gives a sample for the classifier to learn.
LabelMotorHealth(m) ==
    IF FallbackMotor(m) = "NORMAL" /\ m.motor_current_a > 15 /\ m.brush_on
    THEN "HIGH_LOAD" ELSE FallbackMotor(m)

-----------------------------------------------------------------------------
(* The handlers of main.py *)

\* The first of these that applies.
Recommendation(verdict, forecast) ==
    IF verdict.health = "CRITICAL" THEN "STOP robot"
    ELSE IF verdict.anomaly THEN "Sensor anomaly"
    ELSE IF forecast \cap {"zero", "soon"} # {} THEN "Battery low"
    ELSE IF verdict.health = "WARNING" THEN "Schedule maintenance"
    ELSE IF verdict.motor \in {"OVERHEATED", "FAULT"} THEN "Motor issue"
    ELSE "Normal operation"

\* (slip) The advice is made from the forecast as it is published.
AdvisePublished(m, verdict, history) ==
    [reading |-> m, verdict |-> verdict, at |-> now,
     toEmpty |-> Rounded(BatteryMinutesToEmpty(history, m.battery_soc)),
     toFinish |-> Rounded(CleaningMinutesToFinish(coverageHistory)),
     advice |-> Recommendation(verdict,
                    Rounded(BatteryMinutesToEmpty(history, m.battery_soc)))]

\* The message on the prediction topic, and the point written from it.
Advise(m, verdict, history) ==
    [reading |-> m, verdict |-> verdict, at |-> now,
     toEmpty |-> Rounded(BatteryMinutesToEmpty(history, m.battery_soc)),
     toFinish |-> Rounded(CleaningMinutesToFinish(coverageHistory)),
     advice |-> Recommendation(verdict, BatteryMinutesToEmpty(history, m.battery_soc))]

Received == messages < MaxMessages /\ messages' = messages + 1

\* _on_message with validated telemetry.
OnTelemetry(m) ==
    /\ Received
    /\ socHistory' = Push(socHistory, m.battery_soc)
    /\ \E verdict \in Predict(m) : prediction' = {Advise(m, verdict, socHistory')}
    /\ UNCHANGED <<loaded, now, coverageHistory>>

\* _on_message with a state message.
OnState(coverage) ==
    /\ Received
    /\ coverageHistory' = Push(coverageHistory, coverage)
    /\ UNCHANGED <<loaded, now, socHistory, prediction>>

\* The what-if endpoint has no forecast to go by.
WhatIf(m) == {Recommendation(verdict, {}) : verdict \in Predict(m)}

Tick ==
    /\ now < MaxTime /\ now' = now + 1
    /\ UNCHANGED <<loaded, socHistory, coverageHistory, prediction, messages>>

Next ==
    \/ \E m \in Readings : OnTelemetry(m)
    \/ \E c \in Coverages : OnState(c)
    \/ Tick

Spec == Init /\ [][Next]_vars

-----------------------------------------------------------------------------
(* Properties *)

Histories == Seq([t : 0 .. MaxTime, v : 0 .. 100])

\* The histories stay within their bound and what is published is complete.
TypeOK ==
    /\ loaded \in BOOLEAN /\ now \in 0 .. MaxTime /\ messages \in 0 .. MaxMessages
    /\ socHistory \in Histories /\ Len(socHistory) <= MAXLEN
    /\ coverageHistory \in Histories /\ Len(coverageHistory) <= MAXLEN
    /\ prediction \subseteq [reading : Readings, verdict : Verdicts, at : 0 .. MaxTime,
                             toEmpty : SUBSET Minutes, toFinish : SUBSET Minutes,
                             advice : Advices]

\* Two services judge the motor and the floor from the same message: without
\* trained models the AI service says what the State Engine says, a FAULT being
\* an OVERHEATED motor under load.  The console shows both side by side.
JudgesAgree ==
    ~loaded => \A p \in prediction :
        /\ p.verdict.dirt = DirtLevel(p.reading)
        /\ MotorHealth(p.reading) =
              IF p.verdict.motor = "FAULT" THEN "OVERHEATED" ELSE p.verdict.motor

\* A motor the State Engine raises an alarm for never gets the advice that all
\* is well, neither for the robot nor in a what-if scenario (without models); and
\* the overload the simulator injects is told with trained models, too, whatever
\* their classifiers say, because the anomaly detector knows it.
MotorTroubleIsTold ==
    \A m \in Readings :
        (~loaded /\ MotorHealth(m) # "NORMAL") \/ m.motor_current_a >= OVERLOAD =>
            /\ \A p \in prediction : p.reading = m => p.advice # "Normal operation"
            /\ "Normal operation" \notin WhatIf(m)

\* A robot that has only been discharging for as long as the trend looks back,
\* and is down to the level at which it must return, is not told all is well.
EmptyBatteryIsTold ==
    LET h == socHistory
        recent == {i \in DOMAIN h : Youngest(h).t - h[i].t <= WINDOW}
    IN  \A p \in prediction :
          (/\ p.reading.battery_soc <= RETURN_SOC
           /\ Cardinality(recent) >= MIN_POINTS
           /\ \A i, j \in recent : i < j => h[j].v < h[i].v /\ h[i].t < h[j].t)
          => p.advice # "Normal operation"

\* A robot that has not discharged for as long as the trend looks back (it is
\* docked, or waits) gets no forecast of an empty battery and no advice from it.
ForecastFades ==
    LET h == socHistory
        recent == {i \in DOMAIN h : Youngest(h).t - h[i].t <= WINDOW}
    IN  (\A i, j \in recent : i <= j => h[i].v <= h[j].v) =>
          \A p \in prediction : p.toEmpty = {} /\ p.advice # "Battery low"

\* The classifier learns labels that are never milder than the State Engine's
\* rules: a motor the rules find fault with is not labelled NORMAL.
LabelsNoMilder ==
    \A p \in prediction :
        MotorHealth(p.reading) # "NORMAL" => LabelMotorHealth(p.reading) # "NORMAL"
=============================================================================
