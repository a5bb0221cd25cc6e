-------------------------- MODULE AiServiceProofs --------------------------
(***************************************************************************)
(* Proofs about the AI service, for any readings, any trained models and    *)
(* histories of any length: the types, what the operator is told of the     *)
(* motor and of the battery, and what the models see of the motor, for any  *)
(* levels of battery and tank.                                              *)
(***************************************************************************)
EXTENDS AiService, FiniteSetTheorems, WellFoundedInduction, TLAPS

-----------------------------------------------------------------------------
(* The AI service at work: AiForecast *)

Predictions ==
    [reading : Readings, verdict : Verdicts, at : 0 .. MaxTime,
     toEmpty : SUBSET Minutes, toFinish : SUBSET Minutes, advice : Advices]

Points == [t : 0 .. MaxTime, v : 0 .. 100]

LEMMA PointType == \A p \in Points : p.t \in Int /\ p.v \in Int
<1>1. 0 .. MaxTime \subseteq Int /\ 0 .. 100 \subseteq Int
    BY ForecastAssumption
<1> QED
    BY <1>1, Zenon DEF Points

LEMMA PushType ==
    ASSUME NEW h \in Seq(Points), Len(h) <= MAXLEN, now \in 0 .. MaxTime, NEW v \in 0 .. 100
    PROVE  Push(h, v) \in Seq(Points) /\ Len(Push(h, v)) <= MAXLEN
<1> DEFINE longer == Append(h, [t |-> now, v |-> v])
<1>1. longer \in Seq(Points) /\ Len(longer) = Len(h) + 1
    BY DEF Points
<1>2. MAXLEN \in Nat /\ Len(h) \in Nat
    BY ForecastAssumption
<1>3. Push(h, v) = IF Len(longer) <= MAXLEN THEN longer ELSE Tail(longer)
    BY DEF Push
<1> HIDE DEF longer
<1>4. CASE Len(longer) <= MAXLEN
    BY <1>1, <1>3, <1>4
<1>5. CASE ~(Len(longer) <= MAXLEN)
  <2>1. longer # <<>>
      BY <1>1, <1>2
  <2>2. Tail(longer) \in Seq(Points) /\ Len(Tail(longer)) = Len(longer) - 1
      BY <1>1, <2>1
  <2> QED
      BY <1>1, <1>2, <1>3, <1>5, <2>2
<1> QED
    BY <1>4, <1>5

LEMMA FallbackType ==
    ASSUME NEW m \in Readings
    PROVE  /\ FallbackMotor(m) \in MotorPredictions /\ FallbackHealth(m) \in HealthStates
           /\ FallbackDirt(m) \in DirtLevels
  BY DEF FallbackMotor, FallbackHealth, FallbackDirt, MotorPredictions, MotorStates,
         HealthStates, DirtLevels

LEMMA PredictType ==
    ASSUME NEW m \in Readings, NEW verdict \in Predict(m)
    PROVE  verdict \in Verdicts
<1>1. CASE loaded
    BY <1>1, ForecastAssumption DEF Predict, Trained
<1>2. CASE ~loaded
  <2>1. FallbackAnomaly(m) \in BOOLEAN
      BY DEF FallbackAnomaly
  <2>2. \A motor \in MotorPredictions, dirt \in DirtLevels, health \in HealthStates,
            anomaly \in BOOLEAN :
            [motor |-> motor, dirt |-> dirt, health |-> health, anomaly |-> anomaly]
                \in Verdicts
      BY DEF Verdicts
  <2> QED
      BY <1>2, <2>1, <2>2, FallbackType, Zenon DEF Predict
<1> QED
    BY <1>1, <1>2

LEMMA ForecastType ==
    ASSUME NEW h, NEW soc
    PROVE  /\ BatteryMinutesToEmpty(h, soc) \subseteq Minutes
           /\ Rounded(BatteryMinutesToEmpty(h, soc)) \subseteq Minutes
           /\ Rounded(CleaningMinutesToFinish(h)) \subseteq Minutes
<1>1. \A d, pace : Lasts(d, pace, h) \in Minutes
    BY Zenon DEF Lasts, Minutes
<1>2. BatteryMinutesToEmpty(h, soc) \subseteq Minutes
    BY <1>1, Zenon DEF BatteryMinutesToEmpty
<1>3. CleaningMinutesToFinish(h) \subseteq Minutes
    BY <1>1, Zenon DEF CleaningMinutesToFinish
<1> QED
    BY <1>2, <1>3, Zenon DEF Rounded

LEMMA AdviceType ==
    \A verdict, forecast : Recommendation(verdict, forecast) \in Advices
  BY Zenon DEF Recommendation, Advices

\* A prediction is of a reading of the robot, with a verdict predict may give
\* and the advice that the forecast from the history it leaves calls for.
Advised(p) ==
    /\ p.reading \in Readings /\ p.verdict \in Predict(p.reading)
    /\ p.toEmpty = Rounded(BatteryMinutesToEmpty(socHistory, p.reading.battery_soc))
    /\ p.advice = Recommendation(p.verdict,
                      BatteryMinutesToEmpty(socHistory, p.reading.battery_soc))

AdvisedInv == \A p \in prediction : Advised(p)

LEMMA ReadingType == \A m \in Readings : m \in Telemetry
  BY ForecastAssumption

LEMMA TypeStep == TypeOK /\ [Next]_vars => TypeOK'
<1> SUFFICES ASSUME TypeOK, [Next]_vars PROVE TypeOK'
    OBVIOUS
<1>1. Histories = Seq(Points)
    BY DEF Histories, Points
<1>2. ASSUME Received PROVE messages' \in 0 .. MaxMessages
  <2>1. messages \in 0 .. MaxMessages
      BY DEF TypeOK
  <2> QED
      BY <1>2, <2>1, ForecastAssumption DEF Received
<1>3. ASSUME NEW m \in Readings, OnTelemetry(m) PROVE TypeOK'
  <2>1. m.battery_soc \in 0 .. 100
      BY ReadingType DEF Telemetry
  <2>2. socHistory' \in Histories /\ Len(socHistory') <= MAXLEN
      BY <1>1, <1>3, <2>1, PushType DEF OnTelemetry, TypeOK
  <2>3. PICK verdict \in Predict(m) : prediction' = {Advise(m, verdict, socHistory')}
      BY <1>3 DEF OnTelemetry
  <2>4. now \in 0 .. MaxTime
      BY DEF TypeOK
  <2>5. Advise(m, verdict, socHistory') \in Predictions
      BY <2>4, PredictType, ForecastType, AdviceType, Zenon DEF Advise, Predictions
  <2>6. prediction' \subseteq Predictions
      BY <2>3, <2>5
  <2>7. messages' \in 0 .. MaxMessages /\ UNCHANGED <<loaded, now, coverageHistory>>
      BY <1>2, <1>3 DEF OnTelemetry
  <2> QED
      BY <2>2, <2>6, <2>7 DEF TypeOK, Predictions
<1>4. ASSUME NEW c \in Coverages, OnState(c) PROVE TypeOK'
  <2>1. c \in 0 .. 100
      BY ForecastAssumption
  <2>2. coverageHistory' \in Histories /\ Len(coverageHistory') <= MAXLEN
      BY <1>1, <1>4, <2>1, PushType DEF OnState, TypeOK
  <2>3. messages' \in 0 .. MaxMessages /\ UNCHANGED <<loaded, now, socHistory, prediction>>
      BY <1>2, <1>4 DEF OnState
  <2> QED
      BY <2>2, <2>3 DEF TypeOK
<1>5. CASE Tick
  <2>1. now' \in 0 .. MaxTime
    <3>1. now \in 0 .. MaxTime
        BY DEF TypeOK
    <3> QED
        BY <1>5, <3>1, ForecastAssumption DEF Tick
  <2> QED
      BY <1>5, <2>1 DEF Tick, TypeOK
<1>6. CASE UNCHANGED vars
    BY <1>6 DEF vars, TypeOK
<1> QED
    BY <1>3, <1>4, <1>5, <1>6 DEF Next

\* The histories stay within their bound and every prediction is complete.
THEOREM TypeCorrect == Spec => []TypeOK
<1>1. Init => TypeOK
  <2> SUFFICES ASSUME Init PROVE TypeOK
      OBVIOUS
  <2>1. 0 \in 0 .. MaxTime /\ 0 \in 0 .. MaxMessages /\ 0 <= MAXLEN
      BY ForecastAssumption
  <2> QED
      BY <2>1 DEF Init, TypeOK, Histories
<1> QED
    BY <1>1, TypeStep, PTL DEF Spec

LEMMA AdvisedStep == AdvisedInv /\ [Next]_vars => AdvisedInv'
<1> SUFFICES ASSUME AdvisedInv, [Next]_vars PROVE AdvisedInv'
    OBVIOUS
<1>1. loaded' = loaded
    BY DEF Next, OnTelemetry, OnState, Tick, vars
<1>2. ASSUME NEW m \in Readings, OnTelemetry(m) PROVE AdvisedInv'
  <2>1. PICK verdict \in Predict(m) : prediction' = {Advise(m, verdict, socHistory')}
      BY <1>2 DEF OnTelemetry
  <2>2. PICK p : p = Advise(m, verdict, socHistory')
      OBVIOUS
  <2>3. p.reading = m /\ p.verdict = verdict
      BY <2>2 DEF Advise
  <2>4. verdict \in Predict(m)'
      BY <1>1 DEF Predict, Trained
  <2>5. /\ p.toEmpty = Rounded(BatteryMinutesToEmpty(socHistory', m.battery_soc))
        /\ p.advice = Recommendation(verdict,
                          BatteryMinutesToEmpty(socHistory', m.battery_soc))
      BY <2>2 DEF Advise
  <2>6. Advised(p)'
      BY <2>3, <2>4, <2>5 DEF Advised
  <2> QED
      BY <2>1, <2>2, <2>6 DEF AdvisedInv
<1>3. CASE UNCHANGED <<prediction, socHistory>>
    BY <1>1, <1>3 DEF AdvisedInv, Advised, Predict
<1> QED
    BY <1>2, <1>3 DEF Next, OnState, Tick, vars

THEOREM AdvisedCorrect == Spec => []AdvisedInv
<1>1. Init => AdvisedInv
    BY DEF Init, AdvisedInv
<1> QED
    BY <1>1, AdvisedStep, PTL DEF Spec

-----------------------------------------------------------------------------
(* The motor *)

LEMMA FallbackVerdict ==
    ASSUME NEW m \in Readings, NEW verdict \in Predict(m), ~loaded
    PROVE  /\ verdict.motor = FallbackMotor(m) /\ verdict.dirt = FallbackDirt(m)
           /\ verdict.health = FallbackHealth(m)
<1>1. PICK anomaly : verdict = [motor |-> FallbackMotor(m), dirt |-> FallbackDirt(m),
                                health |-> FallbackHealth(m), anomaly |-> anomaly]
    BY Zenon DEF Predict
<1> QED
    BY <1>1

\* Without trained models the AI service and the State Engine say the same of
\* the motor and of the floor.
THEOREM JudgesCorrect == Spec => []JudgesAgree
<1>1. AdvisedInv => JudgesAgree
  <2> SUFFICES ASSUME ~loaded, NEW p \in prediction, Advised(p)
               PROVE  /\ p.verdict.dirt = DirtLevel(p.reading)
                      /\ MotorHealth(p.reading) =
                            IF p.verdict.motor = "FAULT" THEN "OVERHEATED" ELSE p.verdict.motor
      BY DEF AdvisedInv, JudgesAgree
  <2>1. PICK m \in Readings : p.reading = m
      BY DEF Advised
  <2>2. /\ p.verdict.motor = FallbackMotor(m)
        /\ p.verdict.dirt = FallbackDirt(m)
      BY <2>1, FallbackVerdict DEF Advised
  <2>3. /\ m.motor_current_a \in Int /\ m.motor_temperature_c \in Int /\ m.dirt_score \in Int
      BY ReadingType DEF Telemetry
  <2>4. FallbackDirt(m) = DirtLevel(m)
      BY <2>3 DEF FallbackDirt, DirtLevel, Band
  <2>5. MotorHealth(m) = IF FallbackMotor(m) = "FAULT" THEN "OVERHEATED" ELSE FallbackMotor(m)
      BY <2>3 DEF MotorHealth, FallbackMotor
  <2> QED
      BY <2>1, <2>2, <2>4, <2>5, Zenon
<1> QED
    BY <1>1, AdvisedCorrect, PTL

\* Whatever the forecast, a verdict on a motor in trouble is not good news.
LEMMA TroubleIsNoNews ==
    ASSUME NEW m \in Readings, NEW verdict \in Predict(m), NEW forecast,
           (~loaded /\ MotorHealth(m) # "NORMAL") \/ m.motor_current_a >= OVERLOAD
    PROVE  Recommendation(verdict, forecast) # "Normal operation"
<1>1. /\ m.motor_current_a \in 0 .. 100 /\ m.motor_temperature_c \in Int
    BY ReadingType DEF Telemetry
<1>2. CASE ~loaded
  <2>1. MotorHealth(m) # "NORMAL"
      BY <1>1, <1>2 DEF MotorHealth, OVERLOAD
  <2>2. FallbackMotor(m) # "NORMAL"
      BY <1>1, <2>1 DEF MotorHealth, FallbackMotor
  <2>3. FallbackHealth(m) \in {"CRITICAL", "WARNING"}
      BY <2>2 DEF FallbackHealth, FallbackMotor
  <2>4. verdict.health = FallbackHealth(m)
      BY <1>2, FallbackVerdict
  <2> QED
      BY <2>3, <2>4, Zenon DEF Recommendation
<1>3. CASE loaded
  <2>1. m.motor_current_a >= 35 /\ m["motor_current_a"] = m.motor_current_a
    <3>1. m.motor_current_a >= OVERLOAD
        BY <1>3
    <3> QED
        BY <3>1 DEF OVERLOAD
  <2>2. PICK mean \in Nat, std \in Nat : LEARNED["motor_current_a"] = [mean |-> mean, std |-> std]
    <3>1. LEARNED["motor_current_a"] \in [mean : Nat, std : Nat]
        BY ForecastAssumption DEF Features
    <3> QED
        BY <3>1
  <2>3. Z_THRESHOLD * std \in Nat
      BY ForecastAssumption
  <2>4. 10 * (10 * 35 - mean) > Z_THRESHOLD * std
      BY <2>2, DetectorAssumption DEF OVERLOAD
  <2>5. 10 * (10 * m.motor_current_a - mean) > Z_THRESHOLD * std
    <3> DEFINE limit == Z_THRESHOLD * std
    <3>1. limit \in Nat /\ 10 * (10 * 35 - mean) > limit
        BY <2>3, <2>4
    <3> HIDE DEF limit
    <3>2. 10 * (10 * m.motor_current_a - mean) > limit
        BY <3>1, <2>1, <1>1
    <3> QED
        BY <3>2 DEF limit
  <2>6. Deviates(m, "motor_current_a")
      BY <2>1, <2>2, <2>5 DEF Deviates
  <2>7. verdict \in Trained(m)
      BY <1>3, Zenon DEF Predict
  <2>8. verdict.anomaly
      BY <2>6, <2>7, Zenon DEF Trained, Features
  <2> QED
      BY <2>8, Zenon DEF Recommendation
<1> QED
    BY <1>2, <1>3

\* A motor the State Engine raises an alarm for, and with trained models the
\* injected overload, is told in the prediction and in a what-if.
THEOREM MotorTroubleTold == Spec => []MotorTroubleIsTold
<1>1. AdvisedInv => MotorTroubleIsTold
  <2> SUFFICES ASSUME AdvisedInv, NEW m \in Readings,
                      (~loaded /\ MotorHealth(m) # "NORMAL") \/ m.motor_current_a >= OVERLOAD
               PROVE  /\ \A p \in prediction : p.reading = m => p.advice # "Normal operation"
                      /\ "Normal operation" \notin WhatIf(m)
      BY DEF MotorTroubleIsTold
  <2>1. \A verdict \in Predict(m) : \A forecast :
            Recommendation(verdict, forecast) # "Normal operation"
      BY TroubleIsNoNews
  <2> QED
      BY <2>1, Zenon DEF AdvisedInv, Advised, WhatIf
<1> QED
    BY <1>1, AdvisedCorrect, PTL

\* The classifier is taught nothing milder than the State Engine's rules.
THEOREM LabelsCorrect == Spec => []LabelsNoMilder
<1>1. AdvisedInv => LabelsNoMilder
  <2> SUFFICES ASSUME NEW m \in Readings, MotorHealth(m) # "NORMAL"
               PROVE  LabelMotorHealth(m) # "NORMAL"
      BY DEF AdvisedInv, Advised, LabelsNoMilder
  <2>1. m.motor_current_a \in Int /\ m.motor_temperature_c \in Int
      BY ReadingType DEF Telemetry
  <2>2. FallbackMotor(m) # "NORMAL"
      BY <2>1 DEF MotorHealth, FallbackMotor
  <2> QED
      BY <2>2, Zenon DEF LabelMotorHealth
<1> QED
    BY <1>1, AdvisedCorrect, PTL

-----------------------------------------------------------------------------
(* The battery *)

LEMMA LeastExists ==
    ASSUME NEW S \in SUBSET Nat, S # {}
    PROVE  \E i \in S : \A j \in S : i <= j
<1> DEFINE R == OpToRel(<, Nat)
<1>1. PICK i \in S : \A j \in S : ~ (<<j, i>> \in R)
    BY NatLessThanWellFounded, WFMin
<1>2. \A j \in S : ~ (j < i)
    BY <1>1 DEF OpToRel
<1> QED
    BY <1>2

\* The window's indices, as the properties name them.
Window(h) == {i \in DOMAIN h : Youngest(h).t - h[i].t <= WINDOW}

\* The oldest point of the window and the youngest of all.
LEMMA WindowEnds ==
    ASSUME NEW h \in Seq(Points), h # <<>>
    PROVE  /\ Recent(h) = Window(h) /\ Window(h) \subseteq 1 .. Len(h)
           /\ Len(h) \in Window(h)
           /\ \E first \in Window(h) : /\ \A j \in Window(h) : first <= j
                                       /\ Oldest(h) = h[first]
<1>1. Len(h) \in Nat \ {0} /\ DOMAIN h = 1 .. Len(h)
    OBVIOUS
<1>2. h[Len(h)] \in Points
    BY <1>1
<1>3. h[Len(h)].t \in Nat
    BY <1>2 DEF Points
<1>4. h[Len(h)].t - h[Len(h)].t <= WINDOW
    BY <1>3, ForecastAssumption
<1>5. Recent(h) = Window(h)
    BY DEF Recent, Window, Youngest
<1>6. Len(h) \in Window(h) /\ Window(h) \subseteq 1 .. Len(h)
    BY <1>1, <1>4 DEF Window, Youngest
<1>7. \E i \in Window(h) : \A j \in Window(h) : i <= j
    BY <1>1, <1>6, LeastExists
<1>8. LET first == CHOOSE i \in Recent(h) : \A j \in Recent(h) : i <= j
      IN  first \in Window(h) /\ (\A j \in Window(h) : first <= j) /\ Oldest(h) = h[first]
    BY <1>5, <1>7, Zenon DEF Oldest
<1> QED
    BY <1>5, <1>6, <1>8, Zenon

\* A battery that only falls in a window of enough points has a trend.
LEMMA FallIsTrend ==
    ASSUME NEW h \in Seq(Points), Cardinality(Window(h)) >= MIN_POINTS,
           \A i, j \in Window(h) : i < j => h[j].v < h[i].v /\ h[i].t < h[j].t
    PROVE  HasTrend(h) /\ Rise(h) < 0
<1>1. MIN_POINTS \in Nat /\ MIN_POINTS >= 2
    BY ForecastAssumption
<1>2. IsFiniteSet(1 .. Len(h)) /\ Cardinality(1 .. Len(h)) = Len(h)
  <2>1. Len(h) \in Nat /\ 1 \in Int
      OBVIOUS
  <2> QED
      BY <2>1, FS_Interval
<1>3. Window(h) \subseteq 1 .. Len(h)
    BY DEF Window
<1>4. /\ Cardinality(Window(h)) \in Nat /\ IsFiniteSet(Window(h))
      /\ Cardinality(Window(h)) <= Len(h)
    BY <1>2, <1>3, FS_Subset, FS_CardinalityType
<1>5. Len(h) >= MIN_POINTS /\ h # <<>>
    BY <1>1, <1>4
<1>6. PICK first \in Window(h) : (\A j \in Window(h) : first <= j) /\ Oldest(h) = h[first]
    BY <1>5, WindowEnds
<1>7. Len(h) \in Window(h) /\ Recent(h) = Window(h)
    BY <1>5, WindowEnds
<1>8. first < Len(h)
  <2> SUFFICES ASSUME ~(first < Len(h)) PROVE FALSE
      OBVIOUS
  <2>1. Window(h) = {Len(h)}
      BY <1>3, <1>6, <1>7
  <2>2. Cardinality({Len(h)}) = 1
      BY FS_Singleton
  <2> QED
      BY <1>1, <2>1, <2>2
<1>9. h[Len(h)].v < h[first].v /\ h[first].t < h[Len(h)].t
    BY <1>6, <1>7, <1>8
<1>10. /\ h[first].t \in Int /\ h[first].v \in Int
       /\ h[Len(h)].t \in Int /\ h[Len(h)].v \in Int
  <2>1. h[first] \in Points /\ h[Len(h)] \in Points
      BY <1>3, <1>6, <1>7
  <2> QED
      BY <2>1, PointType
<1>11. Youngest(h).t # Oldest(h).t /\ Youngest(h).v - Oldest(h).v < 0
    BY <1>6, <1>9, <1>10 DEF Youngest
<1> QED
    BY <1>5, <1>7, <1>11 DEF HasTrend, Rise

\* A battery that does not fall in the window is not forecast to be empty.
LEMMA NoFallNoForecast ==
    ASSUME NEW h \in Seq(Points), NEW soc,
           \A i, j \in Window(h) : i <= j => h[i].v <= h[j].v
    PROVE  BatteryMinutesToEmpty(h, soc) = {}
<1> SUFFICES ASSUME HasTrend(h), Rise(h) < 0 PROVE FALSE
    BY Zenon DEF BatteryMinutesToEmpty
<1>1. h # <<>>
    BY ForecastAssumption DEF HasTrend
<1>2. PICK first \in Window(h) : (\A j \in Window(h) : first <= j) /\ Oldest(h) = h[first]
    BY <1>1, WindowEnds
<1>3. Len(h) \in Window(h) /\ Window(h) \subseteq 1 .. Len(h)
    BY <1>1, WindowEnds
<1>4. h[first].v <= h[Len(h)].v
    BY <1>2, <1>3
<1>5. h[first].v \in Int /\ h[Len(h)].v \in Int
  <2>1. h[first] \in Points /\ h[Len(h)] \in Points
      BY <1>2, <1>3
  <2> QED
      BY <2>1, PointType
<1>6. h[Len(h)].v - h[first].v < 0
    BY <1>2 DEF Rise, Youngest
<1> QED
    BY <1>4, <1>5, <1>6

LEMMA HistoryType == TypeOK => socHistory \in Seq(Points)
  BY DEF TypeOK, Histories, Points

\* A robot that has only been discharging, and is down to the level at which it
\* must return, is never told that all is well, however its readings fall.
THEOREM EmptyBatteryTold == Spec => []EmptyBatteryIsTold
<1>1. TypeOK /\ AdvisedInv => EmptyBatteryIsTold
  <2> SUFFICES ASSUME TypeOK, NEW p \in prediction, Advised(p),
                      p.reading.battery_soc <= RETURN_SOC,
                      Cardinality(Window(socHistory)) >= MIN_POINTS,
                      \A i, j \in Window(socHistory) : i < j =>
                          /\ socHistory[j].v < socHistory[i].v
                          /\ socHistory[i].t < socHistory[j].t
               PROVE  p.advice # "Normal operation"
      BY DEF AdvisedInv, EmptyBatteryIsTold, Window
  <2>1. PICK soc \in 0 .. 100 : soc = p.reading.battery_soc
      BY ReadingType DEF Advised, Telemetry
  <2>2. HasTrend(socHistory) /\ Rise(socHistory) < 0
      BY HistoryType, FallIsTrend
  <2>3. soc - RETURN_SOC <= 0
      BY <2>1, ForecastAssumption
  <2>4. BatteryMinutesToEmpty(socHistory, soc) = {"zero"}
      BY <2>2, <2>3, Zenon DEF BatteryMinutesToEmpty, Lasts
  <2>5. p.advice = Recommendation(p.verdict, {"zero"})
      BY <2>1, <2>4 DEF Advised
  <2> QED
      BY <2>5, Zenon DEF Recommendation
<1> QED
    BY <1>1, TypeCorrect, AdvisedCorrect, PTL

\* A robot that has not discharged within the window is not sent home for its
\* battery.
THEOREM ForecastsFade == Spec => []ForecastFades
<1>1. TypeOK /\ AdvisedInv => ForecastFades
  <2> SUFFICES ASSUME TypeOK, NEW p \in prediction, Advised(p),
                      \A i, j \in Window(socHistory) : i <= j =>
                          socHistory[i].v <= socHistory[j].v
               PROVE  p.toEmpty = {} /\ p.advice # "Battery low"
      BY DEF AdvisedInv, ForecastFades, Window
  <2>1. BatteryMinutesToEmpty(socHistory, p.reading.battery_soc) = {}
      BY HistoryType, NoFallNoForecast
  <2>2. p.toEmpty = {} /\ p.advice = Recommendation(p.verdict, {})
      BY <2>1, Zenon DEF Advised, Rounded
  <2> QED
      BY <2>2, Zenon DEF Recommendation
<1> QED
    BY <1>1, TypeCorrect, AdvisedCorrect, PTL

-----------------------------------------------------------------------------
(* What the models see: HealthModels *)

\* The readings the motor model can produce.
Currents == {5, 6, 9, 35}
Temperatures == 2500 .. 3104
SensorsInv ==
    /\ motor_current_a \in Currents /\ motor_temperature_c \in Temperatures
    /\ speed_mps \in {0, 2} /\ battery_a \in {5, 12, 15}
    /\ brush_on \in BOOLEAN /\ inject_motor_overload \in BOOLEAN

LEMMA MinMax ==
    ASSUME NEW a \in Int, NEW b \in Int
    PROVE  /\ (a <= b => H!Min({a, b}) = a) /\ (b <= a => H!Min({a, b}) = b)
           /\ (a <= b => H!Max({a, b}) = b) /\ (b <= a => H!Max({a, b}) = a)
<1>1. H!Min({a, b}) \in {a, b} /\ \A y \in {a, b} : H!Min({a, b}) <= y
  <2>1. \E x \in {a, b} : \A y \in {a, b} : x <= y
      OBVIOUS
  <2> QED
      BY <2>1, Zenon DEF H!Min
<1>2. H!Max({a, b}) \in {a, b} /\ \A y \in {a, b} : H!Max({a, b}) >= y
  <2>1. \E x \in {a, b} : \A y \in {a, b} : x >= y
      OBVIOUS
  <2> QED
      BY <2>1, Zenon DEF H!Max
<1> QED
    BY <1>1, <1>2

LEMMA ClipIs ==
    ASSUME NEW x \in Int, NEW low \in Int, NEW high \in Int, low <= high
    PROVE  H!Clip(x, low, high) = IF x < low THEN low ELSE IF x > high THEN high ELSE x
<1>1. PICK m \in Int : m = H!Min({high, x}) /\ m = IF high <= x THEN high ELSE x
    BY MinMax
<1>2. H!Clip(x, low, high) = H!Max({low, m})
    BY <1>1 DEF H!Clip
<1>3. H!Max({low, m}) = IF low >= m THEN low ELSE m
    BY MinMax
<1> QED
    BY <1>1, <1>2, <1>3

Within(h, low, high) == H!Min({high, H!Max({low, h})})

LEMMA WithinIs ==
    ASSUME NEW h \in Int, NEW low \in Int, NEW high \in Int, low <= h, h <= high
    PROVE  Within(h, low, high) = h
<1>1. H!Max({low, h}) = h
    BY MinMax
<1>2. H!Min({high, h}) = h
    BY MinMax
<1> QED
    BY <1>1, <1>2, Zenon DEF Within

LEMMA WarmedRange ==
    ASSUME NEW t \in Temperatures, NEW c \in Currents
    PROVE  H!Warmed(t, c) \subseteq Temperatures
<1> DEFINE exact == 60 * t + 50 * c - 3 * (t - 2500)
           q == exact \div 60
<1>1. q \in 2500 .. 3103
    BY Z3 DEF Currents, Temperatures
<1>2. H!Warmed(t, c) = {Within(h, 2000, 12000) : h \in {q, q + 1}}
    BY DEF H!Warmed, Within
<1>3. q \in 2500 .. 3104 /\ q + 1 \in 2500 .. 3104
    BY <1>1
<1> HIDE DEF q
<1>4. Within(q, 2000, 12000) = q /\ Within(q + 1, 2000, 12000) = q + 1
    BY <1>3, WithinIs
<1>5. \A k \in H!Warmed(t, c) : k = q \/ k = q + 1
    BY <1>2, <1>4
<1> QED
    BY <1>3, <1>5 DEF Temperatures

LEMMA SensorsInit == H!Init => SensorsInv
<1> SUFFICES ASSUME H!Init PROVE SensorsInv
    OBVIOUS
<1>1. motor_current_a \in Currents /\ battery_a \in {5, 12, 15}
    BY DEF H!Init, Currents
<1>2. motor_temperature_c \in Temperatures
    BY DEF H!Init, Temperatures
<1>3. brush_on \in BOOLEAN /\ inject_motor_overload \in BOOLEAN
    BY Zenon DEF H!Init
<1>4. speed_mps \in {0, 2}
    BY DEF H!Init
<1> QED
    BY <1>1, <1>2, <1>3, <1>4 DEF SensorsInv

LEMMA EitherIsBoolean == \A p, q : (p \/ q) \in BOOLEAN
  OBVIOUS

LEMMA SensorsStep == SensorsInv /\ [H!Next]_(H!vars) => SensorsInv'
<1> SUFFICES ASSUME SensorsInv, [H!Next]_(H!vars) PROVE SensorsInv'
    OBVIOUS
<1>1. H!Overload \in Currents
    BY DEF SensorsInv, Currents, Temperatures, H!Overload
<1>2. ASSUME NEW brush \in BOOLEAN, NEW c \in Currents, H!UpdateConsumables(brush, c)
      PROVE  /\ motor_current_a' \in Currents /\ battery_a' \in {5, 12, 15}
             /\ motor_temperature_c' \in Temperatures
  <2>1. motor_current_a' \in Currents /\ battery_a' \in {5, 12, 15}
      BY <1>2 DEF H!UpdateConsumables, Currents
  <2>2. motor_temperature_c' \in H!Warmed(motor_temperature_c, motor_current_a')
      BY <1>2 DEF H!UpdateConsumables
  <2>3. motor_temperature_c \in Temperatures
      BY DEF SensorsInv, Currents, Temperatures
  <2>4. H!Warmed(motor_temperature_c, motor_current_a') \subseteq Temperatures
      BY <2>1, <2>3, WarmedRange, Zenon
  <2> QED
      BY <2>1, <2>2, <2>4
<1>3. ASSUME NEW resumes \in BOOLEAN, H!Work(resumes) PROVE SensorsInv'
  <2>1. brush_on' \in BOOLEAN
    <3>1. brush_on' = (brush_on \/ resumes)
        BY <1>3 DEF H!Work
    <3> QED
        BY <3>1, EitherIsBoolean
  <2>2. /\ H!UpdateConsumables(brush_on', H!Overload) /\ speed_mps' = 2
        /\ inject_motor_overload' = inject_motor_overload
      BY <1>3 DEF H!Work
  <2> QED
      BY <1>1, <1>2, <2>1, <2>2 DEF SensorsInv, Currents, Temperatures
<1>4. CASE H!ManualTick
    BY <1>2, <1>4 DEF H!ManualTick, SensorsInv
<1>5. ASSUME NEW resumes \in BOOLEAN, H!Passes(resumes) PROVE SensorsInv'
  <2>1. brush_on' \in BOOLEAN
    <3>1. brush_on' = (brush_on \/ resumes)
        BY <1>5 DEF H!Passes
    <3> QED
        BY <3>1, EitherIsBoolean
  <2> QED
      BY <1>1, <1>5, <2>1 DEF H!Passes, SensorsInv
<1>6. ASSUME NEW brush \in BOOLEAN, H!Waits(brush) PROVE SensorsInv'
    BY <1>6 DEF H!Waits, SensorsInv
<1>7. CASE H!ManualStep
    BY <1>7 DEF H!ManualStep, SensorsInv
<1>8. ASSUME NEW on \in BOOLEAN, H!Brush(on) \/ H!InjectFault(on) PROVE SensorsInv'
    BY <1>8 DEF H!Brush, H!InjectFault, SensorsInv
<1>9. CASE UNCHANGED H!vars
    BY <1>9 DEF H!vars, SensorsInv
<1> QED
    BY <1>3, <1>4, <1>5, <1>6, <1>7, <1>8, <1>9 DEF H!Next

LEMMA SameFeatures ==
    ASSUME SensorsInv, NEW soc \in Levels, NEW water \in Levels, NEW pump \in BOOLEAN
    PROVE  H!Hw4Features(soc, water, pump) = H!Hw4DatasetRow(soc, water, pump)
<1>1. soc \in 0 .. 100
    BY LevelsAssumption
<1> DEFINE noise == 84 + (IF brush_on THEN 24 ELSE 0) + (IF pump THEN 16 ELSE 0) + speed_mps
<1>2. 2 * (42 + (IF brush_on THEN 12 ELSE 0) + (IF pump THEN 8 ELSE 0)) + speed_mps = noise
    BY DEF SensorsInv, Currents, Temperatures
<1>3. H!Clip(noise, 70, 160) = noise
  <2>1. noise \in 84 .. 126
      BY DEF SensorsInv, Currents, Temperatures
  <2> HIDE DEF noise
  <2> QED
      BY <2>1, ClipIs
<1>4. H!Clip(12 * speed_mps, 0, 70) = 12 * speed_mps
  <2> DEFINE x == 12 * speed_mps
  <2>1. x \in 0 .. 24
      BY DEF SensorsInv, Currents, Temperatures
  <2> HIDE DEF x
  <2>2. H!Clip(x, 0, 70) = x
      BY <2>1, ClipIs
  <2> QED
      BY <2>2 DEF x
<1>5. H!Clip(50 * speed_mps + 100, 50, 800) = 50 * speed_mps + 100
  <2> DEFINE x == 50 * speed_mps + 100
  <2>1. x \in 100 .. 200
      BY DEF SensorsInv, Currents, Temperatures
  <2> HIDE DEF x
  <2>2. H!Clip(x, 50, 800) = x
      BY <2>1, ClipIs
  <2> QED
      BY <2>2 DEF x
<1>6. H!Clip(20 * motor_current_a, 0, 700) = 20 * motor_current_a
  <2> DEFINE x == 20 * motor_current_a
  <2>1. x \in 100 .. 700
      BY DEF SensorsInv, Currents, Temperatures
  <2> HIDE DEF x
  <2>2. H!Clip(x, 0, 700) = x
      BY <2>1, ClipIs
  <2> QED
      BY <2>2 DEF x
<1>7. H!Clip(100 - soc, 0, 100) = 100 - soc
  <2> DEFINE x == 100 - soc
  <2>1. x \in 0 .. 100
      BY <1>1
  <2> HIDE DEF x
  <2>2. H!Clip(x, 0, 100) = x
      BY <2>1, ClipIs
  <2> QED
      BY <2>2 DEF x
<1> QED
    BY <1>2, <1>3, <1>4, <1>5, <1>6, <1>7 DEF H!Hw4Features, H!Hw4DatasetRow

LEMMA SensorsTrained == SensorsInv => H!TrainedOnWhatIsReported
<1> SUFFICES ASSUME SensorsInv PROVE H!TrainedOnWhatIsReported
    OBVIOUS
<1>1. H!DatasetRanges
    BY DEF SensorsInv, Currents, Temperatures, H!DatasetRanges
<1> QED
    BY <1>1, SameFeatures DEF H!TrainedOnWhatIsReported

\* How far from the mean counts as an anomaly, sensor by sensor.
LEMMA Deviation ==
    ASSUME NEW a \in Int, NEW b \in Int
    PROVE  H!Max({a - b, b - a}) = IF a >= b THEN a - b ELSE b - a
<1>1. PICK x \in Int, y \in Int : x = a - b /\ y = b - a
    OBVIOUS
<1>2. H!Max({x, y}) = IF x >= y THEN x ELSE y
    BY MinMax
<1> QED
    BY <1>1, <1>2

LEMMA SensorsFlagged == SensorsInv => H!FlagsOverload
<1> SUFFICES ASSUME SensorsInv, battery_a # 5 PROVE H!AnomalyPredict <=> motor_current_a = 35
    BY DEF H!FlagsOverload
<1> DEFINE Far(a, mean, std) == 10 * H!Max({a - mean, mean - a}) > 45 * std
<1>1. H!AnomalyPredict <=> \/ Far(10 * motor_current_a, 75, 18)
                           \/ Far(motor_temperature_c, 4200, 1100)
                           \/ Far(100 * speed_mps, 155, 74) \/ Far(10 * battery_a, 135, 12)
    BY DEF H!AnomalyPredict, H!Learned, H!ANOMALY_Z_THRESHOLD
<1>2. ASSUME NEW a \in Int, NEW mean \in Int, NEW std \in Int
      PROVE  Far(a, mean, std) <=> 10 * (IF a >= mean THEN a - mean ELSE mean - a) > 45 * std
    BY Deviation
<1> HIDE DEF Far
<1>3. Far(10 * motor_current_a, 75, 18) <=> motor_current_a = 35
    BY <1>2 DEF SensorsInv, Currents, Temperatures
<1>4. ~Far(motor_temperature_c, 4200, 1100)
    BY <1>2 DEF SensorsInv, Currents, Temperatures
<1>5. ~Far(100 * speed_mps, 155, 74)
    BY <1>2 DEF SensorsInv, Currents, Temperatures
<1>6. ~Far(10 * battery_a, 135, 12)
    BY <1>2 DEF SensorsInv, Currents, Temperatures
<1> QED
    BY <1>1, <1>3, <1>4, <1>5, <1>6

LEMMA SensorsMonotone == SensorsInv => H!WorseIsNoHealthier
<1> SUFFICES ASSUME SensorsInv, NEW s1 \in Levels, NEW s2 \in Levels, NEW w1 \in Levels,
                    NEW w2 \in Levels, s2 <= s1, w2 <= w1
             PROVE  LET better == H!Hw4Features(s1, w1, FALSE)
                        worse  == H!Hw4Features(s2, w2, FALSE)
                    IN  /\ H!HealthState(worse) = "NORMAL" => H!HealthState(better) = "NORMAL"
                        /\ H!HealthState(better) = "CRITICAL" => H!HealthState(worse) = "CRITICAL"
                        /\ H!RemainingUsefulLife(worse) <= H!RemainingUsefulLife(better)
    BY DEF H!WorseIsNoHealthier
<1> DEFINE better == H!Hw4Features(s1, w1, FALSE)
           worse  == H!Hw4Features(s2, w2, FALSE)
           base == 14 * (motor_temperature_c - 2500) + 1750 * (12 * speed_mps - 5)
                   + 90 * (20 * motor_current_a)
<1>1. s1 \in 0 .. 100 /\ s2 \in 0 .. 100 /\ w1 \in 0 .. 100 /\ w2 \in 0 .. 100 /\ base \in Int
    BY LevelsAssumption DEF SensorsInv, Currents, Temperatures
<1>2. /\ H!RiskScore(better) = base + 490 * (100 - s1) + 350 * (100 - w1)
      /\ H!RiskScore(worse) = base + 490 * (100 - s2) + 350 * (100 - w2)
    BY DEF H!RiskScore, H!Hw4Features
<1>3. /\ better.age = 100 - s1 /\ better.maintenance = w1 /\ better.load = 20 * motor_current_a
      /\ worse.age = 100 - s2 /\ worse.maintenance = w2 /\ worse.load = 20 * motor_current_a
    BY DEF H!Hw4Features
<1> HIDE DEF better, worse, base
<1>4. /\ H!RiskScore(better) \in Int /\ H!RiskScore(worse) \in Int
      /\ H!RiskScore(better) <= H!RiskScore(worse)
    BY <1>1, <1>2
<1>5. /\ H!HealthState(worse) = "NORMAL" => H!HealthState(better) = "NORMAL"
      /\ H!HealthState(better) = "CRITICAL" => H!HealthState(worse) = "CRITICAL"
    BY <1>4 DEF H!HealthState
<1>6. H!RemainingUsefulLife(worse) <= H!RemainingUsefulLife(better)
  <2> DEFINE Left(f) == 2100000 - 4 * H!RiskScore(f) - 14000 * f.age + 8750 * f.maintenance
                        - 1000 * f.load
  <2>1. Left(worse) \in Int /\ Left(better) \in Int /\ Left(worse) <= Left(better)
      BY <1>1, <1>3, <1>4 DEF SensorsInv, Currents, Temperatures
  <2>2. /\ H!RemainingUsefulLife(worse) = H!Clip(Left(worse), 87500, 2275000)
        /\ H!RemainingUsefulLife(better) = H!Clip(Left(better), 87500, 2275000)
      BY DEF H!RemainingUsefulLife
  <2> HIDE DEF Left
  <2> QED
      BY <2>1, <2>2, ClipIs
<1> QED
    BY <1>5, <1>6 DEF better, worse

-----------------------------------------------------------------------------
(* Both parts *)

\* The service at work behaves as AiForecast says.
THEOREM ServiceForecasts == ServiceSpec => Spec
<1>1. ServiceInit => Init
    BY DEF ServiceInit
<1>2. [ServiceNext]_<<part, vars, sensors>> => [Next]_vars
    BY DEF ServiceNext
<1> QED
    BY <1>1, <1>2, PTL DEF ServiceSpec, Spec

\* The sensors stay in the ranges the motor model can reach.
THEOREM SensorsCorrect == ServiceSpec => []SensorsInv
<1>1. ServiceInit => SensorsInv
    BY SensorsInit DEF ServiceInit
<1>2. SensorsInv /\ [ServiceNext]_<<part, vars, sensors>> => SensorsInv'
  <2>1. [ServiceNext]_<<part, vars, sensors>> => [H!Next]_(H!vars)
      BY DEF ServiceNext, sensors, H!vars
  <2> QED
      BY <2>1, SensorsStep
<1> QED
    BY <1>1, <1>2, PTL DEF ServiceSpec

\* The features computed in service are those of the training data, whatever
\* the levels of battery and tank, and so are their ranges.
THEOREM TrainedCorrect == ServiceSpec => []TrainedOnWhatIsReported
<1>1. SensorsInv => TrainedOnWhatIsReported
    BY SensorsTrained DEF TrainedOnWhatIsReported
<1> QED
    BY <1>1, SensorsCorrect, PTL

\* The anomaly detector flags a working robot's reading exactly when it
\* carries the overload.
THEOREM FlagsCorrect == ServiceSpec => []FlagsOverload
<1>1. SensorsInv => FlagsOverload
    BY SensorsFlagged DEF FlagsOverload
<1> QED
    BY <1>1, SensorsCorrect, PTL

\* A robot with less battery or water is never judged healthier and never
\* promised more useful life.
THEOREM MonotoneCorrect == ServiceSpec => []WorseIsNoHealthier
<1>1. SensorsInv => WorseIsNoHealthier
    BY SensorsMonotone DEF WorseIsNoHealthier
<1> QED
    BY <1>1, SensorsCorrect, PTL
=============================================================================
