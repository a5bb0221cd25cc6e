------------------------- MODULE TwinPipelineProofs -------------------------
(***************************************************************************)
(* Proofs about the telemetry pipeline, for any readings, any number of     *)
(* replicas of the ingestion service and any number of faults: the types,   *)
(* that what was judged is recorded, that the state is written after its    *)
(* alarms, and that every step is a step of TwinMirror or changes nothing   *)
(* it speaks of.                                                            *)
(***************************************************************************)
EXTENDS TwinPipeline, TLAPS

-----------------------------------------------------------------------------
(* The judgement *)

\* The rules give every valid message a state of the schema.
LEMMA EvaluateType ==
    ASSUME NEW m \in Telemetry, NEW h \in BOOLEAN, NEW g \in Nat
    PROVE  Evaluate(m, h, g) \in DigitalTwinState
<1> USE DEF Telemetry
<1>1. SafetyState(m) \in SafetyStates
    BY DEF SafetyState, Band, SafetyStates
<1>2. MotionState(m) \in MotionStates
    BY <1>1 DEF MotionState, MotionStates, SafetyStates
<1>3. OperationMode(m) \in OperationModes
    BY DEF OperationMode, OperationModes
<1>4. BatteryState(m) \in BatteryStates
    BY DEF BatteryState, Band, BatteryStates
<1>5. CleaningState(m) \in CleaningStates
    BY DEF CleaningState, CleaningStates
<1>6. MotorHealth(m) \in MotorStates
    BY DEF MotorHealth, MotorStates
<1>7. DirtLevel(m) \in DirtLevels
    BY DEF DirtLevel, Band, DirtLevels
<1>8. MissionState(m) \in MissionStates
    BY DEF MissionState, MissionStates
<1>9. Age(h, g) \in {"fresh", "late", "lost"}
    BY AgeAssumption DEF Age
<1>10. ConnectionState(h, g) \in ConnectionStates
    BY <1>9 DEF ConnectionState, ConnectionStates
<1>11. TwinQuality(h, g) \in TwinQualities
    BY <1>9 DEF TwinQuality, TwinQualities
<1>12. Alarms(m) \in SUBSET AlarmTypes
    BY DEF Alarms, CriticalAlarms, AlarmTypes
<1> HIDE DEF Telemetry
<1> QED
    BY <1>1, <1>2, <1>3, <1>4, <1>5, <1>6, <1>7, <1>8, <1>10, <1>11, <1>12
    DEF Evaluate, DigitalTwinState

\* The alarms of a message are known ones, whatever it holds.
LEMMA AlarmsType == \A m : Alarms(m) \subseteq AlarmTypes
    BY DEF Alarms, CriticalAlarms, AlarmTypes

-----------------------------------------------------------------------------
(* Queues *)

\* Everything that is queued refers to a reading that was taken.
Packet == [msg : Carried, sent : BOOLEAN]

\* What is known of a queue whose head is taken.
LEMMA HeadAndTail ==
    ASSUME NEW S, NEW s \in Seq(S), s # <<>>
    PROVE  /\ Head(s) \in S
           /\ Tail(s) \in Seq(S)
           /\ \A i \in DOMAIN Tail(s) : i + 1 \in DOMAIN s /\ Tail(s)[i] = s[i + 1]
           /\ 1 \in DOMAIN s /\ Head(s) = s[1]
    OBVIOUS

\* What is known of a queue that grows.
LEMMA AppendType ==
    ASSUME NEW S, NEW s \in Seq(S), NEW e \in S
    PROVE  /\ Append(s, e) \in Seq(S)
           /\ DOMAIN Append(s, e) = DOMAIN s \cup {Len(s) + 1}
           /\ Append(s, e)[Len(s) + 1] = e
           /\ \A i \in DOMAIN s : Append(s, e)[i] = s[i]
    OBVIOUS

\* A queue of few kinds is a queue of more kinds.
LEMMA SeqMonotone ==
    ASSUME NEW S, NEW T, S \subseteq T, NEW s \in Seq(S)
    PROVE  s \in Seq(T)
    OBVIOUS

\* What goes out again after a reconnection carries the same readings.
LEMMA SentAgainType ==
    ASSUME NEW box \in Seq(Packet)
    PROVE  /\ SentAgain(box) \in Seq(Packet)
           /\ DOMAIN SentAgain(box) = DOMAIN box
           /\ \A i \in DOMAIN box : SentAgain(box)[i].msg.n = box[i].msg.n
<1> DEFINE packet(i) == Unsent(Message(box[i].msg.n, TRUE))
<1>1. \A i \in DOMAIN box : box[i] \in Packet
    OBVIOUS
<1>2. \A i \in DOMAIN box : packet(i) \in Packet
    BY <1>1 DEF Packet, Carried, Unsent, Message
<1>3. \A i \in DOMAIN box : packet(i).msg.n = box[i].msg.n
    BY DEF Unsent, Message
<1>4. DOMAIN box = 1 .. Len(box) /\ Len(box) \in Nat
    OBVIOUS
<1>5. SentAgain(box) = [i \in DOMAIN box |-> packet(i)]
    BY DEF SentAgain
<1> HIDE DEF Packet, packet
<1> QED
    BY <1>2, <1>3, <1>4, <1>5

-----------------------------------------------------------------------------
(* Types *)

\* The readings of a queue were all taken.
LEMMA NumbersType ==
    ASSUME NEW S, NEW queue \in Seq(S), \A m \in S : m.n \in {0} \cup Numbered
    PROVE  Numbers(queue) \subseteq Numbered
<1>1. \A i \in DOMAIN queue : queue[i] \in S
    OBVIOUS
<1> QED
    BY <1>1 DEF Numbers

\* So were those that go with a session.
LEMMA DiscardedType ==
    ASSUME TypeOK, NEW c
    PROVE  Discarded(c) \subseteq Numbered
<1> DEFINE Any == Carried \cup {Intruder}
<1>1. (\A m \in Any : m.n \in {0} \cup Numbered) /\ (\A m \in Carried : m.n \in {0} \cup Numbered)
    BY DEF Carried, Intruder, Message
<1>2. raw \in Seq(Any) /\ validated \in Seq(Carried)
    BY DEF TypeOK
<1> HIDE DEF Any
<1>3. Numbers(raw) \subseteq Numbered
    BY <1>1, <1>2, NumbersType
<1>4. Numbers(validated) \subseteq Numbered
    BY <1>1, <1>2, NumbersType
<1> QED
    BY <1>3, <1>4 DEF Discarded

\* Alarms are due only while the engine is busy with the reading they are of.
Busy == alarmsDue # {} => handling # 0

LEMMA BusyStep == TypeOK /\ Busy /\ [Next]_vars => Busy'
<1> SUFFICES ASSUME TypeOK, Busy, [Next]_vars PROVE Busy'
    OBVIOUS
<1>1. CASE Judge
  <2>1. Head(validated).n \in Numbered
    <3>1. Head(validated) \in Carried
        BY <1>1, HeadAndTail DEF Judge, JudgeMessage, TypeOK
    <3> QED
        BY <3>1 DEF Carried
  <2> QED
      BY <1>1, <2>1 DEF Judge, JudgeMessage, Busy, Numbered
<1>2. ASSUME NEW a \in AlarmTypes, WriteAlarm(a) PROVE Busy'
    BY <1>2 DEF WriteAlarm, Busy
<1>3. CASE WriteState
    BY <1>3 DEF WriteState, Busy
<1>4. CASE RestartEngine
    BY <1>4 DEF RestartEngine, Busy
<1>5. CASE UNCHANGED <<handling, alarmsDue>>
    BY <1>5 DEF Busy
<1> QED
    BY <1>1, <1>2, <1>3, <1>4, <1>5
    DEF Next, Callback, EngineCallback, PublishTelemetry, Intrude, Transmit, Acknowledge,
        RestartPublisher, Reconnect, RejectInvalid, ForwardValid, WriteTelemetry, Tick,
        vars, engine

\* Every step keeps the types; only PublishTelemetry makes the sets of them grow.
LEMMA TypeStep == TypeOK /\ Busy /\ [Next]_vars => TypeOK'
<1> SUFFICES ASSUME TypeOK, Busy, [Next]_vars PROVE TypeOK'
    OBVIOUS
<1>a. Publishers \subseteq Clients /\ Replicas \subseteq Publishers /\ "simulator" \in Publishers
    BY DEF Publishers, Clients
<1>b. outbox \in [Publishers -> Seq(Packet)]
    BY DEF TypeOK, Packet
<1>c. Intruder \in Carried \cup {Intruder}
    OBVIOUS
<1>1. ASSUME NEW m \in Readings, PublishTelemetry(m) PROVE TypeOK'
  <2>1. taken' \in Seq(Readings) /\ Len(taken') = Len(taken) + 1 /\ Len(taken') <= MaxReadings
      BY <1>1, PipelineAssumption DEF PublishTelemetry, TypeOK
  <2>2. Numbered \subseteq Numbered' /\ Len(taken) + 1 \in Numbered'
      BY <2>1 DEF Numbered, TypeOK
  <2>3. Carried \subseteq Carried'
      BY <2>2 DEF Carried
  <2>4. Packet \subseteq Packet'
      BY <2>3 DEF Packet
  <2>5. Unsent(Message(Len(taken) + 1, FALSE)) \in Packet'
      BY <2>2 DEF Packet, Carried, Unsent, Message
  <2>6. outbox' \in [Publishers -> Seq(Packet')]
    <3>1. \A c \in Publishers : outbox[c] \in Seq(Packet')
        BY <1>b, <2>4, SeqMonotone
    <3>2. Append(outbox["simulator"], Unsent(Message(Len(taken) + 1, FALSE))) \in Seq(Packet')
        BY <1>a, <2>5, <3>1, AppendType
    <3> QED
        BY <1>1, <1>b, <3>1, <3>2 DEF PublishTelemetry
  <2>7. raw' \in Seq(Carried' \cup {Intruder}) /\ validated' \in Seq(Carried')
    <3>1. Carried \cup {Intruder} \subseteq Carried' \cup {Intruder}
        BY <2>3
    <3> QED
        BY <1>1, <2>3, <3>1, SeqMonotone DEF PublishTelemetry, TypeOK
  <2>8. Intruder' = Intruder
      BY DEF Intruder, Message
  <2>9. UNCHANGED <<holder, writing, engine, influxdb, judged, lost, budget>>
      BY <1>1 DEF PublishTelemetry
  <2>10. twin' \subseteq [n : Numbered', again : BOOLEAN, state : DigitalTwinState]
      BY <2>2, <2>9 DEF TypeOK, engine
  <2>11. alarmPoints' \subseteq Numbered' \X AlarmTypes
      BY <2>2, <2>9 DEF TypeOK, influxdb
  <2> QED
      BY <2>1, <2>2, <2>6, <2>7, <2>8, <2>9, <2>10, <2>11
      DEF TypeOK, Packet, engine, influxdb, budget
<1> DEFINE Same == /\ taken' = taken /\ Numbered' = Numbered /\ Carried' = Carried
                   /\ Packet' = Packet
<1>s. taken' = taken => Same
    BY DEF Numbered, Carried, Packet
<1>2. CASE Intrude
  <2>1. raw' \in Seq(Carried \cup {Intruder})
      BY <1>2, <1>c, AppendType DEF Intrude, TypeOK
  <2>2. intrusions' \in 0 .. MaxIntrusions
      BY <1>2, PipelineAssumption DEF Intrude, TypeOK
  <2> QED
      BY <1>2, <1>s, <2>1, <2>2 DEF Intrude, TypeOK, engine, influxdb, budget
<1>3. ASSUME NEW c \in Publishers, Transmit(c) PROVE TypeOK'
  <2>1. PICK i \in DOMAIN outbox[c] :
            /\ outbox' = [outbox EXCEPT ![c][i].sent = TRUE]
            /\ \/ c = "simulator" /\ raw' = Append(raw, outbox[c][i].msg) /\ UNCHANGED validated
               \/ c \in Replicas /\ validated' = Append(validated, outbox[c][i].msg) /\ UNCHANGED raw
      BY <1>3 DEF Transmit
  <2>2. outbox[c] \in Seq(Packet) /\ outbox[c][i] \in Packet
      BY <1>b
  <2>3. outbox[c][i].msg \in Carried
      BY <2>2 DEF Packet
  <2>4. [outbox[c][i] EXCEPT !.sent = TRUE] \in Packet
      BY <2>2 DEF Packet
  <2>5. [outbox[c] EXCEPT ![i].sent = TRUE] \in Seq(Packet)
      BY <2>2, <2>4
  <2>6. outbox' \in [Publishers -> Seq(Packet)]
      BY <1>b, <2>1, <2>5
  <2>7. raw' \in Seq(Carried \cup {Intruder}) /\ validated' \in Seq(Carried)
    <3>1. Append(raw, outbox[c][i].msg) \in Seq(Carried \cup {Intruder})
        BY <2>3, AppendType DEF TypeOK
    <3>2. Append(validated, outbox[c][i].msg) \in Seq(Carried)
        BY <2>3, AppendType DEF TypeOK
    <3> QED
        BY <2>1, <3>1, <3>2 DEF TypeOK
  <2>8. UNCHANGED <<taken, holder, writing, engine, influxdb, judged, lost, budget>>
      BY <1>3 DEF Transmit
  <2> QED
      BY <1>s, <2>6, <2>7, <2>8 DEF TypeOK, Packet, engine, influxdb, budget
<1>4. ASSUME NEW c \in Publishers, Acknowledge(c) PROVE TypeOK'
  <2>1. Tail(outbox[c]) \in Seq(Packet)
      BY <1>4, <1>b, HeadAndTail DEF Acknowledge
  <2>2. outbox' \in [Publishers -> Seq(Packet)]
      BY <1>4, <1>b, <2>1 DEF Acknowledge
  <2> QED
      BY <1>4, <1>s, <2>2 DEF Acknowledge, TypeOK, Packet, engine, influxdb, budget
<1>5. ASSUME NEW c \in Clients, LoseSession(c)
      PROVE  /\ raw' \in Seq(Carried \cup {Intruder}) /\ validated' \in Seq(Carried)
             /\ holder' \in Replicas /\ faults' \in 0 .. MaxFaults
    BY <1>5, PipelineAssumption DEF LoseSession, Fault, TypeOK
<1>6. ASSUME NEW c \in Publishers, RestartPublisher(c) PROVE TypeOK'
  <2>1. raw' \in Seq(Carried \cup {Intruder}) /\ validated' \in Seq(Carried)
        /\ holder' \in Replicas /\ faults' \in 0 .. MaxFaults
      BY <1>5, <1>6, <1>a DEF RestartPublisher
  <2>2. \A i \in DOMAIN outbox[c] : outbox[c][i].msg.n \in Numbered
    <3>1. \A i \in DOMAIN outbox[c] : outbox[c][i] \in Packet
        BY <1>b
    <3> QED
        BY <3>1 DEF Packet, Carried
  <2>3. lost' \subseteq Numbered
      BY <1>6, <2>2, DiscardedType DEF RestartPublisher, TypeOK
  <2>4. outbox' \in [Publishers -> Seq(Packet)]
      BY <1>6, <1>b DEF RestartPublisher
  <2>5. writing' \in [Replicas -> SUBSET Numbered] /\ unwritten' \subseteq Numbered
      BY <1>6 DEF RestartPublisher, TypeOK
  <2> QED
      BY <1>6, <1>s, <2>1, <2>3, <2>4, <2>5
      DEF RestartPublisher, TypeOK, Packet, engine
<1>7. ASSUME NEW c \in Clients, Reconnect(c) PROVE TypeOK'
  <2>1. raw' \in Seq(Carried \cup {Intruder}) /\ validated' \in Seq(Carried)
        /\ holder' \in Replicas /\ faults' \in 0 .. MaxFaults
      BY <1>5, <1>7 DEF Reconnect
  <2>2. lost' \subseteq Numbered
      BY <1>7, DiscardedType DEF Reconnect, TypeOK
  <2>3. outbox' \in [Publishers -> Seq(Packet)]
      BY <1>7, <1>b, SentAgainType DEF Reconnect
  <2> QED
      BY <1>7, <1>s, <2>1, <2>2, <2>3 DEF Reconnect, TypeOK, Packet, engine, influxdb, budget
<1>8. CASE RestartEngine
  <2>1. raw' \in Seq(Carried \cup {Intruder}) /\ validated' \in Seq(Carried)
        /\ holder' \in Replicas /\ faults' \in 0 .. MaxFaults
      BY <1>5, <1>8 DEF RestartEngine, Clients
  <2>2. lost' \subseteq Numbered
      BY <1>8, DiscardedType DEF RestartEngine, TypeOK
  <2>3. unwritten' \subseteq Numbered
      BY <1>8 DEF RestartEngine, TypeOK
  <2>4. gap' \in 0 .. OFFLINE_AFTER + 1
    <3>1. gap' = 0
        BY <1>8 DEF RestartEngine
    <3> QED
        BY <3>1, AgeAssumption
  <2> QED
      BY <1>8, <1>s, <2>1, <2>2, <2>3, <2>4 DEF RestartEngine, TypeOK
<1>9. ASSUME NEW r \in Replicas, RejectInvalid(r) PROVE TypeOK'
  <2>1. raw' \in Seq(Carried \cup {Intruder})
      BY <1>9, HeadAndTail DEF RejectInvalid, Receives, TypeOK
  <2>2. invalidPoints' \in Nat /\ faults' \in 0 .. MaxFaults
      BY <1>9, PipelineAssumption DEF RejectInvalid, Fault, TypeOK
  <2> QED
      BY <1>9, <1>s, <2>1, <2>2 DEF RejectInvalid, TypeOK, engine
<1>10. ASSUME NEW r \in Replicas, ForwardValid(r) PROVE TypeOK'
  <2>1. raw' \in Seq(Carried \cup {Intruder}) /\ Head(raw) \in Carried
      BY <1>10, HeadAndTail DEF ForwardValid, Receives, TypeOK
  <2>2. Unsent(Head(raw)) \in Packet /\ Head(raw).n \in Numbered
      BY <2>1 DEF Packet, Unsent, Carried
  <2>3. Append(outbox[r], Unsent(Head(raw))) \in Seq(Packet)
      BY <1>a, <1>b, <2>2, AppendType
  <2>4. outbox' \in [Publishers -> Seq(Packet)]
      BY <1>10, <1>b, <2>3 DEF ForwardValid
  <2>5. writing' \in [Replicas -> SUBSET Numbered]
      BY <1>10, <2>2 DEF ForwardValid, TypeOK
  <2> QED
      BY <1>10, <1>s, <2>1, <2>4, <2>5
      DEF ForwardValid, TypeOK, Packet, engine, influxdb, budget
<1>11. ASSUME NEW r \in Replicas, WriteTelemetry(r) PROVE TypeOK'
  <2>1. /\ writing' \in [Replicas -> SUBSET Numbered]
        /\ telemetryPoints' \subseteq Numbered /\ unwritten' \subseteq Numbered
        /\ faults' \in 0 .. MaxFaults
      BY <1>11, PipelineAssumption DEF WriteTelemetry, Fault, TypeOK
  <2> QED
      BY <1>11, <1>s, <2>1 DEF WriteTelemetry, TypeOK, broker, engine
<1>12. CASE Judge
  <2> DEFINE m == Head(validated)
  <2>1. validated' \in Seq(Carried) /\ m \in Carried
      BY <1>12, HeadAndTail DEF Judge, JudgeMessage, TypeOK
  <2>2. m.n \in Numbered /\ m.again \in BOOLEAN /\ taken[m.n] \in Telemetry
      BY <2>1, PipelineAssumption DEF TypeOK, Numbered, Carried
  <2>3. Evaluate(taken[m.n], heard, gap) \in DigitalTwinState
      BY <2>2, EvaluateType, AgeAssumption DEF TypeOK
  <2>4. twin' = {[n |-> m.n, again |-> m.again, state |-> Evaluate(taken[m.n], heard, gap)]}
      BY <1>12 DEF Judge, JudgeMessage
  <2>5. twin' \subseteq [n : Numbered, again : BOOLEAN, state : DigitalTwinState]
    <3> DEFINE again == m.again
               state == Evaluate(taken[m.n], heard, gap)
    <3>1. again \in BOOLEAN /\ state \in DigitalTwinState
        BY <2>2, <2>3
    <3>2. twin' = {[n |-> m.n, again |-> again, state |-> state]}
        BY <2>4
    <3> HIDE DEF again, state, m
    <3> QED
        BY <2>2, <3>1, <3>2
  <2>6. judged' \subseteq Numbered /\ handling' \in Numbered /\ alarmsDue' \subseteq AlarmTypes
      BY <1>12, <2>2, AlarmsType DEF Judge, JudgeMessage, TypeOK
  <2>7. heard' \in BOOLEAN /\ gap' \in 0 .. OFFLINE_AFTER + 1
      BY <1>12, AgeAssumption DEF Judge, JudgeMessage
  <2> QED
      BY <1>12, <1>s, <2>1, <2>5, <2>6, <2>7 DEF Judge, JudgeMessage, TypeOK, influxdb, budget
<1>13. ASSUME NEW a \in AlarmTypes, WriteAlarm(a) PROVE TypeOK'
  <2>1. handling \in Numbered
      BY <1>13 DEF WriteAlarm, TypeOK, Busy
  <2>2. <<handling, a>> \in Numbered \X AlarmTypes
      BY <2>1, <1>13
  <2>3. alarmPoints' \subseteq Numbered \X AlarmTypes /\ unwritten' \subseteq Numbered
      BY <1>13, <2>1, <2>2 DEF WriteAlarm, TypeOK
  <2>4. alarmsDue' \subseteq AlarmTypes /\ faults' \in 0 .. MaxFaults
      BY <1>13, PipelineAssumption DEF WriteAlarm, Fault, TypeOK
  <2> QED
      BY <1>13, <1>s, <2>3, <2>4 DEF WriteAlarm, TypeOK, broker
<1>14. CASE WriteState
  <2>1. /\ handling' \in {0} \cup Numbered /\ statePoint' \in {0} \cup Numbered
        /\ unwritten' \subseteq Numbered /\ faults' \in 0 .. MaxFaults
      BY <1>14, PipelineAssumption DEF WriteState, Fault, TypeOK
  <2> QED
      BY <1>14, <1>s, <2>1 DEF WriteState, TypeOK, broker
<1>15. CASE Tick
  <2>1. gap' \in 0 .. OFFLINE_AFTER + 1
      BY <1>15, AgeAssumption DEF Tick, TypeOK
  <2> QED
      BY <1>15, <1>s, <2>1 DEF Tick, TypeOK, broker, influxdb, budget
<1>16. CASE UNCHANGED vars
    BY <1>16, <1>s DEF vars, broker, engine, influxdb, budget, TypeOK
<1> QED
    BY <1>1, <1>2, <1>3, <1>4, <1>6, <1>7, <1>8, <1>9, <1>10, <1>11, <1>12, <1>13,
       <1>14, <1>15, <1>16
    DEF Next, Callback, EngineCallback

-----------------------------------------------------------------------------
(* Theorems *)

\* The types, and with them the alarms in flight.
TypeInv == TypeOK /\ Busy

LEMMA TypeInit == Init => TypeInv
<1> SUFFICES ASSUME Init PROVE TypeInv
    OBVIOUS
<1>1. taken \in Seq(Readings) /\ Len(taken) <= MaxReadings
    BY PipelineAssumption DEF Init
<1>2. outbox \in [Publishers -> Seq([msg : Carried, sent : BOOLEAN])]
    BY DEF Init
<1>3. gap \in 0 .. OFFLINE_AFTER + 1
  <2>1. gap = 0
      BY DEF Init
  <2> QED
      BY <2>1, AgeAssumption
<1>4. intrusions \in 0 .. MaxIntrusions /\ faults \in 0 .. MaxFaults
    BY PipelineAssumption DEF Init
<1>5. raw \in Seq(Carried \cup {Intruder}) /\ validated \in Seq(Carried)
    BY DEF Init
<1>6. writing \in [Replicas -> SUBSET Numbered]
    BY DEF Init
<1>7. twin = {} /\ alarmPoints = {} /\ alarmsDue = {}
    BY DEF Init
<1> QED
    BY <1>1, <1>2, <1>3, <1>4, <1>5, <1>6, <1>7 DEF Init, TypeInv, TypeOK, Busy

LEMMA TypeInvariant == Spec => []TypeInv
<1>1. TypeInv /\ [Next]_vars => TypeInv'
    BY TypeStep, BusyStep DEF TypeInv
<1> QED
    BY <1>1, TypeInit, PTL DEF Spec

\* Every queue, table and point of the pipeline holds what it is meant to hold.
THEOREM TypeCorrect == Spec => []TypeOK
<1>1. TypeInv => TypeOK
    BY DEF TypeInv
<1> QED
    BY <1>1, TypeInvariant, PTL

-----------------------------------------------------------------------------
(* What was judged is recorded *)

\* The readings whose telemetry point exists, is about to, or whose write failed.
Recorded == telemetryPoints \cup unwritten \cup UNION {writing[r] : r \in Replicas}

\* A reading is recorded from the moment it leaves the ingestion service.
RecordedInv ==
    /\ \A r \in Replicas : \A i \in DOMAIN outbox[r] : outbox[r][i].msg.n \in Recorded
    /\ \A i \in DOMAIN validated : validated[i].n \in Recorded
    /\ \A n \in judged : n \in Recorded

\* No step takes a point away, or a pending write without a trace of it.
LEMMA RecordedForGood ==
    TypeInv /\ [Next]_vars => Recorded \subseteq Recorded'
<1> SUFFICES ASSUME TypeInv, [Next]_vars PROVE Recorded \subseteq Recorded'
    OBVIOUS
<1>1. ASSUME NEW r \in Replicas, WriteTelemetry(r) PROVE Recorded \subseteq Recorded'
    BY <1>1 DEF WriteTelemetry, Recorded, TypeInv, TypeOK
<1>2. ASSUME NEW r \in Replicas, ForwardValid(r) PROVE Recorded \subseteq Recorded'
    BY <1>2 DEF ForwardValid, Receives, Recorded, TypeInv, TypeOK, influxdb
<1>3. ASSUME NEW c \in Publishers, RestartPublisher(c) PROVE Recorded \subseteq Recorded'
  <2>1. \A r \in Replicas : writing[r] \subseteq writing'[r] \cup unwritten'
    <3>1. CASE c \in Replicas /\ writing' = [writing EXCEPT ![c] = {}]
               /\ unwritten' = unwritten \cup writing[c]
        BY <3>1 DEF TypeInv, TypeOK
    <3>2. CASE UNCHANGED <<writing, unwritten>>
        BY <3>2
    <3> QED
        BY <1>3, <3>1, <3>2 DEF RestartPublisher
  <2>2. telemetryPoints' = telemetryPoints /\ unwritten \subseteq unwritten'
      BY <1>3 DEF RestartPublisher
  <2> QED
      BY <2>1, <2>2 DEF Recorded
<1>4. CASE writing' = writing /\ telemetryPoints' = telemetryPoints
           /\ unwritten \subseteq unwritten'
    BY <1>4 DEF Recorded
<1>5. ASSUME NEW a \in AlarmTypes, WriteAlarm(a) PROVE Recorded \subseteq Recorded'
    BY <1>4, <1>5 DEF WriteAlarm
<1>6. CASE WriteState
    BY <1>4, <1>6 DEF WriteState
<1>7. CASE RestartEngine
    BY <1>4, <1>7 DEF RestartEngine
<1>8. ASSUME NEW r \in Replicas, RejectInvalid(r) PROVE Recorded \subseteq Recorded'
    BY <1>4, <1>8 DEF RejectInvalid
<1>9. CASE UNCHANGED <<writing, influxdb>>
    BY <1>4, <1>9 DEF influxdb
<1> QED
    BY <1>1, <1>2, <1>3, <1>5, <1>6, <1>7, <1>8, <1>9
    DEF Next, Callback, EngineCallback, PublishTelemetry, Intrude, Transmit, Acknowledge,
        Reconnect, Judge, JudgeMessage, Tick, vars

LEMMA RecordedStep == TypeInv /\ RecordedInv /\ [Next]_vars => RecordedInv'
<1> SUFFICES ASSUME TypeInv, RecordedInv, [Next]_vars PROVE RecordedInv'
    OBVIOUS
<1>a. Recorded \subseteq Recorded'
    BY RecordedForGood
<1> DEFINE Sound(box) == \A i \in DOMAIN box : box[i].msg.n \in Recorded'
           SoundQueue(q) == \A i \in DOMAIN q : q[i].n \in Recorded'
<1>b. /\ \A r \in Replicas : Sound(outbox[r])
      /\ SoundQueue(validated)
      /\ \A n \in judged : n \in Recorded'
    BY <1>a DEF RecordedInv
<1>c. /\ outbox \in [Publishers -> Seq(Packet)] /\ validated \in Seq(Carried)
      /\ Replicas \subseteq Publishers
    BY DEF TypeInv, TypeOK, Packet, Publishers
<1>q. ASSUME \A r \in Replicas : Sound(outbox'[r]), SoundQueue(validated'),
             \A n \in judged' : n \in Recorded'
      PROVE  RecordedInv'
    BY <1>q DEF RecordedInv
<1>n. "simulator" \notin Replicas
    BY PipelineAssumption
<1>1. ASSUME NEW m \in Readings, PublishTelemetry(m) PROVE RecordedInv'
  <2>1. \A r \in Replicas : outbox'[r] = outbox[r]
      BY <1>1, <1>c, <1>n DEF PublishTelemetry
  <2>2. UNCHANGED <<validated, judged>>
      BY <1>1 DEF PublishTelemetry
  <2> HIDE DEF Sound, SoundQueue
  <2> QED
      BY <1>b, <1>q, <2>1, <2>2
<1>2. ASSUME NEW c \in Publishers, Transmit(c) PROVE RecordedInv'
  <2>1. PICK i \in DOMAIN outbox[c] :
            /\ outbox' = [outbox EXCEPT ![c][i].sent = TRUE]
            /\ \/ c = "simulator" /\ raw' = Append(raw, outbox[c][i].msg) /\ UNCHANGED validated
               \/ c \in Replicas /\ validated' = Append(validated, outbox[c][i].msg) /\ UNCHANGED raw
      BY <1>2 DEF Transmit
  <2>2. outbox[c] \in Seq(Packet) /\ \A j \in DOMAIN outbox[c] : outbox[c][j] \in Packet
      BY <1>c
  <2>3. \A r \in Replicas : /\ DOMAIN outbox'[r] = DOMAIN outbox[r]
                            /\ \A j \in DOMAIN outbox[r] :
                                  outbox'[r][j].msg.n = outbox[r][j].msg.n
      BY <1>c, <2>1, <2>2 DEF Packet
  <2>4. \A r \in Replicas : Sound(outbox'[r])
      BY <1>b, <2>3
  <2>5. SoundQueue(validated')
    <3>1. CASE UNCHANGED validated
        BY <1>b, <3>1
    <3>2. CASE c \in Replicas /\ validated' = Append(validated, outbox[c][i].msg)
      <4>1. outbox[c][i].msg \in Carried
          BY <2>2 DEF Packet
      <4>2. outbox[c][i].msg.n \in Recorded'
          BY <1>b, <3>2
      <4> QED
          BY <1>b, <1>c, <3>2, <4>1, <4>2, AppendType
    <3> QED
        BY <2>1, <3>1, <3>2
  <2>6. judged' = judged
      BY <1>2 DEF Transmit
  <2> HIDE DEF Sound, SoundQueue
  <2> QED
      BY <1>b, <1>q, <2>4, <2>5, <2>6
<1>3. ASSUME NEW c \in Publishers, Acknowledge(c) PROVE RecordedInv'
  <2>1. \A r \in Replicas : Sound(outbox'[r])
    <3>1. ASSUME NEW r \in Replicas PROVE Sound(outbox'[r])
      <4>1. CASE r = c
        <5>1. outbox'[r] = Tail(outbox[r]) /\ outbox[r] # <<>> /\ outbox[r] \in Seq(Packet)
            BY <1>3, <1>c, <4>1 DEF Acknowledge
        <5>2. \A i \in DOMAIN Tail(outbox[r]) :
                  i + 1 \in DOMAIN outbox[r] /\ Tail(outbox[r])[i] = outbox[r][i + 1]
            BY <5>1, HeadAndTail
        <5> QED
            BY <1>b, <5>1, <5>2
      <4>2. CASE r # c
          BY <1>3, <1>b, <1>c, <4>2 DEF Acknowledge
      <4> QED
          BY <4>1, <4>2
    <3> QED
        BY <3>1
  <2>2. UNCHANGED <<validated, judged>>
      BY <1>3 DEF Acknowledge
  <2> HIDE DEF Sound, SoundQueue
  <2> QED
      BY <1>b, <1>q, <2>1, <2>2
<1>4. ASSUME NEW c \in Clients, LoseSession(c) PROVE SoundQueue(validated')
    BY <1>4, <1>b DEF LoseSession
<1>5. ASSUME NEW c \in Publishers, RestartPublisher(c) PROVE RecordedInv'
  <2>1. \A r \in Replicas : Sound(outbox'[r])
      BY <1>5, <1>b, <1>c DEF RestartPublisher
  <2>2. SoundQueue(validated')
      BY <1>4, <1>5 DEF RestartPublisher, Clients
  <2>3. judged' = judged
      BY <1>5 DEF RestartPublisher
  <2> HIDE DEF Sound, SoundQueue
  <2> QED
      BY <1>b, <1>q, <2>1, <2>2, <2>3
<1>6. ASSUME NEW c \in Clients, Reconnect(c) PROVE RecordedInv'
  <2>1. \A r \in Replicas : Sound(outbox'[r])
    <3>1. ASSUME NEW r \in Replicas PROVE Sound(outbox'[r])
      <4>1. outbox[r] \in Seq(Packet)
          BY <1>c
      <4>2. outbox'[r] \in {outbox[r], SentAgain(outbox[r])}
          BY <1>6, <1>c DEF Reconnect
      <4>3. Sound(SentAgain(outbox[r]))
          BY <1>b, <4>1, SentAgainType
      <4> QED
          BY <1>b, <4>2, <4>3
    <3> QED
        BY <3>1
  <2>2. SoundQueue(validated') /\ judged' = judged
      BY <1>4, <1>6 DEF Reconnect
  <2> HIDE DEF Sound, SoundQueue
  <2> QED
      BY <1>b, <1>q, <2>1, <2>2
<1>7. CASE RestartEngine
  <2>1. SoundQueue(validated')
      BY <1>4, <1>7 DEF RestartEngine, Clients
  <2>2. UNCHANGED <<outbox, judged>>
      BY <1>7 DEF RestartEngine
  <2> HIDE DEF Sound, SoundQueue
  <2> QED
      BY <1>b, <1>q, <2>1, <2>2
<1>8. ASSUME NEW r \in Replicas, ForwardValid(r) PROVE RecordedInv'
  <2>1. Head(raw) \in Carried
      BY <1>8, HeadAndTail DEF ForwardValid, Receives, TypeInv, TypeOK
  <2>2. Head(raw).n \in Recorded'
    <3>1. Head(raw).n \in writing'[r]
        BY <1>8 DEF ForwardValid, TypeInv, TypeOK
    <3> QED
        BY <3>1 DEF Recorded
  <2>3. Unsent(Head(raw)) \in Packet /\ Unsent(Head(raw)).msg.n = Head(raw).n
      BY <2>1 DEF Unsent, Packet
  <2>4. ASSUME NEW q \in Replicas PROVE Sound(outbox'[q])
    <3>1. CASE q # r
        BY <1>8, <1>b, <1>c, <3>1 DEF ForwardValid
    <3>2. CASE q = r
      <4>1. outbox'[r] = Append(outbox[r], Unsent(Head(raw))) /\ outbox[r] \in Seq(Packet)
          BY <1>8, <1>c DEF ForwardValid
      <4> HIDE DEF Unsent
      <4> QED
          BY <1>b, <2>2, <2>3, <3>2, <4>1, AppendType
    <3> QED
        BY <3>1, <3>2
  <2>5. UNCHANGED <<validated, judged>>
      BY <1>8 DEF ForwardValid
  <2> HIDE DEF Sound, SoundQueue
  <2> QED
      BY <1>b, <1>q, <2>4, <2>5
<1>9. CASE Judge
  <2>1. /\ validated # <<>> /\ validated' = Tail(validated)
        /\ judged' = judged \cup {Head(validated).n} /\ outbox' = outbox
      BY <1>9 DEF Judge, JudgeMessage
  <2>2. SoundQueue(validated') /\ Head(validated).n \in Recorded'
      BY <1>b, <1>c, <2>1, HeadAndTail
  <2> HIDE DEF Sound, SoundQueue
  <2> QED
      BY <1>b, <1>q, <2>1, <2>2
<1>10. CASE UNCHANGED <<outbox, validated, judged>>
  <2> HIDE DEF Sound, SoundQueue
  <2> QED
      BY <1>b, <1>q, <1>10
<1> HIDE DEF Sound, SoundQueue
<1> QED
    BY <1>1, <1>2, <1>3, <1>5, <1>6, <1>7, <1>8, <1>9, <1>10
    DEF Next, Callback, EngineCallback, Intrude, RejectInvalid, WriteTelemetry,
        WriteAlarm, WriteState, Tick, vars, broker

\* A state the engine has judged rests on a telemetry point, on its way at least.
THEOREM RecordedCorrect == Spec => []JudgedIsRecorded
<1>1. Init => RecordedInv
    BY DEF Init, RecordedInv, Publishers
<1>2. RecordedInv => JudgedIsRecorded
    BY DEF RecordedInv, Recorded, JudgedIsRecorded
<1> QED
    BY <1>1, <1>2, RecordedStep, TypeInvariant, PTL DEF Spec

-----------------------------------------------------------------------------
(* The state is written after its alarms *)

\* The alarms of the reading in hand have their points, but for those still due.
AlarmsInHand ==
    handling \notin {0} \cup unwritten =>
        \A a \in Alarms(taken[handling]) \ alarmsDue : <<handling, a>> \in alarmPoints

AlarmsInv == AlarmsInHand /\ AlarmsComeFirst

\* What was true of a reading's alarms stays true of them.
LEMMA AlarmsForGood ==
    ASSUME TypeInv, AlarmsInv, alarmPoints \subseteq alarmPoints', unwritten \subseteq unwritten',
           \A n \in Numbered : taken'[n] = taken[n], UNCHANGED <<handling, alarmsDue, statePoint>>
    PROVE  AlarmsInv'
<1>1. handling \in {0} \cup Numbered /\ statePoint \in {0} \cup Numbered
    BY DEF TypeInv, TypeOK
<1> QED
    BY <1>1 DEF AlarmsInv, AlarmsInHand, AlarmsComeFirst

LEMMA AlarmsStep == TypeInv /\ AlarmsInv /\ [Next]_vars => AlarmsInv'
<1> SUFFICES ASSUME TypeInv, AlarmsInv, [Next]_vars PROVE AlarmsInv'
    OBVIOUS
<1>1. ASSUME NEW m \in Readings, PublishTelemetry(m) PROVE AlarmsInv'
  <2>1. \A n \in Numbered : taken'[n] = taken[n]
      BY <1>1, PipelineAssumption DEF PublishTelemetry, Numbered, TypeInv, TypeOK
  <2> QED
      BY <1>1, <2>1, AlarmsForGood DEF PublishTelemetry, engine, influxdb, budget
<1>2. CASE /\ UNCHANGED <<taken, alarmPoints, handling, alarmsDue, statePoint>>
           /\ unwritten \subseteq unwritten'
    BY <1>2, AlarmsForGood
<1>3. ASSUME NEW c \in Publishers, RestartPublisher(c) PROVE AlarmsInv'
  <2>1. unwritten \subseteq unwritten'
      BY <1>3 DEF RestartPublisher
  <2> QED
      BY <1>2, <1>3, <2>1 DEF RestartPublisher, engine
<1>4. CASE RestartEngine
  <2>1. handling' = 0 /\ unwritten \subseteq unwritten' /\ UNCHANGED <<taken, alarmPoints, statePoint>>
      BY <1>4 DEF RestartEngine
  <2> QED
      BY <2>1 DEF AlarmsInv, AlarmsInHand, AlarmsComeFirst
<1>5. ASSUME NEW r \in Replicas, WriteTelemetry(r) PROVE AlarmsInv'
  <2>1. unwritten \subseteq unwritten'
      BY <1>5 DEF WriteTelemetry
  <2> QED
      BY <1>2, <1>5, <2>1 DEF WriteTelemetry, engine
<1>6. CASE Judge
  <2>1. alarmsDue' = Alarms(taken[handling']) /\ UNCHANGED <<taken, influxdb>>
      BY <1>6 DEF Judge, JudgeMessage
  <2> QED
      BY <2>1 DEF AlarmsInv, AlarmsInHand, AlarmsComeFirst, influxdb
<1>7. ASSUME NEW a \in AlarmTypes, WriteAlarm(a) PROVE AlarmsInv'
  <2>1. alarmsDue' = alarmsDue \ {a} /\ UNCHANGED <<taken, handling, statePoint>>
      BY <1>7 DEF WriteAlarm
  <2>2. CASE alarmPoints' = alarmPoints \cup {<<handling, a>>} /\ UNCHANGED unwritten
      BY <2>1, <2>2 DEF AlarmsInv, AlarmsInHand, AlarmsComeFirst
  <2>3. CASE unwritten' = unwritten \cup {handling} /\ UNCHANGED alarmPoints
      BY <2>1, <2>3 DEF AlarmsInv, AlarmsInHand, AlarmsComeFirst
  <2> QED
      BY <1>7, <2>2, <2>3 DEF WriteAlarm
<1>8. CASE WriteState
  <2>1. alarmsDue = {} /\ handling # 0 /\ handling' = 0 /\ UNCHANGED <<taken, alarmPoints>>
      BY <1>8 DEF WriteState
  <2>2. CASE statePoint' = handling /\ UNCHANGED unwritten
      BY <2>1, <2>2 DEF AlarmsInv, AlarmsInHand, AlarmsComeFirst
  <2>3. CASE unwritten' = unwritten \cup {handling} /\ UNCHANGED statePoint
      BY <2>1, <2>3 DEF AlarmsInv, AlarmsInHand, AlarmsComeFirst
  <2> QED
      BY <1>8, <2>2, <2>3 DEF WriteState
<1> QED
    BY <1>1, <1>2, <1>3, <1>4, <1>5, <1>6, <1>7, <1>8
    DEF Next, Callback, EngineCallback, Intrude, Transmit, Acknowledge, Reconnect,
        RejectInvalid, ForwardValid, Tick, vars, engine, influxdb, budget

\* The state point in InfluxDB lists alarms whose points are there already.
THEOREM AlarmsCorrect == Spec => []AlarmsComeFirst
<1>1. Init => AlarmsInv
    BY DEF Init, AlarmsInv, AlarmsInHand, AlarmsComeFirst
<1>2. AlarmsInv => AlarmsComeFirst
    BY DEF AlarmsInv
<1> QED
    BY <1>1, <1>2, AlarmsStep, TypeInvariant, PTL DEF Spec

-----------------------------------------------------------------------------
(* The pipeline implements TwinMirror, liveness apart *)

\* The mirror judges by the same rules.
LEMMA SameRules ==
    \A m, h, g : Mirror!Evaluate(m, h, g) = Evaluate(m, h, g)
    BY DEF Evaluate, Mirror!Evaluate, MotionState, Mirror!MotionState, OperationMode, Mirror!OperationMode,
       SafetyState, Mirror!SafetyState, BatteryState, Mirror!BatteryState, CleaningState, Mirror!CleaningState,
       MotorHealth, Mirror!MotorHealth, DirtLevel, Mirror!DirtLevel, MissionState, Mirror!MissionState,
       ConnectionState, Mirror!ConnectionState, TwinQuality, Mirror!TwinQuality, Age, Mirror!Age,
       Alarms, Mirror!Alarms, CriticalAlarms, Mirror!CriticalAlarms, Band, Mirror!Band

\* What the mirror shows, and which readings are settled.
Shown   == {t.state : t \in twin}
Settled == judged \cup lost

LEMMA MirrorStep == TypeInv /\ TypeInv' /\ [Next]_vars => [Mirror!Next]_(Mirror!vars)
<1> SUFFICES ASSUME TypeInv, TypeInv', [Next]_vars PROVE [Mirror!Next]_(Mirror!vars)
    OBVIOUS
<1> USE DEF Shown, Settled
<1>a. Numbered = DOMAIN taken
    BY DEF Numbered, TypeInv, TypeOK
<1>1. ASSUME NEW m \in Readings, PublishTelemetry(m) PROVE Mirror!Take(m)
    BY <1>1 DEF PublishTelemetry, engine, Mirror!Take
<1>2. CASE Judge
  <2>1. PICK n \in DOMAIN taken : n = Head(validated).n
    <3>1. Head(validated) \in Carried
        BY <1>2, HeadAndTail DEF Judge, JudgeMessage, TypeInv, TypeOK
    <3> QED
        BY <1>a, <3>1 DEF Carried
  <2> DEFINE state == Mirror!Evaluate(taken[n], heard, gap)
  <2>2. heard \in BOOLEAN /\ gap \in Mirror!Gaps
      BY DEF TypeInv, TypeOK, Mirror!Gaps
  <2>3. Shown' = {state}
      BY <1>2, <2>1, SameRules DEF Judge, JudgeMessage
  <2>4. Settled' = Settled \cup {n} /\ taken' = taken
      BY <1>2, <2>1 DEF Judge, JudgeMessage
  <2>5. \E h \in BOOLEAN, g \in Mirror!Gaps : Shown' = {Mirror!Evaluate(taken[n], h, g)}
      BY Zenon, <2>2, <2>3
  <2>6. Mirror!Show(n)
      BY Zenon, <2>4, <2>5 DEF Mirror!Show
  <2> QED
      BY <2>6 DEF Mirror!Next
<1>3. CASE UNCHANGED <<taken, twin, judged>> /\ lost \subseteq lost'
  <2>1. lost' \subseteq DOMAIN taken
      BY <1>a, <1>3 DEF TypeInv, TypeOK, Numbered
  <2>2. Mirror!Lose(lost')
      BY <1>3, <2>1 DEF Mirror!Lose
  <2> QED
      BY <1>3, <2>1, <2>2 DEF Mirror!Next
<1>4. ASSUME NEW c \in Publishers, RestartPublisher(c) PROVE [Mirror!Next]_(Mirror!vars)
  <2>1. lost \subseteq lost'
      BY <1>4 DEF RestartPublisher
  <2> QED
      BY <1>3, <1>4, <2>1 DEF RestartPublisher, engine
<1>5. ASSUME NEW c \in Clients, Reconnect(c) PROVE [Mirror!Next]_(Mirror!vars)
  <2>1. lost \subseteq lost'
      BY <1>5 DEF Reconnect
  <2> QED
      BY <1>3, <1>5, <2>1 DEF Reconnect, engine
<1>6. CASE RestartEngine
  <2>1. lost \subseteq lost'
      BY <1>6 DEF RestartEngine
  <2> QED
      BY <1>3, <1>6, <2>1 DEF RestartEngine
<1>7. CASE UNCHANGED <<taken, twin, judged, lost>>
    BY <1>7 DEF Mirror!vars
<1> QED
    BY <1>1, <1>2, <1>4, <1>5, <1>6, <1>7
    DEF Next, Callback, EngineCallback, Intrude, Transmit, Acknowledge, RejectInvalid,
        ForwardValid, WriteTelemetry, WriteAlarm, WriteState, Tick, vars, engine, Mirror!Next

\* The twin shows only judgements of readings the robot took: every step of the
\* pipeline is a step of TwinMirror or changes nothing it speaks of.
THEOREM PipelineMirrors == Spec => Mirror!Safety
<1>1. Init => Mirror!Init
    BY DEF Init, Mirror!Init
<1> QED
    BY <1>1, MirrorStep, TypeInvariant, PTL DEF Spec, Mirror!Safety

-----------------------------------------------------------------------------
(* The twin goes back only by a message left over from before a reconnection *)

\* A message no reconnection has delayed; the intruders carry no reading.
Fresh(m) == ~m.again /\ m.n # 0

\* No reading ahead of a fresh message is later than its own: none of ahead, and
\* none of the messages before it.  In an outbox only what is unsent counts.
OrderedQueue(q, ahead) ==
    \A i \in DOMAIN q : Fresh(q[i]) =>
        /\ \A n \in ahead : n <= q[i].n
        /\ \A j \in 1 .. i - 1 : q[j].n <= q[i].n
OrderedBox(box, ahead) ==
    \A i \in DOMAIN box : ~box[i].sent /\ Fresh(box[i].msg) =>
        /\ \A n \in ahead : n <= box[i].msg.n
        /\ \A j \in 1 .. i - 1 : box[j].msg.n <= box[i].msg.n

\* The readings ahead of a message in each place on the way.
AheadValidated == {t.n : t \in twin}
AheadHolder    == AheadValidated \cup {validated[i].n : i \in DOMAIN validated}
Boxed(r)       == {outbox[r][i].msg.n : i \in DOMAIN outbox[r]}
AheadRaw       == AheadHolder \cup UNION {Boxed(r) : r \in Replicas}
AheadSimulator == AheadRaw \cup {raw[i].n : i \in DOMAIN raw}

\* Of the replicas only the holder counts: what the others have left is not
\* fresh any more when one of them gets the session back.
OrderInv ==
    /\ OrderedBox(outbox["simulator"], AheadSimulator)
    /\ OrderedQueue(raw, AheadRaw)
    /\ OrderedBox(outbox[holder], AheadHolder)
    /\ OrderedQueue(validated, AheadValidated)

\* Fewer readings ahead do not disturb the order.
LEMMA FewerAhead ==
    ASSUME NEW A, NEW B, B \subseteq A, NEW q
    PROVE  /\ OrderedQueue(q, A) => OrderedQueue(q, B)
           /\ OrderedBox(q, A) => OrderedBox(q, B)
    BY DEF OrderedQueue, OrderedBox

\* A message joins the end of a queue.
LEMMA JoinQueue ==
    ASSUME NEW S, NEW q \in Seq(S), NEW m \in S, NEW A, OrderedQueue(q, A),
           Fresh(m) => /\ \A n \in A : n <= m.n
                       /\ \A i \in DOMAIN q : q[i].n <= m.n
    PROVE  OrderedQueue(Append(q, m), A)
<1> SUFFICES ASSUME NEW i \in DOMAIN Append(q, m), Fresh(Append(q, m)[i])
             PROVE  /\ \A n \in A : n <= Append(q, m)[i].n
                    /\ \A j \in 1 .. i - 1 : Append(q, m)[j].n <= Append(q, m)[i].n
    BY DEF OrderedQueue
<1>1. \A j \in 1 .. i - 1 : j \in DOMAIN q /\ Append(q, m)[j] = q[j]
    OBVIOUS
<1>2. CASE i \in DOMAIN q
    BY <1>1, <1>2 DEF OrderedQueue
<1>3. CASE i = Len(q) + 1
    BY <1>1, <1>3
<1> QED
    BY <1>2, <1>3, AppendType

\* A packet joins the end of an outbox.
LEMMA JoinBox ==
    ASSUME NEW S, NEW q \in Seq(S), NEW m \in S, NEW A, OrderedBox(q, A),
           Fresh(m.msg) => /\ \A n \in A : n <= m.msg.n
                           /\ \A i \in DOMAIN q : q[i].msg.n <= m.msg.n
    PROVE  OrderedBox(Append(q, m), A)
<1> SUFFICES ASSUME NEW i \in DOMAIN Append(q, m), ~Append(q, m)[i].sent,
                    Fresh(Append(q, m)[i].msg)
             PROVE  /\ \A n \in A : n <= Append(q, m)[i].msg.n
                    /\ \A j \in 1 .. i - 1 : Append(q, m)[j].msg.n <= Append(q, m)[i].msg.n
    BY DEF OrderedBox
<1>1. \A j \in 1 .. i - 1 : j \in DOMAIN q /\ Append(q, m)[j] = q[j]
    OBVIOUS
<1>2. CASE i \in DOMAIN q
  <2>1. Append(q, m)[i] = q[i]
      BY <1>2
  <2> QED
      BY <1>1, <1>2, <2>1 DEF OrderedBox
<1>3. CASE i = Len(q) + 1
    BY <1>1, <1>3
<1> QED
    BY <1>2, <1>3, AppendType

\* The first of a queue leaves it and goes ahead of the others.
LEMMA LeaveQueue ==
    ASSUME NEW S, NEW q \in Seq(S), q # <<>>, NEW A, OrderedQueue(q, A)
    PROVE  /\ OrderedQueue(Tail(q), A \cup {Head(q).n})
           /\ Fresh(Head(q)) => \A n \in A : n <= Head(q).n
<1>1. /\ \A i \in DOMAIN Tail(q) : i + 1 \in DOMAIN q /\ Tail(q)[i] = q[i + 1]
      /\ 1 \in DOMAIN q /\ Head(q) = q[1] /\ DOMAIN Tail(q) \subseteq Nat \ {0}
    OBVIOUS
<1>2. ASSUME NEW i \in DOMAIN Tail(q), Fresh(Tail(q)[i])
      PROVE  /\ \A n \in A \cup {Head(q).n} : n <= Tail(q)[i].n
             /\ \A j \in 1 .. i - 1 : Tail(q)[j].n <= Tail(q)[i].n
  <2>1. /\ \A n \in A : n <= q[i + 1].n
        /\ \A j \in 1 .. i : q[j].n <= q[i + 1].n
      BY <1>1, <1>2 DEF OrderedQueue
  <2>2. \A j \in 1 .. i - 1 : Tail(q)[j] = q[j + 1] /\ j + 1 \in 1 .. i
      BY <1>1
  <2>3. 1 \in 1 .. i
      BY <1>1
  <2> QED
      BY <1>1, <2>1, <2>2, <2>3
<1> QED
    BY <1>1, <1>2 DEF OrderedQueue

\* The first of an outbox is acknowledged.
LEMMA LeaveBox ==
    ASSUME NEW S, NEW q \in Seq(S), q # <<>>, NEW A, OrderedBox(q, A)
    PROVE  OrderedBox(Tail(q), A)
<1>1. /\ \A i \in DOMAIN Tail(q) : i + 1 \in DOMAIN q /\ Tail(q)[i] = q[i + 1]
      /\ DOMAIN Tail(q) \subseteq Nat \ {0}
    OBVIOUS
<1>2. ASSUME NEW i \in DOMAIN Tail(q), ~Tail(q)[i].sent, Fresh(Tail(q)[i].msg)
      PROVE  /\ \A n \in A : n <= Tail(q)[i].msg.n
             /\ \A j \in 1 .. i - 1 : Tail(q)[j].msg.n <= Tail(q)[i].msg.n
  <2>1. /\ \A n \in A : n <= q[i + 1].msg.n
        /\ \A j \in 1 .. i : q[j].msg.n <= q[i + 1].msg.n
      BY <1>1, <1>2 DEF OrderedBox
  <2>2. \A j \in 1 .. i - 1 : Tail(q)[j] = q[j + 1] /\ j + 1 \in 1 .. i
      BY <1>1
  <2> QED
      BY <1>1, <2>1, <2>2
<1> QED
    BY <1>2 DEF OrderedBox

\* The oldest unsent packet of an outbox is sent and goes ahead of the others.
LEMMA SendBox ==
    ASSUME NEW box \in Seq(Packet), NEW A, OrderedBox(box, A), NEW i \in DOMAIN box,
           \A j \in 1 .. i - 1 : box[j].sent, ~box[i].sent
    PROVE  /\ OrderedBox([box EXCEPT ![i].sent = TRUE], A \cup {box[i].msg.n})
           /\ Fresh(box[i].msg) => \A n \in A : n <= box[i].msg.n
<1> DEFINE new == [box EXCEPT ![i].sent = TRUE]
<1>1. /\ DOMAIN new = DOMAIN box /\ DOMAIN box \subseteq Nat \ {0}
      /\ \A j \in DOMAIN box : box[j] \in Packet
    OBVIOUS
<1>2. /\ \A j \in DOMAIN box : new[j].msg = box[j].msg
      /\ new[i].sent
      /\ \A j \in DOMAIN box : j # i => new[j] = box[j]
    BY <1>1 DEF Packet
<1>3. \A j \in DOMAIN box : \A k \in 1 .. j - 1 : k \in DOMAIN box
    OBVIOUS
<1> HIDE DEF new
<1>4. ASSUME NEW k \in DOMAIN new, ~new[k].sent, Fresh(new[k].msg)
      PROVE  /\ \A n \in A \cup {box[i].msg.n} : n <= new[k].msg.n
             /\ \A j \in 1 .. k - 1 : new[j].msg.n <= new[k].msg.n
  <2>1. k \in DOMAIN box /\ k # i /\ ~box[k].sent /\ new[k].msg = box[k].msg
      BY <1>1, <1>2, <1>4
  <2>2. i \in 1 .. k - 1
      BY <1>1, <2>1
  <2>3. /\ \A n \in A : n <= box[k].msg.n
        /\ \A j \in 1 .. k - 1 : box[j].msg.n <= box[k].msg.n
      BY <1>4, <2>1 DEF OrderedBox
  <2>4. \A j \in 1 .. k - 1 : new[j].msg = box[j].msg
      BY <1>2, <1>3, <2>1
  <2> QED
      BY <2>1, <2>2, <2>3, <2>4
<1>5. Fresh(box[i].msg) => \A n \in A : n <= box[i].msg.n
    BY DEF OrderedBox
<1>6. OrderedBox(new, A \cup {box[i].msg.n})
    BY <1>4 DEF OrderedBox
<1> QED
    BY <1>5, <1>6 DEF new

\* Nothing that a reconnection found in an outbox is fresh.
LEMMA NothingFresh ==
    ASSUME NEW A
    PROVE  /\ \A box \in Seq(Packet) : OrderedBox(SentAgain(box), A)
           /\ OrderedBox(<<>>, A) /\ OrderedQueue(<<>>, A)
<1>1. ASSUME NEW box \in Seq(Packet) PROVE OrderedBox(SentAgain(box), A)
  <2>1. \A i \in DOMAIN box : SentAgain(box)[i].msg.again = TRUE
      BY DEF SentAgain, Unsent, Message
  <2> QED
      BY <2>1, SentAgainType DEF OrderedBox, Fresh
<1> QED
    BY <1>1 DEF OrderedBox, OrderedQueue

\* The numbers on the way are numbers of readings taken, or 0.
LEMMA NumbersTaken ==
    ASSUME TypeInv
    PROVE  /\ Len(taken) \in Nat
           /\ \A c \in Publishers : \A i \in DOMAIN outbox[c] :
                  outbox[c][i].msg.n \in 0 .. Len(taken)
           /\ \A i \in DOMAIN raw : raw[i].n \in 0 .. Len(taken)
           /\ \A i \in DOMAIN validated : validated[i].n \in 1 .. Len(taken)
           /\ \A t \in twin : t.n \in 0 .. Len(taken)
<1>1. Len(taken) \in Nat
    BY DEF TypeInv, TypeOK
<1>2. Numbered \subseteq 0 .. Len(taken) /\ Intruder.n \in 0 .. Len(taken)
    BY <1>1 DEF Numbered, Intruder, Message
<1>3. \A m \in Carried : m.n \in Numbered
    BY DEF Carried
<1>4. ASSUME NEW c \in Publishers, NEW i \in DOMAIN outbox[c]
      PROVE  outbox[c][i].msg.n \in Numbered
  <2>1. outbox[c] \in Seq(Packet)
      BY DEF TypeInv, TypeOK, Packet
  <2>2. outbox[c][i] \in Packet
      BY <2>1
  <2> QED
      BY <1>3, <2>2 DEF Packet
<1>5. \A i \in DOMAIN raw : raw[i] \in Carried \cup {Intruder}
    BY DEF TypeInv, TypeOK
<1>6. \A i \in DOMAIN validated : validated[i] \in Carried
    BY DEF TypeInv, TypeOK
<1>7. \A t \in twin : t.n \in Numbered
    BY DEF TypeInv, TypeOK
<1> HIDE DEF Numbered
<1>8. \A n \in Numbered : n \in 1 .. Len(taken)
    BY DEF Numbered
<1> QED
    BY <1>1, <1>2, <1>3, <1>4, <1>5, <1>6, <1>7, <1>8

\* Where nothing moves, nothing is out of order.
LEMMA OrderStep == TypeInv /\ OrderInv /\ [Next]_vars => OrderInv'
<1> SUFFICES ASSUME TypeInv, OrderInv, [Next]_vars PROVE OrderInv'
    OBVIOUS
<1> DEFINE AV == AheadValidated
           AH == AheadHolder
           AR == AheadRaw
           AS == AheadSimulator
           sim == outbox["simulator"]
<1>a. /\ outbox \in [Publishers -> Seq(Packet)] /\ raw \in Seq(Carried \cup {Intruder})
      /\ validated \in Seq(Carried) /\ holder \in Replicas
      /\ Replicas \subseteq Publishers /\ "simulator" \in Publishers
      /\ "simulator" \notin Replicas
    BY PipelineAssumption DEF TypeInv, TypeOK, Packet, Publishers
<1>b. /\ OrderedBox(sim, AS) /\ OrderedQueue(raw, AR)
      /\ OrderedBox(outbox[holder], AH) /\ OrderedQueue(validated, AV)
    BY DEF OrderInv
<1>c. ASSUME OrderedBox(sim', AS'), OrderedQueue(raw', AR'),
             OrderedBox(outbox'[holder'], AH'), OrderedQueue(validated', AV')
      PROVE  OrderInv'
    BY <1>c DEF OrderInv
<1>d. \A c \in Publishers : \A i \in DOMAIN outbox[c] : outbox[c][i] \in Packet
    BY <1>a
<1>1. ASSUME NEW m \in Readings, PublishTelemetry(m) PROVE OrderInv'
  <2> DEFINE p == Unsent(Message(Len(taken) + 1, FALSE))
  <2>1. /\ outbox' = [outbox EXCEPT !["simulator"] = Append(@, p)]
        /\ UNCHANGED <<raw, validated, holder, twin>>
      BY <1>1 DEF PublishTelemetry, engine
  <2>2. \A r \in Replicas : outbox'[r] = outbox[r]
      BY <1>a, <2>1
  <2>3. AV' = AV /\ AH' = AH /\ AR' = AR /\ AS' = AS
    <3>1. \A r \in Replicas : Boxed(r)' = Boxed(r)
        BY <2>2 DEF Boxed
    <3>2. UNION {Boxed(r)' : r \in Replicas} = UNION {Boxed(r) : r \in Replicas}
        BY <3>1
    <3> QED
        BY <2>1, <3>2 DEF AheadValidated, AheadHolder, AheadRaw, AheadSimulator
  <2>4. (\A n \in AS : n <= Len(taken) + 1) /\ \A i \in DOMAIN sim : sim[i].msg.n <= Len(taken) + 1
      BY <1>a, NumbersTaken
      DEF AheadValidated, AheadHolder, AheadRaw, AheadSimulator, Boxed
  <2>5. p.msg.n = Len(taken) + 1 /\ sim' = Append(sim, p) /\ sim \in Seq(Packet)
      BY <1>a, <2>1 DEF Unsent, Message
  <2> HIDE DEF p, AS, AR, AH, AV
  <2>6. OrderedBox(sim', AS)
    <3>1. sim \in Seq(Packet \cup {p}) /\ p \in Packet \cup {p}
        BY <2>5, SeqMonotone
    <3> QED
        BY <1>b, <2>4, <2>5, <3>1, JoinBox
  <2> QED
      BY <1>a, <1>b, <1>c, <2>1, <2>2, <2>3, <2>6
<1>2. CASE Intrude
  <2>1. raw' = Append(raw, Intruder) /\ UNCHANGED <<outbox, validated, holder, twin>>
      BY <1>2 DEF Intrude, engine
  <2>2. AV' = AV /\ AH' = AH /\ AR' = AR
      BY <2>1 DEF AheadValidated, AheadHolder, AheadRaw, Boxed
  <2>3. AS' \subseteq AS \cup {0}
      BY <1>a, <2>1, AppendType DEF AheadSimulator, AheadRaw, AheadHolder, AheadValidated,
         Boxed, Intruder, Message
  <2>4. OrderedBox(sim, AS \cup {0})
      BY <1>a, <1>b, NumbersTaken DEF OrderedBox
  <2>5. OrderedQueue(raw', AR)
      BY <1>a, <1>b, <2>1, JoinQueue DEF Fresh, Intruder, Message
  <2> HIDE DEF AS, AR, AH, AV
  <2> QED
      BY <1>b, <1>c, <2>1, <2>2, <2>3, <2>4, <2>5, FewerAhead
<1>3. ASSUME NEW c \in Publishers, Transmit(c) PROVE OrderInv'
  <2>1. PICK i \in DOMAIN outbox[c] :
            /\ ~outbox[c][i].sent
            /\ \A j \in 1 .. i - 1 : outbox[c][j].sent
            /\ outbox' = [outbox EXCEPT ![c][i].sent = TRUE]
            /\ \/ c = "simulator" /\ raw' = Append(raw, outbox[c][i].msg) /\ UNCHANGED validated
               \/ c \in Replicas /\ validated' = Append(validated, outbox[c][i].msg) /\ UNCHANGED raw
      BY <1>3 DEF Transmit
  <2> DEFINE m == outbox[c][i].msg
             new == [outbox[c] EXCEPT ![i].sent = TRUE]
  <2>2. Connected(c) /\ UNCHANGED <<holder, twin>>
      BY <1>3 DEF Transmit, engine
  <2>3. outbox[c] \in Seq(Packet) /\ outbox[c][i] \in Packet /\ m \in Carried
      BY <1>d, <1>a DEF Packet
  <2>4. outbox'[c] = new /\ \A d \in Publishers : d # c => outbox'[d] = outbox[d]
      BY <1>a, <2>1
  <2>5. \A r \in Replicas : Boxed(r)' = Boxed(r)
    <3>1. DOMAIN new = DOMAIN outbox[c] /\ \A j \in DOMAIN outbox[c] : new[j].msg = outbox[c][j].msg
        BY <1>d, <2>3 DEF Packet
    <3> HIDE DEF new
    <3> QED
        BY <1>a, <2>4, <3>1 DEF Boxed
  <2>6. UNION {Boxed(r)' : r \in Replicas} = UNION {Boxed(r) : r \in Replicas}
      BY <2>5
  <2>7. AV' = AV
      BY <2>2 DEF AheadValidated
  <2>8. CASE c = "simulator"
    <3>1. raw' = Append(raw, m) /\ UNCHANGED validated
        BY <1>a, <2>1, <2>8
    <3>2. AH' = AH /\ AR' = AR
        BY <2>2, <2>6, <3>1 DEF AheadValidated, AheadHolder, AheadRaw
    <3>3. AS' \subseteq AS \cup {m.n}
        BY <1>a, <2>3, <3>1, <3>2, AppendType DEF AheadSimulator
    <3>4. OrderedBox(new, AS \cup {m.n}) /\ (Fresh(m) => \A n \in AS : n <= m.n)
        BY <1>b, <2>1, <2>3, <2>8, SendBox
    <3>5. OrderedQueue(raw', AR)
      <4>1. (\A i_ \in DOMAIN raw : raw[i_].n \in AS) /\ AR \subseteq AS
          BY DEF AheadSimulator
      <4>2. raw \in Seq(Carried \cup {Intruder}) /\ m \in Carried \cup {Intruder}
          BY <1>a, <2>3
      <4> HIDE DEF AS, AR, AH, AV, m
      <4> QED
          BY <1>b, <3>1, <3>4, <4>1, <4>2, JoinQueue
    <3>6. outbox'[holder'] = outbox[holder]
        BY <1>a, <2>2, <2>4, <2>8
    <3> HIDE DEF AS, AR, AH, AV, m, new
    <3> QED
        BY <1>b, <1>c, <2>4, <2>7, <2>8, <3>1, <3>2, <3>3, <3>4, <3>5, <3>6, FewerAhead
  <2>9. CASE c \in Replicas
    <3>1. validated' = Append(validated, m) /\ UNCHANGED raw /\ c = holder
        BY <1>a, <2>1, <2>2, <2>9 DEF Connected
    <3>2. AH' \subseteq AH \cup {m.n}
        BY <1>a, <2>3, <2>7, <3>1, AppendType DEF AheadHolder
    <3>3. m.n \in AR
        BY <2>1, <2>9 DEF AheadRaw, Boxed
    <3>4. AR' \subseteq AR /\ AS' \subseteq AS
        BY <2>6, <3>1, <3>2, <3>3 DEF AheadRaw, AheadSimulator
    <3>5. OrderedBox(new, AH \cup {m.n}) /\ (Fresh(m) => \A n \in AH : n <= m.n)
        BY <1>b, <2>1, <2>3, <3>1, SendBox
    <3>6. OrderedQueue(validated', AV)
      <4>1. (\A i_ \in DOMAIN validated : validated[i_].n \in AH) /\ AV \subseteq AH
          BY DEF AheadHolder
      <4> HIDE DEF AS, AR, AH, AV, m
      <4> QED
          BY <1>a, <1>b, <2>3, <3>1, <3>5, <4>1, JoinQueue
    <3>7. sim' = sim /\ outbox'[holder'] = new
        BY <1>a, <2>2, <2>4, <2>9, <3>1
    <3> HIDE DEF AS, AR, AH, AV, m, new
    <3> QED
        BY <1>b, <1>c, <2>7, <3>1, <3>2, <3>4, <3>5, <3>6, <3>7, FewerAhead
  <2> QED
      BY <2>8, <2>9 DEF Publishers
<1>4. ASSUME NEW c \in Publishers, Acknowledge(c) PROVE OrderInv'
  <2>1. /\ outbox[c] # <<>> /\ outbox' = [outbox EXCEPT ![c] = Tail(@)]
        /\ UNCHANGED <<raw, validated, holder, twin>>
      BY <1>4 DEF Acknowledge, engine
  <2>2. outbox'[c] = Tail(outbox[c]) /\ outbox[c] \in Seq(Packet)
        /\ \A d \in Publishers : d # c => outbox'[d] = outbox[d]
      BY <1>a, <2>1
  <2>3. \A r \in Replicas : Boxed(r)' \subseteq Boxed(r)
    <3>1. \A i \in DOMAIN Tail(outbox[c]) :
              i + 1 \in DOMAIN outbox[c] /\ Tail(outbox[c])[i] = outbox[c][i + 1]
        BY <2>1, <2>2, HeadAndTail
    <3>2. ASSUME NEW r \in Replicas PROVE Boxed(r)' \subseteq Boxed(r)
      <4>1. CASE r = c
        <5>1. ASSUME NEW n \in Boxed(r)' PROVE n \in Boxed(r)
          <6>1. PICK i \in DOMAIN Tail(outbox[c]) : n = Tail(outbox[c])[i].msg.n
              BY <2>2, <4>1, <5>1 DEF Boxed
          <6> QED
              BY <3>1, <4>1, <6>1 DEF Boxed
        <5> QED
            BY <5>1
      <4>2. CASE r # c
          BY <1>a, <2>2, <4>2 DEF Boxed
      <4> QED
          BY <4>1, <4>2
    <3> QED
        BY <3>2
  <2>4. UNION {Boxed(r)' : r \in Replicas} \subseteq UNION {Boxed(r) : r \in Replicas}
      BY <2>3
  <2>5. AV' = AV /\ AH' = AH /\ AR' \subseteq AR /\ AS' \subseteq AS
      BY <2>1, <2>4 DEF AheadValidated, AheadHolder, AheadRaw, AheadSimulator
  <2>6. \A A : OrderedBox(outbox[c], A) => OrderedBox(outbox'[c], A)
      BY <2>1, <2>2, LeaveBox
  <2> HIDE DEF AS, AR, AH, AV
  <2>7. OrderedBox(sim', AS) /\ OrderedBox(outbox'[holder'], AH)
      BY <1>a, <1>b, <2>1, <2>2, <2>6
  <2> QED
      BY <1>b, <1>c, <2>1, <2>5, <2>7, FewerAhead
<1>5. ASSUME NEW c \in Clients, LoseSession(c), twin' = twin,
             IF c \in Publishers THEN outbox' = [outbox EXCEPT ![c] = SentAgain(@)]
                                   \/ outbox' = [outbox EXCEPT ![c] = <<>>]
             ELSE outbox' = outbox
      PROVE  OrderInv'
  <2>1. /\ raw' = IF c \in Replicas THEN <<>> ELSE raw
        /\ validated' = IF c = "engine" THEN <<>> ELSE validated
        /\ holder' = IF c \in Replicas THEN c ELSE holder
      BY <1>5 DEF LoseSession
  <2>2. ASSUME NEW d \in Publishers
        PROVE  /\ d # c => outbox'[d] = outbox[d]
               /\ d = c => outbox'[d] \in {SentAgain(outbox[d]), <<>>}
      BY <1>5, <1>a
  <2>3. \A r \in Replicas : Boxed(r)' \subseteq Boxed(r)
    <3>1. ASSUME NEW r \in Replicas PROVE Boxed(r)' \subseteq Boxed(r)
      <4>1. outbox[r] \in Seq(Packet) /\ outbox'[r] \in {outbox[r], SentAgain(outbox[r]), <<>>}
          BY <1>a, <2>2
      <4> QED
          BY <4>1, SentAgainType DEF Boxed
    <3> QED
        BY <3>1
  <2>4. UNION {Boxed(r)' : r \in Replicas} \subseteq UNION {Boxed(r) : r \in Replicas}
      BY <2>3
  <2>5. AV' = AV
      BY <1>5 DEF AheadValidated
  <2>6. AH' \subseteq AH /\ AR' \subseteq AR /\ AS' \subseteq AS
      BY <2>1, <2>4, <2>5 DEF AheadHolder, AheadRaw, AheadSimulator
  <2> HIDE DEF AS, AR, AH, AV
  <2>7. \A d \in Publishers : \A A : d = c => OrderedBox(outbox'[d], A)
      BY <1>a, <2>2, NothingFresh
  <2>8. OrderedBox(sim', AS)
      BY <1>a, <1>b, <2>2, <2>7
  <2>9. OrderedBox(outbox'[holder'], AH)
    <3>1. CASE c \in Replicas
        BY <1>a, <2>1, <2>7, <3>1
    <3>2. CASE c \notin Replicas
        BY <1>a, <1>b, <2>1, <2>2, <3>2
    <3> QED
        BY <3>1, <3>2
  <2>10. OrderedQueue(raw', AR) /\ OrderedQueue(validated', AV)
      BY <1>b, <2>1, NothingFresh
  <2> QED
      BY <1>c, <2>5, <2>6, <2>8, <2>9, <2>10, FewerAhead
<1>6. ASSUME NEW c \in Publishers, RestartPublisher(c) PROVE OrderInv'
    BY <1>5, <1>6 DEF RestartPublisher, engine, Clients
<1>7. ASSUME NEW c \in Clients, Reconnect(c) PROVE OrderInv'
    BY <1>5, <1>7 DEF Reconnect, engine
<1>8. CASE RestartEngine
  <2>1. "engine" \notin Publishers /\ "engine" \in Clients
      BY PipelineAssumption DEF Publishers, Clients
  <2> QED
      BY <1>5, <1>8, <2>1 DEF RestartEngine
<1>9. ASSUME NEW r \in Replicas, RejectInvalid(r) PROVE OrderInv'
  <2>1. raw # <<>> /\ raw' = Tail(raw) /\ UNCHANGED <<outbox, validated, holder, twin>>
      BY <1>9 DEF RejectInvalid, Receives, engine
  <2>2. AV' = AV /\ AH' = AH /\ AR' = AR
      BY <2>1 DEF AheadValidated, AheadHolder, AheadRaw, Boxed
  <2>3. AS' \subseteq AS
      BY <1>a, <2>1, <2>2, HeadAndTail DEF AheadSimulator
  <2>4. OrderedQueue(raw', AR \cup {Head(raw).n})
      BY <1>a, <1>b, <2>1, LeaveQueue
  <2> HIDE DEF AS, AR, AH, AV
  <2> QED
      BY <1>b, <1>c, <2>1, <2>2, <2>3, <2>4, FewerAhead
<1>10. ASSUME NEW r \in Replicas, ForwardValid(r) PROVE OrderInv'
  <2> DEFINE m == Head(raw)
             p == Unsent(m)
  <2>1. /\ raw # <<>> /\ raw' = Tail(raw) /\ UNCHANGED <<validated, holder, twin>>
        /\ holder = r /\ outbox' = [outbox EXCEPT ![r] = Append(@, p)] /\ m # Intruder
      BY <1>10 DEF ForwardValid, Receives, engine
  <2>2. AV' = AV /\ AH' = AH
      BY <2>1 DEF AheadValidated, AheadHolder
  <2>3. m \in Carried /\ p \in Packet /\ p.msg = m
    <3>1. m \in Carried
        BY <1>a, <2>1, HeadAndTail
    <3> QED
        BY <3>1 DEF Unsent, Packet
  <2>4. outbox[r] \in Seq(Packet) /\ outbox'[r] = Append(outbox[r], p)
        /\ \A d \in Publishers : d # r => outbox'[d] = outbox[d]
      BY <1>a, <2>1
  <2> HIDE DEF p
  <2>5. \A q \in Replicas : Boxed(q)' \subseteq Boxed(q) \cup {m.n}
    <3>1. ASSUME NEW q \in Replicas PROVE Boxed(q)' \subseteq Boxed(q) \cup {m.n}
      <4>1. CASE q = r
          BY <2>3, <2>4, <4>1, AppendType DEF Boxed
      <4>2. CASE q # r
          BY <1>a, <2>4, <4>2 DEF Boxed
      <4> QED
          BY <4>1, <4>2
    <3> QED
        BY <3>1
  <2>6. AR' \subseteq AR \cup {m.n}
    <3>1. ASSUME NEW n \in AR' PROVE n \in AR \cup {m.n}
      <4>1. CASE n \in AH'
          BY <2>2, <4>1 DEF AheadRaw
      <4>2. CASE \E q \in Replicas : n \in Boxed(q)'
        <5>1. PICK q \in Replicas : n \in Boxed(q)'
            BY <4>2
        <5>2. n \in Boxed(q) \cup {m.n}
            BY <2>5, <5>1
        <5> QED
            BY <5>2 DEF AheadRaw
      <4> QED
          BY <4>1, <4>2 DEF AheadRaw
    <3> QED
        BY <3>1
  <2>7. m.n \in AS /\ \A i \in DOMAIN raw' : raw'[i].n \in AS
      BY <1>a, <2>1, HeadAndTail DEF AheadSimulator
  <2>8. AS' \subseteq AS
      BY <2>6, <2>7 DEF AheadSimulator
  <2>9. OrderedQueue(raw', AR \cup {m.n}) /\ (Fresh(m) => \A n \in AR : n <= m.n)
      BY <1>a, <1>b, <2>1, LeaveQueue
  <2>10. AH \subseteq AR /\ \A i \in DOMAIN outbox[r] : outbox[r][i].msg.n \in AR
      BY DEF AheadRaw, Boxed
  <2> HIDE DEF AS, AR, AH, AV, m
  <2>11. OrderedBox(outbox'[holder'], AH)
      BY <1>b, <2>1, <2>3, <2>4, <2>9, <2>10, JoinBox
  <2> QED
      BY <1>a, <1>b, <1>c, <2>1, <2>2, <2>4, <2>6, <2>8, <2>9, <2>11, FewerAhead
<1>11. CASE Judge
  <2> DEFINE m == Head(validated)
  <2>1. /\ validated # <<>> /\ validated' = Tail(validated)
        /\ UNCHANGED <<outbox, raw, holder>>
        /\ \A t \in twin' : t.n = m.n
      BY <1>11 DEF Judge, JudgeMessage
  <2>2. m.n \in AH /\ \A i \in DOMAIN validated' : validated'[i].n \in AH
      BY <1>a, <2>1, HeadAndTail DEF AheadHolder
  <2>3. AV' \subseteq {m.n}
      BY <2>1 DEF AheadValidated
  <2>4. AH' \subseteq AH
      BY <2>2, <2>3 DEF AheadHolder
  <2>5. AR' \subseteq AR /\ AS' \subseteq AS
      BY <2>1, <2>4 DEF AheadRaw, AheadSimulator, Boxed
  <2>6. OrderedQueue(validated', AV \cup {m.n})
      BY <1>a, <1>b, <2>1, LeaveQueue
  <2> HIDE DEF AS, AR, AH, AV, m
  <2> QED
      BY <1>b, <1>c, <2>1, <2>3, <2>4, <2>5, <2>6, FewerAhead
<1>12. CASE UNCHANGED <<outbox, raw, validated, holder, twin>>
    BY <1>12, <1>b DEF OrderInv, AheadValidated, AheadHolder, AheadRaw, AheadSimulator, Boxed
<1> QED
    BY <1>1, <1>2, <1>3, <1>4, <1>6, <1>7, <1>8, <1>9, <1>10, <1>11, <1>12
    DEF Next, Callback, EngineCallback, WriteTelemetry, WriteAlarm, WriteState, Tick,
        vars, broker, engine

\* The twin goes back to an older reading only by a message that a reconnection
\* found in an outbox, with any number of replicas.
THEOREM OrderCorrect == Spec => BackOnlyByResending
<1>1. Init => OrderInv
    BY DEF Init, OrderInv, OrderedBox, OrderedQueue, Publishers
<1>2. TypeInv /\ OrderInv /\ [Next]_vars =>
          [\A old \in twin, new \in twin' : new.n < old.n => new.again]_twin
  <2> SUFFICES ASSUME TypeInv, OrderInv, [Next]_vars, twin' # twin,
                      NEW old \in twin, NEW new \in twin', new.n < old.n
               PROVE  new.again
      OBVIOUS
  <2>1. Judge
      BY DEF Next, Callback, EngineCallback, PublishTelemetry, Intrude, Transmit,
         Acknowledge, RestartPublisher, Reconnect, RestartEngine, RejectInvalid,
         ForwardValid, WriteTelemetry, WriteAlarm, WriteState, Tick, vars, engine
  <2>2. validated # <<>> /\ validated \in Seq(Carried)
      BY <2>1 DEF Judge, JudgeMessage, TypeInv, TypeOK
  <2>3. Head(validated).n \in Nat \ {0} /\ old.n \in Nat
    <3>1. Head(validated) \in Carried
        BY <2>2, HeadAndTail
    <3> QED
        BY <3>1, NumbersTaken DEF Carried, Numbered
  <2>4. Fresh(Head(validated)) => old.n <= Head(validated).n
      BY <2>2, LeaveQueue DEF OrderInv, AheadValidated
  <2>5. new.n = Head(validated).n /\ (new.again <=> Head(validated).again)
      BY <2>1 DEF Judge, JudgeMessage
  <2> QED
      BY <2>3, <2>4, <2>5 DEF Fresh
<1> QED
    BY <1>1, <1>2, OrderStep, TypeInvariant, PTL DEF Spec, BackOnlyByResending
=============================================================================
