---------------------------- MODULE TwinPipeline ----------------------------
(***************************************************************************)
(* The way of a reading from the robot to the twin: the main loop of the    *)
(* robot simulator publishes telemetry, the Telemetry Ingestion service     *)
(* validates, forwards and records it, and the State Engine judges it.      *)
(*                                                                          *)
(* The services meet only at the MQTT broker.  Publishing is QoS 1: a       *)
(* message stays in its client's outbox until the broker has acknowledged   *)
(* it, and is sent again after a reconnection.  Subscribing is with a clean *)
(* session: when a client reconnects, what was queued for it is gone.  All  *)
(* replicas of the ingestion service connect under one client id, so the    *)
(* broker keeps one session for them, and whoever connects takes it over.   *)
(*                                                                          *)
(* Each callback runs on its client's network thread, one message after the *)
(* other; the writes a callback makes are steps of their own, because the   *)
(* other services and the readers of InfluxDB run between them.  A write    *)
(* that fails is logged and its point is missing.  The counters that only   *)
(* /health reports are left out.                                            *)
(***************************************************************************)
EXTENDS TwinState, Sequences

CONSTANTS
    Readings,       \* the telemetry the robot may send
    Replicas,       \* the instances of the ingestion service
    MaxReadings,    \* bound: readings the robot takes
    MaxIntrusions,  \* bound: messages from elsewhere on the raw topic
    MaxFaults       \* bound: broken connections, restarts and failed writes, in all

ASSUME PipelineAssumption ==
    /\ Readings \subseteq Telemetry
    /\ "simulator" \notin Replicas /\ "engine" \notin Replicas
    /\ Replicas # {}
    /\ MaxReadings \in Nat /\ MaxIntrusions \in Nat /\ MaxFaults \in Nat

Publishers == {"simulator"} \cup Replicas
Clients    == Publishers \cup {"engine"}

VARIABLES
    taken,          \* the readings, in the order the robot published them
    outbox,         \* per publisher: the messages not yet acknowledged
    raw, validated, \* what the broker has queued for the two subscriptions
    holder,         \* the replica that holds the session of their client id
    writing,        \* per replica: the reading forwarded but not yet written
    heard, gap,     \* _last_msg_time: is it set, and how long ago is that
    twin,           \* the last message on the state topic: at most one
    handling,       \* the reading the engine's callback is busy with, 0 for none
    alarmsDue,      \* the alarms of it still to be published and written
    telemetryPoints, alarmPoints, statePoint,    \* what InfluxDB has of readings
    invalidPoints,  \* how many robot_telemetry_invalid points it has
    unwritten,      \* readings of which a point could not be written
    judged, lost,   \* readings the engine judged; gone with a session or process
    intrusions, faults

broker   == <<outbox, raw, validated, holder>>
engine   == <<heard, gap, twin, handling, alarmsDue>>
influxdb == <<telemetryPoints, alarmPoints, statePoint, invalidPoints, unwritten>>
budget   == <<intrusions, faults>>
vars == <<taken, broker, writing, engine, influxdb, judged, lost, budget>>

Init ==
    /\ taken = <<>>
    /\ outbox = [c \in Publishers |-> <<>>] /\ raw = <<>> /\ validated = <<>>
    /\ holder \in Replicas /\ writing = [r \in Replicas |-> {}]
    /\ heard = FALSE /\ gap = 0 /\ twin = {} /\ handling = 0 /\ alarmsDue = {}
    /\ telemetryPoints = {} /\ alarmPoints = {} /\ statePoint = 0
    /\ invalidPoints = 0 /\ unwritten = {}
    /\ judged = {} /\ lost = {} /\ intrusions = 0 /\ faults = 0

\* A message carries reading n; again marks one that a reconnection found in its
\* publisher's outbox.  The messages from elsewhere carry none: they are not
\* JSON or fail the schema.
Message(n, again) == [n |-> n, again |-> again]
Intruder == Message(0, FALSE)
Unsent(m) == [msg |-> m, sent |-> FALSE]

\* Something goes wrong.
Fault == faults < MaxFaults /\ faults' = faults + 1

-----------------------------------------------------------------------------
(* MQTT *)

\* Of the replicas only the one that holds the session is connected.
Connected(c) == c \in Replicas => holder = c

\* The network thread of c hands its oldest unsent message to the broker.
Transmit(c) ==
    /\ Connected(c)
    /\ \E i \in DOMAIN outbox[c] :
          /\ ~outbox[c][i].sent
          /\ \A j \in 1 .. i - 1 : outbox[c][j].sent
          /\ outbox' = [outbox EXCEPT ![c][i].sent = TRUE]
          /\ \/ /\ c = "simulator" /\ raw' = Append(raw, outbox[c][i].msg)
                /\ UNCHANGED validated
             \/ /\ c \in Replicas /\ validated' = Append(validated, outbox[c][i].msg)
                /\ UNCHANGED raw
    /\ UNCHANGED <<taken, holder, writing, engine, influxdb, judged, lost, budget>>

\* The broker's PUBACK for the oldest message.
Acknowledge(c) ==
    /\ Connected(c)
    /\ outbox[c] # <<>> /\ Head(outbox[c]).sent
    /\ outbox' = [outbox EXCEPT ![c] = Tail(@)]
    /\ UNCHANGED <<taken, raw, validated, holder, writing, engine, influxdb, judged,
                   lost, budget>>

\* After a reconnection everything in the outbox is to be sent: what had been
\* sent already goes out a second time, the rest later than it should.
SentAgain(box) == [i \in DOMAIN box |-> Unsent(Message(box[i].msg.n, TRUE))]

Numbers(queue) == {queue[i].n : i \in DOMAIN queue} \ {0}

\* A connection of c breaks, or c takes the session over: what the broker had
\* queued for it is discarded (clean session).
LoseSession(c) ==
    /\ Fault
    /\ raw' = IF c \in Replicas THEN <<>> ELSE raw
    /\ validated' = IF c = "engine" THEN <<>> ELSE validated
    /\ holder' = IF c \in Replicas THEN c ELSE holder

Discarded(c) ==
    (IF c \in Replicas THEN Numbers(raw) ELSE {})
    \cup (IF c = "engine" THEN Numbers(validated) ELSE {})

Reconnect(c) ==
    /\ LoseSession(c)
    /\ outbox' = IF c \in Publishers
                 THEN [outbox EXCEPT ![c] = SentAgain(@)] ELSE outbox
    /\ lost' = lost \cup Discarded(c)
    /\ UNCHANGED <<taken, writing, engine, influxdb, judged, intrusions>>

\* The container of a publisher is restarted: its outbox is gone, and a write
\* it was about to make is never made.
RestartPublisher(c) ==
    /\ LoseSession(c)
    /\ outbox' = [outbox EXCEPT ![c] = <<>>]
    /\ lost' = lost \cup Discarded(c) \cup {outbox[c][i].msg.n : i \in DOMAIN outbox[c]}
    /\ \/ /\ c \in Replicas
          /\ writing' = [writing EXCEPT ![c] = {}]
          /\ unwritten' = unwritten \cup writing[c]
       \/ c = "simulator" /\ UNCHANGED <<writing, unwritten>>
    /\ UNCHANGED <<taken, engine, telemetryPoints, alarmPoints, statePoint,
                   invalidPoints, judged, intrusions>>

\* The engine forgets when it last heard of the robot; the message it was
\* busy with keeps the points it has.
RestartEngine ==
    /\ LoseSession("engine")
    /\ lost' = lost \cup Discarded("engine")
    /\ heard' = FALSE /\ gap' = 0 /\ handling' = 0 /\ alarmsDue' = {}
    /\ unwritten' = unwritten \cup ({handling} \ {0})
    /\ UNCHANGED <<taken, outbox, writing, twin, telemetryPoints, alarmPoints,
                   statePoint, invalidPoints, judged, intrusions>>

-----------------------------------------------------------------------------
(* The robot simulator, and whoever else publishes on the raw topic *)

\* One turn of the main loop: the snapshot is published; the client queues it.
PublishTelemetry(m) ==
    /\ Len(taken) < MaxReadings
    /\ taken' = Append(taken, m)
    /\ outbox' = [outbox EXCEPT !["simulator"] =
                     Append(@, Unsent(Message(Len(taken) + 1, FALSE)))]
    /\ UNCHANGED <<raw, validated, holder, writing, engine, influxdb, judged, lost, budget>>

Intrude ==
    /\ intrusions < MaxIntrusions /\ intrusions' = intrusions + 1
    /\ raw' = Append(raw, Intruder)
    /\ UNCHANGED <<taken, outbox, validated, holder, writing, engine, influxdb, judged,
                   lost, faults>>

-----------------------------------------------------------------------------
(* Telemetry Ingestion: _on_message *)

\* The holder's callback is free to take the next message.
Receives(r) == holder = r /\ raw # <<>> /\ writing[r] = {} /\ raw' = Tail(raw)

\* Neither JSON nor a TelemetryMessage: recorded as invalid, not forwarded.
RejectInvalid(r) ==
    /\ Receives(r) /\ Head(raw) = Intruder
    /\ \/ invalidPoints' = invalidPoints + 1 /\ UNCHANGED faults
       \/ Fault /\ UNCHANGED invalidPoints
    /\ UNCHANGED <<taken, outbox, validated, holder, writing, engine, telemetryPoints,
                   alarmPoints, statePoint, unwritten, judged, lost, intrusions>>

\* (slip) The write is left to whoever reads the validated topic.
ForwardOnly(r) ==
    /\ Receives(r) /\ Head(raw) # Intruder
    /\ outbox' = [outbox EXCEPT ![r] = Append(@, Unsent(Head(raw)))]
    /\ UNCHANGED <<taken, validated, holder, writing, engine, influxdb, judged, lost, budget>>

\* A valid message is published first and written to InfluxDB afterwards.
ForwardValid(r) ==
    /\ Receives(r) /\ Head(raw) # Intruder
    /\ outbox' = [outbox EXCEPT ![r] = Append(@, Unsent(Head(raw)))]
    /\ writing' = [writing EXCEPT ![r] = {Head(raw).n}]
    /\ UNCHANGED <<taken, validated, holder, engine, influxdb, judged, lost, budget>>

WriteTelemetry(r) ==
    /\ writing[r] # {}
    /\ writing' = [writing EXCEPT ![r] = {}]
    /\ \/ telemetryPoints' = telemetryPoints \cup writing[r] /\ UNCHANGED <<unwritten, faults>>
       \/ Fault /\ unwritten' = unwritten \cup writing[r] /\ UNCHANGED telemetryPoints
    /\ UNCHANGED <<taken, broker, engine, alarmPoints, statePoint, invalidPoints,
                   judged, lost, intrusions>>

-----------------------------------------------------------------------------
(* State Engine: _on_message *)

\* A message is judged by its distance in time to the one before it, and the
\* state is published; the coverage comes with the message.
JudgeMessage(m) ==
    /\ handling = 0
    /\ twin' = {[n |-> m.n, again |-> m.again, state |-> Evaluate(taken[m.n], heard, gap)]}
    /\ judged' = judged \cup {m.n}
    /\ handling' = m.n /\ alarmsDue' = Alarms(taken[m.n])
    /\ heard' = TRUE /\ gap' = 0
    /\ UNCHANGED <<taken, outbox, raw, holder, writing, influxdb, lost, budget>>

\* (slip) The youngest message is judged first.
JudgeYoungest ==
    /\ validated # <<>> /\ JudgeMessage(validated[Len(validated)])
    /\ validated' = SubSeq(validated, 1, Len(validated) - 1)

\* (slip) Of the messages that wait only the youngest is judged.
JudgeLatest ==
    /\ validated # <<>> /\ JudgeMessage(validated[Len(validated)])
    /\ validated' = <<>>

Judge ==
    /\ validated # <<>> /\ JudgeMessage(Head(validated))
    /\ validated' = Tail(validated)

\* Every alarm is published and written, one after the other.
WriteAlarm(a) ==
    /\ a \in alarmsDue
    /\ alarmsDue' = alarmsDue \ {a}
    /\ \/ alarmPoints' = alarmPoints \cup {<<handling, a>>} /\ UNCHANGED <<unwritten, faults>>
       \/ Fault /\ unwritten' = unwritten \cup {handling} /\ UNCHANGED alarmPoints
    /\ UNCHANGED <<taken, broker, writing, heard, gap, twin, handling, telemetryPoints,
                   statePoint, invalidPoints, judged, lost, intrusions>>

\* (slip) The state is written without waiting for the alarms it lists.
WriteStateAtOnce ==
    /\ handling # 0
    /\ handling' = 0 /\ alarmsDue' = {}
    /\ statePoint' = handling
    /\ UNCHANGED <<taken, broker, writing, heard, gap, twin, telemetryPoints, alarmPoints,
                   unwritten, invalidPoints, judged, lost, budget>>

\* The state is written last.
WriteState ==
    /\ handling # 0 /\ alarmsDue = {}
    /\ handling' = 0
    /\ \/ statePoint' = handling /\ UNCHANGED <<unwritten, faults>>
       \/ Fault /\ unwritten' = unwritten \cup {handling} /\ UNCHANGED statePoint
    /\ UNCHANGED <<taken, broker, writing, heard, gap, twin, alarmsDue, telemetryPoints,
                   alarmPoints, invalidPoints, judged, lost, intrusions>>

\* A second passes since the engine's last message.
Tick ==
    /\ heard /\ gap <= OFFLINE_AFTER
    /\ gap' = gap + 1
    /\ UNCHANGED <<taken, broker, writing, heard, twin, handling, alarmsDue, influxdb,
                   judged, lost, budget>>

-----------------------------------------------------------------------------

Callback(r) == RejectInvalid(r) \/ ForwardValid(r) \/ WriteTelemetry(r)
EngineCallback == Judge \/ (\E a \in AlarmTypes : WriteAlarm(a)) \/ WriteState

Next ==
    \/ \E m \in Readings : PublishTelemetry(m)
    \/ Intrude
    \/ \E c \in Publishers : Transmit(c) \/ Acknowledge(c) \/ RestartPublisher(c)
    \/ \E c \in Clients : Reconnect(c)
    \/ RestartEngine
    \/ \E r \in Replicas : Callback(r)
    \/ EngineCallback
    \/ Tick

\* The network threads and the callbacks run; the robot, the connections and
\* the clock are under no obligation.
Fairness ==
    /\ \A c \in Publishers : WF_vars(Transmit(c))
    /\ \A r \in Replicas : WF_vars(Callback(r))
    /\ WF_vars(EngineCallback)

Spec == Init /\ [][Next]_vars /\ Fairness

-----------------------------------------------------------------------------
(* Properties *)

Numbered == 1 .. Len(taken)
Carried  == [n : Numbered, again : BOOLEAN]

\* Every queue, table and point holds what it is meant to hold, and nothing
\* refers to a reading that was never taken.
TypeOK ==
    /\ taken \in Seq(Readings) /\ Len(taken) <= MaxReadings
    /\ outbox \in [Publishers -> Seq([msg : Carried, sent : BOOLEAN])]
    /\ raw \in Seq(Carried \cup {Intruder}) /\ validated \in Seq(Carried)
    /\ holder \in Replicas /\ writing \in [Replicas -> SUBSET Numbered]
    /\ heard \in BOOLEAN /\ gap \in 0 .. OFFLINE_AFTER + 1
    /\ twin \subseteq [n : Numbered, again : BOOLEAN, state : DigitalTwinState]
    /\ handling \in {0} \cup Numbered /\ alarmsDue \subseteq AlarmTypes
    /\ telemetryPoints \subseteq Numbered
    /\ alarmPoints \subseteq Numbered \X AlarmTypes
    /\ statePoint \in {0} \cup Numbered
    /\ invalidPoints \in Nat /\ unwritten \subseteq Numbered
    /\ judged \subseteq Numbered /\ lost \subseteq Numbered
    /\ intrusions \in 0 .. MaxIntrusions /\ faults \in 0 .. MaxFaults

\* A state the engine has judged rests on a telemetry point: the point is in
\* InfluxDB, is just being written by the ingestion service, or its write
\* failed.  The console and the scene read both measurements separately.
JudgedIsRecorded ==
    \A n \in judged : \/ n \in telemetryPoints \cup unwritten
                      \/ \E r \in Replicas : n \in writing[r]

\* The state point in InfluxDB lists alarms whose points are there already,
\* unless the write of one of them failed (_on_message writes the state last).
AlarmsComeFirst ==
    statePoint \notin {0} \cup unwritten =>
        \A a \in Alarms(taken[statePoint]) : <<statePoint, a>> \in alarmPoints

\* The twin goes back to an older reading only by a message that was left over
\* from before a reconnection; nothing in the engine looks at the sequence
\* number, so the order of the queues is all that keeps the twin in order.
BackOnlyByResending ==
    [][\A old \in twin, new \in twin' : new.n < old.n => new.again]_twin

\* The twin shows judgements of readings the robot has taken, and each reading
\* is judged in the end or was lost with a session or a restarted process.  That
\* it is settled in the end holds of one replica: with more, one that was put out
\* and does not connect again keeps what it has not sent.
Mirror == INSTANCE TwinMirror
    WITH shown <- {t.state : t \in twin}, settled <- judged \cup lost
MirrorsTheRobot == Mirror!Spec

\* A twin that has heard nothing for longer than OFFLINE_AFTER says so.
SilenceShows ==
    heard /\ gap > OFFLINE_AFTER => \A t \in twin : t.state.twin_quality = "INVALID"
=============================================================================
