----------------------------- MODULE CommandApi -----------------------------
(***************************************************************************)
(* The Command API (services/command-api/main.py): every POST runs          *)
(* issue_command in a worker thread of its own, which publishes the command *)
(* and waits for the acknowledgement; the one MQTT thread runs _on_ack.     *)
(* They share three dictionaries and no lock, so every statement that       *)
(* touches a dictionary, an event or the database is a step of its own.     *)
(*                                                                          *)
(* Broker and robot are external.  A command may reach the robot late,      *)
(* never, or once per matching subscription; the robot accepts or refuses   *)
(* each delivery; an acknowledgement may be late or lost.                   *)
(***************************************************************************)
EXTENDS Naturals

CONSTANTS Requests,     \* the commands that are issued, one POST each
          Deliveries    \* per command, the most the broker may deliver it

ASSUME DeliveriesAssumption == Deliveries \in [Requests -> Nat]

Copies == UNION {1 .. Deliveries[r] : r \in Requests}

Acknowledgements == [request : Requests, copy : Copies, accepted : BOOLEAN]

VARIABLES
    pc,                     \* per request, the next statement of its worker
    pending,                \* the keys of _pending_acks
    signalled,              \* the requests whose Event is set
    results,                \* _ack_results: per request, none or one
    ack_received,           \* per request, what ack_event.wait returned
    ack_data,               \* per request, what its worker took: none or one
    status,                 \* per request, the status in _command_history
    timed,                  \* the acknowledgements that were given a latency_ms
    responses,              \* per request, the response: none or one
    callback_at,            \* the next statement of _on_ack
    callback_ack,           \* the acknowledgement it handles: none or one
    robot_acknowledgement,  \* points written: <<acknowledgement, latency_ms>>
    unwritten,              \* history: acknowledgements whose write failed
    commands,               \* external: deliveries on their way to the robot
    acks,                   \* external: acknowledgements on their way back
    obeyed                  \* external: every acknowledgement the robot made

tables   == <<pending, signalled, results, timed>>
worker   == <<pc, ack_received, ack_data, status, responses>>
callback == <<callback_at, callback_ack, robot_acknowledgement, unwritten>>
external == <<commands, acks, obeyed>>
vars     == <<pc, pending, signalled, results, ack_received, ack_data, status,
              timed, responses, callback_at, callback_ack,
              robot_acknowledgement, unwritten, commands, acks, obeyed>>

Init ==
    /\ pc = [r \in Requests |-> "idle"]
    /\ pending = {} /\ signalled = {} /\ timed = {}
    /\ results = [r \in Requests |-> {}]
    /\ ack_received = [r \in Requests |-> FALSE]
    /\ ack_data = [r \in Requests |-> {}]
    /\ status = [r \in Requests |-> "none"]
    /\ responses = [r \in Requests |-> {}]
    /\ callback_at = "idle" /\ callback_ack = {}
    /\ robot_acknowledgement = {} /\ unwritten = {}
    /\ commands = {} /\ acks = {} /\ obeyed = {}

-----------------------------------------------------------------------------
(* issue_command, in the worker thread of request r *)

Goto(r, from, to) == pc[r] = from /\ pc' = [pc EXCEPT ![r] = to]

\* An unknown robot is refused before this and changes nothing.
Register(r) ==
    /\ Goto(r, "idle", "publish")
    /\ pending' = pending \cup {r}
    /\ UNCHANGED <<signalled, results, timed, ack_received, ack_data, status,
                   responses, callback, external>>

Publish(r) ==
    /\ Goto(r, "publish", "record")
    /\ \E n \in 0 .. Deliveries[r] : commands' = commands \cup ({r} \X (1 .. n))
    /\ UNCHANGED <<tables, ack_received, ack_data, status, responses, callback,
                   acks, obeyed>>

Record(r) ==
    /\ Goto(r, "record", "wait")
    /\ status' = [status EXCEPT ![r] = "issued"]
    /\ UNCHANGED <<tables, ack_received, ack_data, responses, callback, external>>

\* (slip) The wait ends when the result is there, not when the event is set.
WakeOnResult(r) ==
    /\ Goto(r, "wait", "collect")
    /\ results[r] # {}
    /\ ack_received' = [ack_received EXCEPT ![r] = TRUE]
    /\ UNCHANGED <<tables, ack_data, status, responses, callback, external>>

Wake(r) ==
    /\ Goto(r, "wait", "collect")
    /\ r \in signalled
    /\ ack_received' = [ack_received EXCEPT ![r] = TRUE]
    /\ UNCHANGED <<tables, ack_data, status, responses, callback, external>>

\* The event was not set in time; it may still be set before the next statement.
TimeOut(r) ==
    /\ Goto(r, "wait", "collect")
    /\ r \notin signalled
    /\ UNCHANGED <<tables, ack_received, ack_data, status, responses, callback,
                   external>>

Collect(r) ==
    /\ Goto(r, "collect", "drop")
    /\ ack_data' = [ack_data EXCEPT ![r] = results[r]]
    /\ UNCHANGED <<tables, ack_received, status, responses, callback, external>>

Drop(r) ==
    /\ Goto(r, "drop", "close")
    /\ pending' = pending \ {r}
    /\ UNCHANGED <<signalled, results, timed, ack_received, ack_data, status,
                   responses, callback, external>>

\* The latency goes into the dictionary the callback stored, which is the one it
\* writes to the database.
Close(r) ==
    /\ Goto(r, "close", "answered")
    /\ timed' = IF ack_received[r] THEN timed \cup ack_data[r] ELSE timed
    /\ status' = [status EXCEPT ![r] = IF ack_received[r] THEN "acked" ELSE "timeout"]
    /\ responses' = [responses EXCEPT ![r] =
           {[received |-> ack_received[r],
             accepted |-> {ack.accepted : ack \in ack_data[r]}]}]
    /\ UNCHANGED <<pending, signalled, results, ack_received, ack_data,
                   callback, external>>

IssueCommand(r) ==
    \/ Publish(r) \/ Record(r) \/ Wake(r) \/ TimeOut(r)
    \/ Collect(r) \/ Drop(r) \/ Close(r)

-----------------------------------------------------------------------------
(* _on_ack, in the MQTT thread *)

\* (slip) The waiting worker is woken before the result is stored.
ReceiveAndSignal ==
    /\ callback_at = "idle"
    /\ \E ack \in acks :
          /\ acks' = acks \ {ack}
          /\ IF ack.request \in pending
             THEN callback_at' = "store" /\ callback_ack' = {ack}
             ELSE UNCHANGED <<callback_at, callback_ack>>
          /\ signalled' = signalled \cup ({ack.request} \cap pending)
    /\ UNCHANGED <<worker, pending, results, timed, robot_acknowledgement,
                   unwritten, commands, obeyed>>

\* An acknowledgement nobody is waiting for any more is ignored.
Receive ==
    /\ callback_at = "idle"
    /\ \E ack \in acks :
          /\ acks' = acks \ {ack}
          /\ IF ack.request \in pending
             THEN callback_at' = "store" /\ callback_ack' = {ack}
             ELSE UNCHANGED <<callback_at, callback_ack>>
    /\ UNCHANGED <<worker, tables, robot_acknowledgement, unwritten, commands,
                   obeyed>>

StoreResult ==
    /\ callback_at = "store"
    /\ \E ack \in callback_ack : results' = [results EXCEPT ![ack.request] = {ack}]
    /\ callback_at' = "signal"
    /\ UNCHANGED <<worker, pending, signalled, timed, callback_ack,
                   robot_acknowledgement, unwritten, external>>

\* The key may be gone since Receive looked: the KeyError ends the callback.
SignalWaiter ==
    /\ callback_at = "signal"
    /\ \E ack \in callback_ack :
          IF ack.request \in pending
          THEN /\ signalled' = signalled \cup {ack.request}
               /\ callback_at' = "write"
               /\ UNCHANGED callback_ack
          ELSE /\ callback_at' = "idle" /\ callback_ack' = {}
               /\ UNCHANGED signalled
    /\ UNCHANGED <<worker, pending, results, timed, robot_acknowledgement, unwritten,
                   external>>

\* Without a latency_ms in the dictionary the point says 0.0; the worker may come
\* with it too late.
Latency(ack) == IF ack \in timed THEN "measured" ELSE "zero"

\* The database may refuse the point or be away; the exception is logged only.
WriteAck ==
    /\ callback_at = "write"
    /\ \E ack \in callback_ack :
          \/ /\ robot_acknowledgement' =
                    robot_acknowledgement \cup {<<ack, Latency(ack)>>}
             /\ UNCHANGED unwritten
          \/ /\ unwritten' = unwritten \cup {ack}
             /\ UNCHANGED robot_acknowledgement
    /\ callback_at' = "idle" /\ callback_ack' = {}
    /\ UNCHANGED <<worker, tables, external>>

OnAck == Receive \/ StoreResult \/ SignalWaiter \/ WriteAck

-----------------------------------------------------------------------------
(* The robot, behind the broker *)

\* _on_command at the other end: each delivery is tried and acknowledged.
Obey(r, copy, accepted) ==
    LET ack == [request |-> r, copy |-> copy, accepted |-> accepted]
    IN  /\ <<r, copy>> \in commands
        /\ \A earlier \in 1 .. copy - 1 : <<r, earlier>> \notin commands
        /\ commands' = commands \ {<<r, copy>>}
        /\ obeyed' = obeyed \cup {ack}
        /\ acks' = acks \cup {ack} \/ UNCHANGED acks
        /\ UNCHANGED <<worker, tables, callback>>

Next ==
    \/ \E r \in Requests : Register(r) \/ IssueCommand(r)
    \/ OnAck
    \/ \E r \in Requests, copy \in Copies, accepted \in BOOLEAN :
          Obey(r, copy, accepted)

\* Every worker thread and the MQTT thread keep running; the operator, the robot
\* and the broker owe nothing.
Spec ==
    /\ Init /\ [][Next]_vars
    /\ \A r \in Requests : WF_vars(IssueCommand(r))
    /\ WF_vars(OnAck)

-----------------------------------------------------------------------------
(* Safety *)

WorkerSteps == {"idle", "publish", "record", "wait", "collect", "drop", "close",
                "answered"}

Singletons(S) == {{}} \cup {{x} : x \in S}

\* Every dictionary maps requests to what it is meant to hold (the module's
\* globals and the locals of issue_command and _on_ack).
TypeOK ==
    /\ pc \in [Requests -> WorkerSteps]
    /\ pending \subseteq Requests /\ signalled \subseteq Requests
    /\ results \in [Requests -> Singletons(Acknowledgements)]
    /\ ack_received \in [Requests -> BOOLEAN]
    /\ ack_data \in [Requests -> Singletons(Acknowledgements)]
    /\ status \in [Requests -> {"none", "issued", "acked", "timeout"}]
    /\ timed \subseteq Acknowledgements
    /\ responses \in [Requests -> Singletons([received : BOOLEAN,
                                              accepted : SUBSET BOOLEAN])]
    /\ callback_at \in {"idle", "store", "signal", "write"}
    /\ callback_ack \in Singletons(Acknowledgements)
    /\ robot_acknowledgement \subseteq Acknowledgements \X {"measured", "zero"}
    /\ unwritten \subseteq Acknowledgements
    /\ commands \subseteq Requests \X Copies
    /\ acks \subseteq Acknowledgements /\ obeyed \subseteq Acknowledgements

Written(r) == \E point \in robot_acknowledgement : point[1].request = r
Writing(r) == callback_at = "write" /\ \E ack \in callback_ack : ack.request = r

Lost(r)    == \E ack \in unwritten : ack.request = r

\* An operator is told that an acknowledgement was received only if one is in
\* the database, about to be written there, or was refused by the database, which
\* the API then logged: no acknowledgement it reports is dropped unseen, also
\* where the callback finds the request gone halfway and gives up (the KeyError
\* in _on_ack).
ReceivedIsRecorded ==
    \A r \in Requests : ack_received[r] => Written(r) \/ Writing(r) \/ Lost(r)

-----------------------------------------------------------------------------
(* Refinement *)

Remote == INSTANCE RemoteCommand
              WITH asked <- {r \in Requests : pc[r] # "idle"}

\* The threads together keep the promise of RemoteCommand: one response per
\* request, no verdict the robot did not give on that very command, a verdict
\* with every acknowledgement received, and an answer in the end.
KeepsPromise == Remote!Spec
=============================================================================
