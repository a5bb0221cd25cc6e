--------------------------- MODULE ServiceStartup ---------------------------
(***************************************************************************)
(* How the services find the broker and stay with it.                       *)
(*                                                                          *)
(* Every service tries to connect ATTEMPTS times.  The consumers of         *)
(* telemetry (ingestion, state engine, AI service) then stay in the         *)
(* library's loop_forever; when they give up their main thread ends, and    *)
(* Docker starts the container again.  The robot simulator runs in a thread *)
(* of its own beside its HTTP server, and the Command API connects before   *)
(* it starts to serve: when those two give up, the process goes on.         *)
(*                                                                          *)
(* Once connected, the MQTT library takes a client through an outage of the *)
(* broker.  Only an exception in a callback leaves loop_forever, and costs  *)
(* a consumer one of its attempts.  The time between attempts is left out.  *)
(***************************************************************************)
EXTENDS Naturals

CONSTANTS
    Consumers,      \* the services that run loop_forever in their main thread
    ATTEMPTS,       \* connection attempts of a process
    MaxOutages,     \* bound: outages of the broker
    MaxFaults       \* bound: exceptions in callbacks and killed containers

ASSUME StartupAssumption ==
    /\ Consumers \cap {"robot-simulator", "command-api"} = {}
    /\ ATTEMPTS \in Nat \ {0} /\ MaxOutages \in Nat /\ MaxFaults \in Nat

Services == Consumers \cup {"robot-simulator", "command-api"}

VARIABLES
    up,         \* does the broker run
    link,       \* per service: where its MQTT client is
    attempt,    \* per service: the attempt its process is at
    serving,    \* the services whose HTTP endpoint answers
    met,        \* (history) services whose process has been connected
    outages, faults

vars == <<up, link, attempt, serving, met, outages, faults>>

\* Compose starts the services when the broker is healthy.
Init ==
    /\ up = TRUE
    /\ link = [s \in Services |-> "trying"] /\ attempt = [s \in Services |-> 1]
    /\ serving = {} /\ met = {} /\ outages = 0 /\ faults = 0

-----------------------------------------------------------------------------
(* The broker *)

BrokerStops ==
    /\ up /\ outages < MaxOutages
    /\ up' = FALSE /\ outages' = outages + 1
    /\ UNCHANGED <<link, attempt, serving, met, faults>>

BrokerStarts ==
    /\ ~up
    /\ up' = TRUE
    /\ UNCHANGED <<link, attempt, serving, met, outages, faults>>

-----------------------------------------------------------------------------
(* A service *)

Goes(s, phase) == link' = [link EXCEPT ![s] = phase]

\* The Command API serves when it has stopped trying, the others at once.
Serve(s) ==
    /\ s \notin serving /\ link[s] # "exited"
    /\ s = "command-api" => link[s] # "trying"
    /\ serving' = serving \cup {s}
    /\ UNCHANGED <<up, link, attempt, met, outages, faults>>

Connect(s) ==
    /\ link[s] = "trying" /\ up
    /\ Goes(s, "connected") /\ met' = met \cup {s}
    /\ UNCHANGED <<up, attempt, serving, outages, faults>>

\* (slip) The thread of the HTTP server is not a daemon: it keeps the process.
GiveUpButServe(s) == Goes(s, "given up") /\ UNCHANGED <<serving, met>>

\* A consumer's main thread ends, and its process with it; in the others only
\* the attempts end.
GiveUp(s) ==
    IF s \in Consumers
    THEN Goes(s, "exited") /\ serving' = serving \ {s} /\ met' = met \ {s}
    ELSE Goes(s, "given up") /\ UNCHANGED <<serving, met>>

\* An attempt is over without success, or without end.
NextAttempt(s) ==
    IF attempt[s] < ATTEMPTS
    THEN /\ attempt' = [attempt EXCEPT ![s] = @ + 1]
         /\ Goes(s, "trying") /\ UNCHANGED <<serving, met>>
    ELSE GiveUp(s) /\ UNCHANGED attempt

ConnectFails(s) ==
    /\ link[s] = "trying" /\ ~up
    /\ NextAttempt(s)
    /\ UNCHANGED <<up, outages, faults>>

CallbackRaises(s) ==
    /\ s \in Consumers /\ link[s] = "connected"
    /\ faults < MaxFaults /\ faults' = faults + 1
    /\ NextAttempt(s)
    /\ UNCHANGED <<up, outages>>

LoseBroker(s) ==
    /\ link[s] = "connected" /\ ~up
    /\ Goes(s, "reconnecting")
    /\ UNCHANGED <<up, attempt, serving, met, outages, faults>>

Reconnect(s) ==
    /\ link[s] = "reconnecting" /\ up
    /\ Goes(s, "connected")
    /\ UNCHANGED <<up, attempt, serving, met, outages, faults>>

-----------------------------------------------------------------------------
(* Docker *)

Kill(s) ==
    /\ link[s] # "exited"
    /\ faults < MaxFaults /\ faults' = faults + 1
    /\ Goes(s, "exited") /\ serving' = serving \ {s} /\ met' = met \ {s}
    /\ UNCHANGED <<up, attempt, outages>>

\* restart: unless-stopped; this time nobody waits for the broker.
Restart(s) ==
    /\ link[s] = "exited"
    /\ Goes(s, "trying") /\ attempt' = [attempt EXCEPT ![s] = 1]
    /\ UNCHANGED <<up, serving, met, outages, faults>>

-----------------------------------------------------------------------------

Runs(s) ==
    Serve(s) \/ Connect(s) \/ ConnectFails(s) \/ LoseBroker(s) \/ Reconnect(s) \/ Restart(s)

Next ==
    \/ BrokerStops \/ BrokerStarts
    \/ \E s \in Services : Runs(s) \/ CallbackRaises(s) \/ Kill(s)

\* Processes, the library and Docker carry on; the broker owes nothing.
Fairness ==
    \A s \in Services :
        WF_vars(Connect(s) \/ ConnectFails(s) \/ LoseBroker(s) \/ Reconnect(s) \/ Restart(s))

Spec == Init /\ [][Next]_vars /\ Fairness

-----------------------------------------------------------------------------
(* Properties *)

\* The clients stay in the phases of the library and the counters in range;
\* a process that has exited answers nobody.
TypeOK ==
    /\ up \in BOOLEAN
    /\ link \in [Services -> {"trying", "connected", "reconnecting", "given up", "exited"}]
    /\ attempt \in [Services -> 1 .. ATTEMPTS]
    /\ serving \subseteq Services /\ met \subseteq Services
    /\ outages \in 0 .. MaxOutages /\ faults \in 0 .. MaxFaults

\* Giving up is for a start: a process that was connected once is never left
\* deaf by an outage, however long and often the broker is away.
OutagesAreSurvived == \A s \in met : link[s] # "given up"

\* If the broker stays up in the end, telemetry is consumed again: every
\* consumer is connected for good, whatever attempts it had used.
ConsumersReturn == <>[]up => \A s \in Consumers : <>[](link[s] = "connected")
=============================================================================
