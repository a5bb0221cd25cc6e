------------------------------ MODULE LiveDemo ------------------------------
(***************************************************************************)
(* The demonstrations that inject a fault into the running system and show  *)
(* what the twin makes of it: omniverse/fault_demo.py and the cells of two  *)
(* notebooks and of the project's walkthrough.                              *)
(*                                                                          *)
(* A demonstration is a fixed sequence of requests, pauses and looks at the *)
(* newest stored reading within a window of seconds.  Around it the robot   *)
(* measures every second, its readings reach the database some seconds      *)
(* later in order, the pipeline may stand still for a while, what it has    *)
(* not lost meanwhile arrives afterwards, requests may be refused or time   *)
(* out, and whoever else is at the controls drives, holds or recalls the    *)
(* robot.                                                                   *)
(*                                                                          *)
(* A reading keeps what the faults change: whether the distance is the      *)
(* injected 15 cm (a desk, a wall or a clear way read otherwise), and       *)
(* whether the motor's current is the injected overload.                    *)
(***************************************************************************)
EXTENDS Naturals, Sequences

CONSTANTS
    LAG,        \* seconds a reading takes to the database at most
    MaxStalls,  \* bound: times the pipeline stands still
    MaxBacklog, \* bound: readings that wait while it does (MQTT clients keep any number)
    MaxChanges  \* bound: times someone else changes what the robot does

-----------------------------------------------------------------------------
(* The demonstrations *)

Post(f)  == [op |-> "post", fault |-> f]
Sleep(n) == [op |-> "sleep", seconds |-> n]
Show(w)  == [op |-> "show", window |-> w]

FaultDemo == <<Post("obstacle"), Sleep(8), Post("clear"), Sleep(3)>>

\* (slip) The cell waits for the pipeline after the injection, not after the clear.
HastyCell ==
    <<Show(10), Post("obstacle"), Sleep(15), Show(10), Post("clear"), Show(10)>>

VisualizationCell ==
    <<Show(10), Post("obstacle"), Sleep(15), Show(10), Post("clear"), Sleep(12), Show(10)>>
ModelCell == <<Show(10), Post("motor"), Sleep(15), Show(10), Post("clear")>>
WalkthroughCell == <<Post("motor"), Sleep(20), Show(15), Post("clear")>>

Programs == {FaultDemo, VisualizationCell, ModelCell, WalkthroughCell}

\* fault_demo.py catches what urllib raises when no answer comes at all or an
\* error does; a notebook's cell stops with the exception.
CatchesErrors(p) == p = FaultDemo

VARIABLES
    program, pc, wait,  \* the demonstration, its next step, seconds left until it
    status,             \* of the demonstration
    shown,              \* what its last look printed: at most one reading
    faults, situation,  \* of the robot: injected faults, and what it is doing
    steady,             \* (history) it has worked ever since the last answered request
    obstacle, overload, \* what it measures
    flight,             \* readings on their way, the oldest first
    stored,             \* the newest reading in the database: at most one
    flowing, stalls,
    smooth,             \* (history) the pipeline has flowed ever since that request
    changes

robot == <<faults, situation, steady, obstacle, overload>>
pipeline == <<flight, stored, flowing, stalls, smooth>>
script == <<program, pc, wait, status, shown>>
vars == <<script, robot, pipeline, changes>>

Situations == {"working", "returning", "manual", "held"}

\* The robot and the pipeline run for some seconds before the script does.
Init ==
    /\ program \in Programs /\ pc = 1 /\ wait = LAG + 1 /\ status = "running" /\ shown = {}
    /\ faults = {} /\ situation \in Situations /\ steady = (situation = "working")
    /\ obstacle = FALSE /\ overload = FALSE
    /\ flight = << >> /\ stored = {} /\ flowing = TRUE /\ stalls = 0
    /\ smooth = TRUE /\ changes = 0

-----------------------------------------------------------------------------
(* A second of the robot and of the pipeline *)

\* What _update_physics and MOVE_* leave in obstacle_cm and motor_current_a.  A
\* tick that skips a waypoint or starts the path again does not look at the
\* motor.  (The one that starts the path again does not look ahead either; that
\* 15 stays one second longer when a clear falls on it is left out.)
\* A manual move reads the way ahead, a manual tick without one reads nothing.
Measures(ob, ov) ==
    \/ /\ situation \in {"working", "returning"} /\ "obstacle" \in faults
       /\ ob = TRUE /\ ov = overload
    \/ /\ situation = "working" /\ "obstacle" \notin faults
       /\ ob = FALSE /\ ov \in {"motor" \in faults, overload \/ "motor" \in faults}
    \/ /\ situation = "returning" /\ "obstacle" \notin faults
       /\ ob = obstacle /\ ov = (overload \/ "motor" \in faults)
    \/ /\ situation = "manual"
       /\ ob \in {obstacle, FALSE} /\ ov = (overload /\ "motor" \in faults)
    \/ /\ situation = "held"
       /\ ob = obstacle /\ ov = overload

\* Ages count no further than anything looks back: LONGEST for what is stored, LAG
\* for what is on its way.
LONGEST == 15
Older(r, cap) == [r EXCEPT !.age = IF @ < cap THEN @ + 1 ELSE @]

\* Time passes when the script sleeps or is done; its other steps are quick, and what
\* comes after one that failed is left out.  A pipeline
\* that flows delivers within LAG seconds, what has waited before at once.  While
\* it stands still a reading waits behind the others or is lost.
Tick ==
    /\ \A i \in DOMAIN flight : flowing => flight[i].age < LAG
    /\ wait > 0 \/ status = "done"
    /\ wait' = IF wait > 0 THEN wait - 1 ELSE 0
    /\ \E ob, ov \in BOOLEAN :
          /\ Measures(ob, ov)
          /\ obstacle' = ob /\ overload' = ov
          /\ LET aged    == [i \in DOMAIN flight |-> Older(flight[i], LAG)]
                 reading == [age |-> 0, fresh |-> TRUE, obstacle |-> ob, overload |-> ov]
             IN  \/ (flowing \/ Len(flight) < MaxBacklog) /\ flight' = Append(aged, reading)
                 \/ ~flowing /\ flight' = aged
    /\ stored' = {Older(r, LONGEST) : r \in stored}
    /\ UNCHANGED <<program, pc, status, shown, faults, situation, steady, flowing, stalls,
                   smooth, changes>>

\* A tick that reaches _update_consumables.
Advance ==
    Tick /\ situation = "working" /\ ~obstacle' /\ overload' = ("motor" \in faults)

\* The point gets the time of its writing, not of its measurement.
Store ==
    /\ flowing /\ flight # << >>
    /\ stored' = {[Head(flight) EXCEPT !.age = 0]}
    /\ flight' = Tail(flight)
    /\ UNCHANGED <<script, robot, flowing, stalls, smooth, changes>>

\* Messages of QoS 1 outlive a connection, and wait while a write blocks; a
\* service that restarts loses them.
Stall ==
    /\ flowing /\ stalls < MaxStalls
    /\ flowing' = FALSE /\ smooth' = FALSE /\ stalls' = stalls + 1
    /\ flight' \in {flight, << >>}
    /\ UNCHANGED <<script, robot, stored, changes>>

Flow ==
    /\ ~flowing /\ flowing' = TRUE
    /\ UNCHANGED <<script, robot, flight, stored, stalls, smooth, changes>>

\* Commands of another operator, a low tank, the end of the cleaning.
Change(s) ==
    /\ situation # s /\ changes < MaxChanges
    /\ situation' = s /\ steady' = FALSE /\ changes' = changes + 1
    /\ UNCHANGED <<script, faults, obstacle, overload, pipeline>>

-----------------------------------------------------------------------------
(* The steps of the demonstration *)

Now(op) == /\ status = "running" /\ wait = 0
           /\ pc \in DOMAIN program /\ program[pc].op = op

\* (slip) clear takes back the obstacle only.
InjectObstacleOnly(f) == IF f = "clear" THEN faults \ {"obstacle"} ELSE faults \cup {f}

\* (slip) clear is a flag like the others.
InjectAnyFault(f) == faults \cup {f}

InjectFault(f) == IF f = "clear" THEN {} ELSE faults \cup {f}

Stale(r) == [r EXCEPT !.fresh = FALSE]

\* The simulator obeys.
Obeyed ==
    /\ faults' = InjectFault(program[pc].fault)
    /\ steady' = (situation = "working")
    /\ stored' = {Stale(r) : r \in stored}
    /\ flight' = [i \in DOMAIN flight |-> Stale(flight[i])]
    /\ UNCHANGED <<situation, obstacle, overload, flowing, stalls, changes>>

PostAnswered ==
    /\ Now("post") /\ Obeyed /\ smooth' = flowing
    /\ pc' = pc + 1 /\ shown' = {} /\ UNCHANGED <<program, wait, status>>

\* The answer is late: the exception is not one fault_demo.py catches.
PostTimesOut ==
    /\ Now("post") /\ ((Obeyed /\ UNCHANGED smooth) \/ UNCHANGED <<robot, pipeline, changes>>)
    /\ status' = "failed" /\ UNCHANGED <<program, pc, wait, shown>>

\* Nobody answers, or the simulator answers 503.  fault_demo.py gives up when
\* it is the first request, and pays no attention when it is the second.
PostRefused ==
    /\ Now("post")
    /\ IF CatchesErrors(program) /\ pc > 1
       THEN pc' = pc + 1 /\ status' = status
       ELSE pc' = pc /\ status' = "failed"
    /\ UNCHANGED <<program, wait, shown, robot, pipeline, changes>>

StartSleep ==
    /\ Now("sleep") /\ wait' = program[pc].seconds /\ pc' = pc + 1
    /\ UNCHANGED <<program, status, shown, robot, pipeline, changes>>

\* What is printed is kept without its age.
Printed(r) == [r EXCEPT !.age = 0]

ShowLast ==
    /\ Now("show") /\ shown' = {Printed(r) : r \in {s \in stored : s.age < program[pc].window}}
    /\ pc' = pc + 1 /\ UNCHANGED <<program, wait, status, robot, pipeline, changes>>

End ==
    /\ status = "running" /\ wait = 0 /\ pc > Len(program)
    /\ status' = "done" /\ UNCHANGED <<program, pc, wait, shown, robot, pipeline, changes>>

-----------------------------------------------------------------------------
Next ==
    \/ Tick \/ Store \/ Stall \/ Flow
    \/ \E s \in Situations : Change(s)
    \/ PostAnswered \/ PostTimesOut \/ PostRefused
    \/ StartSleep \/ ShowLast \/ End

\* The seconds pass, the pipeline delivers, the script goes on; a robot that
\* works does not skip waypoints for ever.
Spec ==
    /\ Init /\ [][Next]_vars
    /\ WF_vars(Tick) /\ SF_vars(Advance) /\ WF_vars(Store) /\ WF_vars(Flow)
    /\ WF_vars(PostAnswered \/ PostTimesOut \/ PostRefused \/ StartSleep \/ ShowLast \/ End)

-----------------------------------------------------------------------------
(* Properties *)

\* Script, robot and readings keep their types.
TypeOK ==
    /\ program \in Programs /\ pc \in 1..Len(program) + 1 /\ wait \in 0..20
    /\ status \in {"running", "done", "failed"}
    /\ faults \subseteq {"obstacle", "motor"} /\ situation \in Situations
    /\ obstacle \in BOOLEAN /\ overload \in BOOLEAN
    /\ \A r \in stored \cup shown : r.age \in 0..LONGEST /\ r.obstacle \in BOOLEAN
    /\ Len(flight) <= LAG + 1 \/ Len(flight) <= MaxBacklog

\* A look after a request prints a reading from before it only when the pipeline
\* has stood still since: otherwise the pauses are longer than the windows look
\* back.  And a reading from after it shows the injected fault if it is there and
\* none if it is cleared, when the robot has gone on working.
ShownIsInjected ==
    pc > 2 => \A r \in shown :
        /\ smooth => r.fresh
        /\ r.fresh /\ steady /\ status # "failed" =>
              /\ r.obstacle = ("obstacle" \in faults)
              /\ "obstacle" \notin faults => r.overload = ("motor" \in faults)

\* A cell whose requests were all answered leaves no fault behind: when the
\* robot goes on working, what the database shows recovers and stays so.
TwinRecovers ==
    <>[](status = "done" /\ program # FaultDemo /\ situation = "working")
        => <>[](\A r \in stored : ~r.obstacle /\ ~r.overload)
=============================================================================
