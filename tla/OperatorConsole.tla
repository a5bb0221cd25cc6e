-------------------------- MODULE OperatorConsole --------------------------
(***************************************************************************)
(* The operator's page (services/web-control/static/app.js) and the server  *)
(* behind it (services/web-control/main.py).  The page polls the twin's     *)
(* state and draws it; a second poll may start before the first has come    *)
(* back, and the answers may come back in any order.  Buttons send commands *)
(* through the server to the Command API, which answers with the robot's    *)
(* acknowledgement or, after its timeout, mostly without one.  A command    *)
(* may reach the robot more than once, which acknowledges each time.  A     *)
(* macro is a sequence of commands the server sends one after the other.    *)
(*                                                                          *)
(* The Command API, the robot and the pipeline that stores the robot's mode *)
(* are modelled as the console meets them.  Of a poll only the robot's mode *)
(* matters: telemetry has no such field, so it is that of robot_state.      *)
(* Drawing, the connection label (it is green whenever a poll is answered), *)
(* the password, the phone's address and the fault and what-if buttons,     *)
(* which pass on what they get, are left out.                               *)
(***************************************************************************)
EXTENDS Naturals, Sequences, FiniteSets, SequencesExt

CONSTANTS
    Polls,          \* requests for /api/state that may be under way at once
    MacrosUsed,     \* the macros the operator presses
    Deliveries,     \* times the broker delivers a command to the robot at most
    MaxRequests,    \* bound: commands sent from this page
    MaxSurprises    \* bound: commands from elsewhere, failed polls and times
                    \* without a recent state, in all

Macros ==
    [wet_clean      |-> <<"START", "BRUSH_ON", "PUMP_ON">>,
     dry_sweep      |-> <<"START", "BRUSH_ON", "PUMP_OFF">>,
     actuators_off  |-> <<"BRUSH_OFF", "PUMP_OFF">>,
     park           |-> <<"BRUSH_OFF", "PUMP_OFF", "RETURN_HOME">>,
     emergency_stop |-> <<"STOP", "BRUSH_OFF", "PUMP_OFF">>]

ASSUME ConsoleAssumption ==
    /\ MacrosUsed \subseteq DOMAIN Macros
    /\ Deliveries \in Nat \ {0} /\ MaxRequests \in Nat /\ MaxSurprises \in Nat

\* The page tells apart MANUAL and every other mode.
Modes == {"MANUAL", "other"}
Commands == {"START", "STOP", "RETURN_HOME", "BRUSH_ON", "BRUSH_OFF", "PUMP_ON",
             "PUMP_OFF", "MANUAL_MODE", "AUTO_MODE", "MOVE"}

VARIABLES
    robot,          \* is it in manual control, and the mode it reports
    applied,        \* the macros' commands as often and in the order the robot took them
    stored,         \* the mode of the latest robot_state of the last minute
    polls,          \* the answers to polls under way to the page
    manualOn,       \* the page: is the pad armed
    box,            \* the page: the last report on a command of the pad
    requests,       \* the commands the page sent, whoever they belong to
    macro,          \* the macro under way or the last one: its requests
    surprises       \* bound

page == <<manualOn, box>>
vars == <<robot, applied, stored, polls, page, requests, macro, surprises>>

NoMacro == [name |-> "none", ids |-> <<>>, report |-> "none"]

Init ==
    /\ robot = [manual |-> FALSE, mode |-> "other"] /\ applied = <<>>
    /\ stored = {} /\ polls = [p \in Polls |-> "idle"]
    /\ manualOn = FALSE /\ box = [text |-> "off", id |-> 0]
    /\ requests = <<>> /\ macro = NoMacro /\ surprises = 0

Surprise == surprises < MaxSurprises /\ surprises' = surprises + 1

-----------------------------------------------------------------------------
(* The robot and the Command API, as the console meets them *)

\* What an accepted command does to the robot's steering.
After(cmd) ==
    CASE cmd \in {"START", "AUTO_MODE", "RETURN_HOME"} -> [manual |-> FALSE, mode |-> "other"]
      [] cmd = "STOP"        -> [robot EXCEPT !.mode = "other"]
      [] cmd = "MANUAL_MODE" -> [manual |-> TRUE, mode |-> "MANUAL"]
      [] OTHER               -> robot

\* Somebody else steers the robot.
Elsewhere(cmd) ==
    /\ Surprise
    /\ robot' = After(cmd)
    /\ UNCHANGED <<applied, stored, polls, page, requests, macro>>

\* A move needs manual control and a free cell; the rest is always accepted.
Verdicts(cmd) ==
    IF cmd # "MOVE" THEN {"accepted"}
    ELSE IF robot.manual THEN {"accepted", "refused"} ELSE {"refused"}

\* The robot takes a command, once per subscription it matches, whatever it did
\* with it before, and possibly after nobody waits for it any more.
Execute(i) ==
    /\ requests[i].taken < Deliveries
    /\ \E verdict \in Verdicts(requests[i].cmd) :
          /\ requests' = [requests EXCEPT ![i].taken = @ + 1, ![i].verdicts = @ \cup {verdict}]
          /\ robot' = IF verdict = "accepted" THEN After(requests[i].cmd) ELSE robot
    /\ applied' = IF requests[i].by = "macro" THEN Append(applied, i) ELSE applied
    /\ UNCHANGED <<stored, polls, page, macro, surprises>>

\* The answer to a command: with an acknowledgement, the last to arrive if there
\* were several; status timeout, without one or with one that came too late to
\* be waited for; an error status; or none at all because the connection failed.
Answer(i) ==
    /\ requests[i].reply = "none"
    /\ \E reply \in {"ack", "timeout", "error", "unreachable"} :
       \E told \in {"nothing"} \cup requests[i].verdicts :
          /\ reply = "ack" => told # "nothing"
          /\ reply \in {"error", "unreachable"} => told = "nothing"
          /\ requests' = [requests EXCEPT ![i].reply = reply, ![i].told = told]
    /\ UNCHANGED <<robot, applied, stored, polls, page, macro, surprises>>

\* ack_received and ack_accepted, as the page tests them.
AckAccepted(r) == r.reply = "ack" /\ r.told = "accepted"
AckRefused(r)  == r.reply = "ack" /\ r.told = "refused"

\* The State Engine writes the robot's mode.
Store ==
    /\ stored' = {robot.mode}
    /\ UNCHANGED <<robot, applied, polls, page, requests, macro, surprises>>

\* No state of the last minute: the services or InfluxDB are down.
Expire ==
    /\ Surprise /\ stored' = {}
    /\ UNCHANGED <<robot, applied, polls, page, requests, macro>>

-----------------------------------------------------------------------------
(* Polling *)

\* The timer does not wait for the answer to the poll before.  When a poll was
\* sent makes no difference, only when it is answered.  get_state answers a
\* query that fails like one that finds nothing.
PollRead(p) ==
    /\ polls[p] = "idle"
    /\ \/ stored # {} /\ polls' = [polls EXCEPT ![p] = CHOOSE m \in stored : TRUE]
          /\ UNCHANGED surprises
       \/ stored = {} /\ polls' = [polls EXCEPT ![p] = "nothing"] /\ UNCHANGED surprises
       \/ Surprise /\ polls' = [polls EXCEPT ![p] = "nothing"]
    /\ UNCHANGED <<robot, applied, stored, page, requests, macro>>

\* (slip) The pad is disarmed by the robot's mode, but not armed by it.
SyncManualOff(mode) == manualOn' = (manualOn /\ mode \in {"MANUAL", "nothing"})

\* The pad follows the robot's mode when the answer holds one.
SyncManual(mode) == manualOn' = IF mode = "nothing" THEN manualOn ELSE mode = "MANUAL"

PollRender(p) ==
    /\ polls[p] # "idle"
    /\ SyncManual(polls[p])
    /\ polls' = [polls EXCEPT ![p] = "idle"]
    /\ UNCHANGED <<robot, applied, stored, box, requests, macro, surprises>>

PollFail(p) ==
    /\ polls[p] # "idle" /\ Surprise
    /\ polls' = [polls EXCEPT ![p] = "idle"]
    /\ UNCHANGED <<robot, applied, stored, page, requests, macro>>

-----------------------------------------------------------------------------
(* Commands *)

Request(cmd, by) == [cmd |-> cmd, by |-> by, taken |-> 0, verdicts |-> {},
                     reply |-> "none", told |-> "nothing"]

Send(cmd, by) ==
    /\ Len(requests) < MaxRequests
    /\ requests' = Append(requests, Request(cmd, by))

\* Of the two mode buttons the one for the other mode is enabled, also while an
\* earlier request of it has not been answered; so are the buttons of the pad,
\* whose moves overlap while one is held down.
Press(cmd) ==
    /\ manualOn = (cmd \in {"AUTO_MODE", "MOVE"})
    /\ Send(cmd, "pad")
    /\ UNCHANGED <<robot, applied, stored, polls, page, macro, surprises>>

Answered(i) == requests[i].by = "pad" /\ requests[i].reply # "none"
Forget(i) == requests' = [requests EXCEPT ![i].by = "shown"]

ModeText(r) ==
    CASE r.reply \in {"error", "unreachable"} -> "failed"
      [] AckAccepted(r) /\ r.cmd = "MANUAL_MODE" -> "enabled"
      [] AckAccepted(r) /\ r.cmd = "AUTO_MODE"   -> "restored"
      [] OTHER                                   -> "not accepted"

\* (slip) What is not accepted was refused.
MoveTextOfVerdict(r) ==
    IF r.reply = "unreachable" THEN "failed"
    ELSE IF AckAccepted(r) THEN "moved" ELSE "refused"

\* Only an acknowledgement that says no is told from success; an error status
\* of the server is not looked at.
MoveText(r) ==
    IF r.reply = "unreachable" THEN "failed"
    ELSE IF AckRefused(r) THEN "refused" ELSE "moved"

ShowMode(i) ==
    /\ Answered(i) /\ requests[i].cmd # "MOVE"
    /\ Forget(i)
    /\ box' = [text |-> ModeText(requests[i]), id |-> i]
    /\ manualOn' = IF box'.text = "failed" THEN manualOn ELSE box'.text = "enabled"
    /\ UNCHANGED <<robot, applied, stored, polls, macro, surprises>>

ShowMove(i) ==
    /\ Answered(i) /\ requests[i].cmd = "MOVE"
    /\ Forget(i)
    /\ box' = [text |-> MoveText(requests[i]), id |-> i]
    /\ UNCHANGED <<robot, applied, stored, polls, manualOn, macro, surprises>>

-----------------------------------------------------------------------------
(* Macros *)

\* The macro buttons are disabled while a macro runs.
RunMacro(name) ==
    /\ macro.name = "none" \/ macro.report # "none"
    /\ Send(Head(Macros[name]), "macro")
    /\ macro' = [name |-> name, ids |-> <<Len(requests) + 1>>, report |-> "none"]
    /\ UNCHANGED <<robot, applied, stored, polls, page, surprises>>

\* (slip) The commands are sent without waiting for the answers before.
ReadyForAnother == TRUE

\* The answer to the command before is there, whatever it says.
ReadyForNext == requests[Last(macro.ids)].reply \notin {"none", "unreachable"}

MacroNext ==
    /\ macro.name # "none" /\ macro.report = "none"
    /\ Len(macro.ids) < Len(Macros[macro.name]) /\ ReadyForNext
    /\ Send(Macros[macro.name][Len(macro.ids) + 1], "macro")
    /\ macro' = [macro EXCEPT !.ids = Append(@, Len(requests) + 1)]
    /\ UNCHANGED <<robot, applied, stored, polls, page, surprises>>

\* Every answer is there: the report counts the ones that hold an acceptance,
\* also one that came too late to be waited for.
MacroReport ==
    /\ macro.name # "none" /\ macro.report = "none"
    /\ Len(macro.ids) = Len(Macros[macro.name])
    /\ \A k \in DOMAIN macro.ids : requests[macro.ids[k]].reply \notin {"none", "unreachable"}
    /\ macro' = [macro EXCEPT !.report =
                    IF \A k \in DOMAIN macro.ids : requests[macro.ids[k]].told = "accepted"
                    THEN "all accepted" ELSE "partly"]
    /\ UNCHANGED <<robot, applied, stored, polls, page, requests, surprises>>

\* The Command API cannot be reached: the answers so far are dropped.
MacroFail ==
    /\ macro.name # "none" /\ macro.report = "none"
    /\ requests[Last(macro.ids)].reply = "unreachable"
    /\ macro' = [macro EXCEPT !.report = "failed"]
    /\ UNCHANGED <<robot, applied, stored, polls, page, requests, surprises>>

-----------------------------------------------------------------------------

Polling(p) == PollRead(p) \/ PollRender(p)

Next ==
    \/ \E cmd \in {"START", "STOP", "MANUAL_MODE"} : Elsewhere(cmd)
    \/ \E i \in DOMAIN requests : Execute(i) \/ Answer(i) \/ ShowMode(i) \/ ShowMove(i)
    \/ Store \/ Expire
    \/ \E p \in Polls : Polling(p) \/ PollFail(p)
    \/ \E cmd \in {"MANUAL_MODE", "AUTO_MODE", "MOVE"} : Press(cmd)
    \/ \E name \in MacrosUsed : RunMacro(name)
    \/ MacroNext \/ MacroReport \/ MacroFail

\* The page's timer, the server's answers and the State Engine do not stop.
Fairness ==
    /\ \A p \in Polls : WF_vars(Polling(p))
    /\ WF_vars(Store)

Spec == Init /\ [][Next]_vars /\ Fairness

-----------------------------------------------------------------------------
(* Properties *)

Ids == 1 .. MaxRequests

\* The page, the server and the requests between them keep their types.
TypeOK ==
    /\ robot \in [manual : BOOLEAN, mode : Modes] /\ applied \in Seq(Ids)
    /\ stored \subseteq Modes /\ Cardinality(stored) <= 1
    /\ polls \in [Polls -> {"idle", "nothing"} \cup Modes]
    /\ manualOn \in BOOLEAN
    /\ box \in [text : {"off", "failed", "enabled", "restored", "not accepted",
                        "refused", "moved"}, id : {0} \cup Ids]
    /\ requests \in Seq([cmd : Commands, by : {"pad", "macro", "shown"},
                         taken : 0 .. Deliveries, verdicts : SUBSET {"accepted", "refused"},
                         reply : {"none", "ack", "timeout", "error", "unreachable"},
                         told : {"nothing", "accepted", "refused"}])
    /\ macro \in [name : {"none"} \cup DOMAIN Macros, ids : Seq(Ids),
                  report : {"none", "all accepted", "partly", "failed"}]
    /\ surprises \in 0 .. MaxSurprises

\* What the page says of a change of mode or of a refusal is what the robot did
\* with that very command: enabled and restored were accepted, refused was
\* refused, and only if the command came again can the robot have obeyed it as
\* well.  (What the page says of a move that was made is another matter.)
ReportsAreTrue ==
    LET r == requests[box.id]
    IN  /\ box.text \in {"enabled", "restored"} => "accepted" \in r.verdicts
        /\ box.text = "refused" =>
              "refused" \in r.verdicts /\ ("accepted" \in r.verdicts => r.taken > 1)

\* A macro reported as all accepted was carried out completely and in its order,
\* although somebody else may steer the robot between: the robot took no command
\* of it before it had taken the ones the macro names earlier.  (One that comes
\* again may be taken again after its successors.)
MacroInOrder ==
    macro.report = "all accepted" =>
        /\ DOMAIN macro.ids = DOMAIN Macros[macro.name]
        /\ \A k \in DOMAIN macro.ids :
              LET r == requests[macro.ids[k]]
              IN  /\ r.cmd = Macros[macro.name][k] /\ "accepted" \in r.verdicts
                  /\ \E i \in DOMAIN applied : applied[i] = macro.ids[k]
        /\ \A j \in DOMAIN applied : \A k, l \in DOMAIN macro.ids :
              k < l /\ applied[j] = macro.ids[l] => \E i \in 1 .. j - 1 : applied[i] = macro.ids[k]

\* Once the robot's mode no longer changes between manual and not, the pad comes
\* to agree with it for good: late answers to polls and commands, which may arm
\* or disarm it wrongly in between, do not have the last word.
PadSettles ==
    \A on \in BOOLEAN : <>[]((robot.mode = "MANUAL") = on) => <>[](manualOn = on)

\* "It never pretends": a move reported as made and acknowledged was.
NeverPretends == box.text = "moved" => AckAccepted(requests[box.id])
=============================================================================
