----------------------- MODULE OperatorConsoleProofs -----------------------
(***************************************************************************)
(* Proofs about the operator's console, for any number of polls, requests,  *)
(* macros and surprises and however often a command reaches the robot: the  *)
(* types, that what the page reports of a change of mode or a refused move  *)
(* is a verdict the robot gave on that command, and that a macro reported   *)
(* as accepted was carried out in its order.                                *)
(***************************************************************************)
EXTENDS OperatorConsole, FiniteSetTheorems, TLAPS

PadCommands == {"MANUAL_MODE", "AUTO_MODE", "MOVE"}

Requests ==
    [cmd : Commands, by : {"pad", "macro", "shown"},
     taken : 0 .. Deliveries, verdicts : SUBSET {"accepted", "refused"},
     reply : {"none", "ack", "timeout", "error", "unreachable"},
     told : {"nothing", "accepted", "refused"}]

\* What holds of a request at every time: an acknowledgement holds a verdict, one
\* the robot gave, only moves are refused, two verdicts take two deliveries, and
\* the pad sends its own commands.
Sound(r) ==
    /\ r \in Requests
    /\ r.reply = "ack" => r.told # "nothing"
    /\ r.told # "nothing" => r.told \in r.verdicts
    /\ r.cmd # "MOVE" => "refused" \notin r.verdicts
    /\ r.taken = 0 => r.verdicts = {}
    /\ {"accepted", "refused"} \subseteq r.verdicts => r.taken > 1
    /\ r.by = "pad" => r.cmd \in PadCommands

RequestsInv ==
    /\ requests \in Seq(Requests) /\ Len(requests) <= MaxRequests
    /\ \A i \in DOMAIN requests : Sound(requests[i])

\* What a report rests on is not taken back.
BoxInv ==
    /\ box.text # "off" => box.id \in DOMAIN requests
    /\ box.text \in {"enabled", "restored"} => "accepted" \in requests[box.id].verdicts
    /\ box.text = "refused" => "refused" \in requests[box.id].verdicts

\* Requests are appended and changed, and no verdict of the robot is undone.
Later ==
    /\ DOMAIN requests \subseteq DOMAIN requests'
    /\ \A i \in DOMAIN requests : requests[i].verdicts \subseteq requests'[i].verdicts

-----------------------------------------------------------------------------

LEMMA ReplaceInSeq ==
    ASSUME NEW S, NEW s \in Seq(S), NEW i \in DOMAIN s, NEW e \in S
    PROVE  LET t == [s EXCEPT ![i] = e]
           IN  /\ t \in Seq(S) /\ Len(t) = Len(s) /\ DOMAIN t = DOMAIN s
               /\ t[i] = e /\ \A j \in DOMAIN s : j # i => t[j] = s[j]
  OBVIOUS

\* A request replaced by a sound one that keeps its verdicts.
LEMMA ReplaceRequest ==
    ASSUME RequestsInv, NEW i \in DOMAIN requests, NEW r, Sound(r),
           requests' = [requests EXCEPT ![i] = r],
           requests[i].verdicts \subseteq r.verdicts
    PROVE  RequestsInv' /\ Later
<1>1. r \in Requests /\ requests \in Seq(Requests)
    BY DEF Sound, RequestsInv
<1>2. /\ requests' \in Seq(Requests) /\ Len(requests') = Len(requests)
      /\ DOMAIN requests' = DOMAIN requests
      /\ requests'[i] = r /\ \A j \in DOMAIN requests : j # i => requests'[j] = requests[j]
    BY <1>1, ReplaceInSeq
<1>3. \A j \in DOMAIN requests' : Sound(requests'[j])
    BY <1>2 DEF RequestsInv
<1> QED
    BY <1>2, <1>3 DEF RequestsInv, Later

LEMMA NewRequest ==
    ASSUME RequestsInv, NEW cmd \in Commands, NEW by \in {"pad", "macro"},
           by = "pad" => cmd \in PadCommands, Send(cmd, by)
    PROVE  /\ RequestsInv' /\ Later
           /\ Len(requests) + 1 \in Ids
<1>1. MaxRequests \in Nat /\ Len(requests) \in Nat /\ requests \in Seq(Requests)
    BY ConsoleAssumption DEF RequestsInv
<1>2. PICK r : r = Request(cmd, by)
    OBVIOUS
<1>3. Sound(r)
  <2>1. r \in Requests
      BY <1>2, ConsoleAssumption DEF Request, Requests
  <2> QED
      BY <1>2, <2>1 DEF Sound, Request
<1>4. requests' = Append(requests, r) /\ Len(requests) < MaxRequests
    BY <1>2 DEF Send
<1>5. /\ requests' \in Seq(Requests) /\ Len(requests') = Len(requests) + 1
      /\ \A j \in DOMAIN requests : j \in DOMAIN requests' /\ requests'[j] = requests[j]
      /\ \A j \in DOMAIN requests' : j \notin DOMAIN requests => requests'[j] = r
    BY <1>1, <1>3, <1>4 DEF Sound
<1>6. \A j \in DOMAIN requests' : Sound(requests'[j])
    BY <1>3, <1>5 DEF RequestsInv
<1> QED
    BY <1>1, <1>4, <1>5, <1>6 DEF RequestsInv, Later, Ids

LEMMA ReportStays == Later /\ BoxInv /\ box' = box => BoxInv'
  BY DEF Later, BoxInv

LEMMA NothingSent == requests' = requests /\ RequestsInv => RequestsInv' /\ Later
  BY DEF RequestsInv, Later

-----------------------------------------------------------------------------
(* What each operation does to the requests *)

LEMMA ExecuteStep ==
    ASSUME RequestsInv, NEW i \in DOMAIN requests, Execute(i)
    PROVE  RequestsInv' /\ Later
<1>1. requests[i] \in Requests /\ Sound(requests[i]) /\ requests[i].taken < Deliveries
    BY DEF RequestsInv, Sound, Execute
<1>2. PICK v \in Verdicts(requests[i].cmd) :
          requests' = [requests EXCEPT ![i].taken = @ + 1, ![i].verdicts = @ \cup {v}]
    BY DEF Execute
<1>3. v \in {"accepted", "refused"} /\ (requests[i].cmd # "MOVE" => v # "refused")
    BY <1>2 DEF Verdicts
<1>4. PICK r : r = [requests[i] EXCEPT !.taken = @ + 1, !.verdicts = @ \cup {v}]
    OBVIOUS
<1>5. requests' = [requests EXCEPT ![i] = r]
    BY <1>2, <1>4
<1>6. /\ r.taken = requests[i].taken + 1 /\ r.verdicts = requests[i].verdicts \cup {v}
      /\ r.cmd = requests[i].cmd /\ r.by = requests[i].by
      /\ r.reply = requests[i].reply /\ r.told = requests[i].told
    BY <1>1, <1>4 DEF Requests
<1>7. r \in Requests
  <2>1. requests[i].taken + 1 \in 0 .. Deliveries
      BY <1>1, ConsoleAssumption DEF Requests
  <2>2. requests[i].verdicts \cup {v} \in SUBSET {"accepted", "refused"}
      BY <1>1, <1>3 DEF Requests
  <2> QED
      BY <1>1, <1>4, <2>1, <2>2 DEF Requests
<1>8. {"accepted", "refused"} \subseteq r.verdicts => r.taken > 1
  <2>1. requests[i].taken \in Nat /\ (requests[i].taken = 0 => requests[i].verdicts = {})
      BY <1>1, ConsoleAssumption DEF Sound, Requests
  <2>2. CASE requests[i].taken = 0
    <3>1. r.verdicts = {v}
        BY <1>6, <2>1, <2>2
    <3> QED
        BY <3>1
  <2>3. CASE requests[i].taken # 0
      BY <1>6, <2>1, <2>3
  <2> QED
      BY <2>2, <2>3
<1>9. Sound(r)
  <2>1. r.taken # 0
      BY <1>1, <1>6, ConsoleAssumption DEF Requests
  <2> QED
      BY <1>1, <1>3, <1>6, <1>7, <1>8, <2>1 DEF Sound
<1> QED
    BY <1>5, <1>6, <1>9, ReplaceRequest

LEMMA AnswerStep ==
    ASSUME RequestsInv, NEW i \in DOMAIN requests, Answer(i)
    PROVE  RequestsInv' /\ Later
<1>1. requests[i] \in Requests /\ Sound(requests[i])
    BY DEF RequestsInv, Sound
<1>2. PICK v \in {"ack", "timeout", "error", "unreachable"},
           t \in {"nothing"} \cup requests[i].verdicts :
          /\ v = "ack" => t # "nothing"
          /\ requests' = [requests EXCEPT ![i].reply = v, ![i].told = t]
    BY DEF Answer
<1>3. PICK r : r = [requests[i] EXCEPT !.reply = v, !.told = t]
    OBVIOUS
<1>4. requests' = [requests EXCEPT ![i] = r]
    BY <1>2, <1>3
<1>5. t \in {"nothing", "accepted", "refused"}
    BY <1>1, <1>2 DEF Requests
<1>6. /\ r \in Requests /\ r.reply = v /\ r.told = t /\ r.cmd = requests[i].cmd
      /\ r.taken = requests[i].taken /\ r.verdicts = requests[i].verdicts
      /\ r.by = requests[i].by
    BY <1>1, <1>2, <1>3, <1>5 DEF Requests
<1>7. Sound(r)
    BY <1>1, <1>2, <1>6 DEF Sound
<1> QED
    BY <1>4, <1>6, <1>7, ReplaceRequest

LEMMA ForgetStep ==
    ASSUME RequestsInv, NEW i \in DOMAIN requests, Forget(i)
    PROVE  /\ RequestsInv' /\ Later
           /\ i \in DOMAIN requests' /\ requests'[i].verdicts = requests[i].verdicts
<1>1. requests[i] \in Requests /\ Sound(requests[i])
    BY DEF RequestsInv, Sound
<1>2. PICK r : r = [requests[i] EXCEPT !.by = "shown"]
    OBVIOUS
<1>3. requests' = [requests EXCEPT ![i] = r]
    BY <1>2 DEF Forget
<1>4. /\ r \in Requests /\ r.reply = requests[i].reply /\ r.told = requests[i].told
      /\ r.cmd = requests[i].cmd /\ r.taken = requests[i].taken
      /\ r.verdicts = requests[i].verdicts /\ r.by = "shown"
    BY <1>1, <1>2 DEF Requests
<1>5. Sound(r)
    BY <1>1, <1>4 DEF Sound
<1>6. i \in DOMAIN requests' /\ requests'[i] = r
    BY <1>3
<1> QED
    BY <1>3, <1>4, <1>5, <1>6, ReplaceRequest

Texts == {"off", "failed", "enabled", "restored", "not accepted", "refused", "moved"}

\* What the page says of a command is a verdict of the robot on it.
LEMMA TextsAreTrue ==
    ASSUME NEW r, Sound(r), r.reply # "none"
    PROVE  /\ MoveText(r) \in Texts \ {"off", "enabled", "restored"}
           /\ MoveText(r) = "refused" => "refused" \in r.verdicts
           /\ ModeText(r) \in Texts \ {"off", "refused"}
           /\ ModeText(r) \in {"enabled", "restored"} => "accepted" \in r.verdicts
<1>1. /\ MoveText(r) \in Texts \ {"off", "enabled", "restored"}
      /\ MoveText(r) = "refused" => AckRefused(r)
    BY DEF MoveText, Texts
<1>2. AckRefused(r) => "refused" \in r.verdicts
    BY DEF AckRefused, Sound
<1>3. /\ ModeText(r) \in Texts \ {"off", "refused"}
      /\ ModeText(r) \in {"enabled", "restored"} => AckAccepted(r)
    BY DEF ModeText, Texts
<1>4. AckAccepted(r) => "accepted" \in r.verdicts
    BY DEF AckAccepted, Sound
<1> QED
    BY <1>1, <1>2, <1>3, <1>4

LEMMA ShowStep ==
    ASSUME RequestsInv, BoxInv, NEW i \in DOMAIN requests, ShowMode(i) \/ ShowMove(i)
    PROVE  RequestsInv' /\ BoxInv' /\ box' \in [text : Texts, id : DOMAIN requests]
<1>1. Forget(i) /\ requests[i].reply # "none" /\ Sound(requests[i]) /\ requests[i].by = "pad"
    BY DEF ShowMode, ShowMove, Answered, RequestsInv
<1>2. RequestsInv' /\ i \in DOMAIN requests' /\ requests'[i].verdicts = requests[i].verdicts
    BY <1>1, ForgetStep
<1>3. CASE ShowMode(i)
  <2>1. PICK text : text = ModeText(requests[i])
      OBVIOUS
  <2>2. requests[i].cmd # "MOVE" /\ box' = [text |-> text, id |-> i]
      BY <1>3, <2>1 DEF ShowMode
  <2>3. /\ text \in Texts \ {"off", "refused"}
        /\ text \in {"enabled", "restored"} => "accepted" \in requests[i].verdicts
      BY <1>1, <2>1, <2>2, TextsAreTrue
  <2> QED
      BY <1>2, <2>2, <2>3 DEF BoxInv
<1>4. CASE ShowMove(i)
  <2>1. PICK text : text = MoveText(requests[i])
      OBVIOUS
  <2>2. box' = [text |-> text, id |-> i]
      BY <1>4, <2>1 DEF ShowMove
  <2>3. /\ text \in Texts \ {"off", "enabled", "restored"}
        /\ text = "refused" => "refused" \in requests[i].verdicts
      BY <1>1, <2>1, TextsAreTrue
  <2> QED
      BY <1>2, <2>2, <2>3 DEF BoxInv
<1> QED
    BY <1>3, <1>4

LEMMA MacroCommands ==
    \A name \in DOMAIN Macros : Macros[name] \in Seq(Commands) /\ Macros[name] # <<>>
<1>1. DOMAIN Macros = {"wet_clean", "dry_sweep", "actuators_off", "park", "emergency_stop"}
    BY DEF Macros
<1>2. \A a, b, c \in Commands : /\ <<a, b, c>> \in Seq(Commands) /\ <<a, b, c>> # <<>>
                                /\ <<a, b>> \in Seq(Commands) /\ <<a, b>> # <<>>
    OBVIOUS
<1>3. {"START", "STOP", "RETURN_HOME", "BRUSH_ON", "BRUSH_OFF", "PUMP_ON", "PUMP_OFF"}
          \subseteq Commands
    BY DEF Commands
<1>4. /\ Macros["wet_clean"] = <<"START", "BRUSH_ON", "PUMP_ON">>
      /\ Macros["dry_sweep"] = <<"START", "BRUSH_ON", "PUMP_OFF">>
      /\ Macros["actuators_off"] = <<"BRUSH_OFF", "PUMP_OFF">>
      /\ Macros["park"] = <<"BRUSH_OFF", "PUMP_OFF", "RETURN_HOME">>
      /\ Macros["emergency_stop"] = <<"STOP", "BRUSH_OFF", "PUMP_OFF">>
    BY DEF Macros
<1> DEFINE Good(cmds) == cmds \in Seq(Commands) /\ cmds # <<>>
<1>5. Good(Macros["wet_clean"]) /\ Good(Macros["dry_sweep"])
    BY <1>2, <1>3, <1>4
<1>6. Good(Macros["actuators_off"])
    BY <1>2, <1>3, <1>4
<1>7. Good(Macros["park"])
    BY <1>2, <1>3, <1>4
<1>8. Good(Macros["emergency_stop"])
    BY <1>2, <1>3, <1>4
<1> QED
    BY <1>1, <1>5, <1>6, <1>7, <1>8

\* The operations that send a command or leave the requests alone.
LEMMA OtherStep ==
    ASSUME RequestsInv, BoxInv,
           \/ \E cmd \in PadCommands : Press(cmd)
           \/ \E name \in MacrosUsed : RunMacro(name)
           \/ MacroNext /\ macro.name \in DOMAIN Macros /\ Len(macro.ids) \in Nat
           \/ UNCHANGED <<box, requests>>
    PROVE  RequestsInv' /\ BoxInv'
<1>1. \A name \in DOMAIN Macros : Macros[name] \in Seq(Commands)
    BY MacroCommands
<1>2. ASSUME NEW cmd \in PadCommands, Press(cmd) PROVE RequestsInv' /\ BoxInv'
  <2>1. Send(cmd, "pad") /\ UNCHANGED box
      BY <1>2, Zenon DEF Press, page
  <2> QED
      BY <2>1, NewRequest, ReportStays DEF PadCommands, Commands
<1>3. ASSUME NEW cmd \in Commands, Send(cmd, "macro"), UNCHANGED box
      PROVE  RequestsInv' /\ BoxInv'
    BY <1>3, NewRequest, ReportStays
<1>4. ASSUME NEW name \in MacrosUsed, RunMacro(name) PROVE RequestsInv' /\ BoxInv'
  <2>1. name \in DOMAIN Macros
      BY ConsoleAssumption
  <2>2. Head(Macros[name]) \in Commands
      BY <2>1, MacroCommands
  <2> QED
      BY <1>3, <1>4, <2>2 DEF RunMacro, page
<1>5. CASE MacroNext /\ macro.name \in DOMAIN Macros /\ Len(macro.ids) \in Nat
  <2>1. Macros[macro.name][Len(macro.ids) + 1] \in Commands
    <3>1. Len(macro.ids) < Len(Macros[macro.name])
        BY <1>5 DEF MacroNext
    <3> QED
        BY <1>1, <1>5, <3>1
  <2> QED
      BY <1>3, <1>5, <2>1 DEF MacroNext, page
<1>6. CASE UNCHANGED <<box, requests>>
    BY <1>6, NothingSent, ReportStays
<1> QED
    BY <1>2, <1>4, <1>5, <1>6

-----------------------------------------------------------------------------
(* The invariants *)

ConsoleInv == TypeOK /\ RequestsInv /\ BoxInv

LEMMA SafeStep ==
    ConsoleInv /\ [Next]_vars =>
        /\ RequestsInv' /\ BoxInv'
        /\ box' = box \/ box' \in [text : Texts, id : DOMAIN requests]
<1> SUFFICES ASSUME ConsoleInv, [Next]_vars
             PROVE  /\ RequestsInv' /\ BoxInv'
                    /\ box' = box \/ box' \in [text : Texts, id : DOMAIN requests]
    OBVIOUS
<1>1. macro.name # "none" => macro.name \in DOMAIN Macros /\ Len(macro.ids) \in Nat
  <2>1. macro \in [name : {"none"} \cup DOMAIN Macros, ids : Seq(Ids),
                   report : {"none", "all accepted", "partly", "failed"}]
      BY DEF ConsoleInv, TypeOK
  <2>2. macro.name \in {"none"} \cup DOMAIN Macros /\ macro.ids \in Seq(Ids)
      BY <2>1, Zenon
  <2> QED
      BY <2>2
<1>2. ASSUME NEW i \in DOMAIN requests, Execute(i) \/ Answer(i)
      PROVE  RequestsInv' /\ BoxInv' /\ box' = box
  <2>1. RequestsInv' /\ Later
      BY <1>2, ExecuteStep, AnswerStep DEF ConsoleInv
  <2> QED
      BY <1>2, <2>1, ReportStays DEF ConsoleInv, Execute, Answer, page
<1>3. ASSUME NEW i \in DOMAIN requests, ShowMode(i) \/ ShowMove(i)
      PROVE  /\ RequestsInv' /\ BoxInv'
             /\ box' \in [text : Texts, id : DOMAIN requests]
    BY <1>3, ShowStep DEF ConsoleInv
<1>4. CASE \/ \E cmd \in {"MANUAL_MODE", "AUTO_MODE", "MOVE"} : Press(cmd)
           \/ \E name \in MacrosUsed : RunMacro(name)
           \/ MacroNext
  <2>1. RequestsInv' /\ BoxInv'
      BY <1>1, <1>4, OtherStep DEF ConsoleInv, PadCommands, MacroNext
  <2>2. box' = box
      BY <1>4 DEF Press, RunMacro, MacroNext, page
  <2> QED
      BY <2>1, <2>2
<1>5. CASE UNCHANGED <<box, requests>>
    BY <1>5, OtherStep DEF ConsoleInv
<1>6. ASSUME NEW p \in Polls, Polling(p) \/ PollFail(p) PROVE UNCHANGED <<box, requests>>
    BY <1>6 DEF Polling, PollRead, PollRender, PollFail, page
<1>7. ASSUME Store \/ Expire \/ MacroReport \/ MacroFail PROVE UNCHANGED <<box, requests>>
    BY <1>7 DEF Store, Expire, MacroReport, MacroFail, page
<1>8. ASSUME NEW cmd, Elsewhere(cmd) PROVE UNCHANGED <<box, requests>>
    BY <1>8 DEF Elsewhere, page
<1>9. CASE UNCHANGED vars
    BY <1>5, <1>9 DEF vars, page
<1> QED
    BY <1>2, <1>3, <1>4, <1>5, <1>6, <1>7, <1>8, <1>9 DEF Next

MacroType ==
    macro \in [name : {"none"} \cup DOMAIN Macros, ids : Seq(Ids),
               report : {"none", "all accepted", "partly", "failed"}]

RobotType == robot \in [manual : BOOLEAN, mode : Modes]

PollsType == polls \in [Polls -> {"idle", "nothing"} \cup Modes]

StoredType == stored \subseteq Modes /\ Cardinality(stored) <= 1

LEMMA RobotStep == RobotType /\ [Next]_vars => RobotType'
<1> SUFFICES ASSUME RobotType, [Next]_vars PROVE RobotType'
    OBVIOUS
<1>1. \A cmd : After(cmd) \in [manual : BOOLEAN, mode : Modes]
  <2>1. /\ [manual |-> FALSE, mode |-> "other"] \in [manual : BOOLEAN, mode : Modes]
        /\ [manual |-> TRUE, mode |-> "MANUAL"] \in [manual : BOOLEAN, mode : Modes]
        /\ [robot EXCEPT !.mode = "other"] \in [manual : BOOLEAN, mode : Modes]
      BY DEF RobotType, Modes
  <2> QED
      BY <2>1, Zenon DEF After, RobotType
<1>2. ASSUME NEW cmd, Elsewhere(cmd) PROVE RobotType'
    BY <1>1, <1>2, Zenon DEF Elsewhere, RobotType
<1>3. ASSUME NEW i, Execute(i) PROVE RobotType'
  <2>1. PICK verdict : robot' = IF verdict = "accepted" THEN After(requests[i].cmd) ELSE robot
      BY <1>3, Zenon DEF Execute
  <2> QED
      BY <1>1, <2>1, Zenon DEF RobotType
<1>4. CASE UNCHANGED robot
    BY <1>4 DEF RobotType
<1> QED
    BY <1>2, <1>3, <1>4, Zenon
    DEF Next, vars, Answer, ShowMode, ShowMove, Store, Expire, Polling, PollRead, PollRender,
        PollFail, Press, RunMacro, MacroNext, MacroReport, MacroFail

LEMMA StoredStep == RobotType /\ StoredType /\ [Next]_vars => StoredType'
<1> SUFFICES ASSUME RobotType, StoredType, [Next]_vars PROVE StoredType'
    OBVIOUS
<1>1. robot.mode \in Modes /\ Cardinality({robot.mode}) = 1 /\ Cardinality({}) = 0
    BY FS_Singleton, FS_EmptySet DEF RobotType
<1>2. CASE stored' = {robot.mode} \/ stored' = {}
    BY <1>1, <1>2 DEF StoredType
<1>3. CASE UNCHANGED stored
    BY <1>3 DEF StoredType
<1> QED
    BY <1>2, <1>3, Zenon
    DEF Next, vars, Elsewhere, Execute, Answer, ShowMode, ShowMove, Store, Expire, Polling,
        PollRead, PollRender, PollFail, Press, RunMacro, MacroNext, MacroReport, MacroFail

LEMMA PollsStep == StoredType /\ PollsType /\ [Next]_vars => PollsType'
<1> SUFFICES ASSUME StoredType, PollsType, [Next]_vars PROVE PollsType'
    OBVIOUS
<1>1. ASSUME NEW p \in Polls, NEW v \in {"idle", "nothing"} \cup Modes,
             polls' = [polls EXCEPT ![p] = v]
      PROVE  PollsType'
    BY <1>1 DEF PollsType
<1>2. stored # {} => (CHOOSE m \in stored : TRUE) \in Modes
    BY DEF StoredType
<1>3. ASSUME NEW p \in Polls, Polling(p) \/ PollFail(p) PROVE PollsType'
    BY <1>1, <1>2, <1>3, Zenon DEF Polling, PollRead, PollRender, PollFail
<1>4. CASE UNCHANGED polls
    BY <1>4 DEF PollsType
<1> QED
    BY <1>3, <1>4, Zenon
    DEF Next, vars, Elsewhere, Execute, Answer, ShowMode, ShowMove, Store, Expire,
        Press, RunMacro, MacroNext, MacroReport, MacroFail

LEMMA MacroStep == RequestsInv /\ MacroType /\ [Next]_vars => MacroType'
<1> SUFFICES ASSUME RequestsInv, MacroType, [Next]_vars PROVE MacroType'
    OBVIOUS
<1>1. Len(requests) < MaxRequests => Len(requests) + 1 \in Ids
    BY ConsoleAssumption DEF RequestsInv, Ids
<1>2. ASSUME NEW name \in MacrosUsed, RunMacro(name) PROVE MacroType'
  <2>1. name \in DOMAIN Macros
      BY ConsoleAssumption
  <2>2. macro' = [name |-> name, ids |-> <<Len(requests) + 1>>, report |-> "none"]
      BY <1>2 DEF RunMacro
  <2>3. <<Len(requests) + 1>> \in Seq(Ids)
      BY <1>1, <1>2 DEF RunMacro, Send
  <2> QED
      BY <2>1, <2>2, <2>3 DEF MacroType
<1>3. CASE MacroNext
  <2>1. Append(macro.ids, Len(requests) + 1) \in Seq(Ids)
    <3>1. macro.ids \in Seq(Ids)
        BY Zenon DEF MacroType
    <3>2. Len(requests) + 1 \in Ids
        BY <1>1, <1>3 DEF MacroNext, Send
    <3> QED
        BY <3>1, <3>2
  <2>2. macro' = [macro EXCEPT !.ids = Append(@, Len(requests) + 1)]
      BY <1>3 DEF MacroNext
  <2> QED
      BY <2>1, <2>2 DEF MacroType
<1>4. CASE MacroReport
  <2>1. PICK report \in {"all accepted", "partly"} : macro' = [macro EXCEPT !.report = report]
      BY <1>4, Zenon DEF MacroReport
  <2> QED
      BY <2>1 DEF MacroType
<1>5. CASE MacroFail
    BY <1>5 DEF MacroFail, MacroType
<1>6. CASE UNCHANGED macro
    BY <1>6 DEF MacroType
<1> QED
    BY <1>2, <1>3, <1>4, <1>5, <1>6, Zenon
    DEF Next, vars, Elsewhere, Execute, Answer, ShowMode, ShowMove, Store, Expire, Polling,
        PollRead, PollRender, PollFail, Press

LEMMA AppliedStep == RequestsInv /\ applied \in Seq(Ids) /\ [Next]_vars => applied' \in Seq(Ids)
<1> SUFFICES ASSUME RequestsInv, applied \in Seq(Ids), [Next]_vars PROVE applied' \in Seq(Ids)
    OBVIOUS
<1>1. ASSUME NEW i \in DOMAIN requests, Execute(i) PROVE applied' \in Seq(Ids)
  <2>1. i \in Ids
      BY ConsoleAssumption DEF RequestsInv, Ids
  <2>2. Append(applied, i) \in Seq(Ids)
      BY <2>1
  <2>3. applied' = IF requests[i].by = "macro" THEN Append(applied, i) ELSE applied
      BY <1>1 DEF Execute
  <2> QED
      BY <2>2, <2>3, Zenon
<1> QED
    BY <1>1, Zenon
    DEF Next, vars, Elsewhere, Answer, ShowMode, ShowMove, Store, Expire, Polling, PollRead,
        PollRender, PollFail, Press, RunMacro, MacroNext, MacroReport, MacroFail

LEMMA SurprisesStep ==
    surprises \in 0 .. MaxSurprises /\ [Next]_vars => surprises' \in 0 .. MaxSurprises
<1> SUFFICES ASSUME surprises \in 0 .. MaxSurprises, [Next]_vars
             PROVE  surprises' \in 0 .. MaxSurprises
    OBVIOUS
<1>1. Surprise => surprises' \in 0 .. MaxSurprises
    BY ConsoleAssumption DEF Surprise
<1> QED
    BY <1>1, Zenon
    DEF Next, vars, Elsewhere, Execute, Answer, ShowMode, ShowMove, Store, Expire, Polling,
        PollRead, PollRender, PollFail, Press, RunMacro, MacroNext, MacroReport, MacroFail

LEMMA ManualStep == manualOn \in BOOLEAN /\ [Next]_vars => manualOn' \in BOOLEAN
  BY Zenon
  DEF Next, vars, page, Elsewhere, Execute, Answer, ShowMode, ShowMove, Store, Expire, Polling,
      PollRead, PollRender, SyncManual, PollFail, Press, RunMacro, MacroNext, MacroReport,
      MacroFail

LEMMA InvariantStep == ConsoleInv /\ [Next]_vars => ConsoleInv'
<1> SUFFICES ASSUME ConsoleInv, [Next]_vars PROVE ConsoleInv'
    OBVIOUS
<1>1. RequestsInv' /\ BoxInv' /\ (box' = box \/ box' \in [text : Texts, id : DOMAIN requests])
    BY SafeStep
<1>2. /\ RobotType /\ applied \in Seq(Ids) /\ StoredType /\ PollsType /\ manualOn \in BOOLEAN
      /\ box \in [text : Texts, id : {0} \cup Ids] /\ MacroType
      /\ surprises \in 0 .. MaxSurprises /\ RequestsInv
    BY Zenon DEF ConsoleInv, TypeOK, RobotType, StoredType, PollsType, MacroType, Texts
<1>3. box' \in [text : Texts, id : {0} \cup Ids]
  <2>1. DOMAIN requests \subseteq Ids
      BY <1>2, ConsoleAssumption DEF RequestsInv, Ids
  <2> QED
      BY <1>1, <1>2, <2>1
<1>4. /\ RobotType' /\ applied' \in Seq(Ids) /\ StoredType' /\ PollsType'
      /\ manualOn' \in BOOLEAN /\ MacroType' /\ surprises' \in 0 .. MaxSurprises
    BY <1>2, RobotStep, AppliedStep, StoredStep, PollsStep, ManualStep, MacroStep,
       SurprisesStep, Zenon
<1>5. requests' \in Seq(Requests)
    BY <1>1 DEF RequestsInv
<1>6. TypeOK'
    BY <1>3, <1>4, <1>5, Zenon
    DEF TypeOK, RobotType, StoredType, PollsType, MacroType, Texts, Requests
<1> QED
    BY <1>1, <1>6, Zenon DEF ConsoleInv

LEMMA InvariantInit == Init => ConsoleInv
<1> SUFFICES ASSUME Init PROVE ConsoleInv
    OBVIOUS
<1>1. RobotType /\ PollsType /\ manualOn \in BOOLEAN
    BY Zenon DEF Init, RobotType, PollsType, Modes
<1>2. StoredType /\ applied \in Seq(Ids) /\ MacroType
  <2>1. Cardinality({}) = 0
      BY FS_EmptySet
  <2> QED
      BY <2>1 DEF Init, StoredType, MacroType, NoMacro
<1>3. requests \in Seq(Requests) /\ RequestsInv
    BY ConsoleAssumption DEF Init, RequestsInv
<1>4. BoxInv /\ box \in [text : Texts, id : {0} \cup Ids]
    BY DEF Init, BoxInv, Texts
<1>5. surprises \in 0 .. MaxSurprises
    BY ConsoleAssumption DEF Init
<1> QED
    BY <1>1, <1>2, <1>3, <1>4, <1>5, Zenon
    DEF ConsoleInv, TypeOK, RobotType, StoredType, PollsType, MacroType, Texts, Requests

LEMMA InvariantHolds == Spec => []ConsoleInv
  BY InvariantInit, InvariantStep, PTL DEF Spec

\* The page, the server and the requests between them keep their types.
THEOREM TypeCorrect == Spec => []TypeOK
<1>1. ConsoleInv => TypeOK
    BY DEF ConsoleInv
<1> QED
    BY <1>1, InvariantHolds, PTL

\* A reported change of mode was accepted, and a reported refusal was one, which
\* only a second delivery of the move can have been besides an acceptance.
THEOREM ReportsCorrect == Spec => []ReportsAreTrue
<1>1. ConsoleInv => ReportsAreTrue
  <2> SUFFICES ASSUME ConsoleInv PROVE ReportsAreTrue
      OBVIOUS
  <2>1. box.text = "refused" => Sound(requests[box.id])
      BY DEF ConsoleInv, BoxInv, RequestsInv
  <2> QED
      BY <2>1 DEF ConsoleInv, BoxInv, ReportsAreTrue, Sound
<1> QED
    BY <1>1, InvariantHolds, PTL

-----------------------------------------------------------------------------
(* Macros *)

\* applied has every command of a macro the robot gave a verdict on.
Taken ==
    /\ \A i \in DOMAIN applied : applied[i] \in DOMAIN requests
    /\ \A r \in DOMAIN requests :
          requests[r].by = "macro" /\ requests[r].verdicts # {} =>
              \E i \in DOMAIN applied : applied[i] = r

\* The commands of a macro are sent in its order, each after the answer to the
\* one before.
InTurn ==
    /\ macro.name = "none" => macro.ids = <<>> /\ macro.report = "none"
    /\ macro.name # "none" => Len(macro.ids) \in 1 .. Len(Macros[macro.name])
    /\ \A k \in DOMAIN macro.ids :
          /\ macro.ids[k] \in DOMAIN requests
          /\ requests[macro.ids[k]].by = "macro"
          /\ requests[macro.ids[k]].cmd = Macros[macro.name][k]
    /\ \A k, l \in DOMAIN macro.ids : k < l =>
          macro.ids[k] < macro.ids[l] /\ requests[macro.ids[k]].reply \notin {"none", "unreachable"}

\* The robot took no command before it had taken the earlier ones whose answers
\* hold a verdict.
Ordered ==
    \A j \in DOMAIN applied : \A k, l \in DOMAIN macro.ids :
        applied[j] = macro.ids[l] /\ requests[macro.ids[k]].told # "nothing" /\ k < l
            => \E i \in 1 .. j - 1 : applied[i] = macro.ids[k]

Reported ==
    macro.report = "all accepted" =>
        /\ Len(macro.ids) = Len(Macros[macro.name])
        /\ \A k \in DOMAIN macro.ids : /\ requests[macro.ids[k]].told = "accepted"
                                       /\ requests[macro.ids[k]].reply # "none"

MacroInv == Taken /\ InTurn /\ Ordered /\ Reported

\* What no step undoes of a request.
Grown ==
    /\ DOMAIN requests \subseteq DOMAIN requests'
    /\ \A r \in DOMAIN requests :
          /\ requests'[r].cmd = requests[r].cmd
          /\ requests'[r].by = "macro" <=> requests[r].by = "macro"
          /\ requests[r].verdicts \subseteq requests'[r].verdicts
          /\ requests[r].reply # "none" => /\ requests'[r].reply = requests[r].reply
                                          /\ requests'[r].told = requests[r].told

\* The robot takes no command, at most one is sent.
Untaken ==
    /\ applied' = applied
    /\ \A r \in DOMAIN requests' :
          requests'[r].verdicts # {} =>
              r \in DOMAIN requests /\ requests[r].verdicts = requests'[r].verdicts

LEMMA TakenStays == Taken /\ Grown /\ Untaken => Taken'
<1> SUFFICES ASSUME Taken, Grown, Untaken PROVE Taken'
    OBVIOUS
<1>1. \A i \in DOMAIN applied : applied[i] \in DOMAIN requests'
    BY DEF Taken, Grown
<1>2. ASSUME NEW r \in DOMAIN requests', requests'[r].by = "macro",
             requests'[r].verdicts # {}
      PROVE  \E i \in DOMAIN applied : applied[i] = r
    BY <1>2 DEF Taken, Grown, Untaken
<1>3. applied' = applied
    BY DEF Untaken
<1> QED
    BY <1>1, <1>2, <1>3, Zenon DEF Taken

\* Neither the macro nor an answer it rests on changes.
LEMMA MacroGrows ==
    ASSUME MacroType, InTurn, Reported, Grown, macro' = macro
    PROVE  InTurn' /\ Reported'
<1> DEFINE its == macro.ids
<1>1. /\ its \in Seq(Ids)
      /\ \A k \in DOMAIN its : its[k] \in DOMAIN requests
  <2>1. its \in Seq(Ids)
      BY Zenon DEF MacroType
  <2> QED
      BY <2>1 DEF InTurn
<1>2. InTurn'
    BY <1>1 DEF InTurn, Grown
<1>3. Reported'
  <2> SUFFICES ASSUME macro.report = "all accepted"
               PROVE  /\ Len(its) = Len(Macros[macro.name])
                      /\ \A k \in DOMAIN its : /\ requests'[its[k]].told = "accepted"
                                               /\ requests'[its[k]].reply # "none"
      BY DEF Reported
  <2> QED
      BY <1>1 DEF Reported, Grown
<1> QED
    BY <1>2, <1>3

LEMMA MacroStays ==
    ASSUME MacroType, MacroInv, Grown, Untaken, macro' = macro
    PROVE  MacroInv'
<1> DEFINE its == macro.ids
<1>1. Taken' /\ InTurn' /\ Reported'
    BY TakenStays, MacroGrows DEF MacroInv
<1>2. /\ its \in Seq(Ids)
      /\ \A k \in DOMAIN its : its[k] \in DOMAIN requests
      /\ \A k, l \in DOMAIN its : k < l => requests[its[k]].reply # "none"
  <2>1. its \in Seq(Ids)
      BY Zenon DEF MacroType
  <2> QED
      BY <2>1 DEF MacroInv, InTurn
<1>3. Ordered'
  <2> SUFFICES ASSUME NEW j \in DOMAIN applied, NEW k \in DOMAIN its, NEW l \in DOMAIN its,
                      applied[j] = its[l], requests'[its[k]].told # "nothing", k < l
               PROVE  \E i \in 1 .. j - 1 : applied[i] = its[k]
      BY DEF Ordered, Untaken
  <2>1. requests[its[k]].told # "nothing"
      BY <1>2 DEF Grown
  <2> QED
      BY <2>1 DEF MacroInv, Ordered
<1> QED
    BY <1>1, <1>3 DEF MacroInv

\* The robot takes a command: if it is a macro's, as the last one so far.
LEMMA MacroExecute ==
    ASSUME RequestsInv, MacroType, applied \in Seq(Ids), MacroInv,
           NEW n \in DOMAIN requests, Execute(n)
    PROVE  MacroInv'
<1> DEFINE its == macro.ids
<1>1. requests[n] \in Requests
    BY DEF RequestsInv, Sound
<1>2. PICK v : requests' = [requests EXCEPT ![n].taken = @ + 1, ![n].verdicts = @ \cup {v}]
    BY DEF Execute
<1>3. PICK r : r = [requests[n] EXCEPT !.taken = @ + 1, !.verdicts = @ \cup {v}]
    OBVIOUS
<1>4. /\ r.verdicts = requests[n].verdicts \cup {v} /\ r.cmd = requests[n].cmd
      /\ r.reply = requests[n].reply /\ r.told = requests[n].told /\ r.by = requests[n].by
    BY <1>1, <1>3 DEF Requests
<1>5. /\ DOMAIN requests' = DOMAIN requests /\ requests'[n] = r
      /\ \A q \in DOMAIN requests : q # n => requests'[q] = requests[q]
  <2>1. requests' = [requests EXCEPT ![n] = r]
      BY <1>2, <1>3
  <2> QED
      BY <2>1, Zenon
<1>6. /\ Grown
      /\ \A q \in DOMAIN requests : requests'[q].told = requests[q].told
  <2>1. requests[n].verdicts \subseteq r.verdicts
      BY <1>4
  <2> QED
      BY <1>4, <1>5, <2>1, Zenon DEF Grown
<1>7. macro' = macro
    BY DEF Execute
<1>8. InTurn' /\ Reported'
    BY <1>6, <1>7, MacroGrows DEF MacroInv
<1>9. /\ \A i \in DOMAIN applied : i \in DOMAIN applied' /\ applied'[i] = applied[i]
      /\ \A i \in DOMAIN applied' \ DOMAIN applied :
            /\ applied'[i] = n
            /\ i = Len(applied) + 1 /\ \A j \in DOMAIN applied : j \in 1 .. i - 1
      /\ requests[n].by = "macro" => \E i \in DOMAIN applied' : applied'[i] = n
      /\ \A i \in DOMAIN applied : \A j \in 1 .. i - 1 : j \in DOMAIN applied
  <2>1. n \in Ids
      BY ConsoleAssumption DEF RequestsInv, Ids
  <2>2. applied' = IF requests[n].by = "macro" THEN Append(applied, n) ELSE applied
      BY DEF Execute
  <2>3. CASE requests[n].by = "macro"
    <3>1. applied' = Append(applied, n)
        BY <2>2, <2>3
    <3>2. Len(applied) + 1 \in DOMAIN applied' /\ applied'[Len(applied) + 1] = n
        BY <2>1, <3>1
    <3> QED
        BY <2>1, <2>3, <3>1, <3>2
  <2>4. CASE requests[n].by # "macro"
      BY <2>2, <2>4
  <2> QED
      BY <2>3, <2>4
<1>10. Taken'
  <2>1. ASSUME NEW i \in DOMAIN applied' PROVE applied'[i] \in DOMAIN requests'
      BY <1>5, <1>9 DEF MacroInv, Taken
  <2>2. ASSUME NEW q \in DOMAIN requests', requests'[q].by = "macro",
               requests'[q].verdicts # {}
        PROVE  \E i \in DOMAIN applied' : applied'[i] = q
    <3>1. CASE q = n
        BY <1>4, <1>5, <1>9, <2>2, <3>1
    <3>2. CASE q # n
        BY <1>5, <1>9, <2>2, <3>2 DEF MacroInv, Taken
    <3> QED
        BY <3>1, <3>2
  <2> QED
      BY <2>1, <2>2, Zenon DEF Taken
<1>11. Ordered'
  <2> SUFFICES ASSUME NEW j \in DOMAIN applied', NEW k \in DOMAIN its, NEW l \in DOMAIN its,
                      applied'[j] = its[l], requests'[its[k]].told # "nothing", k < l
               PROVE  \E i \in 1 .. j - 1 : applied'[i] = its[k]
      BY <1>7, Zenon DEF Ordered
  <2>1. its[k] \in DOMAIN requests /\ requests[its[k]].by = "macro"
      BY DEF MacroInv, InTurn
  <2>2. requests[its[k]].told # "nothing"
      BY <1>6, <2>1
  <2>3. CASE j \in DOMAIN applied
    <3>1. applied[j] = its[l]
        BY <1>9, <2>3
    <3>2. PICK i \in 1 .. j - 1 : applied[i] = its[k]
        BY <2>2, <2>3, <3>1 DEF MacroInv, Ordered
    <3> QED
        BY <1>9, <2>3, <3>2
  <2>4. CASE j \notin DOMAIN applied
    <3>1. requests[its[k]].verdicts # {}
        BY <2>1, <2>2 DEF RequestsInv, Sound
    <3>2. PICK i \in DOMAIN applied : applied[i] = its[k]
        BY <2>1, <3>1 DEF MacroInv, Taken
    <3> QED
        BY <1>9, <2>4, <3>2
  <2> QED
      BY <2>3, <2>4
<1> QED
    BY <1>8, <1>10, <1>11 DEF MacroInv

\* A command is sent: nothing of the earlier ones changes.
LEMMA SendGrows ==
    ASSUME RequestsInv, NEW cmd, NEW by, Send(cmd, by)
    PROVE  /\ Grown
           /\ \A r \in DOMAIN requests' : r \notin DOMAIN requests =>
                 r = Len(requests) + 1 /\ requests'[r] = Request(cmd, by)
           /\ Len(requests) + 1 \in DOMAIN requests'
           /\ \A r \in DOMAIN requests : requests'[r] = requests[r] /\ r < Len(requests) + 1
<1>1. requests \in Seq(Requests) /\ Len(requests) \in Nat
    BY DEF RequestsInv
<1>2. PICK r : r = Request(cmd, by)
    OBVIOUS
<1>3. requests' = Append(requests, r)
    BY <1>2 DEF Send
<1>4. /\ DOMAIN requests' = 1 .. Len(requests) + 1 /\ DOMAIN requests = 1 .. Len(requests)
      /\ requests'[Len(requests) + 1] = r
      /\ \A q \in DOMAIN requests : requests'[q] = requests[q]
    BY <1>1, <1>3
<1> QED
    BY <1>1, <1>2, <1>4 DEF Grown

LEMMA SendUntaken ==
    ASSUME RequestsInv, NEW cmd, NEW by, Send(cmd, by), applied' = applied
    PROVE  Grown /\ Untaken
<1>1. Request(cmd, by).verdicts = {}
    BY DEF Request
<1> QED
    BY <1>1, SendGrows DEF Untaken

\* A command is answered, or its answer is shown.
LEMMA AnswerGrows ==
    ASSUME RequestsInv, NEW n \in DOMAIN requests,
           Answer(n) \/ ShowMode(n) \/ ShowMove(n)
    PROVE  Grown /\ Untaken /\ macro' = macro
<1>1. requests[n] \in Requests
    BY DEF RequestsInv, Sound
<1>2. ASSUME NEW r, requests' = [requests EXCEPT ![n] = r],
             r.cmd = requests[n].cmd, r.verdicts = requests[n].verdicts,
             r.by = "macro" <=> requests[n].by = "macro",
             requests[n].reply # "none" =>
                 r.reply = requests[n].reply /\ r.told = requests[n].told,
             applied' = applied
      PROVE  Grown /\ Untaken
  <2>1. /\ DOMAIN requests' = DOMAIN requests /\ requests'[n] = r
        /\ \A q \in DOMAIN requests : q # n => requests'[q] = requests[q]
      BY <1>2, Zenon
  <2> QED
      BY <1>2, <2>1, Zenon DEF Grown, Untaken
<1>3. CASE Answer(n)
  <2>1. PICK v, t : requests' = [requests EXCEPT ![n].reply = v, ![n].told = t]
      BY <1>3, Zenon DEF Answer
  <2>2. PICK r : r = [requests[n] EXCEPT !.reply = v, !.told = t]
      OBVIOUS
  <2>3. requests' = [requests EXCEPT ![n] = r]
      BY <2>1, <2>2
  <2>4. r.cmd = requests[n].cmd /\ r.verdicts = requests[n].verdicts /\ r.by = requests[n].by
      BY <1>1, <2>2 DEF Requests
  <2>5. requests[n].reply = "none" /\ applied' = applied /\ macro' = macro
      BY <1>3 DEF Answer
  <2> QED
      BY <1>2, <2>3, <2>4, <2>5
<1>4. CASE ShowMode(n) \/ ShowMove(n)
  <2>1. /\ Forget(n) /\ requests[n].by = "pad" /\ applied' = applied /\ macro' = macro
      BY <1>4 DEF ShowMode, ShowMove, Answered
  <2>2. PICK r : r = [requests[n] EXCEPT !.by = "shown"]
      OBVIOUS
  <2>3. requests' = [requests EXCEPT ![n] = r]
      BY <2>1, <2>2 DEF Forget
  <2>4. /\ r.cmd = requests[n].cmd /\ r.verdicts = requests[n].verdicts
        /\ r.reply = requests[n].reply /\ r.told = requests[n].told /\ r.by = "shown"
      BY <1>1, <2>2 DEF Requests
  <2> QED
      BY <1>2, <2>1, <2>3, <2>4
<1> QED
    BY <1>3, <1>4

LEMMA MacroStarts ==
    ASSUME RequestsInv, MacroType, MacroInv, NEW name \in MacrosUsed, RunMacro(name)
    PROVE  MacroInv'
<1> DEFINE id == Len(requests) + 1
<1>1. /\ Send(Head(Macros[name]), "macro") /\ applied' = applied
      /\ macro' = [name |-> name, ids |-> <<id>>, report |-> "none"]
    BY DEF RunMacro
<1>2. Taken'
    BY <1>1, SendUntaken, TakenStays DEF MacroInv
<1>3. name \in DOMAIN Macros /\ name # "none"
    BY ConsoleAssumption DEF Macros
<1>4. Len(Macros[name]) \in Nat \ {0} /\ Head(Macros[name]) = Macros[name][1]
    BY <1>3, MacroCommands
<1>5. /\ id \in DOMAIN requests' /\ requests'[id] = Request(Head(Macros[name]), "macro")
  <2>1. Len(requests) \in Nat /\ requests \in Seq(Requests)
      BY DEF RequestsInv
  <2>2. id \notin DOMAIN requests
      BY <2>1
  <2> QED
      BY <1>1, <2>2, SendGrows
<1> HIDE DEF id
<1>6. /\ macro'.name = name /\ macro'.ids = <<id>> /\ macro'.report = "none"
      /\ DOMAIN macro'.ids = {1} /\ macro'.ids[1] = id /\ Len(macro'.ids) = 1
    BY <1>1
<1>7. InTurn'
    BY <1>3, <1>4, <1>5, <1>6 DEF InTurn, Request
<1>8. Ordered'
    BY <1>6 DEF Ordered
<1>9. Reported'
    BY <1>6 DEF Reported
<1> QED
    BY <1>2, <1>7, <1>8, <1>9 DEF MacroInv

LEMMA MacroGoesOn ==
    ASSUME RequestsInv, MacroType, MacroInv, MacroNext
    PROVE  MacroInv'
<1> DEFINE id == Len(requests) + 1
           its == macro.ids
           cmds == Macros[macro.name]
<1>1. /\ Send(cmds[Len(its) + 1], "macro") /\ applied' = applied
      /\ macro' = [macro EXCEPT !.ids = Append(its, id)]
      /\ macro.name # "none" /\ macro.report = "none" /\ Len(its) < Len(cmds)
      /\ requests[Last(its)].reply \notin {"none", "unreachable"}
    BY DEF MacroNext, ReadyForNext
<1>2. Taken' /\ Grown
    BY <1>1, SendUntaken, TakenStays DEF MacroInv
<1>3. its \in Seq(Ids) /\ macro.name \in DOMAIN Macros
    BY <1>1, Zenon DEF MacroType
<1>4. Len(cmds) \in Nat /\ Len(its) \in Nat /\ Len(its) >= 1
    BY <1>1, <1>3, MacroCommands DEF MacroInv, InTurn
<1>5. requests \in Seq(Requests) /\ Len(requests) \in Nat /\ id \in Nat /\ id \notin DOMAIN requests
    BY DEF RequestsInv
<1>6. /\ id \in DOMAIN requests' /\ requests'[id] = Request(cmds[Len(its) + 1], "macro")
      /\ \A r \in DOMAIN requests : requests'[r] = requests[r] /\ r < id
    BY <1>1, <1>5, SendGrows
<1>7. requests[its[Len(its)]].reply \notin {"none", "unreachable"}
    BY <1>1, <1>3, <1>4 DEF Last
<1>8. /\ macro'.name = macro.name /\ macro'.ids = Append(its, id) /\ macro'.report = "none"
    BY <1>1 DEF MacroType
<1> HIDE DEF id, cmds
<1>9. /\ DOMAIN macro'.ids = 1 .. Len(its) + 1 /\ Len(macro'.ids) = Len(its) + 1
      /\ macro'.ids[Len(its) + 1] = id /\ DOMAIN its = 1 .. Len(its)
      /\ \A k \in DOMAIN its : macro'.ids[k] = its[k]
    BY <1>3, <1>8
<1>10. \A k \in DOMAIN its : /\ its[k] \in DOMAIN requests
                             /\ requests[its[k]].by = "macro" /\ requests[its[k]].cmd = cmds[k]
                             /\ requests[its[k]].reply \notin {"none", "unreachable"}
  <2> SUFFICES ASSUME NEW k \in DOMAIN its
               PROVE  requests[its[k]].reply \notin {"none", "unreachable"}
      BY DEF MacroInv, InTurn, cmds
  <2>1. k = Len(its) \/ (k < Len(its) /\ Len(its) \in DOMAIN its)
      BY <1>4, <1>9
  <2> QED
      BY <1>7, <2>1 DEF MacroInv, InTurn
<1>11. InTurn'
  <2>1. ASSUME NEW k \in DOMAIN macro'.ids
        PROVE  /\ macro'.ids[k] \in DOMAIN requests' /\ requests'[macro'.ids[k]].by = "macro"
               /\ requests'[macro'.ids[k]].cmd = cmds[k]
    <3>1. CASE k \in DOMAIN its
        BY <1>2, <1>6, <1>9, <1>10, <3>1 DEF Grown
    <3>2. CASE k = Len(its) + 1
        BY <1>6, <1>9, <3>2 DEF Request
    <3> QED
        BY <1>4, <1>9, <3>1, <3>2
  <2>2. ASSUME NEW k \in DOMAIN macro'.ids, NEW l \in DOMAIN macro'.ids, k < l
        PROVE  /\ macro'.ids[k] < macro'.ids[l]
               /\ requests'[macro'.ids[k]].reply \notin {"none", "unreachable"}
    <3>1. k \in DOMAIN its
        BY <1>4, <1>9, <2>2
    <3>2. requests'[macro'.ids[k]].reply \notin {"none", "unreachable"}
        BY <1>6, <1>9, <1>10, <3>1
    <3>3. CASE l \in DOMAIN its
        BY <1>9, <2>2, <3>1, <3>2, <3>3 DEF MacroInv, InTurn
    <3>4. CASE l = Len(its) + 1
        BY <1>6, <1>9, <1>10, <3>1, <3>2, <3>4
    <3> QED
        BY <1>4, <1>9, <3>3, <3>4
  <2>3. macro'.name # "none" /\ Len(macro'.ids) \in 1 .. Len(cmds)
      BY <1>1, <1>4, <1>8, <1>9 DEF cmds
  <2>4. cmds = Macros[macro'.name]
      BY <1>8 DEF cmds
  <2> QED
      BY <2>1, <2>2, <2>3, <2>4, Zenon DEF InTurn
<1>12. Ordered'
  <2> SUFFICES ASSUME NEW j \in DOMAIN applied,
                      NEW k \in DOMAIN macro'.ids, NEW l \in DOMAIN macro'.ids,
                      applied[j] = macro'.ids[l],
                      requests'[macro'.ids[k]].told # "nothing", k < l
               PROVE  \E i \in 1 .. j - 1 : applied[i] = macro'.ids[k]
      BY <1>1 DEF Ordered
  <2>1. applied[j] # id
      BY <1>5 DEF MacroInv, Taken
  <2>2. k \in DOMAIN its /\ l \in DOMAIN its
      BY <1>4, <1>9, <2>1
  <2>3. requests[its[k]].told # "nothing"
      BY <1>6, <1>9, <1>10, <2>2
  <2> QED
      BY <1>9, <2>2, <2>3 DEF MacroInv, Ordered
<1>13. Reported'
    BY <1>8 DEF Reported
<1> QED
    BY <1>2, <1>11, <1>12, <1>13 DEF MacroInv

LEMMA MacroEnds ==
    ASSUME MacroType, MacroInv, MacroReport \/ MacroFail
    PROVE  MacroInv'
<1>1. PICK report \in {"all accepted", "partly", "failed"} :
          /\ macro' = [macro EXCEPT !.report = report] /\ macro.name # "none"
          /\ requests' = requests /\ applied' = applied
          /\ report = "all accepted" =>
                /\ Len(macro.ids) = Len(Macros[macro.name])
                /\ \A k \in DOMAIN macro.ids :
                      /\ requests[macro.ids[k]].told = "accepted"
                      /\ requests[macro.ids[k]].reply # "none"
    BY Zenon DEF MacroReport, MacroFail
<1>2. macro'.ids = macro.ids /\ macro'.name = macro.name /\ macro'.report = report
    BY <1>1 DEF MacroType
<1>3. Taken'
    BY <1>1, Zenon DEF MacroInv, Taken
<1>4. InTurn'
    BY <1>1, <1>2, Zenon DEF MacroInv, InTurn
<1>5. Ordered'
  <2>1. macro'.ids = macro.ids /\ requests' = requests /\ applied' = applied
      BY <1>1, <1>2
  <2> SUFFICES ASSUME NEW j \in DOMAIN applied',
                      NEW k \in DOMAIN macro'.ids, NEW l \in DOMAIN macro'.ids,
                      applied'[j] = macro'.ids[l],
                      requests'[macro'.ids[k]].told # "nothing", k < l
               PROVE  \E i \in 1 .. j - 1 : applied'[i] = macro'.ids[k]
      BY DEF Ordered
  <2>2. /\ j \in DOMAIN applied /\ k \in DOMAIN macro.ids /\ l \in DOMAIN macro.ids
        /\ applied[j] = macro.ids[l] /\ requests[macro.ids[k]].told # "nothing"
      BY <2>1, Zenon
  <2> QED
      BY <2>1, <2>2 DEF MacroInv, Ordered
<1>6. Reported'
    BY <1>1, <1>2, Zenon DEF MacroInv, Reported
<1> QED
    BY <1>3, <1>4, <1>5, <1>6 DEF MacroInv

LEMMA MacroInvStep == ConsoleInv /\ MacroInv /\ [Next]_vars => MacroInv'
<1> SUFFICES ASSUME ConsoleInv, MacroInv, [Next]_vars PROVE MacroInv'
    OBVIOUS
<1>1. RequestsInv /\ MacroType /\ applied \in Seq(Ids)
    BY Zenon DEF ConsoleInv, TypeOK, MacroType
<1>2. ASSUME NEW i \in DOMAIN requests, Execute(i) PROVE MacroInv'
    BY <1>1, <1>2, MacroExecute
<1>3. ASSUME NEW i \in DOMAIN requests, Answer(i) \/ ShowMode(i) \/ ShowMove(i)
      PROVE  MacroInv'
    BY <1>1, <1>3, AnswerGrows, MacroStays
<1>4. ASSUME NEW cmd, Press(cmd) PROVE MacroInv'
    BY <1>1, <1>4, SendUntaken, MacroStays DEF Press
<1>5. ASSUME NEW name \in MacrosUsed, RunMacro(name) PROVE MacroInv'
    BY <1>1, <1>5, MacroStarts
<1>6. CASE MacroNext
    BY <1>1, <1>6, MacroGoesOn
<1>7. CASE MacroReport \/ MacroFail
    BY <1>1, <1>7, MacroEnds
<1>8. CASE UNCHANGED <<requests, applied, macro>>
  <2>1. Grown /\ Untaken
      BY <1>8, Zenon DEF Grown, Untaken
  <2> QED
      BY <1>1, <1>8, <2>1, MacroStays
<1>9. ASSUME NEW cmd, Elsewhere(cmd) PROVE UNCHANGED <<requests, applied, macro>>
    BY <1>9 DEF Elsewhere
<1>10. ASSUME NEW p \in Polls, Polling(p) \/ PollFail(p)
       PROVE  UNCHANGED <<requests, applied, macro>>
    BY <1>10 DEF Polling, PollRead, PollRender, PollFail
<1>11. ASSUME Store \/ Expire \/ UNCHANGED vars PROVE UNCHANGED <<requests, applied, macro>>
    BY <1>11 DEF Store, Expire, vars
<1> QED
    BY <1>2, <1>3, <1>4, <1>5, <1>6, <1>7, <1>8, <1>9, <1>10, <1>11, Zenon DEF Next

LEMMA DomainOfSeq ==
    ASSUME NEW S, NEW s \in Seq(S)
    PROVE  DOMAIN s = 1 .. Len(s) /\ \A i \in DOMAIN s : i \in Nat
  OBVIOUS

LEMMA MacroImplies == ConsoleInv /\ MacroInv => MacroInOrder
<1> SUFFICES ASSUME ConsoleInv, MacroInv, macro.report = "all accepted" PROVE MacroInOrder
    BY DEF MacroInOrder
<1> DEFINE its == macro.ids
<1>1. its \in Seq(Ids) /\ macro.name \in {"none"} \cup DOMAIN Macros /\ applied \in Seq(Ids)
    BY Zenon DEF ConsoleInv, TypeOK
<1>2. macro.name \in DOMAIN Macros
    BY <1>1 DEF MacroInv, InTurn
<1>3. DOMAIN its = DOMAIN Macros[macro.name]
  <2>1. Macros[macro.name] \in Seq(Commands) /\ Len(its) = Len(Macros[macro.name])
      BY <1>2, MacroCommands DEF MacroInv, Reported
  <2>2. DOMAIN its = 1 .. Len(its)
      BY <1>1, DomainOfSeq, Zenon
  <2>3. DOMAIN Macros[macro.name] = 1 .. Len(Macros[macro.name])
      BY <2>1, DomainOfSeq, Zenon
  <2> QED
      BY <2>1, <2>2, <2>3
<1>4. ASSUME NEW k \in DOMAIN its
      PROVE  /\ requests[its[k]].cmd = Macros[macro.name][k]
             /\ requests[its[k]].told = "accepted" /\ "accepted" \in requests[its[k]].verdicts
             /\ \E i \in DOMAIN applied : applied[i] = its[k]
  <2>1. /\ its[k] \in DOMAIN requests /\ requests[its[k]].by = "macro"
        /\ requests[its[k]].cmd = Macros[macro.name][k]
      BY DEF MacroInv, InTurn
  <2>2. requests[its[k]].told = "accepted"
      BY DEF MacroInv, Reported
  <2>3. "accepted" \in requests[its[k]].verdicts
      BY <2>1, <2>2 DEF ConsoleInv, RequestsInv, Sound
  <2> QED
      BY <2>1, <2>2, <2>3 DEF MacroInv, Taken
<1>5. ASSUME NEW j \in DOMAIN applied, NEW k \in DOMAIN its, NEW l \in DOMAIN its,
             k < l, applied[j] = its[l]
      PROVE  \E i \in 1 .. j - 1 : applied[i] = its[k]
    BY <1>4, <1>5 DEF MacroInv, Ordered
<1> QED
    BY <1>3, <1>4, <1>5, Zenon DEF MacroInOrder

\* A macro reported as all accepted was carried out completely, and no command of it
\* was taken before the ones it names earlier, for every macro, however many requests
\* of others are between its commands and however often a command arrives.
THEOREM MacroCorrect == Spec => []MacroInOrder
<1>1. Init => MacroInv
    BY DEF Init, NoMacro, MacroInv, Taken, InTurn, Ordered, Reported
<1> QED
    BY <1>1, MacroInvStep, MacroImplies, InvariantHolds, PTL DEF Spec
=============================================================================
