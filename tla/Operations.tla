------------------------------ MODULE Operations ------------------------------
(***************************************************************************)
(* What happens around the running system: how services start, how the AI   *)
(* service's models get there, and the programs people run beside it.       *)
(* These share no state, so each behaviour is about one of them: job says   *)
(* which, from the start, and the others stay as they are.                  *)
(***************************************************************************)
EXTENDS ServiceStartup, Sequences

CONSTANTS
    Qualities, MaxCommits, MaxStarts,           \* ModelTraining
    Turns, Others, LIMIT,                       \* DashboardSetup
    N, BATCH, DELAYED_AFTER, OFFLINE_AFTER,     \* DemoData
    LAG, MaxStalls, MaxBacklog, MaxChanges,     \* LiveDemo
    NOTEBOOKS, MaxEdits, MaxRuns                \* NotebookExport

VARIABLES
    job,
    quality, builder, image, container, process, starts,            \* ModelTraining
    boards, run_pc, found, troubled,                                \* DashboardSetup
    second, batch, next, points, run_status,                        \* DemoData
    program, pc, wait, status, shown, robot_faults, situation,      \* LiveDemo
    steady, obstacle, overload, flight, stored, flowing, stalls,
    smooth, changes,
    schema, wrote, refused,                                         \* InfluxRecords
    source, outputs, at, step, tmp, ok, begun, edits, runs          \* NotebookExport

training  == <<quality, builder, image, container, process, starts>>
dashboard == <<boards, run_pc, found, troubled>>
demoData  == <<second, batch, next, points, run_status>>
liveDemo  == <<program, pc, wait, status, shown, robot_faults, situation, steady, obstacle,
               overload, flight, stored, flowing, stalls, smooth, changes>>
records   == <<schema, wrote, refused>>
export    == <<source, outputs, at, step, tmp, ok, begun, edits, runs>>

-----------------------------------------------------------------------------
(* The instances *)

T == INSTANCE ModelTraining
B == INSTANCE DashboardSetup WITH pc <- run_pc
D == INSTANCE DemoData WITH i <- second, status <- run_status
L == INSTANCE LiveDemo WITH faults <- robot_faults
I == INSTANCE InfluxRecords
X == INSTANCE NotebookExport

ASSUME TrainingAssumption == MaxCommits \in Nat /\ MaxStarts \in Nat

\* A dashboard of another name is nobody's turn.
ASSUME DashboardAssumption == Turns \cap Others = {}

\* The script has N = 900 and BATCH = 100.  In a history of more than some 1000
\* seconds the invented motor would get hotter than the rules allow.
ASSUME DemoAssumption == N \in 1..1000 /\ BATCH \in Nat \ {0}

\* The pauses of the demonstrations leave the pipeline two seconds.
ASSUME LagAssumption ==
    LAG \in 0..2 /\ MaxStalls \in Nat /\ MaxBacklog \in Nat /\ MaxChanges \in Nat

\* The scripts name each notebook once.
ASSUME NotebookAssumption ==
    /\ NOTEBOOKS \in Seq(X!Names)
    /\ \A i, j \in DOMAIN NOTEBOOKS : NOTEBOOKS[i] = NOTEBOOKS[j] => i = j
    /\ MaxEdits \in Nat /\ MaxRuns \in Nat

-----------------------------------------------------------------------------
Jobs ==
    {"startup", "training", "dashboard", "demo data", "live demo", "records", "export"}

all == <<job, vars, training, dashboard, demoData, liveDemo, records, export>>

OperationsInit ==
    /\ job \in Jobs
    /\ Init /\ T!Init /\ B!Init /\ D!Init /\ L!Init /\ I!Init /\ X!Init
    /\ job # "live demo" => program = L!FaultDemo /\ situation = "working"

Startup(A) ==
    /\ job = "startup" /\ A
    /\ UNCHANGED <<job, training, dashboard, demoData, liveDemo, records, export>>
LiveDemo(A) ==
    /\ job = "live demo" /\ A
    /\ UNCHANGED <<job, vars, training, dashboard, demoData, records, export>>

OperationsNext ==
    \/ Startup(Next)
    \/ /\ job = "training" /\ T!Next
       /\ UNCHANGED <<job, vars, dashboard, demoData, liveDemo, records, export>>
    \/ /\ job = "dashboard" /\ B!Next
       /\ UNCHANGED <<job, vars, training, demoData, liveDemo, records, export>>
    \/ /\ job = "demo data" /\ D!Next
       /\ UNCHANGED <<job, vars, training, dashboard, liveDemo, records, export>>
    \/ LiveDemo(L!Next)
    \/ /\ job = "records" /\ I!Next
       /\ UNCHANGED <<job, vars, training, dashboard, demoData, liveDemo, export>>
    \/ /\ job = "export" /\ X!Next
       /\ UNCHANGED <<job, vars, training, dashboard, demoData, liveDemo, records>>

\* The fairness of ServiceStartup and of LiveDemo, the two with liveness.
OperationsFairness ==
    /\ \A s \in Services :
          WF_all(Startup(\/ Connect(s) \/ ConnectFails(s) \/ LoseBroker(s)
                         \/ Reconnect(s) \/ Restart(s)))
    /\ WF_all(LiveDemo(L!Tick)) /\ SF_all(LiveDemo(L!Advance))
    /\ WF_all(LiveDemo(L!Store)) /\ WF_all(LiveDemo(L!Flow))
    /\ WF_all(LiveDemo(\/ L!PostAnswered \/ L!PostTimesOut \/ L!PostRefused
                       \/ L!StartSleep \/ L!ShowLast \/ L!End))

OperationsSpec == OperationsInit /\ [][OperationsNext]_all /\ OperationsFairness

-----------------------------------------------------------------------------
(* Properties, each of the part that bears it *)

\* The parts keep their types.
TypesOK ==
    /\ job = "startup" => TypeOK
    /\ job = "training" => T!TypeOK
    /\ job = "dashboard" => B!TypeOK
    /\ job = "demo data" => D!TypeOK
    /\ job = "live demo" => L!TypeOK

\* Consumers of telemetry come back when the broker stays up in the end
\* (ServiceStartup).
ConsumersComeBack == job = "startup" => ConsumersReturn

\* The AI service predicts only with models its own code trained to the targets
\* the script compares (ModelTraining).
ServesWhatPassed == job = "training" => T!ServesWhatPassed

\* The dashboard script leaves one dashboard of its name and the others alone
\* (DashboardSetup).
OneAfterAnother == job = "dashboard" => B!OneAfterAnother

\* The invented states are what the rules say of the invented telemetry
\* (DemoData).
StatesRestOnTelemetry == job = "demo data" => D!StatesRestOnTelemetry

\* A demonstration shows what it injected (LiveDemo).
ShownIsInjected == L!ShownIsInjected

\* A demonstration leaves no fault behind (LiveDemo).
TwinRecovers == job = "live demo" => L!TwinRecovers

\* Queries find what is written, but for the ones InfluxRecords names.
ReadersServed == job = "records" => I!ReadersServed

\* A notebook reported as exported is exported (NotebookExport).
ExportsAreCurrent == job = "export" => X!ExportsAreCurrent
=============================================================================
