---------------------------- MODULE ModelTraining ----------------------------
(***************************************************************************)
(* The five models of the AI service, from the commit they are trained on   *)
(* to the process that predicts with them.                                  *)
(*                                                                          *)
(* Building the service's image runs train_model.py, which saves two        *)
(* models, then two more, then the anomaly detector, and compares some of   *)
(* its measures with their targets.  Docker keeps the layer only when the   *)
(* script ends with status 0.  Compose makes a container from the image, or *)
(* starts the one there is again; its process loads the models once.        *)
(*                                                                          *)
(* How well a commit trains is data: the set of its measures that are on    *)
(* target.  SEED is fixed, so training a commit again gives the same.       *)
(***************************************************************************)
EXTENDS Naturals, Sequences, FiniteSets

Models == {"motor_health_clf", "dirt_level_clf", "health_state_clf",
           "rul_regressor", "anomaly_detector"}

Measures == {"motor_health_accuracy", "dirt_level_accuracy",
             "health_state_accuracy", "rul_r2",
             "anomaly_fault_detection", "anomaly_normal_pass"}

CONSTANTS
    Qualities,      \* the sets of measures on target a commit may train to
    MaxCommits,     \* bound: commits
    MaxStarts       \* bound: starts of the service's process

VARIABLES
    quality,    \* per commit, the measures on target
    builder,    \* the build that runs, if any: at most one
    image,      \* the service's image, if any: at most one
    container,  \* its container, if any: at most one
    process,    \* its process: phase and the globals of predictor.py
    starts

vars == <<quality, builder, image, container, process, starts>>

\* A model's file holds the commit that trained it; 0: there is no file.
Files == [Models -> 0..MaxCommits]
NoFiles == [m \in Models |-> 0]
Down == [phase |-> "down", loaded |-> FALSE, globals |-> NoFiles, failed |-> FALSE]

Init ==
    /\ quality = << >> /\ builder = {} /\ image = {} /\ container = {}
    /\ process = Down /\ starts = 0

-----------------------------------------------------------------------------
(* Training *)

Push(q) ==
    /\ Len(quality) < MaxCommits
    /\ quality' = Append(quality, q)
    /\ UNCHANGED <<builder, image, container, process, starts>>

StartBuild ==
    /\ builder = {} /\ quality # << >>
    /\ builder' = {[code |-> Len(quality), step |-> 1, models |-> NoFiles, results |-> {}]}
    /\ UNCHANGED <<quality, image, container, process, starts>>

\* One call of main: the models it saves and the measures it returns.
Trains(b, step, saved, measured) ==
    /\ b.step = step
    /\ builder' = {[b EXCEPT !.step = step + 1,
                             !.models = [m \in Models |-> IF m \in saved THEN b.code ELSE @[m]],
                             !.results = @ \cup (quality[b.code] \cap measured)]}
    /\ UNCHANGED <<quality, image, container, process, starts>>

TrainAndSave(b) ==
    Trains(b, 1, {"motor_health_clf", "dirt_level_clf"},
                 {"motor_health_accuracy", "dirt_level_accuracy"})
TrainAndSaveHw4(b) ==
    Trains(b, 2, {"health_state_clf", "rul_regressor"}, {"health_state_accuracy", "rul_r2"})
TrainAndSaveAnomaly(b) ==
    Trains(b, 3, {"anomaly_detector"}, {"anomaly_fault_detection", "anomaly_normal_pass"})

\* (slip) The R2 of the regressor is printed and not compared.
GatesWithoutRul == {"health_state_accuracy", "anomaly_fault_detection"}

\* The measures whose targets decide the exit status.
Gates == {"health_state_accuracy", "rul_r2", "anomaly_fault_detection"}

\* Training may also end with an exception after any of its calls.
ExitStatus(b) == IF b.step = 4 /\ Gates \subseteq b.results THEN 0 ELSE 1

FinishBuild(b) ==
    /\ image' = IF ExitStatus(b) = 0 THEN {[code |-> b.code, models |-> b.models]} ELSE image
    /\ builder' = {}
    /\ UNCHANGED <<quality, container, process, starts>>

-----------------------------------------------------------------------------
(* The service *)

Starts ==
    /\ starts < MaxStarts /\ starts' = starts + 1
    /\ process' = [Down EXCEPT !.phase = "starting"]

\* docker compose up: a new container when there is a new image.
Up(i) ==
    /\ container' = {i} /\ Starts
    /\ UNCHANGED <<quality, builder, image>>

\* restart: unless-stopped
Restart ==
    /\ container # {} /\ Starts
    /\ UNCHANGED <<quality, builder, image, container>>

\* The loads assign the globals one by one; an exception after some of them
\* leaves _loaded FALSE, and the service goes on with its rules.
Order == <<"motor_health_clf", "dirt_level_clf", "health_state_clf",
           "rul_regressor", "anomaly_detector">>

LoadModels(c) ==
    /\ process.phase = "starting"
    /\ \E n \in 0..(IF \A m \in Models : c.models[m] # 0 THEN Len(Order) ELSE 0) :
          process' = [phase |-> "serving", loaded |-> n = Len(Order),
                      globals |-> [m \in Models |->
                          IF \E i \in 1..n : Order[i] = m THEN c.models[m] ELSE 0],
                      failed |-> /\ n < Len(Order)
                                 /\ \A m \in Models : c.models[m] # 0]
    /\ UNCHANGED <<quality, builder, image, container, starts>>

-----------------------------------------------------------------------------
Next ==
    \/ \E q \in Qualities : Push(q)
    \/ StartBuild
    \/ \E b \in builder : TrainAndSave(b)
    \/ \E b \in builder : TrainAndSaveHw4(b)
    \/ \E b \in builder : TrainAndSaveAnomaly(b)
    \/ \E b \in builder : FinishBuild(b)
    \/ \E i \in image : Up(i)
    \/ Restart
    \/ \E c \in container : LoadModels(c)

Spec == Init /\ [][Next]_vars

-----------------------------------------------------------------------------
(* Properties *)

\* Build, image, container and process keep their types.
TypeOK ==
    /\ quality \in Seq(Qualities) /\ Len(quality) <= MaxCommits
    /\ \A b \in builder : /\ b.code \in 1..Len(quality) /\ b.step \in 1..4
                          /\ b.models \in Files /\ b.results \subseteq Measures
    /\ \A i \in image \cup container : i.code \in 1..Len(quality) /\ i.models \in Files
    /\ \A s \in {builder, image, container} : Cardinality(s) <= 1
    /\ process.phase \in {"down", "starting", "serving"}
    /\ process.loaded \in BOOLEAN /\ process.globals \in Files
    /\ starts \in 0..MaxStarts

\* A process that predicts with models runs the very code that trained all five,
\* whatever was pushed, built, failed and restarted in between ("cannot drift
\* from the code", docs/code-walkthrough.md:69), and that code met every target
\* the script compares: a build that failed never reaches the service.
ServesWhatPassed ==
    \A c \in container : process.loaded =>
        /\ \A m \in Models : process.globals[m] = c.code
        /\ {"health_state_accuracy", "rul_r2", "anomaly_fault_detection"} \subseteq quality[c.code]
=============================================================================
